--------------------------- MODULE RunLoopProofs ---------------------------
(***************************************************************************)
(* Proofs about the threaded run loop, for any number of threads, handlers *)
(* and descriptors.  The runs of MCRunLoop check the same formulas on      *)
(* small instances.                                                        *)
(***************************************************************************)
EXTENDS RunLoop, FiniteSetTheorems, TLAPS

Asleep == {"wait", "sleep"}

\* Where the background thread is while an entry of a descriptor is handled.
Dispatching == {"slots", "lock", "callback"} \cup Asleep
Notifying   == {"notify", "signal", "unlock"}

\* The pipe has a message when its entry fired, until the message was read,
\* and descriptors are handled after it.
EntryInv ==
  /\ pc[Bg] = "scan" /\ MessageFd \in revents => pipe # << >>
  /\ pc[Bg] \in Dispatching => MessageFd \notin revents
  /\ pollfds \subseteq slot_fds \cup {MessageFd}
  /\ revents \subseteq slot_fds \cup {MessageFd}

\* Slots are under dispatch only while the background thread dispatches, and
\* it exists only as long as the loop does.
DispatchInv ==
  /\ phase = "none" => pc[Bg] = "ended"
  /\ todo # {} => pc[Bg] \in Dispatching
  /\ running # None => pc[Bg] \in Dispatching \ {"slots"}

\* Who is owed an answer: the senders of the messages in the pipe, each of
\* one message, and the thread being notified.
SentBy(t) == \E i \in 1..Len(pipe) : pipe[i].thread = t

AnswerInv ==
  /\ \A t \in Threads : SentBy(t) => pc[t] \in Asleep /\ result[t] = "empty"
  /\ \A i, j \in 1..Len(pipe) :
       pipe[i].thread = pipe[j].thread => i = j \/ pipe[i].thread = None
  /\ pc[Bg] \in Notifying =>
       /\ answer.thread \in Threads
       /\ pc[answer.thread] \in Asleep
       /\ ~SentBy(answer.thread)
       /\ pc[Bg] = "notify" => result[answer.thread] = "empty"
       /\ pc[Bg] # "notify" => mutex[answer.thread] = Bg
  /\ \A t \in Threads : result[t] # "empty" => pc[t] \in Asleep

IInv ==
  /\ TypeOK
  /\ EntryInv
  /\ SlotMapsAgree
  /\ DispatchInv
  /\ DispatchOnlyRegistered
  /\ AnswerInv
-----------------------------------------------------------------------------
\* What a request does: its message, of the right type, is at the end of the
\* pipe and its sender waits.
LEMMA RequestSends ==
  ASSUME NEW t \in Threads, Request(t)
  PROVE  \E m \in Message :
           /\ m.thread = t
           /\ MaySend(t)
           /\ pipe' = Append(pipe, m)
           /\ pc' = [pc EXCEPT ![t] = "wait"]
           /\ UNCHANGED <<phase, guard, compl, tables, poll, disp, answer, readable>>
<1>1. CASE \E h \in EventHandlers, fd \in PlugFds : register_event_handler(t, h, fd)
  BY <1>1 DEF register_event_handler, Send, Message, MessageOf
<1>2. CASE \E h \in EventHandlers : unregister_event_handler(t, h)
  BY <1>2 DEF unregister_event_handler, Send, Message, MessageOf
<1>3. CASE \E h \in TimerHandlers, ms \in Intervals : register_timer(t, h, ms)
  BY <1>3 DEF register_timer, Send, Message, MessageOf
<1>4. CASE \E h \in TimerHandlers : unregister_timer(t, h)
  BY <1>4 DEF unregister_timer, Send, Message, MessageOf
<1> QED  BY <1>1, <1>2, <1>3, <1>4 DEF Request

\* What Bg reads from the pipe: there is a message, and one of that type.
LEMMA ReceiveTyped ==
  ASSUME NEW type, TypeOK, EntryInv, Receive(type)
  PROVE  /\ pipe # << >> /\ Head(pipe) \in Message \cup {QuitMessage}
         /\ Head(pipe).type = type
         /\ pipe' = Tail(pipe) /\ pipe' \in Seq(Message \cup {QuitMessage})
         /\ pc[Bg] = "scan"
BY DEF TypeOK, EntryInv, Receive, NextEntry

\* The part of the type invariant a processed message cannot disturb.
LEMMA ReplyTyped ==
  ASSUME TypeOK, NEW res \in Results, Reply(res), Head(pipe) \in Message,
         pipe' \in Seq(Message \cup {QuitMessage}),
         slot_by_handler' \in [Handlers -> Slot \cup {NoSlot}],
         slot_by_fd' \in [Fds -> SUBSET Handlers],
         slot_fds' \subseteq Fds,
         timer_fds' \in
           [TimerKeys -> [fd : TimerFds, count : Nat \ {0}] \cup {NoTimerFd}],
         pollfds_valid' \in BOOLEAN,
         readable' \subseteq Fds
  PROVE  TypeOK'
BY DEF TypeOK, Reply, Message, MessageOf, Threads, disp, compl

\* The slot maps keep their types when a slot comes or goes.
LEMMA SlotFd ==
  ASSUME NEW slot \in Slot
  PROVE  /\ slot.fd \in Fds /\ slot # NoSlot
         /\ slot.type \in {"fd", "timer"}
         /\ slot.type = "timer" => slot.interval \in Intervals
BY DEF Slot, Fds, NoSlot

SlotMapsTyped ==
  /\ slot_by_handler \in [Handlers -> Slot \cup {NoSlot}]
  /\ slot_by_fd \in [Fds -> SUBSET Handlers]
  /\ slot_fds \subseteq Fds

LEMMA AddSlotTyped ==
  ASSUME TypeOK, NEW h \in Handlers, NEW slot \in Slot, AddSlot(h, slot)
  PROVE  SlotMapsTyped'
BY SlotFd DEF TypeOK, AddSlot, SlotMapsTyped

LEMMA RemoveSlotTyped ==
  ASSUME TypeOK, NEW h \in Handlers, slot_by_handler[h] \in Slot, RemoveSlot(h)
  PROVE  SlotMapsTyped'
BY SlotFd DEF TypeOK, RemoveSlot, SlotMapsTyped

\* So does the map of timer descriptors.
TimerFdsTyped ==
  timer_fds \in [TimerKeys -> [fd : TimerFds, count : Nat \ {0}] \cup {NoTimerFd}]

LEMMA CreatedTyped ==
  ASSUME TypeOK, NEW k \in TimerKeys, NEW fd \in TimerFds, TimerFdCreated(k, fd)
  PROVE  TimerFdsTyped'
<1>1. timer_fds[k].count + 1 \in Nat \ {0}
  <2>1. CASE timer_fds[k] = NoTimerFd
    BY <2>1 DEF NoTimerFd
  <2>2. CASE timer_fds[k] \in [fd : TimerFds, count : Nat \ {0}]
    BY <2>2
  <2> QED  BY <2>1, <2>2 DEF TypeOK
<1>2. [fd |-> fd, count |-> timer_fds[k].count + 1] \in [fd : TimerFds, count : Nat \ {0}]
  BY <1>1
<1> QED  BY <1>2 DEF TimerFdCreated, TypeOK, TimerFdsTyped

LEMMA ReleasedTyped ==
  ASSUME TypeOK, NEW k \in TimerKeys, TimerFdReleased(k)
  PROVE  TimerFdsTyped' /\ readable' \subseteq Fds
<1>1. CASE timer_fds[k].count > 1 /\ timer_fds' = [timer_fds EXCEPT ![k].count = @ - 1]
  <2>1. timer_fds[k] \in [fd : TimerFds, count : Nat \ {0}]
    BY <1>1 DEF TypeOK, NoTimerFd
  <2>2. [timer_fds[k] EXCEPT !.count = @ - 1] \in [fd : TimerFds, count : Nat \ {0}]
    BY <1>1, <2>1
  <2>3. TimerFdsTyped'
    BY <1>1, <2>2 DEF TypeOK, TimerFdsTyped
  <2> QED  BY <2>3 DEF TimerFdReleased, TypeOK
<1>2. CASE timer_fds' = [timer_fds EXCEPT ![k] = NoTimerFd]
  BY <1>2 DEF TimerFdReleased, TypeOK, TimerFdsTyped
<1>3. CASE UNCHANGED timer_fds
  BY <1>3 DEF TimerFdReleased, TypeOK, TimerFdsTyped
<1> QED  BY <1>1, <1>2, <1>3 DEF TimerFdReleased

-----------------------------------------------------------------------------
\* The state keeps its types.
LEMMA TypeStep ==
  ASSUME TypeOK, EntryInv, [Next]_vars
  PROVE  TypeOK'
<1> USE ConstantsAssumption
<1>1. ASSUME NEW c \in Callers, Lifetime(c)  PROVE TypeOK'
  <2>1. CASE Instance(c)
    BY <2>1 DEF TypeOK, Instance, Threads, tables, poll, disp, compl
  <2>2. CASE Destroy(c)
    BY <2>2 DEF TypeOK, Destroy, Threads, tables, poll, disp, compl
  <2>3. CASE Join(c)
    BY <2>3 DEF TypeOK, Join, Threads, Fds, disp, compl
  <2> QED  BY <1>1, <2>1, <2>2, <2>3 DEF Lifetime
<1>2. ASSUME NEW c \in Callers, EnterGuard(c) \/ LeaveGuard(c)  PROVE TypeOK'
  BY <1>2 DEF TypeOK, EnterGuard, LeaveGuard, Threads, tables, poll, disp, compl
<1>3. ASSUME NEW t \in Threads, Request(t)  PROVE TypeOK'
  <2>1. PICK m \in Message :
          /\ pipe' = Append(pipe, m)
          /\ pc' = [pc EXCEPT ![t] = "wait"]
          /\ UNCHANGED <<phase, guard, compl, tables, poll, disp, answer, readable>>
    BY <1>3, RequestSends
  <2> QED  BY <2>1 DEF TypeOK, tables, poll, disp, compl
<1>4. ASSUME NEW t \in Threads, Wait(t)  PROVE TypeOK'
  BY <1>4 DEF TypeOK, Wait, WaitSleep, SpuriousWakeup, WaitReturn,
              tables, poll, disp, compl
<1>5. CASE Poll
  BY <1>5 DEF TypeOK, Poll, Threads, tables, disp, compl
<1>6. CASE ProcessMessage
  <2>1. CASE ProcessQuit
    BY <2>1 DEF TypeOK, EntryInv, ProcessQuit, Receive, NextEntry, Threads, tables,
                poll, disp, compl
  <2>0. ASSUME NEW m \in Message, m = Head(pipe), Refuse,
               pipe' \in Seq(Message \cup {QuitMessage})
        PROVE  TypeOK'
    BY <2>0, ReplyTyped DEF Refuse, TypeOK, Results, tables
  <2>2. CASE ProcessRegisterFd
    <3> DEFINE m == Head(pipe)
    <3>1. /\ m \in MessageOf("register_fd", EventHandlers, PlugFds)
          /\ pipe' \in Seq(Message \cup {QuitMessage})
      BY <2>2, ReceiveTyped
         DEF ProcessRegisterFd, Message, MessageOf, QuitMessage
    <3>2. CASE slot_by_handler[m.handler] # NoSlot
      BY <2>0, <2>2, <3>1, <3>2 DEF ProcessRegisterFd, Message
    <3>3. CASE slot_by_handler[m.handler] = NoSlot
      <4>1. /\ AddSlot(m.handler, [type |-> "fd", fd |-> m.data, interval |-> 0])
            /\ UNCHANGED <<timer_fds, readable>> /\ Accept
        BY <2>2, <3>3 DEF ProcessRegisterFd
      <4>2. /\ m.handler \in Handlers
            /\ [type |-> "fd", fd |-> m.data, interval |-> 0] \in Slot
        BY <3>1 DEF MessageOf, Handlers, Slot
      <4>3. SlotMapsTyped'
        BY <4>1, <4>2, AddSlotTyped
      <4> QED
        BY <3>1, <4>1, <4>3, ReplyTyped
           DEF Accept, TypeOK, SlotMapsTyped, Message, Results
    <3> QED  BY <3>2, <3>3
  <2>3. CASE ProcessUnregisterFd
    <3> DEFINE m == Head(pipe)
    <3>1. /\ m \in MessageOf("unregister_fd", EventHandlers, {0})
          /\ pipe' \in Seq(Message \cup {QuitMessage})
      BY <2>3, ReceiveTyped
         DEF ProcessUnregisterFd, Message, MessageOf, QuitMessage
    <3>2. CASE slot_by_handler[m.handler].type # "fd"
      BY <2>0, <2>3, <3>1, <3>2 DEF ProcessUnregisterFd, Message
    <3>3. CASE slot_by_handler[m.handler].type = "fd"
      <4>1. RemoveSlot(m.handler) /\ UNCHANGED <<timer_fds, readable>> /\ Accept
        BY <2>3, <3>3 DEF ProcessUnregisterFd
      <4>2. m.handler \in Handlers /\ slot_by_handler[m.handler] \in Slot
        BY <3>1, <3>3 DEF MessageOf, Handlers, NoSlot, TypeOK
      <4>3. SlotMapsTyped'
        BY <4>1, <4>2, RemoveSlotTyped
      <4> QED
        BY <3>1, <4>1, <4>3, ReplyTyped
           DEF Accept, TypeOK, SlotMapsTyped, Message, Results
    <3> QED  BY <3>2, <3>3
  <2>4. CASE ProcessRegisterTimer
    <3> DEFINE m == Head(pipe)
    <3>1. /\ m \in MessageOf("register_timer", TimerHandlers, Intervals)
          /\ pipe' \in Seq(Message \cup {QuitMessage})
      BY <2>4, ReceiveTyped
         DEF ProcessRegisterTimer, Message, MessageOf, QuitMessage
    <3>2. CASE slot_by_handler[m.handler] # NoSlot \/ NoTimerFdLeft(TimerKey(m.data))
      BY <2>0, <2>4, <3>1, <3>2 DEF ProcessRegisterTimer, Message
    <3>3. CASE ~(slot_by_handler[m.handler] # NoSlot
                  \/ NoTimerFdLeft(TimerKey(m.data)))
      <4>1. PICK fd \in TimerFds :
              /\ TimerFdCreated(TimerKey(m.data), fd)
              /\ AddSlot(m.handler,
                         [type |-> "timer", fd |-> fd, interval |-> m.data])
              /\ UNCHANGED readable
              /\ Accept
        BY <2>4, <3>3 DEF ProcessRegisterTimer
      <4>2. /\ m.handler \in Handlers /\ TimerKey(m.data) \in TimerKeys
            /\ [type |-> "timer", fd |-> fd, interval |-> m.data] \in Slot
        BY <3>1 DEF MessageOf, Handlers, Slot, TimerKeys
      <4>3. SlotMapsTyped' /\ TimerFdsTyped'
        BY <4>1, <4>2, AddSlotTyped, CreatedTyped
      <4> QED
        BY <3>1, <4>1, <4>3, ReplyTyped
           DEF Accept, TypeOK, SlotMapsTyped, TimerFdsTyped, Message, Results
    <3> QED  BY <3>2, <3>3
  <2>5. CASE ProcessUnregisterTimer
    <3> DEFINE m == Head(pipe)
    <3>1. /\ m \in MessageOf("unregister_timer", TimerHandlers, {0})
          /\ pipe' \in Seq(Message \cup {QuitMessage})
      BY <2>5, ReceiveTyped
         DEF ProcessUnregisterTimer, Message, MessageOf, QuitMessage
    <3>2. CASE slot_by_handler[m.handler].type # "timer"
      BY <2>0, <2>5, <3>1, <3>2 DEF ProcessUnregisterTimer, Message
    <3>3. CASE slot_by_handler[m.handler].type = "timer"
      <4>1. /\ TimerFdReleased(slot_by_handler[m.handler].interval)
            /\ RemoveSlot(m.handler) /\ Accept
        BY <2>5, <3>3 DEF ProcessUnregisterTimer
      <4>2. m.handler \in Handlers /\ slot_by_handler[m.handler] \in Slot
        BY <3>1, <3>3 DEF MessageOf, Handlers, NoSlot, TypeOK
      <4>3. slot_by_handler[m.handler].interval \in TimerKeys
        BY <4>2, <3>3, SlotFd DEF TimerKeys
      <4>4. SlotMapsTyped' /\ TimerFdsTyped' /\ readable' \subseteq Fds
        BY <4>1, <4>2, <4>3, RemoveSlotTyped, ReleasedTyped
      <4> QED
        BY <3>1, <4>1, <4>4, ReplyTyped
           DEF Accept, TypeOK, SlotMapsTyped, TimerFdsTyped, Message, Results
    <3> QED  BY <3>2, <3>3
  <2> QED  BY <1>6, <2>1, <2>2, <2>3, <2>4, <2>5 DEF ProcessMessage
<1>7. CASE Notify
  <2>1. CASE NotifyStore
    BY <2>1 DEF TypeOK, NotifyStore, Threads, tables, poll, disp
  <2>2. CASE NotifySignal
    BY <2>2 DEF TypeOK, NotifySignal, Threads, tables, poll, disp, compl
  <2>3. CASE NotifyUnlock
    BY <2>3 DEF TypeOK, NotifyUnlock, EntryDone, NoAnswer, Threads, tables, disp
  <2> QED  BY <1>7, <2>1, <2>2, <2>3 DEF Notify
<1>8. CASE Dispatch
  <2>1. ASSUME NEW fd \in Fds, DispatchFd(fd)  PROVE TypeOK'
    BY <2>1 DEF TypeOK, DispatchFd, Threads, tables, poll, compl
  <2>2. ASSUME NEW fd \in Fds, DispatchDone(fd)  PROVE TypeOK'
    BY <2>2 DEF TypeOK, DispatchDone, EntryDone, Threads, tables, disp, compl
  <2>3. ASSUME NEW h \in Handlers, DispatchSlot(h)  PROVE TypeOK'
    BY <2>3 DEF TypeOK, DispatchSlot, Threads, tables, poll, compl
  <2>4. CASE CallbackReturn
    BY <2>4 DEF TypeOK, CallbackReturn, Threads, tables, poll, compl
  <2> QED  BY <1>8, <2>1, <2>2, <2>3, <2>4 DEF Dispatch
<1>9. CASE LockGuard
  BY <1>9 DEF TypeOK, LockGuard, Threads, tables, poll, disp, compl
<1>10. CASE Environment
  <2>1. ASSUME NEW fd \in Fds, FdReady(fd)  PROVE TypeOK'
    BY <2>1 DEF TypeOK, FdReady, Fds, tables, poll, disp, compl
  <2>2. ASSUME NEW fd \in Fds, TimerExpires(fd)  PROVE TypeOK'
    BY <2>2 DEF TypeOK, TimerExpires, Fds, tables, poll, disp, compl
  <2> QED  BY <1>10, <2>1, <2>2 DEF Environment
<1>11. CASE UNCHANGED vars
  BY <1>11 DEF TypeOK, vars, tables, poll, disp, compl
<1> QED
  BY <1>1, <1>2, <1>3, <1>4, <1>5, <1>6, <1>7, <1>8, <1>9, <1>10, <1>11 DEF Next

-----------------------------------------------------------------------------
\* What the four kinds of requests have in common when they are processed.
Requested == ProcessRegisterFd \/ ProcessUnregisterFd
               \/ ProcessRegisterTimer \/ ProcessUnregisterTimer

LEMMA RequestedStep ==
  ASSUME TypeOK, EntryInv, Requested
  PROVE  /\ pc[Bg] = "scan" /\ MessageFd \in revents
         /\ pipe # << >> /\ Head(pipe) \in Message /\ pipe' = Tail(pipe)
         /\ answer'.thread = Head(pipe).thread
         /\ pc' = [pc EXCEPT ![Bg] = "notify"]
         /\ UNCHANGED <<phase, guard, compl, pollfds, revents, disp>>
         /\ slot_fds \subseteq slot_fds'
<1>1. \E type \in {"register_fd", "unregister_fd", "register_timer", "unregister_timer"},
        res \in Results : Receive(type) /\ Reply(res)
  BY DEF Requested, ProcessRegisterFd, ProcessUnregisterFd, ProcessRegisterTimer,
         ProcessUnregisterTimer, Refuse, Accept, Results
<1>2. slot_fds \subseteq slot_fds'
  BY DEF Requested, ProcessRegisterFd, ProcessUnregisterFd, ProcessRegisterTimer,
         ProcessUnregisterTimer, AddSlot, RemoveSlot, Refuse, tables
<1>3. MessageFd \in revents
  BY <1>1 DEF Receive, NextEntry
<1> QED
  BY <1>1, <1>2, <1>3, ReceiveTyped DEF Reply, QuitMessage

\* The poll array names only keys of the slot map, and the pipe has a message
\* while its entry is to be handled.
LEMMA EntryStep ==
  ASSUME TypeOK, EntryInv, [Next]_vars
  PROVE  EntryInv'
<1> USE ConstantsAssumption DEF EntryInv
<1>1. ASSUME NEW c \in Callers, Lifetime(c)  PROVE EntryInv'
  BY <1>1 DEF Lifetime, Instance, Destroy, Join, TypeOK, Dispatching, Asleep, Threads,
              tables, poll
<1>2. ASSUME NEW c \in Callers, EnterGuard(c) \/ LeaveGuard(c)  PROVE EntryInv'
  BY <1>2 DEF EnterGuard, LeaveGuard, tables, poll
<1>3. ASSUME NEW t \in Threads, Request(t)  PROVE EntryInv'
  <2>1. PICK m \in Message :
          /\ MaySend(t)
          /\ pipe' = Append(pipe, m)
          /\ pc' = [pc EXCEPT ![t] = "wait"]
          /\ UNCHANGED <<phase, guard, compl, tables, poll, disp, answer, readable>>
    BY <1>3, RequestSends
  <2> QED
    BY <2>1 DEF MaySend, TypeOK, Dispatching, Asleep, Threads, tables, poll
<1>4. ASSUME NEW t \in Threads, Wait(t)  PROVE EntryInv'
  <2>1. /\ pc[t] \in Asleep
        /\ \E where \in {"wait", "sleep", "callback", "idle"} :
             pc' = [pc EXCEPT ![t] = where]
        /\ pc'[Bg] # "scan" \/ pc[Bg] = "scan"
        /\ UNCHANGED <<pipe, slot_fds, pollfds, revents>>
    BY <1>4 DEF Wait, WaitSleep, SpuriousWakeup, WaitReturn, TypeOK, Asleep, tables, poll,
                Threads
  <2> QED  BY <2>1 DEF TypeOK, Dispatching, Asleep
<1>5. CASE Poll
  BY <1>5 DEF Poll, Fired, TypeOK, Dispatching, Asleep, Threads, tables
<1>6. CASE ProcessMessage
  <2>1. CASE ProcessQuit
    BY <2>1 DEF ProcessQuit, TypeOK, Dispatching, Asleep, Threads, tables, poll
  <2>2. CASE Requested
    BY <2>2, RequestedStep DEF TypeOK, Dispatching, Asleep, Threads
  <2> QED  BY <1>6, <2>1, <2>2 DEF ProcessMessage, Requested
<1>7. CASE Notify
  BY <1>7 DEF Notify, NotifyStore, NotifySignal, NotifyUnlock, EntryDone, TypeOK,
              Dispatching, Asleep, Threads, tables, poll
<1>8. CASE Dispatch
  <2>1. ASSUME NEW fd \in Fds, DispatchFd(fd)  PROVE EntryInv'
    BY <2>1 DEF DispatchFd, NextEntry, MessageFd, Fds, TypeOK, Threads, tables, poll
  <2>2. ASSUME NEW fd \in Fds, DispatchDone(fd)  PROVE EntryInv'
    BY <2>2 DEF DispatchDone, EntryDone, TypeOK, Dispatching, Asleep, Threads, tables
  <2>3. ASSUME NEW h \in Handlers, DispatchSlot(h)  PROVE EntryInv'
    BY <2>3 DEF DispatchSlot, TypeOK, Dispatching, Asleep, Threads, tables, poll
  <2>4. CASE CallbackReturn
    BY <2>4 DEF CallbackReturn, TypeOK, Dispatching, Asleep, Threads, tables, poll
  <2> QED  BY <1>8, <2>1, <2>2, <2>3, <2>4 DEF Dispatch
<1>9. CASE LockGuard
  BY <1>9 DEF LockGuard, TypeOK, Dispatching, Asleep, Threads, tables, poll
<1>10. CASE Environment
  BY <1>10 DEF Environment, FdReady, TimerExpires, tables, poll
<1>11. CASE UNCHANGED vars
  BY <1>11 DEF vars, tables, poll
<1> QED
  BY <1>1, <1>2, <1>3, <1>4, <1>5, <1>6, <1>7, <1>8, <1>9, <1>10, <1>11 DEF Next

\* Adding or removing a slot changes both maps alike.
LEMMA AddSlotAgrees ==
  ASSUME TypeOK, SlotMapsAgree, NEW h \in Handlers, NEW slot \in Slot,
         slot_by_handler[h] = NoSlot, AddSlot(h, slot)
  PROVE  SlotMapsAgree'
<1> SUFFICES ASSUME NEW g \in Handlers, NEW fd \in Fds
             PROVE  /\ g \in slot_by_fd'[fd] <=> slot_by_handler'[g].fd = fd
                    /\ slot_by_handler'[g].fd = fd => fd \in slot_fds'
  BY DEF SlotMapsAgree
<1>1. h \notin slot_by_fd[fd]
  BY ConstantsAssumption DEF SlotMapsAgree, NoSlot, NoFd, Fds
<1>2. slot.fd \in Fds
  BY SlotFd
<1>3. /\ slot_by_handler'[g] = IF g = h THEN slot ELSE slot_by_handler[g]
      /\ slot_by_fd'[fd] = IF fd = slot.fd THEN slot_by_fd[fd] \cup {h}
                                           ELSE slot_by_fd[fd]
      /\ slot_fds' = slot_fds \cup {slot.fd}
  BY <1>2 DEF AddSlot, TypeOK
<1>4. /\ g \in slot_by_fd[fd] <=> slot_by_handler[g].fd = fd
      /\ slot_by_handler[g].fd = fd => fd \in slot_fds
  BY DEF SlotMapsAgree
<1> QED
  BY <1>1, <1>3, <1>4

LEMMA RemoveSlotAgrees ==
  ASSUME TypeOK, SlotMapsAgree, NEW h \in Handlers, slot_by_handler[h] \in Slot,
         RemoveSlot(h)
  PROVE  SlotMapsAgree'
<1> SUFFICES ASSUME NEW g \in Handlers, NEW fd \in Fds
             PROVE  /\ g \in slot_by_fd'[fd] <=> slot_by_handler'[g].fd = fd
                    /\ slot_by_handler'[g].fd = fd => fd \in slot_fds'
  BY DEF SlotMapsAgree
<1>1. NoSlot.fd # fd
  BY ConstantsAssumption DEF NoSlot, NoFd, Fds
<1>2. slot_by_handler[h].fd \in Fds
  BY SlotFd
<1>3. /\ slot_by_handler'[g] = IF g = h THEN NoSlot ELSE slot_by_handler[g]
      /\ slot_by_fd'[fd] = IF fd = slot_by_handler[h].fd THEN slot_by_fd[fd] \ {h}
                                                         ELSE slot_by_fd[fd]
      /\ slot_fds' = slot_fds \cup {slot_by_handler[h].fd}
  BY <1>2 DEF RemoveSlot, TypeOK
<1>4. /\ g \in slot_by_fd[fd] <=> slot_by_handler[g].fd = fd
      /\ slot_by_handler[g].fd = fd => fd \in slot_fds
  BY DEF SlotMapsAgree
<1> QED
  BY <1>1, <1>3, <1>4

LEMMA MapsStep ==
  ASSUME TypeOK, EntryInv, SlotMapsAgree, [Next]_vars
  PROVE  SlotMapsAgree'
<1> USE ConstantsAssumption
<1>1. CASE UNCHANGED tables
  BY <1>1 DEF SlotMapsAgree, tables
<1>2. ASSUME NEW c \in Callers, Join(c)  PROVE SlotMapsAgree'
  BY <1>2 DEF Join, SlotMapsAgree, NoSlot, NoFd, Fds
<1>3. CASE Requested
  <2>1. Head(pipe) \in Message
    BY <1>3, RequestedStep
  <2>2. CASE ProcessRegisterFd
    <3>1. Head(pipe) \in MessageOf("register_fd", EventHandlers, PlugFds)
      BY <2>1, <2>2 DEF ProcessRegisterFd, Receive, Message, MessageOf
    <3>2. CASE slot_by_handler[Head(pipe).handler] # NoSlot
      BY <1>1, <2>2, <3>2 DEF ProcessRegisterFd, Refuse
    <3>3. CASE slot_by_handler[Head(pipe).handler] = NoSlot
      BY <2>2, <3>1, <3>3, AddSlotAgrees
         DEF ProcessRegisterFd, MessageOf, Slot, Handlers
    <3> QED  BY <3>2, <3>3
  <2>3. CASE ProcessUnregisterFd
    <3>1. Head(pipe) \in MessageOf("unregister_fd", EventHandlers, {0})
      BY <2>1, <2>3 DEF ProcessUnregisterFd, Receive, Message, MessageOf
    <3>2. CASE slot_by_handler[Head(pipe).handler].type # "fd"
      BY <1>1, <2>3, <3>2 DEF ProcessUnregisterFd, Refuse
    <3>3. CASE slot_by_handler[Head(pipe).handler].type = "fd"
      BY <2>3, <3>1, <3>3, RemoveSlotAgrees
         DEF ProcessUnregisterFd, MessageOf, NoSlot, Handlers, TypeOK
    <3> QED  BY <3>2, <3>3
  <2>4. CASE ProcessRegisterTimer
    <3>1. Head(pipe) \in MessageOf("register_timer", TimerHandlers, Intervals)
      BY <2>1, <2>4 DEF ProcessRegisterTimer, Receive, Message, MessageOf
    <3>2. CASE slot_by_handler[Head(pipe).handler] # NoSlot
               \/ NoTimerFdLeft(TimerKey(Head(pipe).data))
      BY <1>1, <2>4, <3>2 DEF ProcessRegisterTimer, Refuse
    <3>3. CASE slot_by_handler[Head(pipe).handler] = NoSlot
               /\ ~NoTimerFdLeft(TimerKey(Head(pipe).data))
      BY <2>4, <3>1, <3>3, AddSlotAgrees
         DEF ProcessRegisterTimer, MessageOf, Slot, Handlers
    <3> QED  BY <3>2, <3>3
  <2>5. CASE ProcessUnregisterTimer
    <3>1. Head(pipe) \in MessageOf("unregister_timer", TimerHandlers, {0})
      BY <2>1, <2>5 DEF ProcessUnregisterTimer, Receive, Message, MessageOf
    <3>2. CASE slot_by_handler[Head(pipe).handler].type # "timer"
      BY <1>1, <2>5, <3>2 DEF ProcessUnregisterTimer, Refuse
    <3>3. CASE slot_by_handler[Head(pipe).handler].type = "timer"
      BY <2>5, <3>1, <3>3, RemoveSlotAgrees
         DEF ProcessUnregisterTimer, MessageOf, NoSlot, Handlers, TypeOK
    <3> QED  BY <3>2, <3>3
  <2> QED  BY <1>3, <2>2, <2>3, <2>4, <2>5 DEF Requested
<1>4. \/ UNCHANGED tables \/ Requested \/ \E c \in Callers : Join(c)
  <2>1. ASSUME NEW t \in Threads, Request(t)  PROVE UNCHANGED tables
    BY <2>1, RequestSends
  <2> QED
    BY <2>1 DEF Next, Lifetime, Instance, Destroy, EnterGuard, LeaveGuard, Wait, WaitSleep,
                SpuriousWakeup, WaitReturn, Poll, ProcessMessage, Requested, ProcessQuit,
                Notify, NotifyStore, NotifySignal, NotifyUnlock, Dispatch, DispatchFd,
                DispatchSlot, CallbackReturn, DispatchDone, LockGuard, Environment,
                FdReady, TimerExpires, vars
<1> QED  BY <1>1, <1>2, <1>3, <1>4

-----------------------------------------------------------------------------
\* Slots are under dispatch only where the background thread dispatches: the
\* places that change the slots are others.
LEMMA DispatchInvStep ==
  ASSUME TypeOK, EntryInv, DispatchInv, [Next]_vars
  PROVE  DispatchInv'
<1> USE ConstantsAssumption DEF DispatchInv
<1>1. ASSUME NEW c \in Callers, Lifetime(c)  PROVE DispatchInv'
  BY <1>1 DEF Lifetime, Instance, Destroy, Join, TypeOK, Dispatching, Asleep, Threads, disp
<1>2. ASSUME NEW c \in Callers, EnterGuard(c) \/ LeaveGuard(c)  PROVE DispatchInv'
  BY <1>2 DEF EnterGuard, LeaveGuard, disp
<1>3. ASSUME NEW t \in Threads, Request(t)  PROVE DispatchInv'
  <2>1. /\ MaySend(t)
        /\ pc' = [pc EXCEPT ![t] = "wait"]
        /\ UNCHANGED <<phase, disp>>
    BY <1>3, RequestSends
  <2> QED  BY <2>1 DEF MaySend, TypeOK, Dispatching, Asleep, Threads, disp
<1>4. ASSUME NEW t \in Threads, Wait(t)  PROVE DispatchInv'
  <2>1. /\ pc[t] \in Asleep
        /\ \E where \in {"wait", "sleep", "callback", "idle"} :
             pc' = [pc EXCEPT ![t] = where] /\ (t = Bg => where # "idle")
        /\ UNCHANGED <<phase, disp>>
    BY <1>4 DEF Wait, WaitSleep, SpuriousWakeup, WaitReturn, TypeOK, Asleep
  <2> QED  BY <2>1 DEF TypeOK, Dispatching, Asleep, disp
<1>5. CASE Poll
  BY <1>5 DEF Poll, TypeOK, Dispatching, Asleep, Threads, disp
<1>6. CASE ProcessMessage
  <2>1. CASE ProcessQuit
    BY <2>1 DEF ProcessQuit, Receive, TypeOK, Dispatching, Asleep, Threads, disp
  <2>2. CASE Requested
    BY <2>2, RequestedStep DEF TypeOK, Dispatching, Asleep, Threads, disp
  <2> QED  BY <1>6, <2>1, <2>2 DEF ProcessMessage, Requested
<1>7. CASE Notify
  BY <1>7 DEF Notify, NotifyStore, NotifySignal, NotifyUnlock, EntryDone, TypeOK,
              Dispatching, Asleep, Threads, disp
<1>8. CASE Dispatch
  <2>1. ASSUME NEW fd \in Fds, DispatchFd(fd)  PROVE DispatchInv'
    BY <2>1 DEF DispatchFd, TypeOK, Dispatching, Asleep, Threads
  <2>2. ASSUME NEW fd \in Fds, DispatchDone(fd)  PROVE DispatchInv'
    BY <2>2 DEF DispatchDone, EntryDone, TypeOK, Dispatching, Asleep, Threads, disp
  <2>3. ASSUME NEW h \in Handlers, DispatchSlot(h)  PROVE DispatchInv'
    BY <2>3 DEF DispatchSlot, TypeOK, Dispatching, Asleep, Threads
  <2>4. CASE CallbackReturn
    BY <2>4 DEF CallbackReturn, TypeOK, Dispatching, Asleep, Threads
  <2> QED  BY <1>8, <2>1, <2>2, <2>3, <2>4 DEF Dispatch
<1>9. CASE LockGuard
  BY <1>9 DEF LockGuard, TypeOK, Dispatching, Asleep, Threads, disp
<1>10. CASE Environment
  BY <1>10 DEF Environment, FdReady, TimerExpires, disp
<1>11. CASE UNCHANGED vars
  BY <1>11 DEF vars, disp
<1> QED
  BY <1>1, <1>2, <1>3, <1>4, <1>5, <1>6, <1>7, <1>8, <1>9, <1>10, <1>11 DEF Next

\* The slots under dispatch stay registered: while there are any, no message
\* is processed, and the dispatch starts from the slots of one descriptor.
LEMMA RegisteredStep ==
  ASSUME TypeOK, EntryInv, SlotMapsAgree, DispatchInv, DispatchOnlyRegistered, [Next]_vars
  PROVE  DispatchOnlyRegistered'
<1> USE ConstantsAssumption
<1>1. CASE UNCHANGED <<slot_by_handler, disp>>
  BY <1>1 DEF DispatchOnlyRegistered, disp
<1>2. CASE todo = {} /\ running = None /\ UNCHANGED disp
  BY <1>2 DEF DispatchOnlyRegistered, disp
<1>3. ASSUME NEW fd \in Fds, DispatchFd(fd)  PROVE DispatchOnlyRegistered'
  <2>1. running = None
    BY <1>3 DEF DispatchFd, DispatchInv, Dispatching, Asleep
  <2>2. \A h \in slot_by_fd[fd] : slot_by_handler[h].fd = fd
    BY DEF SlotMapsAgree, TypeOK
  <2>3. NoSlot.fd # fd
    BY DEF NoSlot, NoFd, Fds
  <2> QED  BY <1>3, <2>1, <2>2, <2>3 DEF DispatchFd, DispatchOnlyRegistered, tables
<1>4. ASSUME NEW h \in Handlers, DispatchSlot(h)  PROVE DispatchOnlyRegistered'
  BY <1>4 DEF DispatchSlot, DispatchOnlyRegistered, tables
<1>5. CASE CallbackReturn
  BY <1>5 DEF CallbackReturn, DispatchOnlyRegistered, tables
<1>6. CASE Requested
  BY <1>2, <1>6, RequestedStep DEF DispatchInv, Dispatching, Asleep
<1>7. ASSUME NEW c \in Callers, Join(c)  PROVE DispatchOnlyRegistered'
  BY <1>2, <1>7 DEF Join, DispatchInv, Dispatching, Asleep
<1>8. ASSUME NEW t \in Threads, Request(t)  PROVE DispatchOnlyRegistered'
  BY <1>1, <1>8, RequestSends DEF tables
<1> QED
  BY <1>1, <1>3, <1>4, <1>5, <1>6, <1>7, <1>8
     DEF Next, Lifetime, Instance, Destroy, EnterGuard, LeaveGuard, Wait, WaitSleep,
         SpuriousWakeup, WaitReturn, Poll, ProcessMessage, Requested, ProcessQuit, Notify,
         NotifyStore, NotifySignal, NotifyUnlock, Dispatch, DispatchDone, LockGuard,
         Environment, FdReady, TimerExpires, vars, tables

-----------------------------------------------------------------------------
\* The senders of a pipe that gets a message at its end, or loses its head.
LEMMA SentAppended ==
  ASSUME NEW S, pipe \in Seq(S), NEW m \in S, pipe' = Append(pipe, m), NEW t
  PROVE  SentBy(t)' <=> SentBy(t) \/ m.thread = t
BY DEF SentBy

LEMMA SentRead ==
  ASSUME NEW S, pipe \in Seq(S), pipe # << >>, pipe' = Tail(pipe), NEW t
  PROVE  SentBy(t)' => SentBy(t)
BY DEF SentBy

\* A thread that has not asked, and what it may do without disturbing the
\* answers owed to the others.
LEMMA AnswerStep ==
  ASSUME TypeOK, EntryInv, DispatchInv, AnswerInv, [Next]_vars
  PROVE  AnswerInv'
<1> USE ConstantsAssumption
<1>0. pipe \in Seq(Message \cup {QuitMessage})
  BY DEF TypeOK
<1>1. ASSUME NEW c \in Callers, Lifetime(c)  PROVE AnswerInv'
  <2>1. CASE Instance(c)
    <3>1. ~SentBy(Bg) /\ result[Bg] = "empty"
      BY <2>1 DEF Instance, DispatchInv, AnswerInv, Asleep, Threads
    <3>2. \A t \in Threads : SentBy(t)' <=> SentBy(t)
      BY <2>1 DEF Instance, SentBy
    <3> QED
      BY <2>1, <3>1, <3>2
         DEF Instance, DispatchInv, AnswerInv, TypeOK, Notifying, Asleep, Threads, compl
  <2>2. CASE Destroy(c)
    <3>1. \A t \in Threads : SentBy(t)' <=> SentBy(t)
      BY <1>0, <2>2, SentAppended DEF Destroy, QuitMessage
    <3>2. \A i, j \in 1..Len(pipe') :
            pipe'[i].thread = pipe'[j].thread => i = j \/ pipe'[i].thread = None
      BY <1>0, <2>2 DEF Destroy, QuitMessage, AnswerInv
    <3> QED
      BY <2>2, <3>1, <3>2 DEF Destroy, AnswerInv, TypeOK, Notifying, Asleep, Threads, compl
  <2>3. CASE Join(c)
    BY <2>3 DEF Join, AnswerInv, TypeOK, Notifying, Asleep, Threads, SentBy, compl
  <2> QED  BY <1>1, <2>1, <2>2, <2>3 DEF Lifetime
<1>2. ASSUME NEW c \in Callers, EnterGuard(c) \/ LeaveGuard(c)  PROVE AnswerInv'
  BY <1>2 DEF EnterGuard, LeaveGuard, AnswerInv, SentBy, compl
<1>3. ASSUME NEW t \in Threads, Request(t)  PROVE AnswerInv'
  <2>1. PICK m \in Message :
          /\ m.thread = t
          /\ MaySend(t)
          /\ pipe' = Append(pipe, m)
          /\ pc' = [pc EXCEPT ![t] = "wait"]
          /\ UNCHANGED <<phase, guard, compl, tables, poll, disp, answer, readable>>
    BY <1>3, RequestSends
  <2>2. \A u \in Threads : SentBy(u)' <=> SentBy(u) \/ u = t
    BY <1>0, <2>1, SentAppended
  <2>3. pc[t] \notin Asleep
    BY <2>1 DEF MaySend, Asleep
  <2>4. ~SentBy(t) /\ result[t] = "empty"
    BY <2>3 DEF AnswerInv
  <2>5. \A i, j \in 1..Len(pipe') :
          pipe'[i].thread = pipe'[j].thread => i = j \/ pipe'[i].thread = None
    BY <1>0, <2>1, <2>4 DEF AnswerInv, SentBy
  <2> QED
    BY <2>1, <2>2, <2>3, <2>4, <2>5 DEF AnswerInv, TypeOK, Notifying, Asleep, Threads, compl
<1>4. ASSUME NEW t \in Threads, Wait(t)  PROVE AnswerInv'
  <2>1. CASE WaitSleep(t) \/ SpuriousWakeup(t)
    BY <2>1 DEF WaitSleep, SpuriousWakeup, AnswerInv, TypeOK, Notifying, Asleep, Threads,
                SentBy, compl
  <2>2. CASE WaitReturn(t)
    <3>1. ~SentBy(t) /\ (pc[Bg] \in Notifying => answer.thread # t)
      BY <2>2 DEF WaitReturn, AnswerInv, Notifying, Threads
    <3>2. \A u \in Threads : SentBy(u)' <=> SentBy(u)
      BY <2>2 DEF WaitReturn, SentBy
    <3> QED
      BY <2>2, <3>1, <3>2
         DEF WaitReturn, AnswerInv, TypeOK, Notifying, Asleep, Threads
  <2> QED  BY <1>4, <2>1, <2>2 DEF Wait
<1>5. CASE Poll
  BY <1>5 DEF Poll, AnswerInv, TypeOK, Notifying, Asleep, Threads, SentBy, compl
<1>6. CASE ProcessMessage
  <2>1. CASE ProcessQuit
    <3>1. /\ pipe # << >> /\ pipe' = Tail(pipe) /\ pc[Bg] = "scan"
          /\ pc' = [pc EXCEPT ![Bg] = "ended"] /\ UNCHANGED compl
      BY <2>1, ReceiveTyped DEF ProcessQuit
    <3>2. \A t \in Threads : SentBy(t)' => SentBy(t)
      BY <1>0, <3>1, SentRead
    <3>3. \A i, j \in 1..Len(pipe') :
            pipe'[i].thread = pipe'[j].thread => i = j \/ pipe'[i].thread = None
      BY <1>0, <3>1 DEF AnswerInv
    <3> QED
      BY <3>1, <3>2, <3>3 DEF AnswerInv, TypeOK, Notifying, Asleep, Threads, compl
  <2>2. CASE Requested
    <3> DEFINE m == Head(pipe)
    <3>1. /\ pc[Bg] = "scan" /\ pipe # << >> /\ m \in Message /\ pipe' = Tail(pipe)
          /\ answer'.thread = m.thread
          /\ pc' = [pc EXCEPT ![Bg] = "notify"] /\ UNCHANGED compl
      BY <2>2, RequestedStep
    <3>2. \A t \in Threads : SentBy(t)' => SentBy(t)
      BY <1>0, <3>1, SentRead
    <3>3. \A i, j \in 1..Len(pipe') :
            pipe'[i].thread = pipe'[j].thread => i = j \/ pipe'[i].thread = None
      BY <1>0, <3>1 DEF AnswerInv
    <3>4. m.thread \in Threads /\ m.thread # None
      BY <3>1 DEF Message, MessageOf
    <3>5. SentBy(m.thread)
      BY <1>0, <3>1 DEF SentBy
    <3>6. ASSUME NEW u \in Threads, u = m.thread  PROVE ~SentBy(u)'
      <4> SUFFICES ASSUME NEW i \in 1..Len(pipe'), pipe'[i].thread = u
                   PROVE  FALSE
        BY DEF SentBy
      <4>1. /\ i + 1 \in 1..Len(pipe) /\ 1 \in 1..Len(pipe)
            /\ pipe'[i] = pipe[i + 1] /\ m = pipe[1]
        BY <1>0, <3>1
      <4>2. i + 1 = 1
        BY <3>4, <3>6, <4>1 DEF AnswerInv
      <4> QED  BY <4>2
    <3>7. m.thread # Bg
      BY <3>1, <3>4, <3>5 DEF AnswerInv, Asleep
    <3> QED
      <4>1. \A t \in Threads : t # Bg => pc'[t] = pc[t]
        BY <3>1 DEF TypeOK
      <4>2. pc'[Bg] = "notify" /\ pc[Bg] \notin Asleep
        BY <3>1 DEF TypeOK, Asleep, Threads
      <4>3. \A t \in Threads :
              /\ SentBy(t)' => pc'[t] \in Asleep /\ result'[t] = "empty"
              /\ result'[t] # "empty" => pc'[t] \in Asleep
        BY <3>1, <3>2, <4>1, <4>2 DEF AnswerInv, compl
      <4>4. /\ answer'.thread \in Threads /\ ~SentBy(answer.thread)'
            /\ pc'[answer'.thread] \in Asleep /\ result'[answer'.thread] = "empty"
        BY <3>1, <3>4, <3>5, <3>6, <3>7, <4>1 DEF AnswerInv, SentBy, compl
      <4> QED
        BY <3>3, <4>2, <4>3, <4>4 DEF AnswerInv
  <2> QED  BY <1>6, <2>1, <2>2 DEF ProcessMessage, Requested
<1>7. CASE Notify
  <2>1. \A t \in Threads : SentBy(t)' <=> SentBy(t)
    BY <1>7 DEF Notify, NotifyStore, NotifySignal, NotifyUnlock, SentBy
  <2>2. CASE NotifyStore
    BY <2>1, <2>2 DEF NotifyStore, AnswerInv, TypeOK, Notifying, Asleep, Threads
  <2>3. CASE NotifySignal
    BY <2>1, <2>3 DEF NotifySignal, AnswerInv, TypeOK, Notifying, Asleep, Threads, compl
  <2>4. CASE NotifyUnlock
    BY <2>1, <2>4 DEF NotifyUnlock, EntryDone, AnswerInv, TypeOK, Notifying, Asleep, Threads
  <2> QED  BY <1>7, <2>2, <2>3, <2>4 DEF Notify
<1>8. CASE Dispatch
  <2>1. ASSUME NEW fd \in Fds, DispatchFd(fd)  PROVE AnswerInv'
    BY <2>1 DEF DispatchFd, AnswerInv, TypeOK, Notifying, Asleep, Threads, SentBy, compl
  <2>2. ASSUME NEW fd \in Fds, DispatchDone(fd)  PROVE AnswerInv'
    BY <2>2 DEF DispatchDone, EntryDone, AnswerInv, TypeOK, Notifying, Asleep, Threads,
                SentBy, compl
  <2>3. ASSUME NEW h \in Handlers, DispatchSlot(h)  PROVE AnswerInv'
    BY <2>3 DEF DispatchSlot, AnswerInv, TypeOK, Notifying, Asleep, Threads, SentBy, compl
  <2>4. CASE CallbackReturn
    BY <2>4 DEF CallbackReturn, AnswerInv, TypeOK, Notifying, Asleep, Threads, SentBy, compl
  <2> QED  BY <1>8, <2>1, <2>2, <2>3, <2>4 DEF Dispatch
<1>9. CASE LockGuard
  BY <1>9 DEF LockGuard, AnswerInv, TypeOK, Notifying, Asleep, Threads, SentBy, compl
<1>10. CASE Environment
  BY <1>10 DEF Environment, FdReady, TimerExpires, AnswerInv, SentBy, compl
<1>11. CASE UNCHANGED vars
  BY <1>11 DEF vars, AnswerInv, SentBy, compl
<1> QED
  BY <1>1, <1>2, <1>3, <1>4, <1>5, <1>6, <1>7, <1>8, <1>9, <1>10, <1>11 DEF Next

-----------------------------------------------------------------------------
\* The inductive invariant.  Type correctness alone is not inductive: that a
\* processed message exists rests on EntryInv.
THEOREM Invariance == Spec => []IInv
<1>1. Init => IInv
  <2> SUFFICES ASSUME Init  PROVE IInv
    OBVIOUS
  <2>1. TypeOK
    <3>1. pc \in [Threads -> {"idle", "join", "wait", "sleep", "poll", "scan", "notify",
                              "signal", "unlock", "slots", "lock", "callback", "ended"}]
      BY DEF Init
    <3>2. answer \in [thread : Threads \cup {None}, result : Results \cup {"empty"}]
      BY DEF Init, NoAnswer
    <3>3. pipe \in Seq(Message \cup {QuitMessage})
      BY DEF Init
    <3>4. /\ slot_by_handler \in [Handlers -> Slot \cup {NoSlot}]
          /\ slot_by_fd \in [Fds -> SUBSET Handlers]
          /\ timer_fds \in
               [TimerKeys -> [fd : TimerFds, count : Nat \ {0}] \cup {NoTimerFd}]
      BY DEF Init
    <3>5. result \in [Threads -> Results \cup {"empty"}] /\ mutex \in [Threads -> {Bg, None}]
      BY DEF Init
    <3> QED  BY <3>1, <3>2, <3>3, <3>4, <3>5 DEF Init, TypeOK
  <2>2. EntryInv /\ DispatchInv
    BY ConstantsAssumption DEF Init, EntryInv, DispatchInv, Dispatching, Asleep, Threads
  <2>3. SlotMapsAgree
    BY ConstantsAssumption DEF Init, SlotMapsAgree, NoSlot, NoFd, Fds
  <2>4. DispatchOnlyRegistered
    BY DEF Init, DispatchOnlyRegistered
  <2>5. AnswerInv
    BY DEF Init, AnswerInv, SentBy, Notifying, Threads
  <2> QED  BY <2>1, <2>2, <2>3, <2>4, <2>5 DEF IInv
<1>2. IInv /\ [Next]_vars => IInv'
  BY TypeStep, EntryStep, MapsStep, DispatchInvStep, RegisteredStep, AnswerStep DEF IInv
<1> QED  BY <1>1, <1>2, PTL DEF Spec

\* The state of the loop keeps its types.
THEOREM TypeCorrect == Spec => []TypeOK
BY Invariance, PTL DEF IInv

\* The two slot maps agree at every moment.
THEOREM SlotMapsAlwaysAgree == Spec => []SlotMapsAgree
BY Invariance, PTL DEF IInv

\* No handler is dispatched, or about to be, unless it is registered: what an
\* unregister request that has returned guarantees its caller.
THEOREM NoDispatchAfterUnregister == Spec => []DispatchOnlyRegistered
BY Invariance, PTL DEF IInv

\* The lookup of the slots of a descriptor that fired never fails.
THEOREM LookupNeverFails == Spec => []SlotSetFound
<1>1. IInv => SlotSetFound
  BY DEF IInv, EntryInv, SlotSetFound
<1> QED  BY <1>1, Invariance, PTL

\* The completion being notified is still on its sender's stack.
THEOREM NotifiedCompletionAlive == Spec => []CompletionAlive
<1>1. IInv => CompletionAlive
  BY DEF IInv, AnswerInv, CompletionAlive, Notifying, Asleep
<1> QED  BY <1>1, Invariance, PTL

-----------------------------------------------------------------------------
(***************************************************************************)
(* That every request has one answer, that descriptors of timers are       *)
(* counted, and that the loop implements RunLoopService.                   *)
(***************************************************************************)
\* Who waits has a message in the pipe, an answer that is being handed over,
\* or a result; there is an answer while the background thread notifies, and
\* it is the result once that was stored.
OwedInv ==
  /\ answer.thread # None <=> pc[Bg] \in Notifying
  /\ pc[Bg] \in Notifying => answer.result \in Results
  /\ pc[Bg] \notin Notifying => answer.result = "empty"
  /\ pc[Bg] \in {"signal", "unlock"} => result[answer.thread] = answer.result
  /\ \A t \in Threads :
       pc[t] \in Asleep => SentBy(t) \/ answer.thread = t \/ result[t] # "empty"

\* The background thread holds the guard for the callback of a handler.
CallInv ==
  /\ running # None <=> pc[Bg] \in {"lock", "callback"} \cup Asleep
  /\ guard = Bg <=> pc[Bg] \in {"callback"} \cup Asleep

\* When the destructor runs everything is unregistered and nobody asks.
QuitInv ==
  /\ phase = "quitting" =>
       /\ \A h \in Handlers : slot_by_handler[h] = NoSlot
       /\ \A i \in 1..Len(pipe) : pipe[i] = QuitMessage
  /\ \A c, d \in Callers : pc[c] = "join" => phase = "quitting" /\ (pc[d] = "join" => d = c)

\* A handler has a slot of its kind.
KindInv ==
  /\ \A h \in EventHandlers : slot_by_handler[h].type # "timer"
  /\ \A h \in TimerHandlers : slot_by_handler[h].type # "fd"

ServiceInv == IInv /\ OwedInv /\ CallInv /\ QuitInv /\ KindInv

\* The count of a period and its timers; a period that no descriptor is
\* created with has none.
CountedOf(k) ==
  /\ IsFiniteSet(TimerUsers(k))
  /\ timer_fds[k].count >= Cardinality(TimerUsers(k))
  /\ k > 1 => timer_fds[k].count = Cardinality(TimerUsers(k))
  /\ \A h \in TimerUsers(k) : slot_by_handler[h].fd = timer_fds[k].fd
  /\ k < 1 => timer_fds[k] = NoTimerFd

CountInv == \A k \in TimerKeys : CountedOf(k)
-----------------------------------------------------------------------------
(***************************************************************************)
(* One answer for each request.                                            *)
(***************************************************************************)
\* Who sent a message and is not its sender still has one in what remains.
LEMMA SentRemains ==
  ASSUME NEW S, pipe \in Seq(S), pipe # << >>, pipe' = Tail(pipe), NEW t
  PROVE  SentBy(t) => SentBy(t)' \/ Head(pipe).thread = t
<1> SUFFICES ASSUME NEW i \in 1..Len(pipe), pipe[i].thread = t
             PROVE  SentBy(t)' \/ Head(pipe).thread = t
  BY DEF SentBy
<1>1. CASE i = 1
  BY <1>1
<1>2. CASE i # 1
  <2>1. i - 1 \in 1..Len(pipe') /\ pipe'[i - 1] = pipe[i]
    BY <1>2
  <2> QED  BY <2>1 DEF SentBy
<1> QED  BY <1>1, <1>2

\* The answer of a processed request.
LEMMA RequestedReplies ==
  ASSUME TypeOK, EntryInv, Requested
  PROVE  answer' = [thread |-> Head(pipe).thread, result |-> answer'.result]
         /\ answer'.result \in Results
<1>1. \E res \in Results : Reply(res)
  BY DEF Requested, ProcessRegisterFd, ProcessUnregisterFd, ProcessRegisterTimer,
         ProcessUnregisterTimer, Refuse, Accept, Results
<1> QED  BY <1>1 DEF Reply

LEMMA QuitReceived ==
  ASSUME TypeOK, EntryInv, ProcessQuit
  PROVE  /\ pipe # << >> /\ pipe' = Tail(pipe) /\ Head(pipe) = QuitMessage
         /\ pc[Bg] = "scan" /\ pc' = [pc EXCEPT ![Bg] = "ended"]
         /\ UNCHANGED <<phase, guard, compl, tables, poll, disp, answer, readable>>
<1>1. /\ pipe # << >> /\ Head(pipe) \in Message \cup {QuitMessage}
      /\ Head(pipe).type = "quit" /\ pipe' = Tail(pipe) /\ pc[Bg] = "scan"
  BY ReceiveTyped DEF ProcessQuit
<1>2. Head(pipe) \notin Message
  BY <1>1 DEF Message, MessageOf
<1> QED  BY <1>1, <1>2 DEF ProcessQuit

LEMMA OwedStep ==
  ASSUME IInv, OwedInv, [Next]_vars
  PROVE  OwedInv'
<1> USE ConstantsAssumption DEF IInv
<1>0. pipe \in Seq(Message \cup {QuitMessage})
  BY DEF TypeOK
<1>1. ASSUME NEW c \in Callers, Lifetime(c)  PROVE OwedInv'
  <2>1. CASE Instance(c)
    <3>1. pc[Bg] = "ended" /\ \A t \in Threads : SentBy(t)' <=> SentBy(t)
      BY <2>1 DEF Instance, DispatchInv, SentBy
    <3> QED
      BY <2>1, <3>1 DEF Instance, OwedInv, TypeOK, Notifying, Asleep, Threads, compl
  <2>2. CASE Destroy(c)
    <3>1. \A t \in Threads : SentBy(t)' <=> SentBy(t)
      BY <1>0, <2>2, SentAppended DEF Destroy, QuitMessage
    <3> QED
      BY <2>2, <3>1 DEF Destroy, OwedInv, TypeOK, Notifying, Asleep, Threads, compl
  <2>3. CASE Join(c)
    <3>1. \A t \in Threads : SentBy(t)' <=> SentBy(t)
      BY <2>3 DEF Join, SentBy
    <3> QED
      BY <2>3, <3>1 DEF Join, OwedInv, TypeOK, Notifying, Asleep, Threads, compl
  <2> QED  BY <1>1, <2>1, <2>2, <2>3 DEF Lifetime
<1>2. ASSUME NEW c \in Callers, EnterGuard(c) \/ LeaveGuard(c)  PROVE OwedInv'
  BY <1>2 DEF EnterGuard, LeaveGuard, OwedInv, SentBy, compl
<1>3. ASSUME NEW t \in Threads, Request(t)  PROVE OwedInv'
  <2>1. PICK m \in Message :
          /\ m.thread = t
          /\ MaySend(t)
          /\ pipe' = Append(pipe, m)
          /\ pc' = [pc EXCEPT ![t] = "wait"]
          /\ UNCHANGED <<phase, guard, compl, tables, poll, disp, answer, readable>>
    BY <1>3, RequestSends
  <2>2. \A u \in Threads : SentBy(u)' <=> SentBy(u) \/ u = t
    BY <1>0, <2>1, SentAppended
  <2>3. pc[Bg] \in Notifying <=> pc'[Bg] \in Notifying
    BY <2>1 DEF MaySend, Notifying, TypeOK, Threads
  <2>4. pc[Bg] \in {"signal", "unlock"} <=> pc'[Bg] \in {"signal", "unlock"}
    BY <2>1 DEF MaySend, TypeOK, Threads
  <2> QED
    BY <2>1, <2>2, <2>3, <2>4 DEF OwedInv, TypeOK, compl
<1>4. ASSUME NEW t \in Threads, Wait(t)  PROVE OwedInv'
  <2>0. \A u \in Threads : SentBy(u)' <=> SentBy(u)
    BY <1>4 DEF Wait, WaitSleep, SpuriousWakeup, WaitReturn, SentBy
  <2>1. CASE WaitSleep(t) \/ SpuriousWakeup(t)
    BY <2>0, <2>1 DEF WaitSleep, SpuriousWakeup, OwedInv, TypeOK, Notifying, Asleep, Threads, compl
  <2>2. CASE WaitReturn(t)
    <3>1. pc[Bg] \in Notifying => answer.thread # t
      BY <2>2 DEF WaitReturn, AnswerInv, Notifying, Threads
    <3> QED
      BY <2>0, <2>2, <3>1 DEF WaitReturn, OwedInv, TypeOK, Notifying, Asleep, Threads
  <2> QED  BY <1>4, <2>1, <2>2 DEF Wait
<1>5. CASE Poll
  BY <1>5 DEF Poll, OwedInv, TypeOK, Notifying, Asleep, Threads, SentBy, compl
<1>6. CASE ProcessMessage
  <2>1. CASE ProcessQuit
    <3>1. \A t \in Threads : SentBy(t) => SentBy(t)'
      BY <1>0, <2>1, QuitReceived, SentRemains DEF QuitMessage
    <3> QED
      BY <2>1, <3>1, QuitReceived DEF OwedInv, TypeOK, Notifying, Asleep, Threads, compl
  <2>2. CASE Requested
    <3>1. /\ pc[Bg] = "scan" /\ pipe # << >> /\ Head(pipe) \in Message /\ pipe' = Tail(pipe)
          /\ answer'.thread = Head(pipe).thread /\ answer'.result \in Results
          /\ pc' = [pc EXCEPT ![Bg] = "notify"] /\ UNCHANGED compl
      BY <2>2, RequestedStep, RequestedReplies
    <3>2. \A t \in Threads : SentBy(t) => SentBy(t)' \/ answer'.thread = t
      BY <1>0, <3>1, SentRemains
    <3>3. Head(pipe).thread \in Threads
      BY <3>1 DEF Message, MessageOf
    <3>4. pc'[Bg] = "notify" /\ \A t \in Threads : pc'[t] \in Asleep => pc[t] \in Asleep
      BY <3>1 DEF TypeOK, Asleep, Threads
    <3>5. answer.thread = None
      BY <3>1 DEF OwedInv, Notifying
    <3> QED
      BY <3>1, <3>2, <3>3, <3>4, <3>5 DEF OwedInv, Notifying, compl
  <2> QED  BY <1>6, <2>1, <2>2 DEF ProcessMessage, Requested
<1>7. CASE Notify
  <2>1. \A t \in Threads : SentBy(t)' <=> SentBy(t)
    BY <1>7 DEF Notify, NotifyStore, NotifySignal, NotifyUnlock, SentBy
  <2>2. CASE NotifyStore
    BY <2>1, <2>2 DEF NotifyStore, OwedInv, TypeOK, Results, Notifying, Asleep, Threads
  <2>3. CASE NotifySignal
    <3>1. pc'[Bg] = "unlock" /\ \A t \in Threads : pc'[t] \in Asleep => pc[t] \in Asleep
      BY <2>3 DEF NotifySignal, TypeOK, Asleep, Threads, AnswerInv, Notifying
    <3> QED
      BY <2>1, <2>3, <3>1 DEF NotifySignal, OwedInv, Notifying, compl
  <2>4. CASE NotifyUnlock
    <3>1. /\ pc'[Bg] \in {"poll", "scan"} /\ answer' = NoAnswer /\ UNCHANGED result
          /\ \A t \in Threads : pc'[t] \in Asleep => pc[t] \in Asleep
      BY <2>4 DEF NotifyUnlock, EntryDone, TypeOK, Asleep, Threads
    <3>2. result[answer.thread] \in Results
      BY <2>4 DEF NotifyUnlock, OwedInv, Notifying
    <3> QED
      BY <2>1, <3>1, <3>2 DEF OwedInv, Notifying, NoAnswer, Results
  <2> QED  BY <1>7, <2>2, <2>3, <2>4 DEF Notify
<1>8. CASE Dispatch
  <2>1. ASSUME NEW fd \in Fds, DispatchFd(fd)  PROVE OwedInv'
    BY <2>1 DEF DispatchFd, OwedInv, TypeOK, Notifying, Asleep, Threads, SentBy, compl
  <2>2. ASSUME NEW fd \in Fds, DispatchDone(fd)  PROVE OwedInv'
    BY <2>2 DEF DispatchDone, EntryDone, OwedInv, TypeOK, Notifying, Asleep, Threads,
                SentBy, compl
  <2>3. ASSUME NEW h \in Handlers, DispatchSlot(h)  PROVE OwedInv'
    BY <2>3 DEF DispatchSlot, OwedInv, TypeOK, Notifying, Asleep, Threads, SentBy, compl
  <2>4. CASE CallbackReturn
    BY <2>4 DEF CallbackReturn, OwedInv, TypeOK, Notifying, Asleep, Threads, SentBy, compl
  <2> QED  BY <1>8, <2>1, <2>2, <2>3, <2>4 DEF Dispatch
<1>9. CASE LockGuard
  BY <1>9 DEF LockGuard, OwedInv, TypeOK, Notifying, Asleep, Threads, SentBy, compl
<1>10. CASE Environment
  BY <1>10 DEF Environment, FdReady, TimerExpires, OwedInv, SentBy, compl
<1>11. CASE UNCHANGED vars
  BY <1>11 DEF vars, OwedInv, SentBy, compl
<1> QED
  BY <1>1, <1>2, <1>3, <1>4, <1>5, <1>6, <1>7, <1>8, <1>9, <1>10, <1>11 DEF Next

\* Of the three places of a request it is in exactly one.
LEMMA OneAnswer ==
  ASSUME IInv, OwedInv
  PROVE  OneAnswerPerRequest
<1> USE ConstantsAssumption
<1> SUFFICES ASSUME NEW t \in Threads
             PROVE  Cardinality({i \in 1..Len(pipe) : pipe[i].thread = t})
                      + (IF answer.thread = t \/ result[t] # "empty" THEN 1 ELSE 0)
                    = IF pc[t] \in {"wait", "sleep"} THEN 1 ELSE 0
  BY DEF OneAnswerPerRequest
<1> DEFINE sent == {i \in 1..Len(pipe) : pipe[i].thread = t}
<1>1. answer.thread = t => pc[Bg] \in Notifying /\ pc[t] \in Asleep /\ ~SentBy(t)
  BY DEF OwedInv, IInv, AnswerInv, Threads
<1>2. CASE SentBy(t)
  <2>1. pc[t] \in Asleep /\ result[t] = "empty" /\ answer.thread # t
    BY <1>1, <1>2 DEF IInv, AnswerInv
  <2>2. PICK i \in 1..Len(pipe) : pipe[i].thread = t
    BY <1>2 DEF SentBy
  <2>3. sent = {i}
    BY <2>2 DEF IInv, AnswerInv, Threads
  <2>4. Cardinality(sent) = 1
    BY <2>3, FS_Singleton
  <2>5. ~(answer.thread = t \/ result[t] # "empty") /\ pc[t] \in {"wait", "sleep"}
    BY <2>1 DEF Asleep
  <2> QED  BY <2>4, <2>5
<1>3. CASE ~SentBy(t)
  <2>1. sent = {}
    BY <1>3 DEF SentBy
  <2>2. Cardinality(sent) = 0
    BY <2>1, FS_EmptySet
  <2>3. answer.thread = t \/ result[t] # "empty" <=> pc[t] \in Asleep
    BY <1>1, <1>3 DEF OwedInv, IInv, AnswerInv
  <2> QED  BY <2>2, <2>3 DEF Asleep
<1> QED  BY <1>2, <1>3

-----------------------------------------------------------------------------
(***************************************************************************)
(* Callbacks and the end of the loop.                                      *)
(***************************************************************************)
LEMMA CallStep ==
  ASSUME IInv, CallInv, [Next]_vars
  PROVE  CallInv'
<1> USE ConstantsAssumption DEF IInv, CallInv
<1>1. ASSUME NEW c \in Callers, Lifetime(c)  PROVE CallInv'
  BY <1>1 DEF Lifetime, Instance, Destroy, Join, DispatchInv, TypeOK, Asleep, Threads, disp
<1>2. ASSUME NEW c \in Callers, EnterGuard(c) \/ LeaveGuard(c)  PROVE CallInv'
  BY <1>2 DEF EnterGuard, LeaveGuard, Threads, disp
<1>3. ASSUME NEW t \in Threads, Request(t)  PROVE CallInv'
  <2>1. /\ MaySend(t)
        /\ pc' = [pc EXCEPT ![t] = "wait"]
        /\ UNCHANGED <<guard, disp>>
    BY <1>3, RequestSends
  <2> QED  BY <2>1 DEF MaySend, TypeOK, Asleep, Threads, disp
<1>4. ASSUME NEW t \in Threads, Wait(t)  PROVE CallInv'
  <2>1. /\ pc[t] \in Asleep
        /\ \E where \in {"wait", "sleep", "callback", "idle"} :
             pc' = [pc EXCEPT ![t] = where] /\ (t = Bg => where # "idle")
        /\ UNCHANGED <<guard, disp>>
    BY <1>4 DEF Wait, WaitSleep, SpuriousWakeup, WaitReturn, TypeOK, Asleep
  <2> QED  BY <2>1 DEF TypeOK, Asleep, Threads, disp
<1>5. CASE Poll
  BY <1>5 DEF Poll, TypeOK, Asleep, Threads, disp
<1>6. CASE ProcessMessage
  <2>1. CASE ProcessQuit
    BY <2>1, QuitReceived DEF TypeOK, Asleep, Threads, disp
  <2>2. CASE Requested
    BY <2>2, RequestedStep DEF TypeOK, Asleep, Threads, disp
  <2> QED  BY <1>6, <2>1, <2>2 DEF ProcessMessage, Requested
<1>7. CASE Notify
  BY <1>7 DEF Notify, NotifyStore, NotifySignal, NotifyUnlock, EntryDone, TypeOK, Asleep,
              Threads, disp
<1>8. CASE Dispatch
  <2>1. ASSUME NEW fd \in Fds, DispatchFd(fd)  PROVE CallInv'
    BY <2>1 DEF DispatchFd, TypeOK, Asleep, Threads
  <2>2. ASSUME NEW fd \in Fds, DispatchDone(fd)  PROVE CallInv'
    BY <2>2 DEF DispatchDone, EntryDone, TypeOK, Asleep, Threads, disp
  <2>3. ASSUME NEW h \in Handlers, DispatchSlot(h)  PROVE CallInv'
    BY <2>3 DEF DispatchSlot, TypeOK, Asleep, Threads
  <2>4. CASE CallbackReturn
    BY <2>4 DEF CallbackReturn, TypeOK, Asleep, Threads
  <2> QED  BY <1>8, <2>1, <2>2, <2>3, <2>4 DEF Dispatch
<1>9. CASE LockGuard
  BY <1>9 DEF LockGuard, TypeOK, Asleep, Threads, disp
<1>10. CASE Environment
  BY <1>10 DEF Environment, FdReady, TimerExpires, disp
<1>11. CASE UNCHANGED vars
  BY <1>11 DEF vars, disp
<1> QED
  BY <1>1, <1>2, <1>3, <1>4, <1>5, <1>6, <1>7, <1>8, <1>9, <1>10, <1>11 DEF Next

\* Steps that add no message and leave the slots and the phase alone.
LEMMA QuitUntouched ==
  ASSUME QuitInv, UNCHANGED <<phase, slot_by_handler, pipe>>,
         \A c \in Callers : pc'[c] = "join" => pc[c] = "join"
  PROVE  QuitInv'
BY DEF QuitInv

LEMMA QuitStep ==
  ASSUME IInv, CallInv, QuitInv, [Next]_vars
  PROVE  QuitInv'
<1> USE ConstantsAssumption DEF IInv
<1>0. pipe \in Seq(Message \cup {QuitMessage})
  BY DEF TypeOK
<1>1. ASSUME NEW c \in Callers, Lifetime(c)  PROVE QuitInv'
  <2>1. CASE Instance(c)
    BY <2>1 DEF Instance, QuitInv, TypeOK, Threads, tables
  <2>2. CASE Destroy(c)
    <3>1. running = None
      BY <2>2 DEF Destroy, DispatchOnlyRegistered, TypeOK
    <3>2. \A t \in Threads : pc[t] \notin Asleep
      BY <2>2, <3>1 DEF Destroy, CallInv, Asleep, Threads
    <3>3. \A i \in 1..Len(pipe) : pipe[i] = QuitMessage
      <4> SUFFICES ASSUME NEW i \in 1..Len(pipe), pipe[i] \in Message  PROVE FALSE
        BY <1>0
      <4>1. pipe[i].thread \in Threads
        BY DEF Message, MessageOf
      <4> QED  BY <3>2, <4>1 DEF AnswerInv, SentBy
    <3>4. \A i \in 1..Len(pipe') : pipe'[i] = QuitMessage
      BY <1>0, <2>2, <3>3 DEF Destroy
    <3> QED
      BY <2>2, <3>4 DEF Destroy, QuitInv, tables
  <2>3. CASE Join(c)
    <3>1. \A d \in Callers : pc[d] = "join" => d = c
      BY <2>3 DEF Join, QuitInv
    <3> QED
      BY <2>3, <3>1 DEF Join, QuitInv, TypeOK, Threads
  <2> QED  BY <1>1, <2>1, <2>2, <2>3 DEF Lifetime
<1>2. ASSUME NEW c \in Callers, EnterGuard(c) \/ LeaveGuard(c)  PROVE QuitInv'
  BY <1>2, QuitUntouched DEF EnterGuard, LeaveGuard, tables
<1>3. ASSUME NEW t \in Threads, Request(t)  PROVE QuitInv'
  <2>1. /\ MaySend(t)
        /\ pc' = [pc EXCEPT ![t] = "wait"]
        /\ UNCHANGED <<phase, tables>>
    BY <1>3, RequestSends
  <2>2. phase # "quitting"
    <3>1. CASE t = Bg
      <4>1. running # None
        BY <2>1, <3>1 DEF MaySend, CallInv
      <4> QED  BY <4>1 DEF DispatchOnlyRegistered, QuitInv, TypeOK
    <3> QED  BY <2>1, <3>1 DEF MaySend
  <2> QED  BY <2>1, <2>2 DEF QuitInv, TypeOK
<1>4. ASSUME NEW t \in Threads, Wait(t)  PROVE QuitInv'
  <2>1. /\ \E where \in {"wait", "sleep", "callback", "idle"} : pc' = [pc EXCEPT ![t] = where]
        /\ UNCHANGED <<phase, pipe, tables>>
    BY <1>4 DEF Wait, WaitSleep, SpuriousWakeup, WaitReturn
  <2> QED  BY <2>1, QuitUntouched DEF TypeOK, Threads, tables
<1>5. CASE Poll
  BY <1>5, QuitUntouched DEF Poll, TypeOK, Threads, tables
<1>6. CASE ProcessMessage
  <2>1. CASE ProcessQuit
    <3>1. \A i \in 1..Len(pipe') : i + 1 \in 1..Len(pipe) /\ pipe'[i] = pipe[i + 1]
      BY <1>0, <2>1, QuitReceived
    <3> QED
      BY <2>1, <3>1, QuitReceived DEF QuitInv, TypeOK, Threads, tables
  <2>2. CASE Requested
    <3>1. phase # "quitting"
      <4> SUFFICES ASSUME phase = "quitting"  PROVE FALSE
        OBVIOUS
      <4>1. pipe # << >> /\ Head(pipe) \in Message
        BY <2>2, RequestedStep
      <4>2. Head(pipe) = QuitMessage
        BY <1>0, <4>1 DEF QuitInv
      <4> QED  BY <4>1, <4>2 DEF Message, MessageOf, QuitMessage
    <3>2. UNCHANGED phase /\ pc' = [pc EXCEPT ![Bg] = "notify"]
      BY <2>2, RequestedStep
    <3> QED
      BY <3>1, <3>2 DEF QuitInv, TypeOK, Threads
  <2> QED  BY <1>6, <2>1, <2>2 DEF ProcessMessage, Requested
<1>7. CASE Notify
  BY <1>7, QuitUntouched DEF Notify, NotifyStore, NotifySignal, NotifyUnlock, EntryDone, TypeOK,
              Threads, tables
<1>8. CASE Dispatch
  BY <1>8, QuitUntouched DEF Dispatch, DispatchFd, DispatchDone, EntryDone, DispatchSlot,
              CallbackReturn, TypeOK, Threads, tables
<1>9. CASE LockGuard
  BY <1>9, QuitUntouched DEF LockGuard, TypeOK, Threads, tables
<1>10. CASE Environment
  BY <1>10, QuitUntouched DEF Environment, FdReady, TimerExpires, tables
<1>11. CASE UNCHANGED vars
  BY <1>11, QuitUntouched DEF vars, tables
<1> QED
  BY <1>1, <1>2, <1>3, <1>4, <1>5, <1>6, <1>7, <1>8, <1>9, <1>10, <1>11 DEF Next

\* What becomes of the slots when a request is processed: nothing, or its
\* handler gets a slot of its kind, or loses the one it has.
Slotted(h, slot) == slot_by_handler' = [slot_by_handler EXCEPT ![h] = slot]

Served(m, res) ==
  \/ /\ m.type \in {"register_fd", "register_timer"} /\ res = "V3_OK"
     /\ slot_by_handler[m.handler] = NoSlot
     /\ \E slot \in Slot : /\ slot.type = "fd" <=> m.type = "register_fd"
                           /\ Slotted(m.handler, slot)
  \/ /\ m.type \in {"register_fd", "register_timer"} /\ res = "V3_FALSE"
     /\ slot_by_handler[m.handler] # NoSlot \/ m.type = "register_timer"
     /\ UNCHANGED slot_by_handler
  \/ /\ m.type \in {"unregister_fd", "unregister_timer"} /\ res = "V3_OK"
     /\ slot_by_handler[m.handler] # NoSlot
     /\ Slotted(m.handler, NoSlot)
  \/ /\ m.type \in {"unregister_fd", "unregister_timer"} /\ res = "V3_FALSE"
     /\ slot_by_handler[m.handler] = NoSlot
     /\ UNCHANGED slot_by_handler

\* Handlers of messages are of the message's kind.
LEMMA MessageKinds ==
  ASSUME NEW m \in Message
  PROVE  /\ m.type \in {"register_fd", "unregister_fd", "register_timer", "unregister_timer"}
         /\ m.type \in {"register_fd", "unregister_fd"} <=> m.handler \in EventHandlers
         /\ m.type \in {"register_timer", "unregister_timer"} <=> m.handler \in TimerHandlers
         /\ m.handler \in Handlers /\ m.thread \in Threads
         /\ m.type = "register_fd" => m.data \in PlugFds
         /\ m.type = "register_timer" => m.data \in Intervals
BY ConstantsAssumption DEF Message, MessageOf, Handlers

LEMMA RequestedServed ==
  ASSUME TypeOK, EntryInv, KindInv, Requested
  PROVE  Served(Head(pipe), answer'.result)
<1> DEFINE m == Head(pipe)
<1>1. m \in Message
  BY RequestedStep
<1>2. /\ slot_by_handler[m.handler] \in Slot \cup {NoSlot}
      /\ slot_by_handler[m.handler] # NoSlot =>
           slot_by_handler[m.handler].type \in {"fd", "timer"}
  BY <1>1, MessageKinds, SlotFd DEF TypeOK
<1>3. CASE ProcessRegisterFd
  <2>1. m.type = "register_fd"
    BY <1>3 DEF ProcessRegisterFd, Receive
  <2>2. CASE slot_by_handler[m.handler] # NoSlot
    BY <1>3, <2>1, <2>2 DEF ProcessRegisterFd, Refuse, Reply, Served, tables
  <2>3. CASE slot_by_handler[m.handler] = NoSlot
    <3>1. /\ [type |-> "fd", fd |-> m.data, interval |-> 0] \in Slot
          /\ Slotted(m.handler, [type |-> "fd", fd |-> m.data, interval |-> 0])
          /\ answer'.result = "V3_OK"
      BY <1>1, <1>3, <2>1, <2>3, MessageKinds
         DEF ProcessRegisterFd, AddSlot, Accept, Reply, Slotted, Slot
    <3> QED  BY <2>1, <2>3, <3>1 DEF Served
  <2> QED  BY <2>2, <2>3
<1>4. CASE ProcessUnregisterFd
  <2>1. m.type = "unregister_fd" /\ slot_by_handler[m.handler].type # "timer"
    BY <1>1, <1>4, MessageKinds DEF ProcessUnregisterFd, Receive, KindInv
  <2>2. CASE slot_by_handler[m.handler].type # "fd"
    <3>1. slot_by_handler[m.handler] = NoSlot
      BY <1>2, <2>1, <2>2
    <3> QED
      BY <1>4, <2>1, <2>2, <3>1 DEF ProcessUnregisterFd, Refuse, Reply, Served, tables
  <2>3. CASE slot_by_handler[m.handler].type = "fd"
    BY <1>4, <2>1, <2>3
       DEF ProcessUnregisterFd, RemoveSlot, Accept, Reply, Served, Slotted, NoSlot
  <2> QED  BY <2>2, <2>3
<1>5. CASE ProcessRegisterTimer
  <2>1. m.type = "register_timer"
    BY <1>5 DEF ProcessRegisterTimer, Receive
  <2>2. CASE slot_by_handler[m.handler] # NoSlot \/ NoTimerFdLeft(TimerKey(m.data))
    BY <1>5, <2>1, <2>2 DEF ProcessRegisterTimer, Refuse, Reply, Served, tables
  <2>3. CASE ~(slot_by_handler[m.handler] # NoSlot \/ NoTimerFdLeft(TimerKey(m.data)))
    <3>1. PICK fd \in TimerFds :
            /\ AddSlot(m.handler, [type |-> "timer", fd |-> fd, interval |-> m.data])
            /\ Accept
      BY <1>5, <2>3 DEF ProcessRegisterTimer
    <3>2. /\ [type |-> "timer", fd |-> fd, interval |-> m.data] \in Slot
          /\ Slotted(m.handler, [type |-> "timer", fd |-> fd, interval |-> m.data])
          /\ answer'.result = "V3_OK"
      BY <1>1, <2>1, <3>1, MessageKinds DEF AddSlot, Accept, Reply, Slotted, Slot
    <3> QED  BY <2>1, <2>3, <3>2 DEF Served
  <2> QED  BY <2>2, <2>3
<1>6. CASE ProcessUnregisterTimer
  <2>1. m.type = "unregister_timer" /\ slot_by_handler[m.handler].type # "fd"
    BY <1>1, <1>6, MessageKinds DEF ProcessUnregisterTimer, Receive, KindInv
  <2>2. CASE slot_by_handler[m.handler].type # "timer"
    <3>1. slot_by_handler[m.handler] = NoSlot
      BY <1>2, <2>1, <2>2
    <3> QED
      BY <1>6, <2>1, <2>2, <3>1 DEF ProcessUnregisterTimer, Refuse, Reply, Served, tables
  <2>3. CASE slot_by_handler[m.handler].type = "timer"
    BY <1>6, <2>1, <2>3
       DEF ProcessUnregisterTimer, RemoveSlot, Accept, Reply, Served, Slotted, NoSlot
  <2> QED  BY <2>2, <2>3
<1> QED  BY <1>3, <1>4, <1>5, <1>6 DEF Requested

\* No other step touches a slot, but the end of the loop.
LEMMA SlotsUntouched ==
  ASSUME [Next]_vars, ~Requested, \A c \in Callers : ~Join(c)
  PROVE  UNCHANGED tables
<1>1. ASSUME NEW t \in Threads, Request(t)  PROVE UNCHANGED tables
  BY <1>1, RequestSends
<1> QED
  BY <1>1 DEF Next, Lifetime, Instance, Destroy, EnterGuard, LeaveGuard, Wait, WaitSleep,
              SpuriousWakeup, WaitReturn, Poll, ProcessMessage, Requested, ProcessQuit,
              Notify, NotifyStore, NotifySignal, NotifyUnlock, Dispatch, DispatchFd,
              DispatchSlot, CallbackReturn, DispatchDone, LockGuard, Environment,
              FdReady, TimerExpires, vars

LEMMA KindStep ==
  ASSUME IInv, KindInv, [Next]_vars
  PROVE  KindInv'
<1> USE ConstantsAssumption DEF IInv
<1>1. CASE Requested
  <2>1. Head(pipe) \in Message /\ Served(Head(pipe), answer'.result)
    BY <1>1, RequestedStep, RequestedServed
  <2>2. CASE UNCHANGED slot_by_handler
    BY <2>2 DEF KindInv
  <2>3. CASE Slotted(Head(pipe).handler, NoSlot)
    BY <2>3 DEF Slotted, KindInv, NoSlot, Handlers, TypeOK
  <2>4. ASSUME NEW slot \in Slot, Slotted(Head(pipe).handler, slot),
               slot.type = "fd" <=> Head(pipe).type = "register_fd",
               Head(pipe).type \in {"register_fd", "register_timer"}
        PROVE  KindInv'
    <3>1. /\ Head(pipe).handler \in EventHandlers => slot.type = "fd"
          /\ Head(pipe).handler \in TimerHandlers => slot.type = "timer"
      BY <2>1, <2>4, MessageKinds, SlotFd
    <3> QED
      BY <2>4, <3>1 DEF Slotted, KindInv, Handlers, TypeOK
  <2> QED  BY <2>1, <2>2, <2>3, <2>4 DEF Served
<1>2. ASSUME NEW c \in Callers, Join(c)  PROVE KindInv'
  BY <1>2 DEF Join, KindInv, NoSlot, Handlers
<1>3. CASE UNCHANGED tables
  BY <1>3 DEF KindInv, tables
<1> QED  BY <1>1, <1>2, <1>3, SlotsUntouched

-----------------------------------------------------------------------------
(***************************************************************************)
(* The invariants hold, and what follows from them.                        *)
(***************************************************************************)
LEMMA ServiceInvariance == Spec => []ServiceInv
<1>1. Init /\ IInv => ServiceInv
  <2> SUFFICES ASSUME Init, IInv  PROVE ServiceInv
    OBVIOUS
  <2> USE ConstantsAssumption
  <2>1. OwedInv
    BY DEF Init, OwedInv, NoAnswer, Notifying, Asleep, Threads
  <2>2. CallInv
    BY DEF Init, CallInv, Asleep, Threads
  <2>3. QuitInv
    BY DEF Init, QuitInv, Threads
  <2>4. KindInv
    BY DEF Init, KindInv, NoSlot, Handlers
  <2> QED  BY <2>1, <2>2, <2>3, <2>4 DEF ServiceInv
<1>2. ServiceInv /\ [Next]_vars /\ IInv' => ServiceInv'
  BY OwedStep, CallStep, QuitStep, KindStep DEF ServiceInv
<1> QED  BY <1>1, <1>2, Invariance, PTL DEF Spec

\* Whoever waits is owed one answer, and nobody else is.
THEOREM AnswersAlwaysOne == Spec => []OneAnswerPerRequest
<1>1. ServiceInv => OneAnswerPerRequest
  BY OneAnswer DEF ServiceInv
<1> QED  BY <1>1, ServiceInvariance, PTL

-----------------------------------------------------------------------------
(***************************************************************************)
(* The loop implements the service.  What a thread asks is its message in  *)
(* the pipe.                                                               *)
(***************************************************************************)
NothingAsked == [op |-> "none", handler |-> None]

LEMMA AskedNothing ==
  ASSUME NEW t, ~SentBy(t)
  PROVE  AskedOf(t) = NothingAsked
<1>1. {i \in 1..Len(pipe) : pipe[i].thread = t} = {}
  BY DEF SentBy
<1> QED  BY <1>1 DEF AskedOf, NothingAsked

LEMMA AskedAppended ==
  ASSUME NEW S, pipe \in Seq(S), NEW m \in S, pipe' = Append(pipe, m), NEW t, m.thread # t
  PROVE  AskedOf(t)' = AskedOf(t)
<1> DEFINE sent == {i \in 1..Len(pipe) : pipe[i].thread = t}
<1>1. {i \in 1..Len(pipe') : pipe'[i].thread = t} = sent
  OBVIOUS
<1>2. CASE sent = {}
  BY <1>1, <1>2 DEF AskedOf
<1>3. CASE sent # {}
  <2>1. (CHOOSE i \in sent : TRUE) \in sent
    BY <1>3
  <2>2. pipe'[CHOOSE i \in sent : TRUE] = pipe[CHOOSE i \in sent : TRUE]
    BY <2>1
  <2>3. AskedOf(t) = Asks(pipe[CHOOSE i \in sent : TRUE])
    BY <1>3 DEF AskedOf
  <2>4. AskedOf(t)' = Asks(pipe'[CHOOSE i \in sent : TRUE])
    <3>1. AskedOf(t)' = LET there == {i \in 1..Len(pipe') : pipe'[i].thread = t}
                        IN IF there = {} THEN NothingAsked
                           ELSE Asks(pipe'[CHOOSE i \in there : TRUE])
      BY DEF AskedOf, Asks, NothingAsked
    <3> HIDE DEF sent
    <3> QED  BY <1>1, <1>3, <3>1
  <2> QED  BY <2>2, <2>3, <2>4
<1> QED  BY <1>2, <1>3

LEMMA AskedLast ==
  ASSUME NEW S, pipe \in Seq(S), NEW m \in S, pipe' = Append(pipe, m), ~SentBy(m.thread)
  PROVE  AskedOf(m.thread)' = Asks(m)
<1> DEFINE n == Len(pipe) + 1
<1>1. {i \in 1..Len(pipe') : pipe'[i].thread = m.thread} = {n} /\ pipe'[n] = m
  BY DEF SentBy
<1>2. (CHOOSE i \in {n} : TRUE) = n
  OBVIOUS
<1> QED  BY <1>1, <1>2 DEF AskedOf, Asks

\* The messages of a thread that sent one only.
LEMMA AskedOnce ==
  ASSUME NEW S, pipe \in Seq(S), NEW i \in 1..Len(pipe),
         \A j \in 1..Len(pipe) : pipe[j].thread = pipe[i].thread => j = i
  PROVE  AskedOf(pipe[i].thread) = Asks(pipe[i])
<1>1. {j \in 1..Len(pipe) : pipe[j].thread = pipe[i].thread} = {i}
  OBVIOUS
<1>2. (CHOOSE j \in {i} : TRUE) = i
  OBVIOUS
<1> QED  BY <1>1, <1>2 DEF AskedOf

LEMMA AskedRead ==
  ASSUME NEW S, pipe \in Seq(S), pipe # << >>, pipe' = Tail(pipe), NEW t,
         \A i, j \in 1..Len(pipe) : pipe[i].thread = t /\ pipe[j].thread = t => i = j
  PROVE  AskedOf(t)' = IF Head(pipe).thread = t THEN NothingAsked ELSE AskedOf(t)
<1> DEFINE sent == {i \in 1..Len(pipe) : pipe[i].thread = t}
           left == {i \in 1..Len(pipe') : pipe'[i].thread = t}
<1>1. /\ Head(pipe) = pipe[1] /\ 1 \in 1..Len(pipe)
      /\ \A i \in 1..Len(pipe') : i + 1 \in 1..Len(pipe) /\ pipe'[i] = pipe[i + 1]
      /\ \A i \in 1..Len(pipe) : i # 1 => i - 1 \in 1..Len(pipe') /\ pipe'[i - 1] = pipe[i]
  OBVIOUS
<1>2. CASE Head(pipe).thread = t
  <2>1. left = {}
    <3> SUFFICES ASSUME NEW i \in left  PROVE FALSE
      OBVIOUS
    <3>1. i + 1 = 1
      BY <1>1, <1>2
    <3> QED  BY <3>1
  <2> QED  BY <1>2, <2>1 DEF AskedOf, NothingAsked
<1>3. CASE Head(pipe).thread # t /\ sent = {}
  <2>1. left = {}
    BY <1>1, <1>3
  <2> QED  BY <1>3, <2>1 DEF AskedOf
<1>4. CASE Head(pipe).thread # t /\ sent # {}
  <2>1. PICK i \in 1..Len(pipe) : pipe[i].thread = t /\ i # 1
    BY <1>1, <1>4
  <2>2. sent = {i}
    BY <2>1
  <2>3. left = {i - 1}
    <3>1. i - 1 \in left
      BY <1>1, <2>1
    <3>2. \A j \in left : j = i - 1
      BY <1>1, <2>1
    <3> QED  BY <3>1, <3>2
  <2>4. (CHOOSE j \in {i} : TRUE) = i /\ (CHOOSE j \in {i - 1} : TRUE) = i - 1
    OBVIOUS
  <2>5. pipe'[i - 1] = pipe[i]
    BY <1>1, <2>1
  <2>6. AskedOf(t) = Asks(pipe[i])
    BY <2>2, <2>4 DEF AskedOf
  <2>7. AskedOf(t)' = Asks(pipe'[i - 1])
    BY <2>3, <2>4 DEF AskedOf, Asks
  <2> QED  BY <1>4, <2>5, <2>6, <2>7
<1> QED  BY <1>2, <1>3, <1>4

LEMMA AskedUnchanged ==
  ASSUME UNCHANGED pipe
  PROVE  UNCHANGED Asked
<1>1. \A t \in Threads : AskedOf(t)' = AskedOf(t)
  BY DEF AskedOf, Asks
<1> QED  BY <1>1 DEF Asked

\* The background thread calls nobody while it is elsewhere.
LEMMA CallingNobody ==
  ASSUME CallInv, pc[Bg] \notin {"callback"} \cup Asleep
  PROVE  guard # Bg /\ Calling = None
BY DEF CallInv, Calling

\* A thread makes a request.
LEMMA RequestAsks ==
  ASSUME ServiceInv, NEW t \in Threads, Request(t)
  PROVE  \E r \in Service!Requests : Service!Ask(t, r)
<1> USE ConstantsAssumption DEF ServiceInv, IInv
<1>0. pipe \in Seq(Message \cup {QuitMessage})
  BY DEF TypeOK
<1>1. PICK m \in Message :
        /\ m.thread = t
        /\ MaySend(t)
        /\ pipe' = Append(pipe, m)
        /\ pc' = [pc EXCEPT ![t] = "wait"]
        /\ UNCHANGED <<phase, guard, compl, tables, poll, disp, answer, readable>>
  BY RequestSends
<1>2. pc[t] \notin Asleep
  BY <1>1 DEF MaySend, Asleep
<1>3. ~SentBy(t) /\ result[t] = "empty" /\ answer.thread # t
  BY <1>2 DEF AnswerInv, OwedInv
<1>4. Asked[t] = NothingAsked /\ Replied[t] = "empty"
  BY <1>3, AskedNothing DEF Asked, Replied
<1>5. Asked' = [Asked EXCEPT ![t] = Asks(m)]
  <2>1. AskedOf(t)' = Asks(m)
    BY <1>0, <1>1, <1>3, AskedLast
  <2>2. \A u \in Threads \ {t} : AskedOf(u)' = AskedOf(u)
    BY <1>0, <1>1, AskedAppended
  <2> QED  BY <2>1, <2>2 DEF Asked
<1>6. UNCHANGED <<Registered, Calling, guard, Replied>>
  BY <1>1 DEF Registered, Calling, Replied, tables, disp, compl
<1>7. t = Bg => Calling # None
  BY <1>1 DEF MaySend, CallInv, Calling
<1>8. Asks(m) \in Service!Requests
  BY MessageKinds DEF Asks, Service!Requests, Service!Handlers, Handlers
<1> QED
  BY <1>4, <1>5, <1>6, <1>7, <1>8
     DEF Service!Ask, Service!NoRequest, Service!NoReply, NothingAsked

\* A request returns.
LEMMA WaitReturns ==
  ASSUME ServiceInv, NEW t \in Threads, WaitReturn(t)
  PROVE  Service!Return(t)
<1> USE ConstantsAssumption DEF ServiceInv, IInv
<1>1. result[t] # "empty" /\ mutex[t] = None /\ pc[t] \in Asleep
      /\ result' = [result EXCEPT ![t] = "empty"]
      /\ UNCHANGED <<pipe, guard, running, slot_by_handler, answer>>
  BY DEF WaitReturn, Asleep, tables, disp
<1>2. answer.thread # t
  BY <1>1 DEF OwedInv, AnswerInv, Notifying, Threads
<1>3. Replied[t] # "empty" /\ Replied' = [Replied EXCEPT ![t] = "empty"]
  BY <1>1, <1>2 DEF Replied, TypeOK
<1>4. UNCHANGED <<Registered, Calling, guard>> /\ UNCHANGED Asked
  BY <1>1, AskedUnchanged DEF Registered, Calling
<1> QED  BY <1>3, <1>4 DEF Service!Return, Service!NoReply

\* A request is served when its message is processed.
LEMMA RequestedServes ==
  ASSUME ServiceInv, Requested
  PROVE  \E t \in Threads : Service!Serve(t)
<1> USE ConstantsAssumption DEF ServiceInv, IInv
<1> DEFINE m == Head(pipe)
<1>0. pipe \in Seq(Message \cup {QuitMessage})
  BY DEF TypeOK
<1>1. /\ pc[Bg] = "scan" /\ pipe # << >> /\ m \in Message /\ pipe' = Tail(pipe)
      /\ answer' = [thread |-> m.thread, result |-> answer'.result]
      /\ answer'.result \in Results
      /\ UNCHANGED <<guard, result, running>>
  BY RequestedStep, RequestedReplies DEF compl, disp
<1>2. m.thread \in Threads /\ m.handler \in Handlers
  BY <1>1, MessageKinds
<1>3. \A i, j \in 1..Len(pipe) :
        pipe[i].thread = pipe[j].thread /\ pipe[i].thread \in Threads => i = j
  BY DEF AnswerInv, Threads
<1>4. Asked[m.thread] = Asks(m)
  <2>1. m = pipe[1] /\ 1 \in 1..Len(pipe)
    BY <1>0, <1>1
  <2>2. AskedOf(pipe[1].thread) = Asks(pipe[1])
    BY <1>0, <1>2, <1>3, <2>1, AskedOnce
  <2> QED  BY <1>2, <2>1, <2>2 DEF Asked
<1>5. Asked' = [Asked EXCEPT ![m.thread] = NothingAsked]
  <2>1. ASSUME NEW t \in Threads
        PROVE  AskedOf(t)' = IF Head(pipe).thread = t THEN NothingAsked ELSE AskedOf(t)
    <3>1. \A i, j \in 1..Len(pipe) : pipe[i].thread = t /\ pipe[j].thread = t => i = j
      BY <1>3
    <3>2. pipe # << >> /\ pipe' = Tail(pipe)
      BY <1>1
    <3> QED  BY <1>0, <3>1, <3>2, AskedRead
  <2> QED  BY <1>2, <2>1 DEF Asked
<1>6. Replied' = [Replied EXCEPT ![m.thread] = answer'.result]
  <2>1. answer.thread = None
    BY <1>1 DEF OwedInv, Notifying
  <2>2. Replied = [t \in Threads |-> result[t]]
    BY <2>1 DEF Replied, Threads
  <2>3. answer'.thread = m.thread /\ result' = result
    BY <1>1
  <2>4. Replied' = [t \in Threads |-> IF m.thread = t THEN answer'.result ELSE result[t]]
    BY <2>3 DEF Replied
  <2> QED  BY <2>2, <2>4
<1>7. Calling = None /\ UNCHANGED <<Calling, guard>>
  BY <1>1, CallingNobody DEF Calling, Asleep
<1>8. Service!Outcome(Asks(m), answer'.result)
  <2>1. Served(m, answer'.result)
    BY RequestedServed
  <2>2. m.handler \in Registered <=> slot_by_handler[m.handler] # NoSlot
    BY <1>2 DEF Registered
  <2>3. ASSUME NEW slot \in Slot, Slotted(m.handler, slot)
        PROVE  Registered' = Registered \cup {m.handler}
    BY <1>2, <2>3, SlotFd DEF Slotted, Registered, TypeOK
  <2>4. Slotted(m.handler, NoSlot) => Registered' = Registered \ {m.handler}
    BY <1>2 DEF Slotted, Registered, TypeOK
  <2>5. UNCHANGED slot_by_handler => UNCHANGED Registered
    BY DEF Registered
  <2>6. m.type = "register_timer" => m.handler \in TimerHandlers
    BY <1>1, MessageKinds
  <2>7. /\ Asks(m).handler = m.handler
        /\ m.type \in {"register_fd", "register_timer"} => Asks(m).op = "register"
        /\ m.type \in {"unregister_fd", "unregister_timer"} => Asks(m).op = "unregister"
    BY DEF Asks
  <2> QED
    BY <2>1, <2>2, <2>3, <2>4, <2>5, <2>6, <2>7 DEF Served, Service!Outcome
<1>9. Asks(m) # NothingAsked
  BY DEF Asks, NothingAsked
<1> QED
  BY <1>1, <1>2, <1>4, <1>5, <1>6, <1>7, <1>8, <1>9
     DEF Service!Serve, Service!NoRequest, NothingAsked, Results

\* A step that leaves what the service sees of the loop as it is.
LEMMA Stutters ==
  ASSUME UNCHANGED <<slot_by_handler, guard, running, result, answer>>, UNCHANGED Asked
  PROVE  UNCHANGED Service!vars
<1>1. UNCHANGED Registered /\ UNCHANGED Calling /\ UNCHANGED Replied
  BY DEF Registered, Calling, Replied
<1> QED  BY <1>1 DEF Service!vars

\* So are a message the caller of the destructor sends, the end of the loop,
\* and the message's receipt.
LEMMA LifetimeStutters ==
  ASSUME ServiceInv, NEW c \in Callers, Lifetime(c)
  PROVE  UNCHANGED Service!vars
<1> USE ConstantsAssumption DEF ServiceInv, IInv
<1>1. CASE Instance(c)
  BY <1>1, AskedUnchanged, Stutters DEF Instance, compl, tables, disp
<1>2. CASE Destroy(c)
  <2>1. pipe \in Seq(Message \cup {QuitMessage}) /\ pipe' = Append(pipe, QuitMessage)
    BY <1>2 DEF Destroy, TypeOK
  <2>2. \A t \in Threads : AskedOf(t)' = AskedOf(t)
    <3> SUFFICES ASSUME NEW t \in Threads  PROVE AskedOf(t)' = AskedOf(t)
      OBVIOUS
    <3>1. QuitMessage \in Message \cup {QuitMessage} /\ QuitMessage.thread # t
      BY DEF QuitMessage
    <3> QED  BY <2>1, <3>1, AskedAppended
  <2>3. UNCHANGED Asked
    BY <2>2 DEF Asked
  <2> QED  BY <1>2, <2>3, Stutters DEF Destroy, compl, tables, disp
<1>3. CASE Join(c)
  <2>1. \A h \in Handlers : slot_by_handler[h] = NoSlot
    BY <1>3 DEF Join, QuitInv
  <2>2. slot_by_handler' = slot_by_handler
    BY <1>3, <2>1 DEF Join, TypeOK
  <2> QED  BY <1>3, <2>2, AskedUnchanged, Stutters DEF Join, compl, disp
<1> QED  BY <1>1, <1>2, <1>3 DEF Lifetime

LEMMA QuitStutters ==
  ASSUME ServiceInv, ProcessQuit
  PROVE  UNCHANGED Service!vars
<1> USE ConstantsAssumption DEF ServiceInv, IInv
<1>1. /\ pipe \in Seq(Message \cup {QuitMessage}) /\ pipe # << >> /\ pipe' = Tail(pipe)
      /\ Head(pipe) = QuitMessage
      /\ UNCHANGED <<slot_by_handler, guard, running, result, answer>>
  BY QuitReceived DEF TypeOK, compl, tables, disp
<1>2. \A t \in Threads : AskedOf(t)' = AskedOf(t)
  <2> SUFFICES ASSUME NEW t \in Threads  PROVE AskedOf(t)' = AskedOf(t)
    OBVIOUS
  <2>1. \A i, j \in 1..Len(pipe) : pipe[i].thread = t /\ pipe[j].thread = t => i = j
    BY DEF AnswerInv, Threads
  <2>2. Head(pipe).thread # t
    BY <1>1 DEF QuitMessage
  <2> QED  BY <1>1, <2>1, <2>2, AskedRead
<1>3. UNCHANGED Asked
  BY <1>2 DEF Asked
<1> QED  BY <1>1, <1>3, Stutters

\* What a thread gets was decided before it is notified.
LEMMA NotifyStutters ==
  ASSUME ServiceInv, Notify
  PROVE  UNCHANGED Service!vars
<1> USE ConstantsAssumption DEF ServiceInv, IInv
<1>1. UNCHANGED <<slot_by_handler, guard, running, pipe>>
  BY DEF Notify, NotifyStore, NotifySignal, NotifyUnlock, tables, disp
<1>2. UNCHANGED Registered /\ UNCHANGED Calling /\ UNCHANGED Asked
  BY <1>1, AskedUnchanged DEF Registered, Calling
<1>3. UNCHANGED Replied
  <2>1. CASE NotifyStore
    BY <2>1 DEF NotifyStore, Replied, TypeOK
  <2>2. CASE NotifySignal
    BY <2>2 DEF NotifySignal, Replied, compl
  <2>3. CASE NotifyUnlock
    <3>1. result[answer.thread] = answer.result /\ UNCHANGED result /\ answer'.thread = None
      BY <2>3 DEF NotifyUnlock, OwedInv, NoAnswer
    <3>2. Replied = [t \in Threads |-> result[t]]
      BY <3>1 DEF Replied
    <3>3. Replied' = [t \in Threads |-> result[t]]
      BY <3>1 DEF Replied, Threads
    <3> QED  BY <3>2, <3>3
  <2> QED  BY <2>1, <2>2, <2>3 DEF Notify
<1> QED  BY <1>1, <1>2, <1>3 DEF Service!vars

\* The callback of a handler is the service's call.
LEMMA DispatchCalls ==
  ASSUME ServiceInv, Dispatch \/ LockGuard
  PROVE  [Service!Next]_(Service!vars)
<1> USE ConstantsAssumption DEF ServiceInv, IInv
<1>0. UNCHANGED <<slot_by_handler, result, answer, pipe>>
  BY DEF Dispatch, DispatchFd, DispatchDone, DispatchSlot, CallbackReturn, LockGuard, compl,
         tables
<1>1. UNCHANGED Registered /\ UNCHANGED Asked /\ UNCHANGED Replied
  BY <1>0, AskedUnchanged DEF Registered, Replied
<1>2. ASSUME NEW fd \in Fds, DispatchFd(fd) \/ DispatchDone(fd)
      PROVE  UNCHANGED Service!vars
  BY <1>0, <1>1, <1>2, Stutters DEF DispatchFd, DispatchDone, disp
<1>3. ASSUME NEW h \in Handlers, DispatchSlot(h)
      PROVE  UNCHANGED Service!vars
  <2>1. pc[Bg] = "slots" /\ UNCHANGED guard
    BY <1>3 DEF DispatchSlot
  <2>2. guard # Bg
    BY <2>1 DEF CallInv, Asleep
  <2>3. UNCHANGED Calling
    BY <2>1, <2>2 DEF Calling
  <2> QED  BY <1>1, <2>1, <2>3 DEF Service!vars
<1>4. CASE LockGuard
  <2>1. guard = None /\ guard' = Bg /\ UNCHANGED running /\ pc[Bg] = "lock"
    BY <1>4 DEF LockGuard, disp
  <2>2. running \in Handlers /\ running \in Registered
    BY <2>1 DEF CallInv, DispatchOnlyRegistered, Registered, TypeOK
  <2>3. Calling = None /\ Calling' = running
    BY <2>1 DEF Calling, Threads
  <2>4. Service!CallHandler(running)
    BY <1>1, <2>1, <2>2, <2>3 DEF Service!CallHandler
  <2> QED  BY <2>2, <2>4 DEF Service!Next, Service!Handlers, Handlers
<1>5. CASE CallbackReturn
  <2>1. pc[Bg] = "callback" /\ guard' = None /\ running' = None
    BY <1>5 DEF CallbackReturn
  <2>2. Calling # None /\ Calling' = None
    BY <2>1 DEF CallInv, Calling, Threads
  <2>3. Service!HandlerReturns
    BY <1>1, <2>1, <2>2 DEF Service!HandlerReturns
  <2> QED  BY <2>3 DEF Service!Next
<1> QED  BY <1>2, <1>3, <1>4, <1>5 DEF Dispatch

\* Sections of callers are the service's sections.
LEMMA GuardSections ==
  ASSUME ServiceInv, NEW c \in Callers, EnterGuard(c) \/ LeaveGuard(c)
  PROVE  Service!EnterGuard(c) \/ Service!LeaveGuard(c)
<1> USE ConstantsAssumption DEF ServiceInv, IInv
<1>1. UNCHANGED <<slot_by_handler, result, answer, pipe, running>>
  BY DEF EnterGuard, LeaveGuard, compl, tables, disp
<1>2. UNCHANGED Registered /\ UNCHANGED Asked /\ UNCHANGED Replied
  BY <1>1, AskedUnchanged DEF Registered, Replied
<1>3. UNCHANGED Calling
  BY DEF EnterGuard, LeaveGuard, Calling, Threads
<1> QED
  BY <1>2, <1>3 DEF EnterGuard, LeaveGuard, Service!EnterGuard, Service!LeaveGuard

\* Every step of the loop is one of the service, or none.
LEMMA StepServes ==
  ASSUME ServiceInv, [Next]_vars
  PROVE  [Service!Next]_(Service!vars)
<1>0. Service!Threads = Threads
  BY DEF Service!Threads, Threads
<1>1. ASSUME NEW c \in Callers, Lifetime(c)  PROVE UNCHANGED Service!vars
  BY <1>1, LifetimeStutters
<1>2. ASSUME NEW c \in Callers, EnterGuard(c) \/ LeaveGuard(c)  PROVE Service!Next
  BY <1>2, GuardSections DEF Service!Next
<1>3. ASSUME NEW t \in Threads, Request(t)  PROVE Service!Next
  BY <1>0, <1>3, RequestAsks DEF Service!Next
<1>4. ASSUME NEW t \in Threads, Wait(t)  PROVE [Service!Next]_(Service!vars)
  <2>1. CASE WaitSleep(t) \/ SpuriousWakeup(t)
    BY <2>1, AskedUnchanged, Stutters DEF WaitSleep, SpuriousWakeup, compl, tables, disp
  <2>2. CASE WaitReturn(t)
    BY <1>0, <2>2, WaitReturns DEF Service!Next
  <2> QED  BY <1>4, <2>1, <2>2 DEF Wait
<1>5. CASE Poll
  BY <1>5, AskedUnchanged, Stutters DEF Poll, compl, tables, disp
<1>6. CASE ProcessMessage
  <2>1. CASE ProcessQuit
    BY <2>1, QuitStutters
  <2>2. CASE Requested
    BY <1>0, <2>2, RequestedServes DEF Service!Next
  <2> QED  BY <1>6, <2>1, <2>2 DEF ProcessMessage, Requested
<1>7. CASE Notify
  BY <1>7, NotifyStutters
<1>8. CASE Dispatch \/ LockGuard
  BY <1>8, DispatchCalls
<1>9. CASE Environment
  BY <1>9, AskedUnchanged, Stutters DEF Environment, FdReady, TimerExpires, compl, tables, disp
<1>10. CASE UNCHANGED vars
  BY <1>10, AskedUnchanged, Stutters DEF vars, compl, tables, disp
<1> QED
  BY <1>1, <1>2, <1>3, <1>4, <1>5, <1>6, <1>7, <1>8, <1>9, <1>10 DEF Next

\* The threaded run loop is the service its users rely on: a request takes
\* effect once, between its call and its return and while no handler is
\* being called.
THEOREM ServiceImplemented == Spec => ImplementsService
<1>1. Init => Service!Init
  <2> SUFFICES ASSUME Init  PROVE Service!Init
    OBVIOUS
  <2> USE ConstantsAssumption
  <2>1. Registered = {} /\ Calling = None
    BY DEF Init, Registered, Calling, Threads
  <2>2. \A t \in Threads : ~SentBy(t)
    BY DEF Init, SentBy
  <2>3. Asked = [t \in Threads |-> NothingAsked]
    BY <2>2, AskedNothing DEF Asked
  <2>4. Replied = [t \in Threads |-> "empty"]
    BY DEF Init, Replied, NoAnswer, Threads
  <2> QED
    BY <2>1, <2>3, <2>4
       DEF Init, Service!Init, Service!Threads, Threads, Service!NoRequest, NothingAsked,
           Service!NoReply
<1>2. ServiceInv /\ [Next]_vars => [Service!Next]_(Service!vars)
  BY StepServes
<1> QED
  BY <1>1, <1>2, ServiceInvariance, PTL DEF Spec, ImplementsService, Service!Spec

-----------------------------------------------------------------------------
(***************************************************************************)
(* The descriptors of timers.                                              *)
(***************************************************************************)
LEMMA KeysAreNumbers ==
  /\ TimerKeys \subseteq Nat
  /\ \A ms \in Intervals : ms \in TimerKeys /\ TimerKey(ms) \in TimerKeys /\ TimerKey(ms) >= 1
<1>1. \A ms \in Intervals : ms \in Nat /\ TimerKey(ms) \in Nat /\ TimerKey(ms) >= 1
  BY ConstantsAssumption DEF TimerKey
<1>2. \A ms \in Intervals : ms \in TimerKeys /\ TimerKey(ms) \in TimerKeys
  BY DEF TimerKeys
<1>3. TimerKeys \subseteq Nat
  BY <1>1 DEF TimerKeys
<1> QED  BY <1>1, <1>2, <1>3

\* The timers of a period whose slots and descriptor stay.
LEMMA CountKept ==
  ASSUME NEW k, CountedOf(k), timer_fds'[k] = timer_fds[k],
         \A h \in Handlers :
           slot_by_handler'[h] # slot_by_handler[h] =>
             /\ ~(slot_by_handler[h].type = "timer" /\ TimerKey(slot_by_handler[h].interval) = k)
             /\ ~(slot_by_handler'[h].type = "timer" /\ TimerKey(slot_by_handler'[h].interval) = k)
  PROVE  CountedOf(k)'
<1>1. TimerUsers(k)' = TimerUsers(k)
  BY DEF TimerUsers, TimerKey
<1>2. \A h \in TimerUsers(k) : slot_by_handler'[h] = slot_by_handler[h]
  BY DEF TimerUsers
<1> QED  BY <1>1, <1>2 DEF CountedOf

\* A timer is registered: its period has one more.
LEMMA CountAdded ==
  ASSUME TypeOK, CountInv, NEW h \in Handlers, slot_by_handler[h] = NoSlot,
         NEW ms \in Intervals, NEW fd \in TimerFds, TimerFdCreated(TimerKey(ms), fd),
         Slotted(h, [type |-> "timer", fd |-> fd, interval |-> ms])
  PROVE  CountInv'
<1> DEFINE key == TimerKey(ms)
           slot == [type |-> "timer", fd |-> fd, interval |-> ms]
<1>0. key \in TimerKeys /\ key \in Nat /\ key >= 1 /\ TimerKeys \subseteq Nat
  BY KeysAreNumbers
<1> HIDE DEF key
<1>1. /\ slot_by_handler'[h] = slot
      /\ \A g \in Handlers \ {h} : slot_by_handler'[g] = slot_by_handler[g]
  BY DEF Slotted, TypeOK
<1>2. /\ timer_fds[key].fd = fd \/ timer_fds[key] = NoTimerFd
      /\ timer_fds'[key] = [fd |-> fd, count |-> timer_fds[key].count + 1]
      /\ \A k \in TimerKeys \ {key} : timer_fds'[k] = timer_fds[k]
  BY <1>0 DEF TimerFdCreated, TypeOK, key
<1>3. TimerUsers(key)' = TimerUsers(key) \cup {h} /\ h \notin TimerUsers(key)
  BY <1>1 DEF TimerUsers, TimerKey, NoSlot, key
<1>4. CountedOf(key)'
  <2>1. /\ IsFiniteSet(TimerUsers(key)) /\ Cardinality(TimerUsers(key)) \in Nat
        /\ CountedOf(key) /\ timer_fds[key].count \in Nat
    BY <1>0, FS_CardinalityType DEF CountInv, CountedOf, TypeOK, NoTimerFd
  <2>2. /\ IsFiniteSet(TimerUsers(key)')
        /\ Cardinality(TimerUsers(key)') = Cardinality(TimerUsers(key)) + 1
    BY <1>3, <2>1, FS_AddElement
  <2>3. \A g \in TimerUsers(key) : slot_by_handler[g].fd = fd
    <3>1. CASE timer_fds[key].fd = fd
      BY <2>1, <3>1 DEF CountedOf
    <3>2. CASE timer_fds[key] = NoTimerFd
      <4>1. Cardinality(TimerUsers(key)) = 0
        BY <2>1, <3>2 DEF CountedOf, NoTimerFd
      <4> QED  BY <2>1, <4>1, FS_EmptySet
    <3> QED  BY <1>2, <3>1, <3>2
  <2>4. \A g \in TimerUsers(key)' : slot_by_handler'[g].fd = fd
    BY <1>1, <1>3, <2>3 DEF TimerUsers
  <2> QED  BY <1>0, <1>2, <2>1, <2>2, <2>4 DEF CountedOf
<1>5. ASSUME NEW k \in TimerKeys \ {key}  PROVE CountedOf(k)'
  <2>1. slot_by_handler[h].type # "timer" /\ TimerKey(slot_by_handler'[h].interval) # k
    BY <1>1, <1>5 DEF NoSlot, key
  <2> QED  BY <1>1, <1>2, <2>1, CountKept DEF CountInv
<1> QED  BY <1>4, <1>5 DEF CountInv

\* A timer is removed: its period has one less, and releases what it had.
LEMMA CountRemoved ==
  ASSUME TypeOK, CountInv, NEW h \in Handlers, slot_by_handler[h].type = "timer",
         NEW ms, slot_by_handler[h].interval = ms,
         TimerFdReleased(ms), Slotted(h, NoSlot)
  PROVE  CountInv'
<1> DEFINE key == TimerKey(ms)
<1>0. /\ ms \in Intervals /\ ms \in TimerKeys /\ key \in TimerKeys /\ key >= 1
      /\ ms \in Nat /\ TimerKeys \subseteq Nat /\ (ms >= 1 => key = ms)
      /\ (ms < 1 => key = 1)
  <2>1. ms \in Intervals
    BY SlotFd DEF TypeOK, NoSlot
  <2>2. ms \in TimerKeys /\ key \in TimerKeys /\ key >= 1 /\ TimerKeys \subseteq Nat
    BY <2>1, KeysAreNumbers
  <2>3. ms \in Nat
    BY <2>2
  <2>4. (ms >= 1 => key = ms) /\ (ms < 1 => key = 1)
    BY <2>3 DEF TimerKey
  <2> QED  BY <2>1, <2>2, <2>3, <2>4
<1>1. /\ slot_by_handler'[h] = NoSlot
      /\ \A g \in Handlers \ {h} : slot_by_handler'[g] = slot_by_handler[g]
  BY DEF Slotted, TypeOK
<1>2. h \in TimerUsers(key) /\ TimerUsers(key)' = TimerUsers(key) \ {h}
  BY <1>1 DEF TimerUsers, TimerKey, NoSlot
<1>3. TimerFdReleased(ms)
  OBVIOUS
<1> HIDE DEF key
<1>4. /\ IsFiniteSet(TimerUsers(key)) /\ Cardinality(TimerUsers(key)) \in Nat
      /\ CountedOf(key) /\ timer_fds[key].count \in Nat
  BY <1>0, FS_CardinalityType DEF CountInv, CountedOf, TypeOK, NoTimerFd
<1>5. /\ IsFiniteSet(TimerUsers(key)')
      /\ Cardinality(TimerUsers(key)') = Cardinality(TimerUsers(key)) - 1
  BY <1>2, <1>4, FS_RemoveElement
<1>6. Cardinality(TimerUsers(key)) >= 1
  <2>1. Cardinality(TimerUsers(key)) # 0
    BY <1>2, <1>4, FS_EmptySet
  <2> QED  BY <1>4, <2>1
<1>7. \A k \in TimerKeys \ {ms} : timer_fds'[k] = timer_fds[k]
  BY <1>0, <1>3 DEF TimerFdReleased, TypeOK
<1>8. \A g \in TimerUsers(key)' :
        g \in TimerUsers(key) /\ slot_by_handler'[g] = slot_by_handler[g]
  BY <1>1, <1>2 DEF TimerUsers
<1>9. CountedOf(key)'
  <2>1. CASE ms < 1
    <3>1. key = 1 /\ timer_fds'[key] = timer_fds[key]
      BY <1>0, <1>7, <2>1
    <3> QED  BY <1>4, <1>5, <1>8, <3>1 DEF CountedOf
  <2>2. CASE ms >= 1 /\ timer_fds[ms].count > 1
    <3>1. /\ key = ms /\ timer_fds'[key].count = timer_fds[key].count - 1
          /\ timer_fds'[key].fd = timer_fds[key].fd
      BY <1>0, <1>3, <2>2 DEF TimerFdReleased, TypeOK, NoTimerFd
    <3> QED  BY <1>0, <1>4, <1>5, <1>8, <2>2, <3>1 DEF CountedOf
  <2>3. CASE ms >= 1 /\ timer_fds[ms].count = 1
    <3>1. key = ms /\ timer_fds'[key] = NoTimerFd
      BY <1>0, <1>3, <2>3 DEF TimerFdReleased, TypeOK, NoTimerFd
    <3>2. Cardinality(TimerUsers(key)') = 0
      BY <1>0, <1>4, <1>5, <1>6, <2>3, <3>1 DEF CountedOf
    <3>3. TimerUsers(key)' = {}
      BY <1>5, <3>2, FS_EmptySet
    <3>4. timer_fds'[key].count = 0
      BY <3>1 DEF NoTimerFd
    <3>5. \A g \in TimerUsers(key)' : slot_by_handler'[g].fd = timer_fds'[key].fd
      BY <3>3
    <3>6. /\ timer_fds'[key].count >= Cardinality(TimerUsers(key)')
          /\ timer_fds'[key].count = Cardinality(TimerUsers(key)')
      BY <3>2, <3>4
    <3>7. IsFiniteSet(TimerUsers(key)')
      BY <1>5
    <3> QED  BY <3>1, <3>5, <3>6, <3>7 DEF CountedOf
  <2>4. CASE ms >= 1 /\ timer_fds[ms].count = 0
    BY <1>0, <1>4, <1>6, <2>4 DEF CountedOf
  <2>5. timer_fds[ms].count \in Nat
    BY <1>0 DEF TypeOK, NoTimerFd
  <2> QED  BY <1>0, <2>1, <2>2, <2>3, <2>4, <2>5
<1>10. ASSUME NEW k \in TimerKeys \ {key}  PROVE CountedOf(k)'
  <2>1. timer_fds'[k] = timer_fds[k]
    <3>1. CASE k # ms
      BY <1>7, <3>1
    <3>2. CASE k = ms
      <4>1. ms < 1
        BY <1>0, <1>10, <3>2
      <4>2. timer_fds[ms] = NoTimerFd
        BY <1>0, <4>1 DEF CountInv, CountedOf
      <4> QED  BY <1>3, <3>2, <4>2 DEF TimerFdReleased, NoTimerFd
    <3> QED  BY <3>1, <3>2
  <2>2. TimerKey(slot_by_handler[h].interval) # k /\ slot_by_handler'[h].type # "timer"
    BY <1>1, <1>10 DEF NoSlot, key
  <2> QED  BY <1>1, <2>1, <2>2, CountKept DEF CountInv
<1> QED  BY <1>9, <1>10 DEF CountInv

LEMMA CountStep ==
  ASSUME ServiceInv, CountInv, [Next]_vars
  PROVE  CountInv'
<1> USE ConstantsAssumption DEF ServiceInv, IInv
<1>1. CASE UNCHANGED tables
  BY <1>1, CountKept DEF CountInv, tables
<1>2. ASSUME NEW c \in Callers, Join(c)  PROVE CountInv'
  <2>1. \A k \in TimerKeys : TimerUsers(k)' = {} /\ timer_fds'[k] = NoTimerFd
    BY <1>2 DEF Join, TimerUsers, NoSlot
  <2> QED  BY <2>1, FS_EmptySet DEF CountInv, CountedOf, NoTimerFd
<1>3. CASE Requested
  <2> DEFINE m == Head(pipe)
  <2>1. m \in Message /\ m.handler \in Handlers
    BY <1>3, RequestedStep, MessageKinds
  <2>2. CASE ProcessRegisterFd
    <3>1. CASE UNCHANGED tables
      BY <3>1, CountKept DEF CountInv, tables
    <3>2. CASE ~UNCHANGED tables
      <4>1. /\ slot_by_handler[m.handler] = NoSlot /\ UNCHANGED timer_fds
            /\ Slotted(m.handler, [type |-> "fd", fd |-> m.data, interval |-> 0])
        BY <2>2, <3>2 DEF ProcessRegisterFd, Refuse, AddSlot, Slotted
      <4> QED  BY <2>1, <4>1, CountKept DEF CountInv, Slotted, NoSlot, TypeOK
    <3> QED  BY <3>1, <3>2
  <2>3. CASE ProcessUnregisterFd
    <3>1. CASE UNCHANGED tables
      BY <3>1, CountKept DEF CountInv, tables
    <3>2. CASE ~UNCHANGED tables
      <4>1. /\ slot_by_handler[m.handler].type = "fd" /\ UNCHANGED timer_fds
            /\ Slotted(m.handler, NoSlot)
        BY <2>3, <3>2 DEF ProcessUnregisterFd, Refuse, RemoveSlot, Slotted
      <4> QED  BY <2>1, <4>1, CountKept DEF CountInv, Slotted, NoSlot, TypeOK
    <3> QED  BY <3>1, <3>2
  <2>4. CASE ProcessRegisterTimer
    <3>1. CASE UNCHANGED tables
      BY <3>1, CountKept DEF CountInv, tables
    <3>2. CASE ~UNCHANGED tables
      <4>1. slot_by_handler[m.handler] = NoSlot
            /\ \E fd \in TimerFds :
                 /\ TimerFdCreated(TimerKey(m.data), fd)
                 /\ Slotted(m.handler, [type |-> "timer", fd |-> fd, interval |-> m.data])
        BY <2>4, <3>2 DEF ProcessRegisterTimer, Refuse, AddSlot, Slotted
      <4>2. m.data \in Intervals
        BY <2>1, <2>4, MessageKinds DEF ProcessRegisterTimer, Receive
      <4> QED  BY <2>1, <4>1, <4>2, CountAdded
    <3> QED  BY <3>1, <3>2
  <2>5. CASE ProcessUnregisterTimer
    <3>1. CASE UNCHANGED tables
      BY <3>1, CountKept DEF CountInv, tables
    <3>2. CASE ~UNCHANGED tables
      <4>1. PICK ms : ms = slot_by_handler[m.handler].interval
        OBVIOUS
      <4>2. /\ slot_by_handler[m.handler].type = "timer"
            /\ TimerFdReleased(ms)
            /\ Slotted(m.handler, NoSlot)
        BY <2>5, <3>2, <4>1 DEF ProcessUnregisterTimer, Refuse, RemoveSlot, Slotted
      <4> QED  BY <2>1, <4>1, <4>2, CountRemoved
    <3> QED  BY <3>1, <3>2
  <2> QED  BY <1>3, <2>2, <2>3, <2>4, <2>5 DEF Requested
<1> QED  BY <1>1, <1>2, <1>3, SlotsUntouched

\* A registered timer polls an open descriptor of its own period: no release
\* closes a descriptor that another timer shares.
THEOREM TimerFdsAlwaysCounted == Spec => []TimerFdsCounted
<1>1. Init => CountInv
  <2> SUFFICES ASSUME Init  PROVE CountInv
    OBVIOUS
  <2>1. \A k \in TimerKeys : TimerUsers(k) = {} /\ timer_fds[k] = NoTimerFd
    BY DEF Init, TimerUsers, NoSlot
  <2> QED  BY <2>1, FS_EmptySet DEF CountInv, CountedOf, NoTimerFd
<1>2. ServiceInv /\ CountInv /\ [Next]_vars => CountInv'
  BY CountStep
<1>3. CountInv => TimerFdsCounted
  BY DEF CountInv, CountedOf, TimerFdsCounted
<1> QED  BY <1>1, <1>2, <1>3, ServiceInvariance, PTL DEF Spec
=============================================================================
