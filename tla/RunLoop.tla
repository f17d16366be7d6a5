------------------------------- MODULE RunLoop -------------------------------
(***************************************************************************)
(* The threaded run loop: the object that serves timers and descriptor     *)
(* events when the host offers no run loop of its own                      *)
(* (ct_host_loop_posix.cpp), together with the lock that its callbacks     *)
(* share with some sections of the host thread (ct_threads.cpp).           *)
(*                                                                         *)
(* Threads.  Callers are the threads that use the loop's interface; Bg is  *)
(* the thread the loop creates.  A request (register_timer, ...) is a      *)
(* message written to a pipe with a completion on the caller's stack: the  *)
(* caller sleeps on it until Bg has processed the message.  Bg polls the   *)
(* pipe and the descriptors, and calls the handlers of those that fired    *)
(* with main_thread_guard held.                                            *)
(*                                                                         *)
(* Descriptors.  MessageFd is the reading end of the pipe; its entry is    *)
(* the first of the poll array.  TimerFds is the pool of numbers the       *)
(* kernel gives to timer descriptors: an exhausted pool is a failing       *)
(* timerfd_create, and a number is used again after it was closed.         *)
(***************************************************************************)
EXTENDS Integers, Sequences, FiniteSets

CONSTANTS
  Callers,            \* threads that use the loop's interface
  Bg,                 \* the background thread
  EventHandlers,      \* v3_event_handler objects
  TimerHandlers,      \* v3_timer_handler objects
  PlugFds,            \* descriptors that plugins watch, positive numbers
  TimerFds,           \* numbers for timer descriptors, positive
  Intervals,          \* timer periods, in milliseconds
  None,               \* no thread, no handler
  MaxTimerRef,        \* bound: register_timer requests stop at this use count
  GuardedRequests,    \* does a caller send requests while it holds the guard
  ReentrantRequests   \* does a callback send requests

Threads  == Callers \cup {Bg}
Handlers == EventHandlers \cup TimerHandlers
Fds      == PlugFds \cup TimerFds
MessageFd == 0
NoFd      == 0

ASSUME ConstantsAssumption ==
  /\ Bg \notin Callers /\ None \notin Threads /\ None \notin Handlers
  /\ EventHandlers \cap TimerHandlers = {}
  /\ PlugFds \subseteq Nat \ {0} /\ TimerFds \subseteq Nat \ {0}
  /\ PlugFds \cap TimerFds = {}
  /\ Intervals \subseteq Nat
  /\ MaxTimerRef \in Nat
  /\ GuardedRequests \in BOOLEAN /\ ReentrantRequests \in BOOLEAN

\* The period a timer descriptor is created with: at least 1 ms.
TimerKey(ms) == IF ms > 1 THEN ms ELSE 1
TimerKeys == Intervals \cup {TimerKey(ms) : ms \in Intervals}

Slot == [type : {"fd"}, fd : PlugFds, interval : {0}]
          \cup [type : {"timer"}, fd : TimerFds, interval : Intervals]
NoSlot == [type |-> "none", fd |-> NoFd, interval |-> 0]

Results == {"V3_OK", "V3_FALSE"}

\* A message; "thread" names the sender, whose stack holds the completion.
MessageOf(type, handlers, data) ==
  [type : {type}, handler : handlers, data : data, thread : Threads]
Message ==
  MessageOf("register_fd", EventHandlers, PlugFds)
    \cup MessageOf("unregister_fd", EventHandlers, {0})
    \cup MessageOf("register_timer", TimerHandlers, Intervals)
    \cup MessageOf("unregister_timer", TimerHandlers, {0})
QuitMessage == [type |-> "quit", handler |-> None, data |-> 0, thread |-> None]

VARIABLES
  phase,            \* s_unique_instance: "none", "live", or "quitting" in the destructor
  pc,               \* where each thread is
  guard,            \* owner of main_thread_guard_mutex, or None
  pipe,             \* messages in m_message_pipe
  result,           \* completion::m_result of each thread's request, or "empty"
  mutex,            \* owner of that completion's m_mutex, or None
  slot_by_handler,  \* m_slot_by_handler
  slot_by_fd,       \* m_slot_by_fd: the slots of each descriptor ...
  slot_fds,         \* ... and the keys of that map, which are never erased
  timer_fds,        \* m_timer_fds: descriptor and use count of each period
  pollfds_valid,    \* m_pollfds_valid
  pollfds,          \* m_pollfds
  revents,          \* entries of m_pollfds whose revents are still to be handled
  todo,             \* slots that the dispatch loop has still to visit
  running,          \* handler being dispatched, or None
  answer,           \* the thread to notify and the result it gets
  readable          \* descriptors the kernel reports as readable

tables == <<slot_by_handler, slot_by_fd, slot_fds, timer_fds>>
poll   == <<pollfds_valid, pollfds, revents>>
disp   == <<todo, running>>
compl  == <<result, mutex>>
vars   == <<phase, pc, guard, pipe, compl, tables, poll, disp, answer, readable>>

NoTimerFd == [fd |-> NoFd, count |-> 0]
NoAnswer  == [thread |-> None, result |-> "empty"]

Init ==
  /\ phase  = "none"
  /\ pc     = [t \in Threads |-> IF t = Bg THEN "ended" ELSE "idle"]
  /\ guard  = None
  /\ pipe   = << >>
  /\ result = [t \in Threads |-> "empty"]
  /\ mutex  = [t \in Threads |-> None]
  /\ slot_by_handler = [h \in Handlers |-> NoSlot]
  /\ slot_by_fd = [fd \in Fds |-> {}] /\ slot_fds = {}
  /\ timer_fds = [k \in TimerKeys |-> NoTimerFd]
  /\ pollfds_valid = FALSE /\ pollfds = {} /\ revents = {}
  /\ todo = {} /\ running = None
  /\ answer = NoAnswer
  /\ readable = {}

-----------------------------------------------------------------------------
(***************************************************************************)
(* Life of the loop.  The first reference creates the object and its       *)
(* thread, the last one destroys it.  The count is abstracted: the last    *)
(* reference goes away when no thread is inside a request (that thread     *)
(* holds one) and every handler is unregistered (ct_host_loop holds one    *)
(* while it has handlers registered).                                      *)
(***************************************************************************)
Instance(c) ==
  /\ phase = "none" /\ pc[c] = "idle"
  /\ phase' = "live"
  /\ pc' = [pc EXCEPT ![Bg] = "poll"]
  /\ UNCHANGED <<guard, pipe, compl, tables, poll, disp, answer, readable>>

Destroy(c) ==
  /\ phase = "live" /\ guard # c
  /\ \A d \in Callers : pc[d] = "idle"
  /\ \A h \in Handlers : slot_by_handler[h] = NoSlot
  /\ phase' = "quitting"
  /\ pc' = [pc EXCEPT ![c] = "join"]
  /\ pipe' = Append(pipe, QuitMessage)
  /\ UNCHANGED <<guard, compl, tables, poll, disp, answer, readable>>

Join(c) ==
  /\ pc[c] = "join" /\ pc[Bg] = "ended"
  /\ phase' = "none"
  /\ pc' = [pc EXCEPT ![c] = "idle"]
  /\ slot_by_handler' = [h \in Handlers |-> NoSlot]
  /\ slot_by_fd' = [fd \in Fds |-> {}] /\ slot_fds' = {}
  /\ timer_fds' = [k \in TimerKeys |-> NoTimerFd]
  /\ pollfds_valid' = FALSE /\ pollfds' = {} /\ revents' = {}
  /\ readable' = readable \cap PlugFds
  /\ UNCHANGED <<guard, pipe, compl, disp, answer>>

-----------------------------------------------------------------------------
(***************************************************************************)
(* main_thread_guard, as the host thread takes it: around activation, bus  *)
(* set-up, restart requests, ...  The mutex is recursive; nested sections  *)
(* of one thread count as one.                                             *)
(***************************************************************************)
EnterGuard(c) ==
  /\ pc[c] = "idle" /\ guard = None
  /\ guard' = c
  /\ UNCHANGED <<phase, pc, pipe, compl, tables, poll, disp, answer, readable>>

LeaveGuard(c) ==
  /\ pc[c] = "idle" /\ guard = c
  /\ guard' = None
  /\ UNCHANGED <<phase, pc, pipe, compl, tables, poll, disp, answer, readable>>

-----------------------------------------------------------------------------
(***************************************************************************)
(* Requests.  A thread writes its message and waits on its completion.     *)
(***************************************************************************)
MaySend(t) ==
  \/ /\ t # Bg /\ pc[t] = "idle" /\ phase = "live"
     /\ guard = t => GuardedRequests
  \/ t = Bg /\ pc[t] = "callback" /\ ReentrantRequests

Send(t, type, h, data) ==
  /\ MaySend(t)
  /\ pipe' = Append(pipe, [type |-> type, handler |-> h, data |-> data, thread |-> t])
  /\ pc' = [pc EXCEPT ![t] = "wait"]
  /\ UNCHANGED <<phase, guard, compl, tables, poll, disp, answer, readable>>

register_event_handler(t, h, fd) == Send(t, "register_fd", h, fd)
unregister_event_handler(t, h)   == Send(t, "unregister_fd", h, 0)
register_timer(t, h, ms) ==
  /\ timer_fds[TimerKey(ms)].count < MaxTimerRef
  /\ Send(t, "register_timer", h, ms)
unregister_timer(t, h) == Send(t, "unregister_timer", h, 0)

\* completion::wait: look at the result with the mutex held, and sleep if
\* there is none.
WaitSleep(t) ==
  /\ pc[t] = "wait" /\ mutex[t] = None /\ result[t] = "empty"
  /\ pc' = [pc EXCEPT ![t] = "sleep"]
  /\ UNCHANGED <<phase, guard, pipe, compl, tables, poll, disp, answer, readable>>

\* A condition variable may wake without a signal.
SpuriousWakeup(t) ==
  /\ pc[t] = "sleep"
  /\ pc' = [pc EXCEPT ![t] = "wait"]
  /\ UNCHANGED <<phase, guard, pipe, compl, tables, poll, disp, answer, readable>>

\* The request returns, and its completion leaves the stack.
WaitReturn(t) ==
  /\ pc[t] = "wait" /\ mutex[t] = None /\ result[t] # "empty"
  /\ result' = [result EXCEPT ![t] = "empty"]
  /\ pc' = [pc EXCEPT ![t] = IF t = Bg THEN "callback" ELSE "idle"]
  /\ UNCHANGED <<phase, guard, pipe, mutex, tables, poll, disp, answer, readable>>

-----------------------------------------------------------------------------
(***************************************************************************)
(* The background thread: poll.                                            *)
(***************************************************************************)
Open(fd) == fd \in PlugFds \/ \E k \in TimerKeys : timer_fds[k].fd = fd

\* What makes poll return: a message, a readable descriptor, or (POLLNVAL)
\* a descriptor that was closed while it stayed in the array.
Fired(fd) == IF fd = MessageFd THEN pipe # << >>
                               ELSE fd \in readable \/ ~Open(fd)

Poll ==
  /\ pc[Bg] = "poll"
  /\ LET fds == IF pollfds_valid THEN pollfds ELSE {MessageFd} \cup slot_fds
     IN /\ \E fd \in fds : Fired(fd)
        /\ pollfds' = fds
        /\ revents' = {fd \in fds : Fired(fd)}
  /\ pollfds_valid' = TRUE
  /\ pc' = [pc EXCEPT ![Bg] = "scan"]
  /\ UNCHANGED <<phase, guard, pipe, compl, tables, disp, answer, readable>>

\* The entries are visited in the order of the array: the pipe, then the
\* keys of m_slot_by_fd in increasing order.
NextEntry(fd) == fd \in revents /\ \A other \in revents : fd <= other

\* Mutant: only the first entry that fired is handled in a round.
EntryDone_OnePerRound(fd) ==
  /\ revents' = {}
  /\ pc' = [pc EXCEPT ![Bg] = "poll"]

\* Where the scan goes when the entry fd is done with.
EntryDone(fd) ==
  /\ revents' = revents \ {fd}
  /\ pc' = [pc EXCEPT ![Bg] = IF revents = {fd} THEN "poll" ELSE "scan"]

-----------------------------------------------------------------------------
(***************************************************************************)
(* Messages.  Each case of process_message changes the tables and gives a  *)
(* result, which is then handed to the sender.                             *)
(***************************************************************************)
Receive(type) ==
  /\ pc[Bg] = "scan" /\ NextEntry(MessageFd)
  /\ Head(pipe).type = type
  /\ pipe' = Tail(pipe)

Reply(res) ==
  /\ answer' = [thread |-> Head(pipe).thread, result |-> res]
  /\ pc' = [pc EXCEPT ![Bg] = "notify"]
  /\ UNCHANGED <<phase, guard, compl, pollfds, revents, disp>>

\* Mutant: a refusal is not answered.
Refuse_Silently ==
  /\ EntryDone(MessageFd)
  /\ UNCHANGED <<phase, guard, compl, tables, pollfds_valid, pollfds, disp, answer,
                 readable>>

Accept == pollfds_valid' = FALSE /\ Reply("V3_OK")
Refuse == UNCHANGED <<tables, pollfds_valid, readable>> /\ Reply("V3_FALSE")

ProcessQuit ==
  /\ Receive("quit")
  /\ pc' = [pc EXCEPT ![Bg] = "ended"]
  /\ UNCHANGED <<phase, guard, compl, tables, poll, disp, answer, readable>>

AddSlot(h, slot) ==
  /\ slot_by_handler' = [slot_by_handler EXCEPT ![h] = slot]
  /\ slot_by_fd' = [slot_by_fd EXCEPT ![slot.fd] = @ \cup {h}]
  /\ slot_fds' = slot_fds \cup {slot.fd}

\* Mutant: the set keeps the pointer.
RemoveSlot_KeepsPointer(h) ==
  /\ slot_by_handler' = [slot_by_handler EXCEPT ![h] = NoSlot]
  /\ UNCHANGED <<slot_by_fd, slot_fds>>

\* The set of the descriptor loses the slot; the key stays in the map.
RemoveSlot(h) ==
  /\ slot_by_handler' = [slot_by_handler EXCEPT ![h] = NoSlot]
  /\ slot_by_fd' = [slot_by_fd EXCEPT ![slot_by_handler[h].fd] = @ \ {h}]
  /\ slot_fds' = slot_fds \cup {slot_by_handler[h].fd}

ProcessRegisterFd ==
  /\ Receive("register_fd")
  /\ LET m == Head(pipe) IN
     IF slot_by_handler[m.handler] # NoSlot THEN Refuse
     ELSE /\ AddSlot(m.handler, [type |-> "fd", fd |-> m.data, interval |-> 0])
          /\ UNCHANGED <<timer_fds, readable>>
          /\ Accept

ProcessUnregisterFd ==
  /\ Receive("unregister_fd")
  /\ LET m == Head(pipe) IN
     IF slot_by_handler[m.handler].type # "fd" THEN Refuse
     ELSE /\ RemoveSlot(m.handler)
          /\ UNCHANGED <<timer_fds, readable>>
          /\ Accept

\* create_timer_fd: the descriptor of the period, shared by every timer that
\* has it, or a new one.
TimerFdCreated(k, fd) ==
  /\ \/ timer_fds[k].fd = fd
     \/ timer_fds[k] = NoTimerFd /\ ~Open(fd)
  /\ timer_fds' = [timer_fds EXCEPT ![k] = [fd |-> fd, count |-> @.count + 1]]

NoTimerFdLeft(k) ==
  timer_fds[k] = NoTimerFd /\ \A fd \in TimerFds : Open(fd)

\* Mutant: any user closes the descriptor.
TimerFdReleased_ClosesShared(ms) ==
  /\ timer_fds' = [timer_fds EXCEPT ![ms] = NoTimerFd]
  /\ readable' = readable \ {timer_fds[ms].fd}

\* release_timer_fd: the last user closes the descriptor.
TimerFdReleased(ms) ==
  \/ /\ timer_fds[ms].count > 1
     /\ timer_fds' = [timer_fds EXCEPT ![ms].count = @ - 1]
     /\ UNCHANGED readable
  \/ /\ timer_fds[ms].count = 1
     /\ timer_fds' = [timer_fds EXCEPT ![ms] = NoTimerFd]
     /\ readable' = readable \ {timer_fds[ms].fd}
  \/ timer_fds[ms] = NoTimerFd /\ UNCHANGED <<timer_fds, readable>>

ProcessRegisterTimer ==
  /\ Receive("register_timer")
  /\ LET m == Head(pipe) IN
     IF slot_by_handler[m.handler] # NoSlot \/ NoTimerFdLeft(TimerKey(m.data))
     THEN Refuse
     ELSE \E fd \in TimerFds :
            /\ TimerFdCreated(TimerKey(m.data), fd)
            /\ AddSlot(m.handler,
                       [type |-> "timer", fd |-> fd, interval |-> m.data])
            /\ UNCHANGED readable
            /\ Accept

ProcessUnregisterTimer ==
  /\ Receive("unregister_timer")
  /\ LET m == Head(pipe) IN
     IF slot_by_handler[m.handler].type # "timer" THEN Refuse
     ELSE /\ TimerFdReleased(slot_by_handler[m.handler].interval)
          /\ RemoveSlot(m.handler)
          /\ Accept

ProcessMessage ==
  \/ ProcessQuit
  \/ ProcessRegisterFd    \/ ProcessUnregisterFd
  \/ ProcessRegisterTimer \/ ProcessUnregisterTimer

-----------------------------------------------------------------------------
(***************************************************************************)
(* completion::notify: the result is stored and the sender woken with the  *)
(* mutex held, which is released last.                                     *)
(***************************************************************************)
\* Mutants: the mutex is not taken; nobody is woken.
NotifyStore_Unlocked ==
  /\ pc[Bg] = "notify"
  /\ result' = [result EXCEPT ![answer.thread] = answer.result]
  /\ pc' = [pc EXCEPT ![Bg] = "signal"]
  /\ UNCHANGED <<phase, guard, pipe, mutex, tables, poll, disp, answer, readable>>

NotifyStore ==
  /\ pc[Bg] = "notify" /\ mutex[answer.thread] = None
  /\ mutex'  = [mutex EXCEPT ![answer.thread] = Bg]
  /\ result' = [result EXCEPT ![answer.thread] = answer.result]
  /\ pc' = [pc EXCEPT ![Bg] = "signal"]
  /\ UNCHANGED <<phase, guard, pipe, tables, poll, disp, answer, readable>>

NotifySignal_WakesNobody ==
  /\ pc[Bg] = "signal"
  /\ pc' = [pc EXCEPT ![Bg] = "unlock"]
  /\ UNCHANGED <<phase, guard, pipe, compl, tables, poll, disp, answer, readable>>

NotifySignal ==
  /\ pc[Bg] = "signal"
  /\ pc' = [pc EXCEPT ![Bg] = "unlock",
                      ![answer.thread] = IF @ = "sleep" THEN "wait" ELSE @]
  /\ UNCHANGED <<phase, guard, pipe, compl, tables, poll, disp, answer, readable>>

NotifyUnlock ==
  /\ pc[Bg] = "unlock"
  /\ mutex' = [mutex EXCEPT ![answer.thread] = None]
  /\ EntryDone(MessageFd)
  /\ answer' = NoAnswer
  /\ UNCHANGED <<phase, guard, pipe, result, tables, pollfds_valid, pollfds, disp,
                 readable>>

-----------------------------------------------------------------------------
(***************************************************************************)
(* Dispatch.  Every slot of the descriptor is visited; the order in its    *)
(* set is that of addresses, hence any.                                    *)
(***************************************************************************)
DispatchFd(fd) ==
  /\ pc[Bg] = "scan" /\ fd # MessageFd /\ NextEntry(fd)
  /\ todo' = slot_by_fd[fd]
  /\ pc' = [pc EXCEPT ![Bg] = "slots"]
  /\ UNCHANGED <<phase, guard, pipe, compl, tables, poll, running, answer, readable>>

\* A timer reads its descriptor first, and the read blocks until it expired.
DispatchSlot(h) ==
  /\ pc[Bg] = "slots" /\ h \in todo
  /\ \/ slot_by_handler[h].type = "fd" /\ UNCHANGED readable
     \/ /\ slot_by_handler[h].type = "timer"
        /\ slot_by_handler[h].fd \in readable
        /\ readable' = readable \ {slot_by_handler[h].fd}
  /\ running' = h
  /\ todo' = todo \ {h}
  /\ pc' = [pc EXCEPT ![Bg] = "lock"]
  /\ UNCHANGED <<phase, guard, pipe, compl, tables, poll, answer>>

\* Mutant: a callback without main_thread_guard.
LockGuard_Ignored ==
  /\ pc[Bg] = "lock"
  /\ guard' = Bg
  /\ pc' = [pc EXCEPT ![Bg] = "callback"]
  /\ UNCHANGED <<phase, pipe, compl, tables, poll, disp, answer, readable>>

LockGuard ==
  /\ pc[Bg] = "lock" /\ guard = None
  /\ guard' = Bg
  /\ pc' = [pc EXCEPT ![Bg] = "callback"]
  /\ UNCHANGED <<phase, pipe, compl, tables, poll, disp, answer, readable>>

\* The callback returns; an event handler may have drained its descriptor.
CallbackReturn ==
  /\ pc[Bg] = "callback"
  /\ guard' = None
  /\ running' = None
  /\ \/ UNCHANGED readable
     \/ /\ slot_by_handler[running].type = "fd"
        /\ readable' = readable \ {slot_by_handler[running].fd}
  /\ pc' = [pc EXCEPT ![Bg] = "slots"]
  /\ UNCHANGED <<phase, pipe, compl, tables, poll, todo, answer>>

DispatchDone(fd) ==
  /\ pc[Bg] = "slots" /\ todo = {} /\ NextEntry(fd)
  /\ EntryDone(fd)
  /\ UNCHANGED <<phase, guard, pipe, compl, tables, pollfds_valid, pollfds, disp,
                 answer, readable>>

-----------------------------------------------------------------------------
(***************************************************************************)
(* The kernel and the peers of the plugins' descriptors.                   *)
(***************************************************************************)
FdReady(fd) ==
  /\ fd \in PlugFds \ readable
  /\ readable' = readable \cup {fd}
  /\ UNCHANGED <<phase, pc, guard, pipe, compl, tables, poll, disp, answer>>

TimerExpires(fd) ==
  /\ fd \in TimerFds \ readable /\ Open(fd)
  /\ readable' = readable \cup {fd}
  /\ UNCHANGED <<phase, pc, guard, pipe, compl, tables, poll, disp, answer>>

-----------------------------------------------------------------------------
Request(t) ==
  \/ \E h \in EventHandlers, fd \in PlugFds : register_event_handler(t, h, fd)
  \/ \E h \in EventHandlers : unregister_event_handler(t, h)
  \/ \E h \in TimerHandlers, ms \in Intervals : register_timer(t, h, ms)
  \/ \E h \in TimerHandlers : unregister_timer(t, h)

Lifetime(c) == Instance(c) \/ Destroy(c) \/ Join(c)

Wait(t) == WaitSleep(t) \/ SpuriousWakeup(t) \/ WaitReturn(t)

Notify == NotifyStore \/ NotifySignal \/ NotifyUnlock

Dispatch ==
  \/ \E fd \in Fds : DispatchFd(fd) \/ DispatchDone(fd)
  \/ \E h \in Handlers : DispatchSlot(h)
  \/ CallbackReturn

Environment == \E fd \in Fds : FdReady(fd) \/ TimerExpires(fd)

Next ==
  \/ \E c \in Callers : Lifetime(c) \/ EnterGuard(c) \/ LeaveGuard(c)
  \/ \E t \in Threads : Request(t) \/ Wait(t)
  \/ Poll \/ ProcessMessage \/ Notify \/ Dispatch \/ LockGuard
  \/ Environment

Spec == Init /\ [][Next]_vars

(***************************************************************************)
(* Fairness.  Threads run and callbacks return (WF of what they do next);  *)
(* guarded sections are finite; the clock advances; and the mutex does not *)
(* starve the background thread for ever, which pthread mutexes promise    *)
(* only in practice: it is the one strong fairness on a lock.  Nothing is  *)
(* assumed of what callers ask for or of the plugins' descriptors.         *)
(***************************************************************************)
Fairness ==
  /\ WF_vars(Poll) /\ WF_vars(ProcessMessage) /\ WF_vars(Notify)
  /\ WF_vars(Dispatch) /\ SF_vars(LockGuard)
  /\ \A t \in Threads : WF_vars(WaitReturn(t))
  /\ \A c \in Callers : WF_vars(Join(c)) /\ SF_vars(LeaveGuard(c))
  /\ \A fd \in TimerFds : WF_vars(TimerExpires(fd))

FairSpec == Spec /\ Fairness
-----------------------------------------------------------------------------
(***************************************************************************)
(* Properties.                                                             *)
(***************************************************************************)

\* The types of the loop's state.
TypeOK ==
  /\ phase \in {"none", "live", "quitting"}
  /\ pc \in [Threads -> {"idle", "join", "wait", "sleep", "poll", "scan", "notify",
                         "signal", "unlock", "slots", "lock", "callback", "ended"}]
  /\ guard \in Threads \cup {None}
  /\ pipe \in Seq(Message \cup {QuitMessage})
  /\ result \in [Threads -> Results \cup {"empty"}]
  /\ mutex \in [Threads -> {Bg, None}]
  /\ slot_by_handler \in [Handlers -> Slot \cup {NoSlot}]
  /\ slot_by_fd \in [Fds -> SUBSET Handlers]
  /\ slot_fds \subseteq Fds
  /\ timer_fds \in [TimerKeys -> [fd : TimerFds, count : Nat \ {0}] \cup {NoTimerFd}]
  /\ pollfds_valid \in BOOLEAN
  /\ pollfds \subseteq Fds \cup {MessageFd}
  /\ revents \subseteq Fds \cup {MessageFd}
  /\ todo \subseteq Handlers
  /\ running \in Handlers \cup {None}
  /\ answer \in [thread : Threads \cup {None}, result : Results \cup {"empty"}]
  /\ readable \subseteq Fds

\* The two indexes of the slots describe the same slots: a handler is in the
\* set of a descriptor exactly when its slot is on that descriptor, and that
\* descriptor is a key of the map.  A slot left behind in a set would be a
\* pointer to freed memory (process_message).
SlotMapsAgree ==
  \A h \in Handlers, fd \in Fds :
    /\ h \in slot_by_fd[fd] <=> slot_by_handler[h].fd = fd
    /\ slot_by_handler[h].fd = fd => fd \in slot_fds

\* The timers whose descriptor is that of the period k.
TimerUsers(k) ==
  {h \in Handlers : /\ slot_by_handler[h].type = "timer"
                    /\ TimerKey(slot_by_handler[h].interval) = k}

\* The descriptor of a registered timer is the one of its period and is open:
\* the use count never falls below the number of timers, so that no release
\* closes a descriptor another timer polls.  Above the period where creation
\* and release disagree on the key (0 is created as 1), none is kept open for
\* nobody either (create_timer_fd, release_timer_fd).
TimerFdsCounted ==
  \A k \in TimerKeys :
    /\ timer_fds[k].count >= Cardinality(TimerUsers(k))
    /\ k > 1 => timer_fds[k].count = Cardinality(TimerUsers(k))
    /\ \A h \in TimerUsers(k) : slot_by_handler[h].fd = timer_fds[k].fd

\* A handler that is being dispatched, or that the dispatch loop has still to
\* visit, is registered: requests and calls do not overlap on the background
\* thread, so no callback is made on a handler whose removal was answered.
DispatchOnlyRegistered ==
  \A h \in todo \cup ({running} \ {None}) : slot_by_handler[h] # NoSlot

\* An entry of the poll array has slots to look up when it fires: the
\* assertion it != m_slot_by_fd.end() of the dispatch never fails, also for
\* an array that was filled before handlers went away.
SlotSetFound ==
  pc[Bg] \in {"scan", "slots"} => revents \subseteq slot_fds \cup {MessageFd}

\* The completion lives on the sender's stack.  While the background thread
\* is inside notify its owner has not returned, even if it woke up early
\* (completion::notify, completion::wait).
CompletionAlive ==
  pc[Bg] \in {"notify", "signal", "unlock"} => pc[answer.thread] \in {"wait", "sleep"}

\* A waiting thread is owed exactly one answer: its message is in the pipe,
\* or is being answered, or has been, and never two of these at once.
OneAnswerPerRequest ==
  \A t \in Threads :
    LET sent == {i \in 1..Len(pipe) : pipe[i].thread = t}
        owed == Cardinality(sent)
                + (IF answer.thread = t \/ result[t] # "empty" THEN 1 ELSE 0)
    IN owed = IF pc[t] \in {"wait", "sleep"} THEN 1 ELSE 0

\* The loop implements the service its users rely on.  The handler counts as
\* being called while its callback runs, a request is what its message in the
\* pipe asks for, and the reply is decided when the message was processed.
Registered == {h \in Handlers : slot_by_handler[h] # NoSlot}
Calling    == IF guard = Bg THEN running ELSE None

Asks(m) == [op |-> IF m.type \in {"register_fd", "register_timer"}
                   THEN "register" ELSE "unregister",
            handler |-> m.handler]

AskedOf(t) ==
  LET sent == {i \in 1..Len(pipe) : pipe[i].thread = t}
  IN IF sent = {} THEN [op |-> "none", handler |-> None]
     ELSE Asks(pipe[CHOOSE i \in sent : TRUE])

Asked   == [t \in Threads |-> AskedOf(t)]
Replied == [t \in Threads |-> IF answer.thread = t THEN answer.result ELSE result[t]]

Service == INSTANCE RunLoopService WITH
  registered <- Registered, running <- Calling, request <- Asked, reply <- Replied

ImplementsService == Service!Spec

\* Every call on the loop returns: a request gets its answer, and the
\* destructor joins the thread.
CallsReturn == \A c \in Callers : pc[c] # "idle" ~> pc[c] = "idle"

\* The background thread executes the callback of h.
Called(h) == running = h /\ pc[Bg] = "callback"

\* A registered timer is operational (the comment on its status in
\* ct_host_loop.cpp): it is called again and again for as long as it stays
\* registered.
TimerOperational ==
  \A h \in TimerHandlers :
    slot_by_handler[h] # NoSlot ~> Called(h) \/ slot_by_handler[h] = NoSlot

\* A readable descriptor leads to a call of every handler watching it, unless
\* the handler goes away or somebody drains the descriptor first.
EventDelivered ==
  \A h \in EventHandlers, fd \in PlugFds :
    slot_by_handler[h].fd = fd /\ fd \in readable
      ~> Called(h) \/ slot_by_handler[h].fd # fd \/ fd \notin readable
=============================================================================
