------------------------------ MODULE HostLoop ------------------------------
(***************************************************************************)
(* The timers and descriptors of one component, and the run loop that      *)
(* serves them (ct_host_loop.cpp), driven by the component's life          *)
(* (ct_component::initialize and terminate) and by its editor              *)
(* (ct_edit_controller::create_view, ct_plug_view::attached and removed).  *)
(*                                                                         *)
(* A timer or descriptor is a slot.  It is pending while no loop has it    *)
(* and registered otherwise; set_run_loop carries all slots from one loop  *)
(* to another.  There are two loops: Threaded, of which RunLoopService     *)
(* says what it promises, and Frame, which the host's plugin frame offers  *)
(* and which calls handlers on the host's own thread.                      *)
(*                                                                         *)
(* The host thread executes the component's functions; their steps         *)
(* interleave with the callbacks of the Threaded loop, which take no part  *)
(* in the host thread's locks here: none of these functions takes          *)
(* main_thread_guard.  A step ends where a loop may call back.             *)
(***************************************************************************)
EXTENDS Integers, FiniteSets

CONSTANTS
  FdCount,        \* descriptors of the plugin: slots 0 .. FdCount - 1
  TimerCount,     \* bound on live timers: the slots after those
  Handlers,       \* handler objects
  None,           \* no handler
  Uses            \* the uses of a component: may a loop refuse a registration,
                  \* do other components keep the Threaded loop alive, and does
                  \* a callback of that loop unregister its own timer

FdSlots    == 0 .. FdCount - 1
TimerSlots == FdCount .. FdCount + TimerCount - 1
SlotCount  == FdCount + TimerCount
Slots      == 0 .. SlotCount - 1

Threaded == "threaded"
Frame    == "frame"
NoLoop   == "nullptr"
Loops    == {Threaded, Frame}

ASSUME HostLoopAssumption ==
  /\ FdCount \in Nat /\ TimerCount \in Nat
  /\ None \notin Handlers
  /\ Uses \subseteq [refusals : BOOLEAN, others : BOOLEAN, reentrant : BOOLEAN]

\* timer_data and posix_fd_data: m_status, m_handler and m_reserved.
SlotData == [status : {"pending", "registered"}, handler : Handlers, reserved : BOOLEAN]
NoSlot   == [status |-> "none", handler |-> None, reserved |-> FALSE]

VARIABLES
  slots,          \* m_posix_fd and m_timers
  m_runloop,      \* the loop that serves the slots, or NoLoop
  registry,       \* handlers each loop has
  refs,           \* references this component holds on each loop
  running,        \* handler the Threaded loop is calling, or None
  stuck,          \* the Threaded loop waits for itself, or an assertion failed
  pc,             \* where the host thread is
  call,           \* the component's function it executes
  target,         \* set_run_loop: the new loop ...
  at,             \* ... and the slot it has come to
  new,            \* register_timer: the slot before it is stored ...
  new_at,         \* ... and where it goes
  initialized,    \* ct_component::m_initialized
  idle_timer,     \* m_idle_timer_id
  have_idle_timer,\* m_have_idle_timer
  view,           \* the editor: "none", "open" or "attached"
  flag,           \* m_flag_sched_plugin_callback
  use             \* which use it is

switch == <<target, at>>
local  == <<new, new_at>>
idle   == <<idle_timer, have_idle_timer>>
loops  == <<registry, refs>>
vars   == <<use, slots, m_runloop, loops, running, stuck, pc, call, switch, local,
            initialized, idle, view, flag>>

Init ==
  /\ slots = [i \in Slots |-> NoSlot]
  /\ m_runloop = NoLoop
  /\ registry = [l \in Loops |-> {}]
  /\ refs = [l \in Loops |-> 0]
  /\ running = None /\ stuck = FALSE
  /\ pc = "idle" /\ call = "none"
  /\ target = NoLoop /\ at = 0
  /\ new = NoSlot /\ new_at = 0
  /\ initialized = FALSE
  /\ idle_timer = 0 /\ have_idle_timer = FALSE
  /\ view = "none"
  /\ flag = FALSE
  /\ use \in Uses

-----------------------------------------------------------------------------
(***************************************************************************)
(* Requests to a loop.  The Threaded loop serves none while it calls a     *)
(* handler.                                                                *)
(***************************************************************************)
\* Mutant: a loop that takes requests while it calls a handler.
Serves_Always(l) == TRUE

Serves(l) == l = Threaded => running = None

Joined(l, h) == registry' = [registry EXCEPT ![l] = @ \cup {h}]
Left(l, h)   == registry' = [registry EXCEPT ![l] = @ \ {h}]

Ref(l) == refs' = [refs EXCEPT ![l] = @ + 1]

\* Dropping the last reference to the Threaded loop destroys it.
Unref(l) ==
  /\ refs' = [refs EXCEPT ![l] = @ - 1]
  /\ registry' = IF l = Threaded /\ refs[l] = 1 /\ ~use.others
                 THEN [registry EXCEPT ![l] = {}] ELSE registry

\* A new handler is none that a slot or a loop still has.
Fresh(h) ==
  /\ \A i \in Slots : slots[i].handler # h
  /\ \A l \in Loops : h \notin registry[l]
  /\ running # h /\ new.handler # h

-----------------------------------------------------------------------------
(***************************************************************************)
(* register_timer, register_fd.                                            *)
(***************************************************************************)
FirstFree(i) == slots[i] = NoSlot /\ \A j \in TimerSlots : j < i => slots[j] # NoSlot

\* The handler goes to the loop first, if there is one; then the slot is stored.
Register(i, reserved) ==
  \E h \in Handlers :
    /\ Fresh(h)
    /\ new_at' = i
    /\ \/ /\ m_runloop # NoLoop /\ Serves(m_runloop)
          /\ Joined(m_runloop, h)
          /\ new' = [status |-> "registered", handler |-> h, reserved |-> reserved]
       \/ /\ m_runloop # NoLoop => Serves(m_runloop) /\ use.refusals
          /\ UNCHANGED registry
          /\ new' = [status |-> "pending", handler |-> h, reserved |-> reserved]
    /\ pc' = "store"
    /\ UNCHANGED <<use, slots, m_runloop, refs, running, stuck, call, switch, initialized,
                   idle, view, flag>>

register_timer(i) ==
  /\ pc = "idle" /\ i \in TimerSlots /\ FirstFree(i)
  /\ Register(i, FALSE)

register_fd(i) ==
  /\ pc = "idle" /\ i \in FdSlots /\ slots[i] = NoSlot
  /\ Register(i, FALSE)

\* The slot is stored and its index given to the caller; when that is
\* initialize, the index is the idle timer's and initialize is done.
Store ==
  /\ pc = "store"
  /\ slots' = [slots EXCEPT ![new_at] = new]
  /\ new' = NoSlot
  /\ IF new.reserved THEN /\ idle_timer' = new_at
                          /\ have_idle_timer' = TRUE
                          /\ initialized' = TRUE
                     ELSE UNCHANGED <<idle, initialized>>
  /\ pc' = "idle" /\ call' = "none"
  /\ UNCHANGED <<use, m_runloop, loops, running, stuck, switch, new_at, view, flag>>

\* unregister_timer, unregister_fd.
Unregister(i) ==
  /\ slots[i] # NoSlot
  /\ \/ /\ slots[i].status = "registered" /\ Serves(m_runloop)
        /\ Left(m_runloop, slots[i].handler)
     \/ slots[i].status = "pending" /\ UNCHANGED registry
  /\ slots' = [slots EXCEPT ![i] = NoSlot]

\* A plugin knows the slots it registered, not the reserved one.
unregister(i) ==
  /\ pc = "idle" /\ ~slots[i].reserved
  /\ Unregister(i)
  /\ UNCHANGED <<use, m_runloop, refs, running, stuck, pc, call, switch, local, initialized,
                 idle, view, flag>>

-----------------------------------------------------------------------------
(***************************************************************************)
(* set_run_loop.                                                           *)
(***************************************************************************)

\* The caller has a reference on the new loop, from instance() or from
\* query_interface, and gives it back when set_run_loop returned.
SetRunLoop(l, caller) ==
  /\ target' = l /\ at' = 0 /\ call' = caller
  /\ refs' = IF l = NoLoop THEN refs ELSE [refs EXCEPT ![l] = @ + 1]
  /\ pc' = IF l = m_runloop THEN "switched"
           ELSE IF m_runloop = NoLoop THEN "join" ELSE "leave"

\* Mutant: the slot is still registered afterwards.
Leave_StaysRegistered ==
  /\ pc = "leave" /\ at < SlotCount
  /\ IF slots[at].status = "registered"
     THEN Serves(m_runloop) /\ Left(m_runloop, slots[at].handler)
     ELSE UNCHANGED registry
  /\ at' = at + 1
  /\ UNCHANGED <<use, slots, m_runloop, refs, running, stuck, pc, call, target, local,
                 initialized, idle, view, flag>>

Leave ==
  /\ pc = "leave" /\ at < SlotCount
  /\ IF slots[at].status = "registered"
     THEN /\ Serves(m_runloop)
          /\ Left(m_runloop, slots[at].handler)
          /\ slots' = [slots EXCEPT ![at].status = "pending"]
     ELSE UNCHANGED <<slots, registry>>
  /\ at' = at + 1
  /\ UNCHANGED <<use, m_runloop, refs, running, stuck, pc, call, target, local, initialized,
                 idle, view, flag>>

\* The old loop is given back.  m_runloop still names it while slots join the
\* new one, and is cleared now when there is none.
LeaveDone ==
  /\ pc = "leave" /\ at = SlotCount
  /\ Unref(m_runloop)
  /\ at' = 0
  /\ IF target = NoLoop THEN m_runloop' = NoLoop /\ pc' = "switched"
                        ELSE UNCHANGED m_runloop /\ pc' = "join"
  /\ UNCHANGED <<use, slots, running, stuck, call, target, local, initialized, idle, view,
                 flag>>

Join ==
  /\ pc = "join" /\ at < SlotCount
  /\ \/ /\ slots[at].status = "pending" /\ Serves(target)
        /\ Joined(target, slots[at].handler)
        /\ pc' = "mark" /\ UNCHANGED at
     \/ /\ slots[at].status = "pending" => Serves(target) /\ use.refusals
        /\ at' = at + 1 /\ UNCHANGED <<pc, registry>>
  /\ UNCHANGED <<use, slots, m_runloop, refs, running, stuck, call, target, local,
                 initialized, idle, view, flag>>

\* Mutant: the slot is not marked.
Mark_Forgotten ==
  /\ pc = "mark"
  /\ pc' = "join" /\ at' = at + 1
  /\ UNCHANGED <<use, slots, m_runloop, loops, running, stuck, call, target, local,
                 initialized, idle, view, flag>>

\* The loop may have called the handler before its slot says so.  A slot that
\* went away meanwhile is written after it was freed; what was there is lost.
Mark ==
  /\ pc = "mark"
  /\ slots' = IF slots[at] = NoSlot THEN slots
              ELSE [slots EXCEPT ![at].status = "registered"]
  /\ pc' = "join" /\ at' = at + 1
  /\ UNCHANGED <<use, m_runloop, loops, running, stuck, call, target, local, initialized,
                 idle, view, flag>>

JoinDone ==
  /\ pc = "join" /\ at = SlotCount
  /\ Ref(target)
  /\ m_runloop' = target
  /\ pc' = "switched"
  /\ UNCHANGED <<use, slots, registry, running, stuck, call, switch, local, initialized, idle,
                 view, flag>>

\* set_run_loop returned.
Switched(caller) ==
  /\ pc = "switched" /\ call = caller
  /\ IF target = NoLoop THEN UNCHANGED loops ELSE Unref(target)
  /\ UNCHANGED <<use, slots, m_runloop, running, stuck, target, at, local, idle, flag>>

Return == pc' = "idle" /\ call' = "none"

-----------------------------------------------------------------------------
(***************************************************************************)
(* ct_component.                                                           *)
(***************************************************************************)
initialize ==
  /\ pc = "idle" /\ ~initialized
  /\ SetRunLoop(Threaded, "initialize")
  /\ UNCHANGED <<use, slots, m_runloop, registry, running, stuck, local, initialized, idle,
                 view, flag>>

initialize_run_loop_set ==
  /\ Switched("initialize")
  /\ pc' = "idle_timer"
  /\ UNCHANGED <<use, call, initialized, view>>

initialize_idle_timer ==
  /\ pc = "idle_timer"
  /\ \E i \in TimerSlots : FirstFree(i) /\ Register(i, TRUE)

\* A host closes the editor first.
terminate ==
  /\ pc = "idle" /\ initialized /\ view = "none"
  /\ have_idle_timer
  /\ Unregister(idle_timer)
  /\ SetRunLoop(NoLoop, "terminate")
  /\ UNCHANGED <<use, m_runloop, running, stuck, local, initialized, idle, view, flag>>

terminate_done ==
  /\ Switched("terminate")
  /\ initialized' = FALSE
  /\ Return
  /\ UNCHANGED view

\* The destructors: the plugin is gone, and ct_host_loop's clears the loop.
destroy ==
  /\ pc = "idle" /\ ~initialized
  /\ SetRunLoop(NoLoop, "destructor")
  /\ UNCHANGED <<use, slots, m_runloop, registry, running, stuck, local, initialized, idle,
                 view, flag>>

destroyed ==
  /\ Switched("destructor")
  /\ pc' = "dead"
  /\ UNCHANGED <<use, call, initialized, view>>

-----------------------------------------------------------------------------
(***************************************************************************)
(* The editor.                                                             *)
(***************************************************************************)
create_view ==
  /\ pc = "idle" /\ initialized /\ view = "none"
  /\ view' = "open"
  /\ UNCHANGED <<use, slots, m_runloop, loops, running, stuck, pc, call, switch, local,
                 initialized, idle, flag>>

\* m_set_frame_hook with the frame, whose loop is taken.
attached ==
  /\ pc = "idle" /\ view = "open"
  /\ SetRunLoop(Frame, "attached")
  /\ UNCHANGED <<use, slots, m_runloop, registry, running, stuck, local, initialized, idle,
                 view, flag>>

\* The plugin's gui->create succeeds ...
attached_done ==
  /\ Switched("attached")
  /\ view' = "attached"
  /\ Return
  /\ UNCHANGED initialized

\* ... or fails, and the hook runs again without a frame.
attached_failed ==
  /\ Switched("attached")
  /\ pc' = "detach"
  /\ UNCHANGED <<use, call, initialized, view>>

detach ==
  /\ pc = "detach"
  /\ SetRunLoop(Threaded, "removed")
  /\ UNCHANGED <<use, slots, m_runloop, registry, running, stuck, local, initialized, idle,
                 view, flag>>

removed ==
  /\ pc = "idle" /\ view = "attached"
  /\ SetRunLoop(Threaded, "removed")
  /\ UNCHANGED <<use, slots, m_runloop, registry, running, stuck, local, initialized, idle,
                 view, flag>>

removed_done ==
  /\ Switched("removed")
  /\ view' = "open"
  /\ Return
  /\ UNCHANGED initialized

\* m_delete_hook, when the host drops the last reference to the view.
delete_view ==
  /\ pc = "idle" /\ view # "none"
  /\ SetRunLoop(Threaded, "delete_view")
  /\ UNCHANGED <<use, slots, m_runloop, registry, running, stuck, local, initialized, idle,
                 view, flag>>

delete_view_done ==
  /\ Switched("delete_view")
  /\ view' = "none"
  /\ Return
  /\ UNCHANGED initialized

-----------------------------------------------------------------------------
(***************************************************************************)
(* Callbacks.  invoke_timer_callback hands a reserved timer to             *)
(* on_reserved_timer, which runs what request_callback asked for.          *)
(***************************************************************************)
request_callback ==
  /\ pc # "dead"
  /\ flag' = TRUE
  /\ UNCHANGED <<use, slots, m_runloop, loops, running, stuck, pc, call, switch, local,
                 initialized, idle, view>>

\* The handler is that of the slot the component knows as its idle timer.
IsIdleTimer(h) ==
  /\ have_idle_timer
  /\ \/ slots[idle_timer].handler = h /\ slots[idle_timer].reserved
     \/ new.handler = h /\ new.reserved /\ new_at = idle_timer

OnReservedTimer(h) == flag' = (flag /\ ~IsIdleTimer(h))

StartCallback(h) ==
  /\ running = None /\ h \in registry[Threaded]
  /\ running' = h
  /\ UNCHANGED <<use, slots, m_runloop, loops, stuck, pc, call, switch, local, initialized,
                 idle, view, flag>>

EndCallback ==
  /\ running # None /\ ~stuck
  /\ OnReservedTimer(running)
  /\ running' = None
  /\ UNCHANGED <<use, slots, m_runloop, loops, stuck, pc, call, switch, local, initialized,
                 idle, view>>

\* The Frame loop calls on the host thread, when that has nothing else to do.
FrameCallback(h) ==
  /\ pc = "idle" /\ h \in registry[Frame]
  /\ OnReservedTimer(h)
  /\ UNCHANGED <<use, slots, m_runloop, loops, running, stuck, pc, call, switch, local,
                 initialized, idle, view>>

\* A timer that fires once: the plugin's callback unregisters it.  The request
\* goes to m_runloop; the Threaded loop would wait for its own answer, and the
\* Frame loop does not know the handler.
UnregisterInCallback(i) ==
  /\ use.reentrant /\ running # None /\ ~stuck
  /\ slots[i].handler = running /\ ~slots[i].reserved
  /\ IF slots[i].status = "registered" /\ m_runloop \in {Threaded, NoLoop}
     THEN stuck' = TRUE /\ UNCHANGED slots
     ELSE slots' = [slots EXCEPT ![i] = NoSlot] /\ UNCHANGED stuck
  /\ UNCHANGED <<use, m_runloop, loops, running, pc, call, switch, local, initialized, idle,
                 view, flag>>

-----------------------------------------------------------------------------
Switching == Leave \/ LeaveDone \/ Join \/ Mark \/ JoinDone

Component ==
  \/ initialize \/ initialize_run_loop_set \/ initialize_idle_timer
  \/ terminate  \/ terminate_done
  \/ destroy    \/ destroyed

Editor ==
  \/ create_view \/ attached \/ attached_done \/ attached_failed \/ detach
  \/ removed \/ removed_done \/ delete_view \/ delete_view_done

Plugin ==
  \/ \E i \in Slots : register_timer(i) \/ register_fd(i) \/ unregister(i)
  \/ Store
  \/ request_callback

Callback ==
  \/ \E h \in Handlers : StartCallback(h) \/ FrameCallback(h)
  \/ EndCallback
  \/ \E i \in TimerSlots : UnregisterInCallback(i)

\* After the destructors nothing has to happen.
Dead == pc = "dead" /\ UNCHANGED vars

Next == Switching \/ Component \/ Editor \/ Plugin \/ Callback \/ Dead

Spec == Init /\ [][Next]_vars

(***************************************************************************)
(* Fairness.  A function that was called goes on; it waits for the         *)
(* Threaded loop, which serves a request before it starts a new round of   *)
(* callbacks (RunLoop: the pipe is the first entry), hence SF.  Loops call *)
(* the timers they have again and again: TimerOperational of RunLoop for   *)
(* the one, the host's promise for the other.  Nothing is assumed of what  *)
(* the host or the plugin asks for.                                        *)
(***************************************************************************)
Proceeds ==
  \/ Switching \/ Store
  \/ initialize_run_loop_set \/ initialize_idle_timer \/ terminate_done \/ destroyed
  \/ attached_done \/ attached_failed \/ detach \/ removed_done \/ delete_view_done

\* Whichever loop has the idle timer calls it.
IdleTimerCalled ==
  \E h \in Handlers : h = slots[idle_timer].handler /\ (StartCallback(h) \/ FrameCallback(h))

Fairness == SF_vars(Proceeds) /\ WF_vars(EndCallback) /\ SF_vars(IdleTimerCalled)

FairSpec == Spec /\ Fairness
-----------------------------------------------------------------------------
(***************************************************************************)
(* Properties.                                                             *)
(***************************************************************************)

\* The types of the component's state.
TypeOK ==
  /\ slots \in [Slots -> SlotData \cup {NoSlot}]
  /\ m_runloop \in Loops \cup {NoLoop} /\ target \in Loops \cup {NoLoop}
  /\ registry \in [Loops -> SUBSET Handlers]
  /\ refs \in [Loops -> 0..2]
  /\ running \in Handlers \cup {None} /\ stuck \in BOOLEAN
  /\ pc \in {"idle", "store", "leave", "join", "mark", "switched", "idle_timer",
             "detach", "dead"}
  /\ call \in {"none", "initialize", "terminate", "destructor", "attached", "removed",
               "delete_view"}
  /\ at \in 0..SlotCount
  /\ new \in SlotData \cup {NoSlot} /\ new_at \in Slots \cup {0}
  /\ initialized \in BOOLEAN
  /\ idle_timer \in Slots \cup {0} /\ have_idle_timer \in BOOLEAN
  /\ view \in {"none", "open", "attached"}
  /\ flag \in BOOLEAN
  /\ use \in Uses

\* A handler's callback data is a slot that exists: handlers that a loop has,
\* or is calling, belong to a slot, or to the one register_timer is about to
\* store.  Otherwise the callback would read freed memory
\* (invoke_timer_callback, invoke_posix_fd_callback), as it does for a timer
\* that its own callback unregisters.
Owned(h) == new.handler = h \/ \E i \in Slots : slots[i].handler = h

HandlersOwned ==
  ~use.reentrant =>
    /\ \A l \in Loops : \A h \in registry[l] : Owned(h)
    /\ running # None => Owned(running)

\* Between the component's functions a slot says that it is registered
\* exactly when the current loop has its handler, and no other loop has it; so
\* unregister_timer neither forgets to ask the loop nor asks one that is not
\* there (the assertion on its run loop).  And no handler is ever in two loops,
\* whatever the editor does: two threads would call it at once (set_run_loop).
StatusTrue ==
  /\ registry[Threaded] \cap registry[Frame] = {}
  /\ pc = "idle" =>
       \A i \in Slots, l \in Loops :
         slots[i].handler \in registry[l]
           <=> slots[i].status = "registered" /\ m_runloop = l

\* While an editor is attached the plugin's callbacks come from the host's
\* thread only: none is left running on the Threaded loop when attached
\* called the plugin's gui.
CallsOnHostThread ==
  ~use.reentrant /\ pc = "idle" /\ m_runloop = Frame => running = None

\* The destructor's comment: set_run_loop(nullptr) suffices to clear the
\* descriptors and the timers.  No loop has a handler of a dead component.
ClearedByDestructor == pc = "dead" => \A l \in Loops : registry[l] = {}

\* What the plugin asked for with request_callback is done (on_main_thread
\* from the idle timer), by whichever loop serves the component when the host
\* lets it be, after any number of editors, if that loop took the idle timer.
IdleTimerTaken == have_idle_timer /\ slots[idle_timer].status = "registered"

CallbackServed ==
  <>[](~use.reentrant /\ initialized /\ pc = "idle" /\ IdleTimerTaken) => []<>~flag
=============================================================================
