----------------------------- MODULE Controller -----------------------------
(***************************************************************************)
(* What the host gives to a component and takes back: component handlers   *)
(* (ct_edit_controller::set_component_handler), the plugin frame of an     *)
(* editor, and the editor itself; who uses them (the CLAP host callbacks   *)
(* in ct_host.cpp); and the values of parameters as the controller shows   *)
(* them (m_param_value_cache).                                             *)
(*                                                                         *)
(* Two threads have the role of CLAP's main thread: the host's own, UI,    *)
(* and that of the threaded run loop, Bg, which calls the plugin under     *)
(* main_thread_guard.  From inside its functions the plugin calls back.    *)
(* The move of timers from loop to loop is HostLoop's; here it is the wait *)
(* for the callback under way and the loop that is installed then.         *)
(***************************************************************************)
EXTENDS Integers, FiniteSets

CONSTANTS
  Handlers,       \* component handlers of the host
  DirtyAware,     \* those that are a component_handler2 as well
  None,           \* nullptr
  ParamCount,     \* parameters of the plugin
  Values,         \* their values
  Gone,           \* the plugin has no such parameter any more
  MaxViewRefs     \* bound on the host's references to the editor

UI == "UI"
Bg == "Bg"
Threads == {UI, Bg}
Params  == 1 .. ParamCount

ASSUME ControllerAssumption ==
  /\ DirtyAware \subseteq Handlers /\ None \notin Handlers \cup Threads
  /\ ParamCount \in Nat /\ 0 \in Values /\ Gone \notin Values
  /\ Values \subseteq Int
  /\ MaxViewRefs \in Nat \ {0}

VARIABLES
  initialized,   \* m_initialized
  loop,          \* the run loop that is installed: "none", "threaded", "frame"
  guard,         \* the thread that holds main_thread_guard, or None
  pc,            \* where each thread is
  outer,         \* whether a thread held the guard when it took it again
  why,           \* what the plugin's call on a thread is about
  using,         \* the handler that this call read, or None
  at,            \* the parameter that a sync has come to ...
  read,          \* ... and its value, as the plugin told it
  changed,       \* parameters that others changed since this sync began
  handler,       \* m_handler
  handler2,      \* m_handler2
  refs,          \* references the component has on each handler
  refs2,         \* ... and on its component_handler2
  values,        \* the plugin's values
  shown,         \* m_param_value_cache
  editor,        \* m_editor is set
  frame,         \* m_editor_frame is set
  view_refs,     \* references to the editor
  attached       \* the host lends a frame and a window to the editor

handlers == <<handler, handler2, refs, refs2>>
sync     == <<at, read, changed>>
locals   == <<outer, why, using, sync>>
params   == <<values, shown>>
views    == <<editor, frame, view_refs, attached>>
vars     == <<initialized, loop, guard, pc, locals, handlers, params, views>>

Show(value) == IF value = Gone THEN 0 ELSE value

\* A new component has synchronised its values when it cached its parameters.
Init ==
  /\ initialized = FALSE /\ loop = "none" /\ guard = None
  /\ pc = [t \in Threads |-> "idle"]
  /\ outer = [t \in Threads |-> FALSE] /\ why = [t \in Threads |-> "none"]
  /\ using = [t \in Threads |-> None]
  /\ at = [t \in Threads |-> 1] /\ read = [t \in Threads |-> 0]
  /\ changed = [t \in Threads |-> {}]
  /\ handler = None /\ handler2 = None
  /\ refs = [h \in Handlers |-> 0] /\ refs2 = [h \in Handlers |-> 0]
  /\ values \in [Params -> Values]
  /\ shown = values
  /\ editor = FALSE /\ frame = FALSE /\ view_refs = 0 /\ attached = FALSE

Goto(t, place) == pc' = [pc EXCEPT ![t] = place]

-----------------------------------------------------------------------------
(***************************************************************************)
(* The plugin is called.                                                   *)
(***************************************************************************)
\* The threaded loop picks a timer or descriptor of the component ...
CallbackPicked ==
  /\ pc[Bg] = "idle" /\ loop = "threaded"
  /\ Goto(Bg, "enter")
  /\ UNCHANGED <<initialized, loop, guard, locals, handlers, params, views>>

\* ... and calls it with the guard.
CallbackBegins ==
  /\ pc[Bg] = "enter" /\ guard = None
  /\ guard' = Bg
  /\ Goto(Bg, "plugin")
  /\ UNCHANGED <<initialized, loop, locals, handlers, params, views>>

\* set_active and setup_processing call the plugin with the guard; set_state
\* and callbacks of the frame's loop without it.
UICallsPlugin(guarded) ==
  /\ pc[UI] = "idle"
  /\ guarded => guard = None
  /\ guard' = IF guarded THEN UI ELSE guard
  /\ Goto(UI, "plugin")
  /\ UNCHANGED <<initialized, loop, locals, handlers, params, views>>

PluginReturns(t) ==
  /\ pc[t] = "plugin"
  /\ guard' = IF guard = t THEN None ELSE guard
  /\ Goto(t, "idle")
  /\ UNCHANGED <<initialized, loop, locals, handlers, params, views>>

\* A parameter changes behind the back of the syncs that are under way.
Touch(p, by) ==
  changed' = [t \in Threads |-> IF t # by /\ pc[t] \in {"sync", "store", "notify"}
                                THEN changed[t] \cup {p} ELSE changed[t]]

PluginChanges(t, p, value) ==
  /\ pc[t] = "plugin"
  /\ values' = [values EXCEPT ![p] = value]
  /\ Touch(p, t)
  /\ UNCHANGED <<initialized, loop, guard, pc, outer, why, using, at, read, handlers, shown,
                 views>>

\* The audio thread brings a value of the host to the plugin, which ignores it
\* for a parameter that is gone.
Automation(p, value) ==
  /\ values' = [values EXCEPT ![p] = IF @ = Gone THEN Gone ELSE value]
  /\ Touch(p, None)
  /\ UNCHANGED <<initialized, loop, guard, pc, outer, why, using, at, read, handlers, shown,
                 views>>

-----------------------------------------------------------------------------
(***************************************************************************)
(* The plugin calls its host: params.rescan, latency.changed,              *)
(* request_restart, state.mark_dirty.                                      *)
(***************************************************************************)
\* Mutant: the host is told first.
Rescan_TellsFirst(t, about) ==
  Goto(t, "notify") /\ UNCHANGED sync

\* A rescan of values synchronises them before the host is told.
Rescan(t, about) ==
  IF about = "values"
  THEN /\ Goto(t, "sync")
       /\ at' = [at EXCEPT ![t] = 1]
       /\ UNCHANGED <<read, changed>>
  ELSE Goto(t, "notify") /\ UNCHANGED sync

\* Without a handler there is nobody to tell, and nothing is done.
PluginTells(t, about) ==
  /\ pc[t] = "plugin" /\ guard \in {None, t}
  /\ LET told == IF about = "dirty" THEN handler2 ELSE handler IN
     /\ told # None
     /\ using' = [using EXCEPT ![t] = told]
  /\ guard' = t
  /\ outer' = [outer EXCEPT ![t] = guard = t]
  /\ why' = [why EXCEPT ![t] = about]
  /\ Rescan(t, about)
  /\ UNCHANGED <<initialized, loop, handlers, params, views>>

\* restart_component or set_dirty.
HandlerCalled(t) ==
  /\ pc[t] = "notify"
  /\ guard' = IF outer[t] THEN t ELSE None
  /\ outer' = [outer EXCEPT ![t] = FALSE]
  /\ using' = [using EXCEPT ![t] = None]
  /\ why' = [why EXCEPT ![t] = "none"]
  /\ changed' = [changed EXCEPT ![t] = {}]
  /\ Goto(t, "plugin")
  /\ UNCHANGED <<initialized, loop, at, read, handlers, params, views>>

\* gui.request_resize reads the editor and its frame, without the guard ...
PluginResizes(t) ==
  /\ pc[t] = "plugin" /\ editor /\ frame
  /\ Goto(t, "resize")
  /\ UNCHANGED <<initialized, loop, guard, locals, handlers, params, views>>

\* ... and calls the frame.
FrameCalled(t) ==
  /\ pc[t] = "resize"
  /\ Goto(t, "plugin")
  /\ UNCHANGED <<initialized, loop, guard, locals, handlers, params, views>>

-----------------------------------------------------------------------------
(***************************************************************************)
(* sync_parameter_values_to_controller_from_plugin: a value is read from   *)
(* the plugin and then stored.                                             *)
(***************************************************************************)
SyncRead(t) ==
  /\ pc[t] = "sync" /\ at[t] <= ParamCount
  /\ read' = [read EXCEPT ![t] = Show(values[at[t]])]
  /\ Goto(t, "store")
  /\ UNCHANGED <<initialized, loop, guard, outer, why, using, at, changed, handlers, params,
                 views>>

SyncStore(t) ==
  /\ pc[t] = "store"
  /\ shown' = [shown EXCEPT ![at[t]] = read[t]]
  /\ at' = [at EXCEPT ![t] = @ + 1]
  /\ read' = [read EXCEPT ![t] = 0]
  /\ changed' = [s \in Threads |-> IF s # t /\ pc[s] \in {"sync", "store", "notify"}
                                   THEN changed[s] \cup {at[t]} ELSE changed[s]]
  /\ Goto(t, "sync")
  /\ UNCHANGED <<initialized, loop, guard, outer, why, using, handlers, values, views>>

SyncDone(t) ==
  /\ pc[t] = "sync" /\ at[t] > ParamCount
  /\ at' = [at EXCEPT ![t] = 1]
  /\ IF using[t] = None
     THEN Goto(t, "idle") /\ changed' = [changed EXCEPT ![t] = {}]
     ELSE Goto(t, "notify") /\ UNCHANGED changed
  /\ UNCHANGED <<initialized, loop, guard, outer, why, using, read, handlers, params, views>>

\* The controller's set_state.
set_state ==
  /\ pc[UI] = "idle"
  /\ Goto(UI, "sync")
  /\ UNCHANGED <<initialized, loop, guard, locals, handlers, params, views>>

set_parameter_normalised(p, value) ==
  /\ pc[UI] = "idle"
  /\ shown' = [shown EXCEPT ![p] = value]
  /\ Touch(p, UI)
  /\ UNCHANGED <<initialized, loop, guard, pc, outer, why, using, at, read, handlers, values,
                 views>>

-----------------------------------------------------------------------------
(***************************************************************************)
(* Component handlers.                                                     *)
(***************************************************************************)
Add(count, h, n) == IF h = None THEN count ELSE [count EXCEPT ![h] = @ + n]

Dirty(h) == IF h \in DirtyAware THEN h ELSE None

\* Under the guard: the old ones are given back, and the new one is asked for
\* its component_handler2.
set_component_handler(h) ==
  /\ pc[UI] = "idle" /\ initialized /\ guard = None
  /\ h # handler
  /\ handler' = h
  /\ refs' = Add(Add(refs, handler, -1), h, 1)
  /\ handler2' = Dirty(h)
  /\ refs2' = Add(Add(refs2, handler2, -1), Dirty(h), 1)
  /\ UNCHANGED <<initialized, loop, guard, pc, locals, params, views>>

-----------------------------------------------------------------------------
(***************************************************************************)
(* The editor.                                                             *)
(***************************************************************************)
\* The loop is replaced when no callback of the old one is under way.
SetRunLoop(l) ==
  /\ loop = "threaded" => pc[Bg] = "idle"
  /\ loop' = l

\* A second view is another reference to the first.
create_view ==
  /\ pc[UI] = "idle" /\ initialized /\ view_refs < MaxViewRefs
  /\ view_refs' = IF editor THEN view_refs + 1 ELSE 1
  /\ editor' = TRUE
  /\ UNCHANGED <<initialized, loop, guard, pc, locals, handlers, params, frame, attached>>

\* m_delete_hook; the threaded loop is installed, as it was already.
DeleteHook == frame' = FALSE /\ editor' = FALSE

\* The host gives a reference back, the last one when the view was removed.
view_unref ==
  /\ pc[UI] = "idle" /\ view_refs > 0
  /\ view_refs = 1 => ~attached
  /\ view_refs' = view_refs - 1
  /\ IF view_refs = 1 THEN DeleteHook ELSE UNCHANGED <<editor, frame>>
  /\ UNCHANGED <<initialized, loop, guard, pc, locals, handlers, params, attached>>

\* attached: the frame is stored, its loop is installed ...
view_attached ==
  /\ pc[UI] = "idle" /\ view_refs > 0 /\ ~attached
  /\ frame' = TRUE /\ attached' = TRUE
  /\ Goto(UI, "attach")
  /\ UNCHANGED <<initialized, loop, guard, locals, handlers, params, editor, view_refs>>

view_loop_installed ==
  /\ pc[UI] = "attach"
  /\ SetRunLoop("frame")
  /\ Goto(UI, "create")
  /\ UNCHANGED <<initialized, guard, locals, handlers, params, views>>

\* ... and the plugin makes its window, or fails to.
view_created ==
  /\ pc[UI] = "create"
  /\ Goto(UI, "idle")
  /\ UNCHANGED <<initialized, loop, guard, locals, handlers, params, views>>

\* Mutant: the frame stays.
view_gone_KeepsFrame ==
  /\ pc[UI] = "create" \/ (pc[UI] = "idle" /\ attached)
  /\ Goto(UI, "detach")
  /\ UNCHANGED <<initialized, loop, guard, locals, handlers, params, views>>

\* The window could not be made, or is destroyed: the frame is cleared first.
view_gone ==
  /\ pc[UI] = "create" \/ (pc[UI] = "idle" /\ attached)
  /\ frame' = FALSE
  /\ Goto(UI, "detach")
  /\ UNCHANGED <<initialized, loop, guard, locals, handlers, params, editor, view_refs, attached>>

\* attached failed, or removed returns: the frame is the host's again.
view_detached ==
  /\ pc[UI] = "detach"
  /\ SetRunLoop("threaded")
  /\ attached' = FALSE
  /\ Goto(UI, "idle")
  /\ UNCHANGED <<initialized, guard, locals, handlers, params, editor, frame, view_refs>>

-----------------------------------------------------------------------------
(***************************************************************************)
(* The component's life.                                                   *)
(***************************************************************************)
initialize ==
  /\ pc[UI] = "idle" /\ ~initialized
  /\ loop' = "threaded"
  /\ initialized' = TRUE
  /\ UNCHANGED <<guard, pc, locals, handlers, params, views>>

\* Mutants: the handlers are given back before the loop is stopped; terminate
\* holds the guard.
terminate_ReleasesFirst ==
  /\ pc[UI] = "idle" /\ initialized /\ view_refs = 0
  /\ Goto(UI, "release")
  /\ UNCHANGED <<initialized, loop, guard, locals, handlers, params, views>>

terminate_Guarded ==
  /\ pc[UI] = "idle" /\ initialized /\ view_refs = 0 /\ guard = None
  /\ guard' = UI
  /\ Goto(UI, "stop")
  /\ UNCHANGED <<initialized, loop, locals, handlers, params, views>>

\* A host gives its editors back first.  The timers and the loop come first ...
terminate ==
  /\ pc[UI] = "idle" /\ initialized /\ view_refs = 0
  /\ Goto(UI, "stop")
  /\ UNCHANGED <<initialized, loop, guard, locals, handlers, params, views>>

terminate_stops_loop ==
  /\ pc[UI] = "stop"
  /\ SetRunLoop("none")
  /\ Goto(UI, "release")
  /\ UNCHANGED <<initialized, guard, locals, handlers, params, views>>

\* ... and then the handlers are given back.
terminate_done ==
  /\ pc[UI] = "release"
  /\ handler' = None /\ refs' = Add(refs, handler, -1)
  /\ handler2' = None /\ refs2' = Add(refs2, handler2, -1)
  /\ initialized' = FALSE
  /\ Goto(UI, "idle")
  /\ UNCHANGED <<loop, guard, locals, params, views>>

-----------------------------------------------------------------------------
PluginStep(t) ==
  \/ PluginReturns(t)
  \/ \E p \in Params, v \in Values \cup {Gone} : PluginChanges(t, p, v)
  \/ \E about \in {"values", "other", "dirty"} : PluginTells(t, about)
  \/ PluginResizes(t)

ComponentStep(t) ==
  \/ HandlerCalled(t) \/ FrameCalled(t)
  \/ SyncRead(t) \/ SyncStore(t) \/ SyncDone(t)

HostCalls ==
  \/ initialize \/ terminate
  \/ \E guarded \in BOOLEAN : UICallsPlugin(guarded)
  \/ \E h \in Handlers \cup {None} : set_component_handler(h)
  \/ set_state \/ \E p \in Params, v \in Values : set_parameter_normalised(p, v)
  \/ create_view \/ view_unref \/ view_attached

HostProceeds ==
  \/ terminate_stops_loop \/ terminate_done
  \/ view_loop_installed \/ view_created \/ view_gone \/ view_detached

Next ==
  \/ CallbackPicked \/ CallbackBegins
  \/ \E t \in Threads : PluginStep(t) \/ ComponentStep(t)
  \/ \E p \in Params, v \in Values : Automation(p, v)
  \/ HostCalls \/ HostProceeds

Spec == Init /\ [][Next]_vars

\* Threads run, plugins return, and the host's wait for the threaded loop ends
\* because the loop serves requests before it calls anyone (TimerOperational
\* and CallsReturn of RunLoop).
Fairness ==
  /\ WF_vars(CallbackBegins)
  /\ \A t \in Threads : SF_vars(PluginReturns(t)) /\ WF_vars(ComponentStep(t))
  /\ SF_vars(pc[UI] # "idle" /\ HostProceeds)

FairSpec == Spec /\ Fairness
-----------------------------------------------------------------------------
(***************************************************************************)
(* Properties.                                                             *)
(***************************************************************************)
\* The types of the component's state.
TypeOK ==
  /\ initialized \in BOOLEAN /\ loop \in {"none", "threaded", "frame"}
  /\ guard \in Threads \cup {None}
  /\ pc \in [Threads -> {"idle", "enter", "plugin", "sync", "store", "notify", "resize",
                         "attach", "create", "detach", "stop", "release"}]
  /\ outer \in [Threads -> BOOLEAN]
  /\ why \in [Threads -> {"none", "values", "other", "dirty"}]
  /\ using \in [Threads -> Handlers \cup {None}]
  /\ at \in [Threads -> 1 .. ParamCount + 1]
  /\ read \in [Threads -> Values] /\ changed \in [Threads -> SUBSET Params]
  /\ handler \in Handlers \cup {None} /\ handler2 \in DirtyAware \cup {None}
  /\ refs \in [Handlers -> 0..1] /\ refs2 \in [Handlers -> 0..1]
  /\ values \in [Params -> Values \cup {Gone}] /\ shown \in [Params -> Values]
  /\ editor \in BOOLEAN /\ frame \in BOOLEAN /\ attached \in BOOLEAN
  /\ view_refs \in 0..MaxViewRefs

Telling(t) == using[t] # None /\ pc[t] \in {"sync", "store", "notify"}

\* The handler that the plugin's call has read is not given back before it is
\* called, on whichever thread: set_component_handler and the calls exclude
\* each other, and terminate stops the loop before it releases the handlers.
HandlerAlive ==
  \A t \in Threads :
    Telling(t) => IF why[t] = "dirty" THEN refs2[using[t]] > 0 ELSE refs[using[t]] > 0

\* The component refers to the handlers it has and to no others, over any
\* exchange of handlers with and without component_handler2, and to none when
\* it was terminated; set_dirty goes to the same host object as the rest.
HandlersBalanced ==
  /\ \A h \in Handlers :
       /\ refs[h] = IF handler = h THEN 1 ELSE 0
       /\ refs2[h] = IF handler2 = h THEN 1 ELSE 0
  /\ handler2 = IF handler \in DirtyAware THEN handler ELSE None
  /\ ~initialized => handler = None

\* When the host is told that values changed, the controller shows the
\* plugin's values, except of those that another thread, or the host, has
\* changed while they were read (params__rescan: "make the controller update
\* its cache of values").
ToldTrue ==
  \A t \in Threads :
    pc[t] = "notify" /\ why[t] = "values" =>
      \A p \in Params \ changed[t] : shown[p] = Show(values[p])

\* m_editor, of which the component has no reference, is an editor that the
\* host refers to, so that create_view never revives one that was deleted; and
\* the plugin's resize, read without the guard, reaches a frame that the host
\* lends at that time, also from a callback of the threaded loop that is in the
\* middle of it while the host attaches or removes the editor.
EditorAlive ==
  /\ editor <=> view_refs > 0
  /\ \A t \in Threads : pc[t] = "resize" => attached /\ view_refs > 0

\* The host's calls return: attached, removed and terminate, which wait for
\* callbacks of the threaded loop, and those that call the plugin, whatever the
\* plugin's calls back are about and whichever threads meet at the guard.
HostReturns == pc[UI] # "idle" ~> pc[UI] = "idle"
=============================================================================
