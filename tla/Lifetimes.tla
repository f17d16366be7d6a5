----------------------------- MODULE Lifetimes -----------------------------
(***************************************************************************)
(* Who keeps whom alive: the module and its factory, components with the   *)
(* interfaces that stand for them, their CLAP plugins, the threaded run    *)
(* loop that all components share, editors with their content scale, and   *)
(* the plugin's graphics with the size that host and plugin agree on.      *)
(*                                                                         *)
(* Main is the host's main thread, which executes all functions; Audio may *)
(* give an interface back, and with it the last reference.  The threaded   *)
(* loop calls the plugins it serves; what the plugins and their timers do  *)
(* is in HostLoop and Controller.  A step ends where a function calls the  *)
(* plugin or the host, or waits for the loop.                              *)
(***************************************************************************)
EXTENDS Integers, Sequences, FiniteSets

CONSTANTS
  Comps,       \* components that the host has at a time
  WithGui,     \* those whose plugins have a gui
  Faces,       \* interfaces of a component that the host uses
  Contexts,    \* contexts that the host passes
  None,        \* nullptr
  MaxRefs,     \* bound on the host's references to one component, one view
  MaxWidth,    \* bound on widths of editors; heights go the same way
  Fitting,     \* widths that the plugins' graphics can have
  Lefts,       \* left edges of the rectangles that hosts pass
  Manners      \* what the host is careful about, of the following

ClosesViews     == "gives editors back before terminate"
RemovesViews    == "calls removed before it gives an editor back"
TerminatesFirst == "calls terminate before it gives a component back"
AsksNoSize      == "asks for no size in the middle of attached"

Threaded == "threaded"
Frame    == "frame"
Loops    == {Threaded, Frame}

\* What query_interface of a component and of an editor knows: the object
\* itself, and subobjects, each of which hands its references on to it.
Component       == "component"
AudioProcessor  == "audio_processor"
EditController  == "edit_controller"
UnitInformation == "unit_information"
ContextRequired == "process_context_requirements"
Interfaces      == {Component, AudioProcessor, EditController, UnitInformation, ContextRequired}
View            == "view"
ContentScale    == "content_scale"
Views           == {View, ContentScale}

Main     == "main"
Audio    == "audio"
Threads  == {Main, Audio}
Widths   == 0 .. MaxWidth

ASSUME LifetimesAssumption ==
  /\ IsFiniteSet(Comps) /\ WithGui \subseteq Comps /\ None \notin Comps \cup Contexts \cup Loops
  /\ {Component, EditController} \subseteq Faces /\ Faces \subseteq Interfaces
  /\ MaxRefs \in Nat /\ MaxWidth \in Nat /\ Lefts \subseteq Nat
  /\ Fitting # {} /\ Fitting \subseteq Widths
  /\ Manners \subseteq {ClosesViews, RemovesViews, TerminatesFirst, AsksNoSize}

VARIABLES
  g_module_initialized,
  m_hostcontext,      \* ct_plugin_factory: the host's context, or None
  held,               \* references to each context
  plug,               \* the CLAP plugin of a component: "none", "created" or "ready"
  m_refcnt,           \* ct_component
  host_refs,          \* the host's references by interface
  m_initialized,
  m_context,          \* the context that initialize got
  m_runloop,          \* ct_host_loop: the loop that serves the component
  s_unique_instance,  \* whether there is a threaded loop
  loop_refcnt,        \* references to either loop
  running,            \* the component whose plugin the threaded loop calls
  m_editor,           \* whether the component knows an editor
  view_refcnt,        \* ct_plug_view::m_refcnt
  view_refs,          \* the host's references by interface
  m_created,          \* ct_plug_view
  m_editor_frame,     \* whether the editor's frame is known
  gui,                \* graphics that the plugin has made, a count
  width,              \* ... their width
  rect,               \* the rectangle in which the host shows the editor
  stack, on           \* where each thread is, and about which component

factory == <<g_module_initialized, m_hostcontext>>
counts  == <<m_refcnt, host_refs>>
loops   == <<m_runloop, s_unique_instance, loop_refcnt>>
viewed  == <<m_editor, view_refcnt, view_refs>>
shown   == <<m_created, m_editor_frame, gui, width, rect>>
vars    == <<factory, held, plug, counts, m_initialized, m_context, loops, running, viewed, shown,
             stack, on>>

NoRefs == [f \in Interfaces |-> 0]
NoRect == [left |-> 0, right |-> 0]

Init ==
  /\ g_module_initialized = FALSE /\ m_hostcontext = None
  /\ held = [x \in Contexts |-> 0]
  /\ plug = [c \in Comps |-> "none"]
  /\ m_refcnt = [c \in Comps |-> 0] /\ host_refs = [c \in Comps |-> NoRefs]
  /\ m_initialized = [c \in Comps |-> FALSE] /\ m_context = [c \in Comps |-> None]
  /\ m_runloop = [c \in Comps |-> None]
  /\ s_unique_instance = FALSE /\ loop_refcnt = [l \in Loops |-> 0] /\ running = None
  /\ m_editor = [c \in Comps |-> FALSE]
  /\ view_refcnt = [c \in Comps |-> 0] /\ view_refs = [c \in Comps |-> [v \in Views |-> 0]]
  /\ m_created = [c \in Comps |-> FALSE] /\ m_editor_frame = [c \in Comps |-> FALSE]
  /\ gui = [c \in Comps |-> 0] /\ width = [c \in Comps |-> 0]
  /\ rect = [c \in Comps |-> NoRect]
  /\ stack = [t \in Threads |-> << >>] /\ on = [t \in Threads |-> None]

Idle(t)           == stack[t] = << >>
At(t, place)      == stack[t] # << >> /\ Head(stack[t]) = place
Enters(t, c, s)   == stack' = [stack EXCEPT ![t] = s] /\ on' = [on EXCEPT ![t] = c]
Calls(place)      == stack' = [stack EXCEPT ![Main] = <<place>> \o @] /\ UNCHANGED on
GoesOn(t, places) == stack' = [stack EXCEPT ![t] = places \o Tail(@)] /\ UNCHANGED on
Returns(t) ==
  /\ stack' = [stack EXCEPT ![t] = Tail(@)]
  /\ on' = IF Len(stack[t]) = 1 THEN [on EXCEPT ![t] = None] ELSE on

References(c) ==
  host_refs[c][Component] + host_refs[c][AudioProcessor] + host_refs[c][EditController]
    + host_refs[c][UnitInformation] + host_refs[c][ContextRequired]
ViewReferences(c) == view_refs[c][View] + view_refs[c][ContentScale]
HostHolds(c)      == References(c) > 0
HostViews(c)      == ViewReferences(c) > 0

Careful(rule, condition) == rule \in Manners => condition

-----------------------------------------------------------------------------
(***************************************************************************)
(* The module and its factory.                                             *)
(***************************************************************************)
\* ModuleEntry and ModuleExit, InitDll and ExitDll, bundleEntry and bundleExit;
\* the host has given everything back when it leaves.
ModuleEntry ==
  /\ Idle(Main) /\ ~g_module_initialized
  /\ g_module_initialized' = TRUE
  /\ UNCHANGED <<m_hostcontext, held, plug, counts, m_initialized, m_context, loops, running,
                 viewed, shown, stack, on>>

ModuleExit ==
  /\ Idle(Main) /\ Idle(Audio) /\ g_module_initialized
  /\ \A c \in Comps : plug[c] = "none"
  /\ g_module_initialized' = FALSE
  /\ UNCHANGED <<m_hostcontext, held, plug, counts, m_initialized, m_context, loops, running,
                 viewed, shown, stack, on>>

Change(x, n) == IF x = None THEN held ELSE [held EXCEPT ![x] = @ + n]

set_host_context(x) ==
  /\ Idle(Main) /\ g_module_initialized /\ x # m_hostcontext
  /\ held' = [y \in Contexts |-> IF y = x THEN held[y] + 1
                                 ELSE IF y = m_hostcontext THEN held[y] - 1 ELSE held[y]]
  /\ m_hostcontext' = x
  /\ UNCHANGED <<g_module_initialized, plug, counts, m_initialized, m_context, loops, running,
                 viewed, shown, stack, on>>

\* The constructor of ct_component up to create_plugin, which may fail: then
\* nothing is there.
create_instance(c) ==
  /\ Idle(Main) /\ g_module_initialized
  /\ plug[c] = "none" /\ \A t \in Threads : on[t] # c
  /\ plug' = [plug EXCEPT ![c] = "created"]
  /\ Enters(Main, c, <<"create_instance">>)
  /\ UNCHANGED <<factory, held, counts, m_initialized, m_context, loops, running, viewed, shown>>

\* Mutant: the plugin that fails in init is left behind.
InitPlugin_NoCleanup(ok) ==
  /\ At(Main, "create_instance")
  /\ LET c == on[Main] IN
       /\ plug' = [plug EXCEPT ![c] = IF ok THEN "ready" ELSE @]
       /\ IF ok THEN /\ m_refcnt' = [m_refcnt EXCEPT ![c] = 1]
                     /\ host_refs' = [host_refs EXCEPT ![c][Component] = 1]
          ELSE UNCHANGED counts
  /\ Returns(Main)
  /\ UNCHANGED <<factory, held, m_initialized, m_context, loops, running, viewed, shown>>

\* init, and the rest of the constructor; plug_cleanup when init fails.
InitPlugin(ok) ==
  /\ At(Main, "create_instance")
  /\ LET c == on[Main] IN
       /\ plug' = [plug EXCEPT ![c] = IF ok THEN "ready" ELSE "none"]
       /\ IF ok THEN /\ m_refcnt' = [m_refcnt EXCEPT ![c] = 1]
                     /\ host_refs' = [host_refs EXCEPT ![c][Component] = 1]
          ELSE UNCHANGED counts
  /\ Returns(Main)
  /\ UNCHANGED <<factory, held, m_initialized, m_context, loops, running, viewed, shown>>

-----------------------------------------------------------------------------
(***************************************************************************)
(* References to a component.  The subobjects hand query_interface, ref    *)
(* and unref on to it.                                                     *)
(***************************************************************************)
query_interface(c, f) ==
  /\ Idle(Main) /\ HostHolds(c) /\ References(c) < MaxRefs
  /\ m_refcnt' = [m_refcnt EXCEPT ![c] = @ + 1]
  /\ host_refs' = [host_refs EXCEPT ![c][f] = @ + 1]
  /\ UNCHANGED <<factory, held, plug, m_initialized, m_context, loops, running, viewed, shown,
                 stack, on>>

\* Audio gives back what is not the component itself.
unref(t, c, f) ==
  /\ Idle(t) /\ host_refs[c][f] > 0
  /\ t = Audio => f # Component
  /\ on[Main] = c => References(c) > 1
  /\ References(c) = 1 => /\ Careful(TerminatesFirst, ~m_initialized[c])
                                /\ Careful(ClosesViews, ~HostViews(c))
  /\ m_refcnt' = [m_refcnt EXCEPT ![c] = @ - 1]
  /\ host_refs' = [host_refs EXCEPT ![c][f] = @ - 1]
  /\ IF m_refcnt[c] = 1 THEN Enters(t, c, <<"delete">>) ELSE UNCHANGED <<stack, on>>
  /\ UNCHANGED <<factory, held, plug, m_initialized, m_context, loops, running, viewed, shown>>

\* ~ct_component
DestroyPlugin(t) ==
  /\ At(t, "delete")
  /\ plug' = [plug EXCEPT ![on[t]] = "none"]
  /\ GoesOn(t, <<"members">>)
  /\ UNCHANGED <<factory, held, counts, m_initialized, m_context, loops, running, viewed, shown>>

\* set_run_loop: the old loop lets go of the component, and then of itself if
\* that was its last reference; both wait for a callback that is under way.
SetRunLoop(c, new) ==
  LET old == m_runloop[c] IN
  IF old = new THEN UNCHANGED loops
  ELSE /\ old = Threaded => running = None
       /\ m_runloop' = [m_runloop EXCEPT ![c] = new]
       /\ loop_refcnt' = [l \in Loops |-> IF l = old THEN loop_refcnt[l] - 1
                                          ELSE IF l = new THEN loop_refcnt[l] + 1
                                          ELSE loop_refcnt[l]]
       /\ s_unique_instance' = (s_unique_instance /\ ~(old = Threaded /\ loop_refcnt[old] = 1))

\* The members of ct_component, m_host with its ct_host_loop among them.
DestroyMembers(t) ==
  /\ At(t, "members")
  /\ SetRunLoop(on[t], None)
  /\ m_initialized' = [m_initialized EXCEPT ![on[t]] = FALSE]
  /\ m_context' = [m_context EXCEPT ![on[t]] = None]
  /\ m_editor' = [m_editor EXCEPT ![on[t]] = FALSE]
  /\ m_editor_frame' = [m_editor_frame EXCEPT ![on[t]] = FALSE]
  /\ Returns(t)
  /\ UNCHANGED <<factory, held, plug, counts, running, view_refcnt, view_refs, m_created, gui,
                 width, rect>>

-----------------------------------------------------------------------------
(***************************************************************************)
(* The threaded loop.                                                      *)
(***************************************************************************)
LoopCalls(c) ==
  /\ s_unique_instance /\ running = None /\ m_runloop[c] = Threaded
  /\ running' = c
  /\ UNCHANGED <<factory, held, plug, counts, m_initialized, m_context, loops, viewed, shown,
                 stack, on>>

LoopReturns ==
  /\ running # None
  /\ running' = None
  /\ UNCHANGED <<factory, held, plug, counts, m_initialized, m_context, loops, viewed, shown,
                 stack, on>>

\* instance, set_run_loop and unref, as in initialize and in both hooks of an
\* editor: the function goes on when its own reference is gone.
TakeInstance ==
  /\ At(Main, "instance")
  /\ s_unique_instance' = TRUE
  /\ loop_refcnt' = [loop_refcnt EXCEPT ![Threaded] = IF s_unique_instance THEN @ + 1 ELSE 1]
  /\ GoesOn(Main, <<"set_run_loop">>)
  /\ UNCHANGED <<factory, held, plug, counts, m_initialized, m_context, m_runloop, running, viewed,
                 shown>>

SwitchToInstance ==
  /\ At(Main, "set_run_loop")
  /\ SetRunLoop(on[Main], Threaded)
  /\ GoesOn(Main, <<"unref">>)
  /\ UNCHANGED <<factory, held, plug, counts, m_initialized, m_context, running, viewed, shown>>

\* Mutant: instance's reference is kept.
DropInstance_Kept ==
  /\ At(Main, "unref")
  /\ Returns(Main)
  /\ UNCHANGED <<factory, held, plug, counts, m_initialized, m_context, loops, running, viewed,
                 shown>>

DropInstance ==
  /\ At(Main, "unref")
  /\ loop_refcnt[Threaded] = 1 => running = None
  /\ loop_refcnt' = [loop_refcnt EXCEPT ![Threaded] = @ - 1]
  /\ s_unique_instance' = (loop_refcnt[Threaded] > 1)
  /\ Returns(Main)
  /\ UNCHANGED <<factory, held, plug, counts, m_initialized, m_context, m_runloop, running, viewed,
                 shown>>

-----------------------------------------------------------------------------
(***************************************************************************)
(* initialize and terminate.                                               *)
(***************************************************************************)
initialize(c, x) ==
  /\ Idle(Main) /\ host_refs[c][Component] > 0 /\ ~m_initialized[c]
  /\ m_context' = [m_context EXCEPT ![c] = x]
  /\ held' = Change(x, 1)
  /\ Enters(Main, c, <<"instance", "initialize">>)
  /\ UNCHANGED <<factory, plug, counts, m_initialized, loops, running, viewed, shown>>

initialize_done ==
  /\ At(Main, "initialize")
  /\ m_initialized' = [m_initialized EXCEPT ![on[Main]] = TRUE]
  /\ Returns(Main)
  /\ UNCHANGED <<factory, held, plug, counts, m_context, loops, running, viewed, shown>>

\* The editor loses a reference that is none of the component's.
terminate(c) ==
  /\ Idle(Main) /\ host_refs[c][Component] > 0 /\ m_initialized[c]
  /\ Careful(ClosesViews, ~HostViews(c))
  /\ IF m_editor[c]
     THEN /\ view_refcnt' = [view_refcnt EXCEPT ![c] = @ - 1]
          /\ Enters(Main, c, IF view_refcnt[c] = 1 THEN <<"instance", "delete hook", "terminate">>
                             ELSE <<"terminate">>)
     ELSE UNCHANGED view_refcnt /\ Enters(Main, c, <<"terminate">>)
  /\ UNCHANGED <<factory, held, plug, counts, m_initialized, m_context, loops, running, m_editor,
                 view_refs, shown>>

\* Mutant: the loop goes on to serve the component.
terminate_loop_Serves ==
  /\ At(Main, "terminate")
  /\ GoesOn(Main, <<"terminated">>)
  /\ UNCHANGED <<factory, held, plug, counts, m_initialized, m_context, loops, running, viewed,
                 shown>>

terminate_loop ==
  /\ At(Main, "terminate")
  /\ SetRunLoop(on[Main], None)
  /\ GoesOn(Main, <<"terminated">>)
  /\ UNCHANGED <<factory, held, plug, counts, m_initialized, m_context, running, viewed, shown>>

terminate_done ==
  /\ At(Main, "terminated")
  /\ held' = Change(m_context[on[Main]], -1)
  /\ m_context' = [m_context EXCEPT ![on[Main]] = None]
  /\ m_initialized' = [m_initialized EXCEPT ![on[Main]] = FALSE]
  /\ Returns(Main)
  /\ UNCHANGED <<factory, plug, counts, loops, running, viewed, shown>>

-----------------------------------------------------------------------------
(***************************************************************************)
(* References to an editor, to whose content scale the same applies as to  *)
(* the subobjects of a component.                                          *)
(***************************************************************************)
create_view(c) ==
  /\ Idle(Main) /\ c \in WithGui /\ m_initialized[c] /\ host_refs[c][EditController] > 0
  /\ ViewReferences(c) < MaxRefs
  /\ m_editor' = [m_editor EXCEPT ![c] = TRUE]
  /\ view_refcnt' = [view_refcnt EXCEPT ![c] = IF m_editor[c] THEN @ + 1 ELSE 1]
  /\ view_refs' = [view_refs EXCEPT ![c][View] = @ + 1]
  /\ UNCHANGED <<factory, held, plug, counts, m_initialized, m_context, loops, running, shown,
                 stack, on>>

view_query_interface(c, v) ==
  /\ Idle(Main) /\ HostViews(c) /\ ViewReferences(c) < MaxRefs
  /\ view_refcnt' = [view_refcnt EXCEPT ![c] = @ + 1]
  /\ view_refs' = [view_refs EXCEPT ![c][v] = @ + 1]
  /\ UNCHANGED <<factory, held, plug, counts, m_initialized, m_context, loops, running, m_editor,
                 shown, stack, on>>

view_unref(c, v) ==
  /\ Idle(Main) /\ view_refs[c][v] > 0
  /\ ViewReferences(c) = 1 => Careful(RemovesViews, ~m_created[c])
  /\ view_refcnt' = [view_refcnt EXCEPT ![c] = @ - 1]
  /\ view_refs' = [view_refs EXCEPT ![c][v] = @ - 1]
  /\ IF view_refcnt[c] = 1 THEN Enters(Main, c, <<"instance", "delete hook">>) ELSE UNCHANGED <<stack, on>>
  /\ UNCHANGED <<factory, held, plug, counts, m_initialized, m_context, loops, running, m_editor,
                 shown>>

\* The end of the delete hook, and of the editor.
DeleteHookDone ==
  /\ At(Main, "delete hook") /\ Returns(Main)
  /\ LET c == on[Main] IN
       /\ m_editor' = [m_editor EXCEPT ![c] = FALSE]
       /\ m_editor_frame' = [m_editor_frame EXCEPT ![c] = FALSE]
       /\ m_created' = [m_created EXCEPT ![c] = FALSE]
  /\ UNCHANGED <<factory, held, plug, counts, m_initialized, m_context, loops, running, view_refcnt,
                 view_refs, gui, width, rect>>

-----------------------------------------------------------------------------
(***************************************************************************)
(* The plugin's graphics.                                                  *)
(***************************************************************************)
\* The host has set a frame, and its loop is installed ...
attached(c) ==
  /\ Idle(Main) /\ view_refs[c][View] > 0 /\ ~m_created[c]
  /\ m_editor_frame' = [m_editor_frame EXCEPT ![c] = TRUE]
  /\ SetRunLoop(c, Frame)
  /\ Enters(Main, c, <<"gui create">>)
  /\ UNCHANGED <<factory, held, plug, counts, m_initialized, m_context, running, viewed, m_created,
                 gui, width, rect>>

\* ... before the plugin makes its graphics.
GuiCreated(w) ==
  /\ At(Main, "gui create")
  /\ gui' = [gui EXCEPT ![on[Main]] = @ + 1]
  /\ width' = [width EXCEPT ![on[Main]] = w]
  /\ GoesOn(Main, <<"gui show">>)
  /\ UNCHANGED <<factory, held, plug, counts, m_initialized, m_context, loops, running, viewed,
                 m_created, m_editor_frame, rect>>

\* Mutant: after a failure the frame stays.
GuiRefused_KeepsFrame ==
  /\ At(Main, "gui create")
  /\ Returns(Main)
  /\ UNCHANGED <<factory, held, plug, counts, m_initialized, m_context, loops, running, viewed,
                 shown>>

GuiRefused ==
  /\ At(Main, "gui create")
  /\ m_editor_frame' = [m_editor_frame EXCEPT ![on[Main]] = FALSE]
  /\ GoesOn(Main, <<"instance", "frame hook">>)
  /\ UNCHANGED <<factory, held, plug, counts, m_initialized, m_context, loops, running, viewed,
                 m_created, gui, width, rect>>

\* The host then asks for the size of what it shows.
attached_done ==
  /\ At(Main, "gui show")
  /\ m_created' = [m_created EXCEPT ![on[Main]] = TRUE]
  /\ GoesOn(Main, <<"get_size">>)
  /\ UNCHANGED <<factory, held, plug, counts, m_initialized, m_context, loops, running, viewed,
                 m_editor_frame, gui, width, rect>>

removed(c) ==
  /\ Idle(Main) /\ view_refs[c][View] > 0 /\ m_created[c]
  /\ gui' = [gui EXCEPT ![c] = @ - 1]
  /\ m_editor_frame' = [m_editor_frame EXCEPT ![c] = FALSE]
  /\ Enters(Main, c, <<"instance", "frame hook">>)
  /\ UNCHANGED <<factory, held, plug, counts, m_initialized, m_context, loops, running, viewed,
                 m_created, width, rect>>

\* The end of removed, or of attached after a failure.
FrameHookDone ==
  /\ At(Main, "frame hook")
  /\ m_created' = [m_created EXCEPT ![on[Main]] = FALSE]
  /\ Returns(Main)
  /\ UNCHANGED <<factory, held, plug, counts, m_initialized, m_context, loops, running, viewed,
                 m_editor_frame, gui, width, rect>>

-----------------------------------------------------------------------------
(***************************************************************************)
(* Sizes.                                                                  *)
(***************************************************************************)
\* get_size, at any time between attached and removed or outside; from within
\* gui->create the plugin may ask for a resize, in which the host asks.
get_size(c) ==
  /\ \/ Idle(Main) /\ view_refs[c][View] > 0 /\ Enters(Main, c, <<"get_size">>)
     \/ Careful(AsksNoSize, FALSE) /\ At(Main, "gui show") /\ on[Main] = c /\ Calls("get_size")
  /\ UNCHANGED <<factory, held, plug, counts, m_initialized, m_context, loops, running, viewed,
                 shown>>

SizeOfGui ==
  /\ At(Main, "get_size") /\ m_created[on[Main]]
  /\ rect' = [rect EXCEPT ![on[Main]] = [left |-> 0, right |-> width[on[Main]]]]
  /\ Returns(Main)
  /\ UNCHANGED <<factory, held, plug, counts, m_initialized, m_context, loops, running, viewed,
                 m_created, m_editor_frame, gui, width>>

TemporaryGui(w) ==
  /\ At(Main, "get_size") /\ ~m_created[on[Main]]
  /\ gui' = [gui EXCEPT ![on[Main]] = @ + 1]
  /\ width' = [width EXCEPT ![on[Main]] = w]
  /\ GoesOn(Main, <<"temporary">>)
  /\ UNCHANGED <<factory, held, plug, counts, m_initialized, m_context, loops, running, viewed,
                 m_created, m_editor_frame, rect>>

\* *rect = v3_view_rect{}
NoTemporaryGui ==
  /\ At(Main, "get_size") /\ ~m_created[on[Main]]
  /\ rect' = [rect EXCEPT ![on[Main]] = NoRect]
  /\ Returns(Main)
  /\ UNCHANGED <<factory, held, plug, counts, m_initialized, m_context, loops, running, viewed,
                 m_created, m_editor_frame, gui, width>>

TemporarySize ==
  /\ At(Main, "temporary")
  /\ rect' = [rect EXCEPT ![on[Main]] = [left |-> 0, right |-> width[on[Main]]]]
  /\ gui' = [gui EXCEPT ![on[Main]] = @ - 1]
  /\ Returns(Main)
  /\ UNCHANGED <<factory, held, plug, counts, m_initialized, m_context, loops, running, viewed,
                 m_created, m_editor_frame, width>>

\* The user drags an edge: the host asks which size is right, and sets it.
Drag(c, l, w) ==
  /\ Idle(Main) /\ view_refs[c][View] > 0 /\ m_created[c]
  /\ rect' = [rect EXCEPT ![c] = [left |-> l, right |-> l + w]]
  /\ Enters(Main, c, <<"check_size_constraint", "on_size">>)
  /\ UNCHANGED <<factory, held, plug, counts, m_initialized, m_context, loops, running, viewed,
                 m_created, m_editor_frame, gui, width>>

\* gui__request_resize of a plugin that wants a width of its own; the host may
\* do as it asks.
request_resize(c, w) ==
  /\ Idle(Main) /\ m_editor[c] /\ m_editor_frame[c] /\ gui[c] > 0
  /\ rect' = [rect EXCEPT ![c] = [left |-> 0, right |-> w]]
  /\ Enters(Main, c, <<"on_size">>)
  /\ UNCHANGED <<factory, held, plug, counts, m_initialized, m_context, loops, running, viewed,
                 m_created, m_editor_frame, gui, width>>

WidthOf(r) == IF r.right < r.left THEN 0 ELSE r.right - r.left

\* The plugin adjusts to the widest that fits, if any does.
Adjusted(w) == IF \E f \in Fitting : f <= w
               THEN CHOOSE f \in Fitting : f <= w /\ \A g \in Fitting : g <= w => g <= f
               ELSE w

\* Mutant: the edge is the width.
check_size_constraint_FromZero ==
  /\ At(Main, "check_size_constraint")
  /\ rect' = [rect EXCEPT ![on[Main]].right = Adjusted(WidthOf(rect[on[Main]]))]
  /\ Returns(Main)
  /\ UNCHANGED <<factory, held, plug, counts, m_initialized, m_context, loops, running, viewed,
                 m_created, m_editor_frame, gui, width>>

check_size_constraint ==
  /\ At(Main, "check_size_constraint")
  /\ rect' = [rect EXCEPT ![on[Main]].right = @ - WidthOf(rect[on[Main]])
                                              + Adjusted(WidthOf(rect[on[Main]]))]
  /\ Returns(Main)
  /\ UNCHANGED <<factory, held, plug, counts, m_initialized, m_context, loops, running, viewed,
                 m_created, m_editor_frame, gui, width>>

\* A host whose size was refused asks for the one that is.
on_size ==
  /\ At(Main, "on_size")
  /\ LET w == WidthOf(rect[on[Main]]) IN
       IF w \in Fitting
       THEN width' = [width EXCEPT ![on[Main]] = w] /\ Returns(Main)
       ELSE UNCHANGED width /\ GoesOn(Main, <<"get_size">>)
  /\ UNCHANGED <<factory, held, plug, counts, m_initialized, m_context, loops, running, viewed,
                 m_created, m_editor_frame, gui, rect>>

-----------------------------------------------------------------------------
ModuleSteps ==
  \/ ModuleEntry \/ ModuleExit
  \/ \E x \in Contexts \cup {None} : set_host_context(x)
ComponentSteps ==
  \/ \E c \in Comps : create_instance(c) \/ terminate(c)
  \/ \E ok \in BOOLEAN : InitPlugin(ok)
  \/ \E c \in Comps, f \in Faces : query_interface(c, f) \/ \E t \in Threads : unref(t, c, f)
  \/ \E t \in Threads : DestroyPlugin(t) \/ DestroyMembers(t)
  \/ \E c \in Comps, x \in Contexts \cup {None} : initialize(c, x)
  \/ initialize_done \/ terminate_loop \/ terminate_done
LoopSteps ==
  \/ \E c \in Comps : LoopCalls(c)
  \/ LoopReturns
  \/ TakeInstance \/ SwitchToInstance \/ DropInstance
EditorSteps ==
  \/ \E c \in Comps : create_view(c) \/ attached(c) \/ removed(c) \/ get_size(c)
  \/ \E c \in Comps, v \in Views : view_query_interface(c, v) \/ view_unref(c, v)
  \/ DeleteHookDone \/ FrameHookDone
  \/ \E w \in Fitting : GuiCreated(w) \/ TemporaryGui(w)
  \/ GuiRefused \/ attached_done
  \/ SizeOfGui \/ NoTemporaryGui \/ TemporarySize
  \/ \E c \in Comps, w \in Fitting : request_resize(c, w)
  \/ \E c \in Comps, l \in Lefts, w \in Widths : Drag(c, l, w)
  \/ check_size_constraint \/ on_size

Next == ModuleSteps \/ ComponentSteps \/ LoopSteps \/ EditorSteps

Spec == Init /\ [][Next]_vars
-----------------------------------------------------------------------------
(***************************************************************************)
(* Properties.                                                             *)
(***************************************************************************)
\* Each count is the number of those who hold a reference: the host by any of
\* an object's interfaces, from either thread, and components on contexts and
\* loops (ref and unref of components, editors, loops and their subobjects).
CountsTrue ==
  /\ \A c \in Comps : /\ m_refcnt[c] = References(c)
                      /\ view_refcnt[c] = ViewReferences(c)
  /\ \A x \in Contexts :
       held[x] = Cardinality({c \in Comps : m_context[c] = x}) + (IF m_hostcontext = x THEN 1 ELSE 0)
  /\ \A l \in Loops :
       loop_refcnt[l] = Cardinality({c \in Comps : m_runloop[c] = l})
         + (IF l = Threaded /\ (At(Main, "set_run_loop") \/ At(Main, "unref")) THEN 1 ELSE 0)

\* What somebody may use is there: the component and the plugin of each
\* reference of the host, of an editor, and of a callback of the loop; the
\* loop of each component.
NothingDangles ==
  /\ \A c \in Comps :
       /\ HostHolds(c) => plug[c] = "ready"
       /\ HostViews(c) => plug[c] = "ready" /\ m_editor[c]
       /\ m_runloop[c] = Threaded => s_unique_instance
  /\ running # None => plug[running] = "ready" /\ m_runloop[running] = Threaded

\* When the host has given everything back, nothing is left: no plugin, no
\* graphics, no loop, no reference to a context but that of the factory; a
\* construction that failed leaves nothing either.
NothingLeaks ==
  \A c \in Comps :
    ~HostHolds(c) /\ (\A t \in Threads : on[t] # c) =>
      /\ plug[c] = "none" /\ gui[c] = 0 /\ m_runloop[c] = None /\ ~m_editor[c]
      /\ m_context[c] = None
      /\ (\A d \in Comps : ~HostHolds(d)) /\ (\A t \in Threads : Idle(t)) => ~s_unique_instance

\* The plugin is asked to make its graphics when it has none, and to destroy
\* those it has; they are there, with the frame and its loop, exactly while
\* the editor is attached (attached with its failing branch, removed and the
\* temporary graphics of get_size).
GuiBalanced ==
  \A c \in Comps :
    /\ gui[c] \in {0, 1}
    /\ Idle(Main) => /\ gui[c] = 1 <=> m_created[c]
                     /\ m_editor_frame[c] <=> m_created[c]
                     /\ m_runloop[c] = Frame <=> m_created[c]

\* Host and plugin agree on the width whenever no resize is under way, and a
\* width that check_size_constraint has adjusted is one that on_size can set.
SizeAgreed ==
  /\ Idle(Main) => \A c \in Comps : m_created[c] => WidthOf(rect[c]) = width[c]
  /\ At(Main, "on_size") =>
       WidthOf(rect[on[Main]]) \in Fitting
       \/ \A f \in Fitting : f > WidthOf(rect[on[Main]])
=============================================================================
