-------------------------- MODULE ControllerProofs --------------------------
(***************************************************************************)
(* Proofs about Controller, for any handlers, number of parameters, values *)
(* and references to the editor.                                           *)
(*                                                                         *)
(* A handler is released by set_component_handler, which takes the guard,  *)
(* and by terminate, which does not but comes after the loop.  UsingInv and *)
(* LoopInv are these two reasons.  For the frame there is only the second. *)
(***************************************************************************)
EXTENDS Controller, TLAPS

Asking == {"sync", "store", "notify"}

\* The loop that is installed, and who may run: callbacks of the threaded loop
\* only while it is installed, and the handlers are released without a loop.
LoopInv ==
  /\ loop # "threaded" => pc[Bg] = "idle"
  /\ pc[UI] = "release" => loop = "none"

\* A thread that has read a handler holds the guard until it called it, and the
\* component has that handler still.
UsingInv ==
  \A t \in Threads :
    /\ pc[t] = "notify" => using[t] # None
    /\ using[t] # None =>
         /\ pc[t] \in Asking /\ guard = t
         /\ using[t] = IF why[t] = "dirty" THEN handler2 ELSE handler

\* The frame is known only while the host lends it, which it does for an editor
\* that lives, and is forgotten before the host has it back.
FrameInv ==
  /\ frame => attached
  /\ attached => view_refs > 0
  /\ pc[UI] = "detach" => ~frame

\* What a synchronisation has read and stored is true, but for what others
\* changed since.
SyncInv ==
  \A t \in Threads :
    /\ pc[t] \notin {"sync", "store"} => at[t] = 1
    /\ pc[t] \in {"sync", "store"} =>
         \A p \in Params \ changed[t] : p < at[t] => shown[p] = Show(values[p])
    /\ pc[t] = "store" =>
         at[t] \in Params /\ (at[t] \notin changed[t] => read[t] = Show(values[at[t]]))

IInv ==
  /\ TypeOK /\ LoopInv /\ UsingInv /\ HandlersBalanced /\ FrameInv /\ EditorAlive
  /\ SyncInv /\ ToldTrue

-----------------------------------------------------------------------------
(***************************************************************************)
(* The initial states.                                                     *)
(***************************************************************************)
LEMMA InitIInv == Init => IInv
  <1> SUFFICES ASSUME Init PROVE IInv
    OBVIOUS
  <1> USE ControllerAssumption DEF Init
  <1>1. TypeOK
    <2>1. shown \in [Params -> Values] /\ values \in [Params -> Values \cup {Gone}]
      OBVIOUS
    <2>2. /\ at \in [Threads -> 1 .. ParamCount + 1] /\ view_refs \in 0 .. MaxViewRefs
          /\ read \in [Threads -> Values] /\ changed \in [Threads -> SUBSET Params]
      OBVIOUS
    <2>3. /\ refs \in [Handlers -> 0..1] /\ refs2 \in [Handlers -> 0..1]
          /\ handler \in Handlers \cup {None} /\ handler2 \in DirtyAware \cup {None}
          /\ using \in [Threads -> Handlers \cup {None}]
      OBVIOUS
    <2>4. /\ outer \in [Threads -> BOOLEAN] /\ initialized \in BOOLEAN
          /\ editor \in BOOLEAN /\ frame \in BOOLEAN /\ attached \in BOOLEAN
          /\ loop \in {"none", "threaded", "frame"} /\ guard \in Threads \cup {None}
          /\ why \in [Threads -> {"none", "values", "other", "dirty"}]
      OBVIOUS
    <2> QED
      BY <2>1, <2>2, <2>3, <2>4 DEF TypeOK
  <1>2. \A p \in Params : Show(values[p]) = shown[p]
    BY DEF Show
  <1>3. LoopInv /\ UsingInv /\ HandlersBalanced /\ FrameInv /\ EditorAlive
    BY DEF LoopInv, UsingInv, HandlersBalanced, FrameInv, EditorAlive, Threads, UI, Bg
  <1>4. SyncInv /\ ToldTrue
    BY <1>2 DEF SyncInv, ToldTrue
  <1> QED
    BY <1>1, <1>3, <1>4 DEF IInv

\* What the controller shows of a value is a value.
LEMMA ShowTyped ==
  ASSUME NEW value \in Values \cup {Gone}
  PROVE  Show(value) \in Values
  BY ControllerAssumption DEF Show

-----------------------------------------------------------------------------
(***************************************************************************)
(* References to handlers.                                                 *)
(***************************************************************************)
\* An exchange of handlers, with and without component_handler2.
LEMMA ExchangeBalanced ==
  ASSUME TypeOK, HandlersBalanced, NEW h \in Handlers \cup {None}, set_component_handler(h)
  PROVE  HandlersBalanced' /\ refs' \in [Handlers -> 0..1] /\ refs2' \in [Handlers -> 0..1]
  <1> DEFINE less  == Add(refs, handler, -1)
             less2 == Add(refs2, handler2, -1)
  <1>1. /\ refs \in [Handlers -> Int] /\ refs2 \in [Handlers -> Int]
        /\ handler \in Handlers \cup {None} /\ handler2 \in Handlers \cup {None}
        /\ Dirty(h) \in Handlers \cup {None}
    BY ControllerAssumption DEF TypeOK, Dirty
  <1>2. /\ less \in [Handlers -> Int]
        /\ \A x \in Handlers : less[x] = refs[x] + (IF x = handler THEN -1 ELSE 0)
    BY <1>1, ControllerAssumption DEF Add
  <1>3. /\ less2 \in [Handlers -> Int]
        /\ \A x \in Handlers : less2[x] = refs2[x] + (IF x = handler2 THEN -1 ELSE 0)
    BY <1>1, ControllerAssumption DEF Add
  <1>4. /\ refs' = Add(less, h, 1) /\ refs2' = Add(less2, Dirty(h), 1)
        /\ handler' = h /\ handler2' = Dirty(h) /\ h # handler
        /\ initialized /\ initialized' = initialized
    BY DEF set_component_handler
  <1> HIDE DEF less, less2
  <1>5. /\ refs' \in [Handlers -> Int]
        /\ \A x \in Handlers : refs'[x] = less[x] + (IF x = h THEN 1 ELSE 0)
    BY <1>2, <1>4, ControllerAssumption DEF Add
  <1>6. /\ refs2' \in [Handlers -> Int]
        /\ \A x \in Handlers : refs2'[x] = less2[x] + (IF x = Dirty(h) THEN 1 ELSE 0)
    BY <1>1, <1>3, <1>4, ControllerAssumption DEF Add
  <1>7. \A x \in Handlers : /\ refs'[x] = IF x = h THEN 1 ELSE 0
                            /\ refs2'[x] = IF x = Dirty(h) THEN 1 ELSE 0
    BY <1>2, <1>3, <1>5, <1>6 DEF HandlersBalanced
  <1>8. HandlersBalanced'
    BY <1>4, <1>7 DEF HandlersBalanced, Dirty
  <1> QED
    BY <1>5, <1>6, <1>7, <1>8

\* terminate gives both back.
LEMMA ReleaseBalanced ==
  ASSUME TypeOK, HandlersBalanced, terminate_done
  PROVE  HandlersBalanced' /\ refs' \in [Handlers -> 0..1] /\ refs2' \in [Handlers -> 0..1]
  <1>1. /\ refs \in [Handlers -> Int] /\ refs2 \in [Handlers -> Int]
        /\ handler \in Handlers \cup {None} /\ handler2 \in Handlers \cup {None}
    BY ControllerAssumption DEF TypeOK
  <1>2. /\ refs' = Add(refs, handler, -1) /\ refs2' = Add(refs2, handler2, -1)
        /\ handler' = None /\ handler2' = None
    BY DEF terminate_done
  <1>3. /\ refs' \in [Handlers -> Int]
        /\ \A x \in Handlers : refs'[x] = refs[x] + (IF x = handler THEN -1 ELSE 0)
    BY <1>1, <1>2, ControllerAssumption DEF Add
  <1>4. /\ refs2' \in [Handlers -> Int]
        /\ \A x \in Handlers : refs2'[x] = refs2[x] + (IF x = handler2 THEN -1 ELSE 0)
    BY <1>1, <1>2, ControllerAssumption DEF Add
  <1>5. \A x \in Handlers : refs'[x] = 0 /\ refs2'[x] = 0
    BY <1>3, <1>4 DEF HandlersBalanced
  <1>6. HandlersBalanced'
    BY <1>2, <1>5, ControllerAssumption DEF HandlersBalanced
  <1> QED
    BY <1>3, <1>4, <1>5, <1>6

-----------------------------------------------------------------------------
(***************************************************************************)
(* The type invariant.                                                     *)
(***************************************************************************)
\* The steps of the plugin and of the audio thread.
LEMMA PluginTyped ==
  ASSUME TypeOK,
         \/ \E t \in Threads : PluginStep(t)
         \/ \E p \in Params, v \in Values : Automation(p, v)
  PROVE  TypeOK'
  <1> USE ControllerAssumption DEF TypeOK, Goto, locals, sync, handlers, params, views
  <1>1. ASSUME NEW t \in Threads, PluginReturns(t) PROVE TypeOK'
    BY <1>1 DEF PluginReturns
  <1>2. ASSUME NEW t \in Threads, NEW p \in Params, NEW v \in Values \cup {Gone},
               PluginChanges(t, p, v)
        PROVE  TypeOK'
    BY <1>2 DEF PluginChanges, Touch
  <1>3. ASSUME NEW t \in Threads, NEW about \in {"values", "other", "dirty"},
               PluginTells(t, about)
        PROVE  TypeOK'
    BY <1>3 DEF PluginTells, Rescan
  <1>4. ASSUME NEW t \in Threads, PluginResizes(t) PROVE TypeOK'
    BY <1>4 DEF PluginResizes
  <1>5. ASSUME NEW p \in Params, NEW v \in Values, Automation(p, v) PROVE TypeOK'
    BY <1>5 DEF Automation, Touch
  <1> QED
    BY <1>1, <1>2, <1>3, <1>4, <1>5 DEF PluginStep

\* The steps of the component on behalf of the plugin.
LEMMA ComponentTyped ==
  ASSUME TypeOK, SyncInv, NEW t \in Threads, ComponentStep(t)
  PROVE  TypeOK'
  <1> USE ControllerAssumption DEF TypeOK, Goto, locals, sync, handlers, params, views
  <1>1. CASE HandlerCalled(t)
    BY <1>1 DEF HandlerCalled
  <1>2. CASE FrameCalled(t)
    BY <1>2 DEF FrameCalled
  <1>3. CASE SyncRead(t)
    <2>1. at[t] \in Params
      BY <1>3 DEF SyncRead, Params
    <2>2. Show(values[at[t]]) \in Values
      BY <2>1, ShowTyped
    <2> QED
      BY <1>3, <2>2 DEF SyncRead
  <1>4. CASE SyncStore(t)
    <2>1. at[t] \in Params /\ at[t] + 1 \in 1 .. ParamCount + 1
      BY <1>4 DEF SyncStore, SyncInv, Params
    <2>2. changed' \in [Threads -> SUBSET Params]
      BY <1>4, <2>1 DEF SyncStore
    <2>3. /\ shown' \in [Params -> Values] /\ at' \in [Threads -> 1 .. ParamCount + 1]
          /\ read' \in [Threads -> Values]
      BY <1>4, <2>1 DEF SyncStore
    <2> QED
      BY <1>4, <2>2, <2>3 DEF SyncStore
  <1>5. CASE SyncDone(t)
    BY <1>5 DEF SyncDone
  <1> QED
    BY <1>1, <1>2, <1>3, <1>4, <1>5 DEF ComponentStep

\* The calls of the host that do not wait.
LEMMA HostCallsTyped ==
  ASSUME TypeOK, HandlersBalanced, EditorAlive, HostCalls
  PROVE  TypeOK'
  <1> USE ControllerAssumption DEF TypeOK, Goto, locals, sync, handlers, params, views
  <1>1. CASE initialize
    BY <1>1 DEF initialize
  <1>2. CASE terminate
    BY <1>2 DEF terminate, Threads
  <1>3. ASSUME NEW guarded \in BOOLEAN, UICallsPlugin(guarded) PROVE TypeOK'
    BY <1>3 DEF UICallsPlugin, Threads
  <1>4. ASSUME NEW h \in Handlers \cup {None}, set_component_handler(h) PROVE TypeOK'
    <2>1. refs' \in [Handlers -> 0..1] /\ refs2' \in [Handlers -> 0..1]
      BY <1>4, ExchangeBalanced DEF HandlersBalanced
    <2> QED
      BY <1>4, <2>1 DEF set_component_handler, Dirty
  <1>5. CASE set_state
    BY <1>5 DEF set_state, Threads
  <1>6. ASSUME NEW p \in Params, NEW v \in Values, set_parameter_normalised(p, v) PROVE TypeOK'
    BY <1>6 DEF set_parameter_normalised, Touch
  <1>7. CASE create_view
    BY <1>7 DEF create_view
  <1>8. CASE view_unref
    <2>1. view_refs' \in 0 .. MaxViewRefs
      BY <1>8 DEF view_unref
    <2>2. editor' \in BOOLEAN /\ frame' \in BOOLEAN
      BY <1>8 DEF view_unref, DeleteHook
    <2> QED
      BY <1>8, <2>1, <2>2 DEF view_unref
  <1>9. CASE view_attached
    BY <1>9 DEF view_attached, Threads
  <1> QED
    BY <1>1, <1>2, <1>3, <1>4, <1>5, <1>6, <1>7, <1>8, <1>9 DEF HostCalls

\* The rest of those that do, and the beginning of callbacks.
LEMMA HostProceedsTyped ==
  ASSUME TypeOK, HandlersBalanced, HostProceeds \/ CallbackPicked \/ CallbackBegins
  PROVE  TypeOK'
  <1> USE ControllerAssumption
      DEF TypeOK, Goto, SetRunLoop, locals, sync, handlers, params, views
  <1>1. CASE CallbackPicked \/ CallbackBegins
    BY <1>1 DEF CallbackPicked, CallbackBegins, Threads
  <1>2. CASE terminate_stops_loop
    BY <1>2 DEF terminate_stops_loop
  <1>3. CASE terminate_done
    <2>1. refs' \in [Handlers -> 0..1] /\ refs2' \in [Handlers -> 0..1]
      BY <1>3, ReleaseBalanced DEF HandlersBalanced
    <2> QED
      BY <1>3, <2>1 DEF terminate_done
  <1>4. CASE view_loop_installed \/ view_created
    BY <1>4 DEF view_loop_installed, view_created
  <1>5. CASE view_gone \/ view_detached
    BY <1>5 DEF view_gone, view_detached
  <1> QED
    BY <1>1, <1>2, <1>3, <1>4, <1>5 DEF HostProceeds

LEMMA TypeStep ==
  ASSUME IInv, Next
  PROVE  TypeOK'
  BY PluginTyped, ComponentTyped, HostCallsTyped, HostProceedsTyped DEF IInv, Next

-----------------------------------------------------------------------------
(***************************************************************************)
(* The loop that is installed.  It, and the places of the threads that     *)
(* matter here, are changed by few steps.                                  *)
(***************************************************************************)
LEMMA LoopStep ==
  ASSUME TypeOK, LoopInv, Next
  PROVE  LoopInv'
  <1> USE DEF TypeOK, LoopInv, Goto, SetRunLoop, Threads, UI, Bg
  <1>1. ASSUME NEW t \in Threads, PluginStep(t) PROVE LoopInv'
    BY <1>1 DEF PluginStep, PluginReturns, PluginChanges, PluginTells, Rescan, PluginResizes
  <1>2. ASSUME NEW t \in Threads, ComponentStep(t) PROVE LoopInv'
    BY <1>2 DEF ComponentStep, HandlerCalled, FrameCalled, SyncRead, SyncStore, SyncDone
  <1>3. CASE CallbackPicked \/ CallbackBegins
    BY <1>3 DEF CallbackPicked, CallbackBegins
  <1>4. CASE \E p \in Params, v \in Values : Automation(p, v)
    BY <1>4 DEF Automation
  <1>5. CASE HostCalls
    BY <1>5 DEF HostCalls, initialize, terminate, UICallsPlugin, set_component_handler,
                set_state, set_parameter_normalised, create_view, view_unref, view_attached
  <1>6. CASE HostProceeds
    BY <1>6 DEF HostProceeds, terminate_stops_loop, terminate_done, view_loop_installed,
                view_created, view_gone, view_detached
  <1> QED
    BY <1>1, <1>2, <1>3, <1>4, <1>5, <1>6 DEF Next

-----------------------------------------------------------------------------
(***************************************************************************)
(* The handlers and who uses them.                                         *)
(***************************************************************************)
LEMMA HandlersStep ==
  ASSUME TypeOK, HandlersBalanced, Next
  PROVE  HandlersBalanced'
  <1> USE DEF handlers
  <1>1. CASE \E h \in Handlers \cup {None} : set_component_handler(h)
    BY <1>1, ExchangeBalanced
  <1>2. CASE terminate_done
    BY <1>2, ReleaseBalanced
  <1>3. CASE initialize
    BY <1>3 DEF HandlersBalanced, initialize
  <1>4. CASE UNCHANGED <<initialized, handlers>>
    BY <1>4 DEF HandlersBalanced
  <1>5. ASSUME NEW t \in Threads, PluginStep(t) \/ ComponentStep(t)
        PROVE  UNCHANGED <<initialized, handlers>>
    BY <1>5 DEF PluginStep, PluginReturns, PluginChanges, PluginTells, PluginResizes,
                ComponentStep, HandlerCalled, FrameCalled, SyncRead, SyncStore, SyncDone
  <1>6. ASSUME CallbackPicked \/ CallbackBegins \/ \E p \in Params, v \in Values : Automation(p, v)
        PROVE  UNCHANGED <<initialized, handlers>>
    BY <1>6 DEF CallbackPicked, CallbackBegins, Automation
  <1>7. CASE HostCalls
    BY <1>1, <1>3, <1>4, <1>7
       DEF HostCalls, terminate, UICallsPlugin, set_state, set_parameter_normalised,
           create_view, view_unref, view_attached
  <1>8. CASE HostProceeds
    BY <1>2, <1>4, <1>8
       DEF HostProceeds, terminate_stops_loop, view_loop_installed, view_created, view_gone,
           view_detached
  <1> QED
    BY <1>4, <1>5, <1>6, <1>7, <1>8 DEF Next

LEMMA UsingStep ==
  ASSUME TypeOK, LoopInv, UsingInv, Next
  PROVE  UsingInv'
  <1> USE ControllerAssumption
      DEF TypeOK, UsingInv, Asking, Goto, locals, sync, handlers, params, views, Threads, UI, Bg
  <1>1. ASSUME NEW t \in Threads, PluginReturns(t) PROVE UsingInv'
    BY <1>1 DEF PluginReturns
  <1>2. ASSUME NEW t \in Threads, NEW about \in {"values", "other", "dirty"},
               PluginTells(t, about)
        PROVE  UsingInv'
    BY <1>2 DEF PluginTells, Rescan
  <1>3. ASSUME NEW t \in Threads,
               PluginResizes(t) \/ \E p \in Params, v \in Values \cup {Gone} : PluginChanges(t, p, v)
        PROVE  UsingInv'
    BY <1>3 DEF PluginResizes, PluginChanges
  <1>4. ASSUME NEW t \in Threads, HandlerCalled(t) PROVE UsingInv'
    BY <1>4 DEF HandlerCalled
  <1>5. ASSUME NEW t \in Threads, FrameCalled(t) \/ SyncRead(t) \/ SyncStore(t) \/ SyncDone(t)
        PROVE  UsingInv'
    BY <1>5 DEF FrameCalled, SyncRead, SyncStore, SyncDone
  <1>6. CASE CallbackPicked \/ CallbackBegins
    BY <1>6 DEF CallbackPicked, CallbackBegins
  <1>7. CASE \E p \in Params, v \in Values : Automation(p, v)
    BY <1>7 DEF Automation
  <1>8. CASE \E h \in Handlers \cup {None} : set_component_handler(h)
    BY <1>8 DEF set_component_handler
  <1>9. CASE terminate_done
    <2>1. pc[Bg] = "idle"
      BY <1>9 DEF terminate_done, LoopInv
    <2> QED
      BY <1>9, <2>1 DEF terminate_done
  <1>10. CASE HostCalls
    BY <1>8, <1>10 DEF HostCalls, initialize, terminate, UICallsPlugin, set_state,
       set_parameter_normalised, create_view, view_unref, view_attached
  <1>11. CASE HostProceeds
    BY <1>9, <1>11 DEF HostProceeds, terminate_stops_loop, view_loop_installed, view_created,
       view_gone, view_detached
  <1> QED
    BY <1>1, <1>2, <1>3, <1>4, <1>5, <1>6, <1>7, <1>10, <1>11
    DEF Next, PluginStep, ComponentStep

-----------------------------------------------------------------------------
(***************************************************************************)
(* The editor and its frame.                                               *)
(***************************************************************************)
LEMMA EditorStep ==
  ASSUME TypeOK, LoopInv, FrameInv, EditorAlive, Next
  PROVE  FrameInv' /\ EditorAlive'
  <1> DEFINE Goal == FrameInv' /\ EditorAlive'
  <1> USE DEF TypeOK, LoopInv, FrameInv, EditorAlive, Goto, SetRunLoop, locals, sync, handlers,
              params, views, Threads, UI, Bg
  <1>1. ASSUME NEW t \in Threads, PluginStep(t) PROVE Goal
    BY <1>1 DEF PluginStep, PluginReturns, PluginChanges, PluginTells, Rescan, PluginResizes
  <1>2. ASSUME NEW t \in Threads, ComponentStep(t) PROVE Goal
    BY <1>2 DEF ComponentStep, HandlerCalled, FrameCalled, SyncRead, SyncStore, SyncDone
  <1>3. CASE CallbackPicked \/ CallbackBegins
    BY <1>3 DEF CallbackPicked, CallbackBegins
  <1>4. CASE \E p \in Params, v \in Values : Automation(p, v)
    BY <1>4 DEF Automation
  <1>5. CASE create_view
    BY <1>5 DEF create_view
  <1>6. CASE view_unref
    BY <1>6 DEF view_unref, DeleteHook
  <1>7. CASE view_attached
    BY <1>7 DEF view_attached
  <1>8. CASE HostCalls
    BY <1>5, <1>6, <1>7, <1>8
       DEF HostCalls, initialize, terminate, UICallsPlugin, set_component_handler, set_state,
           set_parameter_normalised
  <1>9. CASE view_gone
    BY <1>9 DEF view_gone
  <1>10. CASE view_detached
    BY <1>10 DEF view_detached
  <1>11. CASE HostProceeds
    BY <1>9, <1>10, <1>11
       DEF HostProceeds, terminate_stops_loop, terminate_done, view_loop_installed, view_created
  <1> QED
    BY <1>1, <1>2, <1>3, <1>4, <1>8, <1>11 DEF Next

-----------------------------------------------------------------------------
(***************************************************************************)
(* What a synchronisation has read and stored, and what the host is told.  *)
(***************************************************************************)
\* A value that changes under a synchronisation is one of its exceptions.
LEMMA TouchKeeps ==
  ASSUME TypeOK, SyncInv, ToldTrue, NEW p \in Params, NEW by, Touch(p, by),
         \A t \in Threads : t = by => pc[t] \notin Asking,
         UNCHANGED <<pc, why, at, read>>,
         \A q \in Params : q # p => shown'[q] = shown[q] /\ values'[q] = values[q]
  PROVE  SyncInv' /\ ToldTrue'
  <1>1. \A t \in Threads : pc[t] \in Asking => changed'[t] = changed[t] \cup {p}
    BY DEF Touch, Asking, TypeOK
  <1>2. SyncInv'
    BY <1>1 DEF SyncInv, Asking
  <1>3. ToldTrue'
    BY <1>1 DEF ToldTrue, Asking
  <1> QED
    BY <1>2, <1>3

\* A step that leaves the synchronisations and the values alone.
LEMMA OthersKeep ==
  ASSUME TypeOK, SyncInv, ToldTrue, NEW t \in Threads,
         UNCHANGED <<at, read, shown, values>>,
         \A s \in Threads : s # t => UNCHANGED <<pc[s], why[s], changed[s]>>,
         pc[t] \notin {"sync", "store"},
         \/ pc'[t] \notin Asking
         \/ pc'[t] = "sync"
         \/ pc'[t] = "notify" /\ why'[t] # "values"
  PROVE  SyncInv' /\ ToldTrue'
  <1>1. at[t] = 1 /\ \A p \in Params : ~(p < 1)
    BY DEF SyncInv, Params
  <1>2. SyncInv'
    BY <1>1 DEF SyncInv, Asking
  <1>3. ToldTrue'
    BY DEF ToldTrue, Asking
  <1> QED
    BY <1>2, <1>3

\* Steps of the plugin.
LEMMA PluginSynced ==
  ASSUME TypeOK, SyncInv, ToldTrue, NEW t \in Threads, PluginStep(t)
  PROVE  SyncInv' /\ ToldTrue'
  <1> USE DEF TypeOK, Goto, Asking, locals, sync, params
  <1>1. CASE PluginReturns(t) \/ PluginResizes(t)
    BY <1>1, OthersKeep DEF PluginReturns, PluginResizes
  <1>2. ASSUME NEW p \in Params, NEW v \in Values \cup {Gone}, PluginChanges(t, p, v)
        PROVE  SyncInv' /\ ToldTrue'
    BY <1>2, TouchKeeps DEF PluginChanges
  <1>3. ASSUME NEW about \in {"values", "other", "dirty"}, PluginTells(t, about)
        PROVE  SyncInv' /\ ToldTrue'
    <2>1. /\ pc[t] = "plugin" /\ why' = [why EXCEPT ![t] = about]
          /\ UNCHANGED <<shown, values>>
      BY <1>3 DEF PluginTells
    <2>2. /\ pc' = [pc EXCEPT ![t] = IF about = "values" THEN "sync" ELSE "notify"]
          /\ UNCHANGED <<at, read, changed>>
      BY <1>3, <2>1 DEF PluginTells, Rescan, SyncInv
    <2> QED
      BY <2>1, <2>2, OthersKeep
  <1> QED
    BY <1>1, <1>2, <1>3 DEF PluginStep

\* Steps of the component: what it reads is true when it was read, and what it
\* stores is what it read.
LEMMA ComponentSynced ==
  ASSUME TypeOK, SyncInv, ToldTrue, NEW t \in Threads, ComponentStep(t)
  PROVE  SyncInv' /\ ToldTrue'
  <1> USE DEF TypeOK, Goto, Asking, locals, sync, params
  <1>1. CASE HandlerCalled(t)
    BY <1>1, OthersKeep DEF HandlerCalled
  <1>2. CASE FrameCalled(t)
    BY <1>2, OthersKeep DEF FrameCalled
  <1>3. CASE SyncRead(t)
    <2>1. /\ pc[t] = "sync" /\ at[t] \in Params
          /\ pc' = [pc EXCEPT ![t] = "store"]
          /\ read' = [read EXCEPT ![t] = Show(values[at[t]])]
          /\ UNCHANGED <<why, at, changed, values, shown>>
      BY <1>3 DEF SyncRead, Params
    <2>2. SyncInv'
      BY <2>1 DEF SyncInv
    <2>3. ToldTrue'
      BY <2>1 DEF ToldTrue
    <2> QED
      BY <2>2, <2>3
  <1>4. CASE SyncStore(t)
    <2>1. /\ pc[t] = "store" /\ at[t] \in Params
          /\ pc' = [pc EXCEPT ![t] = "sync"]
          /\ shown' = [shown EXCEPT ![at[t]] = read[t]]
          /\ at' = [at EXCEPT ![t] = @ + 1]
          /\ UNCHANGED <<why, values>>
      BY <1>4 DEF SyncStore, SyncInv
    <2>2. /\ changed'[t] = changed[t]
          /\ \A s \in Threads : s # t /\ pc[s] \in Asking => changed'[s] = changed[s] \cup {at[t]}
          /\ \A s \in Threads : s # t => read'[s] = read[s]
      BY <1>4 DEF SyncStore
    <2>3. \A s \in Threads : s # t /\ pc[s] \in Asking =>
            \A p \in Params \ changed'[s] : p \notin changed[s] /\ shown'[p] = shown[p]
      BY <2>1, <2>2
    <2>4. \A p \in Params \ changed[t] : p < at[t] + 1 => shown'[p] = Show(values[p])
      BY <2>1 DEF SyncInv, Params
    <2>5. ASSUME NEW s \in Threads, s # t
          PROVE  /\ pc'[s] \notin {"sync", "store"} => at'[s] = 1
                 /\ pc'[s] \in {"sync", "store"} =>
                      \A p \in Params \ changed'[s] : p < at'[s] => shown'[p] = Show(values'[p])
                 /\ pc'[s] = "store" =>
                      /\ at'[s] \in Params
                      /\ at'[s] \notin changed'[s] => read'[s] = Show(values'[at'[s]])
      BY <2>1, <2>2, <2>3, <2>5 DEF SyncInv
    <2>6. SyncInv'
      BY <2>1, <2>2, <2>4, <2>5 DEF SyncInv
    <2>7. ToldTrue'
      BY <2>1, <2>3 DEF ToldTrue
    <2> QED
      BY <2>6, <2>7
  <1>5. CASE SyncDone(t)
    <2>1. /\ pc[t] = "sync" /\ at' = [at EXCEPT ![t] = 1]
          /\ \/ pc' = [pc EXCEPT ![t] = "idle"]
             \/ pc' = [pc EXCEPT ![t] = "notify"] /\ UNCHANGED changed
          /\ \A s \in Threads : s # t => changed'[s] = changed[s]
          /\ UNCHANGED <<why, read, values, shown>>
      BY <1>5 DEF SyncDone
    <2>2. \A p \in Params : p < at[t]
      <3>1. at[t] > ParamCount /\ at[t] \in 1 .. ParamCount + 1
        BY <1>5 DEF SyncDone
      <3> QED
        BY <3>1, ControllerAssumption DEF Params
    <2>3. SyncInv'
      BY <2>1 DEF SyncInv
    <2>4. ToldTrue'
      BY <2>1, <2>2 DEF ToldTrue, SyncInv
    <2> QED
      BY <2>3, <2>4
  <1> QED
    BY <1>1, <1>2, <1>3, <1>4, <1>5 DEF ComponentStep

\* Steps of the host, and the beginning of callbacks.
LEMMA HostSynced ==
  ASSUME TypeOK, SyncInv, ToldTrue,
         HostCalls \/ HostProceeds \/ CallbackPicked \/ CallbackBegins
  PROVE  SyncInv' /\ ToldTrue'
  <1> USE DEF TypeOK, Goto, SetRunLoop, Asking, locals, sync, params, Threads, UI, Bg
  <1>1. CASE CallbackPicked \/ CallbackBegins
    BY <1>1, OthersKeep DEF CallbackPicked, CallbackBegins
  <1>2. ASSUME NEW p \in Params, NEW v \in Values, set_parameter_normalised(p, v)
        PROVE  SyncInv' /\ ToldTrue'
    BY <1>2, TouchKeeps DEF set_parameter_normalised
  <1>3. CASE HostCalls
    BY <1>2, <1>3, OthersKeep
       DEF HostCalls, initialize, terminate, UICallsPlugin, set_component_handler, set_state,
           create_view, view_unref, view_attached
  <1>4. CASE HostProceeds
    BY <1>4, OthersKeep
       DEF HostProceeds, terminate_stops_loop, terminate_done, view_loop_installed,
           view_created, view_gone, view_detached
  <1> QED
    BY <1>1, <1>3, <1>4

LEMMA SyncStep ==
  ASSUME TypeOK, SyncInv, ToldTrue, Next
  PROVE  SyncInv' /\ ToldTrue'
  <1>1. ASSUME NEW p \in Params, NEW v \in Values, Automation(p, v)
        PROVE  SyncInv' /\ ToldTrue'
    <2>1. \A t \in Threads : t # None
      BY ControllerAssumption
    <2> QED
      BY <1>1, <2>1, TouchKeeps DEF Automation, TypeOK
  <1> QED
    BY <1>1, PluginSynced, ComponentSynced, HostSynced DEF Next

-----------------------------------------------------------------------------
(***************************************************************************)
(* The theorems.                                                           *)
(***************************************************************************)
LEMMA NextIInv == IInv /\ [Next]_vars => IInv'
  <1>1. ASSUME IInv, Next PROVE IInv'
    BY <1>1, TypeStep, LoopStep, HandlersStep, UsingStep, EditorStep, SyncStep DEF IInv
  <1>2. ASSUME IInv, UNCHANGED vars PROVE IInv'
    BY <1>2 DEF IInv, TypeOK, LoopInv, UsingInv, HandlersBalanced, FrameInv, EditorAlive,
                SyncInv, ToldTrue, vars, locals, sync, handlers, params, views
  <1> QED
    BY <1>1, <1>2

LEMMA Invariant == Spec => []IInv
  BY InitIInv, NextIInv, PTL DEF Spec

\* The state of the component keeps its types, for any number of handlers,
\* parameters, values and references to the editor.
THEOREM TypeCorrect == Spec => []TypeOK
  <1>1. IInv => TypeOK
    BY DEF IInv
  <1> QED
    BY <1>1, Invariant, PTL

\* The references of the component to handlers are those of m_handler and
\* m_handler2, over any exchange (set_component_handler, terminate).
THEOREM HandlersAlwaysBalanced == Spec => []HandlersBalanced
  <1>1. IInv => HandlersBalanced
    BY DEF IInv
  <1> QED
    BY <1>1, Invariant, PTL

\* A handler that the plugin's call has read is held until it was called
\* (the callbacks in ct_host.cpp against set_component_handler and terminate).
THEOREM HandlersStayAlive == Spec => []HandlerAlive
  <1>1. IInv => HandlerAlive
    BY ControllerAssumption DEF IInv, UsingInv, HandlersBalanced, HandlerAlive, Telling, TypeOK
  <1> QED
    BY <1>1, Invariant, PTL

\* The plugin's resize reaches a frame that is lent, and m_editor is an editor
\* that lives (request_resize against attached, removed and the delete hook).
THEOREM EditorStaysAlive == Spec => []EditorAlive
  <1>1. IInv => EditorAlive
    BY DEF IInv
  <1> QED
    BY <1>1, Invariant, PTL

\* The host is told of values when the controller shows them, for any number of
\* parameters (params__rescan).
THEOREM ToldAlwaysTrue == Spec => []ToldTrue
  <1>1. IInv => ToldTrue
    BY DEF IInv
  <1> QED
    BY <1>1, Invariant, PTL
=============================================================================
