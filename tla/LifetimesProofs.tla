-------------------------- MODULE LifetimesProofs --------------------------
(***************************************************************************)
(* Proofs about Lifetimes, for any components, contexts, interfaces that   *)
(* the host uses, bounds and sizes: references are counted, nothing        *)
(* dangles, nothing leaks, graphics are made and destroyed in turn, and    *)
(* host and plugin agree on sizes, for hosts that are careful enough.      *)
(***************************************************************************)
EXTENDS Lifetimes, FiniteSetTheorems, SequenceTheorems, WellFoundedInduction, TLAPS

\* A host that gives back what it got before it gives back where it got it
\* from, and one that also removes editors and waits for attached.
CarefulOwner == {ClosesViews, TerminatesFirst} \subseteq Manners
CarefulHost  == {ClosesViews, RemovesViews, TerminatesFirst, AsksNoSize} \subseteq Manners

\* The function that a thread is in, and the one that called it.
Top(t)   == IF Idle(t) THEN "idle" ELSE stack[t][1]
Under(t) == IF Len(stack[t]) < 2 THEN "idle" ELSE stack[t][2]

\* Main is in one of these functions about a component.
In(c, places) == on[Main] = c /\ (Top(Main) \in places \/ Under(Main) \in places)

\* A thread is about to destroy the plugin of a component, or destroys all of
\* the component.
Dying(c)    == \E t \in Threads : on[t] = c /\ Top(t) = "delete"
Deleting(c) == \E t \in Threads : on[t] = c /\ Top(t) \in {"delete", "members"}

Loopings == {"instance", "set_run_loop", "unref"}
Hooked   == {"initialize", "delete hook", "frame hook"}
Alone    == {"create_instance", "delete", "members", "terminate", "terminated", "gui create",
             "gui show", "get_size", "temporary", "on_size"} \cup Hooked
Places   == Alone \cup Loopings \cup {"check_size_constraint"}

ModuleTypes ==
  /\ g_module_initialized \in BOOLEAN /\ m_hostcontext \in Contexts \cup {None}
  /\ held \in [Contexts -> Int]
ComponentTypes ==
  /\ plug \in [Comps -> {"none", "created", "ready"}]
  /\ m_refcnt \in [Comps -> Int] /\ host_refs \in [Comps -> [Interfaces -> Nat]]
  /\ m_initialized \in [Comps -> BOOLEAN] /\ m_context \in [Comps -> Contexts \cup {None}]
LoopTypes ==
  /\ m_runloop \in [Comps -> Loops \cup {None}]
  /\ s_unique_instance \in BOOLEAN /\ loop_refcnt \in [Loops -> Int]
  /\ running \in Comps \cup {None}
EditorTypes ==
  /\ m_editor \in [Comps -> BOOLEAN]
  /\ view_refcnt \in [Comps -> Int] /\ view_refs \in [Comps -> [Views -> Nat]]
GraphicsTypes ==
  /\ m_created \in [Comps -> BOOLEAN] /\ m_editor_frame \in [Comps -> BOOLEAN]
  /\ gui \in [Comps -> Int] /\ width \in [Comps -> Int]
  /\ rect \in [Comps -> [left : Int, right : Int]]
ThreadTypes ==
  /\ stack \in [Threads -> Seq(Places)] /\ \A t \in Threads : Len(stack[t]) \in 0..2
  /\ on \in [Threads -> Comps \cup {None}]
TypeOK ==
  ModuleTypes /\ ComponentTypes /\ LoopTypes /\ EditorTypes /\ GraphicsTypes /\ ThreadTypes

\* Which function calls which; two threads are not in the same component.
StackInv ==
  /\ \A t \in Threads : Top(t) = "idle" <=> on[t] = None
  /\ Top(Audio) \in {"idle", "delete", "members"} /\ Under(Audio) = "idle"
  /\ \/ Top(Main) \in Alone \cup {"idle"} /\ Under(Main) = "idle"
     \/ Top(Main) \in Loopings /\ Under(Main) \in Hooked
     \/ Top(Main) = "check_size_constraint" /\ Under(Main) = "on_size"
     \/ Top(Main) \in {"get_size", "temporary"} /\ Under(Main) = "gui show"
  /\ on[Main] # None => on[Main] # on[Audio]

\* The host's references, by the counts of the objects.
RefsInv ==
  \A c \in Comps : m_refcnt[c] = References(c) /\ view_refcnt[c] = ViewReferences(c)

\* The life of a component and of its editor.
LifeAt(c) ==
  /\ plug[c] = "created" <=> In(c, {"create_instance"})
  /\ HostHolds(c) => plug[c] = "ready" /\ ~Deleting(c)
  /\ plug[c] = "ready" => HostHolds(c) \/ Dying(c)
  /\ on[Main] = c => HostHolds(c) \/ Top(Main) \in {"create_instance", "delete", "members"}
  /\ m_initialized[c] => HostHolds(c)
  /\ ~m_initialized[c] /\ ~In(c, {"initialize"}) => m_runloop[c] = None /\ m_context[c] = None
  /\ In(c, {"terminated"}) => m_runloop[c] = None
  /\ HostViews(c) => m_initialized[c] /\ m_editor[c]
  /\ m_editor[c] => HostViews(c) \/ In(c, {"delete hook"})
  /\ In(c, {"terminate", "terminated", "delete hook"}) => ~HostViews(c)
  /\ In(c, {"gui create", "frame hook", "delete hook"}) => m_initialized[c]

LifeInv == \A c \in Comps : LifeAt(c)

\* Contexts and loops have as many references as they have users.
Users(f, x) == Cardinality({c \in Comps : f[c] = x})

HeldInv ==
  \A x \in Contexts : held[x] = Users(m_context, x) + (IF m_hostcontext = x THEN 1 ELSE 0)

LoopInv ==
  /\ \A l \in Loops :
       loop_refcnt[l] = Users(m_runloop, l)
         + (IF l = Threaded /\ Top(Main) \in {"set_run_loop", "unref"} THEN 1 ELSE 0)
  /\ s_unique_instance <=> loop_refcnt[Threaded] > 0
  /\ running # None => m_runloop[running] = Threaded

IInv == TypeOK /\ StackInv /\ RefsInv /\ LifeInv /\ HeldInv /\ LoopInv

\* The plugin's graphics between functions, and in the middle of them.
Shown(c)  == gui[c] = 1 /\ m_created[c] /\ m_editor_frame[c] /\ m_runloop[c] = Frame
Hidden(c) == gui[c] = 0 /\ ~m_created[c] /\ ~m_editor_frame[c] /\ m_runloop[c] # Frame

Graphics == {"gui create", "gui show", "frame hook", "temporary"}

GuiAt(c) ==
  /\ m_created[c] \/ In(c, {"gui create", "gui show"}) => HostViews(c)
  /\ In(c, {"initialize"}) => ~HostViews(c)
  /\ In(c, {"gui create"}) =>
       gui[c] = 0 /\ ~m_created[c] /\ m_editor_frame[c] /\ m_runloop[c] = Frame
  /\ In(c, {"gui show"}) =>
       gui[c] = 1 /\ ~m_created[c] /\ m_editor_frame[c] /\ m_runloop[c] = Frame
  /\ In(c, {"frame hook"}) =>
       /\ gui[c] = 0 /\ ~m_editor_frame[c]
       /\ Top(Main) \in {"unref", "frame hook"} => m_runloop[c] = Threaded
  /\ In(c, {"temporary"}) =>
       gui[c] = 1 /\ ~m_created[c] /\ ~m_editor_frame[c] /\ m_runloop[c] # Frame
  /\ ~In(c, Graphics) => Shown(c) \/ Hidden(c)

GuiInv == Under(Main) # "gui show" /\ \A c \in Comps : GuiAt(c)

\* Sizes, between functions and in the middle of a resize.
Resizing == {"get_size", "check_size_constraint", "on_size"}

SizeAt(c) ==
  /\ width[c] >= 0
  /\ m_created[c] => WidthOf(rect[c]) = width[c] \/ In(c, Resizing)
  /\ In(c, {"check_size_constraint"}) => rect[c].left <= rect[c].right
  /\ on[Main] = c /\ Top(Main) = "on_size" =>
       WidthOf(rect[c]) \in Fitting \/ \A f \in Fitting : f > WidthOf(rect[c])

SizeInv == \A c \in Comps : SizeAt(c)

-----------------------------------------------------------------------------
(***************************************************************************)
(* Where a thread is after a step.                                         *)
(***************************************************************************)
\* Thread t is in function a, which b called; the other one is where it was.
Moves(t, a, b) ==
  /\ stack' \in [Threads -> Seq(Places)] /\ \A u \in Threads : Len(stack'[u]) \in 0..2
  /\ Top(t)' = a /\ Under(t)' = b
  /\ \A u \in Threads \ {t} : Top(u)' = Top(u) /\ Under(u)' = Under(u)

LEMMA MovesBy ==
  ASSUME TypeOK, NEW t \in Threads, NEW s \in Seq(Places), NEW a, NEW b,
         \/ Len(s) = 0 /\ a = "idle" /\ b = "idle"
         \/ Len(s) = 1 /\ a = s[1] /\ b = "idle"
         \/ Len(s) = 2 /\ a = s[1] /\ b = s[2],
         stack' = [stack EXCEPT ![t] = s]
  PROVE  Moves(t, a, b)
  <1>1. stack'[t] = s /\ \A u \in Threads \ {t} : stack'[u] = stack[u]
    BY DEF TypeOK, ThreadTypes
  <1>0. stack \in [Threads -> Seq(Places)] /\ \A u \in Threads : Len(stack[u]) \in 0..2
    BY DEF TypeOK, ThreadTypes
  <1>2. stack' \in [Threads -> Seq(Places)]
    BY <1>0
  <1>6. \A u \in Threads : Len(stack'[u]) \in 0..2
    <2>0. Len(s) = 0 \/ Len(s) = 1 \/ Len(s) = 2
      OBVIOUS
    <2>1. Len(stack'[t]) \in 0..2
      BY <1>1, <2>0
    <2> QED
      BY <1>0, <1>1, <2>1
  <1>3. s = << >> <=> Len(s) = 0
    BY EmptySeq
  <1>4. Top(t)' = a /\ Under(t)' = b
    BY <1>1, <1>3 DEF Top, Under, Idle
  <1>5. \A u \in Threads \ {t} : Top(u)' = Top(u) /\ Under(u)' = Under(u)
    BY <1>1 DEF Top, Under, Idle
  <1> QED
    BY <1>2, <1>4, <1>5, <1>6 DEF Moves

\* Stacks of one and of two functions.
LEMMA One ==
  ASSUME NEW S, NEW a \in S
  PROVE  /\ <<a>> \in Seq(S) /\ Len(<<a>>) = 1 /\ <<a>>[1] = a
         /\ Tail(<<a>>) \in Seq(S) /\ Len(Tail(<<a>>)) = 0
  OBVIOUS

LEMMA Two ==
  ASSUME NEW S, NEW a \in S, NEW b \in S
  PROVE  /\ <<a, b>> \in Seq(S) /\ Len(<<a, b>>) = 2 /\ <<a, b>>[1] = a /\ <<a, b>>[2] = b
         /\ Tail(<<a, b>>) \in Seq(S) /\ Len(Tail(<<a, b>>)) = 1 /\ Tail(<<a, b>>)[1] = b
  OBVIOUS

LEMMA Pushed ==
  ASSUME NEW S, NEW a \in S, NEW s \in Seq(S)
  PROVE  /\ <<a>> \o s \in Seq(S) /\ Len(<<a>> \o s) = Len(s) + 1
         /\ (<<a>> \o s)[1] = a
         /\ \A i \in 1 .. Len(s) : (<<a>> \o s)[i + 1] = s[i]
  <1>1. <<a>> \in Seq(S) /\ Len(<<a>>) = 1 /\ <<a>>[1] = a
    OBVIOUS
  <1> QED
    BY <1>1, ConcatProperties

\* A thread in a function has that on its stack, and at most one below it.
LEMMA AtTop ==
  ASSUME TypeOK, NEW t \in Threads, NEW a, At(t, a)
  PROVE  /\ Top(t) = a /\ a \in Places
         /\ \/ Len(stack[t]) = 1 /\ Under(t) = "idle"
            \/ Len(stack[t]) = 2 /\ Under(t) = stack[t][2] /\ Under(t) \in Places
         /\ stack[t][1] = a
  <1>1. stack[t] \in Seq(Places) /\ stack[t] # << >> /\ Len(stack[t]) \in 0..2 /\ stack[t][1] = a
    BY DEF TypeOK, ThreadTypes, At
  <1>2. Len(stack[t]) # 0 /\ Len(stack[t]) \in 0..2
    BY <1>1, EmptySeq
  <1>3. Len(stack[t]) = 1 \/ Len(stack[t]) = 2
    BY <1>2
  <1>4. a \in Places /\ (Len(stack[t]) = 2 => stack[t][2] \in Places)
    BY <1>1, <1>3
  <1> QED
    BY <1>1, <1>3, <1>4 DEF Top, Under, Idle

LEMMA NoIdlePlace == "idle" \notin Places
  BY DEF Places, Alone, Hooked, Loopings

LEMMA EnterOne ==
  ASSUME TypeOK, NEW t \in Threads, NEW c, NEW a \in Places, Enters(t, c, <<a>>)
  PROVE  Moves(t, a, "idle") /\ on' = [on EXCEPT ![t] = c]
  <1>1. stack' = [stack EXCEPT ![t] = <<a>>] /\ on' = [on EXCEPT ![t] = c]
    BY DEF Enters
  <1> QED
    BY <1>1, One, MovesBy

LEMMA EnterTwo ==
  ASSUME TypeOK, NEW t \in Threads, NEW c, NEW a \in Places, NEW b \in Places,
         Enters(t, c, <<a, b>>)
  PROVE  Moves(t, a, b) /\ on' = [on EXCEPT ![t] = c]
  <1>1. stack' = [stack EXCEPT ![t] = <<a, b>>] /\ on' = [on EXCEPT ![t] = c]
    BY DEF Enters
  <1> QED
    BY <1>1, Two, MovesBy

LEMMA Called ==
  ASSUME TypeOK, NEW a, At(Main, a), Under(Main) = "idle", NEW b \in Places, Calls(b)
  PROVE  Moves(Main, b, a) /\ on' = on
  <1> DEFINE s == <<b>> \o stack[Main]
  <1>1. stack' = [stack EXCEPT ![Main] = s] /\ on' = on
    BY DEF Calls
  <1>2. Main \in Threads /\ stack[Main] \in Seq(Places)
    BY DEF Threads, TypeOK, ThreadTypes
  <1>3. Len(stack[Main]) = 1 /\ stack[Main][1] = a
    BY <1>2, AtTop, NoIdlePlace
  <1>4. s \in Seq(Places) /\ Len(s) = 2 /\ s[1] = b /\ s[2] = a
    BY <1>2, <1>3, Pushed
  <1> HIDE DEF s
  <1> QED
    BY <1>1, <1>2, <1>4, MovesBy

LEMMA TailOf ==
  ASSUME TypeOK, NEW t \in Threads, NEW a, At(t, a)
  PROVE  /\ Tail(stack[t]) \in Seq(Places)
         /\ \/ Len(stack[t]) = 1 /\ Len(Tail(stack[t])) = 0 /\ Under(t) = "idle"
            \/ /\ Len(stack[t]) = 2 /\ Len(Tail(stack[t])) = 1
               /\ Tail(stack[t])[1] = Under(t) /\ Under(t) \in Places
  <1>1. stack[t] \in Seq(Places) /\ stack[t] # << >>
    BY DEF TypeOK, ThreadTypes, At
  <1>2. /\ Tail(stack[t]) \in Seq(Places) /\ Len(Tail(stack[t])) = Len(stack[t]) - 1
        /\ \A i \in 1 .. Len(stack[t]) - 1 : Tail(stack[t])[i] = stack[t][i + 1]
    BY <1>1, HeadTailProperties
  <1> QED
    BY <1>2, AtTop

LEMMA GoesOnOne ==
  ASSUME TypeOK, NEW t \in Threads, NEW a, At(t, a), NEW b \in Places, GoesOn(t, <<b>>)
  PROVE  Moves(t, b, Under(t)) /\ on' = on
  <1> DEFINE s == <<b>> \o Tail(stack[t])
  <1>1. stack' = [stack EXCEPT ![t] = s] /\ on' = on
    BY DEF GoesOn, TypeOK, ThreadTypes
  <1>3. /\ s \in Seq(Places) /\ Len(s) = Len(Tail(stack[t])) + 1 /\ s[1] = b
        /\ \A i \in 1 .. Len(Tail(stack[t])) : s[i + 1] = Tail(stack[t])[i]
    BY TailOf, Pushed
  <1>2. \/ Len(s) = 1 /\ Under(t) = "idle"
        \/ Len(s) = 2 /\ s[2] = Under(t)
    <2>1. CASE Len(Tail(stack[t])) = 0 /\ Under(t) = "idle"
      BY <1>3, <2>1
    <2>2. CASE Len(Tail(stack[t])) = 1 /\ Tail(stack[t])[1] = Under(t)
      <3>1. 1 \in 1 .. Len(Tail(stack[t])) /\ 1 + 1 = 2
        BY <2>2
      <3> QED
        BY <1>3, <2>2, <3>1
    <2> QED
      BY <2>1, <2>2, TailOf
  <1> HIDE DEF s
  <1> QED
    BY <1>1, <1>2, <1>3, MovesBy

LEMMA GoesOnTwo ==
  ASSUME TypeOK, NEW t \in Threads, NEW a, At(t, a), Under(t) = "idle",
         NEW b \in Places, NEW d \in Places, GoesOn(t, <<b, d>>)
  PROVE  Moves(t, b, d) /\ on' = on
  <1> DEFINE s == <<b, d>> \o Tail(stack[t])
  <1>1. stack' = [stack EXCEPT ![t] = s] /\ on' = on
    BY DEF GoesOn, TypeOK, ThreadTypes
  <1>2. Tail(stack[t]) \in Seq(Places) /\ Len(Tail(stack[t])) = 0
    BY TailOf, NoIdlePlace
  <1>4. <<b, d>> \in Seq(Places) /\ Len(<<b, d>>) = 2 /\ <<b, d>>[1] = b /\ <<b, d>>[2] = d
    BY Two
  <1>5. s = <<b, d>>
    BY <1>2, <1>4, EmptySeq, ConcatEmptySeq
  <1>3. s \in Seq(Places) /\ Len(s) = 2 /\ s[1] = b /\ s[2] = d
    BY <1>4, <1>5
  <1> HIDE DEF s
  <1> QED
    BY <1>1, <1>3, MovesBy

LEMMA Returned ==
  ASSUME TypeOK, NEW t \in Threads, NEW a, At(t, a), Returns(t)
  PROVE  /\ Moves(t, Under(t), "idle")
         /\ on' = IF Under(t) = "idle" THEN [on EXCEPT ![t] = None] ELSE on
  <1> DEFINE s == Tail(stack[t])
  <1>1. stack' = [stack EXCEPT ![t] = s]
    BY DEF Returns, TypeOK, ThreadTypes
  <1>2. Len(stack[t]) = 1 <=> Under(t) = "idle"
    BY AtTop, NoIdlePlace
  <1>3. on' = IF Under(t) = "idle" THEN [on EXCEPT ![t] = None] ELSE on
    BY <1>2 DEF Returns
  <1>4. /\ s \in Seq(Places)
        /\ \/ Len(s) = 0 /\ Under(t) = "idle"
           \/ Len(s) = 1 /\ s[1] = Under(t)
    BY TailOf
  <1> HIDE DEF s
  <1> QED
    BY <1>1, <1>3, <1>4, MovesBy

\* Thread t begins, goes on, or is done with the function at the top.
Begins(t, c, a, b) ==
  Top(t) = "idle" /\ on[t] = None /\ Moves(t, a, b) /\ on' = [on EXCEPT ![t] = c]
Passes(t, a, b) == Top(t) = a /\ on[t] # None /\ Moves(t, b, Under(t)) /\ UNCHANGED on
Ends(t, a) ==
  /\ Top(t) = a /\ on[t] # None /\ Moves(t, Under(t), "idle")
  /\ on' = IF Under(t) = "idle" THEN [on EXCEPT ![t] = None] ELSE on
Turns(t, a, b, d) ==
  Top(t) = a /\ Under(t) = "idle" /\ on[t] # None /\ Moves(t, b, d) /\ UNCHANGED on
Stays(t) == Top(t)' = Top(t) /\ Under(t)' = Under(t) /\ on'[t] = on[t]

LEMMA BeginsOne ==
  ASSUME TypeOK, StackInv, NEW t \in Threads, Idle(t), NEW c, NEW a \in Places,
         Enters(t, c, <<a>>)
  PROVE  Begins(t, c, a, "idle")
  BY EnterOne DEF Begins, StackInv, Top

LEMMA BeginsTwo ==
  ASSUME TypeOK, StackInv, NEW t \in Threads, Idle(t), NEW c, NEW a \in Places,
         NEW b \in Places, Enters(t, c, <<a, b>>)
  PROVE  Begins(t, c, a, b)
  BY EnterTwo DEF Begins, StackInv, Top

LEMMA PassesOne ==
  ASSUME TypeOK, StackInv, NEW t \in Threads, NEW a, At(t, a), NEW b \in Places,
         GoesOn(t, <<b>>)
  PROVE  Passes(t, a, b)
  BY GoesOnOne, AtTop, NoIdlePlace DEF Passes, StackInv

LEMMA EndsOne ==
  ASSUME TypeOK, StackInv, NEW t \in Threads, NEW a, At(t, a), Returns(t)
  PROVE  Ends(t, a)
  BY Returned, AtTop, NoIdlePlace DEF Ends, StackInv

LEMMA StaysAll ==
  ASSUME TypeOK, UNCHANGED <<stack, on>>
  PROVE  /\ stack' \in [Threads -> Seq(Places)] /\ \A t \in Threads : Len(stack'[t]) \in 0..2
         /\ \A t \in Threads : Stays(t)
  BY DEF TypeOK, ThreadTypes, Stays, Top, Under, Idle

LEMMA MainAt == ASSUME TypeOK, NEW a, At(Main, a) PROVE Top(Main) = a /\ a # "idle"
  BY AtTop, NoIdlePlace DEF Threads

\* What the functions do to the threads.
LEMMA Positions ==
  ASSUME TypeOK, StackInv
  PROVE  /\ \A c : create_instance(c) => Begins(Main, c, "create_instance", "idle")
         /\ \A ok : InitPlugin(ok) => Ends(Main, "create_instance")
         /\ \A t \in Threads : DestroyPlugin(t) => Passes(t, "delete", "members")
         /\ \A t \in Threads : DestroyMembers(t) => Ends(t, "members")
         /\ TakeInstance => Passes(Main, "instance", "set_run_loop")
         /\ SwitchToInstance => Passes(Main, "set_run_loop", "unref")
         /\ DropInstance => Ends(Main, "unref")
         /\ \A c, x : initialize(c, x) => Begins(Main, c, "instance", "initialize")
         /\ initialize_done => Ends(Main, "initialize")
         /\ terminate_loop => Passes(Main, "terminate", "terminated")
         /\ terminate_done => Ends(Main, "terminated")
         /\ DeleteHookDone => Ends(Main, "delete hook")
         /\ \A c : attached(c) => Begins(Main, c, "gui create", "idle")
         /\ \A w : GuiCreated(w) => Passes(Main, "gui create", "gui show")
         /\ attached_done => Passes(Main, "gui show", "get_size")
         /\ \A c : removed(c) => Begins(Main, c, "instance", "frame hook")
         /\ FrameHookDone => Ends(Main, "frame hook")
         /\ SizeOfGui => Ends(Main, "get_size")
         /\ \A w : TemporaryGui(w) => Passes(Main, "get_size", "temporary")
         /\ NoTemporaryGui => Ends(Main, "get_size")
         /\ TemporarySize => Ends(Main, "temporary")
         /\ \A c, l, w : Drag(c, l, w) => Begins(Main, c, "check_size_constraint", "on_size")
         /\ \A c, w : request_resize(c, w) => Begins(Main, c, "on_size", "idle")
         /\ check_size_constraint => Ends(Main, "check_size_constraint")
         /\ GuiRefused => Turns(Main, "gui create", "instance", "frame hook")
         /\ \A c : get_size(c) => \/ Begins(Main, c, "get_size", "idle")
                                  \/ Turns(Main, "gui show", "get_size", "gui show")
         /\ on_size => Ends(Main, "on_size") \/ Passes(Main, "on_size", "get_size")
  <1> USE DEF Threads, Places, Alone, Hooked, Loopings
  <1>1. ASSUME NEW c, create_instance(c)
        PROVE  Begins(Main, c, "create_instance", "idle")
    BY <1>1, BeginsOne DEF create_instance
  <1>2. ASSUME NEW ok, InitPlugin(ok)
        PROVE  Ends(Main, "create_instance")
    BY <1>2, EndsOne DEF InitPlugin
  <1>3. ASSUME NEW t \in Threads, DestroyPlugin(t)
        PROVE  Passes(t, "delete", "members")
    BY <1>3, PassesOne DEF DestroyPlugin
  <1>4. ASSUME NEW t \in Threads, DestroyMembers(t)
        PROVE  Ends(t, "members")
    BY <1>4, EndsOne DEF DestroyMembers
  <1>5. ASSUME TakeInstance PROVE Passes(Main, "instance", "set_run_loop")
    BY <1>5, PassesOne DEF TakeInstance
  <1>6. ASSUME SwitchToInstance PROVE Passes(Main, "set_run_loop", "unref")
    BY <1>6, PassesOne DEF SwitchToInstance
  <1>7. ASSUME DropInstance PROVE Ends(Main, "unref")
    BY <1>7, EndsOne DEF DropInstance
  <1>8. ASSUME NEW c, NEW x, initialize(c, x)
        PROVE  Begins(Main, c, "instance", "initialize")
    BY <1>8, BeginsTwo DEF initialize
  <1>9. ASSUME initialize_done PROVE Ends(Main, "initialize")
    BY <1>9, EndsOne DEF initialize_done
  <1>10. ASSUME terminate_loop PROVE Passes(Main, "terminate", "terminated")
    BY <1>10, PassesOne DEF terminate_loop
  <1>11. ASSUME terminate_done PROVE Ends(Main, "terminated")
    BY <1>11, EndsOne DEF terminate_done
  <1>12. ASSUME DeleteHookDone PROVE Ends(Main, "delete hook")
    BY <1>12, EndsOne DEF DeleteHookDone
  <1>13. ASSUME NEW c, attached(c)
         PROVE  Begins(Main, c, "gui create", "idle")
    BY <1>13, BeginsOne DEF attached
  <1>14. ASSUME NEW w, GuiCreated(w)
         PROVE  Passes(Main, "gui create", "gui show")
    BY <1>14, PassesOne DEF GuiCreated
  <1>15. ASSUME attached_done PROVE Passes(Main, "gui show", "get_size")
    BY <1>15, PassesOne DEF attached_done
  <1>16. ASSUME NEW c, removed(c)
         PROVE  Begins(Main, c, "instance", "frame hook")
    BY <1>16, BeginsTwo DEF removed
  <1>17. ASSUME FrameHookDone PROVE Ends(Main, "frame hook")
    BY <1>17, EndsOne DEF FrameHookDone
  <1>18. ASSUME SizeOfGui PROVE Ends(Main, "get_size")
    BY <1>18, EndsOne DEF SizeOfGui
  <1>19. ASSUME NEW w, TemporaryGui(w)
         PROVE  Passes(Main, "get_size", "temporary")
    BY <1>19, PassesOne DEF TemporaryGui
  <1>20. ASSUME NoTemporaryGui PROVE Ends(Main, "get_size")
    BY <1>20, EndsOne DEF NoTemporaryGui
  <1>21. ASSUME TemporarySize PROVE Ends(Main, "temporary")
    BY <1>21, EndsOne DEF TemporarySize
  <1>22. ASSUME NEW c, NEW l, NEW w, Drag(c, l, w)
         PROVE  Begins(Main, c, "check_size_constraint", "on_size")
    BY <1>22, BeginsTwo DEF Drag
  <1>23. ASSUME NEW c, NEW w, request_resize(c, w)
         PROVE  Begins(Main, c, "on_size", "idle")
    BY <1>23, BeginsOne DEF request_resize
  <1>24. ASSUME check_size_constraint PROVE Ends(Main, "check_size_constraint")
    BY <1>24, EndsOne DEF check_size_constraint
  <1>25. ASSUME GuiRefused PROVE Turns(Main, "gui create", "instance", "frame hook")
    <2>1. At(Main, "gui create") /\ GoesOn(Main, <<"instance", "frame hook">>)
      BY <1>25 DEF GuiRefused
    <2>3. Top(Main) = "gui create"
      BY <2>1, AtTop
    <2>2. Under(Main) = "idle" /\ on[Main] # None
      BY <2>3 DEF StackInv
    <2> QED
      BY <2>1, <2>2, <2>3, GoesOnTwo DEF Turns
  <1>26. ASSUME NEW c, get_size(c)
         PROVE  \/ Begins(Main, c, "get_size", "idle")
                \/ Turns(Main, "gui show", "get_size", "gui show")
    <2>1. CASE Idle(Main) /\ Enters(Main, c, <<"get_size">>)
      BY <2>1, BeginsOne
    <2>2. CASE At(Main, "gui show") /\ Calls("get_size")
      <3>1. Top(Main) = "gui show"
        BY <2>2, AtTop
      <3>2. Under(Main) = "idle" /\ on[Main] # None
        BY <3>1 DEF StackInv
      <3> QED
        BY <2>2, <3>1, <3>2, Called DEF Turns
    <2> QED
      BY <1>26, <2>1, <2>2 DEF get_size
  <1>27. ASSUME on_size PROVE Ends(Main, "on_size") \/ Passes(Main, "on_size", "get_size")
    <2>1. At(Main, "on_size") /\ (Returns(Main) \/ GoesOn(Main, <<"get_size">>))
      BY <1>27 DEF on_size
    <2> QED
      BY <2>1, EndsOne, PassesOne
  <1> QED
    BY <1>1, <1>2, <1>3, <1>4, <1>5, <1>6, <1>7, <1>8, <1>9, <1>10, <1>11, <1>12, <1>13, <1>14, <1>15, <1>16, <1>17, <1>18, <1>19, <1>20, <1>21, <1>22, <1>23, <1>24, <1>25, <1>26, <1>27

LEMMA PositionsOfRefs ==
  ASSUME TypeOK, StackInv, NEW c \in Comps
  PROVE  /\ \A t \in Threads, f \in Faces :
              unref(t, c, f) => \/ m_refcnt[c] = 1 /\ Begins(t, c, "delete", "idle")
                                \/ m_refcnt[c] # 1 /\ UNCHANGED <<stack, on>>
         /\ \A v \in Views :
              view_unref(c, v) =>
                \/ view_refcnt[c] = 1 /\ Begins(Main, c, "instance", "delete hook")
                \/ view_refcnt[c] # 1 /\ UNCHANGED <<stack, on>>
         /\ terminate(c) /\ ~m_editor[c] => Begins(Main, c, "terminate", "idle")
  <1> USE DEF Threads, Places, Alone, Hooked, Loopings
  <1>1. ASSUME NEW t \in Threads, NEW f \in Faces, unref(t, c, f)
        PROVE  \/ m_refcnt[c] = 1 /\ Begins(t, c, "delete", "idle")
               \/ m_refcnt[c] # 1 /\ UNCHANGED <<stack, on>>
    BY <1>1, BeginsOne DEF unref
  <1>2. ASSUME NEW v \in Views, view_unref(c, v)
        PROVE  \/ view_refcnt[c] = 1 /\ Begins(Main, c, "instance", "delete hook")
               \/ view_refcnt[c] # 1 /\ UNCHANGED <<stack, on>>
    BY <1>2, BeginsTwo DEF view_unref
  <1>3. ASSUME terminate(c), ~m_editor[c] PROVE Begins(Main, c, "terminate", "idle")
    BY <1>3, BeginsOne DEF terminate
  <1> QED
    BY <1>1, <1>2, <1>3

-----------------------------------------------------------------------------
(***************************************************************************)
(* The types, and where threads are.                                       *)
(***************************************************************************)
LEMMA Holding ==
  ASSUME TypeOK, NEW c \in Comps
  PROVE  /\ References(c) \in Nat /\ ViewReferences(c) \in Nat
         /\ \A f \in Interfaces : host_refs[c][f] \in Nat /\ host_refs[c][f] <= References(c)
         /\ \A v \in Views : view_refs[c][v] \in Nat /\ view_refs[c][v] <= ViewReferences(c)
  <1>1. host_refs[c] \in [Interfaces -> Nat] /\ view_refs[c] \in [Views -> Nat]
    BY DEF TypeOK, ComponentTypes, EditorTypes
  <1>2. /\ {Component, AudioProcessor, EditController, UnitInformation, ContextRequired} = Interfaces
        /\ {View, ContentScale} = Views
    BY DEF Interfaces, Views
  <1> QED
    BY <1>1, <1>2 DEF References, ViewReferences

\* What the host holds is not being destroyed, so that Audio is not in it.
LEMMA NotInAudio ==
  ASSUME TypeOK, StackInv, LifeInv, NEW c \in Comps, HostHolds(c)
  PROVE  on[Audio] # c
  <1>1. on[Audio] = c => Top(Audio) # "idle"
    BY LifetimesAssumption DEF StackInv, Threads
  <1> QED
    BY <1>1 DEF StackInv, LifeInv, LifeAt, Deleting, Threads

\* Who writes what: all other steps leave it alone.
LEMMA Writers ==
  ASSUME Next
  PROVE  /\ UNCHANGED plug \/ (\E c \in Comps : create_instance(c))
            \/ (\E ok \in BOOLEAN : InitPlugin(ok)) \/ (\E t \in Threads : DestroyPlugin(t))
         /\ UNCHANGED counts \/ (\E ok \in BOOLEAN : InitPlugin(ok))
            \/ (\E c \in Comps, f \in Faces : query_interface(c, f))
            \/ (\E c \in Comps, f \in Faces, t \in Threads : unref(t, c, f))
         /\ UNCHANGED <<m_initialized, m_context>> \/ (\E t \in Threads : DestroyMembers(t))
            \/ (\E c \in Comps, x \in Contexts \cup {None} : initialize(c, x)) \/ initialize_done
            \/ terminate_done
         /\ UNCHANGED <<factory, held>> \/ ModuleEntry \/ ModuleExit
            \/ (\E x \in Contexts \cup {None} : set_host_context(x))
            \/ (\E c \in Comps, x \in Contexts \cup {None} : initialize(c, x)) \/ terminate_done
         /\ UNCHANGED loops \/ (\E t \in Threads : DestroyMembers(t)) \/ TakeInstance
            \/ SwitchToInstance \/ DropInstance \/ terminate_loop
            \/ (\E c \in Comps : attached(c))
         /\ UNCHANGED running \/ (\E c \in Comps : LoopCalls(c)) \/ LoopReturns
         /\ UNCHANGED viewed \/ (\E t \in Threads : DestroyMembers(t))
            \/ (\E c \in Comps : terminate(c)) \/ (\E c \in Comps : create_view(c))
            \/ (\E c \in Comps, v \in Views : view_query_interface(c, v))
            \/ (\E c \in Comps, v \in Views : view_unref(c, v)) \/ DeleteHookDone
         /\ UNCHANGED <<m_created, m_editor_frame, gui>> \/ (\E t \in Threads : DestroyMembers(t))
            \/ DeleteHookDone \/ (\E c \in Comps : attached(c))
            \/ (\E w \in Fitting : GuiCreated(w)) \/ GuiRefused \/ attached_done
            \/ (\E c \in Comps : removed(c)) \/ FrameHookDone
            \/ (\E w \in Fitting : TemporaryGui(w)) \/ TemporarySize
         /\ UNCHANGED <<width, rect>> \/ (\E w \in Fitting : GuiCreated(w)) \/ SizeOfGui
            \/ (\E w \in Fitting : TemporaryGui(w)) \/ NoTemporaryGui \/ TemporarySize
            \/ (\E c \in Comps, l \in Lefts, w \in Widths : Drag(c, l, w))
            \/ (\E c \in Comps, w \in Fitting : request_resize(c, w)) \/ check_size_constraint
            \/ on_size
  <1> USE DEF Next, ModuleSteps, ComponentSteps, LoopSteps, EditorSteps, factory, counts, loops, viewed, shown
  <1>1. UNCHANGED plug \/ (\E c \in Comps : create_instance(c))
         \/ (\E ok \in BOOLEAN : InitPlugin(ok)) \/ (\E t \in Threads : DestroyPlugin(t))
    BY DEF ModuleEntry, ModuleExit, set_host_context, terminate, query_interface, unref, DestroyMembers, initialize, initialize_done, terminate_loop, terminate_done, LoopCalls, LoopReturns, TakeInstance, SwitchToInstance, DropInstance, create_view, attached, removed, get_size, view_query_interface, view_unref, DeleteHookDone, FrameHookDone, GuiCreated, TemporaryGui, GuiRefused, attached_done, SizeOfGui, NoTemporaryGui, TemporarySize, request_resize, Drag, check_size_constraint, on_size
  <1>2. UNCHANGED counts \/ (\E ok \in BOOLEAN : InitPlugin(ok))
         \/ (\E c \in Comps, f \in Faces : query_interface(c, f))
         \/ (\E c \in Comps, f \in Faces, t \in Threads : unref(t, c, f))
    BY DEF ModuleEntry, ModuleExit, set_host_context, create_instance, terminate, DestroyPlugin, DestroyMembers, initialize, initialize_done, terminate_loop, terminate_done, LoopCalls, LoopReturns, TakeInstance, SwitchToInstance, DropInstance, create_view, attached, removed, get_size, view_query_interface, view_unref, DeleteHookDone, FrameHookDone, GuiCreated, TemporaryGui, GuiRefused, attached_done, SizeOfGui, NoTemporaryGui, TemporarySize, request_resize, Drag, check_size_constraint, on_size
  <1>3. UNCHANGED <<m_initialized, m_context>> \/ (\E t \in Threads : DestroyMembers(t))
         \/ (\E c \in Comps, x \in Contexts \cup {None} : initialize(c, x)) \/ initialize_done
         \/ terminate_done
    BY DEF ModuleEntry, ModuleExit, set_host_context, create_instance, terminate, InitPlugin, query_interface, unref, DestroyPlugin, terminate_loop, LoopCalls, LoopReturns, TakeInstance, SwitchToInstance, DropInstance, create_view, attached, removed, get_size, view_query_interface, view_unref, DeleteHookDone, FrameHookDone, GuiCreated, TemporaryGui, GuiRefused, attached_done, SizeOfGui, NoTemporaryGui, TemporarySize, request_resize, Drag, check_size_constraint, on_size
  <1>4. UNCHANGED <<factory, held>> \/ ModuleEntry \/ ModuleExit
         \/ (\E x \in Contexts \cup {None} : set_host_context(x))
         \/ (\E c \in Comps, x \in Contexts \cup {None} : initialize(c, x)) \/ terminate_done
    <2>1. CASE ModuleSteps
      BY <2>1
    <2>2. CASE ComponentSteps
      BY <2>2 DEF create_instance, terminate, InitPlugin, query_interface, unref, DestroyPlugin, DestroyMembers, initialize_done, terminate_loop
    <2>3. CASE LoopSteps
      BY <2>3 DEF LoopCalls, LoopReturns, TakeInstance, SwitchToInstance, DropInstance
    <2>4. CASE EditorSteps
      BY <2>4 DEF create_view, attached, removed, get_size, view_query_interface, view_unref, DeleteHookDone, FrameHookDone, GuiCreated, TemporaryGui, GuiRefused, attached_done, SizeOfGui, NoTemporaryGui, TemporarySize, request_resize, Drag, check_size_constraint, on_size
    <2> QED
      BY <2>1, <2>2, <2>3, <2>4
  <1>5. UNCHANGED loops \/ (\E t \in Threads : DestroyMembers(t)) \/ TakeInstance
         \/ SwitchToInstance \/ DropInstance \/ terminate_loop \/ (\E c \in Comps : attached(c))
    <2>1. CASE ModuleSteps
      BY <2>1 DEF ModuleEntry, ModuleExit, set_host_context
    <2>2. CASE ComponentSteps
      BY <2>2 DEF create_instance, terminate, InitPlugin, query_interface, unref, DestroyPlugin, initialize, initialize_done, terminate_done
    <2>3. CASE LoopSteps
      BY <2>3 DEF LoopCalls, LoopReturns
    <2>4. CASE EditorSteps
      BY <2>4 DEF create_view, removed, get_size, view_query_interface, view_unref, DeleteHookDone, FrameHookDone, GuiCreated, TemporaryGui, GuiRefused, attached_done, SizeOfGui, NoTemporaryGui, TemporarySize, request_resize, Drag, check_size_constraint, on_size
    <2> QED
      BY <2>1, <2>2, <2>3, <2>4
  <1>6. UNCHANGED running \/ (\E c \in Comps : LoopCalls(c)) \/ LoopReturns
    BY DEF ModuleEntry, ModuleExit, set_host_context, create_instance, terminate, InitPlugin, query_interface, unref, DestroyPlugin, DestroyMembers, initialize, initialize_done, terminate_loop, terminate_done, TakeInstance, SwitchToInstance, DropInstance, create_view, attached, removed, get_size, view_query_interface, view_unref, DeleteHookDone, FrameHookDone, GuiCreated, TemporaryGui, GuiRefused, attached_done, SizeOfGui, NoTemporaryGui, TemporarySize, request_resize, Drag, check_size_constraint, on_size
  <1>7. UNCHANGED viewed \/ (\E t \in Threads : DestroyMembers(t))
         \/ (\E c \in Comps : terminate(c)) \/ (\E c \in Comps : create_view(c))
         \/ (\E c \in Comps, v \in Views : view_query_interface(c, v))
         \/ (\E c \in Comps, v \in Views : view_unref(c, v)) \/ DeleteHookDone
    BY DEF ModuleEntry, ModuleExit, set_host_context, create_instance, InitPlugin, query_interface, unref, DestroyPlugin, initialize, initialize_done, terminate_loop, terminate_done, LoopCalls, LoopReturns, TakeInstance, SwitchToInstance, DropInstance, attached, removed, get_size, FrameHookDone, GuiCreated, TemporaryGui, GuiRefused, attached_done, SizeOfGui, NoTemporaryGui, TemporarySize, request_resize, Drag, check_size_constraint, on_size
  <1>8. UNCHANGED <<m_created, m_editor_frame, gui>> \/ (\E t \in Threads : DestroyMembers(t))
         \/ DeleteHookDone \/ (\E c \in Comps : attached(c)) \/ (\E w \in Fitting : GuiCreated(w))
         \/ GuiRefused \/ attached_done \/ (\E c \in Comps : removed(c)) \/ FrameHookDone
         \/ (\E w \in Fitting : TemporaryGui(w)) \/ TemporarySize
    <2>1. CASE ModuleSteps
      BY <2>1 DEF ModuleEntry, ModuleExit, set_host_context
    <2>2. CASE ComponentSteps
      BY <2>2 DEF create_instance, terminate, InitPlugin, query_interface, unref, DestroyPlugin, initialize, initialize_done, terminate_loop, terminate_done
    <2>3. CASE LoopSteps
      BY <2>3 DEF LoopCalls, LoopReturns, TakeInstance, SwitchToInstance, DropInstance
    <2>4. CASE EditorSteps
      BY <2>4 DEF create_view, get_size, view_query_interface, view_unref, SizeOfGui, NoTemporaryGui, request_resize, Drag, check_size_constraint, on_size
    <2> QED
      BY <2>1, <2>2, <2>3, <2>4
  <1>9. UNCHANGED <<width, rect>> \/ (\E w \in Fitting : GuiCreated(w)) \/ SizeOfGui
         \/ (\E w \in Fitting : TemporaryGui(w)) \/ NoTemporaryGui \/ TemporarySize
         \/ (\E c \in Comps, l \in Lefts, w \in Widths : Drag(c, l, w))
         \/ (\E c \in Comps, w \in Fitting : request_resize(c, w)) \/ check_size_constraint
         \/ on_size
    BY DEF ModuleEntry, ModuleExit, set_host_context, create_instance, terminate, InitPlugin, query_interface, unref, DestroyPlugin, DestroyMembers, initialize, initialize_done, terminate_loop, terminate_done, LoopCalls, LoopReturns, TakeInstance, SwitchToInstance, DropInstance, create_view, attached, removed, get_size, view_query_interface, view_unref, DeleteHookDone, FrameHookDone, GuiRefused, attached_done
  <1> QED
    BY <1>1, <1>2, <1>3, <1>4, <1>5, <1>6, <1>7, <1>8, <1>9

\* A stack stays one of the possible stacks.
MayBe(a, b) ==
  \/ a \in Alone \cup {"idle"} /\ b = "idle"
  \/ a \in Loopings /\ b \in Hooked
  \/ a = "check_size_constraint" /\ b = "on_size"
  \/ a \in {"get_size", "temporary"} /\ b = "gui show"

LEMMA AfterBegins ==
  ASSUME TypeOK, StackInv, NEW t \in Threads, NEW c \in Comps, NEW a \in Places, NEW b,
         Begins(t, c, a, b), \A u \in Threads : on[u] # c,
         MayBe(a, b), t = Audio => a = "delete" /\ b = "idle"
  PROVE  StackInv' /\ ThreadTypes'
  <1>1. ThreadTypes'
    BY DEF Begins, Moves, TypeOK, ThreadTypes
  <1>2. /\ on'[t] = c /\ \A u \in Threads \ {t} : on'[u] = on[u]
        /\ Top(t)' = a /\ Under(t)' = b
        /\ \A u \in Threads \ {t} : Top(u)' = Top(u) /\ Under(u)' = Under(u)
    BY DEF Begins, Moves, TypeOK, ThreadTypes
  <1>3. c # None
    BY LifetimesAssumption
  <1>4. \A u \in Threads : Top(u)' = "idle" <=> on'[u] = None
    BY <1>2, <1>3, NoIdlePlace DEF StackInv
  <1>5. on'[Main] # None => on'[Main] # on'[Audio]
    BY <1>2 DEF StackInv, Threads, Main, Audio
  <1>6. CASE t = Audio
    BY <1>1, <1>2, <1>4, <1>5, <1>6 DEF StackInv, Threads
  <1>7. CASE t = Main
    <2>1. Top(Audio)' = Top(Audio) /\ Under(Audio)' = Under(Audio)
      BY <1>2, <1>7 DEF Threads, Main, Audio
    <2> QED
      BY <1>1, <1>2, <1>4, <1>5, <1>7, <2>1 DEF StackInv, MayBe
  <1> QED
    BY <1>6, <1>7 DEF Threads

LEMMA AfterPasses ==
  ASSUME TypeOK, StackInv, NEW t \in Threads, NEW a, NEW b \in Places, Passes(t, a, b),
         IF t = Audio THEN b = "members" ELSE MayBe(b, Under(t))
  PROVE  StackInv' /\ ThreadTypes'
  <1>1. ThreadTypes'
    BY DEF Passes, Moves, TypeOK, ThreadTypes
  <1>2. /\ on' = on /\ on[t] # None
        /\ Top(t)' = b /\ Under(t)' = Under(t)
        /\ \A u \in Threads \ {t} : Top(u)' = Top(u) /\ Under(u)' = Under(u)
    BY DEF Passes, Moves
  <1> QED
    BY <1>1, <1>2, NoIdlePlace DEF StackInv, Threads, MayBe

LEMMA AfterTurns ==
  ASSUME TypeOK, StackInv, NEW a, NEW b \in Places, NEW d, Turns(Main, a, b, d), MayBe(b, d)
  PROVE  StackInv' /\ ThreadTypes'
  <1>1. ThreadTypes'
    BY DEF Turns, Moves, TypeOK, ThreadTypes
  <1>2. /\ on' = on /\ on[Main] # None
        /\ Top(Main)' = b /\ Under(Main)' = d
        /\ \A u \in Threads \ {Main} : Top(u)' = Top(u) /\ Under(u)' = Under(u)
    BY DEF Turns, Moves
  <1> QED
    BY <1>1, <1>2, NoIdlePlace DEF StackInv, Threads, MayBe

LEMMA AfterEnds ==
  ASSUME TypeOK, StackInv, NEW t \in Threads, NEW a, Ends(t, a)
  PROVE  StackInv' /\ ThreadTypes'
  <1>1. ThreadTypes'
    BY DEF Ends, Moves, TypeOK, ThreadTypes
  <1>2. /\ on' = IF Under(t) = "idle" THEN [on EXCEPT ![t] = None] ELSE on
        /\ on[t] # None /\ on \in [Threads -> Comps \cup {None}]
        /\ Top(t)' = Under(t) /\ Under(t)' = "idle"
        /\ \A u \in Threads \ {t} : Top(u)' = Top(u) /\ Under(u)' = Under(u)
    BY DEF Ends, Moves, TypeOK, ThreadTypes
  <1>3. CASE t = Audio
    BY <1>1, <1>2, <1>3, NoIdlePlace DEF StackInv, Threads
  <1>4. CASE t = Main
    <2>1. Under(Main) \in Alone \cup {"idle"}
      BY DEF StackInv, Alone, Hooked
    <2>2. \A u \in Threads : Top(u)' = "idle" <=> on'[u] = None
      BY <1>2, <1>4, <2>1, NoIdlePlace DEF StackInv, Threads
    <2>3. on'[Main] # None => on'[Main] # on'[Audio]
      BY <1>2, <1>4 DEF StackInv, Threads
    <2> QED
      BY <1>1, <1>2, <1>4, <2>1, <2>2, <2>3 DEF StackInv, Threads
  <1> QED
    BY <1>3, <1>4 DEF Threads

LEMMA AfterStays ==
  ASSUME TypeOK, StackInv, UNCHANGED <<stack, on>>
  PROVE  StackInv' /\ ThreadTypes'
  BY DEF TypeOK, ThreadTypes, StackInv, Top, Under, Idle

\* A function of Main begins about a component that Audio is not in.
LEMMA BeginsWhere ==
  ASSUME TypeOK, StackInv, NEW c \in Comps, NEW a, NEW b, Begins(Main, c, a, b), on[Audio] # c
  PROVE  \A u \in Threads : on[u] # c
  BY LifetimesAssumption DEF Begins, Threads

\* Who has the component initialized has references to it, and so has who
\* has an editor.
LEMMA Entering ==
  ASSUME TypeOK, StackInv, LifeInv, NEW c \in Comps,
         \/ \E f \in Faces : host_refs[c][f] > 0
         \/ \E v \in Views : view_refs[c][v] > 0
         \/ m_editor[c] /\ Top(Main) = "idle"
  PROVE  HostHolds(c) /\ on[Audio] # c
  <1>1. (\E f \in Faces : host_refs[c][f] > 0) => HostHolds(c)
    BY Holding, LifetimesAssumption DEF HostHolds
  <1>2. (\E v \in Views : view_refs[c][v] > 0) => HostViews(c)
    BY Holding DEF HostViews
  <1>3. m_editor[c] /\ Top(Main) = "idle" => HostViews(c)
    BY DEF LifeInv, LifeAt, In, StackInv, Hooked, Loopings
  <1>4. HostViews(c) => HostHolds(c)
    BY DEF LifeInv, LifeAt
  <1> QED
    BY <1>1, <1>2, <1>3, <1>4, NotInAudio

\* A careful host has no editor in terminate.
LEMMA TerminateAlone ==
  ASSUME CarefulOwner, TypeOK, StackInv, LifeInv, NEW c \in Comps, terminate(c)
  PROVE  ~HostViews(c) /\ ~m_editor[c] /\ Begins(Main, c, "terminate", "idle")
  <1>1. ~HostViews(c) /\ Idle(Main)
    BY DEF terminate, Careful, CarefulOwner
  <1>2. ~m_editor[c]
    BY <1>1 DEF LifeInv, LifeAt, In, StackInv, Hooked, Loopings, Top
  <1> QED
    BY <1>1, <1>2, PositionsOfRefs

LEMMA NextStack ==
  ASSUME CarefulOwner, TypeOK, StackInv, RefsInv, LifeInv, Next
  PROVE  StackInv' /\ ThreadTypes'
  <1> USE DEF MayBe, Places, Alone, Loopings, Hooked
  <1>1. CASE \/ ModuleSteps \/ LoopReturns
             \/ \E c \in Comps : LoopCalls(c) \/ create_view(c)
             \/ \E c \in Comps, f \in Faces : query_interface(c, f)
             \/ \E c \in Comps, v \in Views : view_query_interface(c, v)
    BY <1>1, AfterStays
       DEF ModuleSteps, ModuleEntry, ModuleExit, set_host_context, LoopReturns, LoopCalls,
           create_view, query_interface, view_query_interface
  <1>2. ASSUME NEW c \in Comps, create_instance(c) PROVE StackInv' /\ ThreadTypes'
    BY <1>2, Positions, AfterBegins DEF create_instance, Threads, Main, Audio
  <1>3. ASSUME NEW c \in Comps, terminate(c) PROVE StackInv' /\ ThreadTypes'
    BY <1>3, TerminateAlone, Entering, BeginsWhere, AfterBegins, LifetimesAssumption
       DEF terminate, Threads, Main, Audio
  <1>4. ASSUME NEW c \in Comps, NEW f \in Faces, NEW t \in Threads, unref(t, c, f)
        PROVE  StackInv' /\ ThreadTypes'
    <2>1. CASE m_refcnt[c] = 1 /\ Begins(t, c, "delete", "idle")
      <3>1. References(c) = 1 /\ host_refs[c][f] > 0
        BY <1>4, <2>1 DEF RefsInv, unref
      <3>2. on[Audio] # c /\ on[Main] # c
        BY <1>4, <3>1, Entering DEF unref
      <3> QED
        BY <2>1, <3>2, AfterBegins DEF Threads
    <2> QED
      BY <1>4, <2>1, PositionsOfRefs, AfterStays
  <1>5. ASSUME NEW t \in Threads, DestroyPlugin(t) PROVE StackInv' /\ ThreadTypes'
    <2>1. Passes(t, "delete", "members")
      BY <1>5, Positions
    <2>2. t = Main => Under(t) = "idle"
      BY <2>1 DEF Passes, StackInv
    <2> QED
      BY <2>1, <2>2, AfterPasses DEF Threads
  <1>6. ASSUME NEW t \in Threads, DestroyMembers(t) PROVE StackInv' /\ ThreadTypes'
    BY <1>6, Positions, AfterEnds
  <1>7. ASSUME NEW c \in Comps, NEW x, initialize(c, x) PROVE StackInv' /\ ThreadTypes'
    <2>1. Begins(Main, c, "instance", "initialize") /\ on[Audio] # c
      BY <1>7, Positions, Entering, LifetimesAssumption DEF initialize
    <2> QED
      BY <2>1, BeginsWhere, AfterBegins DEF Threads, Main, Audio
  <1>8. CASE \/ \E ok \in BOOLEAN : InitPlugin(ok)
             \/ initialize_done \/ terminate_done \/ DropInstance \/ DeleteHookDone
             \/ FrameHookDone \/ SizeOfGui \/ NoTemporaryGui \/ TemporarySize
             \/ check_size_constraint
    BY <1>8, Positions, AfterEnds DEF Threads
  <1>9. CASE TakeInstance \/ SwitchToInstance
    <2>1. \E a, b \in Loopings : Passes(Main, a, b)
      BY <1>9, Positions
    <2>2. PICK a, b \in Loopings : Passes(Main, a, b)
      BY <2>1
    <2>3. Under(Main) \in Hooked
      BY <2>2 DEF Passes, StackInv
    <2> QED
      BY <2>2, <2>3, AfterPasses DEF Threads, Main, Audio
  <1>10. ASSUME terminate_loop \/ attached_done \/ \E w \in Fitting : GuiCreated(w) \/ TemporaryGui(w)
         PROVE  StackInv' /\ ThreadTypes'
    <2>1. \/ Passes(Main, "terminate", "terminated") \/ Passes(Main, "gui show", "get_size")
          \/ Passes(Main, "gui create", "gui show") \/ Passes(Main, "get_size", "temporary")
      BY <1>10, Positions
    <2>2. PICK a, b \in Places : Passes(Main, a, b) /\ MayBe(b, Under(Main))
      BY <2>1 DEF Passes, StackInv
    <2> HIDE DEF MayBe
    <2> QED
      BY <2>2, AfterPasses DEF Threads, Main, Audio
  <1>11. ASSUME NEW c \in Comps, attached(c) \/ removed(c) PROVE StackInv' /\ ThreadTypes'
    <2>1. view_refs[c][View] > 0 /\ View \in Views
      BY <1>11 DEF attached, removed, Views
    <2>2. on[Audio] # c
      BY <2>1, Entering
    <2>3. Begins(Main, c, "gui create", "idle") \/ Begins(Main, c, "instance", "frame hook")
      BY <1>11, Positions
    <2> QED
      BY <2>2, <2>3, BeginsWhere, AfterBegins DEF Threads, Main, Audio
  <1>12. ASSUME NEW c \in Comps, get_size(c) PROVE StackInv' /\ ThreadTypes'
    <2>1. CASE Begins(Main, c, "get_size", "idle")
      <3>1. Top(Main) = "idle"
        BY <2>1 DEF Begins
      <3>2. view_refs[c][View] > 0 /\ View \in Views
        BY <1>12, <3>1, MainAt DEF get_size, Views
      <3>3. on[Audio] # c
        BY <3>2, Entering
      <3> QED
        BY <2>1, <3>3, BeginsWhere, AfterBegins DEF Threads, Main, Audio
    <2>2. CASE Turns(Main, "gui show", "get_size", "gui show")
      BY <2>2, AfterTurns
    <2> QED
      BY <1>12, <2>1, <2>2, Positions
  <1>13. CASE GuiRefused
    BY <1>13, Positions, AfterTurns
  <1>14. ASSUME NEW c \in Comps, NEW v \in Views, view_unref(c, v)
         PROVE  StackInv' /\ ThreadTypes'
    <2>1. CASE Begins(Main, c, "instance", "delete hook")
      <3>1. on[Audio] # c
        BY <1>14, Entering DEF view_unref
      <3> QED
        BY <2>1, <3>1, BeginsWhere, AfterBegins DEF Threads, Main, Audio
    <2> QED
      BY <1>14, <2>1, PositionsOfRefs, AfterStays
  <1>15. ASSUME NEW c \in Comps, NEW w, request_resize(c, w) PROVE StackInv' /\ ThreadTypes'
    <2>1. Begins(Main, c, "on_size", "idle") /\ m_editor[c]
      BY <1>15, Positions DEF request_resize
    <2>2. on[Audio] # c
      BY <2>1, Entering DEF Begins
    <2> QED
      BY <2>1, <2>2, BeginsWhere, AfterBegins DEF Threads, Main, Audio
  <1>16. ASSUME NEW c \in Comps, NEW l, NEW w, Drag(c, l, w) PROVE StackInv' /\ ThreadTypes'
    <2>1. Begins(Main, c, "check_size_constraint", "on_size") /\ view_refs[c][View] > 0
      BY <1>16, Positions DEF Drag
    <2>2. on[Audio] # c
      BY <2>1, Entering DEF Views
    <2> QED
      BY <2>1, <2>2, BeginsWhere, AfterBegins DEF Threads, Main, Audio
  <1>17. CASE on_size
    <2>1. CASE Ends(Main, "on_size")
      BY <2>1, AfterEnds DEF Threads
    <2>2. CASE Passes(Main, "on_size", "get_size")
      <3>1. Under(Main) = "idle"
        BY <2>2 DEF Passes, StackInv
      <3> QED
        BY <2>2, <3>1, AfterPasses DEF Threads, Main, Audio
    <2> QED
      BY <1>17, <2>1, <2>2, Positions
  <1> QED
    BY <1>1, <1>2, <1>3, <1>4, <1>5, <1>6, <1>7, <1>8, <1>9, <1>10, <1>11, <1>12, <1>13, <1>14,
       <1>15, <1>16, <1>17 DEF Next, ComponentSteps, LoopSteps, EditorSteps

\* Whoever is in a function is in it about a component.
LEMMA OnComponent ==
  ASSUME TypeOK, StackInv, NEW t \in Threads, Top(t) # "idle"
  PROVE  on[t] \in Comps
  BY DEF TypeOK, ThreadTypes, StackInv

LEMMA AtComponent ==
  ASSUME TypeOK, StackInv, NEW t \in Threads, NEW a, At(t, a)
  PROVE  on[t] \in Comps
  BY AtTop, NoIdlePlace, OnComponent

LEMMA SetRunLoopTypes ==
  ASSUME LoopTypes, NEW c \in Comps, NEW new \in Loops \cup {None}, SetRunLoop(c, new)
  PROVE  /\ m_runloop' \in [Comps -> Loops \cup {None}] /\ s_unique_instance' \in BOOLEAN
         /\ loop_refcnt' \in [Loops -> Int]
  <1>1. CASE UNCHANGED loops
    BY <1>1 DEF LoopTypes, loops
  <1>2. CASE ~UNCHANGED loops
    <2>1. m_runloop' = [m_runloop EXCEPT ![c] = new]
      BY <1>2 DEF SetRunLoop
    <2>2. s_unique_instance' \in BOOLEAN
      BY <1>2 DEF SetRunLoop
    <2>3. loop_refcnt' \in [Loops -> Int]
      BY <1>2 DEF SetRunLoop, LoopTypes
    <2> QED
      BY <2>1, <2>2, <2>3 DEF LoopTypes
  <1> QED
    BY <1>1, <1>2

\* Of the widths that fit there is a largest (the numbers that it lacks to
\* MaxWidth have a least).
LEMMA Widest ==
  ASSUME NEW w \in Int, \E f \in Fitting : f <= w
  PROVE  \E f \in Fitting : f <= w /\ \A g \in Fitting : g <= w => g <= f
  <1> DEFINE T == {MaxWidth - f : f \in {g \in Fitting : g <= w}}
  <1>1. /\ Fitting \subseteq Nat /\ \A f \in Fitting : f <= MaxWidth
        /\ MaxWidth \in Nat
    BY LifetimesAssumption DEF Widths
  <1>2. T \subseteq Nat /\ T # {}
    BY <1>1
  <1>3. \E n \in T : \A m \in T : ~(<<m, n>> \in OpToRel(<, Nat))
    BY <1>2, NatLessThanWellFounded, WFMin
  <1>4. PICK n \in T : \A m \in T : ~(m < n)
    BY <1>2, <1>3 DEF OpToRel
  <1>5. PICK f \in Fitting : f <= w /\ n = MaxWidth - f
    OBVIOUS
  <1>6. ASSUME NEW g \in Fitting, g <= w PROVE g <= f
    <2>1. MaxWidth - g \in T
      BY <1>6
    <2> HIDE DEF T
    <2> QED
      BY <1>1, <1>4, <1>5, <2>1
  <1> QED
    BY <1>5, <1>6

LEMMA AdjustedFits ==
  ASSUME NEW w \in Int
  PROVE  \/ /\ Adjusted(w) \in Fitting /\ Adjusted(w) <= w
         \/ Adjusted(w) = w /\ \A f \in Fitting : f > w
  <1>1. Fitting \subseteq Int
    BY LifetimesAssumption DEF Widths
  <1>2. CASE \E f \in Fitting : f <= w
    <2>1. Adjusted(w) = CHOOSE f \in Fitting : f <= w /\ \A g \in Fitting : g <= w => g <= f
      BY <1>2 DEF Adjusted
    <2> QED
      BY <1>2, <2>1, Widest
  <1>3. CASE ~\E f \in Fitting : f <= w
    BY <1>1, <1>3 DEF Adjusted
  <1> QED
    BY <1>2, <1>3

LEMMA AdjustedInt == ASSUME NEW w \in Int PROVE Adjusted(w) \in Int
  <1>1. Fitting \subseteq Int
    BY LifetimesAssumption DEF Widths
  <1>2. Adjusted(w) \in Fitting \/ Adjusted(w) = w
    BY AdjustedFits
  <1> QED
    BY <1>1, <1>2

LEMMA HeldTypes ==
  ASSUME ModuleTypes, NEW x, NEW n \in Int, held' = Change(x, n), UNCHANGED factory
  PROVE  ModuleTypes'
  <1>1. held \in [Contexts -> Int]
    BY DEF ModuleTypes
  <1>2. [held EXCEPT ![x] = held[x] + n] \in [Contexts -> Int]
    <2>1. x \in Contexts => held[x] + n \in Int
      BY <1>1
    <2> QED
      BY <1>1, <2>1
  <1>3. held' \in [Contexts -> Int]
    BY <1>1, <1>2 DEF Change
  <1> QED
    BY <1>3 DEF ModuleTypes, factory

LEMMA NextModuleTypes ==
  ASSUME TypeOK, Next
  PROVE  ModuleTypes'
  <1>0. ModuleTypes
    BY DEF TypeOK
  <1>1. CASE UNCHANGED <<factory, held>> \/ ModuleEntry \/ ModuleExit
    BY <1>0, <1>1 DEF ModuleTypes, factory, ModuleEntry, ModuleExit
  <1>2. ASSUME NEW x \in Contexts \cup {None}, set_host_context(x) PROVE ModuleTypes'
    BY <1>0, <1>2 DEF ModuleTypes, set_host_context
  <1>3. ASSUME NEW c \in Comps, NEW x \in Contexts \cup {None}, initialize(c, x)
        PROVE  ModuleTypes'
    <2>1. held' = Change(x, 1) /\ UNCHANGED factory /\ 1 \in Int
      BY <1>3 DEF initialize
    <2> QED
      BY <1>0, <2>1, HeldTypes
  <1>4. CASE terminate_done
    <2>1. held' = Change(m_context[on[Main]], -1) /\ UNCHANGED factory /\ -1 \in Int
      BY <1>4 DEF terminate_done
    <2> QED
      BY <1>0, <2>1, HeldTypes
  <1> QED
    BY <1>1, <1>2, <1>3, <1>4, Writers

\* A table of numbers by component and interface, of which one changes.
LEMMA OneOfTable ==
  ASSUME NEW S, NEW T, NEW h \in [S -> [T -> Nat]], NEW c \in S, NEW f \in T, NEW n \in Nat
  PROVE  /\ [h EXCEPT ![c][f] = n] \in [S -> [T -> Nat]]
         /\ [h EXCEPT ![c][f] = n][c][f] = n
         /\ \A g \in T \ {f} : [h EXCEPT ![c][f] = n][c][g] = h[c][g]
         /\ \A d \in S \ {c} : [h EXCEPT ![c][f] = n][d] = h[d]
  <1> DEFINE r == [h[c] EXCEPT ![f] = n]
  <1>1. r \in [T -> Nat] /\ r[f] = n /\ \A g \in T \ {f} : r[g] = h[c][g]
    OBVIOUS
  <1>2. [h EXCEPT ![c][f] = n] = [h EXCEPT ![c] = r]
    OBVIOUS
  <1> HIDE DEF r
  <1> QED
    BY <1>1, <1>2

LEMMA NextCounts ==
  ASSUME TypeOK, StackInv, Next
  PROVE  m_refcnt' \in [Comps -> Int] /\ host_refs' \in [Comps -> [Interfaces -> Nat]]
  <1>0. m_refcnt \in [Comps -> Int] /\ host_refs \in [Comps -> [Interfaces -> Nat]]
    BY DEF TypeOK, ComponentTypes
  <1>1. CASE UNCHANGED counts
    BY <1>0, <1>1 DEF counts
  <1>2. ASSUME NEW ok \in BOOLEAN, InitPlugin(ok), ~UNCHANGED counts
        PROVE  m_refcnt' \in [Comps -> Int] /\ host_refs' \in [Comps -> [Interfaces -> Nat]]
    <2> DEFINE c == on[Main]
    <2>1. m_refcnt' = [m_refcnt EXCEPT ![c] = 1] /\ host_refs' = [host_refs EXCEPT ![c][Component] = 1]
      BY <1>2 DEF InitPlugin
    <2>2. c \in Comps /\ Component \in Interfaces /\ 1 \in Nat
      BY <1>2, AtComponent DEF InitPlugin, Threads, Interfaces
    <2> HIDE DEF c
    <2>3. host_refs' \in [Comps -> [Interfaces -> Nat]]
      BY <1>0, <2>1, <2>2, OneOfTable
    <2> QED
      BY <1>0, <2>1, <2>2, <2>3
  <1>3. ASSUME NEW c \in Comps, NEW f \in Faces,
               query_interface(c, f) \/ \E t \in Threads : unref(t, c, f)
        PROVE  m_refcnt' \in [Comps -> Int] /\ host_refs' \in [Comps -> [Interfaces -> Nat]]
    <2>1. f \in Interfaces
      BY LifetimesAssumption
    <2>2. PICK d \in {1, -1} : /\ m_refcnt' = [m_refcnt EXCEPT ![c] = m_refcnt[c] + d]
                               /\ host_refs' = [host_refs EXCEPT ![c][f] = host_refs[c][f] + d]
                               /\ d = 1 \/ host_refs[c][f] > 0
      <3>1. CASE query_interface(c, f)
        BY <3>1 DEF query_interface
      <3>2. CASE \E t \in Threads : unref(t, c, f)
        BY <3>2 DEF unref
      <3> QED
        BY <1>3, <3>1, <3>2
    <2>3. host_refs[c][f] + d \in Nat /\ m_refcnt[c] + d \in Int
      BY <1>0, <2>1, <2>2
    <2> QED
      BY <1>0, <2>1, <2>2, <2>3, OneOfTable
  <1> QED
    BY <1>1, <1>2, <1>3, Writers

LEMMA NextComponentTypes ==
  ASSUME TypeOK, StackInv, Next
  PROVE  ComponentTypes'
  <1>1. plug' \in [Comps -> {"none", "created", "ready"}]
    BY Writers, AtComponent
       DEF TypeOK, ComponentTypes, create_instance, InitPlugin, DestroyPlugin, Threads
  <1>2. m_refcnt' \in [Comps -> Int] /\ host_refs' \in [Comps -> [Interfaces -> Nat]]
    BY NextCounts
  <1>3. m_initialized' \in [Comps -> BOOLEAN] /\ m_context' \in [Comps -> Contexts \cup {None}]
    BY Writers
       DEF TypeOK, ComponentTypes, DestroyMembers, initialize, initialize_done, terminate_done
  <1> QED
    BY <1>1, <1>2, <1>3 DEF ComponentTypes

LEMMA NextLoopTypes ==
  ASSUME TypeOK, StackInv, Next
  PROVE  LoopTypes'
  <1>0. LoopTypes
    BY DEF TypeOK
  <1>1. running' \in Comps \cup {None}
    BY <1>0, Writers DEF LoopTypes, LoopCalls, LoopReturns
  <1>2. CASE UNCHANGED loops
    BY <1>0, <1>1, <1>2 DEF LoopTypes, loops
  <1>3. CASE TakeInstance \/ DropInstance
    <2>1. PICK n \in Int : loop_refcnt' = [loop_refcnt EXCEPT ![Threaded] = n]
      <3>1. loop_refcnt[Threaded] \in Int
        BY <1>0 DEF LoopTypes, Loops
      <3> QED
        BY <1>3, <3>1 DEF TakeInstance, DropInstance
    <2>2. m_runloop' = m_runloop
      BY <1>3 DEF TakeInstance, DropInstance
    <2>4. s_unique_instance' \in BOOLEAN
      <3>1. CASE TakeInstance
        BY <3>1 DEF TakeInstance
      <3>2. CASE DropInstance
        BY <3>2 DEF DropInstance
      <3> QED
        BY <1>3, <3>1, <3>2
    <2>5. loop_refcnt' \in [Loops -> Int]
      BY <1>0, <2>1 DEF LoopTypes
    <2> QED
      BY <1>0, <1>1, <2>2, <2>4, <2>5 DEF LoopTypes
  <1>4. ASSUME NEW c \in Comps, NEW new \in Loops \cup {None}, SetRunLoop(c, new)
        PROVE  LoopTypes'
    BY <1>0, <1>1, <1>4, SetRunLoopTypes DEF LoopTypes
  <1>5. CASE SwitchToInstance \/ terminate_loop \/ \E t \in Threads : DestroyMembers(t)
    BY <1>4, <1>5, AtComponent
       DEF SwitchToInstance, terminate_loop, DestroyMembers, Loops, Threads
  <1>6. CASE \E c \in Comps : attached(c)
    BY <1>4, <1>6 DEF attached, Loops
  <1> QED
    BY <1>2, <1>3, <1>5, <1>6, Writers

LEMMA NextEditorTypes ==
  ASSUME TypeOK, StackInv, Next
  PROVE  EditorTypes'
  <1>0. EditorTypes
    BY DEF TypeOK
  <1>1. CASE UNCHANGED viewed
    BY <1>0, <1>1 DEF EditorTypes, viewed
  <1>2. CASE DeleteHookDone \/ \E t \in Threads : DestroyMembers(t)
    BY <1>0, <1>2 DEF EditorTypes, DeleteHookDone, DestroyMembers
  <1>3. ASSUME NEW c \in Comps, terminate(c) PROVE EditorTypes'
    <2>1. UNCHANGED <<m_editor, view_refs>>
      BY <1>3 DEF terminate
    <2>2. view_refcnt' = [view_refcnt EXCEPT ![c] = @ - 1] \/ view_refcnt' = view_refcnt
      BY <1>3 DEF terminate
    <2> QED
      BY <1>0, <2>1, <2>2 DEF EditorTypes
  <1>4. ASSUME NEW c \in Comps, NEW v \in Views, NEW d \in {1, -1},
               view_refs' = [view_refs EXCEPT ![c][v] = view_refs[c][v] + d],
               d = 1 \/ view_refs[c][v] > 0,
               view_refcnt' \in [Comps -> Int], m_editor' \in [Comps -> BOOLEAN]
        PROVE  EditorTypes'
    <2>1. view_refs \in [Comps -> [Views -> Nat]]
      BY <1>0 DEF EditorTypes
    <2>2. view_refs[c][v] + d \in Nat
      BY <1>4, <2>1
    <2>3. view_refs' \in [Comps -> [Views -> Nat]]
      BY <1>4, <2>1, <2>2, OneOfTable
    <2> QED
      BY <1>4, <2>1, <2>3 DEF EditorTypes
  <1>9. ASSUME NEW c \in Comps, NEW n \in Int, view_refcnt' = [view_refcnt EXCEPT ![c] = n]
        PROVE  view_refcnt' \in [Comps -> Int]
    BY <1>0, <1>9 DEF EditorTypes
  <1>5. ASSUME NEW c \in Comps PROVE view_refcnt[c] + 1 \in Int /\ view_refcnt[c] - 1 \in Int
    BY <1>0 DEF EditorTypes
  <1>6. ASSUME NEW c \in Comps, create_view(c) PROVE EditorTypes'
    <2>1. view_refs' = [view_refs EXCEPT ![c][View] = view_refs[c][View] + 1] /\ View \in Views
      BY <1>6 DEF create_view, Views
    <2>2. view_refcnt' = [view_refcnt EXCEPT ![c] = IF m_editor[c] THEN view_refcnt[c] + 1 ELSE 1]
      BY <1>6 DEF create_view
    <2>3. (IF m_editor[c] THEN view_refcnt[c] + 1 ELSE 1) \in Int
      BY <1>5
    <2>4. m_editor' \in [Comps -> BOOLEAN]
      BY <1>0, <1>6 DEF EditorTypes, create_view
    <2> QED
      BY <1>9, <1>4, <2>1, <2>2, <2>3, <2>4
  <1>7. ASSUME NEW c \in Comps, NEW v \in Views, view_query_interface(c, v) PROVE EditorTypes'
    <2>1. /\ view_refs' = [view_refs EXCEPT ![c][v] = view_refs[c][v] + 1]
          /\ view_refcnt' = [view_refcnt EXCEPT ![c] = view_refcnt[c] + 1]
      BY <1>7 DEF view_query_interface
    <2>2. m_editor' \in [Comps -> BOOLEAN]
      BY <1>0, <1>7 DEF EditorTypes, view_query_interface
    <2> QED
      BY <1>9, <1>4, <1>5, <2>1, <2>2
  <1>8. ASSUME NEW c \in Comps, NEW v \in Views, view_unref(c, v) PROVE EditorTypes'
    <2>1. /\ view_refs' = [view_refs EXCEPT ![c][v] = view_refs[c][v] + (-1)]
          /\ view_refcnt' = [view_refcnt EXCEPT ![c] = view_refcnt[c] - 1]
          /\ view_refs[c][v] > 0
      BY <1>0, <1>8 DEF EditorTypes, view_unref
    <2>2. m_editor' \in [Comps -> BOOLEAN]
      BY <1>0, <1>8 DEF EditorTypes, view_unref
    <2> QED
      BY <1>9, <1>4, <1>5, <2>1, <2>2
  <1> QED
    BY <1>1, <1>2, <1>3, <1>6, <1>7, <1>8, Writers

LEMMA NextShown ==
  ASSUME TypeOK, StackInv, Next
  PROVE  /\ m_created' \in [Comps -> BOOLEAN] /\ m_editor_frame' \in [Comps -> BOOLEAN]
         /\ gui' \in [Comps -> Int] /\ width' \in [Comps -> Int]
  <1>0. /\ m_created \in [Comps -> BOOLEAN] /\ m_editor_frame \in [Comps -> BOOLEAN]
        /\ gui \in [Comps -> Int] /\ width \in [Comps -> Int]
    BY DEF TypeOK, GraphicsTypes
  <1>1. m_created' \in [Comps -> BOOLEAN] /\ m_editor_frame' \in [Comps -> BOOLEAN]
    BY <1>0, Writers
       DEF shown, DestroyMembers, DeleteHookDone, attached, GuiCreated, GuiRefused,
           attached_done, removed, FrameHookDone, TemporaryGui, TemporarySize
  <1>2. UNCHANGED gui \/ \E c : gui' = [gui EXCEPT ![c] = gui[c] + 1]
                                   \/ gui' = [gui EXCEPT ![c] = gui[c] - 1]
    <2>1. CASE \/ \E t \in Threads : DestroyMembers(t)
               \/ DeleteHookDone \/ (\E c \in Comps : attached(c)) \/ GuiRefused
               \/ attached_done \/ FrameHookDone
      BY <2>1 DEF DestroyMembers, DeleteHookDone, attached, GuiRefused, attached_done, FrameHookDone
    <2>2. CASE \E w \in Fitting : GuiCreated(w) \/ TemporaryGui(w)
      BY <2>2 DEF GuiCreated, TemporaryGui
    <2>3. CASE TemporarySize \/ \E c \in Comps : removed(c)
      BY <2>3 DEF TemporarySize, removed
    <2> QED
      BY <2>1, <2>2, <2>3, Writers
  <1>3. gui' \in [Comps -> Int]
    BY <1>0, <1>2
  <1>4. Fitting \subseteq Int
    BY LifetimesAssumption DEF Widths
  <1>5. UNCHANGED width \/ \E c, w : w \in Fitting /\ width' = [width EXCEPT ![c] = w]
    <2>1. CASE on_size
      BY <2>1 DEF on_size
    <2>2. CASE \E w \in Fitting : GuiCreated(w) \/ TemporaryGui(w)
      BY <2>2 DEF GuiCreated, TemporaryGui
    <2>3. CASE \/ SizeOfGui \/ NoTemporaryGui \/ TemporarySize
               \/ (\E c \in Comps, l \in Lefts, w \in Widths : Drag(c, l, w))
               \/ (\E c \in Comps, w \in Fitting : request_resize(c, w)) \/ check_size_constraint
      BY <2>3 DEF SizeOfGui, NoTemporaryGui, TemporarySize, Drag, request_resize,
                  check_size_constraint
    <2> QED
      BY <2>1, <2>2, <2>3, Writers
  <1>6. width' \in [Comps -> Int]
    BY <1>0, <1>4, <1>5
  <1> QED
    BY <1>1, <1>3, <1>6

LEMMA NextRect ==
  ASSUME TypeOK, StackInv, Next
  PROVE  rect' \in [Comps -> [left : Int, right : Int]]
  <1>0. /\ rect \in [Comps -> [left : Int, right : Int]]
        /\ \A c \in Comps : width[c] \in Int
    BY DEF TypeOK, GraphicsTypes
  <1>1. Fitting \subseteq Int /\ Widths \subseteq Int /\ Lefts \subseteq Int
    BY LifetimesAssumption DEF Widths
  <1>2. ASSUME NEW c, NEW l \in Int, NEW n \in Int,
               rect' = [rect EXCEPT ![c] = [left |-> l, right |-> n]]
        PROVE  rect' \in [Comps -> [left : Int, right : Int]]
    BY <1>0, <1>2
  <1>3. CASE SizeOfGui \/ TemporarySize
    <2>1. on[Main] \in Comps
      BY <1>3, AtComponent DEF SizeOfGui, TemporarySize, Threads
    <2>2. rect' = [rect EXCEPT ![on[Main]] = [left |-> 0, right |-> width[on[Main]]]]
      BY <1>3 DEF SizeOfGui, TemporarySize
    <2>3. 0 \in Int /\ width[on[Main]] \in Int
      BY <1>0, <2>1
    <2> QED
      BY <1>2, <2>2, <2>3
  <1>4. CASE NoTemporaryGui
    <2>1. rect' = [rect EXCEPT ![on[Main]] = [left |-> 0, right |-> 0]]
      BY <1>4 DEF NoTemporaryGui, NoRect
    <2>2. 0 \in Int
      OBVIOUS
    <2> QED
      BY <1>2, <2>1, <2>2
  <1>5. ASSUME NEW c \in Comps, NEW l \in Lefts, NEW w \in Widths, Drag(c, l, w)
        PROVE  rect' \in [Comps -> [left : Int, right : Int]]
    <2>1. rect' = [rect EXCEPT ![c] = [left |-> l, right |-> l + w]]
      BY <1>5 DEF Drag
    <2>2. l \in Int /\ l + w \in Int
      BY <1>1
    <2> QED
      BY <1>2, <2>1, <2>2
  <1>6. ASSUME NEW c \in Comps, NEW w \in Fitting, request_resize(c, w)
        PROVE  rect' \in [Comps -> [left : Int, right : Int]]
    <2>1. rect' = [rect EXCEPT ![c] = [left |-> 0, right |-> w]]
      BY <1>6 DEF request_resize
    <2>2. 0 \in Int /\ w \in Int
      BY <1>1
    <2> QED
      BY <1>2, <2>1, <2>2
  <1>7. CASE check_size_constraint
    <2> DEFINE c == on[Main]
    <2> DEFINE n == rect[c].right - WidthOf(rect[c]) + Adjusted(WidthOf(rect[c]))
    <2>1. rect' = [rect EXCEPT ![c].right = n]
      BY <1>7 DEF check_size_constraint
    <2>2. c \in Comps
      BY <1>7, AtComponent DEF check_size_constraint, Threads
    <2>3. rect[c].right \in Int /\ WidthOf(rect[c]) \in Int
      BY <1>0, <2>2 DEF WidthOf
    <2>4. Adjusted(WidthOf(rect[c])) \in Int
      BY <2>3, AdjustedInt
    <2>5. n \in Int
      BY <2>3, <2>4
    <2> HIDE DEF c, n
    <2> QED
      BY <1>0, <2>1, <2>2, <2>5
  <1>8. CASE UNCHANGED rect
    BY <1>0, <1>8
  <1>9. CASE on_size \/ \E w \in Fitting : GuiCreated(w) \/ TemporaryGui(w)
    BY <1>8, <1>9 DEF on_size, GuiCreated, TemporaryGui
  <1> QED
    BY <1>3, <1>4, <1>5, <1>6, <1>7, <1>8, <1>9, Writers

LEMMA NextTypes ==
  ASSUME CarefulOwner, TypeOK, StackInv, RefsInv, LifeInv, Next
  PROVE  TypeOK'
  BY NextModuleTypes, NextComponentTypes, NextLoopTypes, NextEditorTypes, NextShown, NextRect,
     NextStack
     DEF TypeOK, GraphicsTypes

-----------------------------------------------------------------------------
(***************************************************************************)
(* A function is about one component; others do not notice.                *)
(***************************************************************************)
Kept(d) ==
  /\ plug'[d] = plug[d] /\ m_refcnt'[d] = m_refcnt[d] /\ host_refs'[d] = host_refs[d]
  /\ m_initialized'[d] = m_initialized[d] /\ m_context'[d] = m_context[d]
  /\ m_runloop'[d] = m_runloop[d]
  /\ m_editor'[d] = m_editor[d] /\ view_refcnt'[d] = view_refcnt[d] /\ view_refs'[d] = view_refs[d]
  /\ m_created'[d] = m_created[d] /\ m_editor_frame'[d] = m_editor_frame[d]
  /\ gui'[d] = gui[d] /\ width'[d] = width[d] /\ rect'[d] = rect[d]
Apart(d) ==
  \A t \in Threads : /\ on'[t] = d <=> on[t] = d
                     /\ on[t] = d => Top(t)' = Top(t) /\ Under(t)' = Under(t)
About(c) == \A d \in Comps : d # c => Kept(d) /\ Apart(d)

LEMMA ApartFrom ==
  ASSUME TypeOK, StackInv, NEW t \in Threads, NEW d \in Comps
  PROVE  /\ \A c, a, b : Begins(t, c, a, b) /\ d # c => Apart(d)
         /\ \A a, b : Passes(t, a, b) /\ d # on[t] => Apart(d)
         /\ \A a : Ends(t, a) /\ d # on[t] => Apart(d)
         /\ \A a, b, e : Turns(t, a, b, e) /\ d # on[t] => Apart(d)
         /\ UNCHANGED <<stack, on>> => Apart(d)
  <1>0. on \in [Threads -> Comps \cup {None}] /\ d # None
    BY LifetimesAssumption DEF TypeOK, ThreadTypes
  <1>1. ASSUME NEW c, NEW a, NEW b, Begins(t, c, a, b), d # c PROVE Apart(d)
    BY <1>0, <1>1 DEF Begins, Moves, Apart
  <1>2. ASSUME NEW a, NEW b, Passes(t, a, b), d # on[t] PROVE Apart(d)
    BY <1>0, <1>2 DEF Passes, Moves, Apart
  <1>3. ASSUME NEW a, Ends(t, a), d # on[t] PROVE Apart(d)
    BY <1>0, <1>3 DEF Ends, Moves, Apart
  <1>4. ASSUME NEW a, NEW b, NEW e, Turns(t, a, b, e), d # on[t] PROVE Apart(d)
    BY <1>0, <1>4 DEF Turns, Moves, Apart
  <1>5. ASSUME UNCHANGED <<stack, on>> PROVE Apart(d)
    BY <1>0, <1>5 DEF Apart, Top, Under, Idle
  <1> QED
    BY <1>1, <1>2, <1>3, <1>4, <1>5

LEMMA SetRunLoopAt ==
  ASSUME TypeOK, NEW c \in Comps, NEW new, SetRunLoop(c, new)
  PROVE  m_runloop' = [m_runloop EXCEPT ![c] = new]
  BY DEF SetRunLoop, loops, TypeOK, LoopTypes

LEMMA Functions ==
  ASSUME TypeOK
  PROVE  /\ plug \in [Comps -> {"none", "created", "ready"}]
         /\ m_refcnt \in [Comps -> Int] /\ host_refs \in [Comps -> [Interfaces -> Nat]]
         /\ m_initialized \in [Comps -> BOOLEAN] /\ m_context \in [Comps -> Contexts \cup {None}]
         /\ m_runloop \in [Comps -> Loops \cup {None}]
         /\ m_editor \in [Comps -> BOOLEAN]
         /\ view_refcnt \in [Comps -> Int] /\ view_refs \in [Comps -> [Views -> Nat]]
         /\ m_created \in [Comps -> BOOLEAN] /\ m_editor_frame \in [Comps -> BOOLEAN]
         /\ gui \in [Comps -> Int] /\ width \in [Comps -> Int]
         /\ rect \in [Comps -> [left : Int, right : Int]]
  BY DEF TypeOK, ComponentTypes, LoopTypes, EditorTypes, GraphicsTypes

LEMMA Subjects ==
  ASSUME CarefulOwner, TypeOK, StackInv, LifeInv
  PROVE  /\ \A c \in Comps : create_instance(c) => About(c)
         /\ \A c \in Comps : terminate(c) => About(c)
         /\ \A ok \in BOOLEAN : InitPlugin(ok) => About(on[Main])
         /\ \A c \in Comps, f \in Faces : query_interface(c, f) => About(c)
         /\ \A c \in Comps, f \in Faces, t \in Threads : unref(t, c, f) => About(c)
         /\ \A t \in Threads : DestroyPlugin(t) => About(on[t])
         /\ \A t \in Threads : DestroyMembers(t) => About(on[t])
         /\ \A c \in Comps, x \in Contexts \cup {None} : initialize(c, x) => About(c)
         /\ initialize_done => About(on[Main])
         /\ terminate_loop => About(on[Main])
         /\ terminate_done => About(on[Main])
         /\ TakeInstance => About(on[Main])
         /\ SwitchToInstance => About(on[Main])
         /\ DropInstance => About(on[Main])
         /\ \A c \in Comps : create_view(c) => About(c)
         /\ \A c \in Comps : attached(c) => About(c)
         /\ \A c \in Comps : removed(c) => About(c)
         /\ \A c \in Comps : get_size(c) => About(c)
         /\ \A c \in Comps, v \in Views : view_query_interface(c, v) => About(c)
         /\ \A c \in Comps, v \in Views : view_unref(c, v) => About(c)
         /\ DeleteHookDone => About(on[Main])
         /\ FrameHookDone => About(on[Main])
         /\ \A w \in Fitting : GuiCreated(w) => About(on[Main])
         /\ \A w \in Fitting : TemporaryGui(w) => About(on[Main])
         /\ GuiRefused => About(on[Main])
         /\ attached_done => About(on[Main])
         /\ SizeOfGui => About(on[Main])
         /\ NoTemporaryGui => About(on[Main])
         /\ TemporarySize => About(on[Main])
         /\ \A c \in Comps, w \in Fitting : request_resize(c, w) => About(c)
         /\ \A c \in Comps, l \in Lefts, w \in Widths : Drag(c, l, w) => About(c)
         /\ check_size_constraint => About(on[Main])
         /\ on_size => About(on[Main])
  <1>0. Main \in Threads
    BY DEF Threads
  <1> USE Functions
  <1>1. ASSUME NEW c \in Comps, create_instance(c) PROVE About(c)
    <2> SUFFICES ASSUME NEW d \in Comps, d # c PROVE Kept(d) /\ Apart(d)
      BY DEF About
    <2>2. Kept(d)
      BY <1>1 DEF create_instance, Kept, counts, loops, viewed, shown
    <2>3. Apart(d)
      BY <1>0, <1>1, ApartFrom, Positions
    <2> QED
      BY <2>2, <2>3
  <1>2. ASSUME NEW c \in Comps, terminate(c) PROVE About(c)
    <2> SUFFICES ASSUME NEW d \in Comps, d # c PROVE Kept(d) /\ Apart(d)
      BY DEF About
    <2>2. Kept(d)
      BY <1>2 DEF terminate, Kept, counts, loops, viewed, shown
    <2>3. Apart(d)
      BY <1>0, <1>2, ApartFrom, TerminateAlone
    <2> QED
      BY <2>2, <2>3
  <1>3. ASSUME NEW ok \in BOOLEAN, InitPlugin(ok) PROVE About(on[Main])
    <2> SUFFICES ASSUME NEW d \in Comps, d # on[Main] PROVE Kept(d) /\ Apart(d)
      BY DEF About
    <2>2. Kept(d)
      BY <1>3 DEF InitPlugin, Kept, counts, loops, viewed, shown
    <2>3. Apart(d)
      BY <1>0, <1>3, ApartFrom, Positions
    <2> QED
      BY <2>2, <2>3
  <1>4. ASSUME NEW c \in Comps, NEW f \in Faces, query_interface(c, f) PROVE About(c)
    <2> SUFFICES ASSUME NEW d \in Comps, d # c PROVE Kept(d) /\ Apart(d)
      BY DEF About
    <2>2. Kept(d)
      BY <1>4 DEF query_interface, Kept, counts, loops, viewed, shown
    <2>3. Apart(d)
      BY <1>0, <1>4, ApartFrom, Positions DEF query_interface
    <2> QED
      BY <2>2, <2>3
  <1>5. ASSUME NEW c \in Comps, NEW f \in Faces, NEW t \in Threads, unref(t, c, f) PROVE About(c)
    <2> SUFFICES ASSUME NEW d \in Comps, d # c PROVE Kept(d) /\ Apart(d)
      BY DEF About
    <2>2. Kept(d)
      BY <1>5 DEF unref, Kept, counts, loops, viewed, shown
    <2>3. Apart(d)
      BY <1>0, <1>5, ApartFrom, PositionsOfRefs
    <2> QED
      BY <2>2, <2>3
  <1>6. ASSUME NEW t \in Threads, DestroyPlugin(t) PROVE About(on[t])
    <2> SUFFICES ASSUME NEW d \in Comps, d # on[t] PROVE Kept(d) /\ Apart(d)
      BY DEF About
    <2>2. Kept(d)
      BY <1>6 DEF DestroyPlugin, Kept, counts, loops, viewed, shown
    <2>3. Apart(d)
      BY <1>0, <1>6, ApartFrom, Positions
    <2> QED
      BY <2>2, <2>3
  <1>7. ASSUME NEW t \in Threads, DestroyMembers(t) PROVE About(on[t])
    <2> SUFFICES ASSUME NEW d \in Comps, d # on[t] PROVE Kept(d) /\ Apart(d)
      BY DEF About
    <2>1. m_runloop' = [m_runloop EXCEPT ![on[t]] = m_runloop'[on[t]]]
      BY <1>7, SetRunLoopAt, AtComponent DEF DestroyMembers, Threads
    <2>2. Kept(d)
      BY <1>7, <2>1 DEF DestroyMembers, Kept, counts, loops, viewed, shown
    <2>3. Apart(d)
      BY <1>0, <1>7, ApartFrom, Positions
    <2> QED
      BY <2>2, <2>3
  <1>8. ASSUME NEW c \in Comps, NEW x \in Contexts \cup {None}, initialize(c, x) PROVE About(c)
    <2> SUFFICES ASSUME NEW d \in Comps, d # c PROVE Kept(d) /\ Apart(d)
      BY DEF About
    <2>2. Kept(d)
      BY <1>8 DEF initialize, Kept, counts, loops, viewed, shown
    <2>3. Apart(d)
      BY <1>0, <1>8, ApartFrom, Positions
    <2> QED
      BY <2>2, <2>3
  <1>9. ASSUME initialize_done PROVE About(on[Main])
    <2> SUFFICES ASSUME NEW d \in Comps, d # on[Main] PROVE Kept(d) /\ Apart(d)
      BY DEF About
    <2>2. Kept(d)
      BY <1>9 DEF initialize_done, Kept, counts, loops, viewed, shown
    <2>3. Apart(d)
      BY <1>0, <1>9, ApartFrom, Positions
    <2> QED
      BY <2>2, <2>3
  <1>10. ASSUME terminate_loop PROVE About(on[Main])
    <2> SUFFICES ASSUME NEW d \in Comps, d # on[Main] PROVE Kept(d) /\ Apart(d)
      BY DEF About
    <2>1. m_runloop' = [m_runloop EXCEPT ![on[Main]] = m_runloop'[on[Main]]]
      BY <1>10, SetRunLoopAt, AtComponent DEF terminate_loop, Threads
    <2>2. Kept(d)
      BY <1>10, <2>1 DEF terminate_loop, Kept, counts, loops, viewed, shown
    <2>3. Apart(d)
      BY <1>0, <1>10, ApartFrom, Positions
    <2> QED
      BY <2>2, <2>3
  <1>11. ASSUME terminate_done PROVE About(on[Main])
    <2> SUFFICES ASSUME NEW d \in Comps, d # on[Main] PROVE Kept(d) /\ Apart(d)
      BY DEF About
    <2>2. Kept(d)
      BY <1>11 DEF terminate_done, Kept, counts, loops, viewed, shown
    <2>3. Apart(d)
      BY <1>0, <1>11, ApartFrom, Positions
    <2> QED
      BY <2>2, <2>3
  <1>12. ASSUME TakeInstance PROVE About(on[Main])
    <2> SUFFICES ASSUME NEW d \in Comps, d # on[Main] PROVE Kept(d) /\ Apart(d)
      BY DEF About
    <2>2. Kept(d)
      BY <1>12 DEF TakeInstance, Kept, counts, loops, viewed, shown
    <2>3. Apart(d)
      BY <1>0, <1>12, ApartFrom, Positions
    <2> QED
      BY <2>2, <2>3
  <1>13. ASSUME SwitchToInstance PROVE About(on[Main])
    <2> SUFFICES ASSUME NEW d \in Comps, d # on[Main] PROVE Kept(d) /\ Apart(d)
      BY DEF About
    <2>1. m_runloop' = [m_runloop EXCEPT ![on[Main]] = m_runloop'[on[Main]]]
      BY <1>13, SetRunLoopAt, AtComponent DEF SwitchToInstance, Threads
    <2>2. Kept(d)
      BY <1>13, <2>1 DEF SwitchToInstance, Kept, counts, loops, viewed, shown
    <2>3. Apart(d)
      BY <1>0, <1>13, ApartFrom, Positions
    <2> QED
      BY <2>2, <2>3
  <1>14. ASSUME DropInstance PROVE About(on[Main])
    <2> SUFFICES ASSUME NEW d \in Comps, d # on[Main] PROVE Kept(d) /\ Apart(d)
      BY DEF About
    <2>2. Kept(d)
      BY <1>14 DEF DropInstance, Kept, counts, loops, viewed, shown
    <2>3. Apart(d)
      BY <1>0, <1>14, ApartFrom, Positions
    <2> QED
      BY <2>2, <2>3
  <1>15. ASSUME NEW c \in Comps, create_view(c) PROVE About(c)
    <2> SUFFICES ASSUME NEW d \in Comps, d # c PROVE Kept(d) /\ Apart(d)
      BY DEF About
    <2>2. Kept(d)
      BY <1>15 DEF create_view, Kept, counts, loops, viewed, shown
    <2>3. Apart(d)
      BY <1>0, <1>15, ApartFrom, Positions DEF create_view
    <2> QED
      BY <2>2, <2>3
  <1>16. ASSUME NEW c \in Comps, attached(c) PROVE About(c)
    <2> SUFFICES ASSUME NEW d \in Comps, d # c PROVE Kept(d) /\ Apart(d)
      BY DEF About
    <2>1. m_runloop' = [m_runloop EXCEPT ![c] = m_runloop'[c]]
      BY <1>16, SetRunLoopAt, AtComponent DEF attached, Threads
    <2>2. Kept(d)
      BY <1>16, <2>1 DEF attached, Kept, counts, loops, viewed, shown
    <2>3. Apart(d)
      BY <1>0, <1>16, ApartFrom, Positions
    <2> QED
      BY <2>2, <2>3
  <1>17. ASSUME NEW c \in Comps, removed(c) PROVE About(c)
    <2> SUFFICES ASSUME NEW d \in Comps, d # c PROVE Kept(d) /\ Apart(d)
      BY DEF About
    <2>2. Kept(d)
      BY <1>17 DEF removed, Kept, counts, loops, viewed, shown
    <2>3. Apart(d)
      BY <1>0, <1>17, ApartFrom, Positions
    <2> QED
      BY <2>2, <2>3
  <1>18. ASSUME NEW c \in Comps, get_size(c) PROVE About(c)
    <2> SUFFICES ASSUME NEW d \in Comps, d # c PROVE Kept(d) /\ Apart(d)
      BY DEF About
    <2>2. Kept(d)
      BY <1>18 DEF get_size, Kept, counts, loops, viewed, shown
    <2>3. CASE Begins(Main, c, "get_size", "idle")
      BY <1>0, <2>2, <2>3, ApartFrom
    <2>4. CASE Turns(Main, "gui show", "get_size", "gui show")
      <3>1. ~Idle(Main)
        BY <2>4 DEF Turns, Top
      <3>2. on[Main] = c
        BY <1>18, <3>1 DEF get_size
      <3> QED
        BY <1>0, <2>2, <2>4, <3>2, ApartFrom
    <2> QED
      BY <1>18, <2>3, <2>4, Positions
  <1>19. ASSUME NEW c \in Comps, NEW v \in Views, view_query_interface(c, v) PROVE About(c)
    <2> SUFFICES ASSUME NEW d \in Comps, d # c PROVE Kept(d) /\ Apart(d)
      BY DEF About
    <2>2. Kept(d)
      BY <1>19 DEF view_query_interface, Kept, counts, loops, viewed, shown
    <2>3. Apart(d)
      BY <1>0, <1>19, ApartFrom, Positions DEF view_query_interface
    <2> QED
      BY <2>2, <2>3
  <1>20. ASSUME NEW c \in Comps, NEW v \in Views, view_unref(c, v) PROVE About(c)
    <2> SUFFICES ASSUME NEW d \in Comps, d # c PROVE Kept(d) /\ Apart(d)
      BY DEF About
    <2>2. Kept(d)
      BY <1>20 DEF view_unref, Kept, counts, loops, viewed, shown
    <2>3. Apart(d)
      BY <1>0, <1>20, ApartFrom, PositionsOfRefs
    <2> QED
      BY <2>2, <2>3
  <1>21. ASSUME DeleteHookDone PROVE About(on[Main])
    <2> SUFFICES ASSUME NEW d \in Comps, d # on[Main] PROVE Kept(d) /\ Apart(d)
      BY DEF About
    <2>2. Kept(d)
      BY <1>21 DEF DeleteHookDone, Kept, counts, loops, viewed, shown
    <2>3. Apart(d)
      BY <1>0, <1>21, ApartFrom, Positions
    <2> QED
      BY <2>2, <2>3
  <1>22. ASSUME FrameHookDone PROVE About(on[Main])
    <2> SUFFICES ASSUME NEW d \in Comps, d # on[Main] PROVE Kept(d) /\ Apart(d)
      BY DEF About
    <2>2. Kept(d)
      BY <1>22 DEF FrameHookDone, Kept, counts, loops, viewed, shown
    <2>3. Apart(d)
      BY <1>0, <1>22, ApartFrom, Positions
    <2> QED
      BY <2>2, <2>3
  <1>23. ASSUME NEW w \in Fitting, GuiCreated(w) PROVE About(on[Main])
    <2> SUFFICES ASSUME NEW d \in Comps, d # on[Main] PROVE Kept(d) /\ Apart(d)
      BY DEF About
    <2>2. Kept(d)
      BY <1>23 DEF GuiCreated, Kept, counts, loops, viewed, shown
    <2>3. Apart(d)
      BY <1>0, <1>23, ApartFrom, Positions
    <2> QED
      BY <2>2, <2>3
  <1>24. ASSUME NEW w \in Fitting, TemporaryGui(w) PROVE About(on[Main])
    <2> SUFFICES ASSUME NEW d \in Comps, d # on[Main] PROVE Kept(d) /\ Apart(d)
      BY DEF About
    <2>2. Kept(d)
      BY <1>24 DEF TemporaryGui, Kept, counts, loops, viewed, shown
    <2>3. Apart(d)
      BY <1>0, <1>24, ApartFrom, Positions
    <2> QED
      BY <2>2, <2>3
  <1>25. ASSUME GuiRefused PROVE About(on[Main])
    <2> SUFFICES ASSUME NEW d \in Comps, d # on[Main] PROVE Kept(d) /\ Apart(d)
      BY DEF About
    <2>2. Kept(d)
      BY <1>25 DEF GuiRefused, Kept, counts, loops, viewed, shown
    <2>3. Apart(d)
      BY <1>0, <1>25, ApartFrom, Positions
    <2> QED
      BY <2>2, <2>3
  <1>26. ASSUME attached_done PROVE About(on[Main])
    <2> SUFFICES ASSUME NEW d \in Comps, d # on[Main] PROVE Kept(d) /\ Apart(d)
      BY DEF About
    <2>2. Kept(d)
      BY <1>26 DEF attached_done, Kept, counts, loops, viewed, shown
    <2>3. Apart(d)
      BY <1>0, <1>26, ApartFrom, Positions
    <2> QED
      BY <2>2, <2>3
  <1>27. ASSUME SizeOfGui PROVE About(on[Main])
    <2> SUFFICES ASSUME NEW d \in Comps, d # on[Main] PROVE Kept(d) /\ Apart(d)
      BY DEF About
    <2>2. Kept(d)
      BY <1>27 DEF SizeOfGui, Kept, counts, loops, viewed, shown
    <2>3. Apart(d)
      BY <1>0, <1>27, ApartFrom, Positions
    <2> QED
      BY <2>2, <2>3
  <1>28. ASSUME NoTemporaryGui PROVE About(on[Main])
    <2> SUFFICES ASSUME NEW d \in Comps, d # on[Main] PROVE Kept(d) /\ Apart(d)
      BY DEF About
    <2>2. Kept(d)
      BY <1>28 DEF NoTemporaryGui, Kept, counts, loops, viewed, shown
    <2>3. Apart(d)
      BY <1>0, <1>28, ApartFrom, Positions
    <2> QED
      BY <2>2, <2>3
  <1>29. ASSUME TemporarySize PROVE About(on[Main])
    <2> SUFFICES ASSUME NEW d \in Comps, d # on[Main] PROVE Kept(d) /\ Apart(d)
      BY DEF About
    <2>2. Kept(d)
      BY <1>29 DEF TemporarySize, Kept, counts, loops, viewed, shown
    <2>3. Apart(d)
      BY <1>0, <1>29, ApartFrom, Positions
    <2> QED
      BY <2>2, <2>3
  <1>30. ASSUME NEW c \in Comps, NEW w \in Fitting, request_resize(c, w) PROVE About(c)
    <2> SUFFICES ASSUME NEW d \in Comps, d # c PROVE Kept(d) /\ Apart(d)
      BY DEF About
    <2>2. Kept(d)
      BY <1>30 DEF request_resize, Kept, counts, loops, viewed, shown
    <2>3. Apart(d)
      BY <1>0, <1>30, ApartFrom, Positions
    <2> QED
      BY <2>2, <2>3
  <1>31. ASSUME NEW c \in Comps, NEW l \in Lefts, NEW w \in Widths, Drag(c, l, w) PROVE About(c)
    <2> SUFFICES ASSUME NEW d \in Comps, d # c PROVE Kept(d) /\ Apart(d)
      BY DEF About
    <2>2. Kept(d)
      BY <1>31 DEF Drag, Kept, counts, loops, viewed, shown
    <2>3. Apart(d)
      BY <1>0, <1>31, ApartFrom, Positions
    <2> QED
      BY <2>2, <2>3
  <1>32. ASSUME check_size_constraint PROVE About(on[Main])
    <2> SUFFICES ASSUME NEW d \in Comps, d # on[Main] PROVE Kept(d) /\ Apart(d)
      BY DEF About
    <2>2. Kept(d)
      BY <1>32 DEF check_size_constraint, Kept, counts, loops, viewed, shown
    <2>3. Apart(d)
      BY <1>0, <1>32, ApartFrom, Positions
    <2> QED
      BY <2>2, <2>3
  <1>33. ASSUME on_size PROVE About(on[Main])
    <2> SUFFICES ASSUME NEW d \in Comps, d # on[Main] PROVE Kept(d) /\ Apart(d)
      BY DEF About
    <2>2. Kept(d)
      BY <1>33 DEF on_size, Kept, counts, loops, viewed, shown
    <2>3. Apart(d)
      BY <1>0, <1>33, ApartFrom, Positions
    <2> QED
      BY <2>2, <2>3
  <1> QED
    BY <1>1, <1>2, <1>3, <1>4, <1>5, <1>6, <1>7, <1>8, <1>9, <1>10, <1>11, <1>12, <1>13, <1>14, <1>15, <1>16, <1>17, <1>18, <1>19, <1>20, <1>21, <1>22, <1>23, <1>24, <1>25, <1>26, <1>27, <1>28, <1>29, <1>30, <1>31, <1>32, <1>33

-----------------------------------------------------------------------------
(***************************************************************************)
(* References of the host.                                                 *)
(***************************************************************************)
LEMMA ReferencesMove ==
  ASSUME TypeOK, NEW c \in Comps, NEW f \in Interfaces, NEW n \in Nat,
         host_refs' = [host_refs EXCEPT ![c][f] = n]
  PROVE  /\ References(c)' = References(c) - host_refs[c][f] + n
         /\ \A d \in Comps : d # c => References(d)' = References(d)
  <1>1. /\ host_refs'[c][f] = n
        /\ \A g \in Interfaces \ {f} : host_refs'[c][g] = host_refs[c][g]
        /\ \A d \in Comps \ {c} : host_refs'[d] = host_refs[d]
    BY Functions, OneOfTable
  <1>2. \A g \in Interfaces : host_refs[c][g] \in Nat
    BY Functions
  <1>3. References(c)' = References(c) - host_refs[c][f] + n
    BY <1>1, <1>2
       DEF References, Interfaces, Component, AudioProcessor, EditController, UnitInformation,
           ContextRequired
  <1>4. \A d \in Comps : d # c => References(d)' = References(d)
    BY <1>1 DEF References
  <1> QED
    BY <1>3, <1>4

LEMMA ViewReferencesMove ==
  ASSUME TypeOK, NEW c \in Comps, NEW v \in Views, NEW n \in Nat,
         view_refs' = [view_refs EXCEPT ![c][v] = n]
  PROVE  /\ ViewReferences(c)' = ViewReferences(c) - view_refs[c][v] + n
         /\ \A d \in Comps : d # c => ViewReferences(d)' = ViewReferences(d)
  <1>1. /\ view_refs'[c][v] = n
        /\ \A g \in Views \ {v} : view_refs'[c][g] = view_refs[c][g]
        /\ \A d \in Comps \ {c} : view_refs'[d] = view_refs[d]
    BY Functions, OneOfTable
  <1>2. \A g \in Views : view_refs[c][g] \in Nat
    BY Functions
  <1>3. ViewReferences(c)' = ViewReferences(c) - view_refs[c][v] + n
    BY <1>1, <1>2 DEF ViewReferences, Views, View, ContentScale
  <1>4. \A d \in Comps : d # c => ViewReferences(d)' = ViewReferences(d)
    BY <1>1 DEF ViewReferences
  <1> QED
    BY <1>3, <1>4

\* A component that is being made has no references, nor has an editor that
\* the component does not know.
LEMMA NoneYet ==
  ASSUME TypeOK, StackInv, LifeInv, NEW c \in Comps
  PROVE  /\ on[Main] = c /\ Top(Main) = "create_instance" => References(c) = 0
         /\ ~m_editor[c] => ViewReferences(c) = 0
         /\ host_refs[c] \in [Interfaces -> Nat] /\ view_refs[c] \in [Views -> Nat]
  <1>1. References(c) \in Nat /\ ViewReferences(c) \in Nat
    BY Holding
  <1>2. on[Main] = c /\ Top(Main) = "create_instance" => ~HostHolds(c)
    BY DEF LifeInv, LifeAt, In
  <1>3. ~m_editor[c] => ~HostViews(c)
    BY DEF LifeInv, LifeAt
  <1> QED
    BY <1>1, <1>2, <1>3, Functions DEF HostHolds, HostViews

LEMMA NextHostRefs ==
  ASSUME TypeOK, StackInv, RefsInv, LifeInv, Next, NEW c \in Comps
  PROVE  m_refcnt'[c] = References(c)'
  <1>0. m_refcnt[c] = References(c) /\ References(c) \in Nat
    BY Holding DEF RefsInv
  <1>1. CASE UNCHANGED counts
    BY <1>0, <1>1 DEF counts, References
  <1>2. ASSUME NEW d \in Comps, NEW f \in Interfaces, NEW n \in Nat,
               m_refcnt' = [m_refcnt EXCEPT ![d] = References(d) - host_refs[d][f] + n],
               host_refs' = [host_refs EXCEPT ![d][f] = n]
        PROVE  m_refcnt'[c] = References(c)'
    BY <1>0, <1>2, ReferencesMove, Functions
  <1>3. ASSUME NEW ok \in BOOLEAN, InitPlugin(ok), ~UNCHANGED counts
        PROVE  m_refcnt'[c] = References(c)'
    <2> DEFINE d == on[Main]
    <2>1. m_refcnt' = [m_refcnt EXCEPT ![d] = 1] /\ host_refs' = [host_refs EXCEPT ![d][Component] = 1]
      BY <1>3 DEF InitPlugin
    <2>2. d \in Comps /\ Component \in Interfaces /\ Top(Main) = "create_instance"
      BY <1>3, AtComponent, MainAt DEF InitPlugin, Threads, Interfaces
    <2>3. References(d) = 0 /\ host_refs[d][Component] \in Nat
      BY <2>2, NoneYet
    <2>4. host_refs[d][Component] <= References(d)
      BY <2>2, Holding
    <2>5. References(d) - host_refs[d][Component] + 1 = 1
      BY <2>3, <2>4
    <2> HIDE DEF d
    <2> QED
      BY <1>2, <2>1, <2>2, <2>5
  <1>4. ASSUME NEW d \in Comps, NEW f \in Faces, query_interface(d, f)
        PROVE  m_refcnt'[c] = References(c)'
    <2>1. f \in Interfaces
      BY LifetimesAssumption
    <2>2. m_refcnt[d] = References(d) /\ References(d) \in Nat /\ host_refs[d][f] \in Nat
      BY <2>1, Holding DEF RefsInv
    <2>3. /\ m_refcnt' = [m_refcnt EXCEPT ![d] = m_refcnt[d] + 1]
          /\ host_refs' = [host_refs EXCEPT ![d][f] = host_refs[d][f] + 1]
      BY <1>4 DEF query_interface
    <2>4. /\ m_refcnt[d] + 1 = References(d) - host_refs[d][f] + (host_refs[d][f] + 1)
          /\ host_refs[d][f] + 1 \in Nat
      BY <2>2
    <2> QED
      BY <1>2, <2>1, <2>3, <2>4
  <1>5. ASSUME NEW d \in Comps, NEW f \in Faces, NEW t \in Threads, unref(t, d, f)
        PROVE  m_refcnt'[c] = References(c)'
    <2>1. f \in Interfaces
      BY LifetimesAssumption
    <2>2. m_refcnt[d] = References(d) /\ References(d) \in Nat /\ host_refs[d][f] \in Nat
      BY <2>1, Holding DEF RefsInv
    <2>3. /\ m_refcnt' = [m_refcnt EXCEPT ![d] = m_refcnt[d] - 1]
          /\ host_refs' = [host_refs EXCEPT ![d][f] = host_refs[d][f] - 1]
          /\ host_refs[d][f] > 0
      BY <1>5 DEF unref
    <2>4. /\ m_refcnt[d] - 1 = References(d) - host_refs[d][f] + (host_refs[d][f] - 1)
          /\ host_refs[d][f] - 1 \in Nat
      BY <2>2, <2>3
    <2> QED
      BY <1>2, <2>1, <2>3, <2>4
  <1> QED
    BY <1>1, <1>3, <1>4, <1>5, Writers

LEMMA NextViewRefs ==
  ASSUME CarefulOwner, TypeOK, StackInv, RefsInv, LifeInv, Next, NEW c \in Comps
  PROVE  view_refcnt'[c] = ViewReferences(c)'
  <1>0. view_refcnt[c] = ViewReferences(c) /\ ViewReferences(c) \in Nat
    BY Holding DEF RefsInv
  <1>1. CASE UNCHANGED <<view_refcnt, view_refs>>
    BY <1>0, <1>1 DEF ViewReferences
  <1>2. ASSUME NEW d \in Comps, NEW v \in Views, NEW n \in Nat,
               view_refcnt' = [view_refcnt EXCEPT ![d] = ViewReferences(d) - view_refs[d][v] + n],
               view_refs' = [view_refs EXCEPT ![d][v] = n]
        PROVE  view_refcnt'[c] = ViewReferences(c)'
    BY <1>0, <1>2, ViewReferencesMove, Functions
  <1>3. ASSUME NEW d \in Comps, terminate(d) PROVE view_refcnt'[c] = ViewReferences(c)'
    BY <1>1, <1>3, TerminateAlone DEF terminate
  <1>4. ASSUME NEW d \in Comps, create_view(d) PROVE view_refcnt'[c] = ViewReferences(c)'
    <2>1. View \in Views
      BY DEF Views
    <2>2. /\ view_refcnt[d] = ViewReferences(d) /\ ViewReferences(d) \in Nat
          /\ view_refs[d][View] \in Nat
      BY <2>1, Holding DEF RefsInv
    <2>3. /\ view_refcnt' = [view_refcnt EXCEPT ![d] = IF m_editor[d] THEN view_refcnt[d] + 1 ELSE 1]
          /\ view_refs' = [view_refs EXCEPT ![d][View] = view_refs[d][View] + 1]
      BY <1>4 DEF create_view
    <2>4. (IF m_editor[d] THEN view_refcnt[d] + 1 ELSE 1) = ViewReferences(d) + 1
      BY <2>2, NoneYet
    <2>5. /\ ViewReferences(d) + 1 = ViewReferences(d) - view_refs[d][View] + (view_refs[d][View] + 1)
          /\ view_refs[d][View] + 1 \in Nat
      BY <2>2
    <2> QED
      BY <1>2, <2>1, <2>3, <2>4, <2>5
  <1>5. ASSUME NEW d \in Comps, NEW v \in Views, view_query_interface(d, v)
        PROVE  view_refcnt'[c] = ViewReferences(c)'
    <2>2. view_refcnt[d] = ViewReferences(d) /\ ViewReferences(d) \in Nat /\ view_refs[d][v] \in Nat
      BY Holding DEF RefsInv
    <2>3. /\ view_refcnt' = [view_refcnt EXCEPT ![d] = view_refcnt[d] + 1]
          /\ view_refs' = [view_refs EXCEPT ![d][v] = view_refs[d][v] + 1]
      BY <1>5 DEF view_query_interface
    <2>4. /\ view_refcnt[d] + 1 = ViewReferences(d) - view_refs[d][v] + (view_refs[d][v] + 1)
          /\ view_refs[d][v] + 1 \in Nat
      BY <2>2
    <2> QED
      BY <1>2, <2>3, <2>4
  <1>6. ASSUME NEW d \in Comps, NEW v \in Views, view_unref(d, v)
        PROVE  view_refcnt'[c] = ViewReferences(c)'
    <2>2. view_refcnt[d] = ViewReferences(d) /\ ViewReferences(d) \in Nat /\ view_refs[d][v] \in Nat
      BY Holding DEF RefsInv
    <2>3. /\ view_refcnt' = [view_refcnt EXCEPT ![d] = view_refcnt[d] - 1]
          /\ view_refs' = [view_refs EXCEPT ![d][v] = view_refs[d][v] - 1]
          /\ view_refs[d][v] > 0
      BY <1>6 DEF view_unref
    <2>4. /\ view_refcnt[d] - 1 = ViewReferences(d) - view_refs[d][v] + (view_refs[d][v] - 1)
          /\ view_refs[d][v] - 1 \in Nat
      BY <2>2, <2>3
    <2> QED
      BY <1>2, <2>3, <2>4
  <1>7. CASE UNCHANGED viewed \/ DeleteHookDone \/ \E t \in Threads : DestroyMembers(t)
    BY <1>1, <1>7 DEF viewed, DeleteHookDone, DestroyMembers
  <1> QED
    BY <1>3, <1>4, <1>5, <1>6, <1>7, Writers

LEMMA NextRefs ==
  ASSUME CarefulOwner, TypeOK, StackInv, RefsInv, LifeInv, Next
  PROVE  RefsInv'
  BY NextHostRefs, NextViewRefs DEF RefsInv

-----------------------------------------------------------------------------
(***************************************************************************)
(* The life of components.                                                 *)
(***************************************************************************)
LEMMA SameReferences ==
  ASSUME NEW d
  PROVE  /\ host_refs'[d] = host_refs[d] => References(d)' = References(d) /\ (HostHolds(d)' <=> HostHolds(d))
         /\ view_refs'[d] = view_refs[d] =>
              ViewReferences(d)' = ViewReferences(d) /\ (HostViews(d)' <=> HostViews(d))
  BY DEF HostHolds, HostViews, References, ViewReferences

LEMMA LifeElsewhere ==
  ASSUME NEW d \in Comps, LifeAt(d), Kept(d), Apart(d)
  PROVE  LifeAt(d)'
  <1>1. /\ (HostHolds(d)' <=> HostHolds(d)) /\ (HostViews(d)' <=> HostViews(d))
        /\ plug'[d] = plug[d] /\ m_initialized'[d] = m_initialized[d] /\ m_context'[d] = m_context[d]
        /\ m_runloop'[d] = m_runloop[d] /\ m_editor'[d] = m_editor[d]
    BY SameReferences DEF Kept
  <1>2. /\ on'[Main] = d <=> on[Main] = d
        /\ on[Main] = d => Top(Main)' = Top(Main) /\ Under(Main)' = Under(Main)
        /\ on'[Audio] = d <=> on[Audio] = d
        /\ on[Audio] = d => Top(Audio)' = Top(Audio) /\ Under(Audio)' = Under(Audio)
    BY DEF Apart, Threads
  <1>3. Threads = {Main, Audio} /\ Threads' = Threads
    BY DEF Threads
  <1> QED
    BY <1>1, <1>2, <1>3 DEF LifeAt, In, Deleting, Dying

\* What a step of Main leaves of the threads, in detail.
AudioStays == on'[Audio] = on[Audio] /\ Top(Audio)' = Top(Audio)

LEMMA MainMoves ==
  ASSUME TypeOK, StackInv
  PROVE  /\ \A c, a, b : Begins(Main, c, a, b) =>
              /\ on[Main] = None /\ Top(Main) = "idle" /\ Under(Main) = "idle"
              /\ on'[Main] = c /\ Top(Main)' = a /\ Under(Main)' = b /\ AudioStays
         /\ \A a, b : Passes(Main, a, b) =>
              /\ on[Main] # None /\ Top(Main) = a
              /\ on'[Main] = on[Main] /\ Top(Main)' = b /\ Under(Main)' = Under(Main) /\ AudioStays
         /\ \A a : Ends(Main, a) =>
              /\ on[Main] # None /\ Top(Main) = a
              /\ on'[Main] = (IF Under(Main) = "idle" THEN None ELSE on[Main])
              /\ Top(Main)' = Under(Main) /\ Under(Main)' = "idle" /\ AudioStays
         /\ \A a, b, d : Turns(Main, a, b, d) =>
              /\ on[Main] # None /\ Top(Main) = a /\ Under(Main) = "idle"
              /\ on'[Main] = on[Main] /\ Top(Main)' = b /\ Under(Main)' = d /\ AudioStays
         /\ UNCHANGED <<stack, on>> =>
              /\ on'[Main] = on[Main] /\ Top(Main)' = Top(Main) /\ Under(Main)' = Under(Main)
              /\ AudioStays
  <1>0. /\ Main \in Threads /\ Audio \in Threads \ {Main}
        /\ on \in [Threads -> Comps \cup {None}]
    BY DEF TypeOK, ThreadTypes, Threads, Main, Audio
  <1>1. ASSUME NEW c, NEW a, NEW b, Begins(Main, c, a, b)
        PROVE  /\ on[Main] = None /\ Top(Main) = "idle" /\ Under(Main) = "idle"
               /\ on'[Main] = c /\ Top(Main)' = a /\ Under(Main)' = b /\ AudioStays
    BY <1>0, <1>1 DEF Begins, Moves, AudioStays, StackInv, Loopings
  <1>2. ASSUME NEW a, NEW b, Passes(Main, a, b)
        PROVE  /\ on[Main] # None /\ Top(Main) = a
               /\ on'[Main] = on[Main] /\ Top(Main)' = b /\ Under(Main)' = Under(Main) /\ AudioStays
    BY <1>0, <1>2 DEF Passes, Moves, AudioStays
  <1>3. ASSUME NEW a, Ends(Main, a)
        PROVE  /\ on[Main] # None /\ Top(Main) = a
               /\ on'[Main] = (IF Under(Main) = "idle" THEN None ELSE on[Main])
               /\ Top(Main)' = Under(Main) /\ Under(Main)' = "idle" /\ AudioStays
    BY <1>0, <1>3 DEF Ends, Moves, AudioStays
  <1>4. ASSUME NEW a, NEW b, NEW d, Turns(Main, a, b, d)
        PROVE  /\ on[Main] # None /\ Top(Main) = a /\ Under(Main) = "idle"
               /\ on'[Main] = on[Main] /\ Top(Main)' = b /\ Under(Main)' = d /\ AudioStays
    BY <1>0, <1>4 DEF Turns, Moves, AudioStays
  <1>5. ASSUME UNCHANGED <<stack, on>>
        PROVE  /\ on'[Main] = on[Main] /\ Top(Main)' = Top(Main) /\ Under(Main)' = Under(Main)
               /\ AudioStays
    BY <1>0, <1>5 DEF Top, Under, Idle, AudioStays
  <1> QED
    BY <1>1, <1>2, <1>3, <1>4, <1>5

\* What life needs of the threads that may be in a component.
LEMMA WhoIsWhere ==
  ASSUME TypeOK, StackInv, NEW c \in Comps
  PROVE  /\ c # None /\ (on[Main] = c => on[Audio] # c)
         /\ on[Main] = c <=> on[Main] = c /\ Top(Main) # "idle"
         /\ on[Audio] = c => Top(Audio) \in {"delete", "members"}
         /\ \/ Top(Main) \in Alone \cup {"idle"} /\ Under(Main) = "idle"
            \/ Top(Main) \in Loopings /\ Under(Main) \in Hooked
            \/ Top(Main) = "check_size_constraint" /\ Under(Main) = "on_size"
            \/ Top(Main) \in {"get_size", "temporary"} /\ Under(Main) = "gui show"
  BY LifetimesAssumption DEF StackInv, Threads

\* The life of a component that nothing but the place of a thread changes.
Steady(c) ==
  /\ plug'[c] = plug[c] /\ (HostHolds(c)' <=> HostHolds(c)) /\ (HostViews(c)' <=> HostViews(c))
  /\ m_initialized'[c] = m_initialized[c] /\ m_context'[c] = m_context[c]
  /\ m_runloop'[c] = m_runloop[c] /\ m_editor'[c] = m_editor[c]

LEMMA SteadyBy ==
  ASSUME NEW c, UNCHANGED <<plug, m_initialized, m_context, m_runloop, m_editor, host_refs, view_refs>>
  PROVE  Steady(c)
  BY SameReferences DEF Steady

\* Places that say something about the life of a component.
Makings == {"create_instance", "delete", "members"}
Endings == {"initialize", "terminate", "terminated", "delete hook"}
Framed  == {"gui create", "frame hook"}

Still(c) ==
  /\ AudioStays
  /\ \A p \in Makings : on'[Main] = c /\ Top(Main)' = p <=> on[Main] = c /\ Top(Main) = p
  /\ \A p \in Endings \cup {"create_instance"} : In(c, {p})' <=> In(c, {p})
  /\ In(c, Framed)' => In(c, Framed) \/ m_initialized[c]
  /\ on'[Main] = c => on[Main] = c \/ HostHolds(c)

LEMMA LifeStill ==
  ASSUME NEW c \in Comps, LifeAt(c), Steady(c), Still(c)
  PROVE  LifeAt(c)'
  <1>1. Threads = {Main, Audio} /\ Threads' = Threads
    BY DEF Threads
  <1>2. /\ In(c, {"create_instance"})' <=> In(c, {"create_instance"})
        /\ In(c, {"initialize"})' <=> In(c, {"initialize"})
        /\ In(c, {"terminate"})' <=> In(c, {"terminate"})
        /\ In(c, {"terminated"})' <=> In(c, {"terminated"})
        /\ In(c, {"delete hook"})' <=> In(c, {"delete hook"})
        /\ In(c, {"gui create", "frame hook"})' => In(c, {"gui create", "frame hook"}) \/ m_initialized[c]
    BY DEF Still, Endings, Framed
  <1>3. /\ on'[Main] = c /\ Top(Main)' = "create_instance" <=> on[Main] = c /\ Top(Main) = "create_instance"
        /\ on'[Main] = c /\ Top(Main)' = "delete" <=> on[Main] = c /\ Top(Main) = "delete"
        /\ on'[Main] = c /\ Top(Main)' = "members" <=> on[Main] = c /\ Top(Main) = "members"
        /\ on'[Audio] = on[Audio] /\ Top(Audio)' = Top(Audio)
    BY DEF Still, Makings, AudioStays
  <1>4. /\ Deleting(c)' <=> Deleting(c)
        /\ Dying(c)' <=> Dying(c)
    BY <1>1, <1>3 DEF Deleting, Dying
  <1>5. /\ In(c, {"terminate", "terminated", "delete hook"})'
             <=> In(c, {"terminate", "terminated", "delete hook"})
    BY <1>2 DEF In
  <1>6. on'[Main] = c => HostHolds(c) \/ (on[Main] = c /\ Top(Main) \in {"create_instance", "delete", "members"})
    BY DEF Still, LifeAt
  <1>7. on'[Main] = c => HostHolds(c) \/ Top(Main)' \in {"create_instance", "delete", "members"}
    BY <1>3, <1>6
  <1>8. In(c, {"gui create", "frame hook", "delete hook"})' => m_initialized[c]
    <2>1. In(c, {"gui create", "frame hook", "delete hook"})'
            <=> In(c, {"gui create", "frame hook"})' \/ In(c, {"delete hook"})'
      BY DEF In
    <2>2. In(c, {"gui create", "frame hook", "delete hook"})
            <=> In(c, {"gui create", "frame hook"}) \/ In(c, {"delete hook"})
      BY DEF In
    <2> QED
      BY <1>2, <2>1, <2>2 DEF LifeAt
  <1> QED
    BY <1>2, <1>4, <1>5, <1>7, <1>8 DEF Steady, LifeAt

LEMMA StillBy ==
  ASSUME TypeOK, StackInv, LifeInv, NEW c \in Comps
  PROVE  /\ \A a, b : /\ Begins(Main, c, a, b) /\ HostHolds(c)
                      /\ a \notin Makings \cup Endings /\ b \notin {"create_instance"} \cup Endings
                      /\ a \in Framed \/ b \in Framed => m_initialized[c]
                   => Still(c)
         /\ \A a, b : /\ Passes(Main, a, b) /\ c = on[Main]
                      /\ a \notin Makings \cup Endings /\ b \notin Makings \cup Endings \cup Framed
                   => Still(c)
         /\ \A a : Ends(Main, a) /\ c = on[Main] /\ a \notin Makings \cup Endings => Still(c)
         /\ \A a, b, d : /\ Turns(Main, a, b, d) /\ c = on[Main]
                         /\ a \notin Makings \cup Endings /\ b \notin Makings \cup Endings
                         /\ d \notin {"create_instance"} \cup Endings
                         /\ b \in Framed \/ d \in Framed => a \in Framed
                      => Still(c)
  <1>0. /\ c # None /\ (Under(Main) = "idle" \/ Under(Main) \in Hooked \cup {"on_size", "gui show"})
        /\ "idle" \notin Makings \cup Endings \cup Framed
        /\ Hooked \cap Makings = {} /\ {"on_size", "gui show"} \cap Makings = {}
    BY WhoIsWhere DEF Makings, Endings, Framed, Hooked
  <1>1. ASSUME NEW a, NEW b, Begins(Main, c, a, b), HostHolds(c),
               a \notin Makings \cup Endings, b \notin {"create_instance"} \cup Endings,
               a \in Framed \/ b \in Framed => m_initialized[c]
        PROVE  Still(c)
    <2>1. /\ on[Main] = None /\ on'[Main] = c /\ Top(Main)' = a /\ Under(Main)' = b /\ AudioStays
      BY <1>1, MainMoves
    <2>2. "create_instance" \in Makings
      BY DEF Makings
    <2> QED
      BY <1>0, <1>1, <2>1, <2>2 DEF Still, In
  <1>2. ASSUME NEW a, NEW b, Passes(Main, a, b), c = on[Main],
               a \notin Makings \cup Endings, b \notin Makings \cup Endings \cup Framed
        PROVE  Still(c)
    <2>1. /\ Top(Main) = a /\ on'[Main] = on[Main] /\ Top(Main)' = b /\ Under(Main)' = Under(Main)
          /\ AudioStays
      BY <1>2, MainMoves
    <2>2. "create_instance" \in Makings
      BY DEF Makings
    <2> QED
      BY <1>0, <1>2, <2>1, <2>2 DEF Still, In
  <1>3. ASSUME NEW a, Ends(Main, a), c = on[Main], a \notin Makings \cup Endings
        PROVE  Still(c)
    <2>1. /\ Top(Main) = a /\ on'[Main] = (IF Under(Main) = "idle" THEN None ELSE on[Main])
          /\ Top(Main)' = Under(Main) /\ Under(Main)' = "idle" /\ AudioStays
      BY <1>3, MainMoves
    <2>2. "create_instance" \in Makings
      BY DEF Makings
    <2>3. Under(Main) \notin Makings
      BY <1>0
    <2>4. CASE Under(Main) = "idle"
      BY <1>0, <1>3, <2>1, <2>2, <2>4 DEF Still, In
    <2>5. CASE Under(Main) # "idle"
      BY <1>0, <1>3, <2>1, <2>2, <2>3, <2>5 DEF Still, In
    <2> QED
      BY <2>4, <2>5
  <1>4. ASSUME NEW a, NEW b, NEW d, Turns(Main, a, b, d), c = on[Main],
               a \notin Makings \cup Endings, b \notin Makings \cup Endings,
               d \notin {"create_instance"} \cup Endings, b \in Framed \/ d \in Framed => a \in Framed
        PROVE  Still(c)
    <2>1. /\ Top(Main) = a /\ Under(Main) = "idle"
          /\ on'[Main] = on[Main] /\ Top(Main)' = b /\ Under(Main)' = d /\ AudioStays
      BY <1>4, MainMoves
    <2>2. "create_instance" \in Makings
      BY DEF Makings
    <2> QED
      BY <1>0, <1>4, <2>1, <2>2 DEF Still, In
  <1> QED
    BY <1>1, <1>2, <1>3, <1>4

LEMMA SteadyLife ==
  ASSUME CarefulOwner, TypeOK, StackInv, LifeInv, NEW c \in Comps
  PROVE  /\ TakeInstance /\ c = on[Main] => LifeAt(c)'
         /\ DropInstance /\ c = on[Main] => LifeAt(c)'
         /\ removed(c) => LifeAt(c)'
         /\ get_size(c) => LifeAt(c)'
         /\ FrameHookDone /\ c = on[Main] => LifeAt(c)'
         /\ \A w \in Fitting : GuiCreated(w) /\ c = on[Main] => LifeAt(c)'
         /\ \A w \in Fitting : TemporaryGui(w) /\ c = on[Main] => LifeAt(c)'
         /\ GuiRefused /\ c = on[Main] => LifeAt(c)'
         /\ attached_done /\ c = on[Main] => LifeAt(c)'
         /\ SizeOfGui /\ c = on[Main] => LifeAt(c)'
         /\ NoTemporaryGui /\ c = on[Main] => LifeAt(c)'
         /\ TemporarySize /\ c = on[Main] => LifeAt(c)'
         /\ \A w \in Fitting : request_resize(c, w) => LifeAt(c)'
         /\ \A l \in Lefts, w \in Widths : Drag(c, l, w) => LifeAt(c)'
         /\ check_size_constraint /\ c = on[Main] => LifeAt(c)'
         /\ on_size /\ c = on[Main] => LifeAt(c)'
  <1>1. ASSUME TakeInstance, c = on[Main] PROVE LifeAt(c)'
    <2>2. Steady(c)
      BY <1>1, SteadyBy DEF TakeInstance, counts, loops, viewed, shown
    <2>3. Still(c)
      BY <1>1, Positions, StillBy DEF Makings, Endings, Framed
    <2> QED
      BY <2>2, <2>3, LifeStill DEF LifeInv
  <1>2. ASSUME DropInstance, c = on[Main] PROVE LifeAt(c)'
    <2>2. Steady(c)
      BY <1>2, SteadyBy DEF DropInstance, counts, loops, viewed, shown
    <2>3. Still(c)
      BY <1>2, Positions, StillBy DEF Makings, Endings, Framed
    <2> QED
      BY <2>2, <2>3, LifeStill DEF LifeInv
  <1>3. ASSUME removed(c) PROVE LifeAt(c)'
    <2>1. HostHolds(c)
      BY <1>3, Entering DEF removed, Views
    <2>2. Steady(c)
      BY <1>3, SteadyBy DEF removed, counts, loops, viewed, shown
    <2>4. View \in Views /\ view_refs[c][View] > 0
      BY <1>3 DEF removed, Views
    <2>5. HostViews(c)
      BY <2>4, Holding DEF HostViews
    <2>6. m_initialized[c]
      BY <2>5 DEF LifeInv, LifeAt
    <2>3. Still(c)
      BY <1>3, <2>1, <2>6, Positions, StillBy DEF Makings, Endings, Framed
    <2> QED
      BY <2>2, <2>3, LifeStill DEF LifeInv
  <1>4. ASSUME get_size(c) PROVE LifeAt(c)'
    <2>1. on[Main] # c => HostHolds(c)
      BY <1>4, Entering DEF get_size, Views
    <2>2. Steady(c)
      BY <1>4, SteadyBy DEF get_size, counts, loops, viewed, shown
    <2>3. Still(c)
      <3>1. CASE Begins(Main, c, "get_size", "idle")
        <4>1. on[Main] # c
          BY <3>1, LifetimesAssumption DEF Begins
        <4> QED
          BY <2>1, <3>1, <4>1, StillBy DEF Makings, Endings, Framed
      <3>2. CASE Turns(Main, "gui show", "get_size", "gui show")
        <4>1. ~Idle(Main)
          BY <3>2 DEF Turns, Top
        <4>2. on[Main] = c
          BY <1>4, <4>1 DEF get_size
        <4> QED
          BY <3>2, <4>2, StillBy DEF Makings, Endings, Framed
      <3> QED
        BY <1>4, <3>1, <3>2, Positions
    <2> QED
      BY <2>2, <2>3, LifeStill DEF LifeInv
  <1>5. ASSUME FrameHookDone, c = on[Main] PROVE LifeAt(c)'
    <2>2. Steady(c)
      BY <1>5, SteadyBy DEF FrameHookDone, counts, loops, viewed, shown
    <2>3. Still(c)
      BY <1>5, Positions, StillBy DEF Makings, Endings, Framed
    <2> QED
      BY <2>2, <2>3, LifeStill DEF LifeInv
  <1>6. ASSUME NEW w \in Fitting, GuiCreated(w), c = on[Main] PROVE LifeAt(c)'
    <2>2. Steady(c)
      BY <1>6, SteadyBy DEF GuiCreated, counts, loops, viewed, shown
    <2>3. Still(c)
      BY <1>6, Positions, StillBy DEF Makings, Endings, Framed
    <2> QED
      BY <2>2, <2>3, LifeStill DEF LifeInv
  <1>7. ASSUME NEW w \in Fitting, TemporaryGui(w), c = on[Main] PROVE LifeAt(c)'
    <2>2. Steady(c)
      BY <1>7, SteadyBy DEF TemporaryGui, counts, loops, viewed, shown
    <2>3. Still(c)
      BY <1>7, Positions, StillBy DEF Makings, Endings, Framed
    <2> QED
      BY <2>2, <2>3, LifeStill DEF LifeInv
  <1>8. ASSUME GuiRefused, c = on[Main] PROVE LifeAt(c)'
    <2>2. Steady(c)
      BY <1>8, SteadyBy DEF GuiRefused, counts, loops, viewed, shown
    <2>3. Still(c)
      BY <1>8, Positions, StillBy DEF Makings, Endings, Framed
    <2> QED
      BY <2>2, <2>3, LifeStill DEF LifeInv
  <1>9. ASSUME attached_done, c = on[Main] PROVE LifeAt(c)'
    <2>2. Steady(c)
      BY <1>9, SteadyBy DEF attached_done, counts, loops, viewed, shown
    <2>3. Still(c)
      BY <1>9, Positions, StillBy DEF Makings, Endings, Framed
    <2> QED
      BY <2>2, <2>3, LifeStill DEF LifeInv
  <1>10. ASSUME SizeOfGui, c = on[Main] PROVE LifeAt(c)'
    <2>2. Steady(c)
      BY <1>10, SteadyBy DEF SizeOfGui, counts, loops, viewed, shown
    <2>3. Still(c)
      BY <1>10, Positions, StillBy DEF Makings, Endings, Framed
    <2> QED
      BY <2>2, <2>3, LifeStill DEF LifeInv
  <1>11. ASSUME NoTemporaryGui, c = on[Main] PROVE LifeAt(c)'
    <2>2. Steady(c)
      BY <1>11, SteadyBy DEF NoTemporaryGui, counts, loops, viewed, shown
    <2>3. Still(c)
      BY <1>11, Positions, StillBy DEF Makings, Endings, Framed
    <2> QED
      BY <2>2, <2>3, LifeStill DEF LifeInv
  <1>12. ASSUME TemporarySize, c = on[Main] PROVE LifeAt(c)'
    <2>2. Steady(c)
      BY <1>12, SteadyBy DEF TemporarySize, counts, loops, viewed, shown
    <2>3. Still(c)
      BY <1>12, Positions, StillBy DEF Makings, Endings, Framed
    <2> QED
      BY <2>2, <2>3, LifeStill DEF LifeInv
  <1>13. ASSUME NEW w \in Fitting, request_resize(c, w) PROVE LifeAt(c)'
    <2>1. HostHolds(c)
      BY <1>13, Entering DEF request_resize, Top
    <2>2. Steady(c)
      BY <1>13, SteadyBy DEF request_resize, counts, loops, viewed, shown
    <2>3. Still(c)
      BY <1>13, <2>1, Positions, StillBy DEF Makings, Endings, Framed
    <2> QED
      BY <2>2, <2>3, LifeStill DEF LifeInv
  <1>14. ASSUME NEW l \in Lefts, NEW w \in Widths, Drag(c, l, w) PROVE LifeAt(c)'
    <2>1. HostHolds(c)
      BY <1>14, Entering DEF Drag, Views
    <2>2. Steady(c)
      BY <1>14, SteadyBy DEF Drag, counts, loops, viewed, shown
    <2>3. Still(c)
      BY <1>14, <2>1, Positions, StillBy DEF Makings, Endings, Framed
    <2> QED
      BY <2>2, <2>3, LifeStill DEF LifeInv
  <1>15. ASSUME check_size_constraint, c = on[Main] PROVE LifeAt(c)'
    <2>2. Steady(c)
      BY <1>15, SteadyBy DEF check_size_constraint, counts, loops, viewed, shown
    <2>3. Still(c)
      BY <1>15, Positions, StillBy DEF Makings, Endings, Framed
    <2> QED
      BY <2>2, <2>3, LifeStill DEF LifeInv
  <1>16. ASSUME on_size, c = on[Main] PROVE LifeAt(c)'
    <2>2. Steady(c)
      BY <1>16, SteadyBy DEF on_size, counts, loops, viewed, shown
    <2>3. Still(c)
      BY <1>16, Positions, StillBy DEF Makings, Endings, Framed
    <2> QED
      BY <2>2, <2>3, LifeStill DEF LifeInv
  <1> QED
    BY <1>1, <1>2, <1>3, <1>4, <1>5, <1>6, <1>7, <1>8, <1>9, <1>10, <1>11, <1>12, <1>13, <1>14, <1>15, <1>16

-----------------------------------------------------------------------------
\* Who destroys a component, if Audio is not in it.
LEMMA WhoDestroys ==
  ASSUME NEW c
  PROVE  /\ on[Audio] # c =>
              /\ Dying(c) <=> on[Main] = c /\ Top(Main) = "delete"
              /\ Deleting(c) <=> on[Main] = c /\ Top(Main) \in {"delete", "members"}
         /\ on'[Audio] # c =>
              /\ Dying(c)' <=> on'[Main] = c /\ Top(Main)' = "delete"
              /\ Deleting(c)' <=> on'[Main] = c /\ Top(Main)' \in {"delete", "members"}
  <1>1. Threads = {Main, Audio} /\ Threads' = Threads
    BY DEF Threads
  <1>2. ASSUME on[Audio] # c
        PROVE  /\ Dying(c) <=> on[Main] = c /\ Top(Main) = "delete"
               /\ Deleting(c) <=> on[Main] = c /\ Top(Main) \in {"delete", "members"}
    BY <1>1, <1>2 DEF Dying, Deleting
  <1>3. ASSUME on'[Audio] # c
        PROVE  /\ Dying(c)' <=> on'[Main] = c /\ Top(Main)' = "delete"
               /\ Deleting(c)' <=> on'[Main] = c /\ Top(Main)' \in {"delete", "members"}
    BY <1>1, <1>3 DEF Dying, Deleting
  <1> QED
    BY <1>2, <1>3

LEMMA LifeOfCreate ==
  ASSUME TypeOK, StackInv, LifeInv, NEW c \in Comps, create_instance(c)
  PROVE  LifeAt(c)'
  <1>1. /\ on'[Main] = c /\ Top(Main)' = "create_instance" /\ Under(Main)' = "idle"
        /\ on'[Audio] = on[Audio]
    BY Positions, MainMoves DEF AudioStays
  <1>2. on[Audio] # c /\ on[Main] # c /\ plug[c] = "none"
    BY DEF create_instance, Threads
  <1>3. /\ plug'[c] = "created" /\ m_initialized'[c] = m_initialized[c]
        /\ m_context'[c] = m_context[c] /\ m_runloop'[c] = m_runloop[c] /\ m_editor'[c] = m_editor[c]
        /\ (HostHolds(c)' <=> HostHolds(c)) /\ (HostViews(c)' <=> HostViews(c))
    BY Functions, SameReferences DEF create_instance, counts, loops, viewed, shown
  <1>4. /\ ~HostHolds(c) /\ ~m_initialized[c] /\ m_runloop[c] = None /\ m_context[c] = None
        /\ ~HostViews(c) /\ ~m_editor[c]
    BY <1>2 DEF LifeInv, LifeAt, In
  <1> QED
    BY <1>1, <1>2, <1>3, <1>4, WhoDestroys DEF LifeAt, In

LEMMA LifeOfInit ==
  ASSUME TypeOK, StackInv, LifeInv, NEW ok \in BOOLEAN, NEW c \in Comps, InitPlugin(ok), c = on[Main]
  PROVE  LifeAt(c)'
  <1>0. Top(Main) = "create_instance" /\ Under(Main) = "idle" /\ on[Audio] # c /\ c # None
    <2>1. Ends(Main, "create_instance")
      BY Positions
    <2>2. Top(Main) = "create_instance"
      BY <2>1 DEF Ends
    <2> QED
      BY <2>2, WhoIsWhere DEF Loopings
  <1>1. on'[Main] = None /\ Top(Main)' = "idle" /\ Under(Main)' = "idle" /\ on'[Audio] = on[Audio]
    BY <1>0, Positions, MainMoves DEF AudioStays
  <1>2. /\ m_initialized'[c] = m_initialized[c]
        /\ m_context'[c] = m_context[c] /\ m_runloop'[c] = m_runloop[c] /\ m_editor'[c] = m_editor[c]
        /\ (HostViews(c)' <=> HostViews(c))
    BY SameReferences DEF InitPlugin, loops, viewed
  <1>3. plug' = [plug EXCEPT ![c] = IF ok THEN "ready" ELSE "none"]
    BY DEF InitPlugin
  <1>4. plug'[c] = (IF ok THEN "ready" ELSE "none")
    BY <1>3, Functions
  <1>5. /\ ~HostHolds(c) /\ ~m_initialized[c] /\ m_runloop[c] = None /\ m_context[c] = None
        /\ ~HostViews(c) /\ ~m_editor[c]
    BY <1>0 DEF LifeInv, LifeAt, In
  <1>6. ok => HostHolds(c)'
    <2> HAVE ok
    <2>1. host_refs' = [host_refs EXCEPT ![c][Component] = 1] /\ Component \in Interfaces
      BY DEF InitPlugin, Interfaces
    <2>2. References(c) = 0 /\ host_refs[c][Component] \in Nat /\ host_refs[c][Component] <= References(c)
      BY <1>0, <2>1, NoneYet, Holding
    <2>3. References(c)' = References(c) - host_refs[c][Component] + 1
      BY <2>1, ReferencesMove
    <2> QED
      BY <2>2, <2>3 DEF HostHolds
  <1>7. ~ok => ~HostHolds(c)'
    BY <1>5, SameReferences DEF InitPlugin, counts
  <1> QED
    BY <1>0, <1>1, <1>2, <1>4, <1>5, <1>6, <1>7, WhoDestroys DEF LifeAt, In

LEMMA LifeOfQuery ==
  ASSUME TypeOK, StackInv, LifeInv, NEW c \in Comps,
         (\E f \in Faces : query_interface(c, f)) \/ (\E v \in Views : view_query_interface(c, v))
  PROVE  LifeAt(c)'
  <1>1. UNCHANGED <<plug, m_initialized, m_context, m_runloop, m_editor, stack, on>>
    BY DEF query_interface, view_query_interface, loops, viewed
  <1>2. HostHolds(c)' <=> HostHolds(c)
    <2>1. ASSUME NEW f \in Faces, query_interface(c, f) PROVE HostHolds(c) /\ HostHolds(c)'
      <3>1. f \in Interfaces
        BY LifetimesAssumption
      <3>2. References(c) \in Nat /\ host_refs[c][f] \in Nat /\ host_refs[c][f] + 1 \in Nat
        BY <3>1, Holding
      <3>3. host_refs' = [host_refs EXCEPT ![c][f] = host_refs[c][f] + 1] /\ HostHolds(c)
        BY <2>1 DEF query_interface
      <3>4. References(c)' = References(c) - host_refs[c][f] + (host_refs[c][f] + 1)
        BY <3>1, <3>2, <3>3, ReferencesMove
      <3> QED
        BY <3>2, <3>3, <3>4 DEF HostHolds
    <2>2. ASSUME NEW v \in Views, view_query_interface(c, v) PROVE (HostHolds(c)' <=> HostHolds(c))
      BY <2>2, SameReferences DEF view_query_interface, counts
    <2> QED
      BY <2>1, <2>2
  <1>3. HostViews(c)' <=> HostViews(c)
    <2>1. ASSUME NEW v \in Views, view_query_interface(c, v) PROVE HostViews(c) /\ HostViews(c)'
      <3>2. ViewReferences(c) \in Nat /\ view_refs[c][v] \in Nat /\ view_refs[c][v] + 1 \in Nat
        BY Holding
      <3>3. view_refs' = [view_refs EXCEPT ![c][v] = view_refs[c][v] + 1] /\ HostViews(c)
        BY <2>1 DEF view_query_interface
      <3>4. ViewReferences(c)' = ViewReferences(c) - view_refs[c][v] + (view_refs[c][v] + 1)
        BY <3>2, <3>3, ViewReferencesMove
      <3> QED
        BY <3>2, <3>3, <3>4 DEF HostViews
    <2>2. ASSUME NEW f \in Faces, query_interface(c, f) PROVE (HostViews(c)' <=> HostViews(c))
      BY <2>2, SameReferences DEF query_interface, viewed
    <2> QED
      BY <2>1, <2>2
  <1>4. Steady(c)
    BY <1>1, <1>2, <1>3 DEF Steady
  <1>5. Still(c)
    BY <1>1, MainMoves DEF Still, In
  <1> QED
    BY <1>4, <1>5, LifeStill DEF LifeInv

-----------------------------------------------------------------------------
\* The last reference goes, and with it the component.
LEMMA LifeOfUnref ==
  ASSUME CarefulOwner, TypeOK, StackInv, RefsInv, LifeInv,
         NEW c \in Comps, NEW f \in Faces, NEW t \in Threads, unref(t, c, f)
  PROVE  LifeAt(c)'
  <1>0. f \in Interfaces
    BY LifetimesAssumption
  <1>1. /\ m_refcnt[c] = References(c) /\ References(c) \in Nat /\ host_refs[c][f] \in Nat
        /\ host_refs[c][f] > 0 /\ host_refs[c][f] <= References(c) /\ host_refs[c][f] - 1 \in Nat
    BY <1>0, Holding DEF RefsInv, unref
  <1>2. HostHolds(c) /\ on[Audio] # c /\ LifeAt(c)
    BY <1>1, NotInAudio DEF HostHolds, LifeInv
  <1>3. host_refs' = [host_refs EXCEPT ![c][f] = host_refs[c][f] - 1]
    BY DEF unref
  <1>4. References(c)' = References(c) - 1
    <2>1. References(c)' = References(c) - host_refs[c][f] + (host_refs[c][f] - 1)
      BY <1>0, <1>1, <1>3, ReferencesMove
    <2> QED
      BY <1>1, <2>1
  <1>5. /\ plug'[c] = plug[c] /\ m_initialized'[c] = m_initialized[c]
        /\ m_context'[c] = m_context[c] /\ m_runloop'[c] = m_runloop[c] /\ m_editor'[c] = m_editor[c]
        /\ (HostViews(c)' <=> HostViews(c))
    BY SameReferences DEF unref, loops, viewed
  <1>6. CASE m_refcnt[c] # 1
    <2>1. UNCHANGED <<stack, on>> /\ HostHolds(c)'
      <3>1. UNCHANGED <<stack, on>>
        BY <1>6, PositionsOfRefs
      <3>2. References(c)' > 0
        BY <1>1, <1>4, <1>6
      <3> QED
        BY <3>1, <3>2 DEF HostHolds
    <2>2. Steady(c)
      BY <1>2, <1>5, <2>1 DEF Steady
    <2>3. Still(c)
      BY <2>1, MainMoves DEF Still, In
    <2> QED
      BY <1>2, <2>2, <2>3, LifeStill
  <1>7. CASE m_refcnt[c] = 1
    <2>1. Begins(t, c, "delete", "idle")
      BY <1>7, PositionsOfRefs
    <2>2. ~HostHolds(c)' /\ ~m_initialized[c] /\ ~HostViews(c) /\ on[Main] # c
      BY <1>1, <1>4, <1>7 DEF HostHolds, unref, Careful, CarefulOwner
    <2>3. /\ plug[c] = "ready" /\ m_runloop[c] = None /\ m_context[c] = None /\ ~m_editor[c]
      BY <1>2, <2>2 DEF LifeAt, In
    <2>4. CASE t = Main
      <3>1. /\ on'[Main] = c /\ Top(Main)' = "delete" /\ Under(Main)' = "idle"
            /\ on'[Audio] = on[Audio]
        BY <2>1, <2>4, MainMoves DEF AudioStays
      <3> QED
        BY <1>2, <1>5, <2>2, <2>3, <3>1, WhoDestroys DEF LifeAt, In
    <2>5. CASE t = Audio
      <3>1. on'[Main] = on[Main] /\ on'[Audio] = c /\ Top(Audio)' = "delete"
        BY <2>1, <2>5 DEF Begins, Moves, Threads, Main, Audio, TypeOK, ThreadTypes
      <3>2. Dying(c)' /\ Audio \in Threads
        BY <3>1 DEF Dying, Threads
      <3> QED
        BY <1>2, <1>5, <2>2, <2>3, <3>1, <3>2 DEF LifeAt, In
    <2> QED
      BY <2>4, <2>5 DEF Threads
  <1> QED
    BY <1>6, <1>7

\* The threads of a component that is destroyed.
LEMMA Destroying ==
  ASSUME TypeOK, StackInv, LifeInv, NEW t \in Threads, NEW c \in Comps, c = on[t],
         Top(t) \in {"delete", "members"}
  PROVE  /\ ~HostHolds(c) /\ ~m_initialized[c] /\ ~HostViews(c) /\ ~m_editor[c]
         /\ m_runloop[c] = None /\ m_context[c] = None /\ plug[c] # "created"
         /\ \A u \in Threads \ {t} : on[u] # c
         /\ Under(t) = "idle"
  <1>1. \A u \in Threads \ {t} : on[u] # c
    <2>1. c # None
      BY LifetimesAssumption
    <2>2. on[Main] # None => on[Main] # on[Audio]
      BY DEF StackInv
    <2> QED
      BY <2>1, <2>2 DEF Threads
  <1>2. ~HostHolds(c) /\ ~m_initialized[c] /\ ~HostViews(c)
    BY DEF Deleting, LifeInv, LifeAt
  <1>3. /\ Under(t) = "idle"
        /\ on[Main] = c => t = Main
    BY <1>1 DEF StackInv, Loopings, Threads
  <1>4. \A p \in Endings \cup {"create_instance"} : ~In(c, {p})
    BY <1>3 DEF In, Endings
  <1>5. ~In(c, {"create_instance"}) /\ ~In(c, {"initialize"}) /\ ~In(c, {"delete hook"})
    BY <1>4 DEF Endings
  <1>6. ~m_editor[c] /\ m_runloop[c] = None /\ m_context[c] = None /\ plug[c] # "created"
    BY <1>2, <1>5 DEF LifeInv, LifeAt
  <1> QED
    BY <1>1, <1>2, <1>3, <1>6

LEMMA LifeOfDestroyPlugin ==
  ASSUME TypeOK, StackInv, LifeInv, NEW t \in Threads, NEW c \in Comps, c = on[t], DestroyPlugin(t)
  PROVE  LifeAt(c)'
  <1>1. Passes(t, "delete", "members")
    BY Positions
  <1>2. /\ ~HostHolds(c) /\ ~m_initialized[c] /\ ~HostViews(c) /\ ~m_editor[c]
        /\ m_runloop[c] = None /\ m_context[c] = None
        /\ \A u \in Threads \ {t} : on[u] # c
        /\ Under(t) = "idle"
    BY <1>1, Destroying DEF Passes
  <1>3. /\ plug'[c] = "none" /\ m_initialized'[c] = m_initialized[c]
        /\ m_context'[c] = m_context[c] /\ m_runloop'[c] = m_runloop[c] /\ m_editor'[c] = m_editor[c]
        /\ (HostHolds(c)' <=> HostHolds(c)) /\ (HostViews(c)' <=> HostViews(c))
    BY Functions, SameReferences DEF DestroyPlugin, counts, loops, viewed
  <1>4. on' = on /\ Top(t)' = "members" /\ Under(t)' = "idle"
    BY <1>1, <1>2 DEF Passes, Moves
  <1>6. /\ ~In(c, {"create_instance"})'
        /\ ~In(c, {"terminated"})' /\ ~In(c, {"terminate", "terminated", "delete hook"})'
        /\ ~In(c, {"gui create", "frame hook", "delete hook"})'
    BY <1>2, <1>4 DEF In, Threads
  <1>7. on'[Main] = c => Top(Main)' = "members"
    BY <1>2, <1>4 DEF Threads
  <1> QED
    BY <1>2, <1>3, <1>6, <1>7 DEF LifeAt

LEMMA LifeOfDestroyMembers ==
  ASSUME TypeOK, StackInv, LifeInv, NEW t \in Threads, NEW c \in Comps, c = on[t], DestroyMembers(t)
  PROVE  LifeAt(c)'
  <1>1. Ends(t, "members")
    BY Positions
  <1>2. /\ ~HostHolds(c) /\ ~HostViews(c) /\ plug[c] # "created"
        /\ \A u \in Threads \ {t} : on[u] # c
        /\ Under(t) = "idle" /\ Top(t) = "members"
    BY <1>1, Destroying DEF Ends
  <1>3. /\ plug'[c] = plug[c] /\ m_initialized'[c] = FALSE /\ m_context'[c] = None
        /\ m_editor'[c] = FALSE
        /\ (HostHolds(c)' <=> HostHolds(c)) /\ (HostViews(c)' <=> HostViews(c))
    BY Functions, SameReferences DEF DestroyMembers, counts
  <1>4. m_runloop'[c] = None
    BY SetRunLoopAt, Functions DEF DestroyMembers
  <1>5. \A u \in Threads : on'[u] # c
    BY <1>1, <1>2, LifetimesAssumption DEF Ends, TypeOK, ThreadTypes
  <1>6. plug[c] # "ready"
    <2>1. ~Dying(c)
      BY <1>2 DEF Dying
    <2> QED
      BY <1>2, <2>1 DEF LifeInv, LifeAt
  <1>7. Main \in Threads
    BY DEF Threads
  <1> QED
    BY <1>2, <1>3, <1>4, <1>5, <1>6, <1>7 DEF LifeAt, In

-----------------------------------------------------------------------------
\* A function of Main that ends was in c, where Audio is not.
LEMMA EndsIn ==
  ASSUME TypeOK, StackInv, NEW c \in Comps, NEW a \in Alone \ {"get_size", "temporary"},
         Ends(Main, a), c = on[Main]
  PROVE  /\ Top(Main) = a /\ Under(Main) = "idle" /\ on[Audio] # c
         /\ on'[Main] # c /\ on'[Audio] # c
  <1>1. /\ Top(Main) = a /\ on'[Main] = (IF Under(Main) = "idle" THEN None ELSE on[Main])
        /\ AudioStays
    BY MainMoves
  <1>2. on[Audio] # c /\ c # None
    BY WhoIsWhere
  <1>4. Under(Main) = "idle"
    BY <1>1, WhoIsWhere DEF Alone, Loopings, Hooked
  <1> QED
    BY <1>1, <1>2, <1>4 DEF AudioStays

LEMMA LifeOfInitialize ==
  ASSUME TypeOK, StackInv, LifeInv, NEW c \in Comps, NEW x, initialize(c, x)
  PROVE  LifeAt(c)'
  <1>1. HostHolds(c) /\ on[Audio] # c /\ LifeAt(c)
    BY Entering, LifetimesAssumption DEF initialize, LifeInv
  <1>2. /\ on[Main] # c /\ on'[Main] = c /\ Top(Main)' = "instance" /\ Under(Main)' = "initialize"
        /\ on'[Audio] # c
    BY <1>1, Positions, MainMoves, WhoIsWhere DEF AudioStays
  <1>3. /\ plug'[c] = plug[c] /\ m_initialized'[c] = FALSE /\ ~m_initialized[c]
        /\ m_runloop'[c] = m_runloop[c] /\ m_editor'[c] = m_editor[c]
        /\ (HostHolds(c)' <=> HostHolds(c)) /\ (HostViews(c)' <=> HostViews(c))
    BY Functions, SameReferences DEF initialize, counts, loops, viewed
  <1>4. /\ In(c, {"initialize"})' /\ ~In(c, {"create_instance"})' /\ ~In(c, {"create_instance"})
        /\ ~In(c, {"terminated"})' /\ ~In(c, {"terminate", "terminated", "delete hook"})'
        /\ ~In(c, {"gui create", "frame hook", "delete hook"})'
        /\ ~In(c, {"delete hook"})'  /\ ~In(c, {"delete hook"})
    BY <1>2 DEF In
  <1> QED
    BY <1>1, <1>2, <1>3, <1>4, WhoDestroys DEF LifeAt

LEMMA LifeOfInitialized ==
  ASSUME TypeOK, StackInv, LifeInv, NEW c \in Comps, c = on[Main], initialize_done
  PROVE  LifeAt(c)'
  <1>1. /\ Top(Main) = "initialize" /\ Under(Main) = "idle" /\ on[Audio] # c
        /\ on'[Main] # c /\ on'[Audio] # c
    BY Positions, EndsIn DEF Alone, Hooked
  <1>2. /\ plug'[c] = plug[c] /\ m_initialized'[c] = TRUE
        /\ m_editor'[c] = m_editor[c]
        /\ (HostHolds(c)' <=> HostHolds(c)) /\ (HostViews(c)' <=> HostViews(c))
    BY Functions, SameReferences DEF initialize_done, counts, loops, viewed
  <1>3. /\ LifeAt(c) /\ ~In(c, {"create_instance"}) /\ ~In(c, {"delete hook"})
        /\ \A S : ~In(c, S)'
    BY <1>1 DEF In, LifeInv
  <1> QED
    BY <1>1, <1>2, <1>3, WhoDestroys DEF LifeAt

LEMMA LifeOfTerminate ==
  ASSUME CarefulOwner, TypeOK, StackInv, LifeInv, NEW c \in Comps, terminate(c)
  PROVE  LifeAt(c)'
  <1>1. HostHolds(c) /\ on[Audio] # c /\ LifeAt(c)
    BY Entering, LifetimesAssumption DEF terminate, LifeInv
  <1>2. ~HostViews(c) /\ ~m_editor[c] /\ Begins(Main, c, "terminate", "idle")
    BY TerminateAlone
  <1>3. /\ on[Main] # c /\ on'[Main] = c /\ Top(Main)' = "terminate" /\ Under(Main)' = "idle"
        /\ on'[Audio] # c
    BY <1>1, <1>2, MainMoves, WhoIsWhere DEF AudioStays
  <1>4. /\ plug'[c] = plug[c] /\ m_initialized[c] /\ m_initialized'[c] = m_initialized[c]
        /\ m_runloop'[c] = m_runloop[c] /\ m_editor'[c] = m_editor[c]
        /\ (HostHolds(c)' <=> HostHolds(c)) /\ (HostViews(c)' <=> HostViews(c))
    BY SameReferences DEF terminate, counts, loops
  <1>5. /\ ~In(c, {"create_instance"})' /\ ~In(c, {"create_instance"})
        /\ ~In(c, {"terminated"})' /\ ~In(c, {"gui create", "frame hook", "delete hook"})'
    BY <1>3 DEF In
  <1> QED
    BY <1>1, <1>2, <1>3, <1>4, <1>5, WhoDestroys DEF LifeAt

\* Main is in c, which is therefore held, alone and not about to be destroyed.
LEMMA InMain ==
  ASSUME TypeOK, StackInv, LifeInv, NEW c \in Comps, c = on[Main],
         Top(Main) \notin {"create_instance", "delete", "members"}
  PROVE  /\ HostHolds(c) /\ on[Audio] # c /\ plug[c] = "ready" /\ LifeAt(c)
         /\ ~In(c, {"create_instance"})
  <1>1. on[Audio] # c
    BY WhoIsWhere
  <1>2. HostHolds(c) /\ LifeAt(c)
    BY DEF LifeInv, LifeAt
  <1>3. plug[c] = "ready"
    BY <1>2 DEF LifeAt
  <1>4. ~In(c, {"create_instance"})
    BY <1>2, <1>3 DEF LifeAt
  <1> QED
    BY <1>1, <1>2, <1>3, <1>4

LEMMA LifeOfTerminateLoop ==
  ASSUME TypeOK, StackInv, LifeInv, NEW c \in Comps, c = on[Main], terminate_loop
  PROVE  LifeAt(c)'
  <1>1. Passes(Main, "terminate", "terminated")
    BY Positions
  <1>2. /\ Top(Main) = "terminate" /\ on'[Main] = c /\ Top(Main)' = "terminated"
        /\ Under(Main)' = Under(Main) /\ on'[Audio] = on[Audio] /\ Under(Main) = "idle"
    <2>1. /\ Top(Main) = "terminate" /\ on'[Main] = c /\ Top(Main)' = "terminated"
          /\ Under(Main)' = Under(Main) /\ on'[Audio] = on[Audio]
      BY <1>1, MainMoves DEF AudioStays
    <2>2. Under(Main) = "idle"
      BY <2>1, WhoIsWhere DEF Loopings
    <2> QED
      BY <2>1, <2>2
  <1>3. /\ HostHolds(c) /\ on[Audio] # c /\ plug[c] = "ready" /\ LifeAt(c)
        /\ ~In(c, {"create_instance"})
    BY <1>2, InMain
  <1>4. /\ plug'[c] = plug[c] /\ m_initialized'[c] = m_initialized[c]
        /\ m_context'[c] = m_context[c] /\ m_runloop'[c] = None /\ m_editor'[c] = m_editor[c]
        /\ (HostHolds(c)' <=> HostHolds(c)) /\ (HostViews(c)' <=> HostViews(c))
    BY Functions, SetRunLoopAt, SameReferences DEF terminate_loop, counts, viewed
  <1>5. /\ ~In(c, {"create_instance"})' /\ ~In(c, {"initialize"})
        /\ In(c, {"terminate", "terminated", "delete hook"}) /\ ~In(c, {"delete hook"})
        /\ ~In(c, {"gui create", "frame hook", "delete hook"})'
    BY <1>2 DEF In
  <1> QED
    BY <1>2, <1>3, <1>4, <1>5, WhoDestroys DEF LifeAt

LEMMA LifeOfTerminated ==
  ASSUME TypeOK, StackInv, LifeInv, NEW c \in Comps, c = on[Main], terminate_done
  PROVE  LifeAt(c)'
  <1>1. /\ Top(Main) = "terminated" /\ Under(Main) = "idle" /\ on[Audio] # c
        /\ on'[Main] # c /\ on'[Audio] # c
    BY Positions, EndsIn DEF Alone, Hooked
  <1>2. /\ plug'[c] = plug[c] /\ m_initialized'[c] = FALSE /\ m_context'[c] = None
        /\ m_runloop'[c] = m_runloop[c] /\ m_editor'[c] = m_editor[c]
        /\ (HostHolds(c)' <=> HostHolds(c)) /\ (HostViews(c)' <=> HostViews(c))
    BY Functions, SameReferences DEF terminate_done, counts, loops, viewed
  <1>3. /\ LifeAt(c) /\ ~In(c, {"create_instance"}) /\ ~In(c, {"delete hook"})
        /\ In(c, {"terminated"}) /\ In(c, {"terminate", "terminated", "delete hook"})
        /\ \A S : ~In(c, S)'
    BY <1>1 DEF In, LifeInv
  <1> QED
    BY <1>1, <1>2, <1>3, WhoDestroys DEF LifeAt

LEMMA LifeOfSwitch ==
  ASSUME TypeOK, StackInv, LifeInv, NEW c \in Comps, c = on[Main], SwitchToInstance
  PROVE  LifeAt(c)'
  <1>1. Passes(Main, "set_run_loop", "unref")
    BY Positions
  <1>2. /\ Top(Main) = "set_run_loop" /\ on'[Main] = c /\ Top(Main)' = "unref"
        /\ Under(Main)' = Under(Main) /\ on'[Audio] = on[Audio]
    BY <1>1, MainMoves DEF AudioStays
  <1>3. Under(Main) \in Hooked
    BY <1>2, WhoIsWhere DEF Alone, Hooked
  <1>4. /\ HostHolds(c) /\ on[Audio] # c /\ plug[c] = "ready" /\ LifeAt(c)
        /\ ~In(c, {"create_instance"})
    BY <1>2, InMain
  <1>5. /\ plug'[c] = plug[c] /\ m_initialized'[c] = m_initialized[c]
        /\ m_context'[c] = m_context[c] /\ m_editor'[c] = m_editor[c]
        /\ (HostHolds(c)' <=> HostHolds(c)) /\ (HostViews(c)' <=> HostViews(c))
    BY SameReferences DEF SwitchToInstance, counts, viewed
  <1>6. \A S : (In(c, S \cap Hooked)' <=> In(c, S \cap Hooked))
    BY <1>2, <1>3 DEF In, Hooked
  <1>7. /\ ~In(c, {"create_instance"})' /\ ~In(c, {"terminated"})'
        /\ (In(c, {"initialize"})' <=> In(c, {"initialize"}))
        /\ (In(c, {"delete hook"})' <=> In(c, {"delete hook"}))
        /\ (In(c, {"terminate", "terminated", "delete hook"})' => In(c, {"terminate", "terminated", "delete hook"}))
        /\ (In(c, {"gui create", "frame hook", "delete hook"})' => In(c, {"gui create", "frame hook", "delete hook"}))
    BY <1>2, <1>3 DEF In, Hooked
  <1>8. m_initialized[c] \/ In(c, {"initialize"})
    <2>1. In(c, {"initialize"}) \/ In(c, {"gui create", "frame hook", "delete hook"})
      BY <1>3 DEF In, Hooked
    <2> QED
      BY <1>4, <2>1 DEF LifeAt
  <1> QED
    BY <1>2, <1>4, <1>5, <1>7, <1>8, WhoDestroys DEF LifeAt

LEMMA LifeOfCreateView ==
  ASSUME TypeOK, StackInv, LifeInv, NEW c \in Comps, create_view(c)
  PROVE  LifeAt(c)'
  <1>1. HostHolds(c) /\ on[Audio] # c /\ LifeAt(c)
    BY Entering, LifetimesAssumption DEF create_view, LifeInv
  <1>2. on[Main] # c /\ UNCHANGED <<stack, on>>
    BY WhoIsWhere DEF create_view, Top
  <1>3. \A S : ~In(c, S) /\ ~In(c, S)'
    BY <1>2 DEF In
  <1>4. HostViews(c)'
    <2>1. View \in Views
      BY DEF Views
    <2>2. /\ ViewReferences(c) \in Nat /\ view_refs[c][View] \in Nat /\ view_refs[c][View] + 1 \in Nat
      BY <2>1, Holding
    <2>3. view_refs' = [view_refs EXCEPT ![c][View] = view_refs[c][View] + 1]
      BY DEF create_view
    <2>4. ViewReferences(c)' = ViewReferences(c) - view_refs[c][View] + (view_refs[c][View] + 1)
      BY <2>1, <2>2, <2>3, ViewReferencesMove
    <2> QED
      BY <2>2, <2>4 DEF HostViews
  <1>5. /\ plug'[c] = plug[c] /\ m_initialized'[c] = m_initialized[c] /\ m_initialized[c]
        /\ m_context'[c] = m_context[c] /\ m_runloop'[c] = m_runloop[c] /\ m_editor'[c] = TRUE
        /\ (HostHolds(c)' <=> HostHolds(c))
    BY Functions, SameReferences DEF create_view, counts, loops
  <1>6. on'[Audio] # c /\ on'[Main] # c
    BY <1>1, <1>2
  <1> QED
    BY <1>1, <1>2, <1>3, <1>4, <1>5, <1>6, WhoDestroys DEF LifeAt

LEMMA LifeOfViewUnref ==
  ASSUME TypeOK, StackInv, RefsInv, LifeInv, NEW c \in Comps, NEW v \in Views, view_unref(c, v)
  PROVE  LifeAt(c)'
  <1>1. HostHolds(c) /\ on[Audio] # c /\ LifeAt(c)
    BY Entering DEF view_unref, LifeInv
  <1>2. /\ view_refcnt[c] = ViewReferences(c) /\ ViewReferences(c) \in Nat /\ view_refs[c][v] \in Nat
        /\ view_refs[c][v] > 0 /\ view_refs[c][v] <= ViewReferences(c) /\ view_refs[c][v] - 1 \in Nat
    <2>1. view_refs[c][v] > 0
      BY DEF view_unref
    <2>2. /\ view_refcnt[c] = ViewReferences(c) /\ ViewReferences(c) \in Nat
          /\ view_refs[c][v] \in Nat /\ view_refs[c][v] <= ViewReferences(c)
      BY Holding DEF RefsInv
    <2> QED
      BY <2>1, <2>2
  <1>3. HostViews(c) /\ on[Main] # c
    <2>1. ViewReferences(c) > 0
      BY <1>2
    <2>2. on[Main] # c
      BY WhoIsWhere DEF view_unref, Top
    <2> QED
      BY <2>1, <2>2 DEF HostViews
  <1>4. view_refs' = [view_refs EXCEPT ![c][v] = view_refs[c][v] - 1]
    BY DEF view_unref
  <1>5. ViewReferences(c)' = ViewReferences(c) - 1
    <2>1. ViewReferences(c)' = ViewReferences(c) - view_refs[c][v] + (view_refs[c][v] - 1)
      BY <1>2, <1>4, ViewReferencesMove
    <2> QED
      BY <1>2, <2>1
  <1>6. /\ plug'[c] = plug[c] /\ m_initialized'[c] = m_initialized[c]
        /\ m_context'[c] = m_context[c] /\ m_runloop'[c] = m_runloop[c] /\ m_editor'[c] = m_editor[c]
        /\ (HostHolds(c)' <=> HostHolds(c))
    BY SameReferences DEF view_unref, loops, counts
  <1>7. CASE view_refcnt[c] # 1
    <2>1. UNCHANGED <<stack, on>>
      BY <1>7, PositionsOfRefs
    <2>2. HostViews(c)'
      <3>1. ViewReferences(c)' > 0
        BY <1>2, <1>5, <1>7
      <3> QED
        BY <3>1 DEF HostViews
    <2>3. Steady(c)
      BY <1>3, <1>6, <2>2 DEF Steady
    <2>4. Still(c)
      BY <2>1, MainMoves DEF Still, In
    <2> QED
      BY <1>1, <2>3, <2>4, LifeStill
  <1>8. CASE view_refcnt[c] = 1
    <2>1. /\ on'[Main] = c /\ Top(Main)' = "instance" /\ Under(Main)' = "delete hook"
          /\ on'[Audio] # c
      BY <1>1, <1>8, PositionsOfRefs, MainMoves DEF AudioStays
    <2>2. ~HostViews(c)'
      BY <1>2, <1>5, <1>8 DEF HostViews
    <2>3. /\ ~In(c, {"create_instance"})' /\ ~In(c, {"create_instance"})
          /\ ~In(c, {"terminated"})' /\ In(c, {"delete hook"})'
          /\ ~In(c, {"initialize"})
      BY <1>3, <2>1 DEF In
    <2>4. m_initialized[c]
      BY <1>1, <1>3 DEF LifeAt
    <2> QED
      BY <1>1, <1>3, <1>6, <2>1, <2>2, <2>3, <2>4, WhoDestroys DEF LifeAt
  <1> QED
    BY <1>7, <1>8

LEMMA LifeOfDeleteHook ==
  ASSUME TypeOK, StackInv, LifeInv, NEW c \in Comps, c = on[Main], DeleteHookDone
  PROVE  LifeAt(c)'
  <1>1. /\ Top(Main) = "delete hook" /\ Under(Main) = "idle" /\ on[Audio] # c
        /\ on'[Main] # c /\ on'[Audio] # c
    BY Positions, EndsIn DEF Alone, Hooked
  <1>2. /\ plug'[c] = plug[c] /\ m_initialized'[c] = m_initialized[c]
        /\ m_context'[c] = m_context[c] /\ m_runloop'[c] = m_runloop[c] /\ m_editor'[c] = FALSE
        /\ (HostHolds(c)' <=> HostHolds(c)) /\ (HostViews(c)' <=> HostViews(c))
    BY Functions, SameReferences DEF DeleteHookDone, counts, loops
  <1>3. /\ LifeAt(c) /\ ~In(c, {"create_instance"}) /\ ~In(c, {"initialize"})
        /\ In(c, {"terminate", "terminated", "delete hook"})
        /\ In(c, {"gui create", "frame hook", "delete hook"})
        /\ \A S : ~In(c, S)'
    BY <1>1 DEF In, LifeInv
  <1> QED
    BY <1>1, <1>2, <1>3, WhoDestroys DEF LifeAt

LEMMA LifeOfAttached ==
  ASSUME TypeOK, StackInv, LifeInv, NEW c \in Comps, attached(c)
  PROVE  LifeAt(c)'
  <1>0. View \in Views /\ view_refs[c][View] > 0
    BY DEF attached, Views
  <1>1. HostHolds(c) /\ on[Audio] # c /\ LifeAt(c) /\ HostViews(c)
    BY <1>0, Entering, Holding DEF LifeInv, HostViews
  <1>2. /\ on[Main] # c /\ on'[Main] = c /\ Top(Main)' = "gui create" /\ Under(Main)' = "idle"
        /\ on'[Audio] # c
    BY <1>1, Positions, MainMoves, WhoIsWhere DEF AudioStays
  <1>3. /\ plug'[c] = plug[c] /\ m_initialized'[c] = m_initialized[c] /\ m_context'[c] = m_context[c]
        /\ m_editor'[c] = m_editor[c]
        /\ (HostHolds(c)' <=> HostHolds(c)) /\ (HostViews(c)' <=> HostViews(c))
    BY SameReferences DEF attached, counts, viewed
  <1>4. /\ ~In(c, {"create_instance"})' /\ ~In(c, {"create_instance"})
        /\ ~In(c, {"terminated"})' /\ ~In(c, {"terminate", "terminated", "delete hook"})'
        /\ ~In(c, {"delete hook"})
    BY <1>2 DEF In
  <1>5. m_initialized[c] /\ m_editor[c]
    BY <1>1 DEF LifeAt
  <1> QED
    BY <1>1, <1>2, <1>3, <1>4, <1>5, WhoDestroys DEF LifeAt

-----------------------------------------------------------------------------
LEMMA NextLife ==
  ASSUME CarefulOwner, TypeOK, StackInv, RefsInv, LifeInv, Next
  PROVE  LifeInv'
  <1> SUFFICES ASSUME NEW d \in Comps PROVE LifeAt(d)'
    BY DEF LifeInv
  <1>0. LifeAt(d)
    BY DEF LifeInv
  <1>1. ASSUME ModuleEntry PROVE LifeAt(d)'
    BY <1>0, <1>1, LifeElsewhere, ApartFrom DEF Kept, ModuleEntry, counts, loops, viewed, shown, Threads
  <1>2. ASSUME ModuleExit PROVE LifeAt(d)'
    BY <1>0, <1>2, LifeElsewhere, ApartFrom DEF Kept, ModuleExit, counts, loops, viewed, shown, Threads
  <1>3. ASSUME NEW x \in Contexts \cup {None}, set_host_context(x) PROVE LifeAt(d)'
    BY <1>0, <1>3, LifeElsewhere, ApartFrom DEF Kept, set_host_context, counts, loops, viewed, shown, Threads
  <1>4. ASSUME NEW c \in Comps, create_instance(c) PROVE LifeAt(d)'
    <2>1. CASE d = c
      BY <1>4, <2>1, LifeOfCreate
    <2>2. CASE d # c
      BY <1>0, <1>4, <2>2, Subjects, LifeElsewhere DEF About
    <2> QED
      BY <2>1, <2>2
  <1>5. ASSUME NEW c \in Comps, terminate(c) PROVE LifeAt(d)'
    <2>1. CASE d = c
      BY <1>5, <2>1, LifeOfTerminate
    <2>2. CASE d # c
      BY <1>0, <1>5, <2>2, Subjects, LifeElsewhere DEF About
    <2> QED
      BY <2>1, <2>2
  <1>6. ASSUME NEW ok \in BOOLEAN, InitPlugin(ok) PROVE LifeAt(d)'
    <2>1. CASE d = on[Main]
      BY <1>6, <2>1, LifeOfInit
    <2>2. CASE d # on[Main]
      BY <1>0, <1>6, <2>2, Subjects, LifeElsewhere DEF About
    <2> QED
      BY <2>1, <2>2
  <1>7. ASSUME NEW c \in Comps, NEW f \in Faces, query_interface(c, f) PROVE LifeAt(d)'
    <2>1. CASE d = c
      BY <1>7, <2>1, LifeOfQuery
    <2>2. CASE d # c
      BY <1>0, <1>7, <2>2, Subjects, LifeElsewhere DEF About
    <2> QED
      BY <2>1, <2>2
  <1>8. ASSUME NEW c \in Comps, NEW f \in Faces, NEW t \in Threads, unref(t, c, f) PROVE LifeAt(d)'
    <2>1. CASE d = c
      BY <1>8, <2>1, LifeOfUnref
    <2>2. CASE d # c
      BY <1>0, <1>8, <2>2, Subjects, LifeElsewhere DEF About
    <2> QED
      BY <2>1, <2>2
  <1>9. ASSUME NEW t \in Threads, DestroyPlugin(t) PROVE LifeAt(d)'
    <2>1. CASE d = on[t]
      BY <1>9, <2>1, LifeOfDestroyPlugin
    <2>2. CASE d # on[t]
      BY <1>0, <1>9, <2>2, Subjects, LifeElsewhere DEF About
    <2> QED
      BY <2>1, <2>2
  <1>10. ASSUME NEW t \in Threads, DestroyMembers(t) PROVE LifeAt(d)'
    <2>1. CASE d = on[t]
      BY <1>10, <2>1, LifeOfDestroyMembers
    <2>2. CASE d # on[t]
      BY <1>0, <1>10, <2>2, Subjects, LifeElsewhere DEF About
    <2> QED
      BY <2>1, <2>2
  <1>11. ASSUME NEW c \in Comps, NEW x \in Contexts \cup {None}, initialize(c, x) PROVE LifeAt(d)'
    <2>1. CASE d = c
      BY <1>11, <2>1, LifeOfInitialize
    <2>2. CASE d # c
      BY <1>0, <1>11, <2>2, Subjects, LifeElsewhere DEF About
    <2> QED
      BY <2>1, <2>2
  <1>12. ASSUME initialize_done PROVE LifeAt(d)'
    <2>1. CASE d = on[Main]
      BY <1>12, <2>1, LifeOfInitialized
    <2>2. CASE d # on[Main]
      BY <1>0, <1>12, <2>2, Subjects, LifeElsewhere DEF About
    <2> QED
      BY <2>1, <2>2
  <1>13. ASSUME terminate_loop PROVE LifeAt(d)'
    <2>1. CASE d = on[Main]
      BY <1>13, <2>1, LifeOfTerminateLoop
    <2>2. CASE d # on[Main]
      BY <1>0, <1>13, <2>2, Subjects, LifeElsewhere DEF About
    <2> QED
      BY <2>1, <2>2
  <1>14. ASSUME terminate_done PROVE LifeAt(d)'
    <2>1. CASE d = on[Main]
      BY <1>14, <2>1, LifeOfTerminated
    <2>2. CASE d # on[Main]
      BY <1>0, <1>14, <2>2, Subjects, LifeElsewhere DEF About
    <2> QED
      BY <2>1, <2>2
  <1>15. ASSUME NEW c \in Comps, LoopCalls(c) PROVE LifeAt(d)'
    BY <1>0, <1>15, LifeElsewhere, ApartFrom DEF Kept, LoopCalls, counts, loops, viewed, shown, Threads
  <1>16. ASSUME LoopReturns PROVE LifeAt(d)'
    BY <1>0, <1>16, LifeElsewhere, ApartFrom DEF Kept, LoopReturns, counts, loops, viewed, shown, Threads
  <1>17. ASSUME TakeInstance PROVE LifeAt(d)'
    <2>1. CASE d = on[Main]
      BY <1>17, <2>1, SteadyLife
    <2>2. CASE d # on[Main]
      BY <1>0, <1>17, <2>2, Subjects, LifeElsewhere DEF About
    <2> QED
      BY <2>1, <2>2
  <1>18. ASSUME SwitchToInstance PROVE LifeAt(d)'
    <2>1. CASE d = on[Main]
      BY <1>18, <2>1, LifeOfSwitch
    <2>2. CASE d # on[Main]
      BY <1>0, <1>18, <2>2, Subjects, LifeElsewhere DEF About
    <2> QED
      BY <2>1, <2>2
  <1>19. ASSUME DropInstance PROVE LifeAt(d)'
    <2>1. CASE d = on[Main]
      BY <1>19, <2>1, SteadyLife
    <2>2. CASE d # on[Main]
      BY <1>0, <1>19, <2>2, Subjects, LifeElsewhere DEF About
    <2> QED
      BY <2>1, <2>2
  <1>20. ASSUME NEW c \in Comps, create_view(c) PROVE LifeAt(d)'
    <2>1. CASE d = c
      BY <1>20, <2>1, LifeOfCreateView
    <2>2. CASE d # c
      BY <1>0, <1>20, <2>2, Subjects, LifeElsewhere DEF About
    <2> QED
      BY <2>1, <2>2
  <1>21. ASSUME NEW c \in Comps, attached(c) PROVE LifeAt(d)'
    <2>1. CASE d = c
      BY <1>21, <2>1, LifeOfAttached
    <2>2. CASE d # c
      BY <1>0, <1>21, <2>2, Subjects, LifeElsewhere DEF About
    <2> QED
      BY <2>1, <2>2
  <1>22. ASSUME NEW c \in Comps, removed(c) PROVE LifeAt(d)'
    <2>1. CASE d = c
      BY <1>22, <2>1, SteadyLife
    <2>2. CASE d # c
      BY <1>0, <1>22, <2>2, Subjects, LifeElsewhere DEF About
    <2> QED
      BY <2>1, <2>2
  <1>23. ASSUME NEW c \in Comps, get_size(c) PROVE LifeAt(d)'
    <2>1. CASE d = c
      BY <1>23, <2>1, SteadyLife
    <2>2. CASE d # c
      BY <1>0, <1>23, <2>2, Subjects, LifeElsewhere DEF About
    <2> QED
      BY <2>1, <2>2
  <1>24. ASSUME NEW c \in Comps, NEW v \in Views, view_query_interface(c, v) PROVE LifeAt(d)'
    <2>1. CASE d = c
      BY <1>24, <2>1, LifeOfQuery
    <2>2. CASE d # c
      BY <1>0, <1>24, <2>2, Subjects, LifeElsewhere DEF About
    <2> QED
      BY <2>1, <2>2
  <1>25. ASSUME NEW c \in Comps, NEW v \in Views, view_unref(c, v) PROVE LifeAt(d)'
    <2>1. CASE d = c
      BY <1>25, <2>1, LifeOfViewUnref
    <2>2. CASE d # c
      BY <1>0, <1>25, <2>2, Subjects, LifeElsewhere DEF About
    <2> QED
      BY <2>1, <2>2
  <1>26. ASSUME DeleteHookDone PROVE LifeAt(d)'
    <2>1. CASE d = on[Main]
      BY <1>26, <2>1, LifeOfDeleteHook
    <2>2. CASE d # on[Main]
      BY <1>0, <1>26, <2>2, Subjects, LifeElsewhere DEF About
    <2> QED
      BY <2>1, <2>2
  <1>27. ASSUME FrameHookDone PROVE LifeAt(d)'
    <2>1. CASE d = on[Main]
      BY <1>27, <2>1, SteadyLife
    <2>2. CASE d # on[Main]
      BY <1>0, <1>27, <2>2, Subjects, LifeElsewhere DEF About
    <2> QED
      BY <2>1, <2>2
  <1>28. ASSUME NEW w \in Fitting, GuiCreated(w) PROVE LifeAt(d)'
    <2>1. CASE d = on[Main]
      BY <1>28, <2>1, SteadyLife
    <2>2. CASE d # on[Main]
      BY <1>0, <1>28, <2>2, Subjects, LifeElsewhere DEF About
    <2> QED
      BY <2>1, <2>2
  <1>29. ASSUME NEW w \in Fitting, TemporaryGui(w) PROVE LifeAt(d)'
    <2>1. CASE d = on[Main]
      BY <1>29, <2>1, SteadyLife
    <2>2. CASE d # on[Main]
      BY <1>0, <1>29, <2>2, Subjects, LifeElsewhere DEF About
    <2> QED
      BY <2>1, <2>2
  <1>30. ASSUME GuiRefused PROVE LifeAt(d)'
    <2>1. CASE d = on[Main]
      BY <1>30, <2>1, SteadyLife
    <2>2. CASE d # on[Main]
      BY <1>0, <1>30, <2>2, Subjects, LifeElsewhere DEF About
    <2> QED
      BY <2>1, <2>2
  <1>31. ASSUME attached_done PROVE LifeAt(d)'
    <2>1. CASE d = on[Main]
      BY <1>31, <2>1, SteadyLife
    <2>2. CASE d # on[Main]
      BY <1>0, <1>31, <2>2, Subjects, LifeElsewhere DEF About
    <2> QED
      BY <2>1, <2>2
  <1>32. ASSUME SizeOfGui PROVE LifeAt(d)'
    <2>1. CASE d = on[Main]
      BY <1>32, <2>1, SteadyLife
    <2>2. CASE d # on[Main]
      BY <1>0, <1>32, <2>2, Subjects, LifeElsewhere DEF About
    <2> QED
      BY <2>1, <2>2
  <1>33. ASSUME NoTemporaryGui PROVE LifeAt(d)'
    <2>1. CASE d = on[Main]
      BY <1>33, <2>1, SteadyLife
    <2>2. CASE d # on[Main]
      BY <1>0, <1>33, <2>2, Subjects, LifeElsewhere DEF About
    <2> QED
      BY <2>1, <2>2
  <1>34. ASSUME TemporarySize PROVE LifeAt(d)'
    <2>1. CASE d = on[Main]
      BY <1>34, <2>1, SteadyLife
    <2>2. CASE d # on[Main]
      BY <1>0, <1>34, <2>2, Subjects, LifeElsewhere DEF About
    <2> QED
      BY <2>1, <2>2
  <1>35. ASSUME NEW c \in Comps, NEW w \in Fitting, request_resize(c, w) PROVE LifeAt(d)'
    <2>1. CASE d = c
      BY <1>35, <2>1, SteadyLife
    <2>2. CASE d # c
      BY <1>0, <1>35, <2>2, Subjects, LifeElsewhere DEF About
    <2> QED
      BY <2>1, <2>2
  <1>36. ASSUME NEW c \in Comps, NEW l \in Lefts, NEW w \in Widths, Drag(c, l, w) PROVE LifeAt(d)'
    <2>1. CASE d = c
      BY <1>36, <2>1, SteadyLife
    <2>2. CASE d # c
      BY <1>0, <1>36, <2>2, Subjects, LifeElsewhere DEF About
    <2> QED
      BY <2>1, <2>2
  <1>37. ASSUME check_size_constraint PROVE LifeAt(d)'
    <2>1. CASE d = on[Main]
      BY <1>37, <2>1, SteadyLife
    <2>2. CASE d # on[Main]
      BY <1>0, <1>37, <2>2, Subjects, LifeElsewhere DEF About
    <2> QED
      BY <2>1, <2>2
  <1>38. ASSUME on_size PROVE LifeAt(d)'
    <2>1. CASE d = on[Main]
      BY <1>38, <2>1, SteadyLife
    <2>2. CASE d # on[Main]
      BY <1>0, <1>38, <2>2, Subjects, LifeElsewhere DEF About
    <2> QED
      BY <2>1, <2>2
  <1> QED
    BY <1>1, <1>2, <1>3, <1>4, <1>5, <1>6, <1>7, <1>8, <1>9, <1>10, <1>11, <1>12, <1>13, <1>14, <1>15, <1>16, <1>17, <1>18, <1>19, <1>20, <1>21, <1>22, <1>23, <1>24, <1>25, <1>26, <1>27, <1>28, <1>29, <1>30, <1>31, <1>32, <1>33, <1>34, <1>35, <1>36, <1>37, <1>38 DEF Next, ModuleSteps, ComponentSteps, LoopSteps, EditorSteps

-----------------------------------------------------------------------------
(***************************************************************************)
(* Contexts and loops, by the number of their users.                       *)
(***************************************************************************)
LEMMA UsersNat == \A f, x : Users(f, x) \in Nat
  <1> TAKE f, x
  <1>1. IsFiniteSet({c \in Comps : f[c] = x})
    BY LifetimesAssumption, FS_Subset
  <1> QED
    BY <1>1, FS_CardinalityType DEF Users

\* Functions that say the same of all components but c.
SameBut(f, g, c) == \A d \in Comps \ {c} : g[d] = f[d]

LEMMA UsersMove ==
  ASSUME NEW f, NEW g, NEW c \in Comps, SameBut(f, g, c), NEW x
  PROVE  /\ f[c] = x => Users(f, x) > 0
         /\ Users(g, x) = Users(f, x) - (IF f[c] = x THEN 1 ELSE 0) + (IF g[c] = x THEN 1 ELSE 0)
  <1> DEFINE R == {d \in Comps \ {c} : f[d] = x}
  <1>1. IsFiniteSet(Comps)
    BY LifetimesAssumption
  <1>2. IsFiniteSet(R) /\ c \notin R
    BY <1>1, FS_Subset
  <1>3. /\ {d \in Comps : f[d] = x} = IF f[c] = x THEN R \cup {c} ELSE R
        /\ {d \in Comps : g[d] = x} = IF g[c] = x THEN R \cup {c} ELSE R
    BY DEF SameBut
  <1>4. Cardinality(R) \in Nat /\ Cardinality(R \cup {c}) = Cardinality(R) + 1
    BY <1>2, FS_CardinalityType, FS_AddElement
  <1>5. Users(f, x) = Cardinality(IF f[c] = x THEN R \cup {c} ELSE R)
    BY <1>3 DEF Users
  <1>6. Users(g, x) = Cardinality(IF g[c] = x THEN R \cup {c} ELSE R)
    BY <1>3 DEF Users
  <1> HIDE DEF R
  <1>7. \A b \in BOOLEAN : Cardinality(IF b THEN R \cup {c} ELSE R) = Cardinality(R) + (IF b THEN 1 ELSE 0)
    BY <1>4
  <1> QED
    BY <1>4, <1>5, <1>6, <1>7

LEMMA ContextUsers ==
  ASSUME NEW c \in Comps, SameBut(m_context, m_context', c)
  PROVE  \A x : Users(m_context', x) = Users(m_context, x) - (IF m_context[c] = x THEN 1 ELSE 0)
                                         + (IF m_context'[c] = x THEN 1 ELSE 0)
  BY UsersMove

LEMMA ContextsMove ==
  ASSUME TypeOK, NEW c \in Comps, NEW y \in Contexts \cup {None}, m_context' = [m_context EXCEPT ![c] = y]
  PROVE  \A x : Users(m_context', x) = Users(m_context, x) - (IF m_context[c] = x THEN 1 ELSE 0)
                                         + (IF y = x THEN 1 ELSE 0)
  <1>1. m_context'[c] = y /\ SameBut(m_context, m_context', c)
    BY DEF TypeOK, ComponentTypes, SameBut
  <1>2. \A l : Users(m_context', l) = Users(m_context, l) - (IF m_context[c] = l THEN 1 ELSE 0)
                                        + (IF m_context'[c] = l THEN 1 ELSE 0)
    BY <1>1, ContextUsers
  <1> QED
    BY <1>1, <1>2

LEMMA NextHeld ==
  ASSUME TypeOK, StackInv, LifeInv, HeldInv, Next
  PROVE  HeldInv'
  <1> SUFFICES ASSUME NEW x \in Contexts
               PROVE  held'[x] = Users(m_context', x) + (IF m_hostcontext' = x THEN 1 ELSE 0)
    BY DEF HeldInv
  <1>0. /\ held[x] = Users(m_context, x) + (IF m_hostcontext = x THEN 1 ELSE 0)
        /\ held \in [Contexts -> Int] /\ m_hostcontext \in Contexts \cup {None}
        /\ m_context \in [Comps -> Contexts \cup {None}] /\ None \notin Contexts
    BY LifetimesAssumption DEF HeldInv, TypeOK, ModuleTypes, ComponentTypes
  <1>9. ASSUME NEW c \in Comps, NEW y \in Contexts \cup {None}, m_context' = [m_context EXCEPT ![c] = y]
        PROVE  Users(m_context', x) = Users(m_context, x) - (IF m_context[c] = x THEN 1 ELSE 0)
                                        + (IF y = x THEN 1 ELSE 0)
    BY <1>9, ContextsMove
  <1>1. CASE UNCHANGED <<held, m_hostcontext, m_context>>
    BY <1>0, <1>1
  <1>2. ASSUME NEW y \in Contexts \cup {None}, set_host_context(y)
        PROVE  held'[x] = Users(m_context', x) + (IF m_hostcontext' = x THEN 1 ELSE 0)
    <2>1. /\ held'[x] = (IF x = y THEN held[x] + 1 ELSE IF x = m_hostcontext THEN held[x] - 1 ELSE held[x])
          /\ m_context' = m_context /\ m_hostcontext' = y /\ y # m_hostcontext
      BY <1>2 DEF set_host_context
    <2>2. held[x] \in Int /\ Users(m_context, x) = held[x] - (IF m_hostcontext = x THEN 1 ELSE 0)
      BY <1>0, UsersNat
    <2> QED
      BY <2>1, <2>2
  <1>3. ASSUME NEW c \in Comps, NEW y \in Contexts \cup {None}, initialize(c, y)
        PROVE  held'[x] = Users(m_context', x) + (IF m_hostcontext' = x THEN 1 ELSE 0)
    <2>1. m_context[c] = None
      <3>1. ~m_initialized[c] /\ Top(Main) = "idle"
        BY <1>3 DEF initialize, Top
      <3>2. ~In(c, {"initialize"})
        BY <3>1 DEF In, StackInv, Loopings
      <3> QED
        BY <3>1, <3>2 DEF LifeInv, LifeAt
    <2>2. m_context' = [m_context EXCEPT ![c] = y] /\ held' = Change(y, 1) /\ m_hostcontext' = m_hostcontext
      BY <1>3 DEF initialize, factory
    <2>3. held'[x] = held[x] + (IF y = x THEN 1 ELSE 0) /\ held[x] \in Int
      BY <1>0, <2>2 DEF Change
    <2>5. Users(m_context', x) = Users(m_context, x) - 0 + (IF y = x THEN 1 ELSE 0)
      BY <1>0, <1>3, <1>9, <2>1, <2>2
    <2> QED
      BY <1>0, <2>2, <2>3, <2>5, UsersNat
  <1>4. CASE terminate_done
    <2> DEFINE c == on[Main]
               y == m_context[c]
    <2>1. c \in Comps
      BY <1>4, AtComponent DEF terminate_done, Threads
    <2>2. m_context' = [m_context EXCEPT ![c] = None] /\ held' = Change(y, -1) /\ m_hostcontext' = m_hostcontext
      BY <1>4 DEF terminate_done, factory
    <2>3. held'[x] = held[x] - (IF y = x THEN 1 ELSE 0) /\ held[x] \in Int
      <3> HIDE DEF c, y
      <3>1. CASE y = None
        BY <1>0, <2>2, <3>1 DEF Change
      <3>2. CASE y # None
        BY <1>0, <2>2, <3>2 DEF Change
      <3> QED
        BY <3>1, <3>2
    <2>4. Users(m_context', x) = Users(m_context, x) - (IF m_context[c] = x THEN 1 ELSE 0)
                                   + (IF None = x THEN 1 ELSE 0)
      BY <1>9, <2>1, <2>2
    <2>5. Users(m_context', x) = Users(m_context, x) - (IF y = x THEN 1 ELSE 0) + 0
      BY <1>0, <2>4
    <2> HIDE DEF c, y
    <2> QED
      BY <1>0, <2>2, <2>3, <2>5, UsersNat
  <1>5. ASSUME NEW t \in Threads, DestroyMembers(t), UNCHANGED <<held, m_hostcontext>>
        PROVE  held'[x] = Users(m_context', x) + (IF m_hostcontext' = x THEN 1 ELSE 0)
    <2>1. Ends(t, "members") /\ on[t] \in Comps
      BY <1>5, Positions, AtComponent DEF DestroyMembers
    <2>2. m_context[on[t]] = None
      BY <2>1, Destroying DEF Ends
    <2>3. m_context' = [m_context EXCEPT ![on[t]] = None]
      BY <1>5 DEF DestroyMembers
    <2>4. m_context' = m_context
      BY <1>0, <2>2, <2>3
    <2> QED
      BY <1>1, <1>5, <2>4
  <1>6. CASE UNCHANGED <<held, m_hostcontext>> /\ (UNCHANGED m_context \/ initialize_done)
    BY <1>1, <1>6 DEF initialize_done
  <1>7. CASE ModuleEntry \/ ModuleExit
    BY <1>1, <1>7 DEF ModuleEntry, ModuleExit
  <1>8. CASE UNCHANGED <<factory, held>>
    <2>1. UNCHANGED <<held, m_hostcontext>>
      BY <1>8 DEF factory
    <2> QED
      BY <1>3, <1>4, <1>5, <1>6, <2>1, Writers
  <1> QED
    BY <1>2, <1>3, <1>4, <1>7, <1>8, Writers

-----------------------------------------------------------------------------
\* Main has a reference of its own to the threaded loop between instance and
\* unref.
Extra == IF Top(Main) \in {"set_run_loop", "unref"} THEN 1 ELSE 0

LEMMA ExtraKept ==
  ASSUME CarefulOwner, TypeOK, StackInv, RefsInv, LifeInv, Next
  PROVE  Extra' = Extra \/ TakeInstance \/ DropInstance
  <1>0. \A t : t \in Threads /\ t # Main => t = Audio
    BY DEF Threads
  <1>1. \A b : b \in Hooked \cup {"idle", "on_size", "gui show"} => b \notin {"set_run_loop", "unref"}
    BY DEF Hooked
  <1>2. Under(Main) \in Hooked \cup {"idle", "on_size", "gui show"}
    BY DEF StackInv
  <1>3. ASSUME NEW c, NEW a, NEW b, Begins(Main, c, a, b), a # "set_run_loop", a # "unref"
        PROVE  Extra' = Extra
    BY <1>3, MainMoves DEF Extra
  <1>4. ASSUME NEW a, NEW b, Passes(Main, a, b), a \in {"set_run_loop", "unref"} <=> b \in {"set_run_loop", "unref"}
        PROVE  Extra' = Extra
    BY <1>4, MainMoves DEF Extra
  <1>5. ASSUME NEW a, Ends(Main, a), a \notin {"set_run_loop", "unref"}
        PROVE  Extra' = Extra
    BY <1>1, <1>2, <1>5, MainMoves DEF Extra
  <1>6. ASSUME NEW a, NEW b, NEW d, Turns(Main, a, b, d), a # "set_run_loop", a # "unref",
               b # "set_run_loop", b # "unref"
        PROVE  Extra' = Extra
    BY <1>6, MainMoves DEF Extra
  <1>7. ASSUME UNCHANGED <<stack, on>> PROVE Extra' = Extra
    BY <1>7 DEF Extra, Top, Idle
  <1>8. ASSUME NEW t \in Threads, t # Main, NEW a, NEW b, NEW c,
               Begins(t, c, a, b) \/ Passes(t, a, b) \/ Ends(t, a)
        PROVE  Extra' = Extra
    BY <1>8 DEF Begins, Passes, Ends, Moves, Extra, Threads
  <1>9. ASSUME ModuleEntry PROVE Extra' = Extra
    BY <1>7, <1>9 DEF ModuleEntry
  <1>10. ASSUME ModuleExit PROVE Extra' = Extra
    BY <1>7, <1>10 DEF ModuleExit
  <1>11. ASSUME NEW x \in Contexts \cup {None}, set_host_context(x) PROVE Extra' = Extra
    BY <1>7, <1>11 DEF set_host_context
  <1>12. ASSUME NEW c \in Comps, create_instance(c) PROVE Extra' = Extra
    <2>1. Begins(Main, c, "create_instance", "idle")
      BY <1>12, Positions
    <2> QED
      BY <1>3, <2>1
  <1>13. ASSUME NEW c \in Comps, terminate(c) PROVE Extra' = Extra
    BY <1>3, <1>13, TerminateAlone
  <1>14. ASSUME NEW ok \in BOOLEAN, InitPlugin(ok) PROVE Extra' = Extra
    BY <1>5, <1>14, Positions
  <1>15. ASSUME NEW c \in Comps, NEW f \in Faces, query_interface(c, f) PROVE Extra' = Extra
    BY <1>7, <1>15 DEF query_interface
  <1>16. ASSUME NEW c \in Comps, NEW f \in Faces, NEW t \in Threads, unref(t, c, f) PROVE Extra' = Extra
    <2>1. CASE Begins(t, c, "delete", "idle")
      BY <1>3, <1>8, <2>1
    <2> QED
      BY <1>7, <1>16, <2>1, PositionsOfRefs
  <1>17. ASSUME NEW t \in Threads, DestroyPlugin(t) PROVE Extra' = Extra
    BY <1>4, <1>8, <1>17, Positions
  <1>18. ASSUME NEW t \in Threads, DestroyMembers(t) PROVE Extra' = Extra
    BY <1>5, <1>8, <1>18, Positions
  <1>19. ASSUME NEW c \in Comps, NEW x \in Contexts \cup {None}, initialize(c, x) PROVE Extra' = Extra
    <2>1. Begins(Main, c, "instance", "initialize")
      BY <1>19, Positions
    <2> QED
      BY <1>3, <2>1
  <1>20. ASSUME initialize_done PROVE Extra' = Extra
    BY <1>5, <1>20, Positions
  <1>21. ASSUME terminate_loop PROVE Extra' = Extra
    BY <1>4, <1>21, Positions
  <1>22. ASSUME terminate_done PROVE Extra' = Extra
    BY <1>5, <1>22, Positions
  <1>23. ASSUME NEW c \in Comps, LoopCalls(c) PROVE Extra' = Extra
    BY <1>7, <1>23 DEF LoopCalls
  <1>24. ASSUME LoopReturns PROVE Extra' = Extra
    BY <1>7, <1>24 DEF LoopReturns
  <1>25. ASSUME SwitchToInstance PROVE Extra' = Extra
    BY <1>4, <1>25, Positions
  <1>26. ASSUME NEW c \in Comps, create_view(c) PROVE Extra' = Extra
    BY <1>7, <1>26 DEF create_view
  <1>27. ASSUME NEW c \in Comps, attached(c) PROVE Extra' = Extra
    <2>1. Begins(Main, c, "gui create", "idle")
      BY <1>27, Positions
    <2> QED
      BY <1>3, <2>1
  <1>28. ASSUME NEW c \in Comps, removed(c) PROVE Extra' = Extra
    <2>1. Begins(Main, c, "instance", "frame hook")
      BY <1>28, Positions
    <2> QED
      BY <1>3, <2>1
  <1>29. ASSUME NEW c \in Comps, get_size(c) PROVE Extra' = Extra
    <2>1. \/ Begins(Main, c, "get_size", "idle")
          \/ Turns(Main, "gui show", "get_size", "gui show")
      BY <1>29, Positions
    <2> QED
      BY <1>3, <1>6, <2>1
  <1>30. ASSUME NEW c \in Comps, NEW v \in Views, view_query_interface(c, v) PROVE Extra' = Extra
    BY <1>7, <1>30 DEF view_query_interface
  <1>31. ASSUME NEW c \in Comps, NEW v \in Views, view_unref(c, v) PROVE Extra' = Extra
    <2>1. CASE Begins(Main, c, "instance", "delete hook")
      BY <1>3, <2>1
    <2> QED
      BY <1>7, <1>31, <2>1, PositionsOfRefs
  <1>32. ASSUME DeleteHookDone PROVE Extra' = Extra
    BY <1>5, <1>32, Positions
  <1>33. ASSUME FrameHookDone PROVE Extra' = Extra
    BY <1>5, <1>33, Positions
  <1>34. ASSUME NEW w \in Fitting, GuiCreated(w) PROVE Extra' = Extra
    BY <1>4, <1>34, Positions
  <1>35. ASSUME NEW w \in Fitting, TemporaryGui(w) PROVE Extra' = Extra
    BY <1>4, <1>35, Positions
  <1>36. ASSUME GuiRefused PROVE Extra' = Extra
    <2>1. Turns(Main, "gui create", "instance", "frame hook")
      BY <1>36, Positions
    <2> QED
      BY <1>6, <2>1
  <1>37. ASSUME attached_done PROVE Extra' = Extra
    BY <1>4, <1>37, Positions
  <1>38. ASSUME SizeOfGui PROVE Extra' = Extra
    BY <1>5, <1>38, Positions
  <1>39. ASSUME NoTemporaryGui PROVE Extra' = Extra
    BY <1>5, <1>39, Positions
  <1>40. ASSUME TemporarySize PROVE Extra' = Extra
    BY <1>5, <1>40, Positions
  <1>41. ASSUME NEW c \in Comps, NEW w \in Fitting, request_resize(c, w) PROVE Extra' = Extra
    <2>1. Begins(Main, c, "on_size", "idle")
      BY <1>41, Positions
    <2> QED
      BY <1>3, <2>1
  <1>42. ASSUME NEW c \in Comps, NEW l \in Lefts, NEW w \in Widths, Drag(c, l, w) PROVE Extra' = Extra
    <2>1. Begins(Main, c, "check_size_constraint", "on_size")
      BY <1>42, Positions
    <2> QED
      BY <1>3, <2>1
  <1>43. ASSUME check_size_constraint PROVE Extra' = Extra
    BY <1>5, <1>43, Positions
  <1>44. ASSUME on_size PROVE Extra' = Extra
    BY <1>4, <1>5, <1>44, Positions
  <1> QED
    BY <1>9, <1>10, <1>11, <1>12, <1>13, <1>14, <1>15, <1>16, <1>17, <1>18, <1>19, <1>20, <1>21, <1>22, <1>23, <1>24, <1>25, <1>26, <1>27, <1>28, <1>29, <1>30, <1>31, <1>32, <1>33, <1>34, <1>35, <1>36, <1>37, <1>38, <1>39, <1>40, <1>41, <1>42, <1>43, <1>44 DEF Next, ModuleSteps, ComponentSteps, LoopSteps, EditorSteps

\* What LoopInv says, by the reference of Main.
LoopCount(l) == Users(m_runloop, l) + (IF l = Threaded THEN Extra ELSE 0)

LEMMA LoopInvIs ==
  /\ LoopInv <=> /\ \A l \in Loops : loop_refcnt[l] = LoopCount(l)
                 /\ s_unique_instance <=> loop_refcnt[Threaded] > 0
                 /\ running # None => m_runloop[running] = Threaded
  /\ LoopInv' <=> /\ \A l \in Loops : loop_refcnt'[l] = LoopCount(l)'
                  /\ s_unique_instance' <=> loop_refcnt'[Threaded] > 0
                  /\ running' # None => m_runloop'[running'] = Threaded
  <1>1. \A l \in Loops : LoopCount(l) = Users(m_runloop, l)
          + (IF l = Threaded /\ Top(Main) \in {"set_run_loop", "unref"} THEN 1 ELSE 0)
    BY DEF LoopCount, Extra
  <1>2. \A l \in Loops : LoopCount(l)' = Users(m_runloop', l)
          + (IF l = Threaded /\ Top(Main)' \in {"set_run_loop", "unref"} THEN 1 ELSE 0)
    BY DEF LoopCount, Extra
  <1> QED
    BY <1>1, <1>2 DEF LoopInv

LEMMA SetRunLoopInv ==
  ASSUME TypeOK, LoopInv, NEW c \in Comps, NEW new \in Loops \cup {None}, SetRunLoop(c, new),
         new = Threaded => s_unique_instance, UNCHANGED running, Extra' = Extra
  PROVE  LoopInv'
  <1>0. /\ m_runloop \in [Comps -> Loops \cup {None}] /\ loop_refcnt \in [Loops -> Int]
        /\ s_unique_instance \in BOOLEAN /\ Threaded \in Loops /\ None \notin Loops
        /\ running \in Comps \cup {None} /\ Extra \in Nat
    BY LifetimesAssumption DEF TypeOK, LoopTypes, Loops, Extra
  <1>1. /\ \A l \in Loops : loop_refcnt[l] = LoopCount(l)
        /\ s_unique_instance <=> loop_refcnt[Threaded] > 0
        /\ running # None => m_runloop[running] = Threaded
    BY LoopInvIs
  <1>2. CASE UNCHANGED loops
    <2>1. \A l \in Loops : LoopCount(l)' = LoopCount(l)
      BY <1>2 DEF loops, LoopCount
    <2> QED
      BY <1>0, <1>1, <1>2, <2>1, LoopInvIs DEF loops
  <1>3. CASE ~UNCHANGED loops
    <2> DEFINE old == m_runloop[c]
    <2>1. /\ old # new /\ (old = Threaded => running = None)
          /\ m_runloop' = [m_runloop EXCEPT ![c] = new]
          /\ loop_refcnt' = [l \in Loops |-> IF l = old THEN loop_refcnt[l] - 1
                                             ELSE IF l = new THEN loop_refcnt[l] + 1
                                             ELSE loop_refcnt[l]]
          /\ s_unique_instance' <=> (s_unique_instance /\ ~(old = Threaded /\ loop_refcnt[old] = 1))
      BY <1>3 DEF SetRunLoop
    <2>2. m_runloop'[c] = new /\ \A d \in Comps \ {c} : m_runloop'[d] = m_runloop[d]
      BY <1>0, <2>1
    <2>9. SameBut(m_runloop, m_runloop', c)
      BY <2>2 DEF SameBut
    <2>3. \A l : Users(m_runloop', l) = Users(m_runloop, l) - (IF m_runloop[c] = l THEN 1 ELSE 0)
                                          + (IF m_runloop'[c] = l THEN 1 ELSE 0)
      BY <2>9, UsersMove
    <2>4. \A l : Users(m_runloop, l) \in Nat /\ Users(m_runloop', l) \in Nat
      BY UsersNat
    <2>5. old = Threaded => Users(m_runloop, Threaded) > 0
      BY <2>9, UsersMove
    <2> HIDE DEF old
    <2>6. old = m_runloop[c]
      BY DEF old
    <2>7. \A l \in Loops : loop_refcnt'[l] = LoopCount(l)'
      <3> TAKE l \in Loops
      <3>1. /\ loop_refcnt[l] = Users(m_runloop, l) + (IF l = Threaded THEN Extra ELSE 0)
            /\ LoopCount(l)' = Users(m_runloop', l) + (IF l = Threaded THEN Extra ELSE 0)
        BY <1>1 DEF LoopCount
      <3>2. loop_refcnt'[l] = loop_refcnt[l] - (IF l = old THEN 1 ELSE 0) + (IF l = new THEN 1 ELSE 0)
        BY <1>0, <2>1
      <3>3. Users(m_runloop', l) = Users(m_runloop, l) - (IF old = l THEN 1 ELSE 0) + (IF new = l THEN 1 ELSE 0)
        BY <2>2, <2>3, <2>6
      <3> QED
        BY <1>0, <2>4, <3>1, <3>2, <3>3
    <2>8. s_unique_instance' <=> loop_refcnt'[Threaded] > 0
      <3>1. loop_refcnt'[Threaded] = loop_refcnt[Threaded] - (IF Threaded = old THEN 1 ELSE 0)
                                       + (IF Threaded = new THEN 1 ELSE 0)
        BY <1>0, <2>1
      <3>2. loop_refcnt[Threaded] = Users(m_runloop, Threaded) + Extra /\ loop_refcnt[Threaded] \in Int
        BY <1>0, <1>1 DEF LoopCount
      <3> QED
        BY <1>0, <1>1, <2>1, <2>4, <2>5, <3>1, <3>2
    <2>10. running' # None => m_runloop'[running'] = Threaded
      BY <1>0, <1>1, <2>1, <2>2, <2>6
    <2> QED
      BY <2>7, <2>8, <2>10, LoopInvIs
  <1> QED
    BY <1>2, <1>3

LEMMA NextLoop ==
  ASSUME CarefulOwner, TypeOK, StackInv, RefsInv, LifeInv, LoopInv, Next
  PROVE  LoopInv'
  <1>0. /\ \A l \in Loops : loop_refcnt[l] = LoopCount(l)
        /\ s_unique_instance <=> loop_refcnt[Threaded] > 0
        /\ running # None => m_runloop[running] = Threaded
        /\ loop_refcnt \in [Loops -> Int] /\ s_unique_instance \in BOOLEAN
        /\ Threaded \in Loops /\ Frame \in Loops /\ Main \in Threads
    BY LoopInvIs DEF TypeOK, LoopTypes, Loops, Threads
  <1>1. CASE UNCHANGED loops /\ Extra' = Extra
    <2>1. \A l \in Loops : LoopCount(l)' = LoopCount(l)
      BY <1>1 DEF loops, LoopCount
    <2>2. running' # None => m_runloop[running'] = Threaded
      BY <1>0, Writers DEF LoopCalls, LoopReturns
    <2>3. /\ \A l \in Loops : loop_refcnt'[l] = LoopCount(l)'
          /\ s_unique_instance' <=> loop_refcnt'[Threaded] > 0
          /\ running' # None => m_runloop'[running'] = Threaded
      BY <1>0, <1>1, <2>1, <2>2 DEF loops
    <2> QED
      BY <2>3, LoopInvIs
  <1>2. CASE TakeInstance
    <2>1. Passes(Main, "instance", "set_run_loop") /\ UNCHANGED <<running, m_runloop>>
      BY <1>2, Positions DEF TakeInstance
    <2>2. Extra = 0 /\ Extra' = 1
      BY <2>1, MainMoves DEF Extra
    <2>3. /\ s_unique_instance' = TRUE
          /\ loop_refcnt' = [loop_refcnt EXCEPT ![Threaded] =
                               IF s_unique_instance THEN loop_refcnt[Threaded] + 1 ELSE 1]
      BY <1>2 DEF TakeInstance
    <2>4. loop_refcnt[Threaded] = Users(m_runloop, Threaded) /\ Users(m_runloop, Threaded) \in Nat
      BY <1>0, <2>2, UsersNat DEF LoopCount
    <2>5. loop_refcnt'[Threaded] = Users(m_runloop, Threaded) + 1
      BY <1>0, <2>3, <2>4
    <2>6. \A l \in Loops : loop_refcnt'[l] = LoopCount(l)'
      BY <1>0, <2>1, <2>2, <2>3, <2>5 DEF LoopCount
    <2>7. s_unique_instance' <=> loop_refcnt'[Threaded] > 0
      BY <2>3, <2>4, <2>5
    <2> QED
      BY <1>0, <2>1, <2>6, <2>7, LoopInvIs
  <1>3. CASE DropInstance
    <2>1. Ends(Main, "unref") /\ UNCHANGED <<running, m_runloop>>
      BY <1>3, Positions DEF DropInstance
    <2>2. Extra = 1 /\ Extra' = 0
      <3>1. Top(Main) = "unref" /\ Top(Main)' = Under(Main)
        BY <2>1, MainMoves
      <3>2. Under(Main) \in Hooked
        BY <3>1 DEF StackInv, Alone, Hooked
      <3> QED
        BY <3>1, <3>2 DEF Extra, Hooked
    <2>3. /\ s_unique_instance' <=> loop_refcnt[Threaded] > 1
          /\ loop_refcnt' = [loop_refcnt EXCEPT ![Threaded] = loop_refcnt[Threaded] - 1]
      BY <1>3 DEF DropInstance
    <2>4. loop_refcnt[Threaded] = Users(m_runloop, Threaded) + 1 /\ Users(m_runloop, Threaded) \in Nat
      BY <1>0, <2>2, UsersNat DEF LoopCount
    <2>5. loop_refcnt'[Threaded] = Users(m_runloop, Threaded)
      BY <1>0, <2>3, <2>4
    <2>6. \A l \in Loops : loop_refcnt'[l] = LoopCount(l)'
      BY <1>0, <2>1, <2>2, <2>3, <2>5, UsersNat DEF LoopCount
    <2>7. s_unique_instance' <=> loop_refcnt'[Threaded] > 0
      BY <2>3, <2>4, <2>5
    <2> QED
      BY <1>0, <2>1, <2>6, <2>7, LoopInvIs
  <1>4. CASE SwitchToInstance
    <2>1. Passes(Main, "set_run_loop", "unref") /\ SetRunLoop(on[Main], Threaded) /\ UNCHANGED running
      BY <1>4, Positions DEF SwitchToInstance
    <2>2. Extra = 1 /\ Extra' = 1
      BY <2>1, MainMoves DEF Extra
    <2>3. s_unique_instance
      <3>1. loop_refcnt[Threaded] = Users(m_runloop, Threaded) + 1 /\ Users(m_runloop, Threaded) \in Nat
        BY <1>0, <2>2, UsersNat DEF LoopCount
      <3> QED
        BY <1>0, <3>1
    <2>4. on[Main] \in Comps
      BY <1>0, <1>4, AtComponent DEF SwitchToInstance
    <2> QED
      BY <1>0, <2>1, <2>2, <2>3, <2>4, SetRunLoopInv
  <1>5. CASE terminate_loop
    <2>1. SetRunLoop(on[Main], None) /\ UNCHANGED running /\ on[Main] \in Comps
      BY <1>0, <1>5, AtComponent DEF terminate_loop
    <2>2. Extra' = Extra
      <3>1. Passes(Main, "terminate", "terminated")
        BY <1>5, Positions
      <3> QED
        BY <3>1, MainMoves DEF Extra
    <2>3. None # Threaded
      BY <1>0, LifetimesAssumption
    <2> QED
      BY <2>1, <2>2, <2>3, SetRunLoopInv
  <1>6. ASSUME NEW t \in Threads, DestroyMembers(t) PROVE LoopInv'
    <2>1. SetRunLoop(on[t], None) /\ UNCHANGED running /\ on[t] \in Comps
      BY <1>6, AtComponent DEF DestroyMembers
    <2>2. Ends(t, "members")
      BY <1>6, Positions
    <2>3. m_runloop[on[t]] = None
      BY <2>1, <2>2, Destroying DEF Ends
    <2>4. UNCHANGED loops
      BY <2>1, <2>3 DEF SetRunLoop
    <2>5. Extra' = Extra
      <3>1. CASE t = Main
        <4>1. Top(Main) = "members" /\ Top(Main)' = Under(Main)
          BY <2>2, <3>1, MainMoves
        <4>2. Under(Main) = "idle"
          BY <4>1 DEF StackInv, Loopings
        <4> QED
          BY <4>1, <4>2 DEF Extra
      <3>2. CASE t # Main
        BY <1>0, <2>2, <3>2 DEF Ends, Moves, Extra
      <3> QED
        BY <3>1, <3>2
    <2> QED
      BY <1>1, <2>4, <2>5
  <1>7. ASSUME NEW c \in Comps, attached(c) PROVE LoopInv'
    <2>1. SetRunLoop(c, Frame) /\ UNCHANGED running
      BY <1>7 DEF attached
    <2>2. Extra' = Extra
      <3>1. Begins(Main, c, "gui create", "idle")
        BY <1>7, Positions
      <3>2. Top(Main) = "idle" /\ Top(Main)' = "gui create"
        BY <3>1, MainMoves
      <3> QED
        BY <3>2 DEF Extra
    <2>3. Frame # Threaded
      BY DEF Frame, Threaded
    <2> QED
      BY <1>0, <2>1, <2>2, <2>3, SetRunLoopInv
  <1> QED
    BY <1>1, <1>2, <1>3, <1>4, <1>5, <1>6, <1>7, ExtraKept, Writers

-----------------------------------------------------------------------------
(***************************************************************************)
(* The invariant.                                                          *)
(***************************************************************************)
LEMMA UsersNone ==
  ASSUME NEW f, NEW x, \A c \in Comps : f[c] # x
  PROVE  Users(f, x) = 0
  <1>1. {c \in Comps : f[c] = x} = {}
    OBVIOUS
  <1> QED
    BY <1>1, FS_EmptySet DEF Users

LEMMA InitIInv ==
  ASSUME Init
  PROVE  IInv
  <1>0. /\ \A t \in Threads : Top(t) = "idle" /\ Under(t) = "idle" /\ stack[t] = << >> /\ on[t] = None
        /\ Main \in Threads /\ Audio \in Threads
    BY DEF Init, Top, Under, Idle, Threads
  <1>1. TypeOK
    <2>1. ModuleTypes
      <3>1. g_module_initialized \in BOOLEAN
        BY DEF Init
      <3>2. m_hostcontext \in Contexts \cup {None} /\ held \in [Contexts -> Int]
        BY DEF Init
      <3> QED
        BY <3>1, <3>2 DEF ModuleTypes
    <2>5. LoopTypes
      <3>1. s_unique_instance \in BOOLEAN
        BY DEF Init
      <3>2. m_runloop \in [Comps -> Loops \cup {None}] /\ loop_refcnt \in [Loops -> Int]
            /\ running \in Comps \cup {None}
        BY DEF Init
      <3> QED
        BY <3>1, <3>2 DEF LoopTypes
    <2>4. GraphicsTypes
      <3>1. NoRect \in [left : Int, right : Int]
        BY DEF NoRect
      <3> QED
        BY <3>1 DEF Init, GraphicsTypes
    <2>2. ComponentTypes /\ EditorTypes
      BY DEF Init, ComponentTypes, EditorTypes, NoRefs
    <2>3. ThreadTypes
      BY DEF Init, ThreadTypes
    <2> QED
      BY <2>1, <2>2, <2>3, <2>4, <2>5 DEF TypeOK
  <1>2. StackInv
    BY <1>0 DEF StackInv
  <1>3. \A c \in Comps : References(c) = 0 /\ ViewReferences(c) = 0
    <2>1. /\ Component \in Interfaces /\ AudioProcessor \in Interfaces /\ EditController \in Interfaces
          /\ UnitInformation \in Interfaces /\ ContextRequired \in Interfaces
          /\ View \in Views /\ ContentScale \in Views
      BY DEF Interfaces, Views
    <2> QED
      BY <2>1 DEF Init, NoRefs, References, ViewReferences
  <1>4. RefsInv
    BY <1>3 DEF Init, RefsInv
  <1>5. LifeInv
    <2> SUFFICES ASSUME NEW c \in Comps PROVE LifeAt(c)
      BY DEF LifeInv
    <2>1. \A t \in Threads : on[t] # c
      BY <1>0, LifetimesAssumption
    <2>2. (\A S : ~In(c, S)) /\ ~Deleting(c)
      BY <1>0, <2>1 DEF In, Deleting
    <2>3. ~HostHolds(c) /\ ~HostViews(c)
      BY <1>3 DEF HostHolds, HostViews
    <2>4. /\ plug[c] = "none" /\ ~m_initialized[c] /\ m_context[c] = None /\ m_runloop[c] = None
          /\ ~m_editor[c]
      BY DEF Init
    <2> QED
      BY <1>0, <2>1, <2>2, <2>3, <2>4 DEF LifeAt
  <1>6. HeldInv
    <2> SUFFICES ASSUME NEW x \in Contexts
                 PROVE  held[x] = Users(m_context, x) + (IF m_hostcontext = x THEN 1 ELSE 0)
      BY DEF HeldInv
    <2>1. x # None
      BY LifetimesAssumption
    <2>2. \A c \in Comps : m_context[c] # x
      BY <2>1 DEF Init
    <2> QED
      BY <2>1, <2>2, UsersNone DEF Init
  <1>7. LoopInv
    <2>1. \A l \in Loops : l # None
      BY LifetimesAssumption
    <2>2. \A l \in Loops : \A c \in Comps : m_runloop[c] # l
      BY <2>1 DEF Init
    <2>3. \A l \in Loops : Users(m_runloop, l) = 0
      BY <2>2, UsersNone
    <2> QED
      BY <1>0, <2>3 DEF Init, LoopInv, Loops
  <1> QED
    BY <1>1, <1>2, <1>4, <1>5, <1>6, <1>7 DEF IInv

LEMMA SameIInv ==
  ASSUME IInv, UNCHANGED vars
  PROVE  IInv'
  <1> USE DEF vars, factory, counts, loops, viewed, shown
  <1>1. TypeOK' /\ RefsInv' /\ HeldInv'
    BY DEF IInv, TypeOK, ModuleTypes, ComponentTypes, LoopTypes, EditorTypes, GraphicsTypes,
           ThreadTypes, RefsInv, References, ViewReferences, HeldInv
  <1>2. StackInv' /\ LoopInv'
    BY DEF IInv, StackInv, LoopInv, Top, Under, Idle
  <1>3. LifeInv'
    <2> SUFFICES ASSUME NEW d \in Comps PROVE LifeAt(d)'
      BY DEF LifeInv
    <2>1. LifeAt(d) /\ Kept(d)
      BY DEF IInv, LifeInv, Kept
    <2>2. Apart(d)
      BY ApartFrom DEF IInv, Threads
    <2> QED
      BY <2>1, <2>2, LifeElsewhere
  <1> QED
    BY <1>1, <1>2, <1>3 DEF IInv

LEMMA Inductive ==
  ASSUME CarefulOwner, IInv, [Next]_vars
  PROVE  IInv'
  <1>1. CASE Next
    <2>1. TypeOK' /\ StackInv' /\ RefsInv'
      BY <1>1, NextTypes, NextStack, NextRefs DEF IInv
    <2>2. LifeInv' /\ HeldInv' /\ LoopInv'
      BY <1>1, NextLife, NextHeld, NextLoop DEF IInv
    <2> QED
      BY <2>1, <2>2 DEF IInv
  <1>2. CASE UNCHANGED vars
    BY <1>2, SameIInv
  <1> QED
    BY <1>1, <1>2

\* Threads are in the functions, references are counted and components live as
\* IInv says, in all that the module does for a host that gives editors back
\* before terminate, and terminates a component before it gives that back.
THEOREM InvariantHolds == CarefulOwner /\ Spec => []IInv
  <1>1. CarefulOwner /\ IInv /\ [Next]_vars => IInv'
    BY Inductive
  <1>2. Init => IInv
    BY InitIInv
  <1>3. CarefulOwner => CarefulOwner'
    BY DEF CarefulOwner
  <1> QED
    BY <1>1, <1>2, <1>3, PTL DEF Spec

LEMMA CountsOfIInv ==
  ASSUME IInv
  PROVE  CountsTrue
  <1>1. /\ At(Main, "set_run_loop") <=> Top(Main) = "set_run_loop"
        /\ At(Main, "unref") <=> Top(Main) = "unref"
    BY DEF At, Top, Idle, IInv, TypeOK, ThreadTypes, Threads
  <1> QED
    BY <1>1 DEF IInv, CountsTrue, RefsInv, HeldInv, LoopInv, Users

\* The counts of components, editors, contexts and loops are true
\* (CountsTrue: ref and unref of all their interfaces), for such a host.
THEOREM CountsAlwaysTrue == CarefulOwner /\ Spec => []CountsTrue
  <1>1. IInv => CountsTrue
    BY CountsOfIInv
  <1> QED
    BY <1>1, InvariantHolds, PTL

LEMMA SafeOfIInv ==
  ASSUME IInv
  PROVE  NothingDangles
  <1>1. ASSUME NEW c \in Comps
        PROVE  /\ HostHolds(c) => plug[c] = "ready"
               /\ HostViews(c) => HostHolds(c) /\ m_editor[c]
               /\ m_runloop[c] = Threaded => HostHolds(c) /\ s_unique_instance
    <2>1. LifeAt(c) /\ StackInv
      BY DEF IInv, LifeInv
    <2>2. m_runloop[c] # None => HostHolds(c)
      <3>1. In(c, {"initialize"}) => HostHolds(c)
        <4>1. In(c, {"initialize"}) => Top(Main) \notin {"create_instance", "delete", "members"}
          BY <2>1 DEF In, StackInv, Alone, Loopings
        <4> QED
          BY <2>1, <4>1 DEF LifeAt, In
      <3> QED
        BY <2>1, <3>1 DEF LifeAt
    <2>3. m_runloop[c] = Threaded => s_unique_instance
      <3>1. SameBut(m_runloop, m_runloop, c)
        BY DEF SameBut
      <3>2. m_runloop[c] = Threaded => Users(m_runloop, Threaded) > 0
        BY <3>1, UsersMove
      <3>3. /\ loop_refcnt[Threaded] = LoopCount(Threaded)
            /\ s_unique_instance <=> loop_refcnt[Threaded] > 0
        BY LoopInvIs DEF IInv, Loops
      <3>4. Users(m_runloop, Threaded) \in Nat /\ Extra \in Nat
        BY UsersNat DEF Extra
      <3> QED
        BY <3>2, <3>3, <3>4 DEF LoopCount
    <2>4. Threaded # None
      BY LifetimesAssumption DEF Loops
    <2> QED
      BY <2>1, <2>2, <2>3, <2>4 DEF LifeAt
  <1>2. running # None => running \in Comps /\ m_runloop[running] = Threaded
    BY DEF IInv, TypeOK, LoopTypes, LoopInv
  <1> QED
    BY <1>1, <1>2 DEF NothingDangles

\* Nothing dangles: component, plugin, editor and loop are there while
\* somebody has a reference to them (NothingDangles: the destructors, and the
\* callbacks of the threaded loop).
THEOREM NothingEverDangles == CarefulOwner /\ Spec => []NothingDangles
  <1>1. IInv => NothingDangles
    BY SafeOfIInv
  <1> QED
    BY <1>1, InvariantHolds, PTL

-----------------------------------------------------------------------------
(***************************************************************************)
(* The plugin's graphics, for a host that also removes editors and waits   *)
(* for attached.                                                           *)
(***************************************************************************)
LEMMA CarefulHosts == CarefulHost => CarefulOwner
  BY DEF CarefulHost, CarefulOwner

LEMMA InView ==
  ASSUME TypeOK, NEW c \in Comps, NEW v \in Views, view_refs[c][v] > 0
  PROVE  HostViews(c)
  BY Holding DEF HostViews

LEMMA GetSizeBegins ==
  ASSUME CarefulHost, TypeOK, StackInv, NEW c, get_size(c)
  PROVE  Begins(Main, c, "get_size", "idle") /\ Idle(Main) /\ view_refs[c][View] > 0
  <1>1. Idle(Main) /\ view_refs[c][View] > 0
    BY DEF get_size, Careful, CarefulHost
  <1>2. ~Turns(Main, "gui show", "get_size", "gui show")
    BY <1>1 DEF Turns, Top
  <1> QED
    BY <1>1, <1>2, Positions

\* No function is called by the end of attached.
LEMMA NextUnder ==
  ASSUME CarefulHost, TypeOK, StackInv, RefsInv, LifeInv, Next, Under(Main) # "gui show"
  PROVE  Under(Main)' # "gui show"
  <1>0. CarefulOwner /\ "idle" # "gui show"
    BY CarefulHosts
  <1>3. ASSUME NEW c, NEW a, NEW b, Begins(Main, c, a, b), b # "gui show"
        PROVE  Under(Main)' # "gui show"
    BY <1>3, MainMoves
  <1>4. ASSUME NEW a, NEW b, Passes(Main, a, b)
        PROVE  Under(Main)' # "gui show"
    BY <1>4, MainMoves
  <1>5. ASSUME NEW a, Ends(Main, a)
        PROVE  Under(Main)' # "gui show"
    BY <1>0, <1>5, MainMoves
  <1>6. ASSUME NEW a, NEW b, NEW d, Turns(Main, a, b, d), d # "gui show"
        PROVE  Under(Main)' # "gui show"
    BY <1>6, MainMoves
  <1>7. ASSUME UNCHANGED <<stack, on>> PROVE Under(Main)' # "gui show"
    BY <1>7, MainMoves
  <1>8. ASSUME NEW t \in Threads, t # Main, NEW a, NEW b, NEW c,
               Begins(t, c, a, b) \/ Passes(t, a, b) \/ Ends(t, a)
        PROVE  Under(Main)' # "gui show"
    BY <1>8 DEF Begins, Passes, Ends, Moves, Threads
  <1>9. ASSUME ModuleEntry PROVE Under(Main)' # "gui show"
    BY <1>7, <1>9 DEF ModuleEntry
  <1>10. ASSUME ModuleExit PROVE Under(Main)' # "gui show"
    BY <1>7, <1>10 DEF ModuleExit
  <1>11. ASSUME NEW x \in Contexts \cup {None}, set_host_context(x) PROVE Under(Main)' # "gui show"
    BY <1>7, <1>11 DEF set_host_context
  <1>12. ASSUME NEW c \in Comps, create_instance(c) PROVE Under(Main)' # "gui show"
    <2>1. Begins(Main, c, "create_instance", "idle")
      BY <1>12, Positions
    <2> QED
      BY <1>3, <2>1
  <1>13. ASSUME NEW c \in Comps, terminate(c) PROVE Under(Main)' # "gui show"
    BY <1>0, <1>3, <1>13, TerminateAlone
  <1>14. ASSUME NEW ok \in BOOLEAN, InitPlugin(ok) PROVE Under(Main)' # "gui show"
    BY <1>5, <1>14, Positions
  <1>15. ASSUME NEW c \in Comps, NEW f \in Faces, query_interface(c, f) PROVE Under(Main)' # "gui show"
    BY <1>7, <1>15 DEF query_interface
  <1>16. ASSUME NEW c \in Comps, NEW f \in Faces, NEW t \in Threads, unref(t, c, f) PROVE Under(Main)' # "gui show"
    <2>1. CASE Begins(t, c, "delete", "idle")
      BY <1>3, <1>8, <2>1
    <2> QED
      BY <1>7, <1>16, <2>1, PositionsOfRefs
  <1>17. ASSUME NEW t \in Threads, DestroyPlugin(t) PROVE Under(Main)' # "gui show"
    BY <1>4, <1>8, <1>17, Positions
  <1>18. ASSUME NEW t \in Threads, DestroyMembers(t) PROVE Under(Main)' # "gui show"
    BY <1>5, <1>8, <1>18, Positions
  <1>19. ASSUME NEW c \in Comps, NEW x \in Contexts \cup {None}, initialize(c, x) PROVE Under(Main)' # "gui show"
    <2>1. Begins(Main, c, "instance", "initialize")
      BY <1>19, Positions
    <2> QED
      BY <1>3, <2>1
  <1>20. ASSUME initialize_done PROVE Under(Main)' # "gui show"
    BY <1>5, <1>20, Positions
  <1>21. ASSUME terminate_loop PROVE Under(Main)' # "gui show"
    BY <1>4, <1>21, Positions
  <1>22. ASSUME terminate_done PROVE Under(Main)' # "gui show"
    BY <1>5, <1>22, Positions
  <1>23. ASSUME NEW c \in Comps, LoopCalls(c) PROVE Under(Main)' # "gui show"
    BY <1>7, <1>23 DEF LoopCalls
  <1>24. ASSUME LoopReturns PROVE Under(Main)' # "gui show"
    BY <1>7, <1>24 DEF LoopReturns
  <1>25. ASSUME SwitchToInstance PROVE Under(Main)' # "gui show"
    BY <1>4, <1>25, Positions
  <1>26. ASSUME NEW c \in Comps, create_view(c) PROVE Under(Main)' # "gui show"
    BY <1>7, <1>26 DEF create_view
  <1>27. ASSUME NEW c \in Comps, attached(c) PROVE Under(Main)' # "gui show"
    <2>1. Begins(Main, c, "gui create", "idle")
      BY <1>27, Positions
    <2> QED
      BY <1>3, <2>1
  <1>28. ASSUME NEW c \in Comps, removed(c) PROVE Under(Main)' # "gui show"
    <2>1. Begins(Main, c, "instance", "frame hook")
      BY <1>28, Positions
    <2> QED
      BY <1>3, <2>1
  <1>29. ASSUME NEW c \in Comps, get_size(c) PROVE Under(Main)' # "gui show"
    BY <1>0, <1>3, <1>29, GetSizeBegins
  <1>30. ASSUME NEW c \in Comps, NEW v \in Views, view_query_interface(c, v) PROVE Under(Main)' # "gui show"
    BY <1>7, <1>30 DEF view_query_interface
  <1>31. ASSUME NEW c \in Comps, NEW v \in Views, view_unref(c, v) PROVE Under(Main)' # "gui show"
    <2>1. CASE Begins(Main, c, "instance", "delete hook")
      BY <1>3, <2>1
    <2> QED
      BY <1>7, <1>31, <2>1, PositionsOfRefs
  <1>32. ASSUME DeleteHookDone PROVE Under(Main)' # "gui show"
    BY <1>5, <1>32, Positions
  <1>33. ASSUME FrameHookDone PROVE Under(Main)' # "gui show"
    BY <1>5, <1>33, Positions
  <1>34. ASSUME NEW w \in Fitting, GuiCreated(w) PROVE Under(Main)' # "gui show"
    BY <1>4, <1>34, Positions
  <1>35. ASSUME NEW w \in Fitting, TemporaryGui(w) PROVE Under(Main)' # "gui show"
    BY <1>4, <1>35, Positions
  <1>36. ASSUME GuiRefused PROVE Under(Main)' # "gui show"
    <2>1. Turns(Main, "gui create", "instance", "frame hook")
      BY <1>36, Positions
    <2> QED
      BY <1>6, <2>1
  <1>37. ASSUME attached_done PROVE Under(Main)' # "gui show"
    BY <1>4, <1>37, Positions
  <1>38. ASSUME SizeOfGui PROVE Under(Main)' # "gui show"
    BY <1>5, <1>38, Positions
  <1>39. ASSUME NoTemporaryGui PROVE Under(Main)' # "gui show"
    BY <1>5, <1>39, Positions
  <1>40. ASSUME TemporarySize PROVE Under(Main)' # "gui show"
    BY <1>5, <1>40, Positions
  <1>41. ASSUME NEW c \in Comps, NEW w \in Fitting, request_resize(c, w) PROVE Under(Main)' # "gui show"
    <2>1. Begins(Main, c, "on_size", "idle")
      BY <1>41, Positions
    <2> QED
      BY <1>3, <2>1
  <1>42. ASSUME NEW c \in Comps, NEW l \in Lefts, NEW w \in Widths, Drag(c, l, w) PROVE Under(Main)' # "gui show"
    <2>1. Begins(Main, c, "check_size_constraint", "on_size")
      BY <1>42, Positions
    <2> QED
      BY <1>3, <2>1
  <1>43. ASSUME check_size_constraint PROVE Under(Main)' # "gui show"
    BY <1>5, <1>43, Positions
  <1>44. ASSUME on_size PROVE Under(Main)' # "gui show"
    BY <1>4, <1>5, <1>44, Positions
  <1>45. ASSUME TakeInstance PROVE Under(Main)' # "gui show"
    BY <1>4, <1>45, Positions
  <1>46. ASSUME DropInstance PROVE Under(Main)' # "gui show"
    BY <1>5, <1>46, Positions
  <1> QED
    BY <1>9, <1>10, <1>11, <1>12, <1>13, <1>14, <1>15, <1>16, <1>17, <1>18, <1>19, <1>20, <1>21, <1>22, <1>23, <1>24, <1>25, <1>26, <1>27, <1>28, <1>29, <1>30, <1>31, <1>32, <1>33, <1>34, <1>35, <1>36, <1>37, <1>38, <1>39, <1>40, <1>41, <1>42, <1>43, <1>44, <1>45, <1>46 DEF Next, ModuleSteps, ComponentSteps, LoopSteps, EditorSteps

\* What a component keeps of its graphics that the step is not about.
Drawn(c) ==
  /\ gui'[c] = gui[c] /\ m_created'[c] = m_created[c] /\ m_editor_frame'[c] = m_editor_frame[c]
  /\ m_runloop'[c] = m_runloop[c]

GuiPlace(c) ==
  /\ \A p \in Graphics : In(c, {p})' <=> In(c, {p})
  /\ In(c, {"initialize"})' => In(c, {"initialize"}) \/ ~HostViews(c)
  /\ In(c, {"frame hook"})' /\ Top(Main)' \in {"unref", "frame hook"} =>
       Top(Main) \in {"unref", "frame hook"}

LEMMA GuiStill ==
  ASSUME NEW c, GuiAt(c), Drawn(c), HostViews(c)' <=> HostViews(c), GuiPlace(c)
  PROVE  GuiAt(c)'
  <1>1. /\ In(c, {"gui create"})' <=> In(c, {"gui create"})
        /\ In(c, {"gui show"})' <=> In(c, {"gui show"})
        /\ In(c, {"frame hook"})' <=> In(c, {"frame hook"})
        /\ In(c, {"temporary"})' <=> In(c, {"temporary"})
    BY DEF GuiPlace, Graphics
  <1>2. /\ In(c, {"gui create", "gui show"})' <=> In(c, {"gui create", "gui show"})
        /\ In(c, Graphics)' <=> In(c, Graphics)
    BY <1>1 DEF In, Graphics
  <1>3. /\ Shown(c)' <=> Shown(c)
        /\ Hidden(c)' <=> Hidden(c)
    BY DEF Drawn, Shown, Hidden
  <1> QED
    BY <1>1, <1>2, <1>3 DEF GuiAt, Drawn, GuiPlace

LEMMA GuiElsewhere ==
  ASSUME NEW d \in Comps, GuiAt(d), Kept(d), Apart(d)
  PROVE  GuiAt(d)'
  <1>1. Drawn(d) /\ (HostViews(d)' <=> HostViews(d))
    BY SameReferences DEF Kept, Drawn
  <1>2. /\ on'[Main] = d <=> on[Main] = d
        /\ on[Main] = d => Top(Main)' = Top(Main) /\ Under(Main)' = Under(Main)
    BY DEF Apart, Threads
  <1>3. GuiPlace(d)
    BY <1>2 DEF GuiPlace, In
  <1> QED
    BY <1>1, <1>3, GuiStill

LEMMA GuiPlaceBy ==
  ASSUME TypeOK, StackInv, NEW c \in Comps
  PROVE  /\ \A a, b : /\ Begins(Main, c, a, b) /\ a \notin Graphics /\ b \notin Graphics
                      /\ a = "initialize" \/ b = "initialize" => ~HostViews(c)
                   => GuiPlace(c)
         /\ \A a, b : /\ Passes(Main, a, b) /\ c = on[Main]
                      /\ a \notin Graphics /\ b \notin Graphics \cup {"initialize", "unref"}
                   => GuiPlace(c)
         /\ \A a : /\ Ends(Main, a) /\ c = on[Main]
                   /\ a \notin Graphics \cup {"instance", "set_run_loop"}
                => GuiPlace(c)
         /\ UNCHANGED <<stack, on>> => GuiPlace(c)
         /\ \A t \in Threads : \A a, b, d : t # Main /\ (Begins(t, d, a, b) \/ Passes(t, a, b) \/ Ends(t, a))
                => GuiPlace(c)
  <1>0. c # None /\ "idle" \notin Graphics
    BY WhoIsWhere DEF Graphics
  <1>1. ASSUME NEW a, NEW b, Begins(Main, c, a, b), a \notin Graphics, b \notin Graphics,
               a = "initialize" \/ b = "initialize" => ~HostViews(c)
        PROVE  GuiPlace(c)
    <2>1. on[Main] = None /\ on'[Main] = c /\ Top(Main)' = a /\ Under(Main)' = b
      BY <1>1, MainMoves
    <2>2. "frame hook" \in Graphics
      BY DEF Graphics
    <2> QED
      BY <1>0, <1>1, <2>1, <2>2 DEF GuiPlace, In
  <1>2. ASSUME NEW a, NEW b, Passes(Main, a, b), c = on[Main], a \notin Graphics,
               b \notin Graphics \cup {"initialize", "unref"}
        PROVE  GuiPlace(c)
    <2>1. Top(Main) = a /\ on'[Main] = on[Main] /\ Top(Main)' = b /\ Under(Main)' = Under(Main)
      BY <1>2, MainMoves
    <2>2. "frame hook" \in Graphics
      BY DEF Graphics
    <2> QED
      BY <1>0, <1>2, <2>1, <2>2 DEF GuiPlace, In
  <1>3. ASSUME NEW a, Ends(Main, a), c = on[Main], a \notin Graphics \cup {"instance", "set_run_loop"}
        PROVE  GuiPlace(c)
    <2>1. /\ Top(Main) = a /\ on'[Main] = (IF Under(Main) = "idle" THEN None ELSE on[Main])
          /\ Top(Main)' = Under(Main) /\ Under(Main)' = "idle"
      BY <1>3, MainMoves
    <2>2. Under(Main) # "idle" => a \in Loopings \cup {"check_size_constraint", "get_size", "temporary"}
      BY <2>1, WhoIsWhere
    <2>3. Under(Main) = "frame hook" => a = "unref"
      BY <1>3, <2>1, <2>2, WhoIsWhere DEF Loopings, Hooked, Alone
    <2>4. Under(Main) # "unref"
      BY WhoIsWhere DEF Hooked
    <2>5. \A p \in Graphics \cup {"initialize"} : p # "idle" /\ (In(c, {p})' => Under(Main) = p)
      BY <1>0, <2>1 DEF In, Graphics
    <2>6. \A p \in Graphics : Under(Main) = p => In(c, {p})' /\ In(c, {p})
      BY <1>0, <1>3, <2>1 DEF In
    <2>7. \A p \in Graphics : In(c, {p}) => Under(Main) = p
      BY <1>3, <2>1 DEF In
    <2>8. Under(Main) = "initialize" => In(c, {"initialize"})
      BY <1>3 DEF In
    <2>9. "frame hook" \in Graphics
      BY DEF Graphics
    <2> QED
      BY <2>1, <2>3, <2>4, <2>5, <2>6, <2>7, <2>8, <2>9 DEF GuiPlace
  <1>4. ASSUME UNCHANGED <<stack, on>> PROVE GuiPlace(c)
    BY <1>4, MainMoves DEF GuiPlace, In
  <1>5. ASSUME NEW t \in Threads, NEW a, NEW b, NEW d, t # Main,
               Begins(t, d, a, b) \/ Passes(t, a, b) \/ Ends(t, a)
        PROVE  GuiPlace(c)
    <2>1. on'[Main] = on[Main] /\ Top(Main)' = Top(Main) /\ Under(Main)' = Under(Main)
      BY <1>5 DEF Begins, Passes, Ends, Moves, Threads, TypeOK, ThreadTypes
    <2> QED
      BY <2>1 DEF GuiPlace, In
  <1> QED
    BY <1>1, <1>2, <1>3, <1>4, <1>5

-----------------------------------------------------------------------------
\* The functions that leave graphics alone.
LEMMA QuietGui ==
  ASSUME CarefulHost, IInv, GuiInv, NEW c \in Comps
  PROVE  /\ create_instance(c) => GuiAt(c)'
         /\ terminate(c) => GuiAt(c)'
         /\ \A ok \in BOOLEAN : InitPlugin(ok) /\ c = on[Main] => GuiAt(c)'
         /\ \A f \in Faces : query_interface(c, f) => GuiAt(c)'
         /\ \A x \in Contexts \cup {None} : initialize(c, x) => GuiAt(c)'
         /\ initialize_done /\ c = on[Main] => GuiAt(c)'
         /\ terminate_done /\ c = on[Main] => GuiAt(c)'
         /\ TakeInstance /\ c = on[Main] => GuiAt(c)'
         /\ DropInstance /\ c = on[Main] => GuiAt(c)'
         /\ get_size(c) => GuiAt(c)'
         /\ SizeOfGui /\ c = on[Main] => GuiAt(c)'
         /\ NoTemporaryGui /\ c = on[Main] => GuiAt(c)'
         /\ \A w \in Fitting : request_resize(c, w) => GuiAt(c)'
         /\ \A l \in Lefts, w \in Widths : Drag(c, l, w) => GuiAt(c)'
         /\ check_size_constraint /\ c = on[Main] => GuiAt(c)'
         /\ on_size /\ c = on[Main] => GuiAt(c)'
         /\ \A f \in Faces, t \in Threads : unref(t, c, f) => GuiAt(c)'
         /\ \A t \in Threads : DestroyPlugin(t) /\ c = on[t] => GuiAt(c)'
  <1>0. TypeOK /\ StackInv /\ RefsInv /\ LifeInv /\ LifeAt(c) /\ GuiAt(c) /\ CarefulOwner
    BY CarefulHosts DEF IInv, LifeInv, GuiInv
  <1> USE DEF Graphics
  <1>1. ASSUME create_instance(c) PROVE GuiAt(c)'
    <2>1. Begins(Main, c, "create_instance", "idle")
      BY <1>0, <1>1, Positions
    <2>2. GuiPlace(c)
      BY <1>0, <1>1, <2>1, GuiPlaceBy
    <2>3. Drawn(c) /\ (HostViews(c)' <=> HostViews(c))
      BY <1>1, SameReferences DEF create_instance, Drawn, loops, viewed, shown
    <2> QED
      BY <1>0, <2>2, <2>3, GuiStill
  <1>2. ASSUME terminate(c) PROVE GuiAt(c)'
    <2>1. Begins(Main, c, "terminate", "idle")
      BY <1>0, <1>2, TerminateAlone
    <2>2. GuiPlace(c)
      BY <1>0, <1>2, <2>1, GuiPlaceBy
    <2>3. Drawn(c) /\ (HostViews(c)' <=> HostViews(c))
      BY <1>2, SameReferences DEF terminate, Drawn, loops, viewed, shown
    <2> QED
      BY <1>0, <2>2, <2>3, GuiStill
  <1>3. ASSUME NEW ok \in BOOLEAN, InitPlugin(ok), c = on[Main] PROVE GuiAt(c)'
    <2>1. Ends(Main, "create_instance")
      BY <1>0, <1>3, Positions
    <2>2. GuiPlace(c)
      BY <1>0, <1>3, <2>1, GuiPlaceBy
    <2>3. Drawn(c) /\ (HostViews(c)' <=> HostViews(c))
      BY <1>3, SameReferences DEF InitPlugin, Drawn, loops, viewed, shown
    <2> QED
      BY <1>0, <2>2, <2>3, GuiStill
  <1>4. ASSUME NEW f \in Faces, query_interface(c, f) PROVE GuiAt(c)'
    <2>1. UNCHANGED <<stack, on>>
      BY <1>0, <1>4 DEF query_interface
    <2>2. GuiPlace(c)
      BY <1>0, <1>4, <2>1, GuiPlaceBy
    <2>3. Drawn(c) /\ (HostViews(c)' <=> HostViews(c))
      BY <1>4, SameReferences DEF query_interface, Drawn, loops, viewed, shown
    <2> QED
      BY <1>0, <2>2, <2>3, GuiStill
  <1>5. ASSUME NEW x \in Contexts \cup {None}, initialize(c, x) PROVE GuiAt(c)'
    <2>1. Begins(Main, c, "instance", "initialize")
      BY <1>0, <1>5, Positions
    <2>4. ~HostViews(c)
      BY <1>0, <1>5 DEF initialize, LifeAt
    <2>2. GuiPlace(c)
      BY <1>0, <1>5, <2>1, <2>4, GuiPlaceBy
    <2>3. Drawn(c) /\ (HostViews(c)' <=> HostViews(c))
      BY <1>5, SameReferences DEF initialize, Drawn, loops, viewed, shown
    <2> QED
      BY <1>0, <2>2, <2>3, GuiStill
  <1>6. ASSUME initialize_done, c = on[Main] PROVE GuiAt(c)'
    <2>1. Ends(Main, "initialize")
      BY <1>0, <1>6, Positions
    <2>2. GuiPlace(c)
      BY <1>0, <1>6, <2>1, GuiPlaceBy
    <2>3. Drawn(c) /\ (HostViews(c)' <=> HostViews(c))
      BY <1>6, SameReferences DEF initialize_done, Drawn, loops, viewed, shown
    <2> QED
      BY <1>0, <2>2, <2>3, GuiStill
  <1>7. ASSUME terminate_done, c = on[Main] PROVE GuiAt(c)'
    <2>1. Ends(Main, "terminated")
      BY <1>0, <1>7, Positions
    <2>2. GuiPlace(c)
      BY <1>0, <1>7, <2>1, GuiPlaceBy
    <2>3. Drawn(c) /\ (HostViews(c)' <=> HostViews(c))
      BY <1>7, SameReferences DEF terminate_done, Drawn, loops, viewed, shown
    <2> QED
      BY <1>0, <2>2, <2>3, GuiStill
  <1>8. ASSUME TakeInstance, c = on[Main] PROVE GuiAt(c)'
    <2>1. Passes(Main, "instance", "set_run_loop")
      BY <1>0, <1>8, Positions
    <2>2. GuiPlace(c)
      BY <1>0, <1>8, <2>1, GuiPlaceBy
    <2>3. Drawn(c) /\ (HostViews(c)' <=> HostViews(c))
      BY <1>8, SameReferences DEF TakeInstance, Drawn, loops, viewed, shown
    <2> QED
      BY <1>0, <2>2, <2>3, GuiStill
  <1>9. ASSUME DropInstance, c = on[Main] PROVE GuiAt(c)'
    <2>1. Ends(Main, "unref")
      BY <1>0, <1>9, Positions
    <2>2. GuiPlace(c)
      BY <1>0, <1>9, <2>1, GuiPlaceBy
    <2>3. Drawn(c) /\ (HostViews(c)' <=> HostViews(c))
      BY <1>9, SameReferences DEF DropInstance, Drawn, loops, viewed, shown
    <2> QED
      BY <1>0, <2>2, <2>3, GuiStill
  <1>10. ASSUME get_size(c) PROVE GuiAt(c)'
    <2>1. Begins(Main, c, "get_size", "idle")
      BY <1>0, <1>10, GetSizeBegins
    <2>2. GuiPlace(c)
      BY <1>0, <1>10, <2>1, GuiPlaceBy
    <2>3. Drawn(c) /\ (HostViews(c)' <=> HostViews(c))
      BY <1>10, SameReferences DEF get_size, Drawn, loops, viewed, shown
    <2> QED
      BY <1>0, <2>2, <2>3, GuiStill
  <1>11. ASSUME SizeOfGui, c = on[Main] PROVE GuiAt(c)'
    <2>1. Ends(Main, "get_size")
      BY <1>0, <1>11, Positions
    <2>2. GuiPlace(c)
      BY <1>0, <1>11, <2>1, GuiPlaceBy
    <2>3. Drawn(c) /\ (HostViews(c)' <=> HostViews(c))
      BY <1>11, SameReferences DEF SizeOfGui, Drawn, loops, viewed, shown
    <2> QED
      BY <1>0, <2>2, <2>3, GuiStill
  <1>12. ASSUME NoTemporaryGui, c = on[Main] PROVE GuiAt(c)'
    <2>1. Ends(Main, "get_size")
      BY <1>0, <1>12, Positions
    <2>2. GuiPlace(c)
      BY <1>0, <1>12, <2>1, GuiPlaceBy
    <2>3. Drawn(c) /\ (HostViews(c)' <=> HostViews(c))
      BY <1>12, SameReferences DEF NoTemporaryGui, Drawn, loops, viewed, shown
    <2> QED
      BY <1>0, <2>2, <2>3, GuiStill
  <1>13. ASSUME NEW w \in Fitting, request_resize(c, w) PROVE GuiAt(c)'
    <2>1. Begins(Main, c, "on_size", "idle")
      BY <1>0, <1>13, Positions
    <2>2. GuiPlace(c)
      BY <1>0, <1>13, <2>1, GuiPlaceBy
    <2>3. Drawn(c) /\ (HostViews(c)' <=> HostViews(c))
      BY <1>13, SameReferences DEF request_resize, Drawn, loops, viewed, shown
    <2> QED
      BY <1>0, <2>2, <2>3, GuiStill
  <1>14. ASSUME NEW l \in Lefts, NEW w \in Widths, Drag(c, l, w) PROVE GuiAt(c)'
    <2>1. Begins(Main, c, "check_size_constraint", "on_size")
      BY <1>0, <1>14, Positions
    <2>2. GuiPlace(c)
      BY <1>0, <1>14, <2>1, GuiPlaceBy
    <2>3. Drawn(c) /\ (HostViews(c)' <=> HostViews(c))
      BY <1>14, SameReferences DEF Drag, Drawn, loops, viewed, shown
    <2> QED
      BY <1>0, <2>2, <2>3, GuiStill
  <1>15. ASSUME check_size_constraint, c = on[Main] PROVE GuiAt(c)'
    <2>1. Ends(Main, "check_size_constraint")
      BY <1>0, <1>15, Positions
    <2>2. GuiPlace(c)
      BY <1>0, <1>15, <2>1, GuiPlaceBy
    <2>3. Drawn(c) /\ (HostViews(c)' <=> HostViews(c))
      BY <1>15, SameReferences DEF check_size_constraint, Drawn, loops, viewed, shown
    <2> QED
      BY <1>0, <2>2, <2>3, GuiStill
  <1>16. ASSUME on_size, c = on[Main] PROVE GuiAt(c)'
    <2>1. Ends(Main, "on_size") \/ Passes(Main, "on_size", "get_size")
      BY <1>0, <1>16, Positions
    <2>2. GuiPlace(c)
      BY <1>0, <1>16, <2>1, GuiPlaceBy
    <2>3. Drawn(c) /\ (HostViews(c)' <=> HostViews(c))
      BY <1>16, SameReferences DEF on_size, Drawn, loops, viewed, shown
    <2> QED
      BY <1>0, <2>2, <2>3, GuiStill
  <1>17. ASSUME NEW f \in Faces, NEW t \in Threads, unref(t, c, f) PROVE GuiAt(c)'
    <2>1. Begins(t, c, "delete", "idle") \/ UNCHANGED <<stack, on>>
      BY <1>0, <1>17, PositionsOfRefs
    <2>2. GuiPlace(c)
      BY <1>0, <2>1, GuiPlaceBy
    <2>3. Drawn(c) /\ (HostViews(c)' <=> HostViews(c))
      BY <1>17, SameReferences DEF unref, Drawn, loops, viewed, shown
    <2> QED
      BY <1>0, <2>2, <2>3, GuiStill
  <1>18. ASSUME NEW t \in Threads, DestroyPlugin(t), c = on[t] PROVE GuiAt(c)'
    <2>1. Passes(t, "delete", "members")
      BY <1>0, <1>18, Positions
    <2>2. GuiPlace(c)
      BY <1>0, <1>18, <2>1, GuiPlaceBy
    <2>3. Drawn(c) /\ (HostViews(c)' <=> HostViews(c))
      BY <1>18, SameReferences DEF DestroyPlugin, Drawn, loops, viewed, shown
    <2> QED
      BY <1>0, <2>2, <2>3, GuiStill
  <1> QED
    BY <1>1, <1>2, <1>3, <1>4, <1>5, <1>6, <1>7, <1>8, <1>9, <1>10, <1>11, <1>12, <1>13, <1>14, <1>15, <1>16, <1>17, <1>18

\* References to the editor come and go between functions.
LEMMA ViewsGui ==
  ASSUME CarefulHost, IInv, GuiInv, NEW c \in Comps
  PROVE  /\ create_view(c) => GuiAt(c)'
         /\ \A v \in Views : view_query_interface(c, v) => GuiAt(c)'
         /\ \A v \in Views : view_unref(c, v) => GuiAt(c)'
  <1>0. TypeOK /\ StackInv /\ RefsInv /\ LifeInv /\ LifeAt(c) /\ LifeInv /\ GuiAt(c) /\ CarefulOwner
    BY CarefulHosts DEF IInv, LifeInv, GuiInv
  <1>1. \A S : Idle(Main) => ~In(c, S)
    BY <1>0, WhoIsWhere DEF In, Top
  <1>2. ASSUME Idle(Main), UNCHANGED <<stack, on>>, Drawn(c), m_created[c] => HostViews(c)'
        PROVE  GuiAt(c)'
    <2>1. \A S : ~In(c, S) /\ ~In(c, S)'
      BY <1>0, <1>1, <1>2, MainMoves DEF In
    <2> QED
      BY <1>0, <1>2, <2>1 DEF GuiAt, Drawn, Shown, Hidden
  <1>3. ASSUME create_view(c) PROVE GuiAt(c)'
    <2>1. View \in Views
      BY DEF Views
    <2>2. /\ ViewReferences(c) \in Nat /\ view_refs[c][View] \in Nat /\ view_refs[c][View] + 1 \in Nat
      BY <1>0, <2>1, Holding
    <2>3. view_refs' = [view_refs EXCEPT ![c][View] = view_refs[c][View] + 1]
      BY <1>3 DEF create_view
    <2>4. ViewReferences(c)' = ViewReferences(c) - view_refs[c][View] + (view_refs[c][View] + 1)
      BY <1>0, <2>1, <2>2, <2>3, ViewReferencesMove
    <2>5. HostViews(c)'
      BY <2>2, <2>4 DEF HostViews
    <2>6. Idle(Main) /\ UNCHANGED <<stack, on>> /\ Drawn(c)
      BY <1>3 DEF create_view, Drawn, loops, shown
    <2> QED
      BY <1>2, <2>5, <2>6
  <1>4. ASSUME NEW v \in Views, view_query_interface(c, v) PROVE GuiAt(c)'
    <2>2. /\ ViewReferences(c) \in Nat /\ view_refs[c][v] \in Nat /\ view_refs[c][v] + 1 \in Nat
      BY <1>0, Holding
    <2>3. view_refs' = [view_refs EXCEPT ![c][v] = view_refs[c][v] + 1]
      BY <1>4 DEF view_query_interface
    <2>4. ViewReferences(c)' = ViewReferences(c) - view_refs[c][v] + (view_refs[c][v] + 1)
      BY <1>0, <2>2, <2>3, ViewReferencesMove
    <2>5. HostViews(c)'
      BY <2>2, <2>4 DEF HostViews
    <2>6. Idle(Main) /\ UNCHANGED <<stack, on>> /\ Drawn(c)
      BY <1>4 DEF view_query_interface, Drawn, loops, shown
    <2> QED
      BY <1>2, <2>5, <2>6
  <1>5. ASSUME NEW v \in Views, view_unref(c, v) PROVE GuiAt(c)'
    <2>1. Idle(Main) /\ Drawn(c)
      BY <1>5 DEF view_unref, Drawn, loops, shown
    <2>2. /\ view_refcnt[c] = ViewReferences(c) /\ ViewReferences(c) \in Nat /\ view_refs[c][v] \in Nat
          /\ view_refs[c][v] > 0 /\ view_refs[c][v] - 1 \in Nat
      <3>1. view_refs[c][v] > 0
        BY <1>5 DEF view_unref
      <3>2. /\ view_refcnt[c] = ViewReferences(c) /\ ViewReferences(c) \in Nat
            /\ view_refs[c][v] \in Nat
        BY <1>0, Holding DEF RefsInv
      <3> QED
        BY <3>1, <3>2
    <2>3. view_refs' = [view_refs EXCEPT ![c][v] = view_refs[c][v] - 1]
      BY <1>5 DEF view_unref
    <2>4. ViewReferences(c)' = ViewReferences(c) - view_refs[c][v] + (view_refs[c][v] - 1)
      BY <1>0, <2>2, <2>3, ViewReferencesMove
    <2>5. CASE view_refcnt[c] # 1
      <3>1. UNCHANGED <<stack, on>>
        BY <1>0, <1>5, <2>5, PositionsOfRefs
      <3>2. HostViews(c)'
        <4>1. ViewReferences(c) > 0
          BY <1>0, <2>2, Holding
        <4>2. ViewReferences(c)' > 0
          BY <2>2, <2>4, <2>5, <4>1
        <4> QED
          BY <4>2 DEF HostViews
      <3> QED
        BY <1>2, <2>1, <3>1, <3>2
    <2>6. CASE view_refcnt[c] = 1
      <3>1. ~m_created[c]
        BY <1>5, <2>2, <2>6 DEF view_unref, Careful, CarefulHost
      <3>2. Begins(Main, c, "instance", "delete hook")
        BY <1>0, <1>5, <2>6, PositionsOfRefs
      <3>3. on'[Main] = c /\ Top(Main)' = "instance" /\ Under(Main)' = "delete hook"
        BY <1>0, <3>2, MainMoves
      <3>4. /\ ~In(c, {"gui create", "gui show"})' /\ ~In(c, {"initialize"})' /\ ~In(c, {"gui create"})'
            /\ ~In(c, {"gui show"})' /\ ~In(c, {"frame hook"})' /\ ~In(c, {"temporary"})'
        BY <3>3 DEF In
      <3>5. Shown(c) \/ Hidden(c)
        BY <1>0, <1>1, <2>1 DEF GuiAt
      <3> QED
        BY <2>1, <3>1, <3>4, <3>5 DEF GuiAt, Drawn, Shown, Hidden
    <2> QED
      BY <2>5, <2>6
  <1> QED
    BY <1>3, <1>4, <1>5

-----------------------------------------------------------------------------
\* A function that was called by no other goes on.
LEMMA PassesIn ==
  ASSUME TypeOK, StackInv, NEW c \in Comps, c = on[Main], Under(Main) # "gui show",
         NEW a \in Alone, NEW b, Passes(Main, a, b)
  PROVE  /\ Top(Main) = a /\ Under(Main) = "idle"
         /\ on'[Main] = c /\ Top(Main)' = b /\ Under(Main)' = "idle"
  <1>1. Top(Main) = a /\ on'[Main] = c /\ Top(Main)' = b /\ Under(Main)' = Under(Main)
    BY MainMoves
  <1>2. Under(Main) = "idle"
    BY <1>1, WhoIsWhere DEF Alone, Loopings, Hooked
  <1> QED
    BY <1>1, <1>2

\* The plugin makes graphics, or destroys them.
LEMMA GuiCount ==
  ASSUME TypeOK, NEW c \in Comps
  PROVE  /\ gui' = [gui EXCEPT ![c] = gui[c] + 1] /\ gui[c] = 0 => gui'[c] = 1
         /\ gui' = [gui EXCEPT ![c] = gui[c] - 1] /\ gui[c] = 1 => gui'[c] = 0
  BY DEF TypeOK, GraphicsTypes

\* Graphics are there or not after a step.
LEMMA GuiHidden ==
  ASSUME NEW c, Hidden(c)', ~In(c, Graphics)', In(c, {"initialize"})' => ~HostViews(c)'
  PROVE  GuiAt(c)'
  <1>1. /\ ~In(c, {"gui create", "gui show"})' /\ ~In(c, {"gui create"})' /\ ~In(c, {"gui show"})'
        /\ ~In(c, {"frame hook"})' /\ ~In(c, {"temporary"})'
    BY DEF In, Graphics
  <1> QED
    BY <1>1 DEF GuiAt, Hidden

LEMMA GuiShown ==
  ASSUME NEW c, Shown(c)', ~In(c, Graphics)', ~In(c, {"initialize"})', HostViews(c)'
  PROVE  GuiAt(c)'
  <1>1. /\ ~In(c, {"gui create", "gui show"})' /\ ~In(c, {"gui create"})' /\ ~In(c, {"gui show"})'
        /\ ~In(c, {"frame hook"})' /\ ~In(c, {"temporary"})'
    BY DEF In, Graphics
  <1> QED
    BY <1>1 DEF GuiAt, Shown

LEMMA GuiGone ==
  ASSUME NEW c, GuiAt(c), ~In(c, Graphics), ~HostViews(c) \/ ~m_created[c]
  PROVE  Hidden(c)
  BY DEF GuiAt, Shown

\* The functions at the end of an editor or a component.
LEMMA GuiOfDestroyMembers ==
  ASSUME CarefulHost, IInv, GuiInv, NEW t \in Threads, NEW c \in Comps, c = on[t], DestroyMembers(t)
  PROVE  GuiAt(c)'
  <1>0. TypeOK /\ StackInv /\ LifeInv /\ GuiAt(c)
    BY DEF IInv, GuiInv
  <1>1. Ends(t, "members")
    BY <1>0, Positions
  <1>2. ~HostViews(c) /\ Under(t) = "idle" /\ Top(t) = "members" /\ \A u \in Threads \ {t} : on[u] # c
    BY <1>0, <1>1, Destroying DEF Ends
  <1>3. \A u \in Threads : on'[u] # c
    BY <1>0, <1>1, <1>2, LifetimesAssumption DEF Ends, TypeOK, ThreadTypes
  <1>4. (on[Main] = c => t = Main) /\ on'[Main] # c
    BY <1>2, <1>3 DEF Threads
  <1>5. ~In(c, Graphics) /\ ~In(c, Graphics)' /\ ~In(c, {"initialize"})'
    BY <1>2, <1>4 DEF In, Graphics
  <1>6. Hidden(c)
    BY <1>0, <1>2, <1>5, GuiGone
  <1>7. /\ m_editor_frame' = [m_editor_frame EXCEPT ![c] = FALSE]
        /\ m_runloop' = [m_runloop EXCEPT ![c] = None] /\ gui' = gui /\ m_created' = m_created
    BY <1>0, SetRunLoopAt DEF DestroyMembers
  <1>8. Hidden(c)'
    <2>1. ~m_editor_frame'[c] /\ m_runloop'[c] # Frame
      BY <1>0, <1>7, Functions, LifetimesAssumption DEF Loops
    <2> QED
      BY <1>6, <1>7, <2>1 DEF Hidden
  <1> QED
    BY <1>5, <1>8, GuiHidden

LEMMA GuiOfTerminateLoop ==
  ASSUME CarefulHost, IInv, GuiInv, NEW c \in Comps, c = on[Main], terminate_loop
  PROVE  GuiAt(c)'
  <1>0. TypeOK /\ StackInv /\ LifeAt(c) /\ GuiAt(c) /\ Under(Main) # "gui show"
    BY DEF IInv, GuiInv, LifeInv
  <1>1. Passes(Main, "terminate", "terminated")
    BY <1>0, Positions
  <1>2. /\ Top(Main) = "terminate" /\ Under(Main) = "idle"
        /\ on'[Main] = c /\ Top(Main)' = "terminated" /\ Under(Main)' = "idle"
    BY <1>0, <1>1, PassesIn DEF Alone
  <1>3. ~In(c, Graphics) /\ ~In(c, Graphics)' /\ ~In(c, {"initialize"})' /\ ~HostViews(c)
    BY <1>0, <1>2 DEF In, Graphics, LifeAt
  <1>4. Hidden(c)
    BY <1>0, <1>3, GuiGone
  <1>5. /\ m_runloop' = [m_runloop EXCEPT ![c] = None]
        /\ gui' = gui /\ m_created' = m_created /\ m_editor_frame' = m_editor_frame
    BY <1>0, SetRunLoopAt DEF terminate_loop, shown
  <1>6. Hidden(c)'
    <2>1. m_runloop'[c] # Frame
      BY <1>0, <1>5, Functions, LifetimesAssumption DEF Loops
    <2> QED
      BY <1>4, <1>5, <2>1 DEF Hidden
  <1> QED
    BY <1>3, <1>6, GuiHidden

LEMMA GuiOfDeleteHook ==
  ASSUME CarefulHost, IInv, GuiInv, NEW c \in Comps, c = on[Main], DeleteHookDone
  PROVE  GuiAt(c)'
  <1>0. TypeOK /\ StackInv /\ LifeAt(c) /\ GuiAt(c)
    BY DEF IInv, GuiInv, LifeInv
  <1>1. /\ Top(Main) = "delete hook" /\ Under(Main) = "idle" /\ on'[Main] # c
    BY <1>0, Positions, EndsIn DEF Alone, Hooked
  <1>2. ~In(c, Graphics) /\ ~In(c, Graphics)' /\ ~In(c, {"initialize"})' /\ ~HostViews(c)
    BY <1>0, <1>1 DEF In, Graphics, LifeAt
  <1>3. Hidden(c)
    BY <1>0, <1>2, GuiGone
  <1>4. /\ m_created' = [m_created EXCEPT ![c] = FALSE]
        /\ m_editor_frame' = [m_editor_frame EXCEPT ![c] = FALSE]
        /\ gui' = gui /\ m_runloop' = m_runloop
    BY DEF DeleteHookDone, loops
  <1>5. Hidden(c)'
    <2>1. ~m_created'[c] /\ ~m_editor_frame'[c]
      BY <1>0, <1>4, Functions
    <2> QED
      BY <1>3, <1>4, <2>1 DEF Hidden
  <1> QED
    BY <1>2, <1>5, GuiHidden

\* The threaded loop serves the component again, or for the first time.
LEMMA GuiOfSwitch ==
  ASSUME CarefulHost, IInv, GuiInv, NEW c \in Comps, c = on[Main], SwitchToInstance
  PROVE  GuiAt(c)'
  <1>0. TypeOK /\ StackInv /\ LifeAt(c) /\ GuiAt(c)
    BY DEF IInv, GuiInv, LifeInv
  <1>1. Passes(Main, "set_run_loop", "unref")
    BY <1>0, Positions
  <1>2. /\ Top(Main) = "set_run_loop" /\ on'[Main] = c /\ Top(Main)' = "unref"
        /\ Under(Main)' = Under(Main)
    BY <1>1, <1>0, MainMoves
  <1>3. Under(Main) \in Hooked
    BY <1>0, <1>2, WhoIsWhere DEF Alone, Hooked
  <1>4. /\ m_runloop' = [m_runloop EXCEPT ![c] = Threaded]
        /\ gui' = gui /\ m_created' = m_created /\ m_editor_frame' = m_editor_frame
        /\ (HostViews(c)' <=> HostViews(c))
    BY <1>0, SetRunLoopAt, SameReferences DEF SwitchToInstance, shown, viewed
  <1>5. m_runloop'[c] = Threaded /\ Threaded # Frame
    BY <1>0, <1>4, Functions DEF Threaded, Frame
  <1>6. CASE Under(Main) = "frame hook"
    <2>1. /\ In(c, {"frame hook"}) /\ In(c, {"frame hook"})' /\ In(c, Graphics)'
          /\ ~In(c, {"gui create", "gui show"})' /\ ~In(c, {"gui create"})' /\ ~In(c, {"gui show"})'
          /\ ~In(c, {"temporary"})' /\ ~In(c, {"initialize"})'
      BY <1>2, <1>6 DEF In, Graphics
    <2> QED
      BY <1>0, <1>4, <1>5, <2>1 DEF GuiAt
  <1>7. CASE Under(Main) # "frame hook"
    <2>1. Under(Main) \in {"initialize", "delete hook"}
      BY <1>3, <1>7 DEF Hooked
    <2>2. ~In(c, Graphics) /\ ~In(c, Graphics)'
      BY <1>2, <2>1 DEF In, Graphics
    <2>3. ~HostViews(c)
      <3>1. In(c, {"initialize"}) \/ In(c, {"terminate", "terminated", "delete hook"})
        BY <2>1 DEF In
      <3> QED
        BY <1>0, <3>1 DEF GuiAt, LifeAt
    <2>4. Hidden(c)
      BY <1>0, <2>2, <2>3, GuiGone
    <2>5. Hidden(c)'
      BY <1>4, <1>5, <2>4 DEF Hidden
    <2> QED
      BY <1>4, <2>2, <2>3, <2>5, GuiHidden
  <1> QED
    BY <1>6, <1>7

-----------------------------------------------------------------------------
\* Between functions, graphics are there or not.
LEMMA GuiIdle ==
  ASSUME IInv, GuiInv, NEW c \in Comps, Idle(Main)
  PROVE  /\ on[Main] # c /\ (Shown(c) \/ Hidden(c)) /\ LifeAt(c)
         /\ m_created[c] => HostViews(c)
  <1>1. on[Main] # c
    BY WhoIsWhere DEF IInv, Top
  <1>2. ~In(c, Graphics)
    BY <1>1 DEF In
  <1> QED
    BY <1>1, <1>2 DEF GuiInv, GuiAt, IInv, LifeInv

LEMMA GuiOfAttached ==
  ASSUME CarefulHost, IInv, GuiInv, NEW c \in Comps, attached(c)
  PROVE  GuiAt(c)'
  <1>0. TypeOK /\ StackInv
    BY DEF IInv
  <1>1. Idle(Main) /\ view_refs[c][View] > 0 /\ ~m_created[c] /\ View \in Views
    BY DEF attached, Views
  <1>2. Hidden(c) /\ HostViews(c)
    BY <1>0, <1>1, GuiIdle, InView DEF Shown
  <1>3. Begins(Main, c, "gui create", "idle")
    BY <1>0, Positions
  <1>4. on'[Main] = c /\ Top(Main)' = "gui create" /\ Under(Main)' = "idle"
    BY <1>0, <1>3, MainMoves
  <1>5. /\ In(c, {"gui create"})' /\ In(c, Graphics)' /\ ~In(c, {"initialize"})'
        /\ ~In(c, {"gui show"})' /\ ~In(c, {"frame hook"})' /\ ~In(c, {"temporary"})'
    BY <1>4 DEF In, Graphics
  <1>6. /\ m_editor_frame' = [m_editor_frame EXCEPT ![c] = TRUE]
        /\ m_runloop' = [m_runloop EXCEPT ![c] = Frame]
        /\ gui' = gui /\ m_created' = m_created /\ (HostViews(c)' <=> HostViews(c))
    BY <1>0, SetRunLoopAt, SameReferences DEF attached, viewed
  <1>7. m_editor_frame'[c] /\ m_runloop'[c] = Frame
    BY <1>0, <1>6, Functions
  <1> QED
    BY <1>2, <1>5, <1>6, <1>7 DEF GuiAt, Hidden

LEMMA GuiOfCreated ==
  ASSUME CarefulHost, IInv, GuiInv, NEW c \in Comps, c = on[Main], NEW w \in Fitting, GuiCreated(w)
  PROVE  GuiAt(c)'
  <1>0. TypeOK /\ StackInv /\ GuiAt(c) /\ Under(Main) # "gui show"
    BY DEF IInv, GuiInv
  <1>1. Passes(Main, "gui create", "gui show")
    BY <1>0, Positions
  <1>2. /\ Top(Main) = "gui create" /\ Under(Main) = "idle"
        /\ on'[Main] = c /\ Top(Main)' = "gui show" /\ Under(Main)' = "idle"
    BY <1>0, <1>1, PassesIn DEF Alone
  <1>3. /\ In(c, {"gui create"}) /\ In(c, {"gui create", "gui show"})
        /\ In(c, {"gui show"})' /\ In(c, Graphics)' /\ ~In(c, {"initialize"})'
        /\ ~In(c, {"gui create"})' /\ ~In(c, {"frame hook"})' /\ ~In(c, {"temporary"})'
    BY <1>2 DEF In, Graphics
  <1>4. /\ gui' = [gui EXCEPT ![c] = gui[c] + 1]
        /\ m_created' = m_created /\ m_editor_frame' = m_editor_frame /\ m_runloop' = m_runloop
        /\ (HostViews(c)' <=> HostViews(c))
    BY SameReferences DEF GuiCreated, loops, viewed
  <1>5. gui'[c] = 1
    <2>1. gui[c] = 0
      BY <1>0, <1>3 DEF GuiAt
    <2> QED
      BY <1>0, <1>4, <2>1, GuiCount
  <1> QED
    BY <1>0, <1>3, <1>4, <1>5 DEF GuiAt

LEMMA GuiOfRefused ==
  ASSUME CarefulHost, IInv, GuiInv, NEW c \in Comps, c = on[Main], GuiRefused
  PROVE  GuiAt(c)'
  <1>0. TypeOK /\ StackInv /\ GuiAt(c)
    BY DEF IInv, GuiInv
  <1>1. Turns(Main, "gui create", "instance", "frame hook")
    BY <1>0, Positions
  <1>2. /\ Top(Main) = "gui create" /\ on'[Main] = c /\ Top(Main)' = "instance"
        /\ Under(Main)' = "frame hook"
    BY <1>0, <1>1, MainMoves
  <1>3. /\ In(c, {"gui create"})
        /\ In(c, {"frame hook"})' /\ In(c, Graphics)' /\ ~In(c, {"initialize"})'
        /\ ~In(c, {"gui create", "gui show"})'
        /\ ~In(c, {"gui create"})' /\ ~In(c, {"gui show"})' /\ ~In(c, {"temporary"})'
    BY <1>2 DEF In, Graphics
  <1>4. /\ m_editor_frame' = [m_editor_frame EXCEPT ![c] = FALSE]
        /\ m_created' = m_created /\ gui' = gui /\ m_runloop' = m_runloop
    BY DEF GuiRefused, loops
  <1>5. ~m_editor_frame'[c]
    BY <1>0, <1>4, Functions
  <1> QED
    BY <1>0, <1>2, <1>3, <1>4, <1>5 DEF GuiAt

LEMMA GuiOfAttachedDone ==
  ASSUME CarefulHost, IInv, GuiInv, NEW c \in Comps, c = on[Main], attached_done
  PROVE  GuiAt(c)'
  <1>0. TypeOK /\ StackInv /\ GuiAt(c) /\ Under(Main) # "gui show"
    BY DEF IInv, GuiInv
  <1>1. Passes(Main, "gui show", "get_size")
    BY <1>0, Positions
  <1>2. /\ Top(Main) = "gui show" /\ Under(Main) = "idle"
        /\ on'[Main] = c /\ Top(Main)' = "get_size" /\ Under(Main)' = "idle"
    BY <1>0, <1>1, PassesIn DEF Alone
  <1>3. /\ In(c, {"gui show"}) /\ In(c, {"gui create", "gui show"})
        /\ ~In(c, Graphics)' /\ ~In(c, {"initialize"})'
    BY <1>2 DEF In, Graphics
  <1>4. /\ m_created' = [m_created EXCEPT ![c] = TRUE]
        /\ gui' = gui /\ m_editor_frame' = m_editor_frame /\ m_runloop' = m_runloop
        /\ (HostViews(c)' <=> HostViews(c))
    BY SameReferences DEF attached_done, loops, viewed
  <1>5. m_created'[c]
    BY <1>0, <1>4, Functions
  <1>6. Shown(c)' /\ HostViews(c)'
    BY <1>0, <1>3, <1>4, <1>5 DEF GuiAt, Shown
  <1> QED
    BY <1>3, <1>6, GuiShown

LEMMA GuiOfRemoved ==
  ASSUME CarefulHost, IInv, GuiInv, NEW c \in Comps, removed(c)
  PROVE  GuiAt(c)'
  <1>0. TypeOK /\ StackInv
    BY DEF IInv
  <1>1. Idle(Main) /\ m_created[c]
    BY DEF removed
  <1>2. Shown(c) /\ HostViews(c)
    BY <1>1, GuiIdle DEF Hidden
  <1>3. Begins(Main, c, "instance", "frame hook")
    BY <1>0, Positions
  <1>4. on'[Main] = c /\ Top(Main)' = "instance" /\ Under(Main)' = "frame hook"
    BY <1>0, <1>3, MainMoves
  <1>5. /\ In(c, {"frame hook"})' /\ In(c, Graphics)' /\ ~In(c, {"initialize"})'
        /\ ~In(c, {"gui create"})' /\ ~In(c, {"gui show"})' /\ ~In(c, {"temporary"})'
    BY <1>4 DEF In, Graphics
  <1>6. /\ m_editor_frame' = [m_editor_frame EXCEPT ![c] = FALSE]
        /\ gui' = [gui EXCEPT ![c] = gui[c] - 1]
        /\ m_created' = m_created /\ (HostViews(c)' <=> HostViews(c))
    BY SameReferences DEF removed, viewed
  <1>7. ~m_editor_frame'[c] /\ gui'[c] = 0
    <2>1. gui[c] = 1
      BY <1>2 DEF Shown
    <2> QED
      BY <1>0, <1>6, <2>1, Functions
  <1> QED
    BY <1>2, <1>4, <1>5, <1>6, <1>7 DEF GuiAt, Shown

LEMMA GuiOfFrameHook ==
  ASSUME CarefulHost, IInv, GuiInv, NEW c \in Comps, c = on[Main], FrameHookDone
  PROVE  GuiAt(c)'
  <1>0. TypeOK /\ StackInv /\ GuiAt(c)
    BY DEF IInv, GuiInv
  <1>1. /\ Top(Main) = "frame hook" /\ Under(Main) = "idle" /\ on'[Main] # c
    BY <1>0, Positions, EndsIn DEF Alone, Hooked
  <1>2. In(c, {"frame hook"}) /\ ~In(c, Graphics)' /\ ~In(c, {"initialize"})'
    BY <1>1 DEF In
  <1>3. /\ m_created' = [m_created EXCEPT ![c] = FALSE]
        /\ gui' = gui /\ m_editor_frame' = m_editor_frame /\ m_runloop' = m_runloop
    BY DEF FrameHookDone, loops
  <1>4. ~m_created'[c] /\ Threaded # Frame
    BY <1>0, <1>3, Functions DEF Threaded, Frame
  <1>5. Hidden(c)'
    BY <1>0, <1>1, <1>2, <1>3, <1>4 DEF GuiAt, Hidden
  <1> QED
    BY <1>2, <1>5, GuiHidden

LEMMA GuiOfTemporary ==
  ASSUME CarefulHost, IInv, GuiInv, NEW c \in Comps, c = on[Main], NEW w \in Fitting, TemporaryGui(w)
  PROVE  GuiAt(c)'
  <1>0. TypeOK /\ StackInv /\ GuiAt(c) /\ Under(Main) # "gui show"
    BY DEF IInv, GuiInv
  <1>1. Passes(Main, "get_size", "temporary") /\ ~m_created[c]
    BY <1>0, Positions DEF TemporaryGui
  <1>2. /\ Top(Main) = "get_size" /\ Under(Main) = "idle"
        /\ on'[Main] = c /\ Top(Main)' = "temporary" /\ Under(Main)' = "idle"
    BY <1>0, <1>1, PassesIn DEF Alone
  <1>3. /\ ~In(c, Graphics)
        /\ In(c, {"temporary"})' /\ In(c, Graphics)' /\ ~In(c, {"initialize"})'
        /\ ~In(c, {"gui create", "gui show"})'
        /\ ~In(c, {"gui create"})' /\ ~In(c, {"gui show"})' /\ ~In(c, {"frame hook"})'
    BY <1>2 DEF In, Graphics
  <1>4. Hidden(c)
    BY <1>0, <1>1, <1>3, GuiGone
  <1>5. /\ gui' = [gui EXCEPT ![c] = gui[c] + 1]
        /\ m_created' = m_created /\ m_editor_frame' = m_editor_frame /\ m_runloop' = m_runloop
    BY DEF TemporaryGui, loops
  <1>6. gui'[c] = 1
    <2>1. gui[c] = 0
      BY <1>4 DEF Hidden
    <2> QED
      BY <1>0, <1>5, <2>1, GuiCount
  <1> QED
    BY <1>3, <1>4, <1>5, <1>6 DEF GuiAt, Hidden

LEMMA GuiOfTemporarySize ==
  ASSUME CarefulHost, IInv, GuiInv, NEW c \in Comps, c = on[Main], TemporarySize
  PROVE  GuiAt(c)'
  <1>0. TypeOK /\ StackInv /\ GuiAt(c) /\ Under(Main) # "gui show"
    BY DEF IInv, GuiInv
  <1>1. Ends(Main, "temporary")
    BY <1>0, Positions
  <1>2. /\ Top(Main) = "temporary" /\ Under(Main) = "idle" /\ on'[Main] = None
    <2>1. /\ Top(Main) = "temporary"
          /\ on'[Main] = (IF Under(Main) = "idle" THEN None ELSE on[Main])
      BY <1>0, <1>1, MainMoves
    <2>2. Under(Main) = "idle"
      BY <1>0, <2>1, WhoIsWhere DEF Loopings
    <2> QED
      BY <2>1, <2>2
  <1>3. In(c, {"temporary"}) /\ ~In(c, Graphics)' /\ ~In(c, {"initialize"})'
    BY <1>2, LifetimesAssumption DEF In
  <1>4. /\ gui' = [gui EXCEPT ![c] = gui[c] - 1]
        /\ m_created' = m_created /\ m_editor_frame' = m_editor_frame /\ m_runloop' = m_runloop
    BY DEF TemporarySize, loops
  <1>5. gui'[c] = 0
    <2>1. gui[c] = 1
      BY <1>0, <1>3 DEF GuiAt
    <2> QED
      BY <1>0, <1>4, <2>1, GuiCount
  <1>6. Hidden(c)'
    BY <1>0, <1>3, <1>4, <1>5 DEF GuiAt, Hidden
  <1> QED
    BY <1>3, <1>6, GuiHidden


LEMMA NextGui ==
  ASSUME CarefulHost, IInv, GuiInv, Next
  PROVE  GuiInv'
  <1> SUFFICES ASSUME NEW d \in Comps PROVE GuiAt(d)'
    BY NextUnder, CarefulHosts DEF GuiInv, IInv
  <1>0. GuiAt(d) /\ TypeOK /\ StackInv /\ LifeInv /\ CarefulOwner
    BY CarefulHosts DEF GuiInv, IInv
  <1>1. ASSUME ModuleEntry PROVE GuiAt(d)'
    BY <1>0, <1>1, GuiElsewhere, ApartFrom DEF Kept, ModuleEntry, counts, loops, viewed, shown, Threads
  <1>2. ASSUME ModuleExit PROVE GuiAt(d)'
    BY <1>0, <1>2, GuiElsewhere, ApartFrom DEF Kept, ModuleExit, counts, loops, viewed, shown, Threads
  <1>3. ASSUME NEW x \in Contexts \cup {None}, set_host_context(x) PROVE GuiAt(d)'
    BY <1>0, <1>3, GuiElsewhere, ApartFrom DEF Kept, set_host_context, counts, loops, viewed, shown, Threads
  <1>4. ASSUME NEW c \in Comps, create_instance(c) PROVE GuiAt(d)'
    <2>1. CASE d = c
      BY <1>4, <2>1, QuietGui
    <2>2. CASE d # c
      BY <1>0, <1>4, <2>2, Subjects, GuiElsewhere DEF About
    <2> QED
      BY <2>1, <2>2
  <1>5. ASSUME NEW c \in Comps, terminate(c) PROVE GuiAt(d)'
    <2>1. CASE d = c
      BY <1>5, <2>1, QuietGui
    <2>2. CASE d # c
      BY <1>0, <1>5, <2>2, Subjects, GuiElsewhere DEF About
    <2> QED
      BY <2>1, <2>2
  <1>6. ASSUME NEW ok \in BOOLEAN, InitPlugin(ok) PROVE GuiAt(d)'
    <2>1. CASE d = on[Main]
      BY <1>6, <2>1, QuietGui
    <2>2. CASE d # on[Main]
      BY <1>0, <1>6, <2>2, Subjects, GuiElsewhere DEF About
    <2> QED
      BY <2>1, <2>2
  <1>7. ASSUME NEW c \in Comps, NEW f \in Faces, query_interface(c, f) PROVE GuiAt(d)'
    <2>1. CASE d = c
      BY <1>7, <2>1, QuietGui
    <2>2. CASE d # c
      BY <1>0, <1>7, <2>2, Subjects, GuiElsewhere DEF About
    <2> QED
      BY <2>1, <2>2
  <1>8. ASSUME NEW c \in Comps, NEW f \in Faces, NEW t \in Threads, unref(t, c, f) PROVE GuiAt(d)'
    <2>1. CASE d = c
      BY <1>8, <2>1, QuietGui
    <2>2. CASE d # c
      BY <1>0, <1>8, <2>2, Subjects, GuiElsewhere DEF About
    <2> QED
      BY <2>1, <2>2
  <1>9. ASSUME NEW t \in Threads, DestroyPlugin(t) PROVE GuiAt(d)'
    <2>1. CASE d = on[t]
      BY <1>9, <2>1, QuietGui
    <2>2. CASE d # on[t]
      BY <1>0, <1>9, <2>2, Subjects, GuiElsewhere DEF About
    <2> QED
      BY <2>1, <2>2
  <1>10. ASSUME NEW t \in Threads, DestroyMembers(t) PROVE GuiAt(d)'
    <2>1. CASE d = on[t]
      BY <1>10, <2>1, GuiOfDestroyMembers
    <2>2. CASE d # on[t]
      BY <1>0, <1>10, <2>2, Subjects, GuiElsewhere DEF About
    <2> QED
      BY <2>1, <2>2
  <1>11. ASSUME NEW c \in Comps, NEW x \in Contexts \cup {None}, initialize(c, x) PROVE GuiAt(d)'
    <2>1. CASE d = c
      BY <1>11, <2>1, QuietGui
    <2>2. CASE d # c
      BY <1>0, <1>11, <2>2, Subjects, GuiElsewhere DEF About
    <2> QED
      BY <2>1, <2>2
  <1>12. ASSUME initialize_done PROVE GuiAt(d)'
    <2>1. CASE d = on[Main]
      BY <1>12, <2>1, QuietGui
    <2>2. CASE d # on[Main]
      BY <1>0, <1>12, <2>2, Subjects, GuiElsewhere DEF About
    <2> QED
      BY <2>1, <2>2
  <1>13. ASSUME terminate_loop PROVE GuiAt(d)'
    <2>1. CASE d = on[Main]
      BY <1>13, <2>1, GuiOfTerminateLoop
    <2>2. CASE d # on[Main]
      BY <1>0, <1>13, <2>2, Subjects, GuiElsewhere DEF About
    <2> QED
      BY <2>1, <2>2
  <1>14. ASSUME terminate_done PROVE GuiAt(d)'
    <2>1. CASE d = on[Main]
      BY <1>14, <2>1, QuietGui
    <2>2. CASE d # on[Main]
      BY <1>0, <1>14, <2>2, Subjects, GuiElsewhere DEF About
    <2> QED
      BY <2>1, <2>2
  <1>15. ASSUME NEW c \in Comps, LoopCalls(c) PROVE GuiAt(d)'
    BY <1>0, <1>15, GuiElsewhere, ApartFrom DEF Kept, LoopCalls, counts, loops, viewed, shown, Threads
  <1>16. ASSUME LoopReturns PROVE GuiAt(d)'
    BY <1>0, <1>16, GuiElsewhere, ApartFrom DEF Kept, LoopReturns, counts, loops, viewed, shown, Threads
  <1>17. ASSUME TakeInstance PROVE GuiAt(d)'
    <2>1. CASE d = on[Main]
      BY <1>17, <2>1, QuietGui
    <2>2. CASE d # on[Main]
      BY <1>0, <1>17, <2>2, Subjects, GuiElsewhere DEF About
    <2> QED
      BY <2>1, <2>2
  <1>18. ASSUME SwitchToInstance PROVE GuiAt(d)'
    <2>1. CASE d = on[Main]
      BY <1>18, <2>1, GuiOfSwitch
    <2>2. CASE d # on[Main]
      BY <1>0, <1>18, <2>2, Subjects, GuiElsewhere DEF About
    <2> QED
      BY <2>1, <2>2
  <1>19. ASSUME DropInstance PROVE GuiAt(d)'
    <2>1. CASE d = on[Main]
      BY <1>19, <2>1, QuietGui
    <2>2. CASE d # on[Main]
      BY <1>0, <1>19, <2>2, Subjects, GuiElsewhere DEF About
    <2> QED
      BY <2>1, <2>2
  <1>20. ASSUME NEW c \in Comps, create_view(c) PROVE GuiAt(d)'
    <2>1. CASE d = c
      BY <1>20, <2>1, ViewsGui
    <2>2. CASE d # c
      BY <1>0, <1>20, <2>2, Subjects, GuiElsewhere DEF About
    <2> QED
      BY <2>1, <2>2
  <1>21. ASSUME NEW c \in Comps, attached(c) PROVE GuiAt(d)'
    <2>1. CASE d = c
      BY <1>21, <2>1, GuiOfAttached
    <2>2. CASE d # c
      BY <1>0, <1>21, <2>2, Subjects, GuiElsewhere DEF About
    <2> QED
      BY <2>1, <2>2
  <1>22. ASSUME NEW c \in Comps, removed(c) PROVE GuiAt(d)'
    <2>1. CASE d = c
      BY <1>22, <2>1, GuiOfRemoved
    <2>2. CASE d # c
      BY <1>0, <1>22, <2>2, Subjects, GuiElsewhere DEF About
    <2> QED
      BY <2>1, <2>2
  <1>23. ASSUME NEW c \in Comps, get_size(c) PROVE GuiAt(d)'
    <2>1. CASE d = c
      BY <1>23, <2>1, QuietGui
    <2>2. CASE d # c
      BY <1>0, <1>23, <2>2, Subjects, GuiElsewhere DEF About
    <2> QED
      BY <2>1, <2>2
  <1>24. ASSUME NEW c \in Comps, NEW v \in Views, view_query_interface(c, v) PROVE GuiAt(d)'
    <2>1. CASE d = c
      BY <1>24, <2>1, ViewsGui
    <2>2. CASE d # c
      BY <1>0, <1>24, <2>2, Subjects, GuiElsewhere DEF About
    <2> QED
      BY <2>1, <2>2
  <1>25. ASSUME NEW c \in Comps, NEW v \in Views, view_unref(c, v) PROVE GuiAt(d)'
    <2>1. CASE d = c
      BY <1>25, <2>1, ViewsGui
    <2>2. CASE d # c
      BY <1>0, <1>25, <2>2, Subjects, GuiElsewhere DEF About
    <2> QED
      BY <2>1, <2>2
  <1>26. ASSUME DeleteHookDone PROVE GuiAt(d)'
    <2>1. CASE d = on[Main]
      BY <1>26, <2>1, GuiOfDeleteHook
    <2>2. CASE d # on[Main]
      BY <1>0, <1>26, <2>2, Subjects, GuiElsewhere DEF About
    <2> QED
      BY <2>1, <2>2
  <1>27. ASSUME FrameHookDone PROVE GuiAt(d)'
    <2>1. CASE d = on[Main]
      BY <1>27, <2>1, GuiOfFrameHook
    <2>2. CASE d # on[Main]
      BY <1>0, <1>27, <2>2, Subjects, GuiElsewhere DEF About
    <2> QED
      BY <2>1, <2>2
  <1>28. ASSUME NEW w \in Fitting, GuiCreated(w) PROVE GuiAt(d)'
    <2>1. CASE d = on[Main]
      BY <1>28, <2>1, GuiOfCreated
    <2>2. CASE d # on[Main]
      BY <1>0, <1>28, <2>2, Subjects, GuiElsewhere DEF About
    <2> QED
      BY <2>1, <2>2
  <1>29. ASSUME NEW w \in Fitting, TemporaryGui(w) PROVE GuiAt(d)'
    <2>1. CASE d = on[Main]
      BY <1>29, <2>1, GuiOfTemporary
    <2>2. CASE d # on[Main]
      BY <1>0, <1>29, <2>2, Subjects, GuiElsewhere DEF About
    <2> QED
      BY <2>1, <2>2
  <1>30. ASSUME GuiRefused PROVE GuiAt(d)'
    <2>1. CASE d = on[Main]
      BY <1>30, <2>1, GuiOfRefused
    <2>2. CASE d # on[Main]
      BY <1>0, <1>30, <2>2, Subjects, GuiElsewhere DEF About
    <2> QED
      BY <2>1, <2>2
  <1>31. ASSUME attached_done PROVE GuiAt(d)'
    <2>1. CASE d = on[Main]
      BY <1>31, <2>1, GuiOfAttachedDone
    <2>2. CASE d # on[Main]
      BY <1>0, <1>31, <2>2, Subjects, GuiElsewhere DEF About
    <2> QED
      BY <2>1, <2>2
  <1>32. ASSUME SizeOfGui PROVE GuiAt(d)'
    <2>1. CASE d = on[Main]
      BY <1>32, <2>1, QuietGui
    <2>2. CASE d # on[Main]
      BY <1>0, <1>32, <2>2, Subjects, GuiElsewhere DEF About
    <2> QED
      BY <2>1, <2>2
  <1>33. ASSUME NoTemporaryGui PROVE GuiAt(d)'
    <2>1. CASE d = on[Main]
      BY <1>33, <2>1, QuietGui
    <2>2. CASE d # on[Main]
      BY <1>0, <1>33, <2>2, Subjects, GuiElsewhere DEF About
    <2> QED
      BY <2>1, <2>2
  <1>34. ASSUME TemporarySize PROVE GuiAt(d)'
    <2>1. CASE d = on[Main]
      BY <1>34, <2>1, GuiOfTemporarySize
    <2>2. CASE d # on[Main]
      BY <1>0, <1>34, <2>2, Subjects, GuiElsewhere DEF About
    <2> QED
      BY <2>1, <2>2
  <1>35. ASSUME NEW c \in Comps, NEW w \in Fitting, request_resize(c, w) PROVE GuiAt(d)'
    <2>1. CASE d = c
      BY <1>35, <2>1, QuietGui
    <2>2. CASE d # c
      BY <1>0, <1>35, <2>2, Subjects, GuiElsewhere DEF About
    <2> QED
      BY <2>1, <2>2
  <1>36. ASSUME NEW c \in Comps, NEW l \in Lefts, NEW w \in Widths, Drag(c, l, w) PROVE GuiAt(d)'
    <2>1. CASE d = c
      BY <1>36, <2>1, QuietGui
    <2>2. CASE d # c
      BY <1>0, <1>36, <2>2, Subjects, GuiElsewhere DEF About
    <2> QED
      BY <2>1, <2>2
  <1>37. ASSUME check_size_constraint PROVE GuiAt(d)'
    <2>1. CASE d = on[Main]
      BY <1>37, <2>1, QuietGui
    <2>2. CASE d # on[Main]
      BY <1>0, <1>37, <2>2, Subjects, GuiElsewhere DEF About
    <2> QED
      BY <2>1, <2>2
  <1>38. ASSUME on_size PROVE GuiAt(d)'
    <2>1. CASE d = on[Main]
      BY <1>38, <2>1, QuietGui
    <2>2. CASE d # on[Main]
      BY <1>0, <1>38, <2>2, Subjects, GuiElsewhere DEF About
    <2> QED
      BY <2>1, <2>2
  <1> QED
    BY <1>1, <1>2, <1>3, <1>4, <1>5, <1>6, <1>7, <1>8, <1>9, <1>10, <1>11, <1>12, <1>13, <1>14, <1>15, <1>16, <1>17, <1>18, <1>19, <1>20, <1>21, <1>22, <1>23, <1>24, <1>25, <1>26, <1>27, <1>28, <1>29, <1>30, <1>31, <1>32, <1>33, <1>34, <1>35, <1>36, <1>37, <1>38 DEF Next, ModuleSteps, ComponentSteps, LoopSteps, EditorSteps

-----------------------------------------------------------------------------
(***************************************************************************)
(* Sizes, for the same hosts.                                              *)
(***************************************************************************)
SizePlace(c) ==
  /\ In(c, Resizing) => In(c, Resizing)'
  /\ In(c, {"check_size_constraint"})' => In(c, {"check_size_constraint"})
  /\ on'[Main] = c /\ Top(Main)' = "on_size" => on[Main] = c /\ Top(Main) = "on_size"

LEMMA SizeStill ==
  ASSUME NEW c, SizeAt(c), m_created'[c] => m_created[c], width'[c] = width[c], rect'[c] = rect[c],
         SizePlace(c)
  PROVE  SizeAt(c)'
  <1>1. WidthOf(rect[c])' = WidthOf(rect[c])
    BY DEF WidthOf
  <1> QED
    BY <1>1 DEF SizeAt, SizePlace

LEMMA SizeElsewhere ==
  ASSUME NEW d \in Comps, SizeAt(d), Kept(d), Apart(d)
  PROVE  SizeAt(d)'
  <1>1. /\ on'[Main] = d <=> on[Main] = d
        /\ on[Main] = d => Top(Main)' = Top(Main) /\ Under(Main)' = Under(Main)
    BY DEF Apart, Threads
  <1>2. SizePlace(d)
    BY <1>1 DEF SizePlace, In
  <1> QED
    BY <1>2, SizeStill DEF Kept

LEMMA SizePlaceBy ==
  ASSUME TypeOK, StackInv, NEW c \in Comps
  PROVE  /\ \A a, b : Begins(Main, c, a, b)
                      /\ {a, b} \cap {"check_size_constraint", "on_size"} = {} => SizePlace(c)
         /\ \A a, b : Passes(Main, a, b) /\ {a, b} \cap Resizing = {} /\ c = on[Main] => SizePlace(c)
         /\ \A a : Ends(Main, a) /\ a \notin Resizing /\ c = on[Main] => SizePlace(c)
         /\ \A a, b, d : Turns(Main, a, b, d) /\ c = on[Main] /\ a \notin Resizing
                         /\ {b, d} \cap {"check_size_constraint", "on_size"} = {} => SizePlace(c)
         /\ UNCHANGED <<stack, on>> => SizePlace(c)
         /\ \A t \in Threads : \A a, b, d : t # Main /\ (Begins(t, d, a, b) \/ Passes(t, a, b) \/ Ends(t, a))
                => SizePlace(c)
  <1>0. c # None
    BY WhoIsWhere
  <1>1. ASSUME NEW a, NEW b, Begins(Main, c, a, b), a # "check_size_constraint", a # "on_size",
               b # "check_size_constraint", b # "on_size"
        PROVE  SizePlace(c)
    <2>1. on[Main] = None /\ on'[Main] = c /\ Top(Main)' = a /\ Under(Main)' = b
      BY <1>1, MainMoves
    <2> QED
      BY <1>0, <1>1, <2>1 DEF SizePlace, In
  <1>2. ASSUME NEW a, NEW b, Passes(Main, a, b), a \notin Resizing, b \notin Resizing, c = on[Main]
        PROVE  SizePlace(c)
    <2>1. Top(Main) = a /\ on'[Main] = on[Main] /\ Top(Main)' = b /\ Under(Main)' = Under(Main)
      BY <1>2, MainMoves
    <2> QED
      BY <1>2, <2>1 DEF SizePlace, In, Resizing
  <1>3. ASSUME NEW a, Ends(Main, a), a \notin Resizing, c = on[Main]
        PROVE  SizePlace(c)
    <2>1. Top(Main) = a /\ Top(Main)' = Under(Main) /\ Under(Main)' = "idle"
      BY <1>3, MainMoves
    <2>2. Under(Main) \notin Resizing
      BY <1>3, <2>1, WhoIsWhere DEF Resizing, Hooked
    <2> QED
      BY <1>3, <2>1, <2>2 DEF SizePlace, In, Resizing
  <1>4. ASSUME NEW a, NEW b, NEW d, Turns(Main, a, b, d), c = on[Main], a \notin Resizing,
               b # "check_size_constraint", b # "on_size", d # "check_size_constraint", d # "on_size"
        PROVE  SizePlace(c)
    <2>1. Top(Main) = a /\ Under(Main) = "idle" /\ Top(Main)' = b /\ Under(Main)' = d
      BY <1>4, MainMoves
    <2> QED
      BY <1>4, <2>1 DEF SizePlace, In, Resizing
  <1>5. ASSUME UNCHANGED <<stack, on>> PROVE SizePlace(c)
    BY <1>5, MainMoves DEF SizePlace, In
  <1>6. ASSUME NEW t \in Threads, NEW a, NEW b, NEW d, t # Main,
               Begins(t, d, a, b) \/ Passes(t, a, b) \/ Ends(t, a)
        PROVE  SizePlace(c)
    <2>1. on'[Main] = on[Main] /\ Top(Main)' = Top(Main) /\ Under(Main)' = Under(Main)
      BY <1>6 DEF Begins, Passes, Ends, Moves, Threads, TypeOK, ThreadTypes
    <2> QED
      BY <2>1 DEF SizePlace, In
  <1> QED
    BY <1>1, <1>2, <1>3, <1>4, <1>5, <1>6

\* The functions that leave sizes alone.
LEMMA QuietSize ==
  ASSUME CarefulHost, IInv, SizeInv, NEW c \in Comps
  PROVE  /\ create_instance(c) => SizeAt(c)'
         /\ terminate(c) => SizeAt(c)'
         /\ \A ok \in BOOLEAN : InitPlugin(ok) /\ c = on[Main] => SizeAt(c)'
         /\ \A f \in Faces : query_interface(c, f) => SizeAt(c)'
         /\ \A x \in Contexts \cup {None} : initialize(c, x) => SizeAt(c)'
         /\ initialize_done /\ c = on[Main] => SizeAt(c)'
         /\ terminate_loop /\ c = on[Main] => SizeAt(c)'
         /\ terminate_done /\ c = on[Main] => SizeAt(c)'
         /\ TakeInstance /\ c = on[Main] => SizeAt(c)'
         /\ SwitchToInstance /\ c = on[Main] => SizeAt(c)'
         /\ DropInstance /\ c = on[Main] => SizeAt(c)'
         /\ create_view(c) => SizeAt(c)'
         /\ \A v \in Views : view_query_interface(c, v) => SizeAt(c)'
         /\ attached(c) => SizeAt(c)'
         /\ removed(c) => SizeAt(c)'
         /\ GuiRefused /\ c = on[Main] => SizeAt(c)'
         /\ get_size(c) => SizeAt(c)'
         /\ \A f \in Faces, t \in Threads : unref(t, c, f) => SizeAt(c)'
         /\ \A t \in Threads : (DestroyPlugin(t) \/ DestroyMembers(t)) /\ c = on[t] => SizeAt(c)'
         /\ \A v \in Views : view_unref(c, v) => SizeAt(c)'
         /\ (DeleteHookDone \/ FrameHookDone) /\ c = on[Main] => SizeAt(c)'
  <1>0. TypeOK /\ StackInv /\ RefsInv /\ LifeInv /\ SizeAt(c) /\ CarefulOwner
    BY CarefulHosts DEF IInv, SizeInv
  <1> USE DEF Resizing
  <1>1. ASSUME create_instance(c) PROVE SizeAt(c)'
    <2>1. Begins(Main, c, "create_instance", "idle")
      BY <1>0, <1>1, Positions
    <2>2. SizePlace(c)
      BY <1>0, <1>1, <2>1, SizePlaceBy
    <2>3. UNCHANGED <<m_created, width, rect>>
      BY <1>1 DEF create_instance, shown
    <2> QED
      BY <1>0, <2>2, <2>3, SizeStill
  <1>2. ASSUME terminate(c) PROVE SizeAt(c)'
    <2>1. Begins(Main, c, "terminate", "idle")
      BY <1>0, <1>2, TerminateAlone
    <2>2. SizePlace(c)
      BY <1>0, <1>2, <2>1, SizePlaceBy
    <2>3. UNCHANGED <<m_created, width, rect>>
      BY <1>2 DEF terminate, shown
    <2> QED
      BY <1>0, <2>2, <2>3, SizeStill
  <1>3. ASSUME NEW ok \in BOOLEAN, InitPlugin(ok), c = on[Main] PROVE SizeAt(c)'
    <2>1. Ends(Main, "create_instance")
      BY <1>0, <1>3, Positions
    <2>2. SizePlace(c)
      BY <1>0, <1>3, <2>1, SizePlaceBy
    <2>3. UNCHANGED <<m_created, width, rect>>
      BY <1>3 DEF InitPlugin, shown
    <2> QED
      BY <1>0, <2>2, <2>3, SizeStill
  <1>4. ASSUME NEW f \in Faces, query_interface(c, f) PROVE SizeAt(c)'
    <2>1. UNCHANGED <<stack, on>>
      BY <1>0, <1>4 DEF query_interface
    <2>2. SizePlace(c)
      BY <1>0, <1>4, <2>1, SizePlaceBy
    <2>3. UNCHANGED <<m_created, width, rect>>
      BY <1>4 DEF query_interface, shown
    <2> QED
      BY <1>0, <2>2, <2>3, SizeStill
  <1>5. ASSUME NEW x \in Contexts \cup {None}, initialize(c, x) PROVE SizeAt(c)'
    <2>1. Begins(Main, c, "instance", "initialize")
      BY <1>0, <1>5, Positions
    <2>2. SizePlace(c)
      BY <1>0, <1>5, <2>1, SizePlaceBy
    <2>3. UNCHANGED <<m_created, width, rect>>
      BY <1>5 DEF initialize, shown
    <2> QED
      BY <1>0, <2>2, <2>3, SizeStill
  <1>6. ASSUME initialize_done, c = on[Main] PROVE SizeAt(c)'
    <2>1. Ends(Main, "initialize")
      BY <1>0, <1>6, Positions
    <2>2. SizePlace(c)
      BY <1>0, <1>6, <2>1, SizePlaceBy
    <2>3. UNCHANGED <<m_created, width, rect>>
      BY <1>6 DEF initialize_done, shown
    <2> QED
      BY <1>0, <2>2, <2>3, SizeStill
  <1>7. ASSUME terminate_loop, c = on[Main] PROVE SizeAt(c)'
    <2>1. Passes(Main, "terminate", "terminated")
      BY <1>0, <1>7, Positions
    <2>2. SizePlace(c)
      BY <1>0, <1>7, <2>1, SizePlaceBy
    <2>3. UNCHANGED <<m_created, width, rect>>
      BY <1>7 DEF terminate_loop, shown
    <2> QED
      BY <1>0, <2>2, <2>3, SizeStill
  <1>8. ASSUME terminate_done, c = on[Main] PROVE SizeAt(c)'
    <2>1. Ends(Main, "terminated")
      BY <1>0, <1>8, Positions
    <2>2. SizePlace(c)
      BY <1>0, <1>8, <2>1, SizePlaceBy
    <2>3. UNCHANGED <<m_created, width, rect>>
      BY <1>8 DEF terminate_done, shown
    <2> QED
      BY <1>0, <2>2, <2>3, SizeStill
  <1>9. ASSUME TakeInstance, c = on[Main] PROVE SizeAt(c)'
    <2>1. Passes(Main, "instance", "set_run_loop")
      BY <1>0, <1>9, Positions
    <2>2. SizePlace(c)
      BY <1>0, <1>9, <2>1, SizePlaceBy
    <2>3. UNCHANGED <<m_created, width, rect>>
      BY <1>9 DEF TakeInstance, shown
    <2> QED
      BY <1>0, <2>2, <2>3, SizeStill
  <1>10. ASSUME SwitchToInstance, c = on[Main] PROVE SizeAt(c)'
    <2>1. Passes(Main, "set_run_loop", "unref")
      BY <1>0, <1>10, Positions
    <2>2. SizePlace(c)
      BY <1>0, <1>10, <2>1, SizePlaceBy
    <2>3. UNCHANGED <<m_created, width, rect>>
      BY <1>10 DEF SwitchToInstance, shown
    <2> QED
      BY <1>0, <2>2, <2>3, SizeStill
  <1>11. ASSUME DropInstance, c = on[Main] PROVE SizeAt(c)'
    <2>1. Ends(Main, "unref")
      BY <1>0, <1>11, Positions
    <2>2. SizePlace(c)
      BY <1>0, <1>11, <2>1, SizePlaceBy
    <2>3. UNCHANGED <<m_created, width, rect>>
      BY <1>11 DEF DropInstance, shown
    <2> QED
      BY <1>0, <2>2, <2>3, SizeStill
  <1>12. ASSUME create_view(c) PROVE SizeAt(c)'
    <2>1. UNCHANGED <<stack, on>>
      BY <1>0, <1>12 DEF create_view
    <2>2. SizePlace(c)
      BY <1>0, <1>12, <2>1, SizePlaceBy
    <2>3. UNCHANGED <<m_created, width, rect>>
      BY <1>12 DEF create_view, shown
    <2> QED
      BY <1>0, <2>2, <2>3, SizeStill
  <1>13. ASSUME NEW v \in Views, view_query_interface(c, v) PROVE SizeAt(c)'
    <2>1. UNCHANGED <<stack, on>>
      BY <1>0, <1>13 DEF view_query_interface
    <2>2. SizePlace(c)
      BY <1>0, <1>13, <2>1, SizePlaceBy
    <2>3. UNCHANGED <<m_created, width, rect>>
      BY <1>13 DEF view_query_interface, shown
    <2> QED
      BY <1>0, <2>2, <2>3, SizeStill
  <1>14. ASSUME attached(c) PROVE SizeAt(c)'
    <2>1. Begins(Main, c, "gui create", "idle")
      BY <1>0, <1>14, Positions
    <2>2. SizePlace(c)
      BY <1>0, <1>14, <2>1, SizePlaceBy
    <2>3. UNCHANGED <<m_created, width, rect>>
      BY <1>14 DEF attached, shown
    <2> QED
      BY <1>0, <2>2, <2>3, SizeStill
  <1>15. ASSUME removed(c) PROVE SizeAt(c)'
    <2>1. Begins(Main, c, "instance", "frame hook")
      BY <1>0, <1>15, Positions
    <2>2. SizePlace(c)
      BY <1>0, <1>15, <2>1, SizePlaceBy
    <2>3. UNCHANGED <<m_created, width, rect>>
      BY <1>15 DEF removed, shown
    <2> QED
      BY <1>0, <2>2, <2>3, SizeStill
  <1>16. ASSUME GuiRefused, c = on[Main] PROVE SizeAt(c)'
    <2>1. Turns(Main, "gui create", "instance", "frame hook")
      BY <1>0, <1>16, Positions
    <2>2. SizePlace(c)
      BY <1>0, <1>16, <2>1, SizePlaceBy
    <2>3. UNCHANGED <<m_created, width, rect>>
      BY <1>16 DEF GuiRefused, shown
    <2> QED
      BY <1>0, <2>2, <2>3, SizeStill
  <1>17. ASSUME get_size(c) PROVE SizeAt(c)'
    <2>1. Begins(Main, c, "get_size", "idle")
      BY <1>0, <1>17, GetSizeBegins
    <2>2. SizePlace(c)
      BY <1>0, <1>17, <2>1, SizePlaceBy
    <2>3. UNCHANGED <<m_created, width, rect>>
      BY <1>17 DEF get_size, shown
    <2> QED
      BY <1>0, <2>2, <2>3, SizeStill
  <1>18. ASSUME NEW f \in Faces, NEW t \in Threads, unref(t, c, f) PROVE SizeAt(c)'
    <2>1. Begins(t, c, "delete", "idle") \/ UNCHANGED <<stack, on>>
      BY <1>0, <1>18, PositionsOfRefs
    <2>2. SizePlace(c)
      BY <1>0, <2>1, SizePlaceBy
    <2>3. UNCHANGED <<m_created, width, rect>>
      BY <1>18 DEF unref, shown
    <2> QED
      BY <1>0, <2>2, <2>3, SizeStill
  <1>19. ASSUME NEW t \in Threads, DestroyPlugin(t) \/ DestroyMembers(t), c = on[t] PROVE SizeAt(c)'
    <2>1. Passes(t, "delete", "members") \/ Ends(t, "members")
      BY <1>0, <1>19, Positions
    <2>2. SizePlace(c)
      BY <1>0, <1>19, <2>1, SizePlaceBy
    <2>3. UNCHANGED <<m_created, width, rect>>
      BY <1>19 DEF DestroyPlugin, DestroyMembers, shown
    <2> QED
      BY <1>0, <2>2, <2>3, SizeStill
  <1>20. ASSUME NEW v \in Views, view_unref(c, v) PROVE SizeAt(c)'
    <2>1. Begins(Main, c, "instance", "delete hook") \/ UNCHANGED <<stack, on>>
      BY <1>0, <1>20, PositionsOfRefs
    <2>2. SizePlace(c)
      BY <1>0, <2>1, SizePlaceBy
    <2>3. UNCHANGED <<m_created, width, rect>>
      BY <1>20 DEF view_unref, shown
    <2> QED
      BY <1>0, <2>2, <2>3, SizeStill
  <1>21. ASSUME DeleteHookDone \/ FrameHookDone, c = on[Main] PROVE SizeAt(c)'
    <2>1. Ends(Main, "delete hook") \/ Ends(Main, "frame hook")
      BY <1>0, <1>21, Positions
    <2>2. SizePlace(c)
      BY <1>0, <1>21, <2>1, SizePlaceBy
    <2>3. UNCHANGED <<width, rect>> /\ m_created' = [m_created EXCEPT ![c] = FALSE]
      BY <1>21 DEF DeleteHookDone, FrameHookDone
    <2>4. ~m_created'[c]
      BY <1>0, <2>3, Functions
    <2> QED
      BY <1>0, <2>2, <2>3, <2>4, SizeStill
  <1> QED
    BY <1>1, <1>2, <1>3, <1>4, <1>5, <1>6, <1>7, <1>8, <1>9, <1>10, <1>11, <1>12, <1>13, <1>14, <1>15, <1>16, <1>17, <1>18, <1>19, <1>20, <1>21

-----------------------------------------------------------------------------
\* Without an editor there is nothing to agree on.
LEMMA SizeOfNothing ==
  ASSUME NEW c, ~m_created'[c], width'[c] >= 0,
         ~In(c, {"check_size_constraint"})', ~(on'[Main] = c /\ Top(Main)' = "on_size")
  PROVE  SizeAt(c)'
  BY DEF SizeAt

LEMMA FittingNat == Fitting \subseteq Nat /\ Widths \subseteq Nat /\ Lefts \subseteq Nat
  BY LifetimesAssumption DEF Widths

LEMMA FittingWidths == \A w \in Fitting : w \in Nat /\ w >= 0
  BY FittingNat

LEMMA Tables ==
  ASSUME TypeOK, NEW c \in Comps
  PROVE  /\ rect[c].left \in Int /\ rect[c].right \in Int /\ width[c] \in Int
         /\ rect[c] = [left |-> rect[c].left, right |-> rect[c].right]
         /\ \A w : width' = [width EXCEPT ![c] = w] => width'[c] = w
         /\ \A r : rect' = [rect EXCEPT ![c] = r] => rect'[c] = r
  BY DEF TypeOK, GraphicsTypes

\* Widths of the rectangles that functions set.
LEMMA WidthFrom ==
  ASSUME NEW l \in Int, NEW w \in Nat
  PROVE  WidthOf([left |-> l, right |-> l + w]) = w
  BY DEF WidthOf

LEMMA SizeOfCreated ==
  ASSUME CarefulHost, IInv, GuiInv, SizeInv, NEW c \in Comps, c = on[Main],
         NEW w \in Fitting, GuiCreated(w)
  PROVE  SizeAt(c)'
  <1>0. TypeOK /\ StackInv /\ GuiAt(c) /\ Under(Main) # "gui show"
    BY DEF IInv, GuiInv
  <1>1. Passes(Main, "gui create", "gui show")
    BY <1>0, Positions
  <1>2. /\ Top(Main) = "gui create" /\ Under(Main) = "idle"
        /\ on'[Main] = c /\ Top(Main)' = "gui show" /\ Under(Main)' = "idle"
    BY <1>0, <1>1, PassesIn DEF Alone
  <1>3. In(c, {"gui create"}) /\ ~In(c, {"check_size_constraint"})'
    BY <1>2 DEF In
  <1>4. width' = [width EXCEPT ![c] = w] /\ m_created' = m_created
    BY DEF GuiCreated
  <1>5. width'[c] = w /\ w >= 0
    BY <1>0, <1>4, Tables, FittingWidths
  <1>6. ~m_created'[c]
    BY <1>0, <1>3, <1>4 DEF GuiAt, Hidden, Shown
  <1> QED
    BY <1>2, <1>3, <1>5, <1>6, SizeOfNothing

LEMMA SizeOfAttached ==
  ASSUME CarefulHost, IInv, GuiInv, SizeInv, NEW c \in Comps, c = on[Main], attached_done
  PROVE  SizeAt(c)'
  <1>0. TypeOK /\ StackInv /\ SizeAt(c) /\ Under(Main) # "gui show"
    BY DEF IInv, GuiInv, SizeInv
  <1>1. Passes(Main, "gui show", "get_size")
    BY <1>0, Positions
  <1>2. /\ Top(Main) = "gui show" /\ Under(Main) = "idle"
        /\ on'[Main] = c /\ Top(Main)' = "get_size" /\ Under(Main)' = "idle"
    BY <1>0, <1>1, PassesIn DEF Alone
  <1>3. In(c, Resizing)' /\ ~In(c, {"check_size_constraint"})'
    BY <1>2 DEF In, Resizing
  <1>4. UNCHANGED <<width, rect>>
    BY DEF attached_done
  <1> QED
    BY <1>0, <1>2, <1>3, <1>4 DEF SizeAt

\* get_size of an editor that is attached, and of one that is not.
LEMMA SizeOfEnd ==
  ASSUME TypeOK, StackInv, NEW c \in Comps, c = on[Main], Under(Main) # "gui show",
         NEW a \in {"get_size", "temporary", "on_size"}, Ends(Main, a)
  PROVE  Top(Main) = a /\ on'[Main] # c /\ \A S : ~In(c, S)'
  <1>1. Top(Main) = a /\ on'[Main] = (IF Under(Main) = "idle" THEN None ELSE on[Main])
    BY MainMoves
  <1>2. Under(Main) = "idle" /\ c # None
    BY <1>1, WhoIsWhere DEF Loopings
  <1> QED
    BY <1>1, <1>2 DEF In

LEMMA SizeOfShown ==
  ASSUME CarefulHost, IInv, GuiInv, SizeInv, NEW c \in Comps, c = on[Main], SizeOfGui
  PROVE  SizeAt(c)'
  <1>0. TypeOK /\ StackInv /\ SizeAt(c) /\ Under(Main) # "gui show"
    BY DEF IInv, GuiInv, SizeInv
  <1>1. Ends(Main, "get_size")
    BY <1>0, Positions
  <1>2. on'[Main] # c /\ \A S : ~In(c, S)'
    BY <1>0, <1>1, SizeOfEnd
  <1>3. rect' = [rect EXCEPT ![c] = [left |-> 0, right |-> width[c]]] /\ width' = width
    BY DEF SizeOfGui
  <1>4. rect'[c] = [left |-> 0, right |-> width[c]]
    BY <1>0, <1>3, Tables
  <1>5. width[c] \in Nat /\ width[c] >= 0
    <2>1. width[c] \in Int
      BY <1>0, Tables
    <2>2. width[c] >= 0
      BY <1>0 DEF SizeAt
    <2> QED
      BY <2>1, <2>2
  <1>6. WidthOf(rect'[c]) = width'[c]
    BY <1>3, <1>4, <1>5 DEF WidthOf
  <1> QED
    BY <1>2, <1>3, <1>5, <1>6 DEF SizeAt, WidthOf

LEMMA SizeOfTemporary ==
  ASSUME CarefulHost, IInv, GuiInv, SizeInv, NEW c \in Comps, c = on[Main]
  PROVE  /\ \A w \in Fitting : TemporaryGui(w) => SizeAt(c)'
         /\ NoTemporaryGui => SizeAt(c)'
         /\ TemporarySize => SizeAt(c)'
  <1>0. TypeOK /\ StackInv /\ SizeAt(c) /\ GuiAt(c) /\ Under(Main) # "gui show"
    BY DEF IInv, GuiInv, SizeInv
  <1>1. ASSUME NEW w \in Fitting, TemporaryGui(w) PROVE SizeAt(c)'
    <2>1. Passes(Main, "get_size", "temporary") /\ ~m_created[c]
      BY <1>0, <1>1, Positions DEF TemporaryGui
    <2>2. Top(Main)' = "temporary" /\ Under(Main)' = "idle"
      BY <1>0, <2>1, PassesIn DEF Alone
    <2>3. ~In(c, {"check_size_constraint"})'
      BY <2>2 DEF In
    <2>4. width' = [width EXCEPT ![c] = w] /\ m_created' = m_created
      BY <1>1 DEF TemporaryGui
    <2>5. width'[c] = w /\ w >= 0
      BY <1>0, <2>4, Tables, FittingWidths
    <2> QED
      BY <2>1, <2>2, <2>3, <2>4, <2>5, SizeOfNothing
  <1>2. ASSUME NoTemporaryGui PROVE SizeAt(c)'
    <2>1. Ends(Main, "get_size") /\ ~m_created[c] /\ UNCHANGED <<m_created, width>>
      BY <1>0, <1>2, Positions DEF NoTemporaryGui
    <2>2. on'[Main] # c /\ ~In(c, {"check_size_constraint"})'
      BY <1>0, <2>1, SizeOfEnd
    <2>3. width[c] >= 0
      BY <1>0 DEF SizeAt
    <2> QED
      BY <2>1, <2>2, <2>3, SizeOfNothing
  <1>3. ASSUME TemporarySize PROVE SizeAt(c)'
    <2>1. Ends(Main, "temporary") /\ UNCHANGED <<m_created, width>>
      BY <1>0, <1>3, Positions DEF TemporarySize
    <2>2. Top(Main) = "temporary" /\ on'[Main] # c /\ ~In(c, {"check_size_constraint"})'
      BY <1>0, <2>1, SizeOfEnd
    <2>3. ~m_created[c] /\ width[c] >= 0
      BY <1>0, <2>2 DEF SizeAt, GuiAt, In
    <2> QED
      BY <2>1, <2>2, <2>3, SizeOfNothing
  <1> QED
    BY <1>1, <1>2, <1>3

\* Resizing, by the user and by the plugin.
LEMMA SizeOfDrag ==
  ASSUME CarefulHost, IInv, SizeInv, NEW c \in Comps, NEW l \in Lefts, NEW w \in Widths, Drag(c, l, w)
  PROVE  SizeAt(c)'
  <1>0. TypeOK /\ StackInv /\ SizeAt(c) /\ l \in Nat /\ w \in Nat
    BY FittingNat DEF IInv, SizeInv
  <1>1. Begins(Main, c, "check_size_constraint", "on_size")
    BY <1>0, Positions
  <1>2. on'[Main] = c /\ Top(Main)' = "check_size_constraint" /\ Under(Main)' = "on_size"
    BY <1>0, <1>1, MainMoves
  <1>3. In(c, Resizing)' /\ Top(Main)' # "on_size"
    BY <1>2 DEF In, Resizing
  <1>4. rect' = [rect EXCEPT ![c] = [left |-> l, right |-> l + w]] /\ width' = width
    BY DEF Drag
  <1>5. rect'[c] = [left |-> l, right |-> l + w]
    BY <1>0, <1>4, Tables
  <1>6. rect'[c].left <= rect'[c].right
    BY <1>0, <1>5
  <1> QED
    BY <1>0, <1>3, <1>4, <1>6 DEF SizeAt

LEMMA SizeOfRequest ==
  ASSUME CarefulHost, IInv, SizeInv, NEW c \in Comps, NEW w \in Fitting, request_resize(c, w)
  PROVE  SizeAt(c)'
  <1>0. TypeOK /\ StackInv /\ SizeAt(c) /\ w \in Nat
    BY FittingNat DEF IInv, SizeInv
  <1>1. Begins(Main, c, "on_size", "idle")
    BY <1>0, Positions
  <1>2. on'[Main] = c /\ Top(Main)' = "on_size" /\ Under(Main)' = "idle"
    BY <1>0, <1>1, MainMoves
  <1>3. In(c, Resizing)' /\ ~In(c, {"check_size_constraint"})'
    BY <1>2 DEF In, Resizing
  <1>4. rect' = [rect EXCEPT ![c] = [left |-> 0, right |-> w]] /\ width' = width
    BY DEF request_resize
  <1>5. rect'[c] = [left |-> 0, right |-> w]
    BY <1>0, <1>4, Tables
  <1>6. WidthOf(rect[c])' \in Fitting
    <2>1. WidthOf(rect'[c]) = w
      BY <1>0, <1>5 DEF WidthOf
    <2> QED
      BY <2>1 DEF WidthOf
  <1> QED
    BY <1>0, <1>3, <1>4, <1>6 DEF SizeAt

LEMMA SizeOfCheck ==
  ASSUME CarefulHost, IInv, SizeInv, NEW c \in Comps, c = on[Main], check_size_constraint
  PROVE  SizeAt(c)'
  <1> DEFINE r == rect[c]
             a == Adjusted(WidthOf(r))
  <1>0. TypeOK /\ StackInv /\ SizeAt(c) /\ r.left \in Int /\ r.right \in Int
    BY Tables DEF IInv, SizeInv
  <1>1. Ends(Main, "check_size_constraint")
    BY <1>0, Positions
  <1>2. /\ Top(Main) = "check_size_constraint" /\ Under(Main) = "on_size"
        /\ on'[Main] = c /\ Top(Main)' = "on_size" /\ Under(Main)' = "idle"
    <2>1. /\ Top(Main) = "check_size_constraint" /\ Top(Main)' = Under(Main) /\ Under(Main)' = "idle"
          /\ on'[Main] = (IF Under(Main) = "idle" THEN None ELSE on[Main])
      BY <1>0, <1>1, MainMoves
    <2>2. Under(Main) = "on_size"
      BY <1>0, <2>1, WhoIsWhere DEF Alone, Hooked, Loopings
    <2> QED
      BY <2>1, <2>2
  <1>3. In(c, {"check_size_constraint"}) /\ In(c, Resizing)' /\ ~In(c, {"check_size_constraint"})'
    BY <1>2 DEF In, Resizing
  <1>4. r.left <= r.right
    BY <1>0, <1>3 DEF SizeAt
  <1>5. WidthOf(r) = r.right - r.left /\ WidthOf(r) \in Nat
    BY <1>0, <1>4 DEF WidthOf
  <1>6. rect'[c] = [left |-> r.left, right |-> r.left + a] /\ width' = width
    <2>1. /\ rect' = [rect EXCEPT ![c].right = @ - WidthOf(rect[c]) + Adjusted(WidthOf(rect[c]))]
          /\ width' = width
      BY DEF check_size_constraint
    <2>2. rect' = [rect EXCEPT ![c] = [rect[c] EXCEPT !.right = r.right - WidthOf(r) + a]]
      BY <2>1
    <2>3. rect'[c] = [r EXCEPT !.right = r.right - WidthOf(r) + a]
      BY <1>0, <2>2, Tables
    <2>4. r = [left |-> r.left, right |-> r.right]
      BY <1>0, Tables
    <2>5. a \in Int
      BY <1>5, AdjustedInt
    <2>6. r.right - WidthOf(r) + a = r.left + a
      <3> HIDE DEF r, a
      <3> QED
        BY <1>0, <1>5, <2>5
    <2> HIDE DEF r, a
    <2> QED
      BY <2>1, <2>3, <2>4, <2>6
  <1>7. a \in Nat /\ (a \in Fitting \/ \A f \in Fitting : f > a)
    <2>1. a \in Fitting \/ (a = WidthOf(r) /\ \A f \in Fitting : f > a)
      <3> HIDE DEF r
      <3> QED
        BY <1>5, AdjustedFits
    <2> HIDE DEF r, a
    <2> QED
      BY <1>5, <2>1, FittingNat
  <1> HIDE DEF r, a
  <1>8. WidthOf(rect'[c]) = a
    BY <1>0, <1>6, <1>7, WidthFrom
  <1>9. WidthOf(rect[c])' \in Fitting \/ \A f \in Fitting : f > WidthOf(rect[c])'
    BY <1>7, <1>8 DEF WidthOf
  <1> QED
    BY <1>0, <1>3, <1>6, <1>9 DEF SizeAt

LEMMA SizeOfSet ==
  ASSUME CarefulHost, IInv, GuiInv, SizeInv, NEW c \in Comps, c = on[Main], on_size
  PROVE  SizeAt(c)'
  <1>0. TypeOK /\ StackInv /\ SizeAt(c) /\ Under(Main) # "gui show"
    BY DEF IInv, GuiInv, SizeInv
  <1>1. UNCHANGED <<rect, m_created>> /\ At(Main, "on_size")
    BY DEF on_size
  <1>2. CASE WidthOf(rect[c]) \in Fitting
    <2>1. Returns(Main) /\ width' = [width EXCEPT ![c] = WidthOf(rect[c])]
      BY <1>2 DEF on_size
    <2>2. Ends(Main, "on_size")
      BY <1>0, <1>1, <2>1, EndsOne DEF Threads
    <2>3. on'[Main] # c /\ ~In(c, {"check_size_constraint"})' /\ ~In(c, Resizing)'
      BY <1>0, <2>2, SizeOfEnd
    <2>4. width'[c] = WidthOf(rect[c])
      BY <1>0, <2>1, Tables
    <2>6. WidthOf(rect[c]) >= 0
      BY <1>2, FittingWidths
    <2>5. WidthOf(rect[c])' = WidthOf(rect[c])
      BY <1>1 DEF WidthOf
    <2> QED
      BY <2>3, <2>4, <2>5, <2>6 DEF SizeAt
  <1>3. CASE WidthOf(rect[c]) \notin Fitting
    <2>1. GoesOn(Main, <<"get_size">>) /\ width' = width
      BY <1>3 DEF on_size
    <2>2. Passes(Main, "on_size", "get_size")
      BY <1>0, <1>1, <2>1, PassesOne DEF Threads, Places, Alone
    <2>3. /\ on'[Main] = c /\ Top(Main)' = "get_size" /\ Under(Main)' = "idle"
      BY <1>0, <2>2, PassesIn DEF Alone
    <2>4. In(c, Resizing)' /\ ~In(c, {"check_size_constraint"})'
      BY <2>3 DEF In, Resizing
    <2> QED
      BY <1>0, <2>1, <2>3, <2>4 DEF SizeAt
  <1> QED
    BY <1>2, <1>3

LEMMA NextSize ==
  ASSUME CarefulHost, IInv, GuiInv, SizeInv, Next
  PROVE  SizeInv'
  <1> SUFFICES ASSUME NEW d \in Comps PROVE SizeAt(d)'
    BY DEF SizeInv
  <1>0. SizeAt(d) /\ TypeOK /\ StackInv /\ LifeInv /\ CarefulOwner
    BY CarefulHosts DEF SizeInv, IInv
  <1>1. ASSUME ModuleEntry PROVE SizeAt(d)'
    BY <1>0, <1>1, SizeElsewhere, ApartFrom DEF Kept, ModuleEntry, counts, loops, viewed, shown, Threads
  <1>2. ASSUME ModuleExit PROVE SizeAt(d)'
    BY <1>0, <1>2, SizeElsewhere, ApartFrom DEF Kept, ModuleExit, counts, loops, viewed, shown, Threads
  <1>3. ASSUME NEW x \in Contexts \cup {None}, set_host_context(x) PROVE SizeAt(d)'
    BY <1>0, <1>3, SizeElsewhere, ApartFrom DEF Kept, set_host_context, counts, loops, viewed, shown, Threads
  <1>4. ASSUME NEW c \in Comps, create_instance(c) PROVE SizeAt(d)'
    <2>1. CASE d = c
      BY <1>4, <2>1, QuietSize
    <2>2. CASE d # c
      BY <1>0, <1>4, <2>2, Subjects, SizeElsewhere DEF About
    <2> QED
      BY <2>1, <2>2
  <1>5. ASSUME NEW c \in Comps, terminate(c) PROVE SizeAt(d)'
    <2>1. CASE d = c
      BY <1>5, <2>1, QuietSize
    <2>2. CASE d # c
      BY <1>0, <1>5, <2>2, Subjects, SizeElsewhere DEF About
    <2> QED
      BY <2>1, <2>2
  <1>6. ASSUME NEW ok \in BOOLEAN, InitPlugin(ok) PROVE SizeAt(d)'
    <2>1. CASE d = on[Main]
      BY <1>6, <2>1, QuietSize
    <2>2. CASE d # on[Main]
      BY <1>0, <1>6, <2>2, Subjects, SizeElsewhere DEF About
    <2> QED
      BY <2>1, <2>2
  <1>7. ASSUME NEW c \in Comps, NEW f \in Faces, query_interface(c, f) PROVE SizeAt(d)'
    <2>1. CASE d = c
      BY <1>7, <2>1, QuietSize
    <2>2. CASE d # c
      BY <1>0, <1>7, <2>2, Subjects, SizeElsewhere DEF About
    <2> QED
      BY <2>1, <2>2
  <1>8. ASSUME NEW c \in Comps, NEW f \in Faces, NEW t \in Threads, unref(t, c, f) PROVE SizeAt(d)'
    <2>1. CASE d = c
      BY <1>8, <2>1, QuietSize
    <2>2. CASE d # c
      BY <1>0, <1>8, <2>2, Subjects, SizeElsewhere DEF About
    <2> QED
      BY <2>1, <2>2
  <1>9. ASSUME NEW t \in Threads, DestroyPlugin(t) PROVE SizeAt(d)'
    <2>1. CASE d = on[t]
      BY <1>9, <2>1, QuietSize
    <2>2. CASE d # on[t]
      BY <1>0, <1>9, <2>2, Subjects, SizeElsewhere DEF About
    <2> QED
      BY <2>1, <2>2
  <1>10. ASSUME NEW t \in Threads, DestroyMembers(t) PROVE SizeAt(d)'
    <2>1. CASE d = on[t]
      BY <1>10, <2>1, QuietSize
    <2>2. CASE d # on[t]
      BY <1>0, <1>10, <2>2, Subjects, SizeElsewhere DEF About
    <2> QED
      BY <2>1, <2>2
  <1>11. ASSUME NEW c \in Comps, NEW x \in Contexts \cup {None}, initialize(c, x) PROVE SizeAt(d)'
    <2>1. CASE d = c
      BY <1>11, <2>1, QuietSize
    <2>2. CASE d # c
      BY <1>0, <1>11, <2>2, Subjects, SizeElsewhere DEF About
    <2> QED
      BY <2>1, <2>2
  <1>12. ASSUME initialize_done PROVE SizeAt(d)'
    <2>1. CASE d = on[Main]
      BY <1>12, <2>1, QuietSize
    <2>2. CASE d # on[Main]
      BY <1>0, <1>12, <2>2, Subjects, SizeElsewhere DEF About
    <2> QED
      BY <2>1, <2>2
  <1>13. ASSUME terminate_loop PROVE SizeAt(d)'
    <2>1. CASE d = on[Main]
      BY <1>13, <2>1, QuietSize
    <2>2. CASE d # on[Main]
      BY <1>0, <1>13, <2>2, Subjects, SizeElsewhere DEF About
    <2> QED
      BY <2>1, <2>2
  <1>14. ASSUME terminate_done PROVE SizeAt(d)'
    <2>1. CASE d = on[Main]
      BY <1>14, <2>1, QuietSize
    <2>2. CASE d # on[Main]
      BY <1>0, <1>14, <2>2, Subjects, SizeElsewhere DEF About
    <2> QED
      BY <2>1, <2>2
  <1>15. ASSUME NEW c \in Comps, LoopCalls(c) PROVE SizeAt(d)'
    BY <1>0, <1>15, SizeElsewhere, ApartFrom DEF Kept, LoopCalls, counts, loops, viewed, shown, Threads
  <1>16. ASSUME LoopReturns PROVE SizeAt(d)'
    BY <1>0, <1>16, SizeElsewhere, ApartFrom DEF Kept, LoopReturns, counts, loops, viewed, shown, Threads
  <1>17. ASSUME TakeInstance PROVE SizeAt(d)'
    <2>1. CASE d = on[Main]
      BY <1>17, <2>1, QuietSize
    <2>2. CASE d # on[Main]
      BY <1>0, <1>17, <2>2, Subjects, SizeElsewhere DEF About
    <2> QED
      BY <2>1, <2>2
  <1>18. ASSUME SwitchToInstance PROVE SizeAt(d)'
    <2>1. CASE d = on[Main]
      BY <1>18, <2>1, QuietSize
    <2>2. CASE d # on[Main]
      BY <1>0, <1>18, <2>2, Subjects, SizeElsewhere DEF About
    <2> QED
      BY <2>1, <2>2
  <1>19. ASSUME DropInstance PROVE SizeAt(d)'
    <2>1. CASE d = on[Main]
      BY <1>19, <2>1, QuietSize
    <2>2. CASE d # on[Main]
      BY <1>0, <1>19, <2>2, Subjects, SizeElsewhere DEF About
    <2> QED
      BY <2>1, <2>2
  <1>20. ASSUME NEW c \in Comps, create_view(c) PROVE SizeAt(d)'
    <2>1. CASE d = c
      BY <1>20, <2>1, QuietSize
    <2>2. CASE d # c
      BY <1>0, <1>20, <2>2, Subjects, SizeElsewhere DEF About
    <2> QED
      BY <2>1, <2>2
  <1>21. ASSUME NEW c \in Comps, attached(c) PROVE SizeAt(d)'
    <2>1. CASE d = c
      BY <1>21, <2>1, QuietSize
    <2>2. CASE d # c
      BY <1>0, <1>21, <2>2, Subjects, SizeElsewhere DEF About
    <2> QED
      BY <2>1, <2>2
  <1>22. ASSUME NEW c \in Comps, removed(c) PROVE SizeAt(d)'
    <2>1. CASE d = c
      BY <1>22, <2>1, QuietSize
    <2>2. CASE d # c
      BY <1>0, <1>22, <2>2, Subjects, SizeElsewhere DEF About
    <2> QED
      BY <2>1, <2>2
  <1>23. ASSUME NEW c \in Comps, get_size(c) PROVE SizeAt(d)'
    <2>1. CASE d = c
      BY <1>23, <2>1, QuietSize
    <2>2. CASE d # c
      BY <1>0, <1>23, <2>2, Subjects, SizeElsewhere DEF About
    <2> QED
      BY <2>1, <2>2
  <1>24. ASSUME NEW c \in Comps, NEW v \in Views, view_query_interface(c, v) PROVE SizeAt(d)'
    <2>1. CASE d = c
      BY <1>24, <2>1, QuietSize
    <2>2. CASE d # c
      BY <1>0, <1>24, <2>2, Subjects, SizeElsewhere DEF About
    <2> QED
      BY <2>1, <2>2
  <1>25. ASSUME NEW c \in Comps, NEW v \in Views, view_unref(c, v) PROVE SizeAt(d)'
    <2>1. CASE d = c
      BY <1>25, <2>1, QuietSize
    <2>2. CASE d # c
      BY <1>0, <1>25, <2>2, Subjects, SizeElsewhere DEF About
    <2> QED
      BY <2>1, <2>2
  <1>26. ASSUME DeleteHookDone PROVE SizeAt(d)'
    <2>1. CASE d = on[Main]
      BY <1>26, <2>1, QuietSize
    <2>2. CASE d # on[Main]
      BY <1>0, <1>26, <2>2, Subjects, SizeElsewhere DEF About
    <2> QED
      BY <2>1, <2>2
  <1>27. ASSUME FrameHookDone PROVE SizeAt(d)'
    <2>1. CASE d = on[Main]
      BY <1>27, <2>1, QuietSize
    <2>2. CASE d # on[Main]
      BY <1>0, <1>27, <2>2, Subjects, SizeElsewhere DEF About
    <2> QED
      BY <2>1, <2>2
  <1>28. ASSUME NEW w \in Fitting, GuiCreated(w) PROVE SizeAt(d)'
    <2>1. CASE d = on[Main]
      BY <1>28, <2>1, SizeOfCreated
    <2>2. CASE d # on[Main]
      BY <1>0, <1>28, <2>2, Subjects, SizeElsewhere DEF About
    <2> QED
      BY <2>1, <2>2
  <1>29. ASSUME NEW w \in Fitting, TemporaryGui(w) PROVE SizeAt(d)'
    <2>1. CASE d = on[Main]
      BY <1>29, <2>1, SizeOfTemporary
    <2>2. CASE d # on[Main]
      BY <1>0, <1>29, <2>2, Subjects, SizeElsewhere DEF About
    <2> QED
      BY <2>1, <2>2
  <1>30. ASSUME GuiRefused PROVE SizeAt(d)'
    <2>1. CASE d = on[Main]
      BY <1>30, <2>1, QuietSize
    <2>2. CASE d # on[Main]
      BY <1>0, <1>30, <2>2, Subjects, SizeElsewhere DEF About
    <2> QED
      BY <2>1, <2>2
  <1>31. ASSUME attached_done PROVE SizeAt(d)'
    <2>1. CASE d = on[Main]
      BY <1>31, <2>1, SizeOfAttached
    <2>2. CASE d # on[Main]
      BY <1>0, <1>31, <2>2, Subjects, SizeElsewhere DEF About
    <2> QED
      BY <2>1, <2>2
  <1>32. ASSUME SizeOfGui PROVE SizeAt(d)'
    <2>1. CASE d = on[Main]
      BY <1>32, <2>1, SizeOfShown
    <2>2. CASE d # on[Main]
      BY <1>0, <1>32, <2>2, Subjects, SizeElsewhere DEF About
    <2> QED
      BY <2>1, <2>2
  <1>33. ASSUME NoTemporaryGui PROVE SizeAt(d)'
    <2>1. CASE d = on[Main]
      BY <1>33, <2>1, SizeOfTemporary
    <2>2. CASE d # on[Main]
      BY <1>0, <1>33, <2>2, Subjects, SizeElsewhere DEF About
    <2> QED
      BY <2>1, <2>2
  <1>34. ASSUME TemporarySize PROVE SizeAt(d)'
    <2>1. CASE d = on[Main]
      BY <1>34, <2>1, SizeOfTemporary
    <2>2. CASE d # on[Main]
      BY <1>0, <1>34, <2>2, Subjects, SizeElsewhere DEF About
    <2> QED
      BY <2>1, <2>2
  <1>35. ASSUME NEW c \in Comps, NEW w \in Fitting, request_resize(c, w) PROVE SizeAt(d)'
    <2>1. CASE d = c
      BY <1>35, <2>1, SizeOfRequest
    <2>2. CASE d # c
      BY <1>0, <1>35, <2>2, Subjects, SizeElsewhere DEF About
    <2> QED
      BY <2>1, <2>2
  <1>36. ASSUME NEW c \in Comps, NEW l \in Lefts, NEW w \in Widths, Drag(c, l, w) PROVE SizeAt(d)'
    <2>1. CASE d = c
      BY <1>36, <2>1, SizeOfDrag
    <2>2. CASE d # c
      BY <1>0, <1>36, <2>2, Subjects, SizeElsewhere DEF About
    <2> QED
      BY <2>1, <2>2
  <1>37. ASSUME check_size_constraint PROVE SizeAt(d)'
    <2>1. CASE d = on[Main]
      BY <1>37, <2>1, SizeOfCheck
    <2>2. CASE d # on[Main]
      BY <1>0, <1>37, <2>2, Subjects, SizeElsewhere DEF About
    <2> QED
      BY <2>1, <2>2
  <1>38. ASSUME on_size PROVE SizeAt(d)'
    <2>1. CASE d = on[Main]
      BY <1>38, <2>1, SizeOfSet
    <2>2. CASE d # on[Main]
      BY <1>0, <1>38, <2>2, Subjects, SizeElsewhere DEF About
    <2> QED
      BY <2>1, <2>2
  <1> QED
    BY <1>1, <1>2, <1>3, <1>4, <1>5, <1>6, <1>7, <1>8, <1>9, <1>10, <1>11, <1>12, <1>13, <1>14, <1>15, <1>16, <1>17, <1>18, <1>19, <1>20, <1>21, <1>22, <1>23, <1>24, <1>25, <1>26, <1>27, <1>28, <1>29, <1>30, <1>31, <1>32, <1>33, <1>34, <1>35, <1>36, <1>37, <1>38 DEF Next, ModuleSteps, ComponentSteps, LoopSteps, EditorSteps

-----------------------------------------------------------------------------
LEMMA InitGui ==
  ASSUME Init
  PROVE  GuiInv /\ SizeInv
  <1>0. /\ \A t \in Threads : Top(t) = "idle" /\ Under(t) = "idle" /\ on[t] = None
        /\ Main \in Threads
    BY DEF Init, Top, Under, Idle, Threads
  <1> SUFFICES ASSUME NEW c \in Comps PROVE GuiAt(c) /\ SizeAt(c)
    BY <1>0 DEF GuiInv, SizeInv
  <1>1. on[Main] # c /\ \A S : ~In(c, S)
    BY <1>0, LifetimesAssumption DEF In
  <1>2. ~m_created[c] /\ Hidden(c) /\ width[c] = 0
    BY LifetimesAssumption DEF Init, Hidden, Loops
  <1>3. width[c] >= 0
    BY <1>2
  <1>4. GuiAt(c)
    BY <1>1, <1>2 DEF GuiAt
  <1>5. SizeAt(c)
    BY <1>1, <1>2, <1>3 DEF SizeAt
  <1> QED
    BY <1>4, <1>5

LEMMA SameGui ==
  ASSUME IInv, GuiInv, SizeInv, UNCHANGED vars
  PROVE  GuiInv' /\ SizeInv'
  <1>1. \A d \in Comps : Kept(d)
    BY DEF vars, counts, loops, viewed, shown, Kept
  <1>2. UNCHANGED <<stack, on>>
    BY DEF vars
  <1>3. \A d \in Comps : Apart(d)
    BY <1>2, ApartFrom DEF IInv, Threads
  <1>4. Under(Main)' = Under(Main)
    BY <1>2 DEF Under
  <1> QED
    BY <1>1, <1>3, <1>4, GuiElsewhere, SizeElsewhere DEF GuiInv, SizeInv

\* Graphics and sizes are as GuiInv and SizeInv say between all steps, for a
\* host that also removes editors and asks for no size in the middle of
\* attached.
THEOREM GraphicsHold == CarefulHost /\ Spec => [](IInv /\ GuiInv /\ SizeInv)
  <1>1. CarefulHost /\ IInv /\ GuiInv /\ SizeInv /\ [Next]_vars => IInv' /\ GuiInv' /\ SizeInv'
    <2> SUFFICES ASSUME CarefulHost, IInv, GuiInv, SizeInv, [Next]_vars
                 PROVE  IInv' /\ GuiInv' /\ SizeInv'
      OBVIOUS
    <2>1. IInv'
      BY Inductive, CarefulHosts
    <2>2. CASE Next
      BY <2>1, <2>2, NextGui, NextSize
    <2>3. CASE UNCHANGED vars
      BY <2>1, <2>3, SameGui
    <2> QED
      BY <2>2, <2>3
  <1>2. Init => IInv /\ GuiInv /\ SizeInv
    BY InitIInv, InitGui
  <1>3. CarefulHost => CarefulHost'
    BY DEF CarefulHost
  <1> QED
    BY <1>1, <1>2, <1>3, PTL DEF Spec

LEMMA NoLeaks ==
  ASSUME IInv, GuiInv
  PROVE  NothingLeaks
  <1> SUFFICES ASSUME NEW c \in Comps, ~HostHolds(c), \A t \in Threads : on[t] # c
               PROVE  /\ plug[c] = "none" /\ gui[c] = 0 /\ m_runloop[c] = None /\ ~m_editor[c]
                      /\ m_context[c] = None
                      /\ (\A d \in Comps : ~HostHolds(d)) /\ (\A t \in Threads : Idle(t)) => ~s_unique_instance
    BY DEF NothingLeaks
  <1>0. TypeOK /\ LifeAt(c) /\ GuiAt(c) /\ LifeInv /\ StackInv /\ Main \in Threads
    BY DEF IInv, LifeInv, GuiInv, Threads
  <1>1. (\A S : ~In(c, S)) /\ ~Dying(c)
    BY <1>0 DEF In, Dying
  <1>2. ~HostViews(c) /\ ~m_initialized[c]
    BY <1>0 DEF LifeAt
  <1>3. plug[c] = "none" /\ m_runloop[c] = None /\ ~m_editor[c] /\ m_context[c] = None
    BY <1>0, <1>1, <1>2, Functions DEF LifeAt
  <1>4. gui[c] = 0
    BY <1>0, <1>1, <1>2, GuiGone DEF Hidden
  <1>5. ASSUME \A d \in Comps : ~HostHolds(d), \A t \in Threads : Idle(t)
        PROVE  ~s_unique_instance
    <2>1. \A d \in Comps : m_runloop[d] = None
      <3> TAKE d \in Comps
      <3>1. Top(Main) = "idle" /\ on[Main] # d
        BY <1>0, <1>5, WhoIsWhere DEF Top
      <3>2. ~In(d, {"initialize"})
        BY <3>1 DEF In
      <3> QED
        BY <1>0, <1>5, <3>2 DEF LifeInv, LifeAt
    <2>2. Users(m_runloop, Threaded) = 0
      BY <2>1, UsersNone, LifetimesAssumption DEF Loops
    <2>3. Extra = 0
      BY <1>0, <1>5 DEF Extra, Top
    <2>4. loop_refcnt[Threaded] = LoopCount(Threaded) /\ (s_unique_instance <=> loop_refcnt[Threaded] > 0)
      BY LoopInvIs DEF IInv, Loops
    <2> QED
      BY <2>2, <2>3, <2>4 DEF LoopCount
  <1> QED
    BY <1>3, <1>4, <1>5

\* Nothing is left when the host has given everything back (NothingLeaks), for
\* such a host.
THEOREM NothingEverLeaks == CarefulHost /\ Spec => []NothingLeaks
  <1>1. IInv /\ GuiInv /\ SizeInv => NothingLeaks
    BY NoLeaks
  <1> QED
    BY <1>1, GraphicsHold, PTL

LEMMA Balanced ==
  ASSUME IInv, GuiInv
  PROVE  GuiBalanced
  <1> SUFFICES ASSUME NEW c \in Comps
               PROVE  /\ gui[c] \in {0, 1}
                      /\ Idle(Main) => /\ gui[c] = 1 <=> m_created[c]
                                       /\ m_editor_frame[c] <=> m_created[c]
                                       /\ m_runloop[c] = Frame <=> m_created[c]
    BY DEF GuiBalanced
  <1>1. gui[c] \in {0, 1}
    <2>1. In(c, Graphics) => \/ In(c, {"gui create"}) \/ In(c, {"gui show"})
                             \/ In(c, {"frame hook"}) \/ In(c, {"temporary"})
      BY DEF In, Graphics
    <2>2. GuiAt(c)
      BY DEF GuiInv
    <2> QED
      BY <2>1, <2>2 DEF GuiAt, Shown, Hidden
  <1>2. CASE Idle(Main)
    <2>1. Shown(c) \/ Hidden(c)
      BY <1>2, GuiIdle
    <2> QED
      BY <1>1, <2>1 DEF Shown, Hidden
  <1> QED
    BY <1>1, <1>2

\* The plugin's graphics are made and destroyed in turn, and are there with the
\* frame and its loop exactly while the editor is attached (GuiBalanced), for
\* such a host.
THEOREM GuiAlwaysBalanced == CarefulHost /\ Spec => []GuiBalanced
  <1>1. IInv /\ GuiInv /\ SizeInv => GuiBalanced
    BY Balanced
  <1> QED
    BY <1>1, GraphicsHold, PTL

LEMMA Agreed ==
  ASSUME IInv, SizeInv
  PROVE  SizeAgreed
  <1>1. ASSUME Idle(Main), NEW c \in Comps, m_created[c] PROVE WidthOf(rect[c]) = width[c]
    <2>1. on[Main] # c
      BY <1>1, WhoIsWhere DEF IInv, Top
    <2>2. ~In(c, Resizing)
      BY <2>1 DEF In
    <2> QED
      BY <1>1, <2>2 DEF SizeInv, SizeAt
  <1>2. ASSUME At(Main, "on_size")
        PROVE  WidthOf(rect[on[Main]]) \in Fitting \/ \A f \in Fitting : f > WidthOf(rect[on[Main]])
    <2>1. on[Main] \in Comps /\ Top(Main) = "on_size"
      BY <1>2, AtComponent, MainAt DEF IInv, Threads
    <2> QED
      BY <2>1 DEF SizeInv, SizeAt
  <1> QED
    BY <1>1, <1>2 DEF SizeAgreed

\* Host and plugin agree on the width between functions, and on_size is asked
\* for a width that check_size_constraint has made fit (SizeAgreed), for such a
\* host.
THEOREM SizeAlwaysAgreed == CarefulHost /\ Spec => []SizeAgreed
  <1>1. IInv /\ GuiInv /\ SizeInv => SizeAgreed
    BY Agreed
  <1> QED
    BY <1>1, GraphicsHold, PTL
=============================================================================
