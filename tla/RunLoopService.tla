--------------------------- MODULE RunLoopService ---------------------------
(***************************************************************************)
(* What the threaded run loop promises to the code that uses it (the       *)
(* v3_run_loop interface as ct_host_loop relies on it), without pipe,      *)
(* descriptors or completions.                                             *)
(*                                                                         *)
(* A request takes effect in one step between its call and its return,     *)
(* and that step happens while no handler is being called.  So a handler   *)
(* whose removal has returned is not running and is not called again       *)
(* before somebody registers it anew: its owner may free it.  A handler is *)
(* called with the guard held, by the loop's own thread.                   *)
(***************************************************************************)
CONSTANTS
  Callers, Bg, EventHandlers, TimerHandlers, None

Threads  == Callers \cup {Bg}
Handlers == EventHandlers \cup TimerHandlers

Requests  == [op : {"register", "unregister"}, handler : Handlers]
NoRequest == [op |-> "none", handler |-> None]
NoReply   == "empty"

VARIABLES
  registered,   \* handlers the loop may call
  running,      \* the handler being called, or None
  guard,        \* who is in a guarded section: a caller, Bg, or None
  request,      \* what each thread has asked and the loop has not done yet
  reply         \* what the loop has answered and the thread has not seen yet

vars == <<registered, running, guard, request, reply>>

Init ==
  /\ registered = {}
  /\ running = None
  /\ guard = None
  /\ request = [t \in Threads |-> NoRequest]
  /\ reply = [t \in Threads |-> NoReply]

\* A thread asks; the loop's thread can only do so from a callback.
Ask(t, r) ==
  /\ request[t] = NoRequest /\ reply[t] = NoReply
  /\ t = Bg => running # None
  /\ request' = [request EXCEPT ![t] = r]
  /\ UNCHANGED <<registered, running, guard, reply>>

\* Registering fails for a handler that is there, and for a timer when no
\* descriptor can be had; removing fails for a handler that is not there.
Outcome(r, res) ==
  \/ /\ r.op = "register" /\ r.handler \notin registered /\ res = "V3_OK"
     /\ registered' = registered \cup {r.handler}
  \/ /\ r.op = "register" /\ r.handler \in registered \cup TimerHandlers
     /\ res = "V3_FALSE" /\ UNCHANGED registered
  \/ /\ r.op = "unregister" /\ r.handler \in registered /\ res = "V3_OK"
     /\ registered' = registered \ {r.handler}
  \/ /\ r.op = "unregister" /\ r.handler \notin registered
     /\ res = "V3_FALSE" /\ UNCHANGED registered

Serve(t) ==
  /\ running = None
  /\ request[t] # NoRequest
  /\ \E res \in {"V3_OK", "V3_FALSE"} :
       /\ Outcome(request[t], res)
       /\ reply' = [reply EXCEPT ![t] = res]
  /\ request' = [request EXCEPT ![t] = NoRequest]
  /\ UNCHANGED <<running, guard>>

Return(t) ==
  /\ reply[t] # NoReply
  /\ reply' = [reply EXCEPT ![t] = NoReply]
  /\ UNCHANGED <<registered, running, guard, request>>

CallHandler(h) ==
  /\ h \in registered
  /\ guard = None /\ running = None
  /\ guard' = Bg /\ running' = h
  /\ UNCHANGED <<registered, request, reply>>

HandlerReturns ==
  /\ running # None
  /\ guard' = None /\ running' = None
  /\ UNCHANGED <<registered, request, reply>>

EnterGuard(c) ==
  /\ guard = None
  /\ guard' = c
  /\ UNCHANGED <<registered, running, request, reply>>

LeaveGuard(c) ==
  /\ guard = c
  /\ guard' = None
  /\ UNCHANGED <<registered, running, request, reply>>

Next ==
  \/ \E t \in Threads : \E r \in Requests : Ask(t, r)
  \/ \E t \in Threads : Serve(t) \/ Return(t)
  \/ \E h \in Handlers : CallHandler(h)
  \/ HandlerReturns
  \/ \E c \in Callers : EnterGuard(c) \/ LeaveGuard(c)

Spec == Init /\ [][Next]_vars
=============================================================================
