--------------------------- MODULE HostLoopProofs ---------------------------
(***************************************************************************)
(* Proofs about HostLoop, for any number of descriptors, timers and        *)
(* handlers, and for every use of a component.                             *)
(*                                                                         *)
(* The properties speak of the moments when the host thread is in none of  *)
(* the component's functions.  The invariant says where each handler is in *)
(* between: with Current, which is the old loop while slots leave it and   *)
(* the new one while they join it.                                         *)
(***************************************************************************)
EXTENDS HostLoop, TLAPS

\* The loop that has the registered slots.
Current == IF pc \in {"join", "mark"} THEN target ELSE m_runloop

\* The slot whose registration returned and which does not say so yet.
Marking(i) == pc = "mark" /\ at = i /\ slots[i] # NoSlot

\* A loop has the handlers of the slots that are registered, if it is Current.
Placed ==
  \A i \in Slots, l \in Loops :
    slots[i].handler \in registry[l]
      <=> Current = l /\ (slots[i].status = "registered" \/ Marking(i))

NewPlaced ==
  \A l \in Loops :
    new.handler \in registry[l] <=> new.status = "registered" /\ m_runloop = l

\* No handler has two slots or two loops.
Distinct ==
  /\ \A i, j \in Slots : slots[i].handler = slots[j].handler => i = j \/ slots[i] = NoSlot
  /\ \A i \in Slots : slots[i].handler = new.handler => new = NoSlot
  /\ registry[Threaded] \cap registry[Frame] = {}

\* How far set_run_loop and register_timer have come, and the idle timer.
Flow ==
  /\ pc = "leave" => /\ m_runloop # NoLoop /\ target # m_runloop
                     /\ \A i \in Slots : i < at => slots[i].status # "registered"
  /\ pc \in {"join", "mark"} =>
       target # NoLoop /\ \A i \in Slots : at <= i => slots[i].status # "registered"
  /\ pc = "mark" => at \in Slots
  /\ pc = "switched" => target = m_runloop
  /\ pc = "store" => new_at \in Slots /\ slots[new_at] = NoSlot
  /\ pc # "store" => new = NoSlot
  /\ Current = NoLoop => \A i \in Slots : slots[i].status # "registered"
  /\ new.status = "registered" => m_runloop # NoLoop
  /\ have_idle_timer => idle_timer \in Slots

\* The destructor's set_run_loop ends without a loop.
Ending ==
  /\ call = "destructor" => target = NoLoop
  /\ pc = "dead" => m_runloop = NoLoop

\* Who holds the references: the host loop on the loop it has, and the caller of
\* set_run_loop on the one it gives.
RefsTrue ==
  \A l \in Loops :
    refs[l] = (IF m_runloop = l /\ pc \notin {"join", "mark"} THEN 1 ELSE 0)
            + (IF target = l /\ pc \in {"leave", "join", "mark", "switched"} THEN 1 ELSE 0)

\* Unless a callback unregisters its own timer, a handler that a loop has keeps
\* its slot, and one that is being called stays with the loop.
Kept ==
  ~use.reentrant =>
    /\ \A l \in Loops : \A h \in registry[l] : Owned(h)
    /\ running # None => running \in registry[Threaded]
    /\ pc = "mark" => slots[at] # NoSlot

SlotInv == Placed /\ NewPlaced /\ Distinct

IInv == TypeOK /\ SlotInv /\ Flow /\ Ending /\ RefsTrue /\ Kept

-----------------------------------------------------------------------------
LEMMA SlotsTyped ==
  /\ SlotCount \in Nat /\ Slots \subseteq Int /\ SlotCount \notin Slots
  /\ FdSlots \subseteq Slots /\ TimerSlots \subseteq Slots
  /\ \A i \in Slots : i < SlotCount /\ i + 1 \in 0 .. SlotCount
  /\ \A i \in 0 .. SlotCount : i < SlotCount => i \in Slots
  BY HostLoopAssumption DEF SlotCount, Slots, FdSlots, TimerSlots

LEMMA NamesDiffer ==
  /\ Threaded # Frame /\ NoLoop \notin Loops /\ Loops = {Threaded, Frame}
  /\ None \notin Handlers /\ NoSlot.handler = None /\ NoSlot.status = "none"
  /\ NoSlot \notin SlotData
  BY HostLoopAssumption DEF Threaded, Frame, NoLoop, Loops, NoSlot, SlotData

\* The slots of TypeOK, field by field.
LEMMA SlotFields ==
  ASSUME NEW s \in SlotData \cup {NoSlot}
  PROVE  /\ s.handler \in Handlers \cup {None}
         /\ s.status \in {"none", "pending", "registered"}
         /\ s.handler = None <=> s = NoSlot
         /\ s.status = "none" <=> s = NoSlot
         /\ s.status \in {"pending", "registered"} =>
              [s EXCEPT !.status = "registered"] \in SlotData
              /\ [s EXCEPT !.status = "pending"] \in SlotData
         /\ [s EXCEPT !.status = "registered"].handler = s.handler
         /\ [s EXCEPT !.status = "pending"].handler = s.handler
         /\ [s EXCEPT !.status = "registered"].status = "registered"
         /\ [s EXCEPT !.status = "pending"].status = "pending"
  BY HostLoopAssumption DEF NoSlot, SlotData

LEMMA InitIInv == Init => IInv
  <1> SUFFICES ASSUME Init PROVE IInv
    OBVIOUS
  <1> USE SlotsTyped, NamesDiffer DEF Init
  <1>1. /\ slots \in [Slots -> SlotData \cup {NoSlot}] /\ registry \in [Loops -> SUBSET Handlers]
        /\ refs \in [Loops -> 0..2] /\ at \in 0 .. SlotCount
    OBVIOUS
  <1>2. TypeOK
    BY <1>1 DEF TypeOK
  <1>3. Placed /\ NewPlaced /\ Distinct
    BY DEF Placed, NewPlaced, Distinct, Marking
  <1>4. Flow /\ Ending /\ RefsTrue /\ Kept
    BY DEF Flow, Ending, RefsTrue, Kept
  <1> QED
    BY <1>2, <1>3, <1>4 DEF IInv, SlotInv
-----------------------------------------------------------------------------
(***************************************************************************)
(* Registering and unregistering.                                          *)
(***************************************************************************)
\* A registration, accepted or refused, between the loop's answer and the slot.
LEMMA RegisterIInv ==
  ASSUME IInv, NEW i \in Slots, NEW reserved \in BOOLEAN, pc \in {"idle", "idle_timer"},
         slots[i] = NoSlot, Register(i, reserved)
  PROVE  IInv'
  <1> USE SlotsTyped, NamesDiffer
  <1>1. PICK h \in Handlers :
          /\ Fresh(h) /\ new_at' = i /\ pc' = "store"
          /\ new' \in SlotData /\ new'.handler = h
          /\ \/ /\ m_runloop \in Loops /\ Serves(m_runloop) /\ Joined(m_runloop, h)
                /\ new'.status = "registered"
             \/ registry' = registry /\ new'.status = "pending"
          /\ UNCHANGED <<use, slots, m_runloop, refs, running, stuck, call, target, at,
                         initialized, idle_timer, have_idle_timer, view, flag>>
    <2>1. m_runloop # NoLoop => m_runloop \in Loops
      BY DEF IInv, TypeOK
    <2> QED
      BY <2>1 DEF Register, SlotData, switch, idle
  <1>2. registry' \in [Loops -> SUBSET Handlers]
        /\ \A l \in Loops : registry'[l] = registry[l] \cup
             (IF new'.status = "registered" /\ m_runloop = l THEN {h} ELSE {})
    BY <1>1 DEF IInv, TypeOK, Joined
  <1>3. /\ \A j \in Slots : slots[j].handler # h
        /\ \A l \in Loops : h \notin registry[l]
        /\ new = NoSlot
    BY <1>1 DEF Fresh, IInv, Flow
  <1>4. TypeOK'
    BY <1>1, <1>2 DEF IInv, TypeOK
  <1>5. Placed'
    BY <1>1, <1>2, <1>3 DEF IInv, SlotInv, Placed, Marking, Current
  <1>6. NewPlaced'
    BY <1>1, <1>2, <1>3 DEF NewPlaced
  <1>7. Distinct'
    BY <1>1, <1>2, <1>3 DEF IInv, SlotInv, Distinct
  <1>8. Flow'
    BY <1>1 DEF IInv, Flow, Current
  <1>9. Ending' /\ RefsTrue'
    BY <1>1 DEF IInv, Ending, RefsTrue
  <1>10. Kept'
    BY <1>1, <1>2, <1>3 DEF IInv, Kept, Owned, NoSlot
  <1> QED
    BY <1>4, <1>5, <1>6, <1>7, <1>8, <1>9, <1>10 DEF IInv, SlotInv

\* The slot is stored.
LEMMA StoreIInv == IInv /\ Store => IInv'
  <1> SUFFICES ASSUME IInv, Store PROVE IInv'
    OBVIOUS
  <1> USE SlotsTyped, NamesDiffer
  <1>1. /\ pc = "store" /\ new_at \in Slots /\ slots[new_at] = NoSlot
        /\ pc' = "idle" /\ new' = NoSlot /\ call' = "none"
        /\ UNCHANGED <<use, m_runloop, registry, refs, running, target, at, new_at>>
    BY DEF IInv, Flow, Store, loops, switch
  <1>2. /\ slots' \in [Slots -> SlotData \cup {NoSlot}]
        /\ \A i \in Slots : slots'[i] = IF i = new_at THEN new ELSE slots[i]
    BY <1>1 DEF IInv, TypeOK, Store
  <1>3. TypeOK'
    <2>1. /\ idle_timer' \in Slots \cup {0} /\ have_idle_timer' \in BOOLEAN
          /\ initialized' \in BOOLEAN
      <3>1. CASE new.reserved
        BY <1>1, <3>1 DEF Store
      <3>2. CASE ~new.reserved
        BY <3>2 DEF Store, idle, IInv, TypeOK
      <3> QED
        BY <3>1, <3>2
    <2>2. UNCHANGED <<stuck, view, flag>>
      BY DEF Store
    <2> QED
      BY <1>1, <1>2, <2>1, <2>2 DEF IInv, TypeOK
  <1>4. Placed' /\ NewPlaced'
    BY <1>1, <1>2 DEF IInv, TypeOK, SlotInv, Placed, NewPlaced, Marking, Current
  <1>5. Distinct'
    BY <1>1, <1>2 DEF IInv, SlotInv, Distinct
  <1>6. Flow'
    <2>1. have_idle_timer' => idle_timer' \in Slots
      <3>1. CASE new.reserved
        BY <1>1, <3>1 DEF Store
      <3>2. CASE ~new.reserved
        BY <3>2 DEF Store, idle, IInv, Flow
      <3> QED
        BY <3>1, <3>2
    <2> QED
      BY <1>1, <1>2, <2>1 DEF IInv, Flow, Current
  <1>7. Ending' /\ RefsTrue'
    BY <1>1 DEF IInv, Ending, RefsTrue
  <1>8. Kept'
    BY <1>1, <1>2 DEF IInv, Kept, Owned, TypeOK
  <1> QED
    BY <1>3, <1>4, <1>5, <1>6, <1>7, <1>8 DEF IInv, SlotInv
\* What unregistering a slot leaves, whoever asks: the slot is free, its handler
\* with no loop, and all others are where they were.
LEMMA UnregisterEffect ==
  ASSUME IInv, pc = "idle", NEW i \in Slots, Unregister(i)
  PROVE  /\ slots' \in [Slots -> SlotData \cup {NoSlot}]
         /\ \A j \in Slots : slots'[j] = IF j = i THEN NoSlot ELSE slots[j]
         /\ registry' \in [Loops -> SUBSET Handlers]
         /\ \A l \in Loops : registry'[l] = registry[l] \ {slots[i].handler}
         /\ ~use.reentrant => running # slots[i].handler
  <1> USE SlotsTyped, NamesDiffer
  <1>1. /\ slots[i] \in SlotData /\ slots' = [slots EXCEPT ![i] = NoSlot]
        /\ slots \in [Slots -> SlotData \cup {NoSlot}] /\ registry \in [Loops -> SUBSET Handlers]
        /\ m_runloop \in Loops \cup {NoLoop} /\ running \in Handlers \cup {None}
    BY DEF IInv, TypeOK, Unregister
  <1>2. \A l \in Loops : slots[i].handler \in registry[l]
                           <=> m_runloop = l /\ slots[i].status = "registered"
    BY DEF IInv, SlotInv, Placed, Marking, Current
  <1>3. ~use.reentrant /\ running # None => running \in registry[Threaded]
    BY DEF IInv, Kept
  <1>4. slots[i].handler \in Handlers
    BY <1>1 DEF SlotData
  <1>5. CASE slots[i].status = "registered"
    <2>1. m_runloop \in Loops /\ Serves(m_runloop) /\ Left(m_runloop, slots[i].handler)
      BY <1>1, <1>5 DEF IInv, Flow, Current, Unregister
    <2>2. /\ registry' \in [Loops -> SUBSET Handlers]
          /\ \A l \in Loops : registry'[l] = registry[l] \ {slots[i].handler}
      BY <1>1, <1>2, <2>1 DEF Left
    <2>3. ~use.reentrant => running # slots[i].handler
      BY <1>2, <1>3, <1>4, <2>1 DEF Serves
    <2> QED
      BY <1>1, <2>2, <2>3
  <1>6. CASE slots[i].status = "pending"
    <2>1. registry' = registry
      BY <1>6 DEF Unregister
    <2> QED
      BY <1>1, <1>2, <1>3, <1>4, <1>6, <2>1
  <1> QED
    BY <1>1, <1>5, <1>6 DEF SlotData

LEMMA UnregisterIInv ==
  ASSUME IInv, NEW i \in Slots, unregister(i)
  PROVE  IInv'
  <1> USE SlotsTyped, NamesDiffer
  <1>1. /\ pc = "idle" /\ Unregister(i)
        /\ UNCHANGED <<use, m_runloop, refs, running, stuck, pc, call, target, at, new,
                       new_at, initialized, idle_timer, have_idle_timer, view, flag>>
    BY DEF unregister, switch, local, idle
  <1>2. /\ slots' \in [Slots -> SlotData \cup {NoSlot}]
        /\ \A j \in Slots : slots'[j] = IF j = i THEN NoSlot ELSE slots[j]
        /\ registry' \in [Loops -> SUBSET Handlers]
        /\ \A l \in Loops : registry'[l] = registry[l] \ {slots[i].handler}
        /\ ~use.reentrant => running # slots[i].handler
    BY <1>1, UnregisterEffect
  <1>3. new = NoSlot
    BY <1>1 DEF IInv, Flow
  <1>4. TypeOK'
    BY <1>1, <1>2 DEF IInv, TypeOK
  <1>5. Placed'
    <2> SUFFICES ASSUME NEW j \in Slots, NEW l \in Loops
                 PROVE  slots'[j].handler \in registry'[l]
                          <=> m_runloop = l /\ slots'[j].status = "registered"
      BY <1>1 DEF Placed, Marking, Current
    <2>1. CASE j = i
      BY <1>2, <2>1
    <2>2. CASE j # i
      <3>1. slots'[j] = slots[j]
        BY <1>2, <2>2
      <3>2. slots[j].handler \in registry[l] <=> m_runloop = l /\ slots[j].status = "registered"
        BY <1>1 DEF IInv, SlotInv, Placed, Marking, Current
      <3>3. slots[j].handler # slots[i].handler \/ slots[j] = NoSlot
        BY <2>2 DEF IInv, SlotInv, Distinct
      <3> QED
        BY <1>2, <3>1, <3>2, <3>3
    <2> QED
      BY <2>1, <2>2
  <1>6. NewPlaced'
    BY <1>1, <1>2, <1>3 DEF NewPlaced
  <1>7. Distinct'
    <2>1. \A j \in Slots : slots[j].handler = None => slots[j] = NoSlot
      BY DEF IInv, TypeOK, SlotData
    <2> QED
      BY <1>1, <1>2, <1>3, <2>1 DEF IInv, SlotInv, Distinct
  <1>8. Flow' /\ Ending' /\ RefsTrue'
    BY <1>1, <1>2, <1>3 DEF IInv, Flow, Ending, RefsTrue, Current
  <1>9. Kept'
    BY <1>1, <1>2, <1>3 DEF IInv, Kept, Owned
  <1> QED
    BY <1>4, <1>5, <1>6, <1>7, <1>8, <1>9 DEF IInv, SlotInv

-----------------------------------------------------------------------------
(***************************************************************************)
(* set_run_loop.                                                           *)
(***************************************************************************)
\* It begins: with the old loop, with the new one, or with nothing to do.
LEMMA SetRunLoopIInv ==
  ASSUME IInv, pc \in {"idle", "detach"}, NEW l \in Loops \cup {NoLoop}, NEW caller,
         caller \in {"initialize", "terminate", "destructor", "attached", "removed",
                    "delete_view"},
         caller = "destructor" => l = NoLoop,
         SetRunLoop(l, caller),
         UNCHANGED <<use, slots, m_runloop, registry, running, stuck, local, initialized,
                     idle, view, flag>>
  PROVE  IInv'
  <1> USE SlotsTyped, NamesDiffer
  <1>1. /\ target' = l /\ at' = 0 /\ call' = caller
        /\ UNCHANGED <<use, slots, m_runloop, registry, running, stuck, new, new_at,
                       initialized, idle_timer, have_idle_timer, view, flag>>
    BY DEF SetRunLoop, local, idle
  <1>2. /\ refs' \in [Loops -> 0..2]
        /\ \A k \in Loops : refs'[k] = refs[k] + (IF k = l THEN 1 ELSE 0)
    <2>1. refs \in [Loops -> 0..2] /\ \A k \in Loops : refs[k] \in 0..1
      BY DEF IInv, TypeOK, RefsTrue
    <2>2. CASE l = NoLoop
      BY <2>1, <2>2 DEF SetRunLoop
    <2>3. CASE l \in Loops
      BY <2>1, <2>3 DEF SetRunLoop
    <2> QED
      BY <2>2, <2>3
  <1>3. \/ pc' = "switched" /\ l = m_runloop
        \/ pc' = "join" /\ m_runloop = NoLoop /\ l # NoLoop
        \/ pc' = "leave" /\ m_runloop # NoLoop /\ l # m_runloop
    BY DEF SetRunLoop
  <1>4. /\ new = NoSlot
        /\ m_runloop = NoLoop => \A i \in Slots : slots[i].status # "registered"
    BY DEF IInv, Flow, Current
  <1>5. TypeOK'
    BY <1>1, <1>2, <1>3 DEF IInv, TypeOK
  <1>6. Placed' /\ NewPlaced'
    BY <1>1, <1>3, <1>4 DEF IInv, SlotInv, Placed, NewPlaced, Marking, Current
  <1>7. Distinct'
    BY <1>1 DEF IInv, SlotInv, Distinct
  <1>8. Flow'
    BY <1>1, <1>3, <1>4 DEF IInv, Flow, Current, NoSlot, Slots
  <1>9. Ending'
    BY <1>1, <1>3 DEF Ending
  <1>10. RefsTrue'
    BY <1>1, <1>2, <1>3 DEF IInv, RefsTrue, TypeOK
  <1>11. Kept'
    BY <1>1, <1>3 DEF IInv, Kept, Owned
  <1> QED
    BY <1>5, <1>6, <1>7, <1>8, <1>9, <1>10, <1>11 DEF IInv, SlotInv

\* One slot leaves the old loop.
LEMMA LeaveIInv == IInv /\ Leave => IInv'
  <1> SUFFICES ASSUME IInv, Leave PROVE IInv'
    OBVIOUS
  <1> USE SlotsTyped, NamesDiffer
  <1>1. /\ pc = "leave" /\ at \in Slots /\ at' = at + 1 /\ at' \in 0 .. SlotCount
        /\ m_runloop \in Loops /\ target # m_runloop /\ new = NoSlot
        /\ UNCHANGED <<use, m_runloop, refs, running, stuck, pc, call, target, new, new_at,
                       initialized, idle_timer, have_idle_timer, view, flag>>
    BY DEF IInv, TypeOK, Flow, Leave, local, idle
  <1>2. /\ slots' \in [Slots -> SlotData \cup {NoSlot}]
        /\ \A i \in Slots : slots'[i].handler = slots[i].handler
        /\ \A i \in Slots : i # at => slots'[i] = slots[i]
        /\ slots'[at].status # "registered"
        /\ \A i \in Slots : slots'[i] = NoSlot <=> slots[i] = NoSlot
    <2>1. /\ slots \in [Slots -> SlotData \cup {NoSlot}]
          /\ [slots[at] EXCEPT !.status = "pending"].handler = slots[at].handler
          /\ [slots[at] EXCEPT !.status = "pending"].status = "pending"
          /\ slots[at].status = "registered" =>
               slots[at] # NoSlot /\ [slots[at] EXCEPT !.status = "pending"] \in SlotData
      BY <1>1, SlotFields DEF IInv, TypeOK
    <2>2. slots' = IF slots[at].status = "registered"
                   THEN [slots EXCEPT ![at] = [slots[at] EXCEPT !.status = "pending"]]
                   ELSE slots
      BY DEF Leave
    <2> HIDE DEF NoSlot, SlotData
    <2> QED
      BY <1>1, <2>1, <2>2
  <1>3. /\ registry' \in [Loops -> SUBSET Handlers]
        /\ \A l \in Loops : registry'[l] = registry[l] \
             (IF slots[at].status = "registered" /\ l = m_runloop
              THEN {slots[at].handler} ELSE {})
        /\ slots[at].status = "registered" => Serves(m_runloop)
    BY <1>1 DEF IInv, TypeOK, Leave, Left
  <1>4. TypeOK'
    BY <1>1, <1>2, <1>3 DEF IInv, TypeOK
  <1>5. Placed'
    <2> SUFFICES ASSUME NEW j \in Slots, NEW l \in Loops
                 PROVE  slots'[j].handler \in registry'[l]
                          <=> m_runloop = l /\ slots'[j].status = "registered"
      BY <1>1 DEF Placed, Marking, Current
    <2>1. slots[j].handler \in registry[l] <=> m_runloop = l /\ slots[j].status = "registered"
      BY <1>1 DEF IInv, SlotInv, Placed, Marking, Current
    <2>2. CASE j = at
      BY <1>1, <1>2, <1>3, <2>1, <2>2
    <2>3. CASE j # at
      <3>1. slots[at].handler # slots[j].handler \/ slots[at] = NoSlot
        BY <1>1, <2>3 DEF IInv, SlotInv, Distinct
      <3> QED
        BY <1>1, <1>2, <1>3, <2>1, <2>3, <3>1
    <2> QED
      BY <2>2, <2>3
  <1>6. NewPlaced' /\ Distinct'
    BY <1>1, <1>2, <1>3 DEF IInv, SlotInv, NewPlaced, Distinct
  <1>7. Flow'
    BY <1>1, <1>2 DEF IInv, Flow, Current
  <1>8. Ending' /\ RefsTrue'
    BY <1>1 DEF IInv, Ending, RefsTrue
  <1>9. Kept'
    <2>1. ~use.reentrant /\ running # None => running \in registry[Threaded]
      BY DEF IInv, Kept
    <2>2. ~use.reentrant /\ running # None => running \in registry'[Threaded]
      BY <1>1, <1>3, <2>1 DEF Serves
    <2> QED
      BY <1>1, <1>2, <1>3, <2>2 DEF IInv, Kept, Owned
  <1> QED
    BY <1>4, <1>5, <1>6, <1>7, <1>8, <1>9 DEF IInv, SlotInv

\* All slots have left, and the old loop is given back: it has none of them.
LEMMA LeaveDoneIInv == IInv /\ LeaveDone => IInv'
  <1> SUFFICES ASSUME IInv, LeaveDone PROVE IInv'
    OBVIOUS
  <1> USE SlotsTyped, NamesDiffer
  <1>1. /\ pc = "leave" /\ at = SlotCount /\ at' = 0 /\ new = NoSlot
        /\ m_runloop \in Loops /\ target # m_runloop /\ target \in Loops \cup {NoLoop}
        /\ UNCHANGED <<use, slots, running, stuck, call, target, new, new_at,
                       initialized, idle_timer, have_idle_timer, view, flag>>
    BY DEF IInv, TypeOK, Flow, LeaveDone, local, idle
  <1>2. \/ target = NoLoop /\ m_runloop' = NoLoop /\ pc' = "switched"
        \/ target # NoLoop /\ m_runloop' = m_runloop /\ pc' = "join"
    BY DEF LeaveDone
  <1>3. \A i \in Slots : slots[i].status # "registered"
    BY <1>1 DEF IInv, Flow
  <1>4. /\ registry \in [Loops -> SUBSET Handlers] /\ registry' \in [Loops -> SUBSET Handlers]
        /\ \A l \in Loops : registry'[l] = registry[l] \/ registry'[l] = {}
    BY DEF IInv, TypeOK, LeaveDone, Unref
  <1>5. /\ \A i \in Slots, l \in Loops : slots[i].handler \notin registry[l]
        /\ \A l \in Loops : new.handler \notin registry[l]
    BY <1>1, <1>3, <1>4 DEF IInv, SlotInv, Placed, Marking
  <1>6. /\ refs' \in [Loops -> 0..2]
        /\ \A l \in Loops : refs'[l] = IF l = target THEN 1 ELSE 0
    <2>1. refs \in [Loops -> 0..2] /\ refs' = [refs EXCEPT ![m_runloop] = @ - 1]
      BY DEF IInv, TypeOK, LeaveDone, Unref
    <2>2. \A l \in Loops : refs[l] = (IF m_runloop = l THEN 1 ELSE 0)
                                  + (IF target = l THEN 1 ELSE 0)
      BY <1>1 DEF IInv, RefsTrue
    <2> QED
      BY <1>1, <2>1, <2>2
  <1>7. TypeOK'
    BY <1>1, <1>2, <1>4, <1>6 DEF IInv, TypeOK
  <1>8. Placed' /\ NewPlaced'
    BY <1>1, <1>2, <1>3, <1>4, <1>5 DEF Placed, NewPlaced, Marking
  <1>9. Distinct'
    BY <1>1, <1>4 DEF IInv, SlotInv, Distinct
  <1>10. Flow'
    BY <1>1, <1>2, <1>3 DEF IInv, Flow, Current
  <1>11. Ending' /\ RefsTrue'
    BY <1>1, <1>2, <1>6 DEF IInv, Ending, RefsTrue
  <1>12. Kept'
    <2>1. ~use.reentrant => \A l \in Loops : registry[l] = {}
      BY <1>1, <1>4, <1>5 DEF IInv, Kept, Owned
    <2> QED
      BY <1>1, <1>2, <1>4, <2>1 DEF IInv, Kept
  <1> QED
    BY <1>7, <1>8, <1>9, <1>10, <1>11, <1>12 DEF IInv, SlotInv

\* One slot joins the new loop, or is refused, or has no handler.
LEMMA JoinIInv == IInv /\ Join => IInv'
  <1> SUFFICES ASSUME IInv, Join PROVE IInv'
    OBVIOUS
  <1> USE SlotsTyped, NamesDiffer
  <1>1. /\ pc = "join" /\ at \in Slots /\ target \in Loops /\ new = NoSlot
        /\ UNCHANGED <<use, slots, m_runloop, refs, running, stuck, call, target, new,
                       new_at, initialized, idle_timer, have_idle_timer, view, flag>>
    BY DEF IInv, TypeOK, Flow, Join, local, idle
  <1>2. \/ /\ slots[at].status = "pending" /\ pc' = "mark" /\ at' = at
           /\ registry' = [registry EXCEPT ![target] = @ \cup {slots[at].handler}]
        \/ pc' = "join" /\ at' = at + 1 /\ registry' = registry
    BY <1>1 DEF Join, Joined
  <1>3. \A i \in Slots, l \in Loops :
          slots[i].handler \in registry[l] <=> target = l /\ slots[i].status = "registered"
    BY <1>1 DEF IInv, SlotInv, Placed, Marking, Current
  <1>4. CASE pc' = "join"
    <2> USE <1>1, <1>2, <1>4
    <2>1. at' = at + 1 /\ at + 1 \in 0 .. SlotCount /\ registry' = registry
      OBVIOUS
    <2>2. TypeOK'
      BY <2>1 DEF IInv, TypeOK
    <2>3. SlotInv'
      BY <1>3, <2>1 DEF IInv, SlotInv, Placed, NewPlaced, Distinct, Marking, Current
    <2>4. Flow'
      <3>1. \A i \in Slots : at <= i => slots[i].status # "registered"
        BY DEF IInv, Flow
      <3>2. \A i \in Slots : at + 1 <= i => slots[i].status # "registered"
        BY <3>1
      <3> QED
        BY <2>1, <3>2 DEF IInv, Flow, Current
    <2>5. Ending' /\ RefsTrue' /\ Kept'
      BY <2>1 DEF IInv, Ending, RefsTrue, Kept, Owned
    <2> QED
      BY <2>2, <2>3, <2>4, <2>5 DEF IInv
  <1>5. CASE pc' = "mark"
    <2>1. /\ slots[at].status = "pending" /\ slots[at] # NoSlot /\ at' = at
          /\ slots[at].handler \in Handlers
      BY <1>1, <1>2, <1>5 DEF IInv, TypeOK, SlotData
    <2>2. /\ registry' \in [Loops -> SUBSET Handlers]
          /\ \A l \in Loops : registry'[l] =
               registry[l] \cup (IF l = target THEN {slots[at].handler} ELSE {})
      BY <1>1, <1>2, <1>5, <2>1 DEF IInv, TypeOK
    <2>3. \A i \in Slots : slots[i].handler = slots[at].handler => i = at
      BY <1>1, <2>1 DEF IInv, SlotInv, Distinct
    <2>4. TypeOK'
      BY <1>1, <1>5, <2>1, <2>2 DEF IInv, TypeOK
    <2>5. Placed'
      BY <1>1, <1>3, <1>5, <2>1, <2>2, <2>3 DEF Placed, Marking, Current
    <2>6. NewPlaced' /\ Distinct'
      BY <1>1, <1>3, <2>1, <2>2 DEF IInv, SlotInv, NewPlaced, Distinct
    <2>7. Flow' /\ Ending' /\ RefsTrue'
      BY <1>1, <1>5, <2>1 DEF IInv, Flow, Ending, RefsTrue, Current
    <2>8. Kept'
      BY <1>1, <1>5, <2>1, <2>2 DEF IInv, Kept, Owned
    <2> QED
      BY <2>4, <2>5, <2>6, <2>7, <2>8 DEF IInv, SlotInv
  <1> QED
    BY <1>2, <1>4, <1>5

\* The slot says that it is registered, if it is still there.
LEMMA MarkIInv == IInv /\ Mark => IInv'
  <1> SUFFICES ASSUME IInv, Mark PROVE IInv'
    OBVIOUS
  <1> USE SlotsTyped, NamesDiffer
  <1>1. /\ pc = "mark" /\ pc' = "join" /\ at \in Slots /\ at' = at + 1
        /\ at + 1 \in 0 .. SlotCount /\ target \in Loops /\ new = NoSlot
        /\ UNCHANGED <<use, m_runloop, registry, refs, running, stuck, call, target, new,
                       new_at, initialized, idle_timer, have_idle_timer, view, flag>>
    BY DEF IInv, TypeOK, Flow, Mark, loops, local, idle
  <1>2. /\ slots' \in [Slots -> SlotData \cup {NoSlot}]
        /\ \A i \in Slots : slots'[i].handler = slots[i].handler
        /\ \A i \in Slots : i # at => slots'[i] = slots[i]
        /\ slots[at] # NoSlot => slots'[at].status = "registered"
        /\ \A i \in Slots : slots'[i] = NoSlot <=> slots[i] = NoSlot
    <2>1. /\ slots \in [Slots -> SlotData \cup {NoSlot}]
          /\ [slots[at] EXCEPT !.status = "registered"].handler = slots[at].handler
          /\ [slots[at] EXCEPT !.status = "registered"].status = "registered"
          /\ slots[at] # NoSlot => [slots[at] EXCEPT !.status = "registered"] \in SlotData
      BY <1>1, SlotFields DEF IInv, TypeOK
    <2>2. slots' = IF slots[at] = NoSlot THEN slots
                   ELSE [slots EXCEPT ![at] = [slots[at] EXCEPT !.status = "registered"]]
      BY DEF Mark
    <2> HIDE DEF NoSlot, SlotData
    <2> QED
      BY <1>1, <2>1, <2>2
  <1>3. TypeOK'
    BY <1>1, <1>2 DEF IInv, TypeOK
  <1>4. Placed'
    BY <1>1, <1>2 DEF IInv, SlotInv, Placed, Marking, Current
  <1>5. NewPlaced' /\ Distinct'
    BY <1>1, <1>2 DEF IInv, SlotInv, NewPlaced, Distinct
  <1>6. Flow'
    BY <1>1, <1>2 DEF IInv, Flow, Current
  <1>7. Ending' /\ RefsTrue' /\ Kept'
    BY <1>1, <1>2 DEF IInv, Ending, RefsTrue, Kept, Owned
  <1> QED
    BY <1>3, <1>4, <1>5, <1>6, <1>7 DEF IInv, SlotInv

\* All slots were offered to the new loop, which is the component's from here on.
LEMMA JoinDoneIInv == IInv /\ JoinDone => IInv'
  <1> SUFFICES ASSUME IInv, JoinDone PROVE IInv'
    OBVIOUS
  <1> USE SlotsTyped, NamesDiffer
  <1>1. /\ pc = "join" /\ pc' = "switched" /\ target \in Loops /\ new = NoSlot
        /\ m_runloop' = target
        /\ UNCHANGED <<use, slots, registry, running, stuck, call, target, at, new,
                       new_at, initialized, idle_timer, have_idle_timer, view, flag>>
    BY DEF IInv, TypeOK, Flow, JoinDone, switch, local, idle
  <1>2. /\ refs' \in [Loops -> 0..2]
        /\ \A l \in Loops : refs'[l] = IF l = target THEN 2 ELSE 0
    BY <1>1 DEF IInv, TypeOK, RefsTrue, JoinDone, Ref
  <1>3. TypeOK'
    BY <1>1, <1>2 DEF IInv, TypeOK
  <1>4. SlotInv'
    BY <1>1 DEF IInv, SlotInv, Placed, NewPlaced, Distinct, Marking, Current
  <1>5. Flow' /\ Ending' /\ RefsTrue' /\ Kept'
    BY <1>1, <1>2 DEF IInv, Flow, Ending, RefsTrue, Kept, Owned, Current
  <1> QED
    BY <1>3, <1>4, <1>5 DEF IInv

\* The caller of set_run_loop gives back the loop it gave; the host loop has a
\* reference of its own.
LEMMA SwitchedIInv ==
  ASSUME IInv, NEW caller, Switched(caller), initialized' \in BOOLEAN,
         view' \in {"none", "open", "attached"},
         \/ pc' \in {"idle", "idle_timer", "detach"} /\ call' \in {"none", call}
         \/ pc' = "dead" /\ call' = call /\ caller = "destructor"
  PROVE  IInv'
  <1> USE SlotsTyped, NamesDiffer
  <1>1. /\ pc = "switched" /\ call = caller /\ target = m_runloop /\ new = NoSlot
        /\ m_runloop \in Loops \cup {NoLoop}
        /\ UNCHANGED <<use, slots, m_runloop, running, stuck, target, at, new, new_at,
                       idle_timer, have_idle_timer, flag>>
    BY DEF IInv, TypeOK, Flow, Switched, local, idle
  <1>2. refs \in [Loops -> 0..2] /\ \A l \in Loops : refs[l] = IF l = m_runloop THEN 2 ELSE 0
    BY <1>1 DEF IInv, TypeOK, RefsTrue
  <1>3. /\ registry' = registry /\ refs' \in [Loops -> 0..2]
        /\ \A l \in Loops : refs'[l] = IF l = m_runloop THEN 1 ELSE 0
    <2>1. CASE target = NoLoop
      BY <1>1, <1>2, <2>1 DEF Switched, loops
    <2>2. CASE target # NoLoop
      BY <1>1, <1>2, <2>2 DEF Switched, Unref
    <2> QED
      BY <2>1, <2>2
  <1>4. TypeOK'
    BY <1>1, <1>3 DEF IInv, TypeOK
  <1>5. SlotInv'
    BY <1>1, <1>3 DEF IInv, SlotInv, Placed, NewPlaced, Distinct, Marking, Current
  <1>6. Flow' /\ Ending' /\ RefsTrue' /\ Kept'
    BY <1>1, <1>3 DEF IInv, Flow, Ending, RefsTrue, Kept, Owned, Current
  <1> QED
    BY <1>4, <1>5, <1>6 DEF IInv

\* terminate unregisters the idle timer first.
LEMMA TerminateIInv == IInv /\ terminate => IInv'
  <1> SUFFICES ASSUME IInv, terminate PROVE IInv'
    OBVIOUS
  <1> USE SlotsTyped, NamesDiffer
  <1>1. /\ pc = "idle" /\ new = NoSlot
        /\ target' = NoLoop /\ at' = 0 /\ call' = "terminate" /\ refs' = refs
        /\ UNCHANGED <<use, m_runloop, running, stuck, new, new_at, initialized,
                       idle_timer, have_idle_timer, view, flag>>
    BY DEF IInv, Flow, terminate, SetRunLoop, local, idle
  <1>2. idle_timer \in Slots /\ Unregister(idle_timer)
    BY DEF IInv, Flow, terminate
  <1>3. /\ slots' \in [Slots -> SlotData \cup {NoSlot}]
        /\ \A j \in Slots : slots'[j] = IF j = idle_timer THEN NoSlot ELSE slots[j]
        /\ registry' \in [Loops -> SUBSET Handlers]
        /\ \A l \in Loops : registry'[l] = registry[l] \ {slots[idle_timer].handler}
        /\ ~use.reentrant => running # slots[idle_timer].handler
    BY <1>1, <1>2, UnregisterEffect
  <1>4. \/ pc' = "switched" /\ m_runloop = NoLoop
        \/ pc' = "leave" /\ m_runloop # NoLoop
    BY DEF terminate, SetRunLoop
  <1>5. TypeOK'
    BY <1>1, <1>3, <1>4 DEF IInv, TypeOK
  <1>6. Placed'
    <2> SUFFICES ASSUME NEW j \in Slots, NEW l \in Loops
                 PROVE  slots'[j].handler \in registry'[l]
                          <=> m_runloop = l /\ slots'[j].status = "registered"
      BY <1>1, <1>4 DEF Placed, Marking, Current
    <2>1. CASE j = idle_timer
      BY <1>3, <2>1
    <2>2. CASE j # idle_timer
      <3>1. slots'[j] = slots[j]
        BY <1>3, <2>2
      <3>2. slots[j].handler \in registry[l] <=> m_runloop = l /\ slots[j].status = "registered"
        BY <1>1 DEF IInv, SlotInv, Placed, Marking, Current
      <3>3. slots[j].handler # slots[idle_timer].handler \/ slots[j] = NoSlot
        BY <1>2, <2>2 DEF IInv, SlotInv, Distinct
      <3> QED
        BY <1>3, <3>1, <3>2, <3>3
    <2> QED
      BY <2>1, <2>2
  <1>7. NewPlaced'
    BY <1>1, <1>3 DEF NewPlaced
  <1>8. Distinct'
    <2>1. \A j \in Slots : slots[j].handler = None => slots[j] = NoSlot
      BY DEF IInv, TypeOK, SlotData
    <2> QED
      BY <1>1, <1>3, <2>1 DEF IInv, SlotInv, Distinct
  <1>9. Flow'
    <2>1. m_runloop = NoLoop => \A j \in Slots : slots'[j].status # "registered"
      BY <1>1, <1>3 DEF IInv, Flow, Current
    <2> QED
      BY <1>1, <1>2, <1>4, <2>1 DEF IInv, Flow, Current, Slots
  <1>10. Ending' /\ RefsTrue'
    BY <1>1, <1>4 DEF IInv, Ending, RefsTrue, TypeOK
  <1>11. Kept'
    BY <1>1, <1>3, <1>4 DEF IInv, Kept, Owned
  <1> QED
    BY <1>5, <1>6, <1>7, <1>8, <1>9, <1>10, <1>11 DEF IInv, SlotInv

-----------------------------------------------------------------------------
(***************************************************************************)
(* Callbacks.                                                              *)
(***************************************************************************)
\* Steps that leave slots, loops and the host thread's place alone.
LEMMA FlagIInv ==
  ASSUME IInv, flag' \in BOOLEAN, view' \in {"none", "open", "attached"},
         UNCHANGED <<use, slots, m_runloop, loops, running, stuck, pc, call, switch, local,
                     initialized, idle>>
  PROVE  IInv'
  <1>1. UNCHANGED <<use, slots, m_runloop, registry, refs, running, stuck, pc, call, target,
                    at, new, new_at, initialized, idle_timer, have_idle_timer>>
    BY DEF loops, switch, local, idle
  <1>2. TypeOK'
    BY <1>1 DEF IInv, TypeOK
  <1>3. SlotInv'
    BY <1>1 DEF IInv, SlotInv, Placed, NewPlaced, Distinct, Marking, Current
  <1>4. Flow' /\ Ending' /\ RefsTrue' /\ Kept'
    BY <1>1 DEF IInv, Flow, Ending, RefsTrue, Kept, Owned, Current
  <1> QED
    BY <1>2, <1>3, <1>4 DEF IInv

\* The threaded loop starts or ends a callback.
LEMMA RunningIInv ==
  ASSUME IInv, flag' \in BOOLEAN, running' \in registry[Threaded] \cup {None},
         UNCHANGED <<use, slots, m_runloop, loops, stuck, pc, call, switch, local,
                     initialized, idle, view>>
  PROVE  IInv'
  <1> USE NamesDiffer
  <1>1. UNCHANGED <<use, slots, m_runloop, registry, refs, stuck, pc, call, target,
                    at, new, new_at, initialized, idle_timer, have_idle_timer, view>>
    BY DEF loops, switch, local, idle
  <1>2. running' \in Handlers \cup {None}
    BY DEF IInv, TypeOK
  <1>3. TypeOK'
    BY <1>1, <1>2 DEF IInv, TypeOK
  <1>4. SlotInv'
    BY <1>1 DEF IInv, SlotInv, Placed, NewPlaced, Distinct, Marking, Current
  <1>5. Flow' /\ Ending' /\ RefsTrue' /\ Kept'
    BY <1>1 DEF IInv, Flow, Ending, RefsTrue, Kept, Owned, Current
  <1> QED
    BY <1>3, <1>4, <1>5 DEF IInv

\* A callback unregisters its own timer, at any moment of the host thread.
LEMMA UnregisterInCallbackIInv ==
  ASSUME IInv, NEW i \in Slots, UnregisterInCallback(i)
  PROVE  IInv'
  <1> USE SlotsTyped, NamesDiffer
  <1>1. /\ use.reentrant
        /\ UNCHANGED <<use, m_runloop, registry, refs, running, pc, call, target, at, new,
                       new_at, initialized, idle_timer, have_idle_timer, view, flag>>
    BY DEF UnregisterInCallback, loops, switch, local, idle
  <1>2. /\ slots' \in [Slots -> SlotData \cup {NoSlot}]
        /\ \A j \in Slots : slots'[j] = slots[j] \/ slots'[j] = NoSlot
        /\ stuck' \in BOOLEAN
    BY DEF IInv, TypeOK, UnregisterInCallback
  <1>3. \A j \in Slots : slots[j].handler = None => slots[j] = NoSlot
    BY DEF IInv, TypeOK, SlotData
  <1>4. TypeOK'
    BY <1>1, <1>2 DEF IInv, TypeOK
  <1>5. Placed' /\ NewPlaced'
    BY <1>1, <1>2 DEF IInv, TypeOK, SlotInv, Placed, NewPlaced, Marking, Current
  <1>6. Distinct'
    <2>1. new.handler = None => new = NoSlot
      BY DEF IInv, TypeOK, SlotData
    <2> QED
      BY <1>1, <1>2, <1>3, <2>1 DEF IInv, SlotInv, Distinct
  <1>7. Flow'
    BY <1>1, <1>2 DEF IInv, Flow, Current
  <1>8. Ending' /\ RefsTrue' /\ Kept'
    BY <1>1 DEF IInv, Ending, RefsTrue, Kept
  <1> QED
    BY <1>4, <1>5, <1>6, <1>7, <1>8 DEF IInv, SlotInv

-----------------------------------------------------------------------------
(***************************************************************************)
(* Every step.                                                             *)
(***************************************************************************)
LEMMA StepIInv == IInv /\ [Next]_vars => IInv'
  <1> SUFFICES ASSUME IInv, [Next]_vars PROVE IInv'
    OBVIOUS
  <1> USE SlotsTyped, NamesDiffer
  <1>1. CASE Switching
    BY <1>1, LeaveIInv, LeaveDoneIInv, JoinIInv, MarkIInv, JoinDoneIInv DEF Switching
  <1>2. CASE initialize \/ attached \/ detach \/ removed \/ delete_view \/ destroy
    <2>1. CASE initialize
      BY <2>1, SetRunLoopIInv DEF initialize
    <2>2. CASE attached
      BY <2>2, SetRunLoopIInv DEF attached
    <2>3. CASE detach
      BY <2>3, SetRunLoopIInv DEF detach
    <2>4. CASE removed
      BY <2>4, SetRunLoopIInv DEF removed
    <2>5. CASE delete_view
      BY <2>5, SetRunLoopIInv DEF delete_view
    <2>6. CASE destroy
      BY <2>6, SetRunLoopIInv DEF destroy
    <2> QED
      BY <1>2, <2>1, <2>2, <2>3, <2>4, <2>5, <2>6
  <1>3. CASE terminate
    BY <1>3, TerminateIInv
  <1>4. CASE \/ initialize_run_loop_set \/ terminate_done \/ destroyed \/ attached_done
             \/ attached_failed \/ removed_done \/ delete_view_done
    <2>1. initialized \in BOOLEAN /\ view \in {"none", "open", "attached"}
      BY DEF IInv, TypeOK
    <2>2. CASE initialize_run_loop_set
      BY <2>1, <2>2, SwitchedIInv DEF initialize_run_loop_set
    <2>3. CASE terminate_done
      BY <2>1, <2>3, SwitchedIInv DEF terminate_done, Return
    <2>4. CASE destroyed
      BY <2>1, <2>4, SwitchedIInv DEF destroyed
    <2>5. CASE attached_done
      BY <2>1, <2>5, SwitchedIInv DEF attached_done, Return
    <2>6. CASE attached_failed
      BY <2>1, <2>6, SwitchedIInv DEF attached_failed
    <2>7. CASE removed_done
      BY <2>1, <2>7, SwitchedIInv DEF removed_done, Return
    <2>8. CASE delete_view_done
      BY <2>1, <2>8, SwitchedIInv DEF delete_view_done, Return
    <2> QED
      BY <1>4, <2>2, <2>3, <2>4, <2>5, <2>6, <2>7, <2>8
  <1>5. CASE initialize_idle_timer
    BY <1>5, RegisterIInv DEF initialize_idle_timer, FirstFree
  <1>6. CASE create_view \/ request_callback
    <2>1. flag \in BOOLEAN /\ view \in {"none", "open", "attached"}
      BY DEF IInv, TypeOK
    <2>2. CASE create_view
      BY <2>1, <2>2, FlagIInv DEF create_view
    <2>3. CASE request_callback
      BY <2>1, <2>3, FlagIInv DEF request_callback
    <2> QED
      BY <1>6, <2>2, <2>3
  <1>7. CASE Store
    BY <1>7, StoreIInv
  <1>8. ASSUME NEW i \in Slots, register_timer(i) \/ register_fd(i) \/ unregister(i)
        PROVE  IInv'
    <2>1. CASE register_timer(i)
      BY <2>1, RegisterIInv DEF register_timer, FirstFree
    <2>2. CASE register_fd(i)
      BY <2>2, RegisterIInv DEF register_fd
    <2>3. CASE unregister(i)
      BY <2>3, UnregisterIInv
    <2> QED
      BY <1>8, <2>1, <2>2, <2>3
  <1>9. ASSUME NEW h \in Handlers, StartCallback(h) \/ FrameCallback(h)
        PROVE  IInv'
    <2>1. flag \in BOOLEAN /\ view \in {"none", "open", "attached"}
      BY DEF IInv, TypeOK
    <2>2. CASE StartCallback(h)
      BY <2>1, <2>2, RunningIInv DEF StartCallback
    <2>3. CASE FrameCallback(h)
      <3>1. flag' \in BOOLEAN
        BY <2>1, <2>3, Zenon DEF FrameCallback, OnReservedTimer
      <3> QED
        BY <2>1, <2>3, <3>1, FlagIInv DEF FrameCallback
    <2> QED
      BY <1>9, <2>2, <2>3
  <1>10. CASE EndCallback
    <2>1. flag' \in BOOLEAN
      BY <1>10, Zenon DEF EndCallback, OnReservedTimer
    <2> QED
      BY <1>10, <2>1, RunningIInv DEF EndCallback
  <1>11. ASSUME NEW i \in TimerSlots, UnregisterInCallback(i)
         PROVE  IInv'
    BY <1>11, UnregisterInCallbackIInv
  <1>12. CASE UNCHANGED vars
    <2>1. flag \in BOOLEAN /\ view \in {"none", "open", "attached"}
      BY DEF IInv, TypeOK
    <2> QED
      BY <1>12, <2>1, FlagIInv DEF vars
  <1> QED
    BY <1>1, <1>2, <1>3, <1>4, <1>5, <1>6, <1>7, <1>8, <1>9, <1>10, <1>11, <1>12
       DEF Next, Component, Editor, Plugin, Callback, Dead

LEMMA InvariantHolds == Spec => []IInv
  BY InitIInv, StepIInv, PTL DEF Spec

-----------------------------------------------------------------------------
(***************************************************************************)
(* What follows from the invariant.                                        *)
(***************************************************************************)
\* The state of the host loop keeps its types: among them the references to
\* each loop, of which there are never more than two nor fewer than none.
THEOREM TypeCorrect == Spec => []TypeOK
  <1>1. IInv => TypeOK
    BY DEF IInv
  <1> QED
    BY <1>1, InvariantHolds, PTL

\* Between the component's functions the slots say truly which of them the
\* current loop has, and no handler is in two loops, whatever is refused, for
\* every use of a component (set_run_loop, unregister_timer).
THEOREM StatusAlwaysTrue == Spec => []StatusTrue
  <1>1. IInv => StatusTrue
    BY DEF IInv, SlotInv, Distinct, Placed, Marking, Current, StatusTrue
  <1> QED
    BY <1>1, InvariantHolds, PTL

\* The slot a callback is given exists, on either loop, unless a callback frees
\* its own (invoke_timer_callback, invoke_posix_fd_callback).
THEOREM HandlersAlwaysOwned == Spec => []HandlersOwned
  <1>1. IInv => HandlersOwned
    BY NamesDiffer DEF IInv, Kept, HandlersOwned
  <1> QED
    BY <1>1, InvariantHolds, PTL

\* Once attached has switched to the host's loop, the threaded one is not in a
\* callback of the component, although nothing waits for that callback but the
\* requests of the switch (ct_plug_view::attached).
THEOREM CallsStayOnHostThread == Spec => []CallsOnHostThread
  <1>1. IInv => CallsOnHostThread
    <2> SUFFICES ASSUME IInv, ~use.reentrant, pc = "idle", m_runloop = Frame, running # None
                 PROVE  FALSE
      BY DEF CallsOnHostThread
    <2>1. running \in registry[Threaded] /\ Owned(running) /\ new = NoSlot
      BY NamesDiffer DEF IInv, Kept, Flow
    <2>2. PICK i \in Slots : slots[i].handler = running
      BY <2>1, NamesDiffer DEF Owned
    <2> QED
      BY <2>1, <2>2, NamesDiffer DEF IInv, SlotInv, Placed, Current, Marking
  <1> QED
    BY <1>1, InvariantHolds, PTL

\* The destructor's comment is true of a plugin whose callbacks do not unregister
\* their own timers: set_run_loop(nullptr) leaves no handler with any loop.
THEOREM DestructorClears == Spec => [](~use.reentrant => ClearedByDestructor)
  <1>1. IInv => (~use.reentrant => ClearedByDestructor)
    <2> SUFFICES ASSUME IInv, ~use.reentrant, pc = "dead", NEW l \in Loops,
                        NEW h \in registry[l]
                 PROVE  FALSE
      BY DEF ClearedByDestructor
    <2>1. Owned(h) /\ new = NoSlot /\ m_runloop = NoLoop /\ h \in Handlers
      BY DEF IInv, Kept, Flow, Ending, TypeOK
    <2>2. PICK i \in Slots : slots[i].handler = h
      BY <2>1, NamesDiffer DEF Owned
    <2> QED
      BY <2>1, <2>2, NamesDiffer DEF IInv, SlotInv, Placed, Current, Marking
  <1> QED
    BY <1>1, InvariantHolds, PTL
=============================================================================
