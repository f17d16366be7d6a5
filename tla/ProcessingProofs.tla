-------------------------- MODULE ProcessingProofs --------------------------
(***************************************************************************)
(* Proofs about Processing, for any parameters, events, buffer space and   *)
(* block sizes: the state of processing, for hosts that process once more  *)
(* before they deactivate, and the queues of a call, for all hosts.        *)
(***************************************************************************)
EXTENDS Processing, TLAPS, FiniteSetTheorems, WellFoundedInduction, NaturalsInduction

\* Once a call of process has seen that the host turned processing off, the
\* plugin is stopped until the host turns it on again; so a plugin that is
\* deactivated then was stopped.
StoppedInv ==
  /\ stop_seen => processing_status = "stopped"
  /\ pc # "idle" => active
  /\ plugin = "processing" => active
  /\ StatusTrue /\ ProcessesWhatStarted

LEMMA InitStopped == Init => StoppedInv
  BY DEF Init, StoppedInv, StatusTrue, ProcessesWhatStarted

\* A call begins.
LEMMA ProcessStopped == StoppedInv /\ process => StoppedInv'
  <1> SUFFICES ASSUME StoppedInv, process PROVE StoppedInv'
    OBVIOUS
  <1>1. /\ active /\ active' = active /\ stop_seen' = ~should_process
        /\ pc' = IF processing_status' = "started" THEN "process"
                 ELSE IF HasParams THEN "flush" ELSE "returned"
        /\ StartOrStop
    BY DEF process
  <1>2. StatusTrue' /\ (~should_process => processing_status' = "stopped")
    <2>1. CASE should_process /\ processing_status = "stopped"
      BY <1>1, <2>1 DEF StartOrStop, StoppedInv, StatusTrue
    <2>2. CASE should_process /\ processing_status # "stopped"
      BY <1>1, <2>2 DEF StartOrStop, StoppedInv, StatusTrue
    <2>3. CASE ~should_process
      BY <1>1, <2>3 DEF StartOrStop, StoppedInv, StatusTrue
    <2> QED
      BY <1>1, <2>1, <2>2, <2>3 DEF StartOrStop
  <1>3. ProcessesWhatStarted'
    BY <1>1, <1>2 DEF ProcessesWhatStarted, StatusTrue
  <1> QED
    BY <1>1, <1>2, <1>3, Zenon DEF StoppedInv

LEMMA StepStopped ==
  ASSUME HostFlushesStop
  PROVE  StoppedInv /\ [Next]_vars => StoppedInv'
  <1> SUFFICES ASSUME StoppedInv, [Next]_vars PROVE StoppedInv'
    OBVIOUS
  <1> USE DEF StoppedInv, StatusTrue, ProcessesWhatStarted
  <1>1. ASSUME NEW s \in Setups, setup_processing(s) PROVE StoppedInv'
    BY <1>1, Zenon DEF setup_processing
  <1>2. CASE activate
    BY <1>2 DEF activate
  <1>3. CASE deactivate
    BY <1>3, HostFlushesStop DEF deactivate
  <1>4. ASSUME NEW state \in BOOLEAN, set_processing(state) PROVE StoppedInv'
    BY <1>4 DEF set_processing, life
  <1>5. CASE process
    BY <1>5, ProcessStopped
  <1>6. CASE Plugin
    BY <1>6 DEF Plugin, Push, PluginReturns, life
  <1>7. CASE Convert
    BY <1>7 DEF Convert, BeginTransfer, Transfer, ProcessReturns, life
  <1>8. CASE UNCHANGED vars
    BY <1>8 DEF vars, life
  <1> QED
    BY <1>1, <1>2, <1>3, <1>4, <1>5, <1>6, <1>7, <1>8 DEF Next, Setup

LEMMA StoppedHolds == ASSUME HostFlushesStop PROVE Spec => []StoppedInv
  BY InitStopped, StepStopped, HostFlushesStop, PTL DEF Spec

\* For a host that processes once more before it deactivates, what the component
\* believes is what the plugin was told.
THEOREM StatusAlwaysTrue == ASSUME HostFlushesStop PROVE Spec => []StatusTrue
  <1>1. StoppedInv => StatusTrue
    BY DEF StoppedInv
  <1> QED
    BY <1>1, StoppedHolds, HostFlushesStop, PTL

\* For such a host a plugin processes only between start_processing and
\* stop_processing, also after it failed to start.
THEOREM OnlyStartedProcess == ASSUME HostFlushesStop PROVE Spec => []ProcessesWhatStarted
  <1>1. StoppedInv => ProcessesWhatStarted
    BY DEF StoppedInv
  <1> QED
    BY <1>1, StoppedHolds, HostFlushesStop, PTL

-----------------------------------------------------------------------------
(***************************************************************************)
(* The queues.                                                             *)
(***************************************************************************)
Queue == {"null", "invalid", "current", "stale"}

\* What is sent: no event goes to a queue of an earlier call.
Sendings == [type : {"note_on", "param_value"}, of : Events, queue : {"none", "current"}]

\* Before the output of a call is converted, nothing was sent nor asked for.
\* While it is, a queue that is known was asked for once, in this call, if the
\* host takes parameters at all, and otherwise none is used.
QueueInv ==
  /\ output_events.list \in Seq(Events)
  /\ queues \in [Params -> Queue]
  /\ asked \in [Params -> 0..1]
  /\ sent \in Seq(Sendings)
  /\ at \in Nat \ {0}
  /\ pc # "transfer" \/ ~data.output_params => asked = [p \in Params |-> 0]
  /\ pc # "transfer" => sent = << >>
  /\ pc = "transfer" /\ data.output_params =>
       \A p \in Params : queues[p] # "stale" /\ (queues[p] = "null" => asked[p] = 0)

LEMMA InitQueues == Init => QueueInv
  BY DEF Init, QueueInv, Queue, NoQueues, EmptyBuffer

\* An event is converted.
LEMMA TransferQueues == QueueInv /\ Transfer => QueueInv'
  <1> SUFFICES ASSUME QueueInv, Transfer PROVE QueueInv'
    OBVIOUS
  <1> DEFINE e == output_events.list[at]
  <1>1. /\ pc = "transfer" /\ at \in DOMAIN output_events.list /\ e \in Events
        /\ at' = at + 1 /\ UNCHANGED <<pc, data, output_events>>
    BY DEF QueueInv, Transfer, events
  <1>2. IF e.type = "param_value" THEN TransferParam(e) ELSE TransferNote(e)
    BY DEF Transfer
  <1> HIDE DEF e
  <1>3. CASE e.type # "param_value"
    <2>1. UNCHANGED <<queues, asked>>
      BY <1>2, <1>3 DEF TransferNote
    <2>2. PICK s \in Sendings : sent' = sent \/ sent' = Append(sent, s)
      <3> DEFINE s == [type |-> "note_on", of |-> e, queue |-> "none"]
      <3>1. s \in Sendings
        BY <1>1 DEF Sendings
      <3>2. sent' = sent \/ sent' = Append(sent, s)
        BY <1>2, <1>3 DEF TransferNote, V3TypeOf
      <3> QED
        BY <3>1, <3>2
    <2>3. sent \in Seq(Sendings)
      BY DEF QueueInv
    <2>4. sent' \in Seq(Sendings)
      BY <2>2, <2>3
    <2> QED
      BY <1>1, <2>1, <2>4 DEF QueueInv
  <1>4. CASE e.type = "param_value" /\ (~data.output_params \/ e.id \notin Params)
    <2>1. UNCHANGED <<sent, queues, asked>>
      BY <1>2, <1>4 DEF TransferParam
    <2> QED
      BY <1>1, <2>1 DEF QueueInv
  <1>5. CASE e.type = "param_value" /\ data.output_params /\ e.id \in Params
    <2>1. [type |-> "param_value", of |-> e, queue |-> "current"] \in Sendings
      BY <1>1 DEF Sendings
    <2>2. ASSUME NEW queue \in {"current", "invalid"}, AddPoint(e, queue)
          PROVE  sent' \in Seq(Sendings)
      BY <2>1, <2>2 DEF AddPoint, QueueInv
    <2>3. CASE queues[e.id] = "null"
      <3>1. PICK queue \in {"current", "invalid"} :
              /\ queues' = [queues EXCEPT ![e.id] = queue]
              /\ asked' = [asked EXCEPT ![e.id] = @ + 1]
              /\ AddPoint(e, queue)
        BY <1>2, <1>5, <2>3 DEF TransferParam
      <3>2. asked[e.id] = 0
        BY <1>1, <1>5, <2>3 DEF QueueInv
      <3>3. asked' \in [Params -> 0..1] /\ queues' \in [Params -> Queue]
        BY <1>5, <3>1, <3>2 DEF QueueInv, Queue
      <3>4. \A p \in Params : queues'[p] # "stale" /\ (queues'[p] = "null" => asked'[p] = 0)
        BY <1>1, <1>5, <3>1 DEF QueueInv
      <3> QED
        BY <1>1, <1>5, <2>2, <3>1, <3>3, <3>4 DEF QueueInv
    <2>4. CASE queues[e.id] # "null"
      <3>1. AddPoint(e, queues[e.id]) /\ UNCHANGED <<queues, asked>>
        BY <1>2, <1>5, <2>4 DEF TransferParam
      <3>2. queues[e.id] \in {"current", "invalid"}
        BY <1>1, <1>5, <2>4 DEF QueueInv, Queue
      <3> QED
        BY <1>1, <2>2, <3>1, <3>2 DEF QueueInv
    <2> QED
      BY <2>3, <2>4
  <1> QED
    BY <1>3, <1>4, <1>5

LEMMA StepQueues == QueueInv /\ [Next]_vars => QueueInv'
  <1> SUFFICES ASSUME QueueInv, [Next]_vars PROVE QueueInv'
    OBVIOUS
  <1> USE DEF QueueInv
  <1>1. ASSUME NEW s \in Setups, setup_processing(s) PROVE QueueInv'
    BY <1>1 DEF setup_processing, events, output
  <1>2. CASE activate
    BY <1>2 DEF activate, events, NoQueues, Queue
  <1>3. CASE deactivate
    BY <1>3 DEF deactivate, events, output
  <1>4. ASSUME NEW state \in BOOLEAN, set_processing(state) PROVE QueueInv'
    BY <1>4 DEF set_processing, events, output
  <1>5. CASE process
    <2>1. /\ pc = "idle" /\ pc' # "transfer" /\ output_events'.list = << >>
          /\ queues' = Aged /\ UNCHANGED <<at, sent, asked>>
      BY <1>5 DEF process, EmptyBuffer
    <2>2. queues' \in [Params -> Queue]
      BY <2>1 DEF Aged, Queue
    <2> QED
      BY <2>1, <2>2
  <1>6. ASSUME NEW e \in Events, Push(e) PROVE QueueInv'
    <2>1. output_events'.list \in Seq(Events)
      BY <1>6 DEF Push, Add
    <2> QED
      BY <1>6, <2>1 DEF Push, output
  <1>7. CASE PluginReturns
    BY <1>7 DEF PluginReturns, events, output
  <1>8. CASE BeginTransfer
    BY <1>8 DEF BeginTransfer, events, NoQueues, Queue
  <1>9. CASE Transfer
    BY <1>9, TransferQueues
  <1>10. CASE ProcessReturns
    BY <1>10 DEF ProcessReturns, events
  <1>11. CASE UNCHANGED vars
    BY <1>11 DEF vars, events, output
  <1> QED
    BY <1>1, <1>2, <1>3, <1>4, <1>5, <1>6, <1>7, <1>8, <1>9, <1>10, <1>11
       DEF Next, Setup, Plugin, Convert

\* No point goes to a queue that an earlier call got, and no parameter's queue is
\* asked for twice, whatever the host refuses and passes, and for any number of
\* parameters and events (event_converter_clap_to_v3::transfer).
THEOREM QueuesAlwaysOfThisCall == Spec => []QueuesOfThisCall
  <1>1. QueueInv => QueuesOfThisCall
    <2> SUFFICES ASSUME QueueInv PROVE QueuesOfThisCall
      OBVIOUS
    <2>1. \A i \in DOMAIN sent : sent[i] \in Sendings
      BY DEF QueueInv
    <2>2. \A i \in DOMAIN sent : sent[i].queue # "stale"
      BY <2>1 DEF Sendings
    <2>3. \A p \in Params : asked[p] <= 1
      BY DEF QueueInv
    <2> QED
      BY <2>2, <2>3 DEF QueuesOfThisCall
  <1> QED
    BY <1>1, InitQueues, StepQueues, PTL DEF Spec
-----------------------------------------------------------------------------
(***************************************************************************)
(* The output.                                                             *)
(***************************************************************************)
IsPoint(e) == e.type = "param_value" /\ e.id \in Params

\* When the conversion begins no queue is this call's; so that a point before
\* the place of the conversion is wanted or not, and stays so, its parameter's
\* queue is known.  What was sent up to there is what is wanted.
OutputInv ==
  /\ QueueInv
  /\ pc \in {"process", "flush", "returned"} => \A p \in Params : queues[p] # "current"
  /\ pc = "transfer" /\ ~data.output_params => \A p \in Params : queues[p] # "current"
  /\ pc # "transfer" => at = 1
  /\ pc = "transfer" => at <= Len(output_events.list) + 1
  /\ pc = "transfer" /\ data.output_params =>
       \A i \in 1 .. at - 1 : IsPoint(output_events.list[i]) =>
         queues[output_events.list[i].id] # "null"
  /\ Len(sent) = Cardinality(WantedBefore(at))
  /\ \A i \in WantedBefore(at) :
       sent[Cardinality(WantedBefore(i)) + 1].of = output_events.list[i]

\* The events before a place are finitely many; those before an earlier one that
\* is wanted are fewer.
LEMMA WantedFinite ==
  ASSUME NEW n \in Nat \ {0}
  PROVE  /\ IsFiniteSet(WantedBefore(n)) /\ Cardinality(WantedBefore(n)) \in Nat
         /\ \A i \in WantedBefore(n) :
              /\ Cardinality(WantedBefore(i)) \in Nat
              /\ Cardinality(WantedBefore(i)) + 1 <= Cardinality(WantedBefore(n))
  <1>1. \A m \in Nat \ {0} : IsFiniteSet(WantedBefore(m)) /\ Cardinality(WantedBefore(m)) \in Nat
    <2> TAKE m \in Nat \ {0}
    <2>1. IsFiniteSet(1 .. m - 1) /\ WantedBefore(m) \in SUBSET (1 .. m - 1)
      BY FS_Interval DEF WantedBefore
    <2> QED
      BY <2>1, FS_Subset, FS_CardinalityType
  <1>2. ASSUME NEW i \in WantedBefore(n)
        PROVE  /\ Cardinality(WantedBefore(i)) \in Nat
               /\ Cardinality(WantedBefore(i)) + 1 <= Cardinality(WantedBefore(n))
    <2>1. i \in Nat \ {0} /\ i \notin WantedBefore(i)
      BY DEF WantedBefore
    <2>2. WantedBefore(i) \cup {i} \in SUBSET WantedBefore(n)
      BY DEF WantedBefore
    <2>3. Cardinality(WantedBefore(i) \cup {i}) = Cardinality(WantedBefore(i)) + 1
      BY <1>1, <2>1, FS_AddElement
    <2>4. Cardinality(WantedBefore(i) \cup {i}) <= Cardinality(WantedBefore(n))
      BY <1>1, <2>2, FS_Subset
    <2> QED
      BY <1>1, <2>1, <2>3, <2>4
  <1> QED
    BY <1>1, <1>2

\* Without anything converted nothing is wanted.
LEMMA NoneWanted == WantedBefore(1) = {} /\ Cardinality(WantedBefore(1)) = 0
  BY FS_EmptySet DEF WantedBefore

LEMMA InitOutput == Init => OutputInv
  BY InitQueues, NoneWanted DEF Init, OutputInv, NoQueues

\* A step at which nothing was sent yet and nothing is in conversion keeps the
\* part about what was sent.
LEMMA NothingSent ==
  ASSUME QueueInv', pc' # "transfer", at' = 1,
         pc' # "idle" => (\A p \in Params : queues[p] # "current")'
  PROVE  OutputInv'
  <1>1. (WantedBefore(at) = {})'
    BY DEF WantedBefore
  <1>2. sent' = << >>
    BY DEF QueueInv
  <1> QED
    BY <1>1, <1>2, FS_EmptySet DEF OutputInv

\* An event is converted: what was wanted before it stays so, and it is sent if
\* it is wanted.
LEMMA TransferOutput == OutputInv /\ Transfer => OutputInv'
  <1> SUFFICES ASSUME OutputInv, Transfer PROVE OutputInv'
    OBVIOUS
  <1>1. PICK l, n : l = output_events.list /\ n = at
    OBVIOUS
  <1> DEFINE e == l[n]
  <1>2. /\ pc = "transfer" /\ n \in DOMAIN l /\ e \in Events /\ l \in Seq(Events)
        /\ at' = n + 1 /\ output_events'.list = l /\ n \in 1..Len(l)
        /\ UNCHANGED <<pc, data, output_events>>
    BY <1>1 DEF OutputInv, QueueInv, Transfer, events
  <1>3. IF e.type = "param_value" THEN TransferParam(e) ELSE TransferNote(e)
    BY <1>1 DEF Transfer
  <1>4. QueueInv'
    BY TransferQueues DEF OutputInv
  <1>5. /\ ~data.output_params => \A p \in Params : queues[p] # "current"
        /\ data.output_params => \A i \in 1 .. n - 1 : IsPoint(l[i]) => queues[l[i].id] # "null"
    BY <1>1, <1>2 DEF OutputInv
  <1>6. queues \in [Params -> Queue] /\ sent \in Seq(Sendings)
    BY DEF OutputInv, QueueInv
  <1>7. data.output_params => \A p \in Params : queues[p] # "stale"
    BY <1>2 DEF OutputInv, QueueInv
  \* The queues that are known stay, and the one of the event is known.
  <1>8. /\ queues' \in [Params -> Queue]
        /\ ~data.output_params => queues' = queues
        /\ \A p \in Params : queues[p] # "null" => queues'[p] = queues[p]
        /\ data.output_params /\ IsPoint(e) => queues'[e.id] # "null"
        /\ IF Wanted(e)' THEN \E s : s.of = e /\ sent' = Append(sent, s) ELSE sent' = sent
    <2>1. CASE e.type # "param_value"
      <3>1. queues' = queues
        BY <1>3, <2>1 DEF TransferNote
      <3>2. Wanted(e)' <=> data.output_events
        BY <1>2, <2>1 DEF Wanted
      <3>3. CASE data.output_events
        <4> DEFINE s == [type |-> V3TypeOf(e.type), of |-> e, queue |-> "none"]
        <4>1. sent' = Append(sent, s) /\ s.of = e
          BY <1>3, <2>1, <3>3 DEF TransferNote
        <4>2. \E x : x.of = e /\ sent' = Append(sent, x)
          BY <4>1
        <4> QED
          BY <1>6, <2>1, <3>1, <3>2, <3>3, <4>2 DEF IsPoint
      <3>4. CASE ~data.output_events
        <4>1. sent' = sent
          BY <1>3, <2>1, <3>4 DEF TransferNote
        <4> QED
          BY <1>6, <2>1, <3>1, <3>2, <3>4, <4>1 DEF IsPoint
      <3> QED
        BY <3>3, <3>4
    <2>2. CASE e.type = "param_value" /\ (~data.output_params \/ e.id \notin Params)
      <3>1. UNCHANGED <<sent, queues>>
        BY <1>3, <2>2 DEF TransferParam
      <3>2. ~Wanted(e)'
        BY <1>5, <2>2, <3>1 DEF Wanted
      <3> QED
        BY <1>6, <2>2, <3>1, <3>2 DEF IsPoint
    <2>3. CASE e.type = "param_value" /\ data.output_params /\ e.id \in Params
      <3>1. ASSUME NEW queue \in {"current", "invalid"}, AddPoint(e, queue), queues'[e.id] = queue
            PROVE  IF Wanted(e)' THEN \E s : s.of = e /\ sent' = Append(sent, s) ELSE sent' = sent
        <4>1. Wanted(e)' <=> queue = "current"
          BY <2>3, <3>1 DEF Wanted
        <4>2. CASE queue = "current"
          <5> DEFINE s == [type |-> "param_value", of |-> e, queue |-> queue]
          <5>1. sent' = Append(sent, s) /\ s.of = e
            BY <3>1, <4>2 DEF AddPoint
          <5> QED
            BY <4>1, <4>2, <5>1
        <4>3. CASE queue = "invalid"
          BY <3>1, <4>1, <4>3 DEF AddPoint
        <4> QED
          BY <3>1, <4>2, <4>3
      <3>2. CASE queues[e.id] = "null"
        <4>1. PICK queue \in {"current", "invalid"} :
                queues' = [queues EXCEPT ![e.id] = queue] /\ AddPoint(e, queue)
          BY <1>3, <2>3, <3>2 DEF TransferParam
        <4>2. queues'[e.id] = queue
          BY <1>6, <2>3, <4>1
        <4>3. queues' \in [Params -> Queue]
          BY <1>6, <2>3, <4>1 DEF Queue
        <4>4. IF Wanted(e)' THEN \E s : s.of = e /\ sent' = Append(sent, s) ELSE sent' = sent
          BY <3>1, <4>1, <4>2
        <4>5. \A p \in Params : queues[p] # "null" => queues'[p] = queues[p]
          BY <1>6, <2>3, <3>2, <4>1
        <4> QED
          BY <2>3, <4>1, <4>2, <4>3, <4>4, <4>5
      <3>3. CASE queues[e.id] # "null"
        <4>1. AddPoint(e, queues[e.id]) /\ queues' = queues
          BY <1>3, <2>3, <3>3 DEF TransferParam
        <4>2. queues[e.id] \in {"current", "invalid"}
          BY <1>6, <1>7, <2>3, <3>3 DEF Queue
        <4>3. IF Wanted(e)' THEN \E s : s.of = e /\ sent' = Append(sent, s) ELSE sent' = sent
          BY <3>1, <4>1, <4>2
        <4> QED
          BY <1>6, <2>3, <3>3, <4>1, <4>3
      <3> QED
        BY <3>2, <3>3
    <2> QED
      BY <2>1, <2>2, <2>3
  <1>9. ASSUME NEW i \in 1 .. n - 1
        PROVE  Wanted(l[i])' <=> Wanted(l[i])
    <2>1. CASE l[i].type # "param_value"
      BY <1>2, <2>1 DEF Wanted
    <2>2. CASE l[i].type = "param_value" /\ l[i].id \notin Params
      BY <2>2 DEF Wanted
    <2>3. CASE IsPoint(l[i])
      <3>1. queues'[l[i].id] = queues[l[i].id]
        BY <1>5, <1>8, <2>3 DEF IsPoint
      <3> QED
        BY <2>3, <3>1 DEF IsPoint, Wanted
    <2> QED
      BY <2>1, <2>2, <2>3 DEF IsPoint
  <1>10. \A m \in 1..n : WantedBefore(m)' = WantedBefore(m)
    BY <1>1, <1>2, <1>9 DEF WantedBefore
  <1>11. WantedBefore(n + 1)' = IF Wanted(e)' THEN WantedBefore(n) \cup {n} ELSE WantedBefore(n)
    <2>1. WantedBefore(n + 1)' = {i \in 1..n : Wanted(l[i])'}
      BY <1>2 DEF WantedBefore
    <2>2. WantedBefore(n) = {i \in 1 .. n - 1 : Wanted(l[i])'}
      BY <1>1, <1>2, <1>9 DEF WantedBefore
    <2> HIDE DEF e
    <2>3. \A i \in 1..n : i \in 1 .. n - 1 \/ i = n
      BY <1>2
    <2>4. n \in 1..n /\ n \notin 1 .. n - 1 /\ 1 .. n - 1 \subseteq 1..n
      BY <1>2
    <2>5. Wanted(e)' <=> Wanted(l[n])'
      BY DEF e
    <2> QED
      BY <2>1, <2>2, <2>3, <2>4, <2>5
  <1>12. /\ Len(sent) = Cardinality(WantedBefore(n))
         /\ \A i \in WantedBefore(n) : sent[Cardinality(WantedBefore(i)) + 1].of = l[i]
    BY <1>1 DEF OutputInv
  <1>13. IsFiniteSet(WantedBefore(n)) /\ Cardinality(WantedBefore(n)) \in Nat
    BY <1>2, WantedFinite
  <1>14. \A i \in WantedBefore(n) : Cardinality(WantedBefore(i)) + 1 \in 1..Len(sent)
    BY <1>2, <1>12, WantedFinite
  <1>15. n \notin WantedBefore(n) /\ \A i \in WantedBefore(n) : i \in 1..n
    BY <1>2 DEF WantedBefore
  <1>16. /\ Len(sent') = Cardinality(WantedBefore(n + 1)')
         /\ \A i \in WantedBefore(n + 1)' :
              sent'[Cardinality(WantedBefore(i)') + 1].of = l[i]
    <2> HIDE DEF e
    <2>1. CASE Wanted(e)'
      <3>1. PICK s : s.of = e /\ sent' = Append(sent, s)
        BY <1>8, <2>1
      <3>2. WantedBefore(n + 1)' = WantedBefore(n) \cup {n}
        BY <1>11, <2>1
      <3>3. Cardinality(WantedBefore(n + 1)') = Len(sent) + 1
        BY <1>12, <1>13, <1>15, <3>2, FS_AddElement
      <3>4. /\ Len(sent') = Len(sent) + 1 /\ sent'[Len(sent) + 1] = s
            /\ \A k \in 1..Len(sent) : sent'[k] = sent[k]
        BY <1>6, <3>1
      <3>5. ASSUME NEW i \in WantedBefore(n)
            PROVE  sent'[Cardinality(WantedBefore(i)') + 1].of = l[i]
        <4>1. WantedBefore(i)' = WantedBefore(i)
          BY <1>10, <1>15
        <4>2. sent'[Cardinality(WantedBefore(i)) + 1] = sent[Cardinality(WantedBefore(i)) + 1]
          BY <1>14, <3>4
        <4> QED
          BY <1>12, <4>1, <4>2
      <3>6. sent'[Cardinality(WantedBefore(n)') + 1].of = l[n]
        <4>1. WantedBefore(n)' = WantedBefore(n)
          BY <1>2, <1>10
        <4> QED
          BY <1>12, <3>1, <3>4, <4>1 DEF e
      <3> QED
        BY <3>2, <3>3, <3>4, <3>5, <3>6
    <2>2. CASE ~Wanted(e)'
      <3>1. sent' = sent /\ WantedBefore(n + 1)' = WantedBefore(n)
        BY <1>8, <1>11, <2>2
      <3> QED
        BY <1>10, <1>12, <1>15, <3>1
    <2> QED
      BY <2>1, <2>2
  <1>17. data.output_params =>
           \A i \in 1..n : IsPoint(l[i]) => queues'[l[i].id] # "null"
    <2> SUFFICES ASSUME data.output_params, NEW i \in 1..n, IsPoint(l[i])
                 PROVE  queues'[l[i].id] # "null"
      OBVIOUS
    <2>1. CASE i = n
      BY <1>8, <2>1
    <2>2. CASE i # n
      <3>1. i \in 1 .. n - 1
        BY <1>2, <2>2
      <3>2. queues[l[i].id] # "null" /\ l[i].id \in Params
        BY <1>5, <3>1 DEF IsPoint
      <3> QED
        BY <1>8, <3>2
    <2> QED
      BY <2>1, <2>2
  <1> HIDE DEF e
  <1>18. ~data'.output_params => \A p \in Params : queues'[p] # "current"
    BY <1>2, <1>5, <1>8
  <1>19. /\ pc' = "transfer" /\ at' <= Len(output_events'.list) + 1
         /\ data'.output_params =>
              \A i \in 1 .. at' - 1 : IsPoint(output_events'.list[i]) =>
                queues'[output_events'.list[i].id] # "null"
    BY <1>2, <1>17
  <1>20. /\ Len(sent') = Cardinality(WantedBefore(at)')
         /\ \A i \in WantedBefore(at)' :
              sent'[Cardinality(WantedBefore(i)') + 1].of = output_events'.list[i]
    BY <1>2, <1>16 DEF WantedBefore
  <1> QED
    BY <1>4, <1>18, <1>19, <1>20 DEF OutputInv

LEMMA StepOutput == OutputInv /\ [Next]_vars => OutputInv'
  <1> SUFFICES ASSUME OutputInv, [Next]_vars PROVE OutputInv'
    OBVIOUS
  <1>0. QueueInv /\ QueueInv'
    BY StepQueues DEF OutputInv
  <1>a. ASSUME UNCHANGED <<pc, data, output, output_events>> PROVE OutputInv'
    BY <1>0, <1>a DEF OutputInv, WantedBefore, Wanted, output
  <1>1. ASSUME NEW s \in Setups, setup_processing(s) PROVE OutputInv'
    BY <1>1, <1>a DEF setup_processing, events
  <1>2. CASE activate
    BY <1>0, <1>2, NothingSent DEF activate, OutputInv
  <1>3. CASE deactivate
    BY <1>3, <1>a DEF deactivate, events
  <1>4. ASSUME NEW state \in BOOLEAN, set_processing(state) PROVE OutputInv'
    BY <1>4, <1>a DEF set_processing, events
  <1>5. CASE process
    <2>1. pc = "idle" /\ pc' # "transfer" /\ queues' = Aged /\ at' = at
      BY <1>5 DEF process
    <2>2. \A p \in Params : queues'[p] # "current"
      BY <2>1 DEF Aged
    <2> QED
      BY <1>0, <2>1, <2>2, NothingSent DEF OutputInv
  <1>6. ASSUME NEW e \in Events, Push(e) PROVE OutputInv'
    BY <1>0, <1>6, NothingSent DEF Push, OutputInv, output
  <1>7. CASE PluginReturns
    BY <1>0, <1>7, NothingSent DEF PluginReturns, OutputInv, output
  <1>8. CASE BeginTransfer
    <2>1. /\ pc = "returned" /\ pc' = "transfer" /\ at' = 1 /\ at = 1 /\ sent' = << >>
          /\ UNCHANGED <<data, output_events>>
          /\ queues' = IF data.output_params THEN NoQueues ELSE queues
      BY <1>0, <1>8 DEF BeginTransfer, OutputInv, QueueInv, events
    <2>2. (WantedBefore(at) = {})'
      BY <2>1 DEF WantedBefore
    <2>3. \A p \in Params : queues'[p] # "current"
      BY <2>1 DEF OutputInv, NoQueues
    <2>4. Len(output_events'.list) \in Nat
      BY <1>0 DEF QueueInv
    <2>5. (/\ Len(sent) = Cardinality(WantedBefore(at))
           /\ \A i \in WantedBefore(at) :
                sent[Cardinality(WantedBefore(i)) + 1].of = output_events.list[i])'
      BY <2>1, <2>2, FS_EmptySet
    <2>6. at' <= Len(output_events'.list) + 1 /\ 1 .. at' - 1 = {}
      BY <2>1, <2>4
    <2> QED
      BY <1>0, <2>1, <2>3, <2>5, <2>6 DEF OutputInv
  <1>9. CASE Transfer
    BY <1>9, TransferOutput
  <1>10. CASE ProcessReturns
    BY <1>0, <1>10, NothingSent DEF ProcessReturns
  <1>11. CASE UNCHANGED vars
    BY <1>11, <1>a DEF vars, events
  <1> QED
    BY <1>1, <1>2, <1>3, <1>4, <1>5, <1>6, <1>7, <1>8, <1>9, <1>10, <1>11
       DEF Next, Setup, Plugin, Convert

\* When a call returns the host has every note, if it takes events, and every
\* point for whose parameter it gave a queue, in the order in which the plugin
\* pushed them, whatever the host refuses and for any number of events.
THEOREM OutputAlwaysComplete == Spec => []OutputComplete
  <1>1. OutputInv => OutputComplete
    BY DEF OutputInv, OutputComplete
  <1> QED
    BY <1>1, InitOutput, StepOutput, PTL DEF Spec
-----------------------------------------------------------------------------
(***************************************************************************)
(* The input.  Filled is a recursive function on the numbers of events that *)
(* were added; in place of an induction, the least number for which a      *)
(* statement fails is taken.                                               *)
(***************************************************************************)
\* A set of natural numbers that is not empty has a least member.
LEMMA Least ==
  ASSUME NEW T \in SUBSET Nat, T # {}
  PROVE  \E n \in T : \A m \in T : n <= m
  <1>1. \E n \in T : \A m \in T : ~(<<m, n>> \in OpToRel(<, Nat))
    BY NatLessThanWellFounded, WFMin
  <1>2. PICK n \in T : \A m \in T : ~(m < n)
    BY <1>1 DEF OpToRel
  <1> QED
    BY <1>2

\* f is the buffer after each of the first k events.
Fills(given, k, f) ==
  f = [n \in 0..k |->
        IF n = 0 THEN EmptyBuffer
        ELSE IF given[n] = NoEvent THEN f[n - 1] ELSE Add(f[n - 1], given[n])]

LEMMA FillsExists ==
  ASSUME NEW given, NEW n \in Nat
  PROVE  \E f : Fills(given, n, f)
  <1> DEFINE T == {k \in Nat : ~\E f : Fills(given, k, f)}
  <1> SUFFICES ASSUME T # {} PROVE FALSE
    OBVIOUS
  <1>1. PICK k \in T : \A m \in T : k <= m
    BY Least
  <1>2. CASE k = 0
    <2> DEFINE f == [m \in 0..0 |-> EmptyBuffer]
               F == [m \in 0..0 |->
                      IF m = 0 THEN EmptyBuffer
                      ELSE IF given[m] = NoEvent THEN f[m - 1] ELSE Add(f[m - 1], given[m])]
    <2>1. \A m \in 0..0 : f[m] = F[m]
      OBVIOUS
    <2>2. f = F
      BY <2>1
    <2>3. Fills(given, 0, f)
      BY <2>2 DEF Fills
    <2> QED
      BY <1>2, <2>3
  <1>3. CASE k # 0
    <2>1. k \in Nat /\ k - 1 \in Nat /\ k - 1 \notin T
      BY <1>1, <1>3
    <2>2. PICK f : Fills(given, k - 1, f)
      BY <2>1
    <2> DEFINE Next1(b, m) == IF given[m] = NoEvent THEN b ELSE Add(b, given[m])
               g == [m \in 0..k |-> IF m < k THEN f[m] ELSE Next1(f[k - 1], k)]
    <2>3. ASSUME NEW m \in 0..k
          PROVE  g[m] = IF m = 0 THEN EmptyBuffer ELSE Next1(g[m - 1], m)
      <3> HIDE DEF Next1
      <3>1. CASE m < k
        <4>1. m \in 0 .. k - 1 /\ g[m] = f[m] /\ (m # 0 => g[m - 1] = f[m - 1])
          BY <2>1, <3>1
        <4>2. f[m] = IF m = 0 THEN EmptyBuffer ELSE Next1(f[m - 1], m)
          BY <2>2, <4>1 DEF Fills, Next1
        <4> QED
          BY <4>1, <4>2
      <3>2. CASE m = k
        <4>1. g[m] = Next1(f[k - 1], k) /\ g[m - 1] = f[k - 1] /\ m # 0
          BY <1>3, <2>1, <3>2
        <4> QED
          BY <3>2, <4>1
      <3> QED
        BY <2>1, <3>1, <3>2
    <2>4. g = [m \in 0..k |-> IF m = 0 THEN EmptyBuffer ELSE Next1(g[m - 1], m)]
      <3> DEFINE G == [m \in 0..k |-> IF m = 0 THEN EmptyBuffer ELSE Next1(g[m - 1], m)]
      <3>1. \A m \in 0..k : g[m] = G[m]
        BY <2>3
      <3>2. DOMAIN g = 0..k /\ DOMAIN G = 0..k /\ g = [m \in 0..k |-> g[m]]
        OBVIOUS
      <3> HIDE DEF g, Next1
      <3>3. G = [m \in 0..k |-> G[m]]
        OBVIOUS
      <3> HIDE DEF G
      <3>4. g = G
        BY <3>1, <3>2, <3>3
      <3> QED
        BY <3>4 DEF G
    <2>5. Fills(given, k, g)
      BY <2>4 DEF Fills
    <2> QED
      BY <1>1, <2>5
  <1> QED
    BY <1>2, <1>3

\* The buffer is filled from the empty one, event by event.
LEMMA FilledStep ==
  ASSUME NEW given, Len(given) \in Nat
  PROVE  LET f == Filled(EmptyBuffer, given) IN
         /\ f[0] = EmptyBuffer
         /\ \A n \in 1..Len(given) :
              f[n] = IF given[n] = NoEvent THEN f[n - 1] ELSE Add(f[n - 1], given[n])
  <1> DEFINE f == Filled(EmptyBuffer, given)
  <1>1. Fills(given, Len(given), f)
    <2>1. f = CHOOSE g : Fills(given, Len(given), g)
      BY DEF Filled, Fills
    <2> QED
      BY <2>1, FillsExists
  <1> HIDE DEF f
  <1>2. f[0] = EmptyBuffer
    BY <1>1 DEF Fills
  <1>3. \A n \in 1..Len(given) :
          f[n] = IF given[n] = NoEvent THEN f[n - 1] ELSE Add(f[n - 1], given[n])
    <2>1. PICK k \in Nat : k = Len(given)
      OBVIOUS
    <2> DEFINE Body(m) == IF m = 0 THEN EmptyBuffer
                          ELSE IF given[m] = NoEvent THEN f[m - 1] ELSE Add(f[m - 1], given[m])
    <2>2. f = [m \in 0..k |-> Body(m)]
      BY <1>1, <2>1 DEF Fills
    <2>3. ASSUME NEW m \in 1..k PROVE f[m] = Body(m) /\ m # 0
      <3> HIDE DEF Body
      <3>1. m \in 0..k /\ m # 0
        BY <2>1
      <3> QED
        BY <2>2, <3>1
    <2> QED
      BY <2>1, <2>3
  <1> QED
    BY <1>2, <1>3 DEF f
\* How many of the first n numbers are in a set.
LEMMA LastPlace ==
  ASSUME NEW n \in Nat \ {0}, NEW T \in SUBSET (1..n)
  PROVE  /\ IsFiniteSet(T) /\ Cardinality(T) \in Nat
         /\ Cardinality(T \cap (1 .. n - 1)) \in Nat
         /\ Cardinality(T) = Cardinality(T \cap (1 .. n - 1)) + (IF n \in T THEN 1 ELSE 0)
  <1> DEFINE U == T \cap (1 .. n - 1)
  <1>1. IsFiniteSet(1..n)
    BY FS_Interval
  <1>2. IsFiniteSet(T) /\ IsFiniteSet(U)
    <2>1. T \in SUBSET (1..n) /\ U \in SUBSET (1..n)
      OBVIOUS
    <2> HIDE DEF U
    <2> QED
      BY <1>1, <2>1, FS_Subset
  <1>3. Cardinality(T) \in Nat /\ Cardinality(U) \in Nat
    <2> HIDE DEF U
    <2> QED
      BY <1>2, FS_CardinalityType
  <1>4. n \notin U /\ (n \in T => T = U \cup {n}) /\ (n \notin T => T = U)
    <2>1. n \notin 1 .. n - 1 /\ \A i \in 1..n : i = n \/ i \in 1 .. n - 1
      OBVIOUS
    <2> QED
      BY <2>1
  <1> HIDE DEF U
  <1>5. Cardinality(U \cup {n}) = Cardinality(U) + 1
    BY <1>2, <1>4, FS_AddElement
  <1>6. Cardinality(T) = Cardinality(U) + (IF n \in T THEN 1 ELSE 0)
    <2>1. CASE n \in T
      BY <1>4, <1>5, <2>1
    <2>2. CASE n \notin T
      BY <1>3, <1>4, <2>2
    <2> QED
      BY <2>1, <2>2
  <1> QED
    BY <1>2, <1>3, <1>6 DEF U

\* The places of an event, and of events of some types, among the first n.
PlacesOf(s, n, e) == {i \in 1..n : s[i] = e}
PlacesWith(s, n, types) == {i \in 1..n : s[i].type \in types}
Space(s, n) ==
  Cardinality(PlacesWith(s, n, NoteTypes)) + 2 * Cardinality(PlacesWith(s, n, {"param_value"}))
AllTypes == NoteTypes \cup {"param_value"}

LEMMA PlacesStep ==
  ASSUME NEW s, NEW n \in Nat \ {0}
  PROVE  /\ \A e : /\ Cardinality(PlacesOf(s, n, e)) \in Nat
                   /\ Cardinality(PlacesOf(s, n - 1, e)) \in Nat
                   /\ Cardinality(PlacesOf(s, n, e)) =
                        Cardinality(PlacesOf(s, n - 1, e)) + (IF s[n] = e THEN 1 ELSE 0)
         /\ \A types :
              /\ Cardinality(PlacesWith(s, n, types)) \in Nat
              /\ Cardinality(PlacesWith(s, n - 1, types)) \in Nat
              /\ Cardinality(PlacesWith(s, n, types)) =
                   Cardinality(PlacesWith(s, n - 1, types)) + (IF s[n].type \in types THEN 1 ELSE 0)
  <1>0. n \in 1..n /\ 1 .. n - 1 \subseteq 1..n
    OBVIOUS
  <1>1. ASSUME NEW e
        PROVE  /\ Cardinality(PlacesOf(s, n, e)) \in Nat
               /\ Cardinality(PlacesOf(s, n - 1, e)) \in Nat
               /\ Cardinality(PlacesOf(s, n, e)) =
                    Cardinality(PlacesOf(s, n - 1, e)) + (IF s[n] = e THEN 1 ELSE 0)
    <2>1. /\ PlacesOf(s, n, e) \in SUBSET (1..n)
          /\ PlacesOf(s, n, e) \cap (1 .. n - 1) = PlacesOf(s, n - 1, e)
          /\ n \in PlacesOf(s, n, e) <=> s[n] = e
      BY <1>0 DEF PlacesOf
    <2>2. /\ Cardinality(PlacesOf(s, n, e)) \in Nat
          /\ Cardinality(PlacesOf(s, n, e) \cap (1 .. n - 1)) \in Nat
          /\ Cardinality(PlacesOf(s, n, e)) =
               Cardinality(PlacesOf(s, n, e) \cap (1 .. n - 1))
                 + (IF n \in PlacesOf(s, n, e) THEN 1 ELSE 0)
      BY <2>1, LastPlace
    <2> QED
      BY <2>1, <2>2
  <1>2. ASSUME NEW types
        PROVE  /\ Cardinality(PlacesWith(s, n, types)) \in Nat
               /\ Cardinality(PlacesWith(s, n - 1, types)) \in Nat
               /\ Cardinality(PlacesWith(s, n, types)) =
                    Cardinality(PlacesWith(s, n - 1, types))
                      + (IF s[n].type \in types THEN 1 ELSE 0)
    <2>1. /\ PlacesWith(s, n, types) \in SUBSET (1..n)
          /\ PlacesWith(s, n, types) \cap (1 .. n - 1) = PlacesWith(s, n - 1, types)
          /\ n \in PlacesWith(s, n, types) <=> s[n].type \in types
      BY <1>0 DEF PlacesWith
    <2> QED
      BY <2>1, LastPlace
  <1> QED
    BY <1>1, <1>2

LEMMA CountType ==
  ASSUME NEW S, NEW s \in Seq(S), NEW e
  PROVE  Count(s, e) \in Nat /\ Count(s, e) = Cardinality(PlacesOf(s, Len(s), e))
  <1>1. Len(s) \in Nat /\ DOMAIN s = 1..Len(s)
    OBVIOUS
  <1>2. PlacesOf(s, Len(s), e) \in SUBSET (1..Len(s)) /\ IsFiniteSet(1..Len(s))
    BY <1>1, FS_Interval DEF PlacesOf
  <1>3. Cardinality(PlacesOf(s, Len(s), e)) \in Nat
    BY <1>2, FS_Subset, FS_CardinalityType
  <1>4. {i \in DOMAIN s : s[i] = e} = PlacesOf(s, Len(s), e)
    BY <1>1 DEF PlacesOf
  <1> QED
    BY <1>3, <1>4 DEF Count

\* An event that is added is in the buffer once more, if there is room.
LEMMA AddContent ==
  ASSUME NEW b, b.list \in Seq(Events), b.fill \in 0..Capacity, NEW e \in Events
  PROVE  /\ Add(b, e).list \in Seq(Events) /\ Add(b, e).fill \in 0..Capacity
         /\ \A x \in Events :
              /\ Count(b.list, x) \in Nat /\ Count(Add(b, e).list, x) \in Nat
              /\ Count(Add(b, e).list, x) <= Count(b.list, x) + (IF x = e THEN 1 ELSE 0)
         /\ b.fill + Size(e) <= Capacity =>
              Add(b, e).fill = b.fill + Size(e) /\ Len(Add(b, e).list) = Len(b.list) + 1
  <1>0. Capacity \in Nat /\ Size(e) \in {1, 2}
    BY ProcessingAssumption DEF Size
  <1>1. PICK l, f : l = b.list /\ f = b.fill
    OBVIOUS
  <1>2. PICK z : z = Size(e) /\ z \in {1, 2}
    BY <1>0
  <1>3. \A x : Count(l, x) = Cardinality(PlacesOf(l, Len(l), x)) /\ Count(l, x) \in Nat
    BY <1>1, CountType
  <1>4. CASE z > Capacity - f
    <2>1. Add(b, e) = b
      BY <1>1, <1>2, <1>4 DEF Add
    <2>2. ~(f + z <= Capacity)
      BY <1>0, <1>1, <1>2, <1>4
    <2>3. \A x : Count(l, x) <= Count(l, x) + (IF x = e THEN 1 ELSE 0)
      BY <1>3
    <2> QED
      BY <1>1, <1>2, <1>3, <2>1, <2>2, <2>3
  <1>5. CASE ~(z > Capacity - f)
    <2> DEFINE m == Append(l, e)
    <2>1. Add(b, e) = [list |-> m, fill |-> f + z]
      BY <1>1, <1>2, <1>5 DEF Add
    <2>2. m \in Seq(Events) /\ Len(m) = Len(l) + 1 /\ Len(l) \in Nat /\ DOMAIN m = 1..Len(m)
      BY <1>1
    <2>3. m[Len(l) + 1] = e /\ \A i \in 1..Len(l) : m[i] = l[i]
      BY <1>1
    <2> HIDE DEF m
    <2>4. f + z \in 0..Capacity
      BY <1>0, <1>1, <1>2, <1>5
    <2>5. ASSUME NEW x
          PROVE  /\ Count(m, x) \in Nat
                 /\ Count(m, x) <= Count(l, x) + (IF x = e THEN 1 ELSE 0)
      <3>1. PlacesOf(m, Len(l), x) = PlacesOf(l, Len(l), x)
        BY <2>3 DEF PlacesOf
      <3>2. Count(m, x) = Cardinality(PlacesOf(m, Len(l) + 1, x))
        <4>1. {i \in DOMAIN m : m[i] = x} = PlacesOf(m, Len(l) + 1, x)
          BY <2>2 DEF PlacesOf
        <4> QED
          BY <4>1 DEF Count
      <3>3. /\ Cardinality(PlacesOf(m, Len(l) + 1, x)) \in Nat
            /\ Cardinality(PlacesOf(m, Len(l) + 1, x)) =
                 Cardinality(PlacesOf(m, Len(l), x)) + (IF m[Len(l) + 1] = x THEN 1 ELSE 0)
        <4>1. PICK k \in Nat \ {0} : k = Len(l) + 1
          BY <2>2
        <4>2. /\ Cardinality(PlacesOf(m, k, x)) \in Nat
              /\ Cardinality(PlacesOf(m, k - 1, x)) \in Nat
              /\ Cardinality(PlacesOf(m, k, x)) =
                   Cardinality(PlacesOf(m, k - 1, x)) + (IF m[k] = x THEN 1 ELSE 0)
          BY PlacesStep
        <4>3. k - 1 = Len(l)
          BY <2>2, <4>1
        <4> QED
          BY <4>1, <4>2, <4>3
      <3> QED
        BY <1>3, <2>3, <3>1, <3>2, <3>3
    <2> QED
      BY <1>1, <1>2, <1>3, <2>1, <2>2, <2>4, <2>5
  <1> QED
    BY <1>4, <1>5

\* What is in the buffer after n events.
SoFar(given, n, b) ==
  /\ b = [list |-> b.list, fill |-> b.fill]
  /\ b.list \in Seq(Events) /\ b.fill \in 0..Capacity
  /\ \A e \in Events : Count(b.list, e) <= Cardinality(PlacesOf(given, n, e))
  /\ Space(given, n) <= Capacity =>
       b.fill = Space(given, n) /\ Len(b.list) = Cardinality(PlacesWith(given, n, AllTypes))
LEMMA EmptySoFar == ASSUME NEW given PROVE SoFar(given, 0, EmptyBuffer)
  <1>1. /\ \A e : PlacesOf(given, 0, e) = {}
        /\ \A types : PlacesWith(given, 0, types) = {}
    BY DEF PlacesOf, PlacesWith
  <1>2. Space(given, 0) = 0 /\ Cardinality(PlacesWith(given, 0, AllTypes)) = 0
    BY <1>1, FS_EmptySet DEF Space
  <1>3. \A e : Count(<< >>, e) = 0 /\ Cardinality(PlacesOf(given, 0, e)) = 0
    <2> TAKE e
    <2>1. {i \in DOMAIN << >> : << >>[i] = e} = {}
      OBVIOUS
    <2> QED
      BY <1>1, <2>1, FS_EmptySet DEF Count
  <1>4. Capacity \in Nat
    BY ProcessingAssumption
  <1> QED
    BY <1>2, <1>3, <1>4 DEF SoFar, EmptyBuffer

\* An event more.
LEMMA StepSoFar ==
  ASSUME NEW given, NEW n \in Nat \ {0}, given[n] \in Events \cup {NoEvent},
         NEW b, SoFar(given, n - 1, b)
  PROVE  SoFar(given, n, IF given[n] = NoEvent THEN b ELSE Add(b, given[n]))
  <1>1. /\ b.list \in Seq(Events) /\ b.fill \in 0..Capacity
        /\ \A e \in Events : Count(b.list, e) <= Cardinality(PlacesOf(given, n - 1, e))
        /\ Space(given, n - 1) <= Capacity =>
             /\ b.fill = Space(given, n - 1)
             /\ Len(b.list) = Cardinality(PlacesWith(given, n - 1, AllTypes))
    BY DEF SoFar
  <1>2. PICK e : e = given[n]
    OBVIOUS
  <1>3. \A x : /\ Cardinality(PlacesOf(given, n, x)) \in Nat
               /\ Cardinality(PlacesOf(given, n - 1, x)) \in Nat
               /\ Cardinality(PlacesOf(given, n, x)) =
                    Cardinality(PlacesOf(given, n - 1, x)) + (IF e = x THEN 1 ELSE 0)
    BY <1>2, PlacesStep
  <1>4. \A types :
          /\ Cardinality(PlacesWith(given, n, types)) \in Nat
          /\ Cardinality(PlacesWith(given, n - 1, types)) \in Nat
          /\ Cardinality(PlacesWith(given, n, types)) =
               Cardinality(PlacesWith(given, n - 1, types)) + (IF e.type \in types THEN 1 ELSE 0)
    BY <1>2, PlacesStep
  <1>5. Space(given, n - 1) \in Nat /\ Space(given, n) \in Nat
    BY <1>4 DEF Space
  <1>6. CASE e = NoEvent
    <2>1. e.type \notin AllTypes /\ e.type \notin NoteTypes /\ e.type # "param_value"
      BY <1>6 DEF NoEvent, AllTypes, NoteTypes
    <2>2. e \notin Events
      BY <2>1 DEF Events, ParamEvents, NoteEvents, AllTypes
    <2>3. /\ \A x \in Events : Cardinality(PlacesOf(given, n, x)) = Cardinality(PlacesOf(given, n - 1, x))
          /\ \A types : e.type \notin types =>
               Cardinality(PlacesWith(given, n, types)) = Cardinality(PlacesWith(given, n - 1, types))
      BY <1>3, <1>4, <2>2
    <2>4. Space(given, n) = Space(given, n - 1)
      BY <2>1, <2>3 DEF Space
    <2>5. SoFar(given, n, b)
      BY <1>1, <2>1, <2>3, <2>4 DEF SoFar
    <2> QED
      BY <1>2, <1>6, <2>5
  <1>7. CASE e \in Events
    <2>1. /\ e # NoEvent /\ e.type \in AllTypes
          /\ \/ e.type \in NoteTypes /\ e.type # "param_value" /\ Size(e) = 1
             \/ e.type \notin NoteTypes /\ e.type = "param_value" /\ Size(e) = 2
      <3>1. CASE e \in ParamEvents
        BY <3>1 DEF ParamEvents, NoEvent, AllTypes, NoteTypes, Size
      <3>2. CASE e \in NoteEvents
        <4>1. e.type \in NoteTypes
          BY <3>2 DEF NoteEvents
        <4>2. e.type # "param_value" /\ e.type # "none"
          BY <4>1 DEF NoteTypes
        <4>3. NoEvent.type = "none"
          BY DEF NoEvent
        <4>4. e # NoEvent
          BY <4>2, <4>3
        <4>5. e.type \in AllTypes /\ Size(e) = 1
          BY <4>1, <4>2 DEF AllTypes, Size
        <4> QED
          BY <4>1, <4>2, <4>4, <4>5
      <3> QED
        BY <1>7, <3>1, <3>2 DEF Events
    <2>2. PICK c : c = Add(b, e)
      OBVIOUS
    <2>3. /\ c.list \in Seq(Events) /\ c.fill \in 0..Capacity
          /\ \A x \in Events :
               /\ Count(b.list, x) \in Nat /\ Count(c.list, x) \in Nat
               /\ Count(c.list, x) <= Count(b.list, x) + (IF x = e THEN 1 ELSE 0)
          /\ b.fill + Size(e) <= Capacity =>
               c.fill = b.fill + Size(e) /\ Len(c.list) = Len(b.list) + 1
      BY <1>1, <1>7, <2>2, AddContent
    <2>4. ASSUME NEW x \in Events
          PROVE  Count(c.list, x) <= Cardinality(PlacesOf(given, n, x))
      <3>1. CASE x = e
        BY <1>1, <1>3, <2>3, <3>1
      <3>2. CASE x # e
        BY <1>1, <1>3, <2>3, <3>2
      <3> QED
        BY <3>1, <3>2
    <2>5. Space(given, n) = Space(given, n - 1) + Size(e)
      <3>1. PICK a1, a2, c1, c2 :
              /\ a1 = Cardinality(PlacesWith(given, n - 1, NoteTypes))
              /\ a2 = Cardinality(PlacesWith(given, n, NoteTypes))
              /\ c1 = Cardinality(PlacesWith(given, n - 1, {"param_value"}))
              /\ c2 = Cardinality(PlacesWith(given, n, {"param_value"}))
        OBVIOUS
      <3>2. /\ a1 \in Nat /\ a2 \in Nat /\ a2 = a1 + (IF e.type \in NoteTypes THEN 1 ELSE 0)
            /\ c1 \in Nat /\ c2 \in Nat /\ c2 = c1 + (IF e.type \in {"param_value"} THEN 1 ELSE 0)
        BY <1>4, <3>1
      <3>3. a2 + 2 * c2 = a1 + 2 * c1 + Size(e)
        BY <2>1, <3>2
      <3> QED
        BY <3>1, <3>3 DEF Space
    <2>6. Cardinality(PlacesWith(given, n, AllTypes)) = Cardinality(PlacesWith(given, n - 1, AllTypes)) + 1
      BY <1>4, <2>1
    <2>7. Space(given, n) <= Capacity =>
            c.fill = Space(given, n) /\ Len(c.list) = Cardinality(PlacesWith(given, n, AllTypes))
      <3>1. Capacity \in Nat /\ Size(e) \in {1, 2}
        BY <2>1, ProcessingAssumption
      <3> QED
        BY <1>1, <1>5, <2>3, <2>5, <2>6, <3>1
    <2>8. c = [list |-> c.list, fill |-> c.fill]
      <3>1. b = [list |-> b.list, fill |-> b.fill]
        BY DEF SoFar
      <3>2. c = b \/ c = [list |-> Append(b.list, e), fill |-> b.fill + Size(e)]
        BY <2>2 DEF Add
      <3> QED
        BY <3>1, <3>2
    <2>9. SoFar(given, n, c)
      BY <2>3, <2>4, <2>7, <2>8 DEF SoFar
    <2> QED
      BY <1>2, <2>1, <2>2, <2>9
  <1> QED
    BY <1>2, <1>6, <1>7

\* What is in the buffer after all events.
LEMMA FilledContent ==
  ASSUME NEW given \in Seq(Events \cup {NoEvent})
  PROVE  SoFar(given, Len(given), Filled(EmptyBuffer, given)[Len(given)])
  <1>1. PICK f : f = Filled(EmptyBuffer, given)
    OBVIOUS
  <1>2. PICK k \in Nat : k = Len(given)
    OBVIOUS
  <1>3. /\ f[0] = EmptyBuffer
        /\ \A n \in 1..k : f[n] = IF given[n] = NoEvent THEN f[n - 1] ELSE Add(f[n - 1], given[n])
    BY <1>1, <1>2, FilledStep
  <1> DEFINE T == {n \in 0..k : ~SoFar(given, n, f[n])}
  <1>4. T = {}
    <2> SUFFICES ASSUME T # {} PROVE FALSE
      OBVIOUS
    <2>1. PICK n \in T : \A m \in T : n <= m
      <3>1. T \in SUBSET Nat
        OBVIOUS
      <3> HIDE DEF T
      <3> QED
        BY <3>1, Least
    <2>2. n # 0
      BY <1>3, <2>1, EmptySoFar
    <2>3. n \in 1..k /\ n \in Nat \ {0} /\ n - 1 \in 0..k /\ n - 1 \notin T
      BY <2>1, <2>2
    <2>4. SoFar(given, n - 1, f[n - 1])
      BY <2>3
    <2>5. given[n] \in Events \cup {NoEvent}
      BY <1>2, <2>3
    <2>6. SoFar(given, n, IF given[n] = NoEvent THEN f[n - 1] ELSE Add(f[n - 1], given[n]))
      BY <2>3, <2>4, <2>5, StepSoFar
    <2>7. SoFar(given, n, f[n])
      BY <1>3, <2>3, <2>6
    <2> QED
      BY <2>1, <2>7
  <1>5. SoFar(given, k, f[k])
    BY <1>4
  <1> QED
    BY <1>1, <1>2, <1>5

\* A sorted list has the length of the list, and each event at most as often.
LEMMA SortedContent ==
  ASSUME NEW s \in Seq(Events), NEW t \in Sorted(s)
  PROVE  /\ t \in Seq(Events) /\ Len(t) = Len(s) /\ InTimeOrder(t)
         /\ \A e : Count(t, e) <= Count(s, e)
  <1>1. PICK p \in [DOMAIN s -> DOMAIN s] :
          /\ \A i, j \in DOMAIN s : i # j => p[i] # p[j]
          /\ t = [i \in DOMAIN s |-> s[p[i]]]
    BY DEF Sorted
  <1>2. InTimeOrder(t)
    BY DEF Sorted
  <1>3. DOMAIN s = 1..Len(s) /\ Len(s) \in Nat
    OBVIOUS
  <1>4. t \in [1..Len(s) -> Events]
    BY <1>1, <1>3
  <1>5. t \in Seq(Events) /\ Len(t) = Len(s)
    BY <1>3, <1>4
  <1>6. ASSUME NEW e PROVE Count(t, e) <= Count(s, e)
    <2> DEFINE A == {i \in DOMAIN t : t[i] = e}
               B == {i \in DOMAIN s : s[i] = e}
               f == [i \in A |-> p[i]]
    <2>1. f \in [A -> B]
      BY <1>1
    <2>2. \A i, j \in A : f[i] = f[j] => i = j
      BY <1>1
    <2>3. f \in Injection(A, B)
      <3> HIDE DEF f, A, B
      <3> QED
        BY <2>1, <2>2 DEF Injection, IsInjective
    <2>4. IsFiniteSet(B)
      <3>1. B \in SUBSET (1..Len(s)) /\ IsFiniteSet(1..Len(s))
        BY <1>3, FS_Interval
      <3> HIDE DEF B
      <3> QED
        BY <3>1, FS_Subset
    <2>5. Cardinality(A) <= Cardinality(B)
      <3> HIDE DEF f, A, B
      <3> QED
        BY <2>3, <2>4, FS_Injection
    <2> QED
      BY <2>5 DEF Count
  <1> QED
    BY <1>2, <1>5, <1>6
\* The host's data are converted into events, or into none.
LEMMA ConvertedType ==
  ASSUME NEW d \in Data
  PROVE  Converted(d) \in Seq(Events \cup {NoEvent})
  <1>1. PICK a \in Nat, c \in Nat : d.points \in [1..a -> Points] /\ d.notes \in [1..c -> Notes]
    BY ProcessingAssumption DEF Data, SeqOf
  <1>2. \A o \in Offsets : fix_offset(o) \in Times
    BY DEF fix_offset, Times
  <1>3. ASSUME NEW p \in Points PROVE ConvertedPoint(p) \in Events \cup {NoEvent}
    BY <1>2, <1>3 DEF ConvertedPoint, Points, Events, ParamEvents
  <1>4. ASSUME NEW n \in Notes PROVE ConvertedNote(n) \in Events \cup {NoEvent}
    BY <1>2, <1>4 DEF ConvertedNote, Notes, Events, NoteEvents
  <1>5. [i \in DOMAIN d.points |-> ConvertedPoint(d.points[i])] \in Seq(Events \cup {NoEvent})
    <2>1. [i \in DOMAIN d.points |-> ConvertedPoint(d.points[i])] \in [1..a -> Events \cup {NoEvent}]
      BY <1>1, <1>3
    <2> QED
      BY <2>1
  <1>6. [i \in DOMAIN d.notes |-> ConvertedNote(d.notes[i])] \in Seq(Events \cup {NoEvent})
    <2>1. [i \in DOMAIN d.notes |-> ConvertedNote(d.notes[i])] \in [1..c -> Events \cup {NoEvent}]
      BY <1>1, <1>4
    <2> QED
      BY <2>1
  <1> DEFINE x == [i \in DOMAIN d.points |-> ConvertedPoint(d.points[i])]
             y == [i \in DOMAIN d.notes |-> ConvertedNote(d.notes[i])]
  <1>7. x \in Seq(Events \cup {NoEvent}) /\ y \in Seq(Events \cup {NoEvent})
    BY <1>5, <1>6
  <1>8. Converted(d) = x \o y
    BY DEF Converted
  <1> HIDE DEF x, y
  <1> QED
    BY <1>7, <1>8

\* What the plugin finds in its input when a call begins.
LEMMA ProcessInput ==
  ASSUME process
  PROVE  InputOfThisCall'
  <1>1. data' \in Data /\ InputFilled(data')
    BY DEF process
  <1>2. PICK given : given = Converted(data')
    OBVIOUS
  <1>3. PICK b : b = Filled(EmptyBuffer, given)[Len(given)]
    OBVIOUS
  <1>4. given \in Seq(Events \cup {NoEvent})
    BY <1>1, <1>2, ConvertedType
  <1>5. SoFar(given, Len(given), b)
    BY <1>3, <1>4, FilledContent
  <1>6. PICK t \in Sorted(b.list) : input_events' = [b EXCEPT !.list = t]
    BY <1>1, <1>2, <1>3 DEF InputFilled
  <1>7. b.list \in Seq(Events)
    BY <1>5 DEF SoFar
  <1>8. /\ t \in Seq(Events) /\ Len(t) = Len(b.list) /\ InTimeOrder(t)
        /\ \A e : Count(t, e) <= Count(b.list, e)
    BY <1>7, SortedContent
  <1>9. DOMAIN given = 1..Len(given) /\ Len(given) \in Nat
    BY <1>4
  <1>10. /\ \A e : Count(given, e) = Cardinality(PlacesOf(given, Len(given), e))
         /\ \A types : Of(given, types) = PlacesWith(given, Len(given), types)
    BY <1>9 DEF Count, Of, PlacesOf, PlacesWith
  <1>11. Needed(given) = Space(given, Len(given))
    BY <1>10 DEF Needed, Space
  <1>12. ASSUME NEW e \in Events PROVE Count(t, e) <= Count(given, e)
    <2>1. Count(b.list, e) <= Count(given, e) /\ Count(t, e) <= Count(b.list, e)
      BY <1>5, <1>8, <1>10 DEF SoFar
    <2>2. Count(t, e) \in Nat /\ Count(b.list, e) \in Nat /\ Count(given, e) \in Nat
      BY <1>4, <1>7, <1>8, CountType
    <2> QED
      BY <2>1, <2>2
  <1>13. Needed(given) <= Capacity =>
           Len(t) = Cardinality(Of(given, NoteTypes \cup {"param_value"}))
    BY <1>5, <1>8, <1>10, <1>11 DEF SoFar, AllTypes
  <1>14. input_events'.list = t
    <2>1. b = [list |-> b.list, fill |-> b.fill]
      BY <1>5 DEF SoFar
    <2>2. [b EXCEPT !.list = t].list = t
      BY <2>1
    <2> QED
      BY <1>6, <2>2
  <1>15. (LET given1 == Converted(data) IN
          /\ InTimeOrder(input_events.list)
          /\ \A e \in Events : Count(input_events.list, e) <= Count(given1, e)
          /\ Needed(given1) <= Capacity =>
               Len(input_events.list) = Cardinality(Of(given1, NoteTypes \cup {"param_value"})))'
    BY <1>2, <1>8, <1>12, <1>13, <1>14
  <1> QED
    BY <1>15 DEF InputOfThisCall
LEMMA StepInput == InputOfThisCall /\ [Next]_vars => InputOfThisCall'
  <1> SUFFICES ASSUME InputOfThisCall, [Next]_vars PROVE InputOfThisCall'
    OBVIOUS
  <1>a. ASSUME pc' \in {"process", "flush"} => UNCHANGED <<pc, data, input_events>>
        PROVE  InputOfThisCall'
    BY <1>a DEF InputOfThisCall
  <1>1. ASSUME NEW s \in Setups, setup_processing(s) PROVE InputOfThisCall'
    BY <1>1, <1>a DEF setup_processing, events
  <1>2. CASE activate
    BY <1>2, <1>a DEF activate, events
  <1>3. CASE deactivate
    BY <1>3, <1>a DEF deactivate, events
  <1>4. ASSUME NEW state \in BOOLEAN, set_processing(state) PROVE InputOfThisCall'
    BY <1>4, <1>a DEF set_processing, events
  <1>5. CASE process
    BY <1>5, ProcessInput
  <1>6. ASSUME NEW e \in Events, Push(e) PROVE InputOfThisCall'
    BY <1>6, <1>a DEF Push
  <1>7. CASE PluginReturns
    BY <1>7, <1>a DEF PluginReturns
  <1>8. CASE Convert
    BY <1>8, <1>a DEF Convert, BeginTransfer, Transfer, ProcessReturns, events
  <1>9. CASE UNCHANGED vars
    BY <1>9, <1>a DEF vars, events
  <1> QED
    BY <1>1, <1>2, <1>3, <1>4, <1>5, <1>6, <1>7, <1>8, <1>9 DEF Next, Setup, Plugin

\* The events that the plugin reads are in the order of their times, none more
\* often than the host passed it to this very call, and all are there when there
\* is room for all, whatever the host passes and however large the buffer is
\* (process_parameters_before).
THEOREM InputAlwaysOfThisCall == Spec => []InputOfThisCall
  <1>1. Init => InputOfThisCall
    BY DEF Init, InputOfThisCall
  <1> QED
    BY <1>1, StepInput, PTL DEF Spec
=============================================================================
