----------------------------- MODULE Processing -----------------------------
(***************************************************************************)
(* The audio side of a component: activation, start and stop of            *)
(* processing, and the events that go through one process call             *)
(* (ct_component::set_active, ct_audio_processor, ct_events_buffer and the *)
(* two converters of ct_event_conversion.cpp).                             *)
(*                                                                         *)
(* The host sets up and activates on one thread and processes on another;  *)
(* it does not overlap set_active with process, but turns processing on    *)
(* and off while a call of process is under way.  VST3 has one call to say *)
(* that it wants processing, from any thread; CLAP wants start_processing  *)
(* and stop_processing on the audio thread, so set_processing leaves a     *)
(* note that the next process call acts upon.                              *)
(*                                                                         *)
(* A call of process has steps: the events of the host are converted into  *)
(* the input buffer, the plugin processes (or flushes) and pushes events   *)
(* into the output buffer, and these are converted one by one into the     *)
(* host's event list and parameter queues.  Values, samples and the audio  *)
(* buffers are left out; buffer space is counted in units.                 *)
(***************************************************************************)
EXTENDS Integers, Sequences, FiniteSets, SequencesExt

CONSTANTS
  Ids,            \* parameter identifiers that host and plugin may use
  Params,         \* those in the component's cache of parameters
  Offsets,        \* sample offsets of events
  Blocks,         \* block sizes a host may set up
  DefaultBlock,   \* block size of m_setup in a new component
  Capacity,       \* units of an events buffer
  MaxPoints,      \* bounds: parameter points of the host in a call,
  MaxNotes,       \*   note events of the host in a call,
  MaxPushes,      \*   events that the plugin pushes in a call,
  MaxLoad,        \*   all of these together
  CanDo64,        \* m_can_do_64bit of the audio ports
  HasParams,      \* does the plugin have the params extension
  HostFlushesStop \* does the host process once more before it deactivates

ASSUME ProcessingAssumption ==
  /\ Params \subseteq Ids
  /\ Offsets \subseteq Int
  /\ Blocks \subseteq Nat \ {0} /\ DefaultBlock \in Nat \ {0}
  /\ Capacity \in Nat
  /\ MaxPoints \in Nat /\ MaxNotes \in Nat /\ MaxPushes \in Nat /\ MaxLoad \in Nat
  /\ CanDo64 \in BOOLEAN /\ HasParams \in BOOLEAN /\ HostFlushesStop \in BOOLEAN

V3_TRUE  == 0
V3_FALSE == 1

NoteTypes == {"note_on", "note_off", "note_expression"}
Times == {IF o > 0 THEN o ELSE 0 : o \in Offsets}

\* CLAP events; a note has no parameter.  A parameter event is the larger.
NoParam == "no parameter"
ParamEvents == [type : {"param_value"}, id : Ids, time : Times]
NoteEvents  == [type : NoteTypes, id : {NoParam}, time : Times]
Events == ParamEvents \cup NoteEvents
Size(e) == IF e.type = "param_value" THEN 2 ELSE 1

EmptyBuffer == [list |-> << >>, fill |-> 0]

Setups == [sample_size : {32, 64}, block : Blocks]

\* What the host passes to process: points in the order in which the converter
\* reads them, notes (of "other" types too), and where output may go.
Points == [id : Ids, offset : Offsets]
Notes  == [type : NoteTypes \cup {"other"}, offset : Offsets]
Load(d) == Len(d.points) + Len(d.notes)
Data ==
  {d \in [points : SeqOf(Points, MaxPoints), notes : SeqOf(Notes, MaxNotes),
           output_params : BOOLEAN, output_events : BOOLEAN] : Load(d) <= MaxLoad}
NoData == [points |-> << >>, notes |-> << >>,
           output_params |-> FALSE, output_events |-> FALSE]

VARIABLES
  setup,             \* m_setup
  active,            \* m_active
  buffer_block,      \* frames the audio buffers were allocated for; 0: none
  should_process,    \* m_should_process
  processing_status, \* m_processing_status
  plugin,            \* what the plugin was last told to be
  input_events,      \* m_input_events
  output_events,     \* m_output_events
  queues,            \* m_queues of the output converter
  pc,                \* where process is: "idle" when not called
  data,              \* the host's data of the call, NoData between calls
  at,                \* the output event to convert next
  sent,              \* what was given to the host's lists in this call
  asked,             \* how often add_param_data was called for a parameter
  stop_seen          \* has process been called since processing was turned off

life   == <<setup, active, buffer_block, plugin>>
events == <<input_events, output_events>>
output == <<queues, at, sent, asked>>
vars   == <<life, should_process, processing_status, events, pc, data, output, stop_seen>>

NoQueues == [p \in Params |-> "null"]

Init ==
  /\ setup = [sample_size |-> 32, block |-> DefaultBlock]
  /\ active = FALSE /\ buffer_block = 0
  /\ should_process = FALSE /\ processing_status = "stopped"
  /\ plugin = "inactive"
  /\ input_events = EmptyBuffer /\ output_events = EmptyBuffer
  /\ queues = NoQueues
  /\ pc = "idle" /\ data = NoData
  /\ at = 1 /\ sent = << >> /\ asked = [p \in Params |-> 0]
  /\ stop_seen = TRUE

-----------------------------------------------------------------------------
(***************************************************************************)
(* Set-up and activation.                                                  *)
(***************************************************************************)
\* The 64-bit answer is a C++ bool returned as a result.
can_process_sample_size(size) ==
  CASE size = 32 -> V3_TRUE
    [] size = 64 -> (IF CanDo64 THEN 1 ELSE 0)
    [] OTHER     -> V3_FALSE

\* The set-up is kept when "!can_process_sample_size" does not hold.
setup_processing(s) ==
  /\ pc = "idle" /\ ~active
  /\ setup' = IF can_process_sample_size(s.sample_size) # 0 THEN s ELSE setup
  /\ UNCHANGED <<active, buffer_block, plugin, should_process, processing_status, events,
                 pc, data, output, stop_seen>>

\* The plugin may refuse to be activated.  Buffers and converters are new.
activate ==
  /\ pc = "idle" /\ ~active
  /\ active' = TRUE
  /\ buffer_block' = setup.block
  /\ plugin' = "active"
  /\ queues' = NoQueues
  /\ UNCHANGED <<setup, should_process, processing_status, events, pc, data, at, sent,
                 asked, stop_seen>>

\* The host turned processing off before.
deactivate ==
  /\ pc = "idle" /\ active /\ ~should_process
  /\ HostFlushesStop => stop_seen
  /\ active' = FALSE
  /\ buffer_block' = 0
  /\ plugin' = "inactive"
  /\ UNCHANGED <<setup, should_process, processing_status, events, pc, data, output, stop_seen>>

\* Also while process runs.
set_processing(state) ==
  /\ active /\ should_process # state
  /\ should_process' = state
  /\ stop_seen' = FALSE
  /\ UNCHANGED <<life, processing_status, events, pc, data, output>>

-----------------------------------------------------------------------------
(***************************************************************************)
(* The beginning of process: start or stop the plugin.                     *)
(***************************************************************************)
\* Mutants: an error is not cleared; stopped without a word to the plugin.
StartOrStop_KeepsError ==
  \/ /\ should_process /\ processing_status = "stopped"
     /\ \/ processing_status' = "started" /\ plugin' = "processing"
        \/ processing_status' = "errored" /\ UNCHANGED plugin
  \/ /\ should_process /\ processing_status # "stopped"
     /\ UNCHANGED <<processing_status, plugin>>
  \/ /\ ~should_process
     /\ IF processing_status = "started"
        THEN plugin' = "active" /\ processing_status' = "stopped"
        ELSE UNCHANGED <<plugin, processing_status>>

StartOrStop_NotTold ==
  \/ /\ should_process /\ processing_status = "stopped"
     /\ \/ processing_status' = "started" /\ plugin' = "processing"
        \/ processing_status' = "errored" /\ UNCHANGED plugin
  \/ /\ should_process /\ processing_status # "stopped"
     /\ UNCHANGED <<processing_status, plugin>>
  \/ /\ ~should_process
     /\ processing_status' = "stopped" /\ UNCHANGED plugin

StartOrStop ==
  \/ /\ should_process /\ processing_status = "stopped"
     /\ \/ processing_status' = "started" /\ plugin' = "processing"
        \/ processing_status' = "errored" /\ UNCHANGED plugin
  \/ /\ should_process /\ processing_status # "stopped"
     /\ UNCHANGED <<processing_status, plugin>>
  \/ /\ ~should_process
     /\ plugin' = IF processing_status = "started" THEN "active" ELSE plugin
     /\ processing_status' = "stopped"

-----------------------------------------------------------------------------
(***************************************************************************)
(* Input: the host's points and notes are converted in turn and added to   *)
(* the buffer while there is room; then the buffer is sorted by time, by a *)
(* sort that does not keep the order of equals.                            *)
(***************************************************************************)
fix_offset(offset) == IF offset > 0 THEN offset ELSE 0

\* ct_events_buffer::add: an event that does not fit is dropped.
Add(buffer, e) ==
  IF Size(e) > Capacity - buffer.fill THEN buffer
  ELSE [list |-> Append(buffer.list, e), fill |-> buffer.fill + Size(e)]

\* Parameters that are not in the cache, and events of other types, are skipped.
NoEvent == [type |-> "none", id |-> NoParam, time |-> 0]

ConvertedPoint(p) ==
  IF p.id \in Params THEN [type |-> "param_value", id |-> p.id, time |-> fix_offset(p.offset)]
  ELSE NoEvent

ConvertedNote(n) ==
  IF n.type \in NoteTypes THEN [type |-> n.type, id |-> NoParam, time |-> fix_offset(n.offset)]
  ELSE NoEvent

Converted(d) ==
  [i \in DOMAIN d.points |-> ConvertedPoint(d.points[i])]
    \o [i \in DOMAIN d.notes |-> ConvertedNote(d.notes[i])]

\* The buffer after each of the events, from what is in it before the first.
Filled(buffer, given) ==
  LET filled[n \in 0..Len(given)] ==
        IF n = 0 THEN buffer
        ELSE IF given[n] = NoEvent THEN filled[n - 1] ELSE Add(filled[n - 1], given[n])
  IN filled

InTimeOrder(s) == \A i, j \in DOMAIN s : i < j => s[i].time <= s[j].time

\* The orders in which the sort may leave the list s.
Sorted(s) ==
  {t \in {[i \in DOMAIN s |-> s[p[i]]] : p \in {p \in [DOMAIN s -> DOMAIN s] :
                                          \A i, j \in DOMAIN s : i # j => p[i] # p[j]}} :
     InTimeOrder(t)}

\* Mutant: the events of the previous call stay.
InputFilled_NotCleared(d) ==
  LET given  == Converted(d)
      filled == Filled(input_events, given)[Len(given)]
  IN
  \E s \in Sorted(filled.list) : input_events' = [filled EXCEPT !.list = s]

InputFilled(d) ==
  LET given  == Converted(d)
      filled == Filled(EmptyBuffer, given)[Len(given)]
  IN
  \E s \in Sorted(filled.list) : input_events' = [filled EXCEPT !.list = s]

\* The queues that a call got from the host are the host's again when it
\* returned: in the next call they are stale.
Aged == [p \in Params |-> IF queues[p] = "current" THEN "stale" ELSE queues[p]]

process ==
  /\ pc = "idle" /\ active
  /\ StartOrStop
  /\ data' \in Data
  /\ InputFilled(data')
  /\ output_events' = EmptyBuffer
  /\ pc' = IF processing_status' = "started" THEN "process"
           ELSE IF HasParams THEN "flush" ELSE "returned"
  /\ queues' = Aged
  /\ stop_seen' = ~should_process
  /\ UNCHANGED <<setup, active, buffer_block, should_process, at, sent, asked>>

-----------------------------------------------------------------------------
(***************************************************************************)
(* The plugin's part of the call.                                          *)
(***************************************************************************)
Push(e) ==
  /\ pc \in {"process", "flush"}
  /\ Len(output_events.list) < MaxPushes
  /\ Load(data) + Len(output_events.list) < MaxLoad
  /\ output_events' = Add(output_events, e)
  /\ UNCHANGED <<life, should_process, processing_status, input_events, pc, data, output,
                 stop_seen>>

PluginReturns ==
  /\ pc \in {"process", "flush"}
  /\ pc' = "returned"
  /\ UNCHANGED <<life, should_process, processing_status, events, data, output, stop_seen>>

-----------------------------------------------------------------------------
(***************************************************************************)
(* Output (event_converter_clap_to_v3::transfer).                          *)
(***************************************************************************)
\* Mutant: the queues of the previous call stay.
BeginTransfer_KeepsQueues ==
  /\ pc = "returned"
  /\ pc' = "transfer"
  /\ UNCHANGED <<life, should_process, processing_status, events, data, output, stop_seen>>

BeginTransfer ==
  /\ pc = "returned"
  /\ pc' = "transfer"
  /\ queues' = IF data.output_params THEN NoQueues ELSE queues
  /\ UNCHANGED <<life, should_process, processing_status, events, data, at, sent, asked,
                 stop_seen>>

\* An event record of the host is zeroed and its type never set: whatever the
\* plugin's event was, the host reads type 0.
V3TypeOf(type) == "note_on"

TransferNote(e) ==
  /\ sent' = IF data.output_events
             THEN Append(sent, [type |-> V3TypeOf(e.type), of |-> e, queue |-> "none"])
             ELSE sent
  /\ UNCHANGED <<queues, asked>>

\* add_point to a queue, unless the host had none to give.
AddPoint(e, queue) ==
  sent' = IF queue = "invalid" THEN sent
          ELSE Append(sent, [type |-> "param_value", of |-> e, queue |-> queue])

\* The first event of a parameter asks the host for a queue, which the host
\* may refuse; the others use what the first got.
TransferParam(e) ==
  IF ~data.output_params \/ e.id \notin Params THEN UNCHANGED <<sent, queues, asked>>
  ELSE IF queues[e.id] = "null"
  THEN \E queue \in {"current", "invalid"} :
         /\ queues' = [queues EXCEPT ![e.id] = queue]
         /\ asked' = [asked EXCEPT ![e.id] = @ + 1]
         /\ AddPoint(e, queue)
  ELSE AddPoint(e, queues[e.id]) /\ UNCHANGED <<queues, asked>>

\* Mutant: the loop ends at a parameter without a queue.
Transfer_GivesUp ==
  /\ pc = "transfer" /\ at <= Len(output_events.list)
  /\ LET e == output_events.list[at] IN
     /\ IF e.type = "param_value" THEN TransferParam(e) ELSE TransferNote(e)
     /\ at' = IF e.id \in Params /\ queues'[e.id] = "invalid"
              THEN Len(output_events.list) + 1 ELSE at + 1
  /\ UNCHANGED <<life, should_process, processing_status, events, pc, data, stop_seen>>

Transfer ==
  /\ pc = "transfer" /\ at <= Len(output_events.list)
  /\ LET e == output_events.list[at] IN
       IF e.type = "param_value" THEN TransferParam(e) ELSE TransferNote(e)
  /\ at' = at + 1
  /\ UNCHANGED <<life, should_process, processing_status, events, pc, data, stop_seen>>

ProcessReturns ==
  /\ pc = "transfer" /\ at > Len(output_events.list)
  /\ pc' = "idle"
  /\ data' = NoData
  /\ at' = 1 /\ sent' = << >> /\ asked' = [p \in Params |-> 0]
  /\ UNCHANGED <<life, should_process, processing_status, events, queues, stop_seen>>

-----------------------------------------------------------------------------
Setup == \E s \in Setups : setup_processing(s)
Plugin == (\E e \in Events : Push(e)) \/ PluginReturns
Convert == BeginTransfer \/ Transfer \/ ProcessReturns

Next ==
  \/ Setup \/ activate \/ deactivate
  \/ \E state \in BOOLEAN : set_processing(state)
  \/ process \/ Plugin \/ Convert

Spec == Init /\ [][Next]_vars

(***************************************************************************)
(* Fairness.  An active component is processed again and again, also when  *)
(* processing is off (the note on request_flush in ct_host.cpp), and a     *)
(* call that began ends.                                                   *)
(***************************************************************************)
Fairness == WF_vars(process) /\ WF_vars(PluginReturns) /\ WF_vars(Convert)

FairSpec == Spec /\ Fairness
-----------------------------------------------------------------------------
(***************************************************************************)
(* Properties.                                                             *)
(***************************************************************************)
\* The types of the audio state; a buffer holds no more than it has room for.
BufferOK(buffer) ==
  /\ buffer.list \in Seq(Events)
  /\ buffer.fill \in 0..Capacity

TypeOK ==
  /\ setup \in [sample_size : {32, 64}, block : Blocks \cup {DefaultBlock}]
  /\ active \in BOOLEAN /\ should_process \in BOOLEAN /\ stop_seen \in BOOLEAN
  /\ buffer_block \in Blocks \cup {DefaultBlock, 0}
  /\ processing_status \in {"stopped", "started", "errored"}
  /\ plugin \in {"inactive", "active", "processing"}
  /\ BufferOK(input_events) /\ BufferOK(output_events)
  /\ queues \in [Params -> {"null", "invalid", "current", "stale"}]
  /\ pc \in {"idle", "process", "flush", "returned", "transfer"}
  /\ data \in Data \cup {NoData}
  /\ at \in 1..Len(output_events.list) + 1
  /\ asked \in [Params -> Nat]

Count(s, e)  == Cardinality({i \in DOMAIN s : s[i] = e})
Of(s, types) == {i \in DOMAIN s : s[i].type \in types}
Needed(s)    == Cardinality(Of(s, NoteTypes)) + 2 * Cardinality(Of(s, {"param_value"}))

\* The events that the plugin reads are those that the host passed to this
\* very call, in the order of their times; none is there twice or from an
\* earlier call, and one is missing only when there was no room for all
\* (process_parameters_before).
InputOfThisCall ==
  pc \in {"process", "flush"} =>
    LET given == Converted(data) IN
    /\ InTimeOrder(input_events.list)
    /\ \A e \in Events : Count(input_events.list, e) <= Count(given, e)
    /\ Needed(given) <= Capacity =>
         Len(input_events.list) = Cardinality(Of(given, NoteTypes \cup {"param_value"}))

\* Points go to queues that the host gave for this call, and the host is
\* asked at most once in a call for the queue of a parameter: never to a
\* pointer kept from an earlier call, in which a host may have passed no
\* parameter list at all (event_converter_clap_to_v3::transfer).
QueuesOfThisCall ==
  /\ \A i \in DOMAIN sent : sent[i].queue # "stale"
  /\ \A p \in Params : asked[p] <= 1

\* What the host is to get: notes when it takes events, and points when it
\* gave a queue for the parameter.
Wanted(e) ==
  IF e.type = "param_value" THEN e.id \in Params /\ queues[e.id] = "current"
                            ELSE data.output_events

WantedBefore(n) == {i \in 1 .. n - 1 : Wanted(output_events.list[i])}

\* Output arrives complete and in the plugin's order: when the call returns
\* the host has every note and every point whose queue it was willing to give.
OutputComplete ==
  pc = "transfer" /\ at > Len(output_events.list) =>
    /\ Len(sent) = Cardinality(WantedBefore(at))
    /\ \A i \in WantedBefore(at) :
         sent[Cardinality(WantedBefore(i)) + 1].of = output_events.list[i]

\* What the component believes is what the plugin was told: it starts, stops
\* and deactivates the plugin in turn, if the host calls process once more
\* before it deactivates.
StatusTrue == processing_status = "started" <=> plugin = "processing"

\* The plugin's process is called between start_processing and
\* stop_processing only (the comment at the head of process).
ProcessesWhatStarted == pc = "process" => plugin = "processing"

\* The component ends up as the host wants it: stopped, after an error too,
\* when the host leaves processing off, and started or in error when it leaves
\* it on.
FollowsHost ==
  /\ <>[](active /\ ~should_process) => <>[](processing_status = "stopped")
  /\ <>[](active /\ should_process) => <>[](processing_status # "stopped")
=============================================================================
