--------------------------- MODULE ProcessBuffers ---------------------------
(***************************************************************************)
(* The audio buffers of a process call: the memory that is allocated at    *)
(* activation for the cached ports (allocate_buffers in ct_component.cpp), *)
(* and what process makes of the host's buses before and after it calls    *)
(* the plugin (prepare_processing_buffers and release_processing_buffers   *)
(* in ct_audio_processor.cpp).                                             *)
(*                                                                         *)
(* The plugin's inputs are copies of the host's channels in temporary      *)
(* memory, its outputs are the host's own memory; a channel the host does  *)
(* not have reads a common zero buffer and writes to a common trash        *)
(* buffer.  Channels are renumbered by speaker.  Samples are left out.     *)
(* Memory is counted in bytes, as a 64-bit build lays it out.              *)
(***************************************************************************)
EXTENDS PortCaches, BumpAllocator

CONSTANTS
  Buses,           \* buses a host may pass: channels that it has, and silent ones
  Blocks,          \* block sizes of a set-up
  MaxFrames        \* bound on the frames of a call, besides the block size

ASSUME ProcessBuffersAssumption ==
  /\ \A b \in Buses : b.has \in Seq(BOOLEAN) /\ b.silent \subseteq Nat
  /\ Blocks \subseteq Nat \ {0} /\ MaxFrames \in Nat

AudioBufferSize == 32      \* sizeof(clap_audio_buffer)
PointerSize     == 8       \* sizeof(void *)

VARIABLES
  block,       \* frames the buffers were allocated for
  data,        \* the host's data of the process call
  at,          \* the entry of the plan, or the output port, that is next
  inputs,      \* channel pointers of the plugin's input ports
  outputs,     \* channel pointers of its output ports
  constant,    \* constant_mask of its input ports
  plugin_mask, \* constant_mask that the plugin left in its output ports
  silence      \* channel_silence_bitset of the host's output buses

pointers == <<inputs, outputs, constant>>
results  == <<plugin_mask, silence>>
vars     == <<pc, cache, block, data, at, pointers, results, allocator>>

NoData == [nframes |-> 0, real |-> 4, inputs |-> << >>, outputs |-> << >>]

Init ==
  /\ CachesInit
  /\ block = 0
  /\ data = NoData /\ at = 1
  /\ inputs = << >> /\ outputs = << >> /\ constant = << >>
  /\ plugin_mask = << >> /\ silence = << >>
  /\ AllocatorInit

\* The component's creation, and the host's choice of a configuration, which
\* VST3 and CLAP allow while the component is not active.
ports_change ==
  /\ CachesNext
  /\ UNCHANGED <<block, data, at, pointers, results, allocator>>

-----------------------------------------------------------------------------
(***************************************************************************)
(* Activation.                                                             *)
(***************************************************************************)
TotalOf(sizes) == FoldLeft(LAMBDA total, size : total + size, 0, sizes)

FloatSize == IF CanDo64 THEN 8 ELSE 4

\* The memory that the two lists of ports are thought to need.
dynamic_capacity(frames) ==
  LET List(list)     == pad_size(Len(list) * AudioBufferSize)
      Arrays(list)   == [p \in DOMAIN list |-> pad_size(list[p].count * PointerSize)]
      Channels(list) == [p \in DOMAIN list |-> list[p].count * pad_size(frames * FloatSize)]
  IN List(ports.inputs) + TotalOf(Channels(ports.inputs)) + TotalOf(Arrays(ports.inputs))
       + List(ports.outputs) + TotalOf(Arrays(ports.outputs))

allocate_buffers ==
  /\ pc = "inactive"
  /\ \E frames \in Blocks :
       /\ block' = frames
       /\ cap' = dynamic_capacity(frames)
  /\ pc' = "idle"
  /\ UNCHANGED <<cache, data, at, pointers, results, top, blocks>>

deallocate_buffers ==
  /\ pc = "idle"
  /\ block' = 0 /\ cap' = 0
  /\ pc' = "inactive"
  /\ UNCHANGED <<cache, data, at, pointers, results, top, blocks>>

-----------------------------------------------------------------------------
(***************************************************************************)
(* A process call.                                                         *)
(***************************************************************************)
\* The host's data: it may have fewer buses than the plugin has ports, fewer
\* channels, and channels without memory.
DataSet ==
  {d \in [nframes : 0..MaxFrames, real : {4, FloatSize},
          inputs : SeqOf(Buses, Len(ports.inputs)),
          outputs : SeqOf(Buses, Len(ports.outputs))] : d.nframes <= block}

\* The host's channel c of the bus for port p.
HasBus(buses, p)     == p <= Len(buses)
Present(buses, p, c) == HasBus(buses, p) /\ c < Len(buses[p].has) /\ buses[p].has[c + 1]

\* Silent channels are those the host flags whose first sample is zero.
SilentInput(p, c) ==
  \/ ~Present(data.inputs, p, c) \/ data.nframes < 1
  \/ c \in data.inputs[p].silent

\* A call of process with status "started": a new allocator on the memory.
process(d) ==
  /\ pc = "idle"
  /\ data' = d
  /\ construct(cap)
  /\ inputs' = [p \in DOMAIN ports.inputs |-> [c \in 0 .. ports.inputs[p].count - 1 |-> <<"null">>]]
  /\ outputs' = [p \in DOMAIN ports.outputs |-> [c \in 0 .. ports.outputs[p].count - 1 |-> <<"null">>]]
  /\ constant' = [p \in DOMAIN ports.inputs |-> {}]
  /\ plugin_mask' = [p \in DOMAIN ports.outputs |-> {}]
  /\ silence' = [p \in DOMAIN d.outputs |-> d.outputs[p].silent]
  /\ at' = 1
  /\ pc' = "prepare"
  /\ UNCHANGED <<cache, block>>

\* What prepare does, in order: the array of ports, and for each port its
\* array of pointers and its channels; first the inputs, then the outputs.
Entry(kind, p, c) == [kind |-> kind, port |-> p, channel |-> c]

PortEntries(array, channel, list) ==
  FlattenSeq([p \in DOMAIN list |->
    <<Entry(array, p, 0)>> \o [c \in 1 .. list[p].count |-> Entry(channel, p, c - 1)]])

Plan ==
  <<Entry("inputs", 0, 0)>> \o PortEntries("input pointers", "input", ports.inputs)
    \o <<Entry("outputs", 0, 0)>> \o PortEntries("output pointers", "output", ports.outputs)

\* The memory that an entry asks for; other entries ask for none.
Allocates(e) == e.kind # "output" /\ (e.kind = "input" => Present(data.inputs, e.port, e.channel))

SizeOf(e) ==
  CASE e.kind = "inputs"          -> Len(ports.inputs) * AudioBufferSize
    [] e.kind = "outputs"         -> Len(ports.outputs) * AudioBufferSize
    [] e.kind = "input pointers"  -> ports.inputs[e.port].count * PointerSize
    [] e.kind = "output pointers" -> ports.outputs[e.port].count * PointerSize
    [] OTHER                      -> data.nframes * data.real

InputSet(p, c, pointer) ==
  LET mapped == remappers.inputs[p].v3_to_clap[c] IN
  /\ inputs' = [inputs EXCEPT ![p][mapped] = pointer]
  /\ constant' = IF SilentInput(p, c) THEN [constant EXCEPT ![p] = @ \cup {mapped}]
                 ELSE constant

\* Mutant: a channel that the host lacks is skipped.
OutputSet_PresentOnly(p, c) ==
  LET mapped == remappers.outputs[p].v3_to_clap[c] IN
  outputs' = IF Present(data.outputs, p, c)
             THEN [outputs EXCEPT ![p][mapped] = <<"host", p, c>>] ELSE outputs

OutputSet(p, c) ==
  LET mapped == remappers.outputs[p].v3_to_clap[c] IN
  outputs' = [outputs EXCEPT ![p][mapped] =
                IF Present(data.outputs, p, c) THEN <<"host", p, c>> ELSE <<"trash">>]

Prepared(e) ==
  \/ /\ e.kind = "input"
     /\ InputSet(e.port, e.channel,
                 IF Allocates(e) THEN <<"copy", e.port, e.channel, top>> ELSE <<"zero">>)
     /\ UNCHANGED outputs
  \/ e.kind = "output" /\ OutputSet(e.port, e.channel) /\ UNCHANGED <<inputs, constant>>
  \/ e.kind \notin {"input", "output"} /\ UNCHANGED pointers

\* One entry.  Memory that is not there fails an assertion.
prepare ==
  /\ pc = "prepare" /\ at <= Len(Plan)
  /\ LET e == Plan[at] IN
     \/ /\ Allocates(e) => Fits(SizeOf(e))
        /\ IF Allocates(e) THEN alloc(SizeOf(e)) ELSE UNCHANGED allocator
        /\ Prepared(e)
        /\ at' = at + 1 /\ UNCHANGED pc
     \/ /\ Allocates(e) /\ ~Fits(SizeOf(e))
        /\ pc' = "assertion failed"
        /\ UNCHANGED <<at, pointers, allocator>>
  /\ UNCHANGED <<cache, block, data, results>>

\* The plugin processes; it may mark output channels as constant.
plugin_process ==
  /\ pc = "prepare" /\ at > Len(Plan)
  /\ \E marked \in SUBSET UNION {{p} \X DOMAIN outputs[p] : p \in DOMAIN outputs} :
       plugin_mask' = [p \in DOMAIN outputs |-> {c \in DOMAIN outputs[p] : <<p, c>> \in marked}]
  /\ at' = 1
  /\ pc' = "release"
  /\ UNCHANGED <<cache, block, data, pointers, silence, allocator>>

\* Mutant: the plugin's mask is read at the host's number.
SilentOutputs_HostNumber(p) ==
  {c \in 0 .. ports.outputs[p].count - 1 :
     \/ ~Present(data.outputs, p, c) \/ data.nframes < 1
     \/ c \in plugin_mask[p]}

\* A constant channel of the plugin is silent when its first sample is zero,
\* which the mask stands for here.
SilentOutputs(p) ==
  {c \in 0 .. ports.outputs[p].count - 1 :
     \/ ~Present(data.outputs, p, c) \/ data.nframes < 1
     \/ remappers.outputs[p].v3_to_clap[c] \in plugin_mask[p]}

\* One output port.  The bus of the host is written whether there is one or
\* not.
release ==
  /\ pc = "release" /\ at <= Len(ports.outputs)
  /\ \/ /\ HasBus(data.outputs, at)
        /\ silence' = [silence EXCEPT ![at] = SilentOutputs(at)]
        /\ at' = at + 1 /\ UNCHANGED pc
     \/ /\ ~HasBus(data.outputs, at)
        /\ pc' = "null written"
        /\ UNCHANGED <<at, silence>>
  /\ UNCHANGED <<cache, block, data, pointers, plugin_mask, allocator>>

process_returns ==
  /\ pc = "release" /\ at > Len(ports.outputs)
  /\ pc' = "idle"
  /\ data' = NoData /\ at' = 1
  /\ inputs' = << >> /\ outputs' = << >> /\ constant' = << >>
  /\ plugin_mask' = << >> /\ silence' = << >>
  /\ construct(cap)
  /\ UNCHANGED <<cache, block>>

\* After an assertion, a null write or a fatal error the program has ended.
Ended ==
  /\ pc \in {"fatal", "assertion failed", "null written"}
  /\ UNCHANGED vars

Next ==
  \/ ports_change \/ allocate_buffers \/ deallocate_buffers
  \/ \E d \in DataSet : process(d)
  \/ prepare \/ plugin_process \/ release \/ process_returns
  \/ Ended

Spec == Init /\ [][Next]_vars
-----------------------------------------------------------------------------
(***************************************************************************)
(* Properties.                                                             *)
(***************************************************************************)
\* The types of the buffers' state.
RemappersOK(r, list) ==
  /\ DOMAIN r = DOMAIN list
  /\ \A p \in DOMAIN r : r[p].valid =>
       /\ r[p].arrangement \subseteq 0..31
       /\ r[p].v3_to_clap \in [0 .. list[p].count - 1 -> 0 .. list[p].count - 1]

TypeOK ==
  /\ pc \in {"created", "fatal", "inactive", "idle", "prepare", "release",
             "assertion failed", "null written"}
  /\ selected \in DOMAIN plugin.layouts
  /\ ports.inputs \in Seq(Port) /\ ports.outputs \in Seq(Port)
  /\ RemappersOK(remappers.inputs, ports.inputs)
  /\ RemappersOK(remappers.outputs, ports.outputs)
  /\ block \in Blocks \cup {0}
  /\ data \in DataSet \cup {NoData}
  /\ at \in Nat \ {0}
  /\ AllocatorOK

\* The moment at which the plugin's process is called.
PluginCalled == pc = "prepare" /\ at > Len(Plan)

\* The ports that the plugin has, whatever the component believes.
Real == plugin.layouts[selected]

\* The plugin may use each of its channels for all frames of the call: every
\* pointer is set, and every copy of an input is in a block of the allocator
\* with room for the frames.  That blocks are apart is BlocksApart.
ChannelMemory ==
  PluginCalled =>
    /\ DOMAIN inputs = DOMAIN Real.inputs /\ DOMAIN outputs = DOMAIN Real.outputs
    /\ \A p \in DOMAIN inputs : \A c \in 0 .. Real.inputs[p].count - 1 :
         LET pointer == inputs[p][c] IN
         /\ pointer # <<"null">>
         /\ pointer[1] = "copy" =>
              \E b \in Range(blocks) :
                b.at = pointer[4] /\ b.size = data.nframes * data.real
    /\ \A p \in DOMAIN outputs : \A c \in 0 .. Real.outputs[p].count - 1 :
         outputs[p][c] # <<"null">>

\* Which of the host's channels belongs to the plugin's channel c of a port:
\* the one that comes at the place of its speaker among the port's speakers.
Rank(port, c) ==
  LET speakers == Speakers(port.count, port.map)
  IN Cardinality({d \in 1 .. port.count : speakers[d] < speakers[c + 1]})

\* A channel keeps its speaker: what the plugin reads as a speaker is what
\* the host sent for that speaker, and what it writes goes to the host's
\* channel of that speaker, whatever order the plugin's map has
\* (ct_channel_remapper).
SpeakersKept ==
  PluginCalled =>
    /\ \A p \in DOMAIN inputs : \A c \in DOMAIN inputs[p] :
         LET h == Rank(Real.inputs[p], c) IN
         IF Present(data.inputs, p, h)
         THEN \E b \in Range(blocks) : inputs[p][c] = <<"copy", p, h, b.at>>
         ELSE inputs[p][c] = <<"zero">>
    /\ \A p \in DOMAIN outputs : \A c \in DOMAIN outputs[p] :
         LET h == Rank(Real.outputs[p], c) IN
         outputs[p][c] = IF Present(data.outputs, p, h) THEN <<"host", p, h>>
                                                        ELSE <<"trash">>

\* Silence is reported for the right speaker in both directions: a channel of
\* the plugin is marked constant when the host's channel of its speaker is
\* silent or missing, and a bit of the host's bus is set when the plugin left
\* the channel of that speaker constant.
SilenceKept ==
  /\ PluginCalled =>
       \A p \in DOMAIN inputs : \A c \in DOMAIN inputs[p] :
         c \in constant[p] <=> SilentInput(p, Rank(Real.inputs[p], c))
  /\ pc = "release" /\ at > Len(ports.outputs) =>
       \A p \in DOMAIN outputs : \A c \in DOMAIN outputs[p] :
         LET h == Rank(Real.outputs[p], c) IN
         Present(data.outputs, p, h) /\ data.nframes > 0 =>
           (h \in silence[p] <=> c \in plugin_mask[p])

\* The memory of an active component is enough for every call: no assertion
\* on an allocation fails (the comment in allocate_buffers: "calculate the
\* required amount of pointer-bump memory").
MemorySuffices == pc # "assertion failed"
=============================================================================
