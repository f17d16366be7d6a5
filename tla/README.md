# Verification of claptrap

claptrap wraps a CLAP plugin as a VST3 plugin. A host talks VST3 to a component
(`sources/v3/ct_component.cpp` and the interfaces around it), which talks CLAP to
the plugin. Most of it is translation; what is hard lies in a few places, and the
models are about these:

* a **run loop** with a thread of its own, for hosts that offer none on X11;
* the **timers and descriptors** of a component, which are carried from one run
  loop to another while callbacks run;
* the **state of processing and the events of a call**, where two threads of the
  host, a plugin and buffers of limited size meet;
* the **ports, the memory and the channels** of a call;
* the **things the host lends**, its handlers and the editor's frame, used by
  callbacks on either of two threads that both count as CLAP's main thread;
* the **parameters**, their index, values, units and states, which are known by three
  names each (identifier, index, position) and read at different times;
* the **lifetimes** of objects that stand for one another, and of the plugin's
  graphics;
* the **texts**, which change their encoding on the way.

Sections: [inventory](#inventory), [modules](#modules), [runs](#runs),
[bounds](#bounds), [fairness](#fairness), [proofs](#proofs),
[where the code differs](#where-the-code-differs-from-what-it-says),
[not modelled](#not-modelled), [plan](#plan).

## Inventory

File names are relative to `src/sources/v3/` unless they say otherwise.

### Threaded run loop (`ct_host_loop_posix.cpp`, `ct_threads.cpp`)

*State.* One object per process (`s_unique_instance`, a reference count), a pipe
of messages, and a background thread with its poll array, its slots by handler
(`m_slot_by_handler`), the slots by descriptor (`m_slot_by_fd`, which points into
the former) and the timer descriptors by period with a use count (`m_timer_fds`).
Each request has a completion (mutex, condition, result) on its sender's stack.

*Operations.* `register_event_handler`, `unregister_event_handler`,
`register_timer`, `unregister_timer`, each a message and a wait; `instance`, `ref`,
`unref`; the thread's poll, `process_message`, dispatch and `completion::notify`.
Callbacks run with `main_thread_guard` held, a recursive mutex that
`set_active`, `setup_processing`, `set_component_handler` and the CLAP host
callbacks take as well.

*Hard.* Requests arrive between the entries of one poll round; the poll array is
older than the slots; timers of one period share a blocking descriptor; waiting
threads, the guard and the thread itself may wait for each other; a completion is
notified by another thread than the one that owns its memory.

*Correct when* a handler is called only while it is registered, and again and
again for as long as it is; every request gets its own answer; the tables agree.

### Host loop (`ct_host_loop.cpp`) with the component's life and the editor

*State.* Slots of timers and descriptors, each `pending` or `registered`;
`m_runloop`; in the component `m_initialized`, the idle timer and
`m_flag_sched_plugin_callback`; the editor.

*Operations.* `register_timer`, `unregister_timer`, `register_fd`,
`unregister_fd`, `set_run_loop`; `initialize`, `terminate`, the destructors;
`create_view`, `attached`, `removed` and the view's destructor, which install the
frame's loop or the threaded one; `request_callback`, `on_reserved_timer`.

*Hard.* None of these functions takes the guard, so callbacks of the threaded loop
run between any two of their steps: before a slot is stored, between leaving one
loop and joining the next. Each registration may be refused. The plugin's gui may
fail after the loop was switched.

*Correct when* slots and loops agree after every function, no loop keeps a handler
of a slot that is gone, callbacks come from the right thread, and a requested
callback is made by whichever loop is in charge.

### Processing (`ct_audio_processor.cpp`, `ct_events.cpp`, `ct_event_conversion.cpp`, `set_active`)

*State.* `m_setup`, `m_active`, `m_should_process`, `m_processing_status`; two
event buffers of fixed capacity; the output converter's table of queues
(`m_queues`), whose pointers belong to the host.

*Operations.* `setup_processing`, `set_active`, `set_processing`, `process`, and
inside it the conversion of input, the plugin's call (`process` or `flush`), and
the conversion of output.

*Hard.* VST3 asks for processing from any thread and at any time, CLAP's start and
stop belong to the audio thread: the wish is recorded and carried out by the next
call. The input arrives in an order that is not that of time and may exceed the
buffer. The host may refuse a queue, for one parameter and not for another.

*Correct when* the plugin is told what the host wants, and only processes when it
was started; it reads the events of this call, in order; the host gets all that it
can take.

### Ports and audio buffers (`ct_component_caches.cpp`, `ct_audio_processor.cpp`, `allocate_buffers`, `../utility/ct_bump_allocator.cpp`, `ct_channel_mapping.cpp`)

*State.* The plugin's configurations and which is selected; the ports of that one,
cached, with a permutation of channels each; memory of a capacity computed at
activation; an allocator on it for each call.

*Operations.* `cache_audio_port_configs`, `cache_audio_ports`,
`set_bus_arrangements`, `get_bus_arrangement`, `configure`, `allocate_buffers`,
`deallocate_buffers`, `prepare_processing_buffers`, `release_processing_buffers`,
`alloc`, `free`.

*Hard.* To read a configuration it must be selected, so the scan leaves the plugin
somewhere else, and some configurations are dropped on the way. The capacity is
computed by one piece of code and spent by another; buses, channels and their
memory may be missing; two permutations apply, in two directions, and bits of
silence go through both.

*Correct when* the cache is what the plugin has selected and what the host was
told, each channel of the plugin has memory of its own and keeps its speaker and
its silence, and the capacity is enough.

### Controller (`ct_edit_controller.cpp`, `ct_host.cpp`, `ct_plug_view.cpp`, `terminate`)

*State.* `m_handler` and `m_handler2` with a reference on each; `m_editor`, which
is none, and `m_editor_frame`; the view's reference count; `m_param_value_cache`;
the guard.

*Operations.* `set_component_handler`; the plugin's `request_restart`,
`latency.changed`, `params.rescan`, `state.mark_dirty`, `gui.request_resize`;
`sync_parameter_values_to_controller_from_plugin`, from `rescan` and from
`set_state`; `set_parameter_normalised`; `create_view`, `attached`, `removed`,
the view's `unref` with its hook; `initialize`, `terminate`.

*Hard.* The plugin calls its host from callbacks of the threaded loop while the
host's own thread is in one of its functions. Some of these hold the guard, others
(`terminate`, `attached`, `removed`, `set_state`, `request_resize`) do not, and
rely on the wait for the loop instead.

*Correct when* nobody is called who was given back, references balance, the host
hears of new values when the controller shows them, and every wait ends.

### Parameters, units and states (`ct_component_caches.cpp`, `ct_edit_controller.cpp`, `ct_unit_description.cpp`, `ct_stream.cpp`, `clap_id_map.hpp`, `clap_helpers.cpp`)

*State.* The list of parameters with an index by identifier, a table for the low
identifiers and a hash table for the others; `m_param_value_cache` by index; the
units made so far with a map by path; the selected unit.

*Operations.* `cache_params`, the synchronisation, `params.rescan`,
`get_parameter_normalised`, `set_parameter_normalised`, the conversions from and to
plain values and texts, `get_parameter_info` with `get_or_create_module_unit`,
`select_unit`, `get_state`, `set_state` of the component and of the controller with
the two stream adapters.

*Hard.* The list is read once and the values again and again, while the plugin may
have dropped a parameter; units appear while the host asks for parameters, in its
order; streams give less than was asked for, or fail in the middle; stepped values are
shared out over a normalised range.

*Correct when* an identifier finds its own index and value, the host reads back what it
set, units form the tree of the module paths whoever asks first, a text stands for the
value that is shown, and a state that was loaded shows.

### Lifetimes (`ct_component.cpp`, `ct_plug_view.cpp`, `ct_plugin_factory.cpp`, `ct_wrapper.cpp`, `ct_host_loop_posix.cpp`, the interfaces)

*State.* The module's entry, the factory's host context; the reference counts of
components, of contexts, of editors, of loops; the plugin's graphics and their size.

*Operations.* `ModuleEntry`, `ModuleExit`, `set_host_context`, `create_instance`,
`query_interface`, `ref` and `unref` of components and of the interfaces that hand on to
them, `initialize`, `terminate`, the destructors; `create_view`, the same for editors and
their content scale, `attached`, `removed`, `get_size`, `on_size`,
`check_size_constraint`, `gui.request_resize`; `instance` and the loop's `unref`.

*Hard.* An object answers to five interfaces with one count; the last reference may be
given back by another thread; `terminate` drops a reference that is not the component's;
a failure in the middle of `attached` must undo what was done; `get_size` makes graphics
for a moment when there are none.

*Correct when* counts are those who hold, nothing that is held is gone, nothing stays
behind, and graphics come and go in pairs with sizes that both sides agree on.

### Texts (`ct_plugin_factory.cpp`, `ct_edit_controller.cpp`, `ct_host.cpp`, `../utility/unicode_helpers.hpp`, `../utility/url_helpers.cpp`, `src/thirdparty/utf`)

*State.* None between calls; a conversion has its iterators and its array.

*Operations.* `UTF_copy`, which truncates: of class names and the support address in the
factory, and of parameter texts in `get_parameter_string_for_value` and
`get_parameter_value_for_string`, each of which has a `display` of 256 bytes beside the host's
128 units. `UTF_convert`, which measures first: of the host's name in `ct_host`'s constructor
(and of the module's path in the entry, on Windows). `URL_decode`.

*Hard.* Texts of plugins need not be well-formed, arrays of hosts are small, a class
name goes through three structures of two encodings, and a parameter's text to the host and
back.

*Correct when* no character is invented or cut in two, nothing is written past the end,
a text that was shown arrives whole when it is given back, and the two passes of a conversion
agree.

### How they interact

The host calls the component; the component's host loop sends requests to a run
loop and is called back by it through handlers whose callback data are slots. The
plugin calls the component as its CLAP host, from inside calls of the component as
well as from callbacks. Processing uses the caches and the memory of activation,
and shares with the rest only the guard. So the models compose along two edges:
`HostLoop` uses what `RunLoopService` promises and `RunLoop` is shown to implement,
and `ProcessBuffers` extends the allocator, the port caches and through them the
channel mapping it uses. `Controller` and `Lifetimes` have of the loop only that it is
waited for before it is replaced, which is what `HostLoop`'s requests amount to.
`Controller` has the values with all their interleavings and no conversion, `Parameters`
the conversions, the index and the list, on one thread; both have the synchronisation as
one step for each value.

Components that no module covers are listed under
[not modelled](#not-modelled); `PROJECT.json` has all of them.

## Modules

| module | models | extends, uses |
|---|---|---|
| `RunLoop` | the threaded loop, its thread, requests, guard | |
| `RunLoopService` | what a loop promises, in a few actions | |
| `RunLoopProofs` | theorems about `RunLoop`, among them that it implements `RunLoopService` | `RunLoop` |
| `HostLoop` | slots, `set_run_loop`, component life, editor | relies on `RunLoopService`'s promises |
| `HostLoopProofs` | theorems about it | `HostLoop` |
| `Processing` | activation, start and stop, events of a call | |
| `ProcessingProofs` | theorems about it | `Processing` |
| `BumpAllocator` | the allocator | |
| `ChannelMapping` | `ct_channel_remapper::configure` | |
| `PortCaches` | configurations, cached ports, `set_bus_arrangements` | `ChannelMapping` |
| `ProcessBuffers` | memory and channels of a call | `PortCaches`, `BumpAllocator` |
| `ProcessBuffersProofs` | theorems about the allocator, the port caches and the buffers of a call | `ProcessBuffers` |
| `Controller` | handlers, frame, editor, parameter values, guard | |
| `ControllerProofs` | theorems about it | `Controller` |
| `IdMap` | `clap_id_map`: the low identifiers in a table, the others hashed | |
| `Parameters` | the list, the index, values, units, states and streams | `IdMap`, `ParameterStore` |
| `ParameterStore` | what the controller promises of values, in three actions | |
| `ParametersProofs` | theorems about `Parameters` | `Parameters` |
| `Lifetimes` | references, the module, the components, editors and their sizes | |
| `LifetimesProofs` | theorems about it | `Lifetimes` |
| `Names` | UTF-8 and UTF-16, copies and conversions of texts, addresses | |
| `NamesProofs` | theorems about it | `Names` |
| `MC...` | constants for TLC | the module of that name |

Each definition keeps the name of the function or member it stands for, where it
stands for one; `PROJECT.json` maps it to its lines.

**RunLoop.** A caller's request is `Send` (write), `WaitSleep`, `WaitReturn`, with
spurious wakeups. The background thread is `Poll`, then for each entry that fired,
in the order of the array, either a message (one action for each case of
`process_message`, then `NotifyStore`, `NotifySignal`, `NotifyUnlock` as in
`completion::notify`), or the dispatch of a descriptor's slots (`DispatchFd`,
`DispatchSlot`, `LockGuard`, `CallbackReturn`, `DispatchDone`). The order of slots
in a set is that of addresses, so any. The kernel makes descriptors readable,
gives out descriptor numbers again after they were closed, and runs out of them.
`Destroy` and `Join` are the destructor; the reference count is abstracted to "no
request under way and nothing registered", which is what the references of
`ct_host_loop` amount to. `EnterGuard` and `LeaveGuard` are the host thread's
guarded sections.

**RunLoopService** has a set of registered handlers, the handler being called, and
for each thread a request and a reply. A request takes effect in one step, between
call and return and never during a callback. `RunLoop!ImplementsService` is the
refinement: `registered` is the handlers with a slot; a handler counts as running
while the thread holds the guard for it; a request is the thread's message in the
pipe; its reply is the answer under way or in the completion.

**HostLoop.** `m_posix_fd` and `m_timers` are one array of slots. A registration is
two steps: the loop takes (or refuses) the handler, then the slot is stored,
because the loop may call in between. `set_run_loop` is `Leave` for each slot,
`LeaveDone`, `Join` and `Mark` for each slot, `JoinDone`, `Switched`; `call` says
for whom. The request, its execution and its return, which `RunLoopService` has as
three steps, are one here: no other step of the host thread comes between them, and
callbacks that do are before or after the step. A component is put to one of the
`Uses`, which `use` has throughout a behaviour: whether loops may refuse a registration,
whether other components keep the threaded loop alive, and whether a timer's own callback
unregisters it (`UnregisterInCallback`, a one-shot timer of a plugin).

**Processing.** `process` is the beginning of a call up to the plugin: start or
stop, then all input converted, bounded and sorted (those steps are one action: no
other thread sees the buffer, and `set_processing`, which another thread may call
meanwhile, is read once, before). `Push` and `PluginReturns` are the plugin's,
`BeginTransfer`, `Transfer` (one event each) and `ProcessReturns` the output's.
Buffer space is counted in units: a parameter event takes two, any other one. A
refusal of `activate` changes nothing and is a stutter. `host_block` and
`stop_seen` are no state of the code; they record what the host did, for
properties and for the assumption `HostFlushesStop`.

**PortCaches.** `cache_audio_port_configs` is the scan as a whole, one thread with
the plugin: `Kept` is the configurations it keeps, `Inconsistent` what makes it drop
one, and the last that could be selected is selected afterwards.
`set_bus_arrangements(asked)` chooses the first that matches, selects it and reads
the ports again. `accepted` records what the host was last told; it is no state of
the code. A fatal error of `cache_audio_ports` is the end of the program.

**Controller.** `pc` has the place of the host's thread, `UI`, and of the threaded
loop's, `Bg`. A callback of the plugin is `PluginTells` (the guard, the handler is
read), for changed values the synchronisation with a step for each read and each
store, and `HandlerCalled`; `outer` says whether the guard was held before, the
mutex being recursive. The handler that was read is in `using`. `attached`,
`removed` and `terminate` are taken apart where they wait: `SetRunLoop` has the
guard "no callback of the threaded loop is under way". The values change under
`PluginChanges` and, from the audio thread, `Automation`; `changed` records which
did during a synchronisation and is no state of the code.

**Parameters.** The loops of the code are one step for each turn: a parameter of the
list, a value, a component of a path, a read or a write of a stream. Normalised values are
whole numbers of `Scale`ths and plain values are counted in the same unit, so that the
arithmetic is exact where that of the code is but for rounding. `told`, `saved` and
`restored` record what the host knows and are no state of the code. `ImplementsStore` maps
a controller to a store with one value for each parameter, in which the host reads the
nearest step to what it set.

**Lifetimes.** `stack` has the places to which a thread's functions return: the sequence
`instance`, `set_run_loop`, `unref`, which three functions execute, is the same three
steps wherever it is called. A step ends where the plugin or the host is called, or where
the loop is waited for (`running`). What hosts are careful about are `Manners`: the
properties need each of them (see [runs](#runs)).

**Names.** A text is built of pieces, which are characters or strays (code units that
spell nothing); `pieces` is what the text says and no state of the code, which has its
units and reads one code point in each step. So the properties can say which characters
must arrive without a decoder of their own. `stage` is the call under way. A class name and an
address go through their copies; a parameter's text begins as the plugin's
(`string_for_value`, in a `display` it fits in, as `value_to_text` writes it there), is copied
to the host's array, and is given back as it was shown; or it begins as one that the user typed
(`typed`, `value_for_string`), of any length; both are cut at what `display` has room for.
`UTF_convert` has the host's name.

**ProcessBuffers.** The call's preparation is a `Plan`, the list of what the loops
of `prepare_processing_buffers` do in order, and `prepare` does the next entry of
it: so the allocator's state is that of the code at each point. A pointer is what
it points to: `<<"copy", ...>>` with port, channel and block, `<<"host", ...>>` with bus and
channel, `<<"zero">>`, `<<"trash">>`. An assertion that fails, a fatal error and a write through the null bus
pointer are states in which the program has ended.

## Runs

| run | instance | asks |
|---|---|---|
| `loop_requests` | 2 callers, 1 event handler, 1 timer, requests also from guarded sections and from callbacks | safety of requests against dispatch, and the refinement |
| `loop_fair` | 1 caller, 1 event handler, 2 timers, 2 periods, 1 timer descriptor, requests from nowhere special | liveness of calls, timers and events |
| `host_editor` | 1 descriptor, 2 timers; among other components with loops that may refuse, or alone with one-shot timers | slots against loops, the right thread, nothing left behind, the callback request |
| `host_cleared` | one-shot timers among other components | *violated:* the destructor leaves nothing behind |
| `processing_calls` | up to 2 events of host and plugin in a call, 3 units of buffer, refused queues, failing start, `set_processing` at any time | what the plugin reads, what the host gets, and start and stop |
| `processing_unflushed` | a host that deactivates without another call | *violated:* only a started plugin processes |
| `buffers_audio` | plugins with different ports, maps and configurations, four buses | caches against plugin and host, memory, speakers, silence, the allocator |
| `buffers_memory` | stereo effect with a full block | *violated:* the memory is enough |
| `controller_guarded` | 2 handlers, one with `component_handler2`, 2 parameters, an editor with 2 references | what the host lends, values it is told of, waits that end |
| `parameters_values` | a stepped parameter with a low identifier, a continuous one with a high one that may be dropped, streams of short reads and failures | index, units, texts, states, and the refinement to a store |
| `lifetimes_counts` | 2 components, one with an editor, 2 interfaces, 2 threads, 1 context | counts, nothing dangles, nothing leaks, graphics in pairs, agreed sizes |
| `names_texts` | texts of up to 3 pieces out of 10 characters and 8 strays, arrays of 1, 3 and 6 units | which characters arrive |

What the properties say is in the comments above them; the ones that took most
thought are these.

* `ImplementsService` and `DispatchOnlyRegistered`: when `unregister` returned, the
  handler is not called and will not be. It holds because requests are processed by
  the thread that dispatches, between two descriptors and never between two slots.
* `OneAnswerPerRequest` and `CompletionAlive`: of the three places where a request
  can be (pipe, answer, completion) it is in exactly one, and the memory it is
  answered in still exists, spurious wakeups included.
* `TimerOperational`, with two timers on one descriptor: the second read blocks the
  thread until the next expiration, and nobody starves.
* `HandlersOwned`, `StatusTrue`, `CallsOnHostThread`: over any sequence of editors and
  refusals. They hold although `m_runloop` still names the old loop while slots join
  the new one.
* `CallbackServed`: the flag and the idle timer, over any number of switches.
* `OutputComplete`, `QueuesOfThisCall`: refused queues cost the events of their
  parameter and no others; no queue outlives its call.
* `FollowsHost`: whatever the plugin answers and whenever the host changes its mind,
  the plugin ends up as the host wants it.
* `CacheTrue`, `ArrangementHonoured`: the plugin's selection, the cache, the host's
  knowledge, over any scan and any requests.
* `HandlerAlive`, `EditorAlive`: what a callback has read is still lent when it is
  used. For handlers it is the guard with `set_component_handler`, the wait for the
  loop with `terminate`; for the frame it is the wait alone, and the order in which
  `attached` and `removed` set the frame and the loop.
* `ToldTrue`: with the exception of values that others changed meanwhile. That a
  synchronisation by `set_state`, which holds no guard, may overtake one of
  `rescan` and leave an older value is part of this exception (`ct_threads.hpp`:
  "partially mitigated").
* `UnitsTrue`: units are made on the way down a path, in whatever order the host asks for
  parameters; two modules that share a name, or a name that repeats below itself, are where
  a map by name in place of one by path would join them.
* `StateRestored`, `ImplementsStore`: after streams that failed half-way, with parameters
  that the plugin dropped meanwhile, between any two reads of a synchronisation.
* `CountsTrue`, `NothingDangles`, `NothingLeaks`, `GuiBalanced`, `SizeAgreed`: for hosts with
  all of the `Manners`. Without one of them TLC finds a counterexample, which is the code as
  it is: a host that keeps an editor over `terminate` has a count one too high
  (`CountsTrue`: `terminate` drops the reference); one that gives an editor back without
  `removed` leaves the plugin's graphics behind (`GuiBalanced`); one that gives a component
  back without `terminate` may have its plugin called by the loop after it was destroyed
  (`NothingDangles`); one that asks for a size in the middle of `attached` has graphics
  made twice (`GuiBalanced`).
* `NamesTrue`: through three copies, a name is the whole characters that fit, with a unit of
  no character costing the next one at most.
* `TextTrue`: a value's text is shown as far as the host has room, and then nothing of it is lost on
  the way back, because `display` is as large on the way back as on the way out; a typed text
  is cut at `display`, between characters; the host's name arrives whole.

Every property of a passing run has a mutant: a change to one definition, as a
plausible bug of the code would make it, under which the run finds the property
violated. Mutants stand next to what they change.

Each module has one type invariant, `TypeOK`, which the runs do not list: for `RunLoop`,
`HostLoop`, `Controller`, `BumpAllocator` and `Lifetimes` it is part of what is proved, and on the
instances of the runs TLC finds all of them true.

## Bounds

* `MaxTimerRef` (2): requests to register stop at this use count of a period, so
  that the counter, which leaks for period 0 (created as 1, released as 0), stays finite. With two timers a count
  of 2 is the shared descriptor; the third would add no new case of
  `create_timer_fd` or `release_timer_fd`.
* `loop_fair` has the periods 0 and 5: the first is where creation and release use
  different keys. One timer descriptor makes `timerfd_create` fail for the second
  period.
* `TimerCount` (2) is the number of live timers, the idle timer and one of the
  plugin; `FdCount` (1). Two slots that are carried over are enough for a slot
  already moved, one being moved, and one not yet moved. Three handlers let a
  handler of an old slot still be called when a new one is registered.
* `MaxPoints`, `MaxNotes`, `MaxPushes`, `MaxLoad` and `Capacity`: a call has up to two
  events, of the host and the plugin together, and three units of room: two parameter
  events are four units, so that the second does not fit, and a note and a parameter fit
  exactly. `MaxPushes` of 2 is a second event for a queue that was given, or refused.
* `Offsets`: one negative, which is clamped, and one positive.
* `MaxFrames` is 1 in `buffers_audio` (no frames and some frames are told apart,
  nothing else) and the full block in `buffers_memory`.
* `MapCapacity` (4) is the code's, `sizeof(ct_port_max_channels)`.
* In `controller_guarded`, two handlers are enough for an exchange and for a third
  value, none; two parameters for one that was synchronised and one that was not;
  two references (`MaxViewRefs`) for a view that survives one of them.
* `DefaultBlock` stands for the 1024 of a new component.
* `Uses`: the two of `host_editor` are those of most branches together; one-shot timers are
  alone there, because among others the loop they ask outlives the slot (the finding
  of `host_cleared`).
* `NumLowIDs` (1) puts one of the two identifiers in each part of the map. `Scale` (6) is
  a common multiple of 2 and 3: steps of a parameter of three values fall on and between
  the `Positions`. `ReadSizes` of up to 3 and `MaxRead` of 2 are reads of one value, of
  several, and of more than VST3 can express.
* `MaxRefs` (2) for a reference that is not the last; two `Faces`, one of which another
  thread may give back; `Fitting` of 1 and 3 leaves one width to be adjusted down, one that
  nothing fits below, and `Lefts` is not 0, where an edge differs from a width.
* `MaxPieces` (3): two strays that are cut off, and a character after them. The
  `Characters` are the ends of each range of both encodings, the `Strays` one of each way to
  spell nothing. `Rooms`: one unit, the terminator's, three and six, which cut some texts and
  not others; `Display` is twice of each, as 256 is of 128. `Leftovers` is what an array held before.

No run uses symmetry. Deadlock is checked everywhere but in `host_cleared`, where a loop
that waits for itself stops, and in `names_texts`, where a conversion ends.

## Fairness

* *RunLoop.* Weak fairness of what a running thread does next, of the return of
  callbacks, and of the clock (`TimerExpires`). Strong fairness of `LeaveGuard`:
  guarded sections are finite, and a thread in one may go in and out of requests.
  Strong fairness of `LockGuard`: the one assumption about a mutex. C++ promises no
  fairness of `std::recursive_mutex`; pthread's does not starve a waiter for ever in
  practice. Nothing is assumed of what callers ask for, nor of descriptors of
  plugins.
* *HostLoop.* Strong fairness of the host thread's next step (`Proceeds`): it waits
  for the threaded loop, which reads the pipe first in every round, so a request is
  served between callbacks. Strong fairness of callbacks of registered handlers is
  `TimerOperational` of `RunLoop` for the one loop and the VST3 host's promise for
  the other. `CallbackServed` has as its premise that the host lets the component
  be and that a loop took the idle timer.
* *Controller.* Weak fairness of what a thread does next in the component and of the
  lock of a picked callback; strong fairness of the plugin's return (it may be in
  and out of callbacks to the host) and of the host's steps in `attached`, `removed`
  and `terminate`. Strong fairness of the last stands for the loop's reading of
  requests before it calls anyone, as for `Proceeds`. `HostReturns` says nothing of
  plugins that register timers while the host's thread holds the guard: that is the
  deadlock below.
* *Parameters, Lifetimes, Names.* None: their properties are of safety.
* *Processing.* Weak fairness of the plugin's return and of each step of a
  conversion, and of `process`: VST3 hosts call a component regularly, also to flush
  parameters (the note in `ct_host.cpp` at `params__request_flush`).

## Proofs

`tlapm` checks all of `RunLoopProofs`, `ControllerProofs`, `HostLoopProofs`,
`ProcessingProofs`, `ProcessBuffersProofs`, `ParametersProofs`, `LifetimesProofs` and
`NamesProofs`, for every value of the constants that satisfies the modules'
assumptions. These say only that different things are different (threads, handlers, null,
numbers of descriptors, which are positive), that the allocator's descriptor is no larger
than the alignment, that a plugin without configurations has one list of ports, that a
list has no parameter twice and no parameter a minimum above its maximum, and, for texts,
that characters are code points of Unicode other than NUL with the units that `encode` gives
them, and that strays are units that `decode` gives no code point for: one that may begin a
piece, then only such as follow.

Five hypotheses are stated in the theorems that need them, and are not assumptions of a
module, because a host or a plugin may fail them:

| hypothesis | says | theorems |
|---|---|---|
| `HostFlushesStop` | hosts process once more before they deactivate | `StatusAlwaysTrue`, `OnlyStartedProcess` |
| `SpeakersApart` | no port names a speaker above the 32nd twice | `SpeakersAlwaysKept`, `SilenceAlwaysKept` |
| `FineScale` | normalised values are finer than a parameter's steps | `TextsAlwaysTrue` |
| `CarefulOwner` | hosts close editors and terminate components before they give them back | `CountsAlwaysTrue`, `NothingEverDangles` |
| `CarefulHost` | all four `Manners` | `NothingEverLeaks`, `GuiAlwaysBalanced`, `SizeAlwaysAgreed` |

The instances of the passing runs satisfy each of them.

**RunLoop.** The inductive invariant is the conjunction of `TypeOK` with

* `EntryInv`: while the array is scanned and the pipe's entry is still to come, there
  is a message in the pipe, and none of the entries that are polled or fired lacks
  its set in `m_slot_by_fd`; while slots are dispatched the pipe's entry is done.
  Without it the read of a message could block and `SlotSetFound` would not follow;
* `SlotMapsAgree`, of use here because a slot is dispatched through the one map and
  is registered by the other;
* `DispatchInv`: there are slots to visit only while the thread dispatches, and it
  runs only while the loop exists. So no message is processed while `todo` is not
  empty, which is what makes `DispatchOnlyRegistered` inductive;
* `AnswerInv`: the sender of a message in the pipe, and the thread being notified,
  waits, and sent no other message; during `notify` its mutex is held. So a thread
  that woke by itself cannot return while its completion is used.

Theorems: `TypeCorrect`, `SlotMapsAlwaysAgree`, `NoDispatchAfterUnregister`,
`LookupNeverFails`, `NotifiedCompletionAlive`. They hold for callers that send
requests while they hold the guard, and from callbacks, too.

The refinement adds to that invariant

* `OwedInv`: whoever waits has a message in the pipe, or is being answered, or has its
  result, and a result once stored is the one that was decided. With `AnswerInv`, by
  which these exclude each other, this gives `AnswersAlwaysOne`;
* `CallInv`: a handler runs exactly while the background thread is at its callback or
  waits inside it, and then, and only then, that thread has the guard;
* `QuitInv`: while the destructor waits nothing is registered, the pipe has no message but
  the one that ends the thread, and one caller only is inside the destructor. So `Join`,
  which empties the tables, takes nothing from the service;
* `KindInv`: event handlers have slots of descriptors and timer handlers of timers.

`ServiceImplemented`: every behaviour of the loop is one of `RunLoopService`. A request is
made when its message is written (`Asked`), served when that message is processed, which
decides the reply (`Replied`), and returns when its sender sees the result; a call of
a handler begins with the lock of the guard (`Calling`). All other steps are stutters.
`TimerFdsAlwaysCounted` has an invariant of its own, `CountInv`, per period: the count of
a descriptor is not less than the number of timers that use it (and equal to it above 1 ms),
which all have its number. Timers of 0 ms count under 1 ms and are released under 0, so
that their descriptor stays open until the loop ends; nobody's is closed early.

**BumpAllocator** (in `ProcessBuffersProofs`). The invariant adds the layout of blocks (each begins where the
previous one's padded size ends, the first at 0, and `top` is the end of the last),
that blocks are ordered, and that `top` and all blocks are aligned. Theorems:
`TypeCorrect`, `BlocksStayApart`, `BlocksStayAligned`, `FreeAlwaysFindsBlock`, for
every capacity, descriptor size and sequence of `construct`, `alloc` and `free`.
`process` never calls `free`; the theorems cover it, the runs do not.

**PortCaches** (in `ProcessBuffersProofs`). The invariant adds that what is kept of the scan belongs to this
plugin, has valid mappings and the arrangements noted of it. That the host gets what
it was granted rests on a lemma about `configure`: whatever order the sort gives to
channels, the arrangement is the same, so what was read at the scan is what is read
when the configuration is selected again. Theorems: `CacheAlwaysTrue`,
`ArrangementAlwaysHonoured`, `ChoiceNeverFatal`, for all plugins.

**ProcessBuffers.** The invariants of the allocator and of the caches hold along calls, too
(`CallBlocksApart`, `CallCacheTrue`, `CallArrangementHonoured`). To these `IInv` adds

* `MapsInv`: each cached port has a remapper that is a mapping of that port, and valid;
* `QuietInv`: between calls the allocator is as it was constructed;
* `CallInv`: the plugin's buses have the channels of the cached ports;
* `PrepareInv`: a channel whose entry of the `Plan` is done (`Done`) points where it should: to
  a copy in a block that is still allocated, with the size of the host's channel, to the
  host's own memory, to zeros or to the trash; and exactly the silent ones among those are
  marked as constant (`InputAt`, `OutputAt`);
* `ReleaseInv`: the ports that were told to the host have the silence the plugin left.

`ChannelsHaveMemory` follows, as each channel of a port has an entry in the plan. That two
entries of the plan are of different channels of the plugin is because remappers are
permutations. The plan is a sequence of sequences put one behind the other, a fold, of which
the provers know nothing; what is needed (each entry is in it once) comes from the least
counterexample: the shortest prefix for which it fails has a shorter one for which it does
not. `SpeakersAlwaysKept` and `SilenceAlwaysKept` go through both permutations: the host's
channel of a speaker is its rank among the speakers of the port, and the remapper takes
ranks to channels. For speakers from 32 on, which the 32 bits of an arrangement lose, this
is true only if none is there twice, hence `SpeakersApart`.

**Controller.** The invariant is the conjunction of the five properties with

* `LoopInv`: the threaded loop's thread is nowhere unless that loop is installed, and
  handlers are released without a loop;
* `UsingInv`: who has read a handler holds the guard, and the component has that
  handler still. So `set_component_handler`, which takes the guard, and
  `terminate_done`, which comes after the loop, cannot release it;
* `FrameInv`: the frame is known only while it is lent, and forgotten before the
  host has it back. With `LoopInv` this is why `request_resize` needs no guard;
* `SyncInv`: what a synchronisation has read and stored is true but for what others
  changed since.

Theorems: `TypeCorrect`, `HandlersAlwaysBalanced`, `HandlersStayAlive`,
`EditorStaysAlive`, `ToldAlwaysTrue`. They need no fairness.

**HostLoop.** The properties speak of the moments between functions; the invariant says
where each handler is in the middle of `set_run_loop`:

* `Placed`, `NewPlaced`: a loop has a slot's handler exactly when it is the `Current`
  one (the old loop while slots leave, the new one while they join) and the slot says
  `registered`, or its registration has just returned (`Marking`). This is more than
  `StatusTrue`, which says nothing while `set_run_loop` runs;
* `Distinct`: no handler has two slots;
* `Flow`: what is true at each place: the slots passed by `leave` are no longer
  registered, those ahead of `join` not yet, the slot to be stored is free;
* `Ending`: the destructor's `set_run_loop` has no loop as its target;
* `RefsTrue`: who holds references; so `Leave` is asked of a loop that is there;
* `Kept`: unless a callback unregisters its own timer, handlers in loops belong to slots.

Theorems: `TypeCorrect`, `StatusAlwaysTrue` (for one-shot timers, too),
`HandlersAlwaysOwned`, `CallsStayOnHostThread`, and `DestructorClears`, which is
`host_cleared`'s property for components without one-shot timers: the finding needs
one.

**Processing.** `StoppedInv` says that once a call has seen that the host turned
processing off, the plugin is stopped until the host turns it on again. Under
`HostFlushesStop`, the promise that hosts process once more before they deactivate, this
gives `StatusAlwaysTrue`, and `OnlyStartedProcess`, the property that
`processing_unflushed` finds violated without that promise. `QueueInv` has that the table of
queues is of the call that runs, or empty, for `QueuesAlwaysOfThisCall`, which needs no
promise. `OutputInv` adds to it that no queue is of this call when the conversion begins, and
that a point which was passed has had its queue asked for: so whether an event is wanted is
settled when the conversion has passed it, although later events ask for further queues. What
was sent is then, one by one, what is wanted of the events passed (`WantedBefore`), and
`OutputAlwaysComplete` is the end of that. `InputAlwaysOfThisCall` is inductive as it stands;
the work is in two lemmas: `FilledContent`, that the buffer has of the input the longest start
that fits, by the least event for which it fails, and `SortedContent`, that sorting loses and
doubles nothing.

**Parameters.** `IndexInv` follows the scan: so many parameters are in the list as were
read, they are the plugin's first ones, and the map finds exactly these (`Indexed`, by
`SetFinds`, what `set` and `find` of the map do for each other, on both sides of
`NumLowIDs`). `UnitsInv` is the tree with the map by path and the place where a walk is:
the unit reached is that of the path's part behind it (`Walking`), whether it was
there or made. `StateInv` has what was saved, the start of the list with no parameter
twice, and how much of a state is loaded; without its distinct identifiers a later value of
a block could undo an earlier one. `SyncInv` has that the values before `at` are those of
the plugin, while a controller is made or follows a loaded state. `NearestKept` is the
lemma about numbers: the position of the plain value that a position gives is the nearest
step to it. With `ShownKept` (what the controller shows moves only with its values) and
`SyncRefreshes` each step is one of `ParameterStore`, or leaves it alone. Theorems:
`IndexAlwaysFits`, `UnitsAlwaysTrue`, for paths of any depth, asked for in any order;
`StateAlwaysRestored`; `StoreImplemented`, the refinement. `PlainInv` says that whatever the
controller, the plugin or a state has of a parameter is a value that it may have, in
particular a whole step of a stepped one. With it `TextsAlwaysTrue` rests on `StepKept`: a
step that is normalised and read back is the same step. For that normalised values have to
be finer than steps, by `FineScale`: `Scale` is a multiple of the number of steps, or no
smaller than its square (less itself). In the code they are doubles of 53 bits, which are
that fine for parameters of up to some ninety million steps.

**Lifetimes.** The invariant of the counts is, with the types,

* `StackInv`: which function calls which, and that the two threads are never in the same
  component;
* `RefsInv`: the counts of components and editors are the references that hosts hold;
* `LifeInv`: what is true of a component at each place of its life: the plugin is there as
  long as the host holds a reference, or a thread is on its way to destroy it; who is
  initialised is held; views belong to initialised components;
* `HeldInv`, `LoopInv`: a context, and a loop, has as many references as there are components
  that have it (`Users`, a cardinality that each step changes by one at most), and one more
  for the factory, or for `instance` on its way to `set_run_loop`; `s_unique_instance` is
  set exactly while the threaded loop has references.

It is inductive for a `CarefulOwner`: `terminate` drops a reference to the editor that the
component does not have, which does no harm if no view is left, and the destructor forgets
the context and the loop, which were given back if `terminate` came before. `CountsAlwaysTrue`
and `NothingEverDangles` follow. `NothingEverLeaks` needs a host with all manners, for
graphics: `GuiInv` has them, the frame and the loop of the frame come and go together
(`Shown`, `Hidden`), and what is there at each place in the middle of `attached`,
`removed` and `get_size`; `SizeInv` that the rectangle is as wide as the plugin but during
a resize, and what `check_size_constraint` has found at its end. Theorems: those in the table
above and `InvariantHolds`.

**Names.** The code has units, the properties speak of pieces; the invariant joins the two
in each state. What is read is spelled with pieces (`ReadsSource`: those of the plugin, or
those that the copy before left), and the iterator is between two of them, or behind the
first unit of one that a piece cut off took along (`At`). What was written is spelled with the
characters heard among the pieces before it (`Copied`, `Measured`, `Filled`). The lemmas below
that are the work:

* `CharacterUnits`: what `encode` writes, `decode` reads, for every code point (arithmetic of
  one to four units), and `Within`, that this does not depend on what comes after it;
* `ReadStep`: from a place between pieces, `decode` gives the character of the next piece,
  or is illegal and comes to such a place where nothing more is heard, or the text is over;
* `UpToNulHolds`, `CopyEndsWithFitting`: what is found in an array up to its zero is what was
  written there, and that is the longest run of characters with room for the zero;
* `HeardShorter`, `WideFits`: what is heard of a text is no longer than the text, so what is
  shown of one that was in `display` fits in `display` again;
* `Escapes`, `QueryOfPieces`: escapes have three units each and no question mark among
  them; the query of an address begins with a piece.

`Spelled` puts sequences one behind the other, a fold, and `HeardIn` and `Taking` are recursive
functions: what is needed of these is proved by least counterexample from the equations
of one step. Theorems: `InvariantHolds`, `NamesAlwaysTrue`, `AddressAlwaysTrue` and
`TextAlwaysTrue`, for texts of any length, rooms of any size and any contents of arrays.

Proved and not part of a run: `BlocksStayAligned`, `FreeAlwaysFindsBlock`,
`HandlersAlwaysBalanced`, `ChoiceNeverFatal`, `LookupNeverFails`, `DestructorClears`,
`OnlyStartedProcess`, `TimerFdsAlwaysCounted`, the types and the invariants themselves
(`BuffersInvariant`, `InvariantHolds`); every other theorem is of a property that a run
checks.

Only model-checked: liveness (`CallsReturn`, `TimerOperational`, `EventDelivered`,
`CallbackServed`, `FollowsHost`, `HostReturns`), for which there is no rule for fairness
here. Every property of safety of the passing runs is proved.

## Where the code differs from what it says

Three runs find what a comment or an assertion of the code says violated.

* `host_cleared`: a one-shot timer that unregisters itself while `set_run_loop`
  moves its slot leaves its handler in the threaded loop ("this suffices to clear
  the posix fds and the timers").
* `processing_unflushed`: deactivation of a plugin that is still started, and
  processing of one that was not started after the next activation.
* `buffers_memory`: the allocator's descriptors are not counted, so that a full
  block fails an assertion.

Seen while modelling, without a run of their own:

* `setup_processing` refuses when `!can_process_sample_size(...)`, where 0 means success,
  so that 32-bit set-ups are not kept and the component stays at 44100 Hz and 1024
  frames (`ct_audio_processor.cpp:165`, modelled as it is in `Processing`).
* A callback on the threaded loop that sends the loop a request waits for itself, and a
  request sent while the guard is held can wait for a thread that waits for the guard. The
  runs of safety have both; those of liveness leave them out.
* A timer of 0 ms is created under the period 1 and released under 0, so its descriptor
  stays open until the loop ends (`ct_host_loop_posix.cpp:402` and `:430`, modelled in
  `RunLoop`).
* `can_resize` of the editor answers true for false, 0 being success; `get_unit_count`
  answers 1 however many units were made.
* After a rescan that says that titles, texts or everything changed, neither the list nor
  the ranges are read again (modelled in `Parameters`: `list` moves, `m_params` does not). A
  parameter with one value is normalised to that value, which may be outside of 0 to 1.
* The factory is a static pointer which outlives the module's exit, and entries are not
  counted. `terminate` unrefs an editor it has no reference to, the editor keeps the
  component by a raw pointer, and a component given back without `terminate` keeps the
  reference to the host's context. `m_have_idle_timer` is never reset.
* A unit that breaks a sequence of UTF-8 or UTF-16 is dropped with it, although it may
  begin a character (modelled in `Names`: `decode8`, `decode16`).
* Missing output buses are written through a null pointer; speakers from 32 on are lost and
  duplicates among them accepted; a channel map of more than four channels is fatal; the
  type of output events is never set.

## Not modelled

* *Samples, and the transport*: floating point numbers pass through and are copied; the
  control around them is modelled. Latency, tail, render mode and the status that
  `process` returns are read or passed on.
* *Class identifiers, categories, colours, uuids*: pure conversions of constants.
* *The MIDI mapping, programs and buses of units, keys and the wheel of editors*: constant
  answers.
* *Operations without a user in the program*: `clap_id_map::unset`, `operator[]` and
  `clear_values`, and the invalidation of the parameters' cache, which nothing calls.
* *Counting of module entries, the static factory*: there is none of the one, and the other
  never changes once made; see above.
* *The race of `instance` with another thread's last `unref`*: all of its callers are on the
  host's main thread, where it cannot happen; a host that initialises components on several
  threads is outside of the `Lifetimes` model.
* *Plugins that call back from `gui->create` and `gui->destroy`*: in `Controller` these calls
  are those before and after; in `Lifetimes` they ask for sizes only if the host lacks
  `AsksNoSize`.
* *Windows and macOS*: their timers are the operating system's, and there is no run
  loop to switch.
* *Examples and vendored code*: an example plugin with its graphics, and libraries of
  others; of those the modules have what the bridge calls, as part of their environment,
  and of the UTF library the decoding and encoding themselves.

`PROJECT.json` has, for each component, what of it is left out.

## Plan

Done: run loop, service and refinement; host loop; processing; allocator, channels, port
caches and buffers; controller; parameters, units and states with the store they implement;
lifetimes; texts. Proofs of all safety properties of the loop, the host loop, the
processing state, the allocator, the port caches and the buffers, the controller, the
parameters, the lifetimes and the texts, and of both refinements.

What would add most from here:

1. `Processing` and `Controller` together where they meet: the parameter values that
   the audio thread changes, and the rescan that follows.
2. The types of the modules whose `TypeOK` is not yet a theorem, of which the proofs have
   what they need and no more.

New modules take over the runs of findings that are settled, or join an existing
module's run, so that the whole stays small enough to be run on every change.
