------------------------- MODULE ProcessBuffersProofs -------------------------
(***************************************************************************)
(* Proofs about ProcessBuffers and the modules it is made of: the          *)
(* allocator of a process call, the cached ports and the host's choice of  *)
(* them, and the buffers that process makes of both, for all plugins,      *)
(* hosts' buses, block sizes and descriptors.                              *)
(***************************************************************************)
EXTENDS ProcessBuffers, SequenceTheorems, FiniteSetTheorems, WellFoundedInduction, TLAPS

-----------------------------------------------------------------------------
(***************************************************************************)
(* The allocator, for all callers.                                         *)
(*                                                                         *)
(* BlocksApart alone is not inductive: free moves the top to where the     *)
(* last descriptor says, so the invariant must know that blocks lie end to *)
(* end and that all boundaries are aligned.                                *)
(***************************************************************************)
\* Block i with its padding ends where the next begins, or at the top.
EndToEnd ==
  \A i \in 1..Len(blocks) : End(i) = blocks[i].at + TotalSize(blocks[i].size)

\* Later blocks are above earlier ones, and the top is above all.
Ordered ==
  /\ \A i, j \in 1..Len(blocks) : i < j => End(i) <= blocks[j].at
  /\ \A i \in 1..Len(blocks) : End(i) <= top

TopAligned == top % Align = 0

BlocksInv == AllocatorOK /\ top <= cap /\ EndToEnd /\ Ordered /\ TopAligned /\ BlocksAligned

\* Padding rounds up to the alignment.
LEMMA PadSize ==
  ASSUME NEW size \in Nat
  PROVE  /\ pad_size(size) \in Nat
         /\ pad_size(size) >= size
         /\ pad_size(size) % Align = 0
  BY DEF pad_size, Align

\* A block takes its payload and its descriptor at least.
LEMMA TotalSizeCovers ==
  ASSUME NEW size \in Nat
  PROVE  /\ TotalSize(size) \in Nat
         /\ TotalSize(size) >= size + DescriptorSize
         /\ TotalSize(size) % Align = 0
  <1>1. size + DescriptorSize \in Nat
    BY BumpAllocatorAssumption DEF Align
  <1> QED
    BY <1>1, PadSize DEF TotalSize

LEMMA AlignedSum ==
  ASSUME NEW m \in Nat, NEW n \in Nat, m % Align = 0, n % Align = 0
  PROVE  (m + n) % Align = 0
  BY DEF Align

LEMMA InitBlocks == AllocatorInit => BlocksInv
  BY DEF AllocatorInit, BlocksInv, AllocatorOK, EndToEnd, Ordered, TopAligned, BlocksAligned, Align

\* A new block begins at the top, above all others.
LEMMA AllocBlocks ==
  ASSUME BlocksInv, NEW size \in Nat, alloc(size)
  PROVE  BlocksInv'
  <1> USE DEF BlocksInv
  <1>1. CASE ~Fits(size)
    BY <1>1 DEF alloc, allocator, AllocatorOK, EndToEnd, Ordered, TopAligned, BlocksAligned, End
  <1>2. CASE Fits(size)
    <2> PICK n \in Nat : n = Len(blocks)
      BY DEF AllocatorOK
    <2> DEFINE b == [at |-> top, size |-> size]
    <2>0. /\ blocks' = Append(blocks, b) /\ top' = top + TotalSize(size) /\ cap' = cap
          /\ top \in Nat /\ cap \in Nat /\ n \in Nat
          /\ blocks \in Seq(Block) /\ b \in Block
      BY <1>2 DEF alloc, AllocatorOK, Block
    <2>1. TotalSize(size) \in Nat /\ TotalSize(size) % Align = 0
      BY TotalSizeCovers
    <2>2. /\ Len(blocks') = n + 1
          /\ \A i \in 1..n : blocks'[i] = blocks[i]
          /\ blocks'[n + 1] = b
          /\ blocks' \in Seq(Block)
      BY <2>0, AppendProperties
    <2>3. \A i \in 1..n : End(i)' = End(i)
      BY <2>0, <2>2 DEF End
    <2>4. End(n + 1)' = top'
      BY <2>0, <2>2 DEF End
    <2>5. AllocatorOK'
      BY <2>0, <2>1, <2>2 DEF AllocatorOK
    <2>6. (top <= cap)'
      BY <1>2, <2>0, <2>1 DEF Fits
    <2>7. EndToEnd'
      <3> SUFFICES ASSUME NEW i \in 1 .. n + 1
                   PROVE  End(i)' = blocks'[i].at + TotalSize(blocks'[i].size)
        BY <2>2 DEF EndToEnd, TotalSize, pad_size, Align
      <3>1. CASE i \in 1..n
        BY <3>1, <2>2, <2>3 DEF EndToEnd
      <3>2. CASE i = n + 1
        BY <3>2, <2>0, <2>2, <2>4
      <3> QED BY <3>1, <3>2, <2>0
    <2>8. \A i \in 1..n : End(i) <= top
      BY DEF Ordered
    <2>9. ASSUME NEW i \in 1..n
          PROVE  End(i) \in Nat
      <3>1. CASE i = n
        BY <3>1, <2>0 DEF End
      <3>2. CASE i # n
        <4>1. i + 1 \in 1..Len(blocks)
          BY <3>2, <2>0
        <4>2. blocks[i + 1] \in Block
          BY <4>1, <2>0, ElementOfSeq
        <4> QED BY <3>2, <4>2, <2>0 DEF End, Block
      <3> QED BY <3>1, <3>2
    <2>10. Ordered'
      <3>1. \A i, j \in 1 .. n + 1 : i < j => End(i)' <= blocks'[j].at
        <4> SUFFICES ASSUME NEW i \in 1 .. n + 1, NEW j \in 1 .. n + 1, i < j
                     PROVE  End(i)' <= blocks'[j].at
          OBVIOUS
        <4>1. i \in 1..n /\ End(i)' = End(i)
          BY <2>0, <2>3
        <4>2. CASE j \in 1..n
          BY <4>1, <4>2, <2>2 DEF Ordered
        <4>3. CASE j = n + 1
          BY <4>1, <4>3, <2>2, <2>8
        <4> QED BY <4>2, <4>3, <2>0
      <3>2. \A i \in 1 .. n + 1 : End(i)' <= top'
        <4> SUFFICES ASSUME NEW i \in 1 .. n + 1
                     PROVE  End(i)' <= top'
          OBVIOUS
        <4>1. CASE i \in 1..n
          <5>1. End(i)' = End(i) /\ End(i) <= top /\ End(i) \in Nat
            BY <4>1, <2>3, <2>8, <2>9
          <5> QED BY <5>1, <2>0, <2>1
        <4>2. CASE i = n + 1
          <5>1. End(i)' = top'
            BY <4>2, <2>4
          <5> QED BY <5>1, <2>0, <2>1
        <4> QED BY <4>1, <4>2, <2>0
      <3> QED BY <3>1, <3>2, <2>2 DEF Ordered
    <2>11. TopAligned'
      BY <2>0, <2>1, AlignedSum DEF TopAligned
    <2>12. BlocksAligned'
      <3>1. \A i \in 1 .. n + 1 : blocks'[i].at % Align = 0
        BY <2>0, <2>2 DEF BlocksAligned, TopAligned
      <3> QED BY <3>1, <2>2 DEF BlocksAligned, Align
    <2> QED BY <2>5, <2>6, <2>7, <2>10, <2>11, <2>12
  <1> QED BY <1>1, <1>2

\* The top goes back to where the last block began.
LEMMA FreeBlocks ==
  ASSUME BlocksInv, free
  PROVE  BlocksInv'
  <1> USE DEF BlocksInv
  <1> DEFINE n == Len(blocks)
  <1>0. /\ blocks # << >> /\ blocks \in Seq(Block)
        /\ n \in Nat /\ n >= 1
        /\ top \in Nat /\ cap \in Nat /\ cap' = cap
    BY DEF free, AllocatorOK
  <1>1. /\ blocks[n].at \in Nat /\ blocks[n].size \in Nat
        /\ TotalSize(blocks[n].size) \in Nat
    <2>1. n \in 1..Len(blocks)
      BY <1>0
    <2>2. blocks[n] \in Block
      BY <2>1, <1>0, ElementOfSeq
    <2> QED BY <2>2, TotalSizeCovers DEF Block
  <1>2. top = blocks[n].at + TotalSize(blocks[n].size)
    BY <1>0 DEF EndToEnd, End
  <1>3. top' = blocks[n].at
    BY <1>0, <1>1, <1>2 DEF free
  <1>4. /\ Len(blocks') = n - 1
        /\ \A i \in 1 .. n - 1 : blocks'[i] = blocks[i]
        /\ blocks' \in Seq(Block)
    <2>1. \A i \in 1 .. n - 1 : blocks[i] \in Block
      BY <1>0, ElementOfSeq
    <2>2. blocks' = SubSeq(blocks, 1, n - 1) /\ n - 1 \in Int /\ n - 1 >= 0
      BY <1>0 DEF free
    <2>3. /\ SubSeq(blocks, 1, n - 1) \in Seq(Block)
          /\ Len(SubSeq(blocks, 1, n - 1)) = IF 1 <= n - 1 THEN (n - 1) - 1 + 1 ELSE 0
          /\ \A i \in 1 .. (n - 1) - 1 + 1 : SubSeq(blocks, 1, n - 1)[i] = blocks[1 + i - 1]
      BY ONLY <2>1, <2>2, SubSeqProperties
    <2>4. (n - 1) - 1 + 1 = n - 1 /\ \A i \in 1 .. n - 1 : 1 + i - 1 = i
      BY <2>2
    <2> QED BY <2>2, <2>3, <2>4
  <1>5. \A i \in 1 .. n - 1 : End(i)' = End(i)
    <2> SUFFICES ASSUME NEW i \in 1 .. n - 1 PROVE End(i)' = End(i)
      OBVIOUS
    <2>1. CASE i = n - 1
      BY <2>1, <1>0, <1>3, <1>4 DEF End
    <2>2. CASE i # n - 1
      <3>1. i + 1 \in 1 .. n - 1
        BY <2>2, <1>0
      <3> QED BY <3>1, <2>2, <1>0, <1>4 DEF End
    <2> QED BY <2>1, <2>2
  <1>6. AllocatorOK'
    BY <1>0, <1>1, <1>3, <1>4 DEF AllocatorOK
  <1>7. (top <= cap)'
    BY <1>0, <1>1, <1>2, <1>3
  <1>8. EndToEnd'
    BY <1>0, <1>4, <1>5 DEF EndToEnd, TotalSize, pad_size, Align
  <1>9. Ordered'
    <2>1. \A i, j \in 1 .. n - 1 : i < j => End(i)' <= blocks'[j].at
      BY <1>0, <1>4, <1>5 DEF Ordered
    <2>2. \A i \in 1 .. n - 1 : End(i)' <= top'
      BY <1>0, <1>3, <1>5 DEF Ordered
    <2> QED BY <2>1, <2>2, <1>4 DEF Ordered
  <1>10. TopAligned'
    BY <1>0, <1>3 DEF TopAligned, BlocksAligned, Align
  <1>11. BlocksAligned'
    BY <1>0, <1>4 DEF BlocksAligned, Align
  <1> QED BY <1>6, <1>7, <1>8, <1>9, <1>10, <1>11

LEMMA NextBlocks ==
  ASSUME BlocksInv, [AllocatorNext]_allocator
  PROVE  BlocksInv'
  <1>1. CASE \E c \in Nat : construct(c)
    <2> PICK c \in Nat : construct(c)
      BY <1>1
    <2> QED
      BY BumpAllocatorAssumption
      DEF construct, BlocksInv, AllocatorOK, EndToEnd, Ordered, TopAligned, BlocksAligned, Align
  <1>2. CASE \E size \in Nat : alloc(size)
    BY <1>2, AllocBlocks, BumpAllocatorAssumption
  <1>3. CASE free
    BY <1>3, FreeBlocks
  <1>4. CASE UNCHANGED allocator
    BY <1>4 DEF allocator, BlocksInv, AllocatorOK, EndToEnd, Ordered, TopAligned, BlocksAligned, End,
                TotalSize, pad_size, Align
  <1> QED
    BY <1>1, <1>2, <1>3, <1>4 DEF AllocatorNext

\* The invariant holds in every reachable state.
THEOREM BlocksInvariant == AllocatorSpec => []BlocksInv
  <1>1. BlocksInv /\ [AllocatorNext]_allocator => BlocksInv'
    BY NextBlocks
  <1> QED
    BY InitBlocks, <1>1, PTL DEF AllocatorSpec

\* The types of the allocator's state, top and block positions never negative.
THEOREM AllocatorTypes == AllocatorSpec => []AllocatorOK
  BY BlocksInvariant, PTL DEF BlocksInv

LEMMA ApartBlocks ==
  ASSUME BlocksInv
  PROVE  BlocksApart
  <1>1. ASSUME NEW i \in 1..Len(blocks)
        PROVE  /\ blocks[i].at + blocks[i].size + DescriptorSize <= End(i)
               /\ End(i) <= cap
    <2>1. blocks[i].at \in Nat /\ blocks[i].size \in Nat /\ DescriptorSize \in Nat
      <3>1. blocks[i] \in Block
        BY ElementOfSeq DEF BlocksInv, AllocatorOK
      <3> QED BY <3>1, BumpAllocatorAssumption DEF Block, Align
    <2>2. End(i) = blocks[i].at + TotalSize(blocks[i].size) /\ End(i) <= top
      BY DEF BlocksInv, EndToEnd, Ordered
    <2>3. /\ TotalSize(blocks[i].size) \in Nat
          /\ TotalSize(blocks[i].size) >= blocks[i].size + DescriptorSize
      BY <2>1, TotalSizeCovers
    <2> QED BY <2>1, <2>2, <2>3 DEF BlocksInv, AllocatorOK
  <1> QED BY <1>1 DEF BlocksInv, Ordered, BlocksApart

\* Live blocks never share memory and never leave it, descriptors included,
\* for all callers of the allocator.
THEOREM BlocksStayApart == AllocatorSpec => []BlocksApart
  <1>1. BlocksInv => BlocksApart
    BY ApartBlocks
  <1> QED
    BY <1>1, BlocksInvariant, PTL

\* Every block is aligned for any type.
THEOREM BlocksStayAligned == AllocatorSpec => []BlocksAligned
  BY BlocksInvariant, PTL DEF BlocksInv

\* free gives back exactly the memory of the last block: its assertion on the
\* pointer never fails.
THEOREM FreeAlwaysFindsBlock == AllocatorSpec => []FreeFindsBlock
  <1>1. BlocksInv => FreeFindsBlock
    <2> SUFFICES ASSUME BlocksInv, blocks # << >>
                 PROVE  top - TotalSize(blocks[Len(blocks)].size) = blocks[Len(blocks)].at
      BY DEF FreeFindsBlock
    <2>1. Len(blocks) \in 1..Len(blocks)
      BY DEF BlocksInv, AllocatorOK
    <2>2. blocks[Len(blocks)].at \in Nat /\ blocks[Len(blocks)].size \in Nat
      <3>1. blocks[Len(blocks)] \in Block
        BY <2>1, ElementOfSeq DEF BlocksInv, AllocatorOK
      <3> QED BY <3>1 DEF Block
    <2>3. top = blocks[Len(blocks)].at + TotalSize(blocks[Len(blocks)].size)
      BY <2>1 DEF BlocksInv, EndToEnd, End
    <2>4. TotalSize(blocks[Len(blocks)].size) \in Nat
      BY <2>2, TotalSizeCovers
    <2> QED BY <2>2, <2>3, <2>4
  <1> QED BY <1>1, BlocksInvariant, PTL

-----------------------------------------------------------------------------
(***************************************************************************)
(* The cached ports, for all plugins: any number of configurations, ports, *)
(* channels and maps.                                                      *)
(*                                                                         *)
(* That the host gets what it asked for needs a fact about sorting:        *)
(* however std::sort orders the channels of a port, the arrangement is the *)
(* same, so what was read at the scan of the configurations is what is     *)
(* read again when one is selected.                                        *)
(***************************************************************************)
ValidLayout(n) ==
  ValidList(plugin.layouts[n].inputs) /\ ValidList(plugin.layouts[n].outputs)

\* What is kept of the scan: configurations of this plugin with valid mappings
\* and the arrangements they will have.
ConfigsInv ==
  \A n \in DOMAIN configs :
    /\ n \in DOMAIN plugin.layouts
    /\ configs[n] = Config(n)
    /\ ValidLayout(n)

CachesInv ==
  /\ plugin \in Plugins /\ selected \in DOMAIN plugin.layouts
  /\ ConfigsInv /\ CacheTrue /\ ArrangementHonoured

-----------------------------------------------------------------------------
\* The cases of configure: a port is refused, or all that it can get has the
\* same arrangement and is valid.
LEMMA ConfigureCases ==
  ASSUME NEW count \in Nat, NEW map
  PROVE  \/ Configure(count, map) = {Invalid}
         \/ \E arr : \A m \in Configure(count, map) : m.arrangement = arr /\ m.valid
  <1> DEFINE speakers == Speakers(count, map)
             Mapping(arr, s) == [valid |-> TRUE, arrangement |-> arr, v3_to_clap |-> s]
  <1>1. CASE count > MaxChannels
    BY <1>1, Zenon DEF Configure
  <1>2. CASE ~(count > MaxChannels) /\ count <= 1
    <2> DEFINE arr == IF count = 0 THEN {} ELSE {Mono}
               id  == [c \in 0 .. count - 1 |-> c]
    <2>1. Configure(count, map) = {Mapping(arr, id)}
      BY <1>2, Zenon DEF Configure
    <2> HIDE DEF arr, id
    <2> QED
      BY <2>1
  <1>3. CASE ~(count > MaxChannels) /\ ~(count <= 1)
    <2>1. CASE Len(speakers) < count \/ Refused(count, speakers)
      BY <1>3, <2>1, Zenon DEF Configure
    <2>2. CASE ~(Len(speakers) < count \/ Refused(count, speakers))
      <3> DEFINE arr == Bits({speakers[c] : c \in 1..count})
      <3>1. Configure(count, map) = {Mapping(arr, s) : s \in Sorts(count, speakers)}
        BY <1>3, <2>2, Zenon DEF Configure
      <3> HIDE DEF arr
      <3> QED
        BY <3>1
    <2> QED
      BY <2>1, <2>2
  <1> QED
    BY <1>1, <1>2, <1>3

\* The mappings that a port can get differ only in the order of channels.
LEMMA SameArrangement ==
  ASSUME NEW count \in Nat, NEW map,
         NEW m \in Configure(count, map), NEW n \in Configure(count, map)
  PROVE  m.arrangement = n.arrangement
  BY ConfigureCases

\* A port's mapping is valid unless configure refuses the port.
LEMMA ValidMapping ==
  ASSUME NEW count \in Nat, NEW map, NEW m \in Configure(count, map),
         Invalid \notin Configure(count, map)
  PROVE  m.valid
  BY ConfigureCases

\* The arrangements that are read of a list of ports are those that were
\* noted of it, and are valid when its mappings are.
LEMMA ReadList ==
  ASSUME NEW list \in Seq(Port), NEW r \in RemappersOf(list)
  PROVE  /\ Arrangements(r) = ArrangementsOf(list)
         /\ ValidList(list) => AllValid(r)
  <1>1. /\ DOMAIN r = DOMAIN list
        /\ \A p \in DOMAIN list : r[p] \in MappingsOf(list[p])
    BY DEF RemappersOf
  <1>2. \A p \in DOMAIN list : list[p].count \in Nat
    <2>1. \A p \in DOMAIN list : list[p] \in Port
      OBVIOUS
    <2> QED
      BY <2>1 DEF Port
  <1>3. ASSUME NEW p \in DOMAIN list
        PROVE  r[p].arrangement = (CHOOSE m \in MappingsOf(list[p]) : TRUE).arrangement
    <2> DEFINE c == CHOOSE m \in MappingsOf(list[p]) : TRUE
    <2>1. c \in MappingsOf(list[p])
      BY <1>1
    <2> HIDE DEF c
    <2>2. r[p].arrangement = c.arrangement
      BY <1>1, <1>2, <2>1, SameArrangement DEF MappingsOf
    <2> QED
      BY <2>2 DEF c
  <1>4. ASSUME NEW p \in DOMAIN list, ValidList(list)
        PROVE  r[p].valid
    BY <1>1, <1>2, <1>4, ValidMapping DEF ValidList, MappingsOf
  <1> QED
    BY <1>1, <1>3, <1>4 DEF Arrangements, ArrangementsOf, AllValid

\* The lists of a plugin's configuration are lists of ports.
LEMMA LayoutLists ==
  ASSUME plugin \in Plugins, NEW n \in DOMAIN plugin.layouts
  PROVE  plugin.layouts[n].inputs \in Seq(Port) /\ plugin.layouts[n].outputs \in Seq(Port)
  <1>1. plugin.layouts \in Seq(Layout)
    BY PluginsAssumption DEF Plugin
  <1>2. plugin.layouts[n] \in Layout
    BY <1>1
  <1> QED
    BY <1>2 DEF Layout

\* What reading a configuration leaves in the cache.
LEMMA ReadPortsReads ==
  ASSUME plugin \in Plugins, NEW n \in DOMAIN plugin.layouts, ReadPorts(n)
  PROVE  /\ ports'.inputs = plugin.layouts[n].inputs
         /\ ports'.outputs = plugin.layouts[n].outputs
         /\ Arrangements(remappers'.inputs) = Config(n).inputs
         /\ Arrangements(remappers'.outputs) = Config(n).outputs
         /\ ValidLayout(n) => pc' = "inactive"
  <1> DEFINE in == plugin.layouts[n].inputs
             out == plugin.layouts[n].outputs
  <1>1. in \in Seq(Port) /\ out \in Seq(Port)
    BY LayoutLists
  <1>2. PICK i \in RemappersOf(in), o \in RemappersOf(out) :
          /\ ports' = [inputs |-> in, outputs |-> out]
          /\ remappers' = [inputs |-> i, outputs |-> o]
          /\ pc' = IF AllValid(i) /\ AllValid(o) THEN "inactive" ELSE "fatal"
    BY DEF ReadPorts
  <1> HIDE DEF in, out
  <1>3. /\ Arrangements(i) = ArrangementsOf(in) /\ (ValidList(in) => AllValid(i))
        /\ Arrangements(o) = ArrangementsOf(out) /\ (ValidList(out) => AllValid(o))
    BY <1>1, ReadList
  <1>4. ports'.inputs = in /\ ports'.outputs = out /\ remappers'.inputs = i /\ remappers'.outputs = o
    BY <1>2
  <1>5. ValidList(in) /\ ValidList(out) => pc' = "inactive"
    BY <1>2, <1>3
  <1> QED
    BY <1>3, <1>4, <1>5 DEF in, out, Config, ValidLayout

-----------------------------------------------------------------------------
LEMMA InitCaches == CachesInit => CachesInv
  BY DEF CachesInit, CachesInv, ConfigsInv, CacheTrue, ArrangementHonoured

LEMMA ScanCaches ==
  ASSUME CachesInv, cache_audio_port_configs
  PROVE  CachesInv'
  <1> USE DEF CachesInv
  <1>1. plugin' = plugin
    BY DEF cache_audio_port_configs
  <1>2. CASE pc' = "fatal" /\ UNCHANGED <<selected, configs, ports, remappers, accepted>>
    BY <1>1, <1>2 DEF ConfigsInv, Config, ValidLayout, CacheTrue, ArrangementHonoured
  <1>3. ASSUME NEW refused \in SUBSET DOMAIN plugin.layouts,
               NEW first \in DOMAIN plugin.layouts,
               IsFirst(first, Kept(refused)),
               configs' = [n \in Kept(refused) |-> Config(n)],
               selected' = first, ReadPorts(first), Tell
        PROVE  CachesInv'
    <2>1. ConfigsInv'
      BY <1>1, <1>3 DEF ConfigsInv, Config, ValidLayout, Kept
    <2>2. CacheTrue'
      BY <1>1, <1>3, ReadPortsReads DEF CacheTrue
    <2>3. ArrangementHonoured'
      BY <1>3 DEF Tell, ArrangementHonoured
    <2> QED
      BY <1>1, <1>3, <2>1, <2>2, <2>3
  <1> QED
    BY <1>2, <1>3 DEF cache_audio_port_configs

LEMMA CreateCaches ==
  ASSUME CachesInv, cache_audio_ports
  PROVE  CachesInv'
  <1> USE DEF CachesInv, cache_audio_ports
  <1>1. ConfigsInv'
    BY DEF ConfigsInv, Config, ValidLayout
  <1>2. CacheTrue'
    BY ReadPortsReads DEF CacheTrue
  <1>3. ArrangementHonoured'
    BY DEF Tell, ArrangementHonoured
  <1> QED
    BY <1>1, <1>2, <1>3

\* The configuration that set_bus_arrangements finds has the arrangements that
\* the host asked for, now as at the scan.
LEMMA ChoiceCaches ==
  ASSUME CachesInv, NEW asked, set_bus_arrangements(asked)
  PROVE  CachesInv' /\ pc' = "inactive"
  <1> USE DEF CachesInv
  <1>1. PICK n \in DOMAIN configs :
          IsFirst(n, Matching(asked)) /\ selected' = n /\ ReadPorts(n) /\ accepted' = asked
    BY DEF set_bus_arrangements
  <1>2. UNCHANGED <<plugin, configs>>
    BY DEF set_bus_arrangements
  <1>3. n \in DOMAIN plugin.layouts /\ configs[n] = Config(n) /\ ValidLayout(n)
    BY DEF ConfigsInv
  <1>4. Config(n).inputs = asked.inputs /\ Config(n).outputs = asked.outputs
    BY <1>1, <1>3 DEF IsFirst, Matching, Matches
  <1>5. ConfigsInv'
    BY <1>2 DEF ConfigsInv, Config, ValidLayout
  <1>6. CacheTrue'
    BY <1>1, <1>2, <1>3, ReadPortsReads DEF CacheTrue
  <1>7. ArrangementHonoured'
    BY <1>1, <1>3, <1>4, ReadPortsReads DEF ArrangementHonoured
  <1>8. pc' = "inactive"
    BY <1>1, <1>3, ReadPortsReads
  <1> QED
    BY <1>1, <1>2, <1>3, <1>5, <1>6, <1>7, <1>8

LEMMA NextCaches == CachesInv /\ [CachesNext]_<<pc, cache>> => CachesInv'
  <1> SUFFICES ASSUME CachesInv, [CachesNext]_<<pc, cache>>
               PROVE  CachesInv'
    OBVIOUS
  <1>1. CASE cache_audio_port_configs
    BY <1>1, ScanCaches
  <1>2. CASE cache_audio_ports
    BY <1>2, CreateCaches
  <1>3. ASSUME NEW asked \in Requests, set_bus_arrangements(asked)
        PROVE  CachesInv'
    BY <1>3, ChoiceCaches
  <1>4. CASE UNCHANGED <<pc, cache>>
    BY <1>4 DEF CachesInv, ConfigsInv, Config, ValidLayout, CacheTrue, ArrangementHonoured, cache
  <1> QED
    BY <1>1, <1>2, <1>3, <1>4 DEF CachesNext

LEMMA CachesInvariant == CachesSpec => []CachesInv
  BY InitCaches, NextCaches, PTL DEF CachesSpec

\* For every plugin and every sequence of requests, the cached ports are those
\* of the configuration that the plugin has.
THEOREM CacheAlwaysTrue == CachesSpec => []CacheTrue
  <1>1. CachesInv => CacheTrue
    BY DEF CachesInv
  <1> QED
    BY <1>1, CachesInvariant, PTL

\* For every plugin, the host has the arrangements that it was granted last
\* (set_bus_arrangements).
THEOREM ArrangementAlwaysHonoured == CachesSpec => []ArrangementHonoured
  <1>1. CachesInv => ArrangementHonoured
    BY DEF CachesInv
  <1> QED
    BY <1>1, CachesInvariant, PTL

\* For every plugin, the program only ends over its ports while the component
\* is created.
THEOREM ChoiceNeverFatal == CachesSpec => ChoiceNotFatal
  <1>1. CachesInv /\ [CachesNext]_<<pc, cache>> => [pc' = "fatal" => pc = "created"]_<<pc, cache>>
    <2> SUFFICES ASSUME CachesInv, CachesNext
                 PROVE  pc' = "fatal" => pc = "created"
      OBVIOUS
    <2>1. CASE cache_audio_port_configs \/ cache_audio_ports
      BY <2>1 DEF cache_audio_port_configs, cache_audio_ports
    <2>2. ASSUME NEW asked \in Requests, set_bus_arrangements(asked)
          PROVE  pc' = "inactive"
      BY <2>2, ChoiceCaches
    <2> QED
      BY <2>1, <2>2 DEF CachesNext
  <1> QED
    BY <1>1, CachesInvariant, PTL DEF CachesSpec, ChoiceNotFatal
-----------------------------------------------------------------------------
(***************************************************************************)
(* Folds and concatenations of any length.  Instead of induction, the      *)
(* least number for which a statement fails is taken.                      *)
(***************************************************************************)
\* A set of natural numbers that is not empty has a least member.
LEMMA Least ==
  ASSUME NEW T \in SUBSET Nat, T # {}
  PROVE  \E n \in T : \A m \in T : n <= m
  <1>1. \E n \in T : \A m \in T : ~(<<m, n>> \in OpToRel(<, Nat))
    BY NatLessThanWellFounded, WFMin
  <1>2. PICK n \in T : \A m \in T : ~(m < n)
    BY <1>1 DEF OpToRel
  <1> QED
    BY <1>2

\* f concatenates the first k of the sequences step by step.
Flattens(seqs, k, f) ==
  f = [i \in 1..k |-> IF i = 1 THEN seqs[i] ELSE f[i-1] \o seqs[i]]

LEMMA FlattensExists ==
  ASSUME NEW seqs, NEW n \in Nat
  PROVE  \E f : Flattens(seqs, n, f)
  <1> DEFINE T == {k \in Nat : ~\E f : Flattens(seqs, k, f)}
  <1> SUFFICES ASSUME T # {} PROVE FALSE
    OBVIOUS
  <1>1. PICK k \in T : \A m \in T : k <= m
    BY Least
  <1>2. CASE k = 0
    <2> DEFINE e == [i \in 1..0 |-> 0]
    <2>1. e = [i \in 1..0 |-> IF i = 1 THEN seqs[i] ELSE e[i-1] \o seqs[i]]
      OBVIOUS
    <2>2. Flattens(seqs, 0, e)
      BY <2>1 DEF Flattens
    <2> QED
      BY <1>2, <2>2
  <1>3. CASE k # 0
    <2>1. k \in Nat /\ k - 1 \in Nat /\ k - 1 \notin T
      BY <1>1, <1>3
    <2>2. PICK f : Flattens(seqs, k - 1, f)
      BY <2>1
    <2> DEFINE last == IF k = 1 THEN seqs[1] ELSE f[k - 1] \o seqs[k]
               g == [i \in 1..k |-> IF i < k THEN f[i] ELSE last]
    <2>3. ASSUME NEW i \in 1..k
          PROVE  g[i] = IF i = 1 THEN seqs[i] ELSE g[i-1] \o seqs[i]
      <3>1. CASE i < k
        <4>1. i \in 1 .. k - 1 /\ (i # 1 => i - 1 \in 1 .. k - 1)
          BY <2>1, <3>1
        <4>2. g[i] = f[i] /\ (i # 1 => g[i-1] = f[i-1])
          BY <2>1, <3>1, <4>1
        <4>3. f[i] = IF i = 1 THEN seqs[i] ELSE f[i-1] \o seqs[i]
          BY <2>2, <4>1 DEF Flattens
        <4> HIDE DEF g
        <4> QED
          BY <4>2, <4>3
      <3>2. CASE ~(i < k)
        <4>1. i = k /\ (k # 1 => k - 1 \in 1..k /\ k - 1 < k)
          BY <2>1, <3>2
        <4>2. g[k] = last /\ (k # 1 => g[k-1] = f[k-1])
          BY <2>1, <4>1
        <4> HIDE DEF g
        <4> QED
          BY <4>1, <4>2
      <3> QED
        BY <3>1, <3>2
    <2>4. g = [i \in 1..k |-> g[i]]
      OBVIOUS
    <2> HIDE DEF g
    <2>5. Flattens(seqs, k, g)
      BY <2>3, <2>4 DEF Flattens
    <2> QED
      BY <2>5
  <1> QED
    BY <1>2, <1>3

LEMMA RangeConcat ==
  ASSUME NEW S, NEW s \in Seq(S), NEW t \in Seq(S)
  PROVE  s \o t \in Seq(S) /\ Range(s \o t) = Range(s) \cup Range(t)
  <1>1. /\ s \o t \in Seq(S) /\ Len(s) \in Nat /\ Len(t) \in Nat
        /\ Len(s \o t) = Len(s) + Len(t)
        /\ \A i \in 1 .. Len(s) + Len(t) :
             (s \o t)[i] = IF i <= Len(s) THEN s[i] ELSE t[i - Len(s)]
    BY ConcatProperties, LenProperties
  <1>2. /\ DOMAIN s = 1..Len(s) /\ DOMAIN t = 1..Len(t)
        /\ DOMAIN (s \o t) = 1 .. Len(s) + Len(t)
    BY <1>1, LenProperties
  <1>3. ASSUME NEW i \in 1 .. Len(s) + Len(t)
        PROVE  (s \o t)[i] \in Range(s) \cup Range(t)
    <2>1. i <= Len(s) => i \in 1..Len(s)
      BY <1>1
    <2>2. ~(i <= Len(s)) => i - Len(s) \in 1..Len(t)
      BY <1>1
    <2> QED
      BY <1>1, <1>2, <2>1, <2>2 DEF Range
  <1>4. ASSUME NEW i \in 1..Len(s)
        PROVE  s[i] \in Range(s \o t)
    <2>1. i \in 1 .. Len(s) + Len(t) /\ i <= Len(s)
      BY <1>1
    <2> QED
      BY <1>1, <1>2, <2>1 DEF Range
  <1>5. ASSUME NEW i \in 1..Len(t)
        PROVE  t[i] \in Range(s \o t)
    <2>1. i + Len(s) \in 1 .. Len(s) + Len(t) /\ ~(i + Len(s) <= Len(s)) /\ (i + Len(s)) - Len(s) = i
      BY <1>1
    <2> QED
      BY <1>1, <1>2, <2>1 DEF Range
  <1> QED
    BY <1>1, <1>2, <1>3, <1>4, <1>5 DEF Range

\* FlattenSeq has the elements of all sequences and no others.
LEMMA RangeFlatten ==
  ASSUME NEW S, NEW seqs \in Seq(Seq(S))
  PROVE  /\ FlattenSeq(seqs) \in Seq(S)
         /\ Range(FlattenSeq(seqs)) = UNION {Range(seqs[i]) : i \in 1..Len(seqs)}
  <1> DEFINE n == Len(seqs)
  <1>1. n \in Nat /\ DOMAIN seqs = 1..n
    BY LenProperties
  <1>2. CASE n = 0
    <2>1. seqs = << >> /\ FlattenSeq(seqs) = seqs
      BY <1>2, EmptySeq DEF FlattenSeq
    <2>2. DOMAIN seqs = {} /\ 1..Len(seqs) = {}
      BY <1>1, <1>2
    <2>3. Range(seqs) = {} /\ UNION {Range(seqs[i]) : i \in 1..Len(seqs)} = {}
      BY <2>2 DEF Range
    <2>4. << >> \in Seq(S)
      BY EmptySeq
    <2> QED
      BY <2>1, <2>3, <2>4
  <1>3. CASE n # 0
    <2> DEFINE f == CHOOSE g : g = [i \in 1..n |-> IF i = 1 THEN seqs[i] ELSE g[i-1] \o seqs[i]]
               R(i) == UNION {Range(seqs[j]) : j \in 1..i}
               T == {i \in 1..n : ~(f[i] \in Seq(S) /\ Range(f[i]) = R(i))}
    <2>1. FlattenSeq(seqs) = f[n]
      BY <1>3 DEF FlattenSeq
    <2>2. f = [i \in 1..n |-> IF i = 1 THEN seqs[i] ELSE f[i-1] \o seqs[i]]
      <3>1. \E g : g = [i \in 1..n |-> IF i = 1 THEN seqs[i] ELSE g[i-1] \o seqs[i]]
        BY <1>1, FlattensExists DEF Flattens
      <3> QED
        BY <3>1
    <2> HIDE DEF f
    <2>3. \A i \in 1..n : f[i] = IF i = 1 THEN seqs[i] ELSE f[i-1] \o seqs[i]
      BY <2>2
    <2>4. T = {}
      <3> SUFFICES ASSUME T # {} PROVE FALSE
        OBVIOUS
      <3>0. T \in SUBSET Nat
        BY <1>1
      <3>1. PICK k \in T : \A m \in T : k <= m
        <4> HIDE DEF T
        <4> QED
          BY <3>0, Least
      <3>2. k \in 1..n /\ seqs[k] \in Seq(S)
        BY <1>1, <3>1
      <3>3. CASE k = 1
        <4>1. f[1] = seqs[1] /\ R(1) = Range(seqs[1])
          BY <2>3, <3>2, <3>3
        <4> QED
          BY <3>1, <3>2, <3>3, <4>1
      <3>4. CASE k # 1
        <4>0. k - 1 \in 1..n /\ ~(k <= k - 1)
          BY <1>1, <3>2, <3>4
        <4>1. k - 1 \in 1..n /\ k - 1 \notin T
          <5> HIDE DEF T
          <5> QED
            BY <3>1, <4>0
        <4>2. f[k-1] \in Seq(S) /\ Range(f[k-1]) = R(k - 1)
          BY <4>1
        <4>3. f[k] = f[k-1] \o seqs[k]
          BY <2>3, <3>2, <3>4
        <4>4. f[k] \in Seq(S) /\ Range(f[k]) = R(k - 1) \cup Range(seqs[k])
          BY <3>2, <4>2, <4>3, RangeConcat
        <4>5. 1..k = (1 .. k - 1) \cup {k}
          BY <1>1, <3>2
        <4>6. R(k) = R(k - 1) \cup Range(seqs[k])
          BY <4>5
        <4> QED
          BY <3>1, <4>4, <4>6
      <3> QED
        BY <3>3, <3>4
    <2>5. n \in 1..n
      BY <1>1, <1>3
    <2>6. f[n] \in Seq(S) /\ Range(f[n]) = R(n)
      BY <2>4, <2>5
    <2> QED
      BY <2>1, <2>6
  <1> QED
    BY <1>2, <1>3

\* The largest member of a set of the first n numbers is one of its members.
LEMMA MaxMember ==
  ASSUME NEW n \in Nat, NEW s \in SUBSET (1..n), s # {}
  PROVE  Max(s) \in s
  <1> DEFINE T == {n - x : x \in s}
  <1>0. \A x \in s : n - x \in Nat
    OBVIOUS
  <1>1. T \in SUBSET Nat /\ T # {}
    BY <1>0
  <1>2. PICK t \in T : \A u \in T : t <= u
    <2> HIDE DEF T
    <2> QED
      BY <1>1, Least
  <1>3. PICK x \in s : t = n - x
    OBVIOUS
  <1>4. \A y \in s : x >= y
    <2> TAKE y \in s
    <2>1. n - y \in T
      OBVIOUS
    <2>2. n - x <= n - y
      <3> HIDE DEF T
      <3> QED
        BY <1>2, <1>3, <2>1
    <2> QED
      BY <2>2
  <1> QED
    BY <1>4 DEF Max

\* g sums up the sizes of each of the sets, as the fold does.
Sums(sizes, sets, g) ==
  g = [s \in sets |-> IF s = {} THEN 0 ELSE g[s \ {Max(s)}] + sizes[Max(s)]]

\* Sets of at most k of the first n numbers.
UpTo(n, k) == {s \in SUBSET (1..n) : Cardinality(s) <= k}

LEMMA WithoutMax ==
  ASSUME NEW n \in Nat, NEW s \in SUBSET (1..n), s # {}
  PROVE  /\ Cardinality(s) \in Nat \ {0} /\ Cardinality(s) <= n
         /\ s \ {Max(s)} \in SUBSET (1..n)
         /\ Cardinality(s \ {Max(s)}) = Cardinality(s) - 1
         /\ Max(s) \in 1..n
  <1>1. IsFiniteSet(1..n) /\ Cardinality(1..n) <= n
    BY FS_Interval
  <1>2. IsFiniteSet(s) /\ Cardinality(s) <= Cardinality(1..n)
    BY <1>1, FS_Subset
  <1>3. Max(s) \in s
    BY MaxMember
  <1>4. Cardinality(s) \in Nat /\ Cardinality(1..n) \in Nat /\ Cardinality(s) # 0
    BY <1>1, <1>2, FS_CardinalityType, FS_EmptySet
  <1>5. Cardinality(s \ {Max(s)}) = Cardinality(s) - 1
    BY <1>2, <1>3, FS_RemoveElement
  <1>6. Cardinality(s) <= n
    BY <1>1, <1>2, <1>4
  <1>7. Max(s) \in 1..n /\ s \ {Max(s)} \in SUBSET (1..n)
    BY <1>3
  <1> QED
    BY <1>4, <1>5, <1>6, <1>7

LEMMA SumsExists ==
  ASSUME NEW sizes, NEW n \in Nat
  PROVE  \E g : Sums(sizes, SUBSET (1..n), g)
  <1> DEFINE T == {k \in Nat : ~\E g : Sums(sizes, UpTo(n, k), g)}
  <1>1. T = {}
    <2> SUFFICES ASSUME T # {} PROVE FALSE
      OBVIOUS
    <2>1. PICK k \in T : \A m \in T : k <= m
      BY Least
    <2>2. k \in Nat /\ ~\E g : Sums(sizes, UpTo(n, k), g)
      BY <2>1
    <2> DEFINE Body(g, s) == IF s = {} THEN 0 ELSE g[s \ {Max(s)}] + sizes[Max(s)]
    <2>3. CASE k = 0
      <3> DEFINE g == [s \in UpTo(n, 0) |-> 0]
      <3>1. ASSUME NEW s \in UpTo(n, 0) PROVE s = {}
        <4>1. s \in SUBSET (1..n) /\ Cardinality(s) <= 0
          BY <3>1 DEF UpTo
        <4>2. s # {} => Cardinality(s) \in Nat \ {0}
          BY <4>1, WithoutMax
        <4> QED
          BY <4>1, <4>2
      <3>2. g = [s \in UpTo(n, 0) |-> Body(g, s)]
        BY <3>1
      <3>3. Sums(sizes, UpTo(n, 0), g)
        BY <3>2 DEF Sums
      <3> QED
        BY <2>2, <2>3, <3>3
    <2>4. CASE k # 0
      <3>1. k - 1 \in Nat /\ ~(k <= k - 1)
        BY <2>2, <2>4
      <3>2. k - 1 \notin T
        <4> HIDE DEF T
        <4> QED
          BY <2>1, <3>1
      <3>3. PICK f : Sums(sizes, UpTo(n, k - 1), f)
        BY <3>1, <3>2
      <3> DEFINE g == [s \in UpTo(n, k) |-> IF s \in UpTo(n, k - 1) THEN f[s] ELSE Body(f, s)]
      <3>4. ASSUME NEW s \in UpTo(n, k)
            PROVE  g[s] = Body(g, s)
        <4>1. ASSUME s # {}
              PROVE  s \ {Max(s)} \in UpTo(n, k - 1) /\ s \ {Max(s)} \in UpTo(n, k)
          <5>1. s \in SUBSET (1..n) /\ Cardinality(s) <= k
            BY DEF UpTo
          <5>2. /\ Cardinality(s) \in Nat /\ s \ {Max(s)} \in SUBSET (1..n)
                /\ Cardinality(s \ {Max(s)}) = Cardinality(s) - 1
            BY <4>1, <5>1, WithoutMax
          <5>3. Cardinality(s) - 1 <= k - 1 /\ Cardinality(s) - 1 <= k
            BY <2>2, <5>1, <5>2
          <5> QED
            BY <5>2, <5>3 DEF UpTo
        <4>2. s # {} => g[s \ {Max(s)}] = f[s \ {Max(s)}]
          BY <4>1
        <4>3. s \in UpTo(n, k - 1) => f[s] = Body(f, s)
          BY <3>3 DEF Sums
        <4>4. g[s] = Body(f, s)
          <5>1. g[s] = IF s \in UpTo(n, k - 1) THEN f[s] ELSE Body(f, s)
            OBVIOUS
          <5> HIDE DEF g, Body
          <5> QED
            BY <4>3, <5>1
        <4> HIDE DEF g
        <4> QED
          BY <4>2, <4>4
      <3>5. g = [s \in UpTo(n, k) |-> g[s]]
        OBVIOUS
      <3> HIDE DEF g
      <3>6. Sums(sizes, UpTo(n, k), g)
        BY <3>4, <3>5 DEF Sums
      <3> QED
        BY <2>2, <3>6
    <2> QED
      BY <2>3, <2>4
  <1>2. UpTo(n, n) = SUBSET (1..n)
    <2>1. ASSUME NEW s \in SUBSET (1..n) PROVE Cardinality(s) <= n
      <3>1. Cardinality({}) = 0 /\ 0 <= n
        BY FS_EmptySet
      <3> QED
        BY <3>1, WithoutMax
    <2> QED
      BY <2>1 DEF UpTo
  <1>3. \E g : Sums(sizes, UpTo(n, n), g)
    <2>1. n \notin T
      BY <1>1
    <2> QED
      BY <2>1
  <1> QED
    BY <1>2, <1>3

\* A total of sizes is a size.
LEMMA TotalOfNat ==
  ASSUME NEW sizes \in Seq(Nat)
  PROVE  TotalOf(sizes) \in Nat
  <1> DEFINE n == Len(sizes)
             g == CHOOSE f : f = [s \in SUBSET (1..n) |->
                    IF s = {} THEN 0 ELSE f[s \ {Max(s)}] + sizes[Max(s)]]
             T == {k \in Nat : \E s \in SUBSET (1..n) : Cardinality(s) = k /\ g[s] \notin Nat}
  <1>1. n \in Nat /\ DOMAIN sizes = 1..n
    BY LenProperties
  <1>2. TotalOf(sizes) = g[1..n]
    BY <1>1 DEF TotalOf, FoldLeft, MapThenFoldSet
  <1>3. Sums(sizes, SUBSET (1..n), g)
    <2>1. \E f : f = [s \in SUBSET (1..n) |->
                    IF s = {} THEN 0 ELSE f[s \ {Max(s)}] + sizes[Max(s)]]
      BY <1>1, SumsExists DEF Sums
    <2> QED
      BY <2>1 DEF Sums
  <1> HIDE DEF g
  <1>4. T = {}
    <2> SUFFICES ASSUME T # {} PROVE FALSE
      OBVIOUS
    <2>0. T \in SUBSET Nat
      OBVIOUS
    <2>1. PICK k \in T : \A m \in T : k <= m
      <3> HIDE DEF T
      <3> QED
        BY <2>0, Least
    <2>2. PICK s \in SUBSET (1..n) : Cardinality(s) = k /\ g[s] \notin Nat
      BY <2>1
    <2>3. g[s] = IF s = {} THEN 0 ELSE g[s \ {Max(s)}] + sizes[Max(s)]
      BY <1>3 DEF Sums
    <2>4. s # {}
      BY <2>2, <2>3
    <2>5. /\ s \ {Max(s)} \in SUBSET (1..n) /\ k \in Nat \ {0}
          /\ Cardinality(s \ {Max(s)}) = k - 1
          /\ Max(s) \in 1..n
      BY <1>1, <2>2, <2>4, WithoutMax
    <2>6. k - 1 \in Nat /\ ~(k <= k - 1)
      BY <2>5
    <2>7. k - 1 \notin T
      <3> HIDE DEF T
      <3> QED
        BY <2>1, <2>6
    <2>8. g[s \ {Max(s)}] \in Nat
      BY <2>5, <2>6, <2>7
    <2>9. sizes[Max(s)] \in Nat
      BY <2>5, ElementOfSeq
    <2> QED
      BY <2>2, <2>3, <2>4, <2>8, <2>9
  <1>5. 1..n \in SUBSET (1..n) /\ Cardinality(1..n) \in Nat
    BY <1>1, FS_Interval, FS_CardinalityType
  <1> QED
    BY <1>2, <1>4, <1>5
-----------------------------------------------------------------------------
(***************************************************************************)
(* The order of channels.  A channel's place in the arrangement is the     *)
(* number of lower speakers, and the remapper's map leads from the place   *)
(* back to the channel.                                                    *)
(***************************************************************************)
\* A sort is a permutation, whatever order it finds.
Permutes(n, s) ==
  LET N == 0 .. n - 1 IN
  /\ s \in [N -> N]
  /\ \A a, b \in N : a # b => s[a] # s[b]
  /\ \A c \in N : \E h \in N : s[h] = c

LEMMA SortPermutes ==
  ASSUME NEW n \in Nat, NEW sp, NEW s \in Sorts(n, sp)
  PROVE  Permutes(n, s)
  <1> DEFINE N == 0 .. n - 1
  <1>1. s \in [N -> N] /\ \A a, b \in N : a < b => s[a] # s[b]
    BY DEF Sorts
  <1>2. \A a, b \in N : a = b \/ a < b \/ b < a
    OBVIOUS
  <1>3. IsFiniteSet(N)
    BY FS_Interval
  <1> HIDE DEF N
  <1>4. s \in Injection(N, N)
    BY <1>1, <1>2 DEF Injection, IsInjective
  <1>5. s \in Surjection(N, N)
    BY <1>3, <1>4, FS_Injection
  <1> QED
    BY <1>1, <1>2, <1>5 DEF Permutes, Surjection, N

LEMMA SortRank ==
  ASSUME NEW n \in Nat, NEW sp, \A i \in 1..n : sp[i] \in Int,
         \A i, j \in 1..n : i # j => sp[i] # sp[j],
         NEW s \in Sorts(n, sp), NEW c \in 0 .. n - 1
  PROVE  \E h \in 0 .. n - 1 :
           s[h] = c /\ Cardinality({d \in 1..n : sp[d] < sp[c + 1]}) = h
  <1> DEFINE N == 0 .. n - 1
  <1>1. s \in [N -> N] /\ \A a, b \in N : a < b => s[a] # s[b] /\ sp[s[a] + 1] <= sp[s[b] + 1]
    BY DEF Sorts
  <1>2. \A a, b \in N : a = b \/ a < b \/ b < a
    OBVIOUS
  <1>5. \A d \in N : \E k \in N : s[k] = d
    <2>1. Permutes(n, s)
      BY SortPermutes
    <2> QED
      BY <2>1 DEF Permutes
  <1>6. PICK h \in N : s[h] = c
    BY <1>5
  <1> DEFINE D == {d \in 1..n : sp[d] < sp[c + 1]}
             L == 0 .. h - 1
             f == [k \in L |-> s[k] + 1]
  <1>7. \A k \in N : s[k] \in N /\ s[k] + 1 \in 1..n /\ sp[s[k] + 1] \in Int
    <2> TAKE k \in N
    <2>1. s[k] \in N
      <3> HIDE DEF N
      <3> QED
        BY <1>1
    <2>2. s[k] + 1 \in 1..n
      BY <2>1
    <2> QED
      BY <2>1, <2>2
  <1>8. ASSUME NEW k \in N
        PROVE  k < h <=> sp[s[k] + 1] < sp[c + 1]
    <2>1. CASE k = h
      <3>1. sp[s[k] + 1] = sp[c + 1] /\ sp[c + 1] \in Int
        BY <1>6, <1>7, <2>1
      <3> QED
        BY <2>1, <3>1
    <2>2. CASE k < h
      <3>1. s[k] # s[h] /\ sp[s[k] + 1] <= sp[s[h] + 1]
        BY <1>1, <2>2
      <3>2. s[k] + 1 # s[h] + 1
        BY <1>7, <3>1
      <3>3. sp[s[k] + 1] # sp[s[h] + 1]
        BY <1>7, <3>2
      <3> QED
        <4>1. sp[s[k] + 1] \in Int /\ sp[s[h] + 1] \in Int
          BY <1>7
        <4>2. sp[s[k] + 1] < sp[s[h] + 1]
          BY <3>1, <3>3, <4>1
        <4> QED
          BY <1>6, <2>2, <4>2
    <2>3. CASE h < k
      <3>1. sp[s[h] + 1] <= sp[s[k] + 1]
        BY <1>1, <2>3
      <3> QED
        BY <1>6, <1>7, <2>3, <3>1
    <2> QED
      BY <1>2, <2>1, <2>2, <2>3
  <1>9. \A k \in L : k \in N /\ k < h
    OBVIOUS
  <1>10. f \in [L -> D]
    BY <1>7, <1>8, <1>9
  <1>11. f \in Injection(L, D)
    <2>1. ASSUME NEW a \in L, NEW b \in L, f[a] = f[b] PROVE a = b
      <3>1. a \in N /\ b \in N /\ s[a] + 1 = s[b] + 1
        BY <1>9, <2>1
      <3>2. s[a] = s[b]
        BY <1>7, <3>1
      <3> QED
        BY <1>1, <1>2, <3>1, <3>2
    <2> HIDE DEF f, L, D
    <2>2. DOMAIN f = L
      BY <1>10
    <2> QED
      BY <1>10, <2>1, <2>2 DEF Injection, IsInjective
  <1>12. ASSUME NEW d \in D PROVE \E k \in L : f[k] = d
    <2>1. d - 1 \in N
      OBVIOUS
    <2>2. PICK k \in N : s[k] = d - 1
      BY <1>5, <2>1
    <2>3. s[k] + 1 = d
      BY <2>2
    <2>4. k < h
      BY <1>8, <2>3
    <2>5. k \in L
      BY <2>4
    <2> QED
      BY <2>3, <2>5
  <1>13. Cardinality(D) = Cardinality(L)
    <2>1. IsFiniteSet(L)
      BY FS_Interval
    <2> HIDE DEF f, L, D
    <2>2. f \in Bijection(L, D)
      BY <1>10, <1>11, <1>12 DEF Bijection, Surjection
    <2> QED
      BY <2>1, <2>2, FS_Bijection DEF ExistsBijection
  <1>14. Cardinality(L) = h
    BY FS_Interval
  <1> QED
    BY <1>6, <1>13, <1>14

\* A valid mapping is the identity, or a sort of speakers that are told apart.
LEMMA ValidCases ==
  ASSUME NEW count \in Nat, NEW map, NEW m \in Configure(count, map), m.valid
  PROVE  \/ count <= 1 /\ m.v3_to_clap = [c \in 0 .. count - 1 |-> c]
         \/ /\ ~(count <= 1)
            /\ ~(Len(Speakers(count, map)) < count) /\ ~Refused(count, Speakers(count, map))
            /\ m.v3_to_clap \in Sorts(count, Speakers(count, map))
  <1> DEFINE sp == Speakers(count, map)
  <1>1. m # Invalid
    BY DEF Invalid
  <1>2. ~(count > MaxChannels)
    BY <1>1, Zenon DEF Configure
  <1>3. CASE count <= 1
    <2>1. m = [valid |-> TRUE, arrangement |-> IF count = 0 THEN {} ELSE {Mono},
               v3_to_clap |-> [c \in 0 .. count - 1 |-> c]]
      BY <1>2, <1>3, Zenon DEF Configure
    <2> QED
      BY <1>3, <2>1
  <1>4. CASE ~(count <= 1)
    <2>1. ~(Len(sp) < count \/ Refused(count, sp))
      BY <1>1, <1>2, <1>4, Zenon DEF Configure
    <2>2. m \in {[valid |-> TRUE, arrangement |-> Bits({sp[c] : c \in 1..count}),
                  v3_to_clap |-> s] : s \in Sorts(count, sp)}
      BY <1>2, <1>4, <2>1, Zenon DEF Configure
    <2>3. PICK s \in Sorts(count, sp) :
            m = [valid |-> TRUE, arrangement |-> Bits({sp[c] : c \in 1..count}), v3_to_clap |-> s]
      BY <2>2
    <2>4. m.v3_to_clap = s
      BY <2>3
    <2> HIDE DEF sp
    <2> QED
      BY <1>4, <2>1, <2>4 DEF sp
  <1> QED
    BY <1>3, <1>4

LEMMA ValidPermutes ==
  ASSUME NEW port \in Port, NEW m \in MappingsOf(port), m.valid
  PROVE  Permutes(port.count, m.v3_to_clap)
  <1>1. port.count \in Nat /\ m \in Configure(port.count, StoredMap(port))
    BY DEF Port, MappingsOf
  <1>2. CASE m.v3_to_clap = [c \in 0 .. port.count - 1 |-> c]
    BY <1>2 DEF Permutes
  <1>3. CASE m.v3_to_clap \in Sorts(port.count, Speakers(port.count, StoredMap(port)))
    BY <1>1, <1>3, SortPermutes
  <1> QED
    BY <1>1, <1>2, <1>3, ValidCases

\* No two channels of a port have the same speaker above 31, where the bits
\* that configure keeps cannot tell.  The speakers of CLAP end at 17.
TellsApart(port) ==
  \A i, j \in 1..port.count \cap DOMAIN port.map :
    i # j /\ port.map[i] = port.map[j] => port.map[i] \in 0..31

\* The remapper's map leads from the place of a channel's speaker to the channel.
LEMMA ValidOrder ==
  ASSUME NEW port \in Port, TellsApart(port), NEW m \in MappingsOf(port), m.valid
  PROVE  \A c \in 0 .. port.count - 1 :
           Rank(port, c) \in 0 .. port.count - 1 /\ m.v3_to_clap[Rank(port, c)] = c
  <1> DEFINE n  == port.count
             N  == 0 .. n - 1
             st == StoredMap(port)
             sp == Speakers(n, st)
             sq == Speakers(n, port.map)
  <1>1. n \in Nat /\ port.map \in Seq(Nat)
    BY DEF Port
  <1>2. /\ st \in Seq(Nat) /\ Len(port.map) \in Nat /\ DOMAIN port.map = 1..Len(port.map)
        /\ Len(st) <= Len(port.map) /\ DOMAIN st = 1..Len(st)
        /\ Len(st) \in Nat /\ (Len(port.map) # 0 => Len(st) # 0)
        /\ \A i \in 1..Len(st) : st[i] = port.map[i]
    <2> DEFINE k == IF Len(port.map) < MapCapacity THEN Len(port.map) ELSE MapCapacity
    <2>1. Len(port.map) \in Nat /\ DOMAIN port.map = 1..Len(port.map)
      BY <1>1, LenProperties
    <2>2. k \in Nat /\ k <= Len(port.map) /\ (Len(port.map) # 0 => k # 0)
      BY <2>1 DEF MapCapacity
    <2>3. st = SubSeq(port.map, 1, k)
      BY DEF StoredMap
    <2> HIDE DEF k
    <2>4. \A i \in 1..k : port.map[i] \in Nat
      BY <1>1, <2>1, <2>2, ElementOfSeq
    <2>5. /\ st \in Seq(Nat) /\ Len(st) = IF 1 <= k THEN k - 1 + 1 ELSE 0
          /\ \A i \in 1 .. k - 1 + 1 : st[i] = port.map[1 + i - 1]
      BY ONLY <2>2, <2>3, <2>4, SubSeqProperties
    <2>6. Len(st) = k /\ k - 1 + 1 = k
      BY <2>2, <2>5
    <2>7. \A i \in 1..k : st[i] = port.map[i]
      BY <2>2, <2>5, <2>6
    <2>8. DOMAIN st = 1..Len(st)
      BY <2>5, LenProperties
    <2> QED
      BY <2>1, <2>2, <2>5, <2>6, <2>7, <2>8
  <1>3. st = << >> <=> port.map = << >>
    BY <1>1, <1>2, EmptySeq
  <1>4. m \in Configure(n, st)
    BY DEF MappingsOf
  <1>5. CASE n <= 1
    <2>1. m.v3_to_clap = [c \in N |-> c]
      BY <1>1, <1>4, <1>5, ValidCases
    <2>2. ASSUME NEW c \in N PROVE Rank(port, c) = c
      <3>1. n = 1 /\ c = 0
        BY <1>1, <1>5
      <3>2. sq[1] \in Int
        <4>1. CASE port.map = << >>
          BY <3>1, <4>1 DEF Speakers
        <4>2. CASE port.map # << >>
          <5>1. 1 \in 1..Len(port.map)
            BY <1>1, <1>2, <4>2, EmptySeq
          <5>2. port.map[1] \in Nat
            BY <1>1, <5>1, ElementOfSeq
          <5> QED
            BY <4>2, <5>2 DEF Speakers
        <4> QED
          BY <4>1, <4>2
      <3>3. {d \in 1..n : sq[d] < sq[c + 1]} = {}
        <4> HIDE DEF sq
        <4> QED
          BY <3>1, <3>2
      <3>4. Rank(port, c) = Cardinality({d \in 1..n : sq[d] < sq[c + 1]})
        BY DEF Rank
      <3> QED
        BY <3>1, <3>3, <3>4, FS_EmptySet
    <2> QED
      BY <2>1, <2>2
  <1>6. CASE ~(n <= 1)
    <2>1. ~(Len(sp) < n) /\ ~Refused(n, sp) /\ m.v3_to_clap \in Sorts(n, sp)
      BY <1>1, <1>4, <1>6, ValidCases
    <2>2. m.v3_to_clap \in Sorts(n, sp)
      BY <2>1
    <2>3. \A i \in 1..n : sq[i] = sp[i] /\ sp[i] \in Nat
      <3>1. CASE port.map = << >>
        BY <1>3, <3>1 DEF Speakers
      <3>2. CASE port.map # << >>
        <4>1. sq = port.map /\ sp = st
          BY <1>3, <3>2 DEF Speakers
        <4>2. 1..n \subseteq 1..Len(st)
          BY <1>1, <1>2, <2>1, <4>1
        <4>3. \A i \in 1..Len(st) : st[i] \in Nat
          BY <1>2, ElementOfSeq
        <4> QED
          BY <1>2, <4>1, <4>2, <4>3
      <3> QED
        BY <3>1, <3>2
    <2>4. ASSUME NEW i \in 1..n, NEW j \in 1..n, i # j PROVE sp[i] # sp[j]
      <3>1. CASE port.map = << >>
        BY <1>3, <2>4, <3>1 DEF Speakers
      <3>2. CASE port.map # << >>
        <4>1. sp = st
          BY <1>3, <3>2 DEF Speakers
        <4>6. ~(Len(st) < n)
          BY <2>1, <4>1
        <4>2. i \in 1..Len(st) /\ j \in 1..Len(st)
          BY <1>1, <1>2, <4>6
        <4>3. i \in DOMAIN port.map /\ j \in DOMAIN port.map
          BY <1>2, <4>2
        <4>4. sp[i] = port.map[i] /\ sp[j] = port.map[j]
          BY <1>2, <4>1, <4>2
        <4>5. sp[i] = sp[j] => sp[i] \in 0..31
          BY <2>4, <4>3, <4>4 DEF TellsApart
        <4> QED
          BY <2>1, <2>4, <4>5 DEF Refused
      <3> QED
        BY <3>1, <3>2
    <2> HIDE DEF sp, sq
    <2>5. ASSUME NEW c \in N
          PROVE  Rank(port, c) \in N /\ m.v3_to_clap[Rank(port, c)] = c
      <3>1. Rank(port, c) = Cardinality({d \in 1..n : sq[d] < sq[c + 1]})
        BY DEF Rank, sq
      <3>2. {d \in 1..n : sq[d] < sq[c + 1]} = {d \in 1..n : sp[d] < sp[c + 1]}
        <4>1. c + 1 \in 1..n
          BY <1>1
        <4> QED
          BY <2>3, <4>1
      <3>3. \A i \in 1..n : sp[i] \in Int
        BY <2>3
      <3>4. \E h \in 0 .. n - 1 :
              m.v3_to_clap[h] = c /\ Cardinality({d \in 1..n : sp[d] < sp[c + 1]}) = h
        <4>1. \A i, j \in 1..n : i # j => sp[i] # sp[j]
          BY <2>4
        <4> DEFINE s == m.v3_to_clap
        <4>2. s \in Sorts(n, sp) /\ c \in 0 .. n - 1 /\ n \in Nat
          BY <1>1, <2>2
        <4> HIDE DEF s, n
        <4>3. \E h \in 0 .. n - 1 :
                s[h] = c /\ Cardinality({d \in 1..n : sp[d] < sp[c + 1]}) = h
          BY <3>3, <4>1, <4>2, SortRank
        <4> QED
          BY <4>3 DEF s
      <3> QED
        BY <3>1, <3>2, <3>4
    <2> QED
      BY <2>5
  <1> QED
    BY <1>5, <1>6
-----------------------------------------------------------------------------
(***************************************************************************)
(* The plan of a call.                                                     *)
(***************************************************************************)
Kinds == {"inputs", "outputs", "input pointers", "output pointers", "input", "output"}

EntrySet == [kind : Kinds, port : Nat, channel : Nat]

\* The entries of a list of ports.
ArrayEntries(array, list)     == {Entry(array, p, 0) : p \in DOMAIN list}
ChannelEntries(channel, list) ==
  UNION {{Entry(channel, p, c) : c \in 0 .. list[p].count - 1} : p \in DOMAIN list}

LEMMA PortsEntries ==
  ASSUME NEW list \in Seq(Port), NEW array \in Kinds, NEW channel \in Kinds
  PROVE  /\ PortEntries(array, channel, list) \in Seq(EntrySet)
         /\ Range(PortEntries(array, channel, list)) =
              ArrayEntries(array, list) \cup ChannelEntries(channel, list)
  <1> DEFINE head(p) == <<Entry(array, p, 0)>>
             tail(p) == [c \in 1 .. list[p].count |-> Entry(channel, p, c - 1)]
             seqs == [p \in DOMAIN list |-> head(p) \o tail(p)]
  <1>1. /\ Len(list) \in Nat /\ DOMAIN list = 1..Len(list)
        /\ \A p \in DOMAIN list : p \in Nat /\ list[p].count \in Nat
    <2>1. Len(list) \in Nat /\ DOMAIN list = 1..Len(list)
      BY LenProperties
    <2>2. \A p \in DOMAIN list : list[p] \in Port
      BY <2>1, ElementOfSeq
    <2> QED
      BY <2>1, <2>2 DEF Port
  <1>2. ASSUME NEW p \in DOMAIN list
        PROVE  /\ seqs[p] \in Seq(EntrySet)
               /\ Range(seqs[p]) = {Entry(array, p, 0)}
                    \cup {Entry(channel, p, c) : c \in 0 .. list[p].count - 1}
    <2> DEFINE n == list[p].count
    <2>1. p \in Nat /\ n \in Nat
      BY <1>1
    <2>2. head(p) \in Seq(EntrySet) /\ Range(head(p)) = {Entry(array, p, 0)}
      BY <2>1 DEF Entry, EntrySet, Range
    <2>3. tail(p) \in Seq(EntrySet) /\ DOMAIN tail(p) = 1..n
      <3>1. \A c \in 1..n : Entry(channel, p, c - 1) \in EntrySet
        BY <2>1 DEF Entry, EntrySet
      <3>2. tail(p) = [c \in 1..n |-> Entry(channel, p, c - 1)]
        OBVIOUS
      <3> HIDE DEF tail, n
      <3>3. tail(p) \in [1..n -> EntrySet]
        BY <3>1, <3>2
      <3> QED
        BY <2>1, <3>3
    <2>4. Range(tail(p)) = {Entry(channel, p, c) : c \in 0 .. n - 1}
      <3>1. Range(tail(p)) = {Entry(channel, p, c - 1) : c \in 1..n}
        BY DEF Range
      <3>2. \A c \in 1..n : c - 1 \in 0 .. n - 1
        BY <2>1
      <3>3. \A c \in 0 .. n - 1 : c + 1 \in 1..n /\ (c + 1) - 1 = c
        BY <2>1
      <3> HIDE DEF n
      <3> QED
        BY <3>1, <3>2, <3>3
    <2>5. seqs[p] = head(p) \o tail(p)
      OBVIOUS
    <2> HIDE DEF seqs, head, tail, n
    <2>6. seqs[p] \in Seq(EntrySet) /\ Range(seqs[p]) = Range(head(p)) \cup Range(tail(p))
      BY <2>2, <2>3, <2>5, RangeConcat
    <2> QED
      BY <2>2, <2>4, <2>6 DEF n
  <1>3. PortEntries(array, channel, list) = FlattenSeq(seqs)
    BY DEF PortEntries
  <1>4. DOMAIN seqs = 1..Len(list)
    BY <1>1
  <1> HIDE DEF seqs
  <1>5. seqs \in Seq(Seq(EntrySet)) /\ Len(seqs) = Len(list)
    <2>1. seqs = [p \in 1..Len(list) |-> seqs[p]]
      BY <1>1 DEF seqs
    <2>2. \A p \in 1..Len(list) : seqs[p] \in Seq(EntrySet)
      BY <1>1, <1>2
    <2> QED
      BY <1>1, <2>1, <2>2
  <1>6. /\ FlattenSeq(seqs) \in Seq(EntrySet)
        /\ Range(FlattenSeq(seqs)) = UNION {Range(seqs[p]) : p \in DOMAIN list}
    BY <1>1, <1>5, RangeFlatten
  <1>7. UNION {Range(seqs[p]) : p \in DOMAIN list}
          = ArrayEntries(array, list) \cup ChannelEntries(channel, list)
    <2> DEFINE A(p) == {Entry(array, p, 0)}
               C(p) == {Entry(channel, p, c) : c \in 0 .. list[p].count - 1}
    <2>1. \A p \in DOMAIN list : Range(seqs[p]) = A(p) \cup C(p)
      BY <1>2
    <2>2. /\ ArrayEntries(array, list) = UNION {A(p) : p \in DOMAIN list}
          /\ ChannelEntries(channel, list) = UNION {C(p) : p \in DOMAIN list}
      BY DEF ArrayEntries, ChannelEntries
    <2> HIDE DEF A, C
    <2> QED
      BY <2>1, <2>2
  <1> QED
    BY <1>3, <1>6, <1>7

LEMMA RangeConcats ==
  ASSUME NEW S, NEW a \in Seq(S), NEW b \in Seq(S), NEW c \in Seq(S), NEW d \in Seq(S)
  PROVE  /\ ((a \o b) \o c) \o d \in Seq(S)
         /\ Range(((a \o b) \o c) \o d) = ((Range(a) \cup Range(b)) \cup Range(c)) \cup Range(d)
  <1> DEFINE ab  == a \o b
             abc == ab \o c
  <1>1. ab \in Seq(S) /\ Range(ab) = Range(a) \cup Range(b)
    BY RangeConcat
  <1> HIDE DEF ab
  <1>2. abc \in Seq(S) /\ Range(abc) = Range(ab) \cup Range(c)
    BY <1>1, RangeConcat
  <1> HIDE DEF abc
  <1>3. abc \o d \in Seq(S) /\ Range(abc \o d) = Range(abc) \cup Range(d)
    BY <1>2, RangeConcat
  <1> QED
    BY <1>1, <1>2, <1>3 DEF ab, abc

\* What is in the plan.
Planned ==
  {Entry("inputs", 0, 0), Entry("outputs", 0, 0)}
    \cup ArrayEntries("input pointers", ports.inputs)
    \cup ArrayEntries("output pointers", ports.outputs)
    \cup ChannelEntries("input", ports.inputs)
    \cup ChannelEntries("output", ports.outputs)

LEMMA PlanEntries ==
  ASSUME ports.inputs \in Seq(Port), ports.outputs \in Seq(Port)
  PROVE  /\ Plan \in Seq(EntrySet) /\ Len(Plan) \in Nat /\ DOMAIN Plan = 1..Len(Plan)
         /\ Range(Plan) = Planned
  <1> DEFINE a == <<Entry("inputs", 0, 0)>>
             b == PortEntries("input pointers", "input", ports.inputs)
             c == <<Entry("outputs", 0, 0)>>
             d == PortEntries("output pointers", "output", ports.outputs)
  <1>1. a \in Seq(EntrySet) /\ Range(a) = {Entry("inputs", 0, 0)}
    BY DEF Entry, EntrySet, Kinds, Range
  <1>2. c \in Seq(EntrySet) /\ Range(c) = {Entry("outputs", 0, 0)}
    BY DEF Entry, EntrySet, Kinds, Range
  <1>3. /\ b \in Seq(EntrySet)
        /\ Range(b) = ArrayEntries("input pointers", ports.inputs)
                        \cup ChannelEntries("input", ports.inputs)
    BY PortsEntries DEF Kinds
  <1>4. /\ d \in Seq(EntrySet)
        /\ Range(d) = ArrayEntries("output pointers", ports.outputs)
                        \cup ChannelEntries("output", ports.outputs)
    BY PortsEntries DEF Kinds
  <1>5. Plan = ((a \o b) \o c) \o d
    BY DEF Plan
  <1> HIDE DEF a, b, c, d
  <1>8. /\ Plan \in Seq(EntrySet)
        /\ Range(Plan) = ((Range(a) \cup Range(b)) \cup Range(c)) \cup Range(d)
    <2>1. a \in Seq(EntrySet) /\ b \in Seq(EntrySet) /\ c \in Seq(EntrySet) /\ d \in Seq(EntrySet)
      BY <1>1, <1>2, <1>3, <1>4
    <2> QED
      BY <1>5, <2>1, RangeConcats
  <1>9. Len(Plan) \in Nat /\ DOMAIN Plan = 1..Len(Plan)
    BY <1>8, LenProperties
  <1>10. Range(Plan) = Planned
    BY <1>1, <1>2, <1>3, <1>4, <1>8 DEF Planned
  <1> QED
    BY <1>8, <1>9, <1>10

\* An entry of the plan: a channel, or an array.
LEMMA PlanCases ==
  ASSUME ports.inputs \in Seq(Port), ports.outputs \in Seq(Port), NEW i \in DOMAIN Plan
  PROVE  \/ \E p \in DOMAIN ports.inputs : \E c \in 0 .. ports.inputs[p].count - 1 :
              Plan[i] = Entry("input", p, c)
         \/ \E p \in DOMAIN ports.outputs : \E c \in 0 .. ports.outputs[p].count - 1 :
              Plan[i] = Entry("output", p, c)
         \/ \E p \in DOMAIN ports.inputs : Plan[i] = Entry("input pointers", p, 0)
         \/ \E p \in DOMAIN ports.outputs : Plan[i] = Entry("output pointers", p, 0)
         \/ Plan[i] = Entry("inputs", 0, 0) \/ Plan[i] = Entry("outputs", 0, 0)
  <1>1. Plan[i] \in Planned
    BY PlanEntries DEF Range
  <1>2. ASSUME NEW channel, NEW list, Plan[i] \in ChannelEntries(channel, list)
        PROVE  \E p \in DOMAIN list : \E c \in 0 .. list[p].count - 1 : Plan[i] = Entry(channel, p, c)
    BY <1>2 DEF ChannelEntries
  <1>3. ASSUME NEW array, NEW list, Plan[i] \in ArrayEntries(array, list)
        PROVE  \E p \in DOMAIN list : Plan[i] = Entry(array, p, 0)
    BY <1>3 DEF ArrayEntries
  <1>4. CASE Plan[i] \in ChannelEntries("input", ports.inputs)
    BY <1>2, <1>4
  <1>5. CASE Plan[i] \in ChannelEntries("output", ports.outputs)
    BY <1>2, <1>5
  <1>6. CASE Plan[i] \in ArrayEntries("input pointers", ports.inputs)
    BY <1>3, <1>6
  <1>7. CASE Plan[i] \in ArrayEntries("output pointers", ports.outputs)
    BY <1>3, <1>7
  <1> QED
    BY <1>1, <1>4, <1>5, <1>6, <1>7 DEF Planned

\* All channels of all ports are in the plan.
LEMMA PlanComplete ==
  ASSUME ports.inputs \in Seq(Port), ports.outputs \in Seq(Port)
  PROVE  /\ \A p \in DOMAIN ports.inputs : \A c \in 0 .. ports.inputs[p].count - 1 :
              \E i \in 1..Len(Plan) : Plan[i] = Entry("input", p, c)
         /\ \A p \in DOMAIN ports.outputs : \A c \in 0 .. ports.outputs[p].count - 1 :
              \E i \in 1..Len(Plan) : Plan[i] = Entry("output", p, c)
  <1>1. ASSUME NEW e \in Range(Plan) PROVE \E i \in 1..Len(Plan) : Plan[i] = e
    BY PlanEntries DEF Range
  <1>2. ASSUME NEW channel, NEW list, NEW p \in DOMAIN list, NEW c \in 0 .. list[p].count - 1
        PROVE  Entry(channel, p, c) \in ChannelEntries(channel, list)
    BY DEF ChannelEntries
  <1>3. /\ ChannelEntries("input", ports.inputs) \subseteq Range(Plan)
        /\ ChannelEntries("output", ports.outputs) \subseteq Range(Plan)
    BY PlanEntries DEF Planned
  <1> QED
    BY <1>1, <1>2, <1>3
-----------------------------------------------------------------------------
(***************************************************************************)
(* The buffers of a call.                                                  *)
(***************************************************************************)
\* The remappers belong to the cached ports and are valid.
Mapped(r, list) ==
  /\ DOMAIN r = DOMAIN list
  /\ \A p \in DOMAIN list : r[p] \in MappingsOf(list[p]) /\ r[p].valid

MapsInv ==
  pc \notin {"created", "fatal"} =>
    /\ ports.inputs \in Seq(Port) /\ ports.outputs \in Seq(Port)
    /\ Mapped(remappers.inputs, ports.inputs) /\ Mapped(remappers.outputs, ports.outputs)

\* Between calls the allocator is as it was constructed.
QuietInv == pc \in {"created", "inactive", "idle"} => top = 0 /\ blocks = << >>

\* What the host passed, and the plugin's channels.
CallInv ==
  pc \in {"prepare", "release"} =>
    /\ data \in DataSet /\ at \in Nat \ {0}
    /\ DOMAIN inputs = DOMAIN ports.inputs /\ DOMAIN constant = DOMAIN ports.inputs
    /\ DOMAIN outputs = DOMAIN ports.outputs /\ DOMAIN silence = DOMAIN data.outputs
    /\ \A p \in DOMAIN ports.inputs : DOMAIN inputs[p] = 0 .. ports.inputs[p].count - 1
    /\ \A p \in DOMAIN ports.outputs : DOMAIN outputs[p] = 0 .. ports.outputs[p].count - 1

\* Entry e of the plan was done.
Done(e) == \E i \in 1 .. at - 1 : i \in DOMAIN Plan /\ Plan[i] = e

\* The copy of the host's channel h of input port p.
Copied(p, h, pointer) ==
  \E b \in Range(blocks) : b.size = data.nframes * data.real /\ pointer = <<"copy", p, h, b.at>>

\* What was set for the host's channel h of a port.
InputAt(p, h) ==
  LET m == remappers.inputs[p].v3_to_clap[h] IN
  /\ Done(Entry("input", p, h)) =>
       IF Present(data.inputs, p, h) THEN Copied(p, h, inputs[p][m]) ELSE inputs[p][m] = <<"zero">>
  /\ m \in constant[p] <=> Done(Entry("input", p, h)) /\ SilentInput(p, h)

OutputAt(p, h) ==
  Done(Entry("output", p, h)) =>
    outputs[p][remappers.outputs[p].v3_to_clap[h]] =
      IF Present(data.outputs, p, h) THEN <<"host", p, h>> ELSE <<"trash">>

PrepareInv ==
  pc = "prepare" =>
    /\ \A p \in DOMAIN ports.inputs : \A h \in 0 .. ports.inputs[p].count - 1 : InputAt(p, h)
    /\ \A p \in DOMAIN ports.outputs : \A h \in 0 .. ports.outputs[p].count - 1 : OutputAt(p, h)

\* The ports that were told to the host.
ReleaseInv ==
  pc = "release" =>
    \A p \in DOMAIN ports.outputs : p < at => silence[p] = SilentOutputs(p)

IInv == CachesInv /\ MapsInv /\ BlocksInv /\ QuietInv /\ CallInv /\ PrepareInv /\ ReleaseInv

-----------------------------------------------------------------------------
\* Steps that leave the cache alone.
LEMMA CacheKept ==
  ASSUME CachesInv, MapsInv, UNCHANGED cache, pc \notin {"created", "fatal"}
  PROVE  CachesInv' /\ MapsInv'
  <1>1. CachesInv'
    BY DEF CachesInv, ConfigsInv, Config, ValidLayout, CacheTrue, ArrangementHonoured, cache
  <1>2. MapsInv'
    BY DEF MapsInv, Mapped, cache
  <1> QED
    BY <1>1, <1>2

LEMMA ReadMaps ==
  ASSUME plugin \in Plugins, NEW n \in DOMAIN plugin.layouts, ReadPorts(n)
  PROVE  MapsInv' /\ pc' \in {"inactive", "fatal"}
  <1> DEFINE in  == plugin.layouts[n].inputs
             out == plugin.layouts[n].outputs
  <1>1. in \in Seq(Port) /\ out \in Seq(Port)
    BY LayoutLists
  <1>2. PICK i \in RemappersOf(in), o \in RemappersOf(out) :
          /\ ports' = [inputs |-> in, outputs |-> out]
          /\ remappers' = [inputs |-> i, outputs |-> o]
          /\ pc' = IF AllValid(i) /\ AllValid(o) THEN "inactive" ELSE "fatal"
    BY DEF ReadPorts
  <1> HIDE DEF in, out
  <1>3. ASSUME NEW list, NEW r \in RemappersOf(list), AllValid(r)
        PROVE  Mapped(r, list)
    BY <1>3 DEF RemappersOf, AllValid, Mapped
  <1>4. ports'.inputs = in /\ ports'.outputs = out /\ remappers'.inputs = i /\ remappers'.outputs = o
    BY <1>2
  <1>5. pc' # "fatal" => Mapped(i, in) /\ Mapped(o, out)
    BY <1>2, <1>3
  <1>6. pc' # "fatal" => /\ ports'.inputs \in Seq(Port) /\ ports'.outputs \in Seq(Port)
                         /\ Mapped(remappers'.inputs, ports'.inputs)
                         /\ Mapped(remappers'.outputs, ports'.outputs)
    BY <1>1, <1>4, <1>5
  <1>7. pc' \in {"inactive", "fatal"}
    BY <1>2
  <1> QED
    BY <1>6, <1>7 DEF MapsInv, Mapped

LEMMA PortsIInv ==
  ASSUME IInv, ports_change
  PROVE  IInv'
  <1>0. CachesNext /\ UNCHANGED <<block, data, at, pointers, results, allocator>>
    BY DEF ports_change
  <1>1. CachesInv'
    BY <1>0, NextCaches DEF IInv
  <1>2. plugin \in Plugins /\ selected \in DOMAIN plugin.layouts /\ ConfigsInv
    BY DEF IInv, CachesInv
  <1>3. MapsInv' /\ pc' \in {"inactive", "fatal"} /\ pc \in {"created", "inactive"}
    <2>1. CASE cache_audio_port_configs
      <3>1. CASE pc' = "fatal"
        BY <2>1, <3>1 DEF MapsInv, cache_audio_port_configs
      <3>2. CASE \E first \in DOMAIN plugin.layouts : ReadPorts(first)
        BY <1>2, <2>1, <3>2, ReadMaps DEF cache_audio_port_configs
      <3> QED
        BY <2>1, <3>1, <3>2 DEF cache_audio_port_configs
    <2>2. CASE cache_audio_ports
      BY <1>2, <2>2, ReadMaps DEF cache_audio_ports
    <2>3. ASSUME NEW asked \in Requests, set_bus_arrangements(asked)
          PROVE  MapsInv' /\ pc' \in {"inactive", "fatal"} /\ pc \in {"created", "inactive"}
      <3>1. PICK n \in DOMAIN configs : ReadPorts(n)
        BY <2>3 DEF set_bus_arrangements
      <3>2. n \in DOMAIN plugin.layouts
        BY <1>2 DEF ConfigsInv
      <3> QED
        BY <1>2, <2>3, <3>1, <3>2, ReadMaps DEF set_bus_arrangements
    <2> QED
      BY <1>0, <2>1, <2>2, <2>3 DEF CachesNext
  <1>4. BlocksInv'
    BY <1>0, NextBlocks DEF IInv
  <1>5. QuietInv'
    BY <1>0, <1>3 DEF IInv, QuietInv, allocator
  <1>6. CallInv' /\ PrepareInv' /\ ReleaseInv'
    BY <1>3 DEF CallInv, PrepareInv, ReleaseInv
  <1> QED
    BY <1>1, <1>3, <1>4, <1>5, <1>6 DEF IInv

\* The memory of an activation is a size.
LEMMA CapacityNat ==
  ASSUME ports.inputs \in Seq(Port), ports.outputs \in Seq(Port), NEW frames \in Nat
  PROVE  dynamic_capacity(frames) \in Nat
  <1> DEFINE List(list)     == pad_size(Len(list) * AudioBufferSize)
             Arrays(list)   == [p \in DOMAIN list |-> pad_size(list[p].count * PointerSize)]
             Channels(list) == [p \in DOMAIN list |-> list[p].count * pad_size(frames * FloatSize)]
  <1>1. ASSUME NEW list \in Seq(Port)
        PROVE  List(list) \in Nat /\ TotalOf(Arrays(list)) \in Nat /\ TotalOf(Channels(list)) \in Nat
    <2>1. Len(list) \in Nat /\ DOMAIN list = 1..Len(list) /\ \A p \in 1..Len(list) : list[p].count \in Nat
      <3>1. Len(list) \in Nat /\ DOMAIN list = 1..Len(list)
        BY LenProperties
      <3>2. \A p \in 1..Len(list) : list[p] \in Port
        BY ElementOfSeq
      <3> QED
        BY <3>1, <3>2 DEF Port
    <2>2. List(list) \in Nat
      <3>1. Len(list) * AudioBufferSize \in Nat
        BY <2>1 DEF AudioBufferSize
      <3> QED
        BY <3>1, PadSize
    <2>3. ASSUME NEW n \in Nat
          PROVE  pad_size(n * PointerSize) \in Nat /\ n * pad_size(frames * FloatSize) \in Nat
      <3>1. n * PointerSize \in Nat
        BY DEF PointerSize
      <3>2. frames * FloatSize \in Nat
        <4>1. FloatSize = 8 \/ FloatSize = 4
          BY DEF FloatSize
        <4> QED
          BY <4>1
      <3>3. pad_size(n * PointerSize) \in Nat /\ pad_size(frames * FloatSize) \in Nat
        BY <3>1, <3>2, PadSize
      <3>4. \A a, b \in Nat : a * b \in Nat
        OBVIOUS
      <3> QED
        BY <3>3, <3>4
    <2>4. \A p \in 1..Len(list) :
            /\ pad_size(list[p].count * PointerSize) \in Nat
            /\ list[p].count * pad_size(frames * FloatSize) \in Nat
      BY <2>1, <2>3
    <2>5. Arrays(list) \in Seq(Nat) /\ Channels(list) \in Seq(Nat)
      <3>1. /\ Arrays(list) = [p \in 1..Len(list) |-> pad_size(list[p].count * PointerSize)]
            /\ Channels(list) = [p \in 1..Len(list) |-> list[p].count * pad_size(frames * FloatSize)]
        BY <2>1
      <3> HIDE DEF Arrays, Channels
      <3>2. ASSUME NEW sizes \in [1..Len(list) -> Nat] PROVE sizes \in Seq(Nat)
        BY <2>1, <3>2
      <3>3. Arrays(list) \in [1..Len(list) -> Nat] /\ Channels(list) \in [1..Len(list) -> Nat]
        BY <2>4, <3>1
      <3> QED
        BY <3>2, <3>3
    <2> HIDE DEF Arrays, Channels
    <2> QED
      BY <2>2, <2>5, TotalOfNat
  <1>2. dynamic_capacity(frames) =
          List(ports.inputs) + TotalOf(Channels(ports.inputs)) + TotalOf(Arrays(ports.inputs))
            + List(ports.outputs) + TotalOf(Arrays(ports.outputs))
    BY DEF dynamic_capacity
  <1> HIDE DEF List, Arrays, Channels
  <1> QED
    BY <1>1, <1>2

LEMMA ActivationIInv ==
  ASSUME IInv, allocate_buffers \/ deallocate_buffers
  PROVE  IInv'
  <1>1. /\ pc \in {"inactive", "idle"} /\ pc' \in {"inactive", "idle"}
        /\ UNCHANGED cache /\ UNCHANGED <<top, blocks>>
    BY DEF allocate_buffers, deallocate_buffers
  <1>2. cap' \in Nat
    <2>1. CASE allocate_buffers
      <3>1. PICK frames \in Blocks : cap' = dynamic_capacity(frames)
        BY <2>1 DEF allocate_buffers
      <3>2. frames \in Nat /\ ports.inputs \in Seq(Port) /\ ports.outputs \in Seq(Port)
        BY <1>1, ProcessBuffersAssumption DEF IInv, MapsInv
      <3> QED
        BY <3>1, <3>2, CapacityNat
    <2>2. CASE deallocate_buffers
      BY <2>2 DEF deallocate_buffers
    <2> QED
      BY <2>1, <2>2
  <1>3. construct(cap') /\ QuietInv'
    BY <1>1 DEF IInv, QuietInv, construct
  <1>4. BlocksInv'
    BY <1>2, <1>3, NextBlocks DEF IInv, AllocatorNext
  <1>5. CachesInv' /\ MapsInv'
    BY <1>1, CacheKept DEF IInv
  <1>6. CallInv' /\ PrepareInv' /\ ReleaseInv'
    BY <1>1 DEF CallInv, PrepareInv, ReleaseInv
  <1> QED
    BY <1>3, <1>4, <1>5, <1>6 DEF IInv

LEMMA EntryParts ==
  ASSUME NEW kind, NEW p, NEW c
  PROVE  /\ Entry(kind, p, c).kind = kind /\ Entry(kind, p, c).port = p
         /\ Entry(kind, p, c).channel = c
  BY DEF Entry

LEMMA DataTypes ==
  ASSUME NEW d \in DataSet
  PROVE  /\ d.nframes \in Nat /\ d.real \in Nat /\ d.nframes * d.real \in Nat
         /\ DOMAIN d.outputs = 1..Len(d.outputs) /\ Len(d.outputs) \in Nat
  <1> DEFINE n == Len(ports.outputs)
  <1>1. d.nframes \in 0..MaxFrames /\ d.real \in {4, FloatSize} /\ d.outputs \in SeqOf(Buses, n)
    BY DEF DataSet
  <1>2. d.nframes \in Nat /\ d.real \in {4, 8}
    BY <1>1, ProcessBuffersAssumption DEF FloatSize
  <1>3. PICK k \in 0..n : d.outputs \in [1..k -> Buses]
    BY <1>1 DEF SeqOf
  <1>4. k \in Nat
    OBVIOUS
  <1>5. DOMAIN d.outputs = 1..k /\ Len(d.outputs) = k
    BY <1>3, <1>4
  <1>6. d.nframes * d.real \in Nat
    BY <1>2
  <1> QED
    BY <1>2, <1>4, <1>5, <1>6

\* Facts about a component that is active.
LEMMA ActiveFacts ==
  ASSUME IInv, pc \notin {"created", "fatal"}
  PROVE  /\ ports.inputs \in Seq(Port) /\ ports.outputs \in Seq(Port)
         /\ \A p \in DOMAIN ports.inputs :
              /\ ports.inputs[p].count \in Nat
              /\ Permutes(ports.inputs[p].count, remappers.inputs[p].v3_to_clap)
         /\ \A p \in DOMAIN ports.outputs :
              /\ ports.outputs[p].count \in Nat
              /\ Permutes(ports.outputs[p].count, remappers.outputs[p].v3_to_clap)
         /\ Plan \in Seq(EntrySet) /\ Len(Plan) \in Nat /\ DOMAIN Plan = 1..Len(Plan)
         /\ cap \in Nat /\ top \in Nat /\ blocks \in Seq(Block)
  <1>1. /\ ports.inputs \in Seq(Port) /\ ports.outputs \in Seq(Port)
        /\ Mapped(remappers.inputs, ports.inputs) /\ Mapped(remappers.outputs, ports.outputs)
    BY DEF IInv, MapsInv
  <1>2. ASSUME NEW list \in Seq(Port), NEW r, Mapped(r, list), NEW p \in DOMAIN list
        PROVE  list[p].count \in Nat /\ Permutes(list[p].count, r[p].v3_to_clap)
    <2>1. list[p] \in Port
      BY LenProperties, ElementOfSeq
    <2>2. r[p] \in MappingsOf(list[p]) /\ r[p].valid
      BY <1>2 DEF Mapped
    <2> QED
      BY <2>1, <2>2, ValidPermutes DEF Port
  <1>3. Plan \in Seq(EntrySet) /\ Len(Plan) \in Nat /\ DOMAIN Plan = 1..Len(Plan)
    BY <1>1, PlanEntries
  <1> QED
    BY <1>1, <1>2, <1>3 DEF IInv, BlocksInv, AllocatorOK

LEMMA ProcessIInv ==
  ASSUME IInv, NEW d \in DataSet, process(d)
  PROVE  IInv'
  <1>1. /\ pc = "idle" /\ pc' = "prepare" /\ construct(cap) /\ UNCHANGED cache /\ UNCHANGED block
        /\ data' = d /\ at' = 1
        /\ inputs' = [p \in DOMAIN ports.inputs |->
                        [c \in 0 .. ports.inputs[p].count - 1 |-> <<"null">>]]
        /\ outputs' = [p \in DOMAIN ports.outputs |->
                         [c \in 0 .. ports.outputs[p].count - 1 |-> <<"null">>]]
        /\ constant' = [p \in DOMAIN ports.inputs |-> {}]
        /\ silence' = [p \in DOMAIN d.outputs |-> d.outputs[p].silent]
    BY DEF process
  <1>2. CachesInv' /\ MapsInv'
    BY <1>1, CacheKept DEF IInv
  <1>3. cap \in Nat
    BY <1>1, ActiveFacts
  <1>4. BlocksInv'
    BY <1>1, <1>3, NextBlocks DEF IInv, AllocatorNext
  <1>5. ports' = ports
    BY <1>1 DEF cache
  <1>6. DataSet' = DataSet
    BY <1>1, <1>5 DEF DataSet, FloatSize, CanDo64
  <1>7. CallInv'
    <2>1. data' \in DataSet' /\ at' \in Nat \ {0}
      BY <1>1, <1>6
    <2>2. /\ DOMAIN inputs' = DOMAIN ports'.inputs /\ DOMAIN constant' = DOMAIN ports'.inputs
          /\ DOMAIN outputs' = DOMAIN ports'.outputs /\ DOMAIN silence' = DOMAIN data'.outputs
      BY <1>1, <1>5
    <2>3. /\ \A p \in DOMAIN ports'.inputs : DOMAIN inputs'[p] = 0 .. ports'.inputs[p].count - 1
          /\ \A p \in DOMAIN ports'.outputs : DOMAIN outputs'[p] = 0 .. ports'.outputs[p].count - 1
      BY <1>1, <1>5
    <2> QED
      BY <2>1, <2>2, <2>3 DEF CallInv
  <1>8. PrepareInv'
    <2>1. \A x : ~Done(x)'
      BY <1>1 DEF Done
    <2>2. \A p \in DOMAIN ports'.inputs : constant'[p] = {}
      BY <1>1, <1>5
    <2> QED
      BY <2>1, <2>2 DEF PrepareInv, InputAt, OutputAt
  <1>9. QuietInv' /\ ReleaseInv'
    BY <1>1 DEF QuietInv, ReleaseInv
  <1> QED
    BY <1>2, <1>4, <1>7, <1>8, <1>9 DEF IInv

\* One entry more is done.
LEMMA DoneNext ==
  ASSUME at \in Nat \ {0}, at \in DOMAIN Plan, at' = at + 1, UNCHANGED ports
  PROVE  \A x : Done(x)' <=> Done(x) \/ x = Plan[at]
  <1> DEFINE e == Plan[at]
  <1>1. Plan' = Plan
    BY DEF Plan, PortEntries
  <1>2. 1 .. at' - 1 = (1 .. at - 1) \cup {at}
    OBVIOUS
  <1> TAKE x
  <1>3. Done(x)' <=> \E i \in 1 .. at' - 1 : i \in DOMAIN Plan /\ Plan[i] = x
    BY <1>1 DEF Done
  <1>4. (\E i \in 1 .. at' - 1 : i \in DOMAIN Plan /\ Plan[i] = x)
          <=> (\E i \in 1 .. at - 1 : i \in DOMAIN Plan /\ Plan[i] = x) \/ x = Plan[at]
    BY <1>2
  <1> QED
    BY <1>3, <1>4 DEF Done

\* Channels other than the one that is set are as they were.
LEMMA InputKept ==
  ASSUME NEW p, NEW h, InputAt(p, h), UNCHANGED <<data, remappers>>,
         Range(blocks) \subseteq Range(blocks'),
         Done(Entry("input", p, h))' <=> Done(Entry("input", p, h)),
         inputs'[p][remappers.inputs[p].v3_to_clap[h]] = inputs[p][remappers.inputs[p].v3_to_clap[h]],
         remappers.inputs[p].v3_to_clap[h] \in constant'[p]
           <=> remappers.inputs[p].v3_to_clap[h] \in constant[p]
  PROVE  InputAt(p, h)'
  <1> DEFINE m == remappers.inputs[p].v3_to_clap[h]
             D == Done(Entry("input", p, h))
  <1>1. \A pointer : Copied(p, h, pointer) => Copied(p, h, pointer)'
    BY DEF Copied
  <1>2. /\ Present(data'.inputs, p, h) <=> Present(data.inputs, p, h)
        /\ SilentInput(p, h)' <=> SilentInput(p, h)
    BY DEF SilentInput, Present, HasBus
  <1>3. Present(data.inputs, p, h) /\ D => Copied(p, h, inputs[p][m])'
    <2>1. Present(data.inputs, p, h) /\ D => Copied(p, h, inputs[p][m])
      BY DEF InputAt
    <2>2. \E x : x = inputs[p][m]
      OBVIOUS
    <2>3. PICK x : x = inputs[p][m]
      BY <2>2
    <2>4. x = inputs'[p][remappers'.inputs[p].v3_to_clap[h]]
      BY <2>3
    <2>5. Present(data.inputs, p, h) /\ D => Copied(p, h, x)'
      BY <1>1, <2>1, <2>3
    <2> QED
      BY <2>3, <2>4, <2>5 DEF Copied
  <1> QED
    BY <1>2, <1>3 DEF InputAt

\* Memory for an entry: a new block of its size, or none.
LEMMA EntryMemory ==
  ASSUME IInv, pc = "prepare", at \in DOMAIN Plan, NEW e, e = Plan[at],
         Allocates(e) => Fits(SizeOf(e)),
         IF Allocates(e) THEN alloc(SizeOf(e)) ELSE UNCHANGED allocator
  PROVE  /\ BlocksInv' /\ Range(blocks) \subseteq Range(blocks')
         /\ Allocates(e) => [at |-> top, size |-> SizeOf(e)] \in Range(blocks')
  <1>1. /\ ports.inputs \in Seq(Port) /\ ports.outputs \in Seq(Port) /\ data \in DataSet
        /\ blocks \in Seq(Block) /\ top \in Nat
        /\ \A p \in DOMAIN ports.inputs : ports.inputs[p].count \in Nat
        /\ \A p \in DOMAIN ports.outputs : ports.outputs[p].count \in Nat
    BY ActiveFacts DEF IInv, CallInv
  <1>2. Len(ports.inputs) \in Nat /\ Len(ports.outputs) \in Nat
    BY <1>1, LenProperties
  <1>3. SizeOf(e) \in Nat
    <2>1. \A n \in Nat : n * AudioBufferSize \in Nat /\ n * PointerSize \in Nat
      BY DEF AudioBufferSize, PointerSize
    <2>2. data.nframes * data.real \in Nat
      BY <1>1, DataTypes
    <2>3. CASE e.kind \in {"input", "output"}
      BY <2>2, <2>3 DEF SizeOf
    <2>4. ASSUME NEW p \in DOMAIN ports.inputs, e = Entry("input pointers", p, 0)
          PROVE  SizeOf(e) \in Nat
      <3>0. e.kind = "input pointers" /\ e.port = p
        BY ONLY <2>4 DEF Entry
      <3>1. SizeOf(e) = ports.inputs[p].count * PointerSize
        BY <3>0 DEF SizeOf
      <3> QED
        BY <1>1, <2>1, <3>1
    <2>5. ASSUME NEW p \in DOMAIN ports.outputs, e = Entry("output pointers", p, 0)
          PROVE  SizeOf(e) \in Nat
      <3>0. e.kind = "output pointers" /\ e.port = p
        BY ONLY <2>5 DEF Entry
      <3>1. SizeOf(e) = ports.outputs[p].count * PointerSize
        BY <3>0 DEF SizeOf
      <3> QED
        BY <1>1, <2>1, <3>1
    <2>6. CASE e.kind = "inputs"
      BY <1>2, <2>1, <2>6 DEF SizeOf
    <2>7. CASE e.kind = "outputs"
      BY <1>2, <2>1, <2>7 DEF SizeOf
    <2>8. \/ e.kind \in {"input", "output", "inputs", "outputs"}
          \/ \E p \in DOMAIN ports.inputs : e = Entry("input pointers", p, 0)
          \/ \E p \in DOMAIN ports.outputs : e = Entry("output pointers", p, 0)
      <3>1. \/ \E p \in DOMAIN ports.inputs : \E c \in 0 .. ports.inputs[p].count - 1 :
                 e = Entry("input", p, c)
            \/ \E p \in DOMAIN ports.outputs : \E c \in 0 .. ports.outputs[p].count - 1 :
                 e = Entry("output", p, c)
            \/ \E p \in DOMAIN ports.inputs : e = Entry("input pointers", p, 0)
            \/ \E p \in DOMAIN ports.outputs : e = Entry("output pointers", p, 0)
            \/ e = Entry("inputs", 0, 0) \/ e = Entry("outputs", 0, 0)
        BY <1>1, PlanCases
      <3>2. CASE \E p \in DOMAIN ports.inputs : \E c \in 0 .. ports.inputs[p].count - 1 :
                   e = Entry("input", p, c)
        BY <3>2 DEF Entry
      <3>3. CASE \E p \in DOMAIN ports.outputs : \E c \in 0 .. ports.outputs[p].count - 1 :
                   e = Entry("output", p, c)
        BY <3>3 DEF Entry
      <3>4. CASE e = Entry("inputs", 0, 0)
        BY ONLY <3>4 DEF Entry
      <3>5. CASE e = Entry("outputs", 0, 0)
        BY ONLY <3>5 DEF Entry
      <3> QED
        BY <3>1, <3>2, <3>3, <3>4, <3>5
    <2>9. CASE e.kind \in {"input", "output", "inputs", "outputs"}
      BY <2>3, <2>6, <2>7, <2>9
    <2> QED
      BY <2>4, <2>5, <2>8, <2>9
  <1>4. CASE Allocates(e)
    <2> DEFINE b == [at |-> top, size |-> SizeOf(e)]
    <2>1. alloc(SizeOf(e)) /\ blocks' = Append(blocks, b)
      BY <1>4 DEF alloc
    <2>2. BlocksInv'
      BY <1>3, <2>1, NextBlocks DEF IInv, AllocatorNext
    <2>3. b \in Block
      BY <1>1, <1>3 DEF Block
    <2> HIDE DEF b
    <2>4. /\ Len(blocks) \in Nat /\ DOMAIN blocks = 1..Len(blocks)
          /\ DOMAIN blocks' = 1 .. Len(blocks) + 1
          /\ \A i \in 1..Len(blocks) : blocks'[i] = blocks[i]
          /\ blocks'[Len(blocks) + 1] = b
      BY <1>1, <2>1, <2>3, AppendProperties, LenProperties
    <2>5. \A i \in 1..Len(blocks) : i \in DOMAIN blocks'
      BY <2>4
    <2>6. Len(blocks) + 1 \in DOMAIN blocks'
      BY <2>4
    <2>7. Range(blocks) \subseteq Range(blocks') /\ b \in Range(blocks')
      BY <2>4, <2>5, <2>6 DEF Range
    <2> QED
      BY <2>2, <2>7 DEF b
  <1>5. CASE ~Allocates(e)
    <2>1. UNCHANGED allocator
      BY <1>5
    <2> QED
      BY <1>5, <2>1, NextBlocks DEF IInv, allocator
  <1> QED
    BY <1>4, <1>5

\* Setting the pointer of one channel.
LEMMA InputIsSet ==
  ASSUME IInv, pc = "prepare", UNCHANGED <<data, cache>>,
         NEW q \in DOMAIN ports.inputs, NEW k \in 0 .. ports.inputs[q].count - 1,
         NEW pointer, InputSet(q, k, pointer),
         Range(blocks) \subseteq Range(blocks'),
         \A x : Done(x)' <=> Done(x) \/ x = Entry("input", q, k),
         IF Present(data.inputs, q, k) THEN Copied(q, k, pointer)' ELSE pointer = <<"zero">>,
         NEW p \in DOMAIN ports.inputs, NEW h \in 0 .. ports.inputs[p].count - 1
  PROVE  InputAt(p, h)'
  <1> DEFINE M(r, g) == remappers.inputs[r].v3_to_clap[g]
  <1>1. remappers' = remappers
    BY DEF cache
  <1>2. /\ inputs' = [inputs EXCEPT ![q][M(q, k)] = pointer]
        /\ constant' = IF SilentInput(q, k) THEN [constant EXCEPT ![q] = @ \cup {M(q, k)}] ELSE constant
    BY DEF InputSet
  <1>3. /\ DOMAIN inputs = DOMAIN ports.inputs /\ DOMAIN constant = DOMAIN ports.inputs
        /\ DOMAIN inputs[q] = 0 .. ports.inputs[q].count - 1
        /\ InputAt(p, h)
    BY DEF IInv, CallInv, PrepareInv
  <1>4. ASSUME NEW r \in DOMAIN ports.inputs, NEW g \in 0 .. ports.inputs[r].count - 1
        PROVE  /\ M(r, g) \in 0 .. ports.inputs[r].count - 1
               /\ \A f \in 0 .. ports.inputs[r].count - 1 : f # g => M(r, f) # M(r, g)
    <2>1. Permutes(ports.inputs[r].count, remappers.inputs[r].v3_to_clap)
      BY ActiveFacts
    <2> QED
      BY <2>1 DEF Permutes
  <1>5. M(q, k) \in DOMAIN inputs[q]
    BY <1>3, <1>4
  <1>6. CASE p = q /\ h = k
    <2>1. inputs'[p][M(p, h)] = pointer
      BY <1>2, <1>3, <1>5, <1>6
    <2>2. Done(Entry("input", p, h))'
      BY <1>6
    <2>3. M(p, h) \in constant'[p] <=> SilentInput(p, h)
      <3>1. CASE SilentInput(p, h)
        BY <1>2, <1>3, <1>6, <3>1
      <3>2. CASE ~SilentInput(p, h)
        BY <1>2, <1>3, <1>6, <3>2 DEF InputAt
      <3> QED
        BY <3>1, <3>2
    <2>4. /\ Present(data'.inputs, p, h) <=> Present(data.inputs, p, h)
          /\ SilentInput(p, h)' <=> SilentInput(p, h)
      BY DEF SilentInput, Present, HasBus
    <2>5. IF Present(data.inputs, p, h) THEN Copied(p, h, inputs[p][M(p, h)])'
                                        ELSE inputs'[p][M(p, h)] = <<"zero">>
      BY <1>1, <1>6, <2>1 DEF Copied
    <2> QED
      BY <1>1, <2>2, <2>3, <2>4, <2>5 DEF InputAt
  <1>7. CASE ~(p = q /\ h = k)
    <2>1. Entry("input", p, h) # Entry("input", q, k)
      BY <1>7, EntryParts
    <2>2. p # q \/ M(p, h) # M(q, k)
      BY <1>4, <1>7
    <2>3. inputs'[p][M(p, h)] = inputs[p][M(p, h)]
      BY <1>2, <1>3, <2>2
    <2>4. M(p, h) \in constant'[p] <=> M(p, h) \in constant[p]
      BY <1>2, <1>3, <2>2
    <2>5. Done(Entry("input", p, h))' <=> Done(Entry("input", p, h))
      BY <2>1
    <2> QED
      BY <1>1, <1>3, <2>3, <2>4, <2>5, InputKept
  <1> QED
    BY <1>6, <1>7

LEMMA OutputIsSet ==
  ASSUME IInv, pc = "prepare", UNCHANGED <<data, cache>>,
         NEW q \in DOMAIN ports.outputs, NEW k \in 0 .. ports.outputs[q].count - 1,
         OutputSet(q, k),
         \A x : Done(x)' <=> Done(x) \/ x = Entry("output", q, k),
         NEW p \in DOMAIN ports.outputs, NEW h \in 0 .. ports.outputs[p].count - 1
  PROVE  OutputAt(p, h)'
  <1> DEFINE M(r, g) == remappers.outputs[r].v3_to_clap[g]
             Pointer(r, g) == IF Present(data.outputs, r, g) THEN <<"host", r, g>> ELSE <<"trash">>
  <1>1. remappers' = remappers
    BY DEF cache
  <1>2. outputs' = [outputs EXCEPT ![q][M(q, k)] = Pointer(q, k)]
    BY DEF OutputSet
  <1>3. /\ DOMAIN outputs = DOMAIN ports.outputs
        /\ DOMAIN outputs[q] = 0 .. ports.outputs[q].count - 1
        /\ OutputAt(p, h)
    BY DEF IInv, CallInv, PrepareInv
  <1>4. ASSUME NEW r \in DOMAIN ports.outputs, NEW g \in 0 .. ports.outputs[r].count - 1
        PROVE  /\ M(r, g) \in 0 .. ports.outputs[r].count - 1
               /\ \A f \in 0 .. ports.outputs[r].count - 1 : f # g => M(r, f) # M(r, g)
    <2>1. Permutes(ports.outputs[r].count, remappers.outputs[r].v3_to_clap)
      BY ActiveFacts
    <2> QED
      BY <2>1 DEF Permutes
  <1>5. Present(data'.outputs, p, h) <=> Present(data.outputs, p, h)
    BY DEF Present, HasBus
  <1>6. Done(Entry("output", p, h))' => outputs'[p][M(p, h)] = Pointer(p, h)
    <2>1. CASE p = q /\ h = k
      <3>1. M(q, k) \in DOMAIN outputs[q]
        BY <1>3, <1>4
      <3> QED
        BY <1>2, <1>3, <2>1, <3>1
    <2>2. CASE ~(p = q /\ h = k)
      <3>1. Entry("output", p, h) # Entry("output", q, k)
        BY <2>2, EntryParts
      <3>2. p # q \/ M(p, h) # M(q, k)
        BY <1>4, <2>2
      <3>3. outputs'[p][M(p, h)] = outputs[p][M(p, h)]
        BY <1>2, <1>3, <3>2
      <3> QED
        BY <1>3, <3>1, <3>3 DEF OutputAt
    <2> QED
      BY <2>1, <2>2
  <1> QED
    BY <1>1, <1>5, <1>6 DEF OutputAt

\* No entry changes which pointers there are.
LEMMA PointersKept ==
  ASSUME IInv, pc = "prepare", NEW e, Prepared(e)
  PROVE  /\ DOMAIN inputs' = DOMAIN inputs /\ DOMAIN constant' = DOMAIN constant
         /\ DOMAIN outputs' = DOMAIN outputs
         /\ \A p \in DOMAIN inputs : DOMAIN inputs'[p] = DOMAIN inputs[p]
         /\ \A p \in DOMAIN outputs : DOMAIN outputs'[p] = DOMAIN outputs[p]
  <1>1. CASE e.kind = "input"
    <2>1. UNCHANGED outputs
      BY <1>1 DEF Prepared
    <2>2. PICK pointer : InputSet(e.port, e.channel, pointer)
      BY <1>1 DEF Prepared
    <2>3. PICK p, m : /\ inputs' = [inputs EXCEPT ![p][m] = pointer]
                      /\ \/ constant' = [constant EXCEPT ![p] = @ \cup {m}]
                         \/ constant' = constant
      BY <2>2 DEF InputSet
    <2> QED
      BY <2>1, <2>3
  <1>2. CASE e.kind = "output"
    <2>1. UNCHANGED <<inputs, constant>>
      BY <1>2 DEF Prepared
    <2>2. OutputSet(e.port, e.channel)
      BY <1>2 DEF Prepared
    <2>3. PICK p, m, pointer : outputs' = [outputs EXCEPT ![p][m] = pointer]
      BY <2>2 DEF OutputSet
    <2> QED
      BY <2>1, <2>3
  <1>3. CASE e.kind \notin {"input", "output"}
    BY <1>3 DEF Prepared, pointers
  <1> QED
    BY <1>1, <1>2, <1>3

LEMMA EntryIInv ==
  ASSUME IInv, pc = "prepare", pc' = "prepare", at \in DOMAIN Plan, at' = at + 1,
         UNCHANGED <<cache, block, data, results>>, NEW e, e = Plan[at],
         Allocates(e) => Fits(SizeOf(e)),
         IF Allocates(e) THEN alloc(SizeOf(e)) ELSE UNCHANGED allocator,
         Prepared(e)
  PROVE  IInv'
  <1>1. ports' = ports /\ remappers' = remappers /\ data' = data
    BY DEF cache
  <1>2. /\ ports.inputs \in Seq(Port) /\ ports.outputs \in Seq(Port) /\ data \in DataSet
        /\ at \in Nat \ {0}
    BY ActiveFacts DEF IInv, CallInv
  <1>3. BlocksInv' /\ Range(blocks) \subseteq Range(blocks')
        /\ (Allocates(e) => [at |-> top, size |-> SizeOf(e)] \in Range(blocks'))
    BY EntryMemory
  <1>4. \A x : Done(x)' <=> Done(x) \/ x = e
    BY <1>1, <1>2, DoneNext
  <1>5. CachesInv' /\ MapsInv'
    BY CacheKept DEF IInv
  <1>6. CallInv'
    <2>1. DataSet' = DataSet
      BY <1>1 DEF DataSet, FloatSize, CanDo64
    <2>2. at' \in Nat \ {0}
      BY <1>2
    <2>3. /\ DOMAIN inputs' = DOMAIN inputs /\ DOMAIN constant' = DOMAIN constant
          /\ DOMAIN outputs' = DOMAIN outputs
          /\ \A p \in DOMAIN inputs : DOMAIN inputs'[p] = DOMAIN inputs[p]
          /\ \A p \in DOMAIN outputs : DOMAIN outputs'[p] = DOMAIN outputs[p]
      BY PointersKept
    <2>4. silence' = silence
      BY DEF results
    <2> QED
      BY <1>1, <1>2, <2>1, <2>2, <2>3, <2>4 DEF IInv, CallInv
  <1>7. ASSUME e.kind # "input", UNCHANGED <<inputs, constant>>,
               NEW p \in DOMAIN ports.inputs, NEW h \in 0 .. ports.inputs[p].count - 1
        PROVE  InputAt(p, h)'
    <2>1. Entry("input", p, h).kind = "input"
      BY DEF Entry
    <2>2. Done(Entry("input", p, h))' <=> Done(Entry("input", p, h))
      BY <1>4, <1>7, <2>1
    <2>3. InputAt(p, h)
      BY DEF IInv, PrepareInv
    <2> QED
      BY <1>1, <1>3, <1>7, <2>2, <2>3, InputKept
  <1>8. ASSUME e.kind # "output", UNCHANGED outputs,
               NEW p \in DOMAIN ports.outputs, NEW h \in 0 .. ports.outputs[p].count - 1
        PROVE  OutputAt(p, h)'
    <2>1. Entry("output", p, h).kind = "output"
      BY DEF Entry
    <2>2. Done(Entry("output", p, h))' <=> Done(Entry("output", p, h))
      BY <1>4, <1>8, <2>1
    <2>3. OutputAt(p, h)
      BY DEF IInv, PrepareInv
    <2>4. Present(data'.outputs, p, h) <=> Present(data.outputs, p, h)
      BY <1>1 DEF Present, HasBus
    <2> QED
      BY <1>1, <1>8, <2>2, <2>3, <2>4 DEF OutputAt
  <1>9. PrepareInv'
    <2>1. ASSUME NEW q \in DOMAIN ports.inputs, NEW k \in 0 .. ports.inputs[q].count - 1,
                 e = Entry("input", q, k)
          PROVE  PrepareInv'
      <3>1. e.kind = "input" /\ e.port = q /\ e.channel = k
        BY ONLY <2>1 DEF Entry
      <3>2. PICK pointer :
              pointer = IF Allocates(e) THEN <<"copy", q, k, top>> ELSE <<"zero">>
        OBVIOUS
      <3>3. UNCHANGED outputs /\ InputSet(q, k, pointer)
        BY <3>1, <3>2 DEF Prepared
      <3>4. IF Present(data.inputs, q, k) THEN Copied(q, k, pointer)' ELSE pointer = <<"zero">>
        <4>1. Allocates(e) <=> Present(data.inputs, q, k)
          BY <3>1 DEF Allocates
        <4>2. SizeOf(e) = data.nframes * data.real
          BY <3>1 DEF SizeOf
        <4>3. ASSUME Present(data.inputs, q, k)
              PROVE  Copied(q, k, pointer)'
          <5>1. PICK b : b = [at |-> top, size |-> SizeOf(e)]
            OBVIOUS
          <5>2. b \in Range(blocks') /\ b.at = top /\ b.size = data'.nframes * data'.real
            BY <1>1, <1>3, <4>1, <4>2, <4>3, <5>1
          <5>3. pointer = <<"copy", q, k, b.at>>
            BY <3>2, <4>1, <4>3, <5>2
          <5> QED
            BY <5>2, <5>3 DEF Copied
        <4> QED
          BY <3>2, <4>1, <4>3
      <3>7. ASSUME NEW p \in DOMAIN ports.inputs, NEW h \in 0 .. ports.inputs[p].count - 1
            PROVE  InputAt(p, h)'
        <4>1. \A x : Done(x)' <=> Done(x) \/ x = Entry("input", q, k)
          BY <1>4, <2>1
        <4> QED
          BY <1>1, <1>3, <3>3, <3>4, <4>1, InputIsSet
      <3>5. e.kind # "output"
        BY <3>1
      <3>6. \A p \in DOMAIN ports.outputs : \A h \in 0 .. ports.outputs[p].count - 1 : OutputAt(p, h)'
        BY <1>8, <3>3, <3>5
      <3> QED
        BY <1>1, <3>6, <3>7 DEF PrepareInv
    <2>2. ASSUME NEW q \in DOMAIN ports.outputs, NEW k \in 0 .. ports.outputs[q].count - 1,
                 e = Entry("output", q, k)
          PROVE  PrepareInv'
      <3>1. e.kind = "output" /\ e.port = q /\ e.channel = k
        BY ONLY <2>2 DEF Entry
      <3>2. OutputSet(q, k) /\ UNCHANGED <<inputs, constant>>
        BY <3>1 DEF Prepared
      <3>3. \A x : Done(x)' <=> Done(x) \/ x = Entry("output", q, k)
        BY <1>4, <2>2
      <3>4. ASSUME NEW p \in DOMAIN ports.outputs, NEW h \in 0 .. ports.outputs[p].count - 1
            PROVE  OutputAt(p, h)'
        BY <1>1, <3>2, <3>3, OutputIsSet
      <3>5. e.kind # "input"
        BY <3>1
      <3>6. \A p \in DOMAIN ports.inputs : \A h \in 0 .. ports.inputs[p].count - 1 : InputAt(p, h)'
        BY <1>7, <3>2, <3>5
      <3> QED
        BY <1>1, <3>4, <3>6 DEF PrepareInv
    <2>3. ASSUME e.kind \notin {"input", "output"}
          PROVE  PrepareInv'
      <3>1. UNCHANGED <<inputs, outputs, constant>>
        BY <2>3 DEF Prepared, pointers
      <3>2. e.kind # "input" /\ e.kind # "output"
        BY <2>3
      <3>3. \A p \in DOMAIN ports.inputs : \A h \in 0 .. ports.inputs[p].count - 1 : InputAt(p, h)'
        BY <1>7, <3>1, <3>2
      <3>4. \A p \in DOMAIN ports.outputs : \A h \in 0 .. ports.outputs[p].count - 1 : OutputAt(p, h)'
        BY <1>8, <3>1, <3>2
      <3> QED
        BY <1>1, <3>3, <3>4 DEF PrepareInv
    <2>4. \/ \E q \in DOMAIN ports.inputs : \E k \in 0 .. ports.inputs[q].count - 1 :
               e = Entry("input", q, k)
          \/ \E q \in DOMAIN ports.outputs : \E k \in 0 .. ports.outputs[q].count - 1 :
               e = Entry("output", q, k)
          \/ e.kind \notin {"input", "output"}
      <3>1. \/ \E p \in DOMAIN ports.inputs : \E c \in 0 .. ports.inputs[p].count - 1 :
                 e = Entry("input", p, c)
            \/ \E p \in DOMAIN ports.outputs : \E c \in 0 .. ports.outputs[p].count - 1 :
                 e = Entry("output", p, c)
            \/ \E p \in DOMAIN ports.inputs : e = Entry("input pointers", p, 0)
            \/ \E p \in DOMAIN ports.outputs : e = Entry("output pointers", p, 0)
            \/ e = Entry("inputs", 0, 0) \/ e = Entry("outputs", 0, 0)
        BY <1>2, PlanCases
      <3>2. CASE e = Entry("inputs", 0, 0)
        BY ONLY <3>2 DEF Entry
      <3>3. CASE e = Entry("outputs", 0, 0)
        BY ONLY <3>3 DEF Entry
      <3>4. CASE \E p \in DOMAIN ports.inputs : e = Entry("input pointers", p, 0)
        <4>1. PICK p \in DOMAIN ports.inputs : e = Entry("input pointers", p, 0)
          BY <3>4
        <4> QED
          BY ONLY <4>1 DEF Entry
      <3>5. CASE \E p \in DOMAIN ports.outputs : e = Entry("output pointers", p, 0)
        <4>1. PICK p \in DOMAIN ports.outputs : e = Entry("output pointers", p, 0)
          BY <3>5
        <4> QED
          BY ONLY <4>1 DEF Entry
      <3> QED
        BY <3>1, <3>2, <3>3, <3>4, <3>5
    <2> QED
      BY <2>1, <2>2, <2>3, <2>4
  <1>10. QuietInv' /\ ReleaseInv'
    BY DEF QuietInv, ReleaseInv
  <1> QED
    BY <1>3, <1>5, <1>6, <1>9, <1>10 DEF IInv

LEMMA PrepareIInv ==
  ASSUME IInv, prepare
  PROVE  IInv'
  <1>1. /\ pc = "prepare" /\ at <= Len(Plan) /\ UNCHANGED <<cache, block, data, results>>
        /\ \/ /\ Allocates(Plan[at]) => Fits(SizeOf(Plan[at]))
              /\ IF Allocates(Plan[at]) THEN alloc(SizeOf(Plan[at])) ELSE UNCHANGED allocator
              /\ Prepared(Plan[at])
              /\ at' = at + 1 /\ UNCHANGED pc
           \/ pc' = "assertion failed" /\ UNCHANGED <<at, pointers, allocator>>
    BY DEF prepare
  <1>2. Len(Plan) \in Nat /\ DOMAIN Plan = 1..Len(Plan)
    BY <1>1, ActiveFacts
  <1>3. at \in DOMAIN Plan
    <2>1. at \in Nat \ {0}
      BY <1>1 DEF IInv, CallInv
    <2>2. at <= Len(Plan)
      BY <1>1
    <2> QED
      BY <1>2, <2>1, <2>2
  <1>4. CASE /\ Allocates(Plan[at]) => Fits(SizeOf(Plan[at]))
             /\ IF Allocates(Plan[at]) THEN alloc(SizeOf(Plan[at])) ELSE UNCHANGED allocator
             /\ Prepared(Plan[at])
             /\ at' = at + 1 /\ UNCHANGED pc
    <2>1. PICK e : e = Plan[at]
      OBVIOUS
    <2>2. pc' = "prepare"
      BY <1>1, <1>4
    <2> QED
      BY <1>1, <1>3, <1>4, <2>1, <2>2, EntryIInv
  <1>5. CASE pc' = "assertion failed" /\ UNCHANGED <<at, pointers, allocator>>
    <2>1. CachesInv' /\ MapsInv'
      BY <1>1, CacheKept DEF IInv
    <2>2. BlocksInv'
      BY <1>5, NextBlocks DEF IInv
    <2>3. QuietInv' /\ CallInv' /\ PrepareInv' /\ ReleaseInv'
      BY <1>5 DEF QuietInv, CallInv, PrepareInv, ReleaseInv
    <2> QED
      BY <2>1, <2>2, <2>3 DEF IInv
  <1> QED
    BY <1>1, <1>4, <1>5

LEMMA PluginIInv ==
  ASSUME IInv, plugin_process
  PROVE  IInv'
  <1>1. /\ pc = "prepare" /\ pc' = "release" /\ at' = 1
        /\ UNCHANGED <<cache, block, data, inputs, outputs, constant, silence, allocator>>
    BY DEF plugin_process, pointers
  <1>2. ports' = ports
    BY <1>1 DEF cache
  <1>3. CachesInv' /\ MapsInv' /\ BlocksInv'
    BY <1>1, CacheKept, NextBlocks DEF IInv
  <1>4. CallInv'
    <2>1. DataSet' = DataSet
      BY <1>1, <1>2 DEF DataSet, FloatSize, CanDo64
    <2> QED
      BY <1>1, <1>2, <2>1 DEF IInv, CallInv
  <1>5. ReleaseInv'
    <2>1. \A p \in DOMAIN ports'.outputs : ~(p < at')
      <3>1. DOMAIN ports.outputs = 1..Len(ports.outputs) /\ Len(ports.outputs) \in Nat
        BY <1>1, ActiveFacts, LenProperties
      <3> QED
        BY <1>1, <1>2, <3>1
    <2> QED
      BY <2>1 DEF ReleaseInv
  <1>6. QuietInv' /\ PrepareInv'
    BY <1>1 DEF QuietInv, PrepareInv
  <1> QED
    BY <1>3, <1>4, <1>5, <1>6 DEF IInv

LEMMA ReleaseIInv ==
  ASSUME IInv, release
  PROVE  IInv'
  <1>1. /\ pc = "release" /\ at <= Len(ports.outputs)
        /\ UNCHANGED <<cache, block, data, inputs, outputs, constant, plugin_mask, allocator>>
        /\ \/ /\ HasBus(data.outputs, at)
              /\ silence' = [silence EXCEPT ![at] = SilentOutputs(at)]
              /\ at' = at + 1 /\ UNCHANGED pc
           \/ pc' = "null written" /\ UNCHANGED <<at, silence>>
    BY DEF release, pointers
  <1>2. ports' = ports /\ remappers' = remappers
    BY <1>1 DEF cache
  <1>3. CachesInv' /\ MapsInv' /\ BlocksInv'
    BY <1>1, CacheKept, NextBlocks DEF IInv
  <1>4. CASE pc' = "null written" /\ UNCHANGED <<at, silence>>
    BY <1>3, <1>4 DEF IInv, QuietInv, CallInv, PrepareInv, ReleaseInv
  <1>5. CASE /\ HasBus(data.outputs, at)
             /\ silence' = [silence EXCEPT ![at] = SilentOutputs(at)]
             /\ at' = at + 1 /\ UNCHANGED pc
    <2>1. /\ data \in DataSet /\ at \in Nat \ {0} /\ DOMAIN silence = DOMAIN data.outputs
          /\ \A p \in DOMAIN ports.outputs : p < at => silence[p] = SilentOutputs(p)
      BY <1>1 DEF IInv, CallInv, ReleaseInv
    <2>2. at \in DOMAIN silence
      BY <1>5, <2>1, DataTypes DEF HasBus
    <2>3. CallInv'
      <3>1. DataSet' = DataSet
        BY <1>1, <1>2 DEF DataSet, FloatSize, CanDo64
      <3>2. DOMAIN silence' = DOMAIN silence /\ at' \in Nat \ {0} /\ pc' = pc
        BY <1>5, <2>1
      <3> QED
        BY <1>1, <1>2, <3>1, <3>2 DEF IInv, CallInv
    <2>4. ReleaseInv'
      <3>1. \A p \in DOMAIN ports.outputs : SilentOutputs(p)' = SilentOutputs(p)
        BY <1>1, <1>2 DEF SilentOutputs, Present, HasBus
      <3>2. ASSUME NEW p \in DOMAIN ports.outputs, p < at'
            PROVE  silence'[p] = SilentOutputs(p)
        <4>1. CASE p = at
          BY <1>5, <2>2, <4>1
        <4>2. CASE p # at
          <5>1. p \in Nat
            <6>1. ports.outputs \in Seq(Port)
              BY <1>1, ActiveFacts
            <6>2. DOMAIN ports.outputs = 1..Len(ports.outputs) /\ Len(ports.outputs) \in Nat
              BY <6>1, LenProperties
            <6> QED
              BY <6>2
          <5>2. p < at
            BY <1>5, <2>1, <3>2, <4>2, <5>1
          <5> QED
            BY <1>5, <2>1, <4>2, <5>2
        <4> QED
          BY <4>1, <4>2
      <3> QED
        BY <1>2, <3>1, <3>2 DEF ReleaseInv
    <2>5. QuietInv' /\ PrepareInv'
      BY <1>1, <1>5 DEF QuietInv, PrepareInv
    <2> QED
      BY <1>3, <2>3, <2>4, <2>5 DEF IInv
  <1> QED
    BY <1>1, <1>4, <1>5

LEMMA ReturnsIInv ==
  ASSUME IInv, process_returns
  PROVE  IInv'
  <1>1. pc = "release" /\ pc' = "idle" /\ construct(cap) /\ UNCHANGED cache
    BY DEF process_returns
  <1>2. CachesInv' /\ MapsInv'
    BY <1>1, CacheKept DEF IInv
  <1>3. cap \in Nat
    BY <1>1, ActiveFacts
  <1>4. BlocksInv'
    BY <1>1, <1>3, NextBlocks DEF IInv, AllocatorNext
  <1>5. QuietInv' /\ CallInv' /\ PrepareInv' /\ ReleaseInv'
    BY <1>1 DEF QuietInv, CallInv, PrepareInv, ReleaseInv, construct
  <1> QED
    BY <1>2, <1>4, <1>5 DEF IInv

LEMMA StutterIInv ==
  ASSUME IInv, UNCHANGED vars
  PROVE  IInv'
  <1>1. /\ UNCHANGED <<pc, cache, block, data, at, inputs, outputs, constant, plugin_mask, silence>>
        /\ UNCHANGED allocator
    BY DEF vars, pointers, results
  <1>2. UNCHANGED <<plugin, selected, configs, ports, remappers, accepted, cap, top, blocks>>
    BY <1>1 DEF cache, allocator
  <1>3. CachesInv'
    BY <1>1, <1>2
    DEF IInv, CachesInv, ConfigsInv, Config, ValidLayout, CacheTrue, ArrangementHonoured
  <1>4. BlocksInv'
    BY <1>1, NextBlocks DEF IInv
  <1>5. DataSet' = DataSet
    BY <1>1, <1>2 DEF DataSet, FloatSize, CanDo64
  <1>6. MapsInv' /\ QuietInv' /\ CallInv'
    BY <1>1, <1>2, <1>5 DEF IInv, MapsInv, Mapped, QuietInv, CallInv
  <1>7. Plan' = Plan
    BY <1>2 DEF Plan, PortEntries
  <1>8. PrepareInv'
    <2>1. ASSUME NEW p, NEW h
          PROVE  /\ InputAt(p, h)' <=> InputAt(p, h)
                 /\ OutputAt(p, h)' <=> OutputAt(p, h)
      <3>1. \A e : Done(e)' <=> Done(e)
        BY <1>1, <1>7 DEF Done
      <3>2. /\ Present(data'.inputs, p, h) <=> Present(data.inputs, p, h)
            /\ Present(data'.outputs, p, h) <=> Present(data.outputs, p, h)
            /\ SilentInput(p, h)' <=> SilentInput(p, h)
        BY <1>1 DEF Present, HasBus, SilentInput
      <3>3. OutputAt(p, h)' <=> OutputAt(p, h)
        BY <1>1, <1>2, <3>1, <3>2 DEF OutputAt
      <3>4. InputAt(p, h)' <=> InputAt(p, h)
        BY <1>1, <1>2, <3>1, <3>2 DEF InputAt, Copied
      <3> QED
        BY <3>3, <3>4
    <2> QED
      BY <1>1, <1>2, <2>1 DEF IInv, PrepareInv
  <1>9. ReleaseInv'
    BY <1>1, <1>2 DEF IInv, ReleaseInv, SilentOutputs, Present, HasBus
  <1> QED
    BY <1>3, <1>4, <1>6, <1>8, <1>9 DEF IInv

LEMMA InitIInv == Init => IInv
  <1> SUFFICES ASSUME Init PROVE IInv
    OBVIOUS
  <1>1. /\ pc = "created" /\ configs = << >>
        /\ plugin \in Plugins /\ selected \in DOMAIN plugin.layouts
    BY DEF Init, CachesInit
  <1>2. CachesInv
    BY <1>1 DEF CachesInv, ConfigsInv, CacheTrue, ArrangementHonoured
  <1>3. BlocksInv /\ QuietInv
    BY InitBlocks DEF Init, AllocatorInit, QuietInv
  <1>4. MapsInv /\ CallInv /\ PrepareInv /\ ReleaseInv
    BY <1>1 DEF MapsInv, CallInv, PrepareInv, ReleaseInv
  <1> QED
    BY <1>2, <1>3, <1>4 DEF IInv

LEMMA NextIInv ==
  ASSUME IInv, [Next]_vars
  PROVE  IInv'
  <1>1. CASE \E d \in DataSet : process(d)
    BY <1>1, ProcessIInv
  <1> QED
    BY <1>1, PortsIInv, ActivationIInv, PrepareIInv, PluginIInv, ReleaseIInv, ReturnsIInv,
       StutterIInv DEF Next, Ended

\* The invariant of the buffers.
THEOREM BuffersInvariant == Spec => []IInv
  <1>1. IInv /\ [Next]_vars => IInv'
    BY NextIInv
  <1> QED
    BY InitIInv, <1>1, PTL DEF Spec

\* At the plugin's call all channels of the plugin's ports have been set.
LEMMA AllSet ==
  ASSUME IInv, PluginCalled
  PROVE  /\ ports.inputs = Real.inputs /\ ports.outputs = Real.outputs
         /\ DOMAIN inputs = DOMAIN ports.inputs /\ DOMAIN outputs = DOMAIN ports.outputs
         /\ \A p \in DOMAIN ports.inputs :
              /\ DOMAIN inputs[p] = 0 .. ports.inputs[p].count - 1
              /\ \A h \in 0 .. ports.inputs[p].count - 1 :
                   LET m == remappers.inputs[p].v3_to_clap[h] IN
                   /\ IF Present(data.inputs, p, h) THEN Copied(p, h, inputs[p][m])
                                                    ELSE inputs[p][m] = <<"zero">>
                   /\ m \in constant[p] <=> SilentInput(p, h)
         /\ \A p \in DOMAIN ports.outputs :
              /\ DOMAIN outputs[p] = 0 .. ports.outputs[p].count - 1
              /\ \A h \in 0 .. ports.outputs[p].count - 1 :
                   outputs[p][remappers.outputs[p].v3_to_clap[h]] =
                     IF Present(data.outputs, p, h) THEN <<"host", p, h>> ELSE <<"trash">>
  <1>1. pc = "prepare" /\ at > Len(Plan)
    BY DEF PluginCalled
  <1>2. /\ ports.inputs \in Seq(Port) /\ ports.outputs \in Seq(Port)
        /\ Len(Plan) \in Nat /\ DOMAIN Plan = 1..Len(Plan)
    BY <1>1, ActiveFacts
  <1>3. at \in Nat
    BY <1>1 DEF IInv, CallInv
  <1>4. \A i \in 1..Len(Plan) : i \in 1 .. at - 1
    BY <1>1, <1>2, <1>3
  <1>5. \A i \in 1..Len(Plan) : Done(Plan[i])
    BY <1>2, <1>4 DEF Done
  <1>6. ASSUME NEW p \in DOMAIN ports.inputs, NEW h \in 0 .. ports.inputs[p].count - 1
        PROVE  Done(Entry("input", p, h)) /\ InputAt(p, h)
    <2>1. PICK i \in 1..Len(Plan) : Plan[i] = Entry("input", p, h)
      BY <1>2, PlanComplete
    <2> QED
      BY <1>1, <1>5, <2>1 DEF IInv, PrepareInv
  <1>7. ASSUME NEW p \in DOMAIN ports.outputs, NEW h \in 0 .. ports.outputs[p].count - 1
        PROVE  Done(Entry("output", p, h)) /\ OutputAt(p, h)
    <2>1. PICK i \in 1..Len(Plan) : Plan[i] = Entry("output", p, h)
      BY <1>2, PlanComplete
    <2> QED
      BY <1>1, <1>5, <2>1 DEF IInv, PrepareInv
  <1>8. ports.inputs = Real.inputs /\ ports.outputs = Real.outputs
    BY <1>1 DEF IInv, CachesInv, CacheTrue, Real
  <1>9. /\ DOMAIN inputs = DOMAIN ports.inputs /\ DOMAIN outputs = DOMAIN ports.outputs
        /\ \A p \in DOMAIN ports.inputs : DOMAIN inputs[p] = 0 .. ports.inputs[p].count - 1
        /\ \A p \in DOMAIN ports.outputs : DOMAIN outputs[p] = 0 .. ports.outputs[p].count - 1
    BY <1>1 DEF IInv, CallInv
  <1>10. ASSUME NEW p \in DOMAIN ports.inputs, NEW h \in 0 .. ports.inputs[p].count - 1
         PROVE  LET m == remappers.inputs[p].v3_to_clap[h] IN
                /\ IF Present(data.inputs, p, h) THEN Copied(p, h, inputs[p][m])
                                                 ELSE inputs[p][m] = <<"zero">>
                /\ m \in constant[p] <=> SilentInput(p, h)
    BY <1>6 DEF InputAt
  <1>11. ASSUME NEW p \in DOMAIN ports.outputs, NEW h \in 0 .. ports.outputs[p].count - 1
         PROVE  outputs[p][remappers.outputs[p].v3_to_clap[h]] =
                  IF Present(data.outputs, p, h) THEN <<"host", p, h>> ELSE <<"trash">>
    BY <1>7 DEF OutputAt
  <1> QED
    BY <1>8, <1>9, <1>10, <1>11

\* The plugin may use all its channels for all frames of the call, and the
\* memory of the copies is in blocks that are apart, for all plugins and
\* hosts' buses.
LEMMA MemoryHolds ==
  ASSUME IInv
  PROVE  ChannelMemory
  <1> SUFFICES ASSUME PluginCalled PROVE ChannelMemory
    BY DEF ChannelMemory
  <1>1. pc = "prepare"
    BY DEF PluginCalled
  <1>2. /\ DOMAIN inputs = DOMAIN Real.inputs /\ DOMAIN outputs = DOMAIN Real.outputs
        /\ ports.inputs = Real.inputs /\ ports.outputs = Real.outputs
    BY AllSet
  <1>3. ASSUME NEW p \in DOMAIN inputs, NEW c \in 0 .. Real.inputs[p].count - 1
        PROVE  /\ inputs[p][c] # <<"null">>
               /\ inputs[p][c][1] = "copy" =>
                    \E b \in Range(blocks) :
                      b.at = inputs[p][c][4] /\ b.size = data.nframes * data.real
    <2>1. Permutes(ports.inputs[p].count, remappers.inputs[p].v3_to_clap)
      BY <1>1, <1>2, ActiveFacts
    <2>2. PICK h \in 0 .. ports.inputs[p].count - 1 : remappers.inputs[p].v3_to_clap[h] = c
      BY <1>2, <2>1 DEF Permutes
    <2>3. IF Present(data.inputs, p, h) THEN Copied(p, h, inputs[p][c])
                                        ELSE inputs[p][c] = <<"zero">>
      BY <1>2, <2>2, AllSet
    <2>4. CASE Present(data.inputs, p, h)
      <3>1. PICK b \in Range(blocks) :
              b.size = data.nframes * data.real /\ inputs[p][c] = <<"copy", p, h, b.at>>
        BY <2>3, <2>4 DEF Copied
      <3> QED
        BY <3>1
    <2>5. CASE ~Present(data.inputs, p, h)
      BY <2>3, <2>5
    <2> QED
      BY <2>4, <2>5
  <1>4. ASSUME NEW p \in DOMAIN outputs, NEW c \in 0 .. Real.outputs[p].count - 1
        PROVE  outputs[p][c] # <<"null">>
    <2>1. Permutes(ports.outputs[p].count, remappers.outputs[p].v3_to_clap)
      BY <1>1, <1>2, ActiveFacts
    <2>2. PICK h \in 0 .. ports.outputs[p].count - 1 : remappers.outputs[p].v3_to_clap[h] = c
      BY <1>2, <2>1 DEF Permutes
    <2>3. outputs[p][c] = IF Present(data.outputs, p, h) THEN <<"host", p, h>> ELSE <<"trash">>
      BY <1>2, <2>2, AllSet
    <2> QED
      BY <2>3
  <1> QED
    BY <1>2, <1>3, <1>4 DEF ChannelMemory

\* No plugin has a port that names a speaker above 31 twice.
SpeakersApart ==
  \A p \in Plugins : \A n \in DOMAIN p.layouts :
    /\ \A i \in DOMAIN p.layouts[n].inputs : TellsApart(p.layouts[n].inputs[i])
    /\ \A i \in DOMAIN p.layouts[n].outputs : TellsApart(p.layouts[n].outputs[i])

\* The host's channel of a speaker is the one that is remapped to the
\* plugin's channel of that speaker.
LEMMA RanksKept ==
  ASSUME SpeakersApart, IInv, pc \notin {"created", "fatal"}
  PROVE  /\ \A p \in DOMAIN ports.inputs : \A c \in 0 .. ports.inputs[p].count - 1 :
              LET h == Rank(ports.inputs[p], c) IN
              h \in 0 .. ports.inputs[p].count - 1 /\ remappers.inputs[p].v3_to_clap[h] = c
         /\ \A p \in DOMAIN ports.outputs : \A c \in 0 .. ports.outputs[p].count - 1 :
              LET h == Rank(ports.outputs[p], c) IN
              h \in 0 .. ports.outputs[p].count - 1 /\ remappers.outputs[p].v3_to_clap[h] = c
  <1>1. /\ ports.inputs \in Seq(Port) /\ ports.outputs \in Seq(Port)
        /\ Mapped(remappers.inputs, ports.inputs) /\ Mapped(remappers.outputs, ports.outputs)
    BY DEF IInv, MapsInv
  <1>2. /\ \A p \in DOMAIN ports.inputs : TellsApart(ports.inputs[p])
        /\ \A p \in DOMAIN ports.outputs : TellsApart(ports.outputs[p])
    <2>1. /\ plugin \in Plugins /\ selected \in DOMAIN plugin.layouts
          /\ ports.inputs = plugin.layouts[selected].inputs
          /\ ports.outputs = plugin.layouts[selected].outputs
      BY DEF IInv, CachesInv, CacheTrue
    <2> QED
      BY <2>1 DEF SpeakersApart
  <1>3. ASSUME NEW list \in Seq(Port), NEW r, Mapped(r, list), NEW p \in DOMAIN list,
               TellsApart(list[p]), NEW c \in 0 .. list[p].count - 1
        PROVE  /\ Rank(list[p], c) \in 0 .. list[p].count - 1
               /\ r[p].v3_to_clap[Rank(list[p], c)] = c
    <2>1. list[p] \in Port
      BY LenProperties, ElementOfSeq
    <2>2. r[p] \in MappingsOf(list[p]) /\ r[p].valid
      BY <1>3 DEF Mapped
    <2> QED
      BY <1>3, <2>1, <2>2, ValidOrder
  <1> QED
    BY <1>1, <1>2, <1>3

LEMMA SpeakersHold ==
  ASSUME SpeakersApart, IInv
  PROVE  SpeakersKept
  <1> SUFFICES ASSUME PluginCalled PROVE SpeakersKept
    BY DEF SpeakersKept
  <1>1. pc \notin {"created", "fatal"}
    BY DEF PluginCalled
  <1>2. /\ DOMAIN inputs = DOMAIN ports.inputs /\ DOMAIN outputs = DOMAIN ports.outputs
        /\ ports.inputs = Real.inputs /\ ports.outputs = Real.outputs
    BY AllSet
  <1>3. ASSUME NEW p \in DOMAIN inputs, NEW c \in DOMAIN inputs[p],
               NEW h, h = Rank(Real.inputs[p], c)
        PROVE  IF Present(data.inputs, p, h)
               THEN \E b \in Range(blocks) : inputs[p][c] = <<"copy", p, h, b.at>>
               ELSE inputs[p][c] = <<"zero">>
    <2>1. c \in 0 .. ports.inputs[p].count - 1
      BY <1>2, AllSet
    <2>2. h \in 0 .. ports.inputs[p].count - 1 /\ remappers.inputs[p].v3_to_clap[h] = c
      BY <1>1, <1>2, <1>3, <2>1, RanksKept
    <2>3. IF Present(data.inputs, p, h) THEN Copied(p, h, inputs[p][c])
                                        ELSE inputs[p][c] = <<"zero">>
      BY <1>2, <2>2, AllSet
    <2>4. CASE Present(data.inputs, p, h)
      BY <2>3, <2>4 DEF Copied
    <2>5. CASE ~Present(data.inputs, p, h)
      BY <2>3, <2>5
    <2> QED
      BY <2>4, <2>5
  <1>4. ASSUME NEW p \in DOMAIN outputs, NEW c \in DOMAIN outputs[p],
               NEW h, h = Rank(Real.outputs[p], c)
        PROVE  outputs[p][c] = IF Present(data.outputs, p, h) THEN <<"host", p, h>>
                                                              ELSE <<"trash">>
    <2>1. c \in 0 .. ports.outputs[p].count - 1
      BY <1>2, AllSet
    <2>2. h \in 0 .. ports.outputs[p].count - 1 /\ remappers.outputs[p].v3_to_clap[h] = c
      BY <1>1, <1>2, <1>4, <2>1, RanksKept
    <2> QED
      BY <1>2, <2>2, AllSet
  <1> QED
    BY <1>3, <1>4 DEF SpeakersKept

LEMMA SilenceHolds ==
  ASSUME SpeakersApart, IInv
  PROVE  SilenceKept
  <1>1. ASSUME PluginCalled, NEW p \in DOMAIN inputs, NEW c \in DOMAIN inputs[p]
        PROVE  c \in constant[p] <=> SilentInput(p, Rank(Real.inputs[p], c))
    <2>1. pc \notin {"created", "fatal"}
      BY <1>1 DEF PluginCalled
    <2>2. DOMAIN inputs = DOMAIN ports.inputs /\ ports.inputs = Real.inputs
      BY <1>1, AllSet
    <2>3. c \in 0 .. ports.inputs[p].count - 1
      BY <1>1, <2>2, AllSet
    <2>4. PICK h : h = Rank(ports.inputs[p], c)
      OBVIOUS
    <2>5. h \in 0 .. ports.inputs[p].count - 1 /\ remappers.inputs[p].v3_to_clap[h] = c
      BY <2>1, <2>2, <2>3, <2>4, RanksKept
    <2>6. c \in constant[p] <=> SilentInput(p, h)
      BY <1>1, <2>2, <2>5, AllSet
    <2> QED
      BY <2>2, <2>4, <2>6
  <1>2. ASSUME pc = "release", at > Len(ports.outputs),
               NEW p \in DOMAIN outputs, NEW c \in DOMAIN outputs[p],
               NEW h, h = Rank(Real.outputs[p], c),
               Present(data.outputs, p, h), data.nframes > 0
        PROVE  h \in silence[p] <=> c \in plugin_mask[p]
    <2>1. /\ pc \notin {"created", "fatal"}
          /\ ports.outputs = Real.outputs /\ DOMAIN outputs = DOMAIN ports.outputs
          /\ data \in DataSet /\ at \in Nat
      BY <1>2 DEF IInv, CachesInv, CacheTrue, CallInv, Real
    <2>2. c \in 0 .. ports.outputs[p].count - 1
      BY <1>2, <2>1 DEF IInv, CallInv
    <2>3. h \in 0 .. ports.outputs[p].count - 1 /\ remappers.outputs[p].v3_to_clap[h] = c
      BY <1>2, <2>1, <2>2, RanksKept
    <2>4. p < at
      <3>1. ports.outputs \in Seq(Port)
        BY <2>1, ActiveFacts
      <3>2. DOMAIN ports.outputs = 1..Len(ports.outputs) /\ Len(ports.outputs) \in Nat
        BY <3>1, LenProperties
      <3> QED
        BY <1>2, <2>1, <3>2
    <2>5. silence[p] = SilentOutputs(p)
      BY <1>2, <2>1, <2>4 DEF IInv, ReleaseInv
    <2>6. ~(data.nframes < 1)
      <3>1. data.nframes \in Nat
        BY <2>1, DataTypes
      <3> QED
        BY <1>2, <3>1
    <2> QED
      BY <1>2, <2>3, <2>5, <2>6 DEF SilentOutputs
  <1> QED
    BY <1>1, <1>2 DEF SilenceKept

-----------------------------------------------------------------------------
(***************************************************************************)
(* What the calls of process keep, for all plugins, buses and block sizes. *)
(***************************************************************************)
\* In every call, whatever the component allocates of its memory, no two of
\* its blocks share memory and none leaves it (prepare_processing_buffers).
THEOREM CallBlocksApart == Spec => []BlocksApart
  <1>1. IInv => BlocksApart
    BY ApartBlocks DEF IInv
  <1> QED
    BY BuffersInvariant, <1>1, PTL

\* Calls of process never part the cached ports from the plugin's selection
\* (m_audio_ports).
THEOREM CallCacheTrue == Spec => []CacheTrue
  <1>1. IInv => CacheTrue
    BY DEF IInv, CachesInv
  <1> QED
    BY BuffersInvariant, <1>1, PTL

\* Nor the arrangements of the remappers that they use from those that the host
\* was granted (m_audio_ports_config).
THEOREM CallArrangementHonoured == Spec => []ArrangementHonoured
  <1>1. IInv => ArrangementHonoured
    BY DEF IInv, CachesInv
  <1> QED
    BY BuffersInvariant, <1>1, PTL

\* Every channel of the plugin has a pointer when process calls it, and the
\* copy of an input has room for all frames of the call.
THEOREM ChannelsHaveMemory == Spec => []ChannelMemory
  BY BuffersInvariant, MemoryHolds, PTL

\* What the plugin reads and writes as a speaker is the host's channel of that
\* speaker, in whatever order its map has the channels (ct_channel_remapper).
THEOREM SpeakersAlwaysKept == SpeakersApart /\ Spec => []SpeakersKept
  <1>1. SpeakersApart /\ IInv => SpeakersKept
    BY SpeakersHold
  <1>2. SpeakersApart => SpeakersApart'
    BY DEF SpeakersApart
  <1> QED
    BY BuffersInvariant, <1>1, <1>2, PTL

\* Silence is told of the right speaker, to the plugin and to the host
\* (prepare_processing_buffers, release_processing_buffers).
THEOREM SilenceAlwaysKept == SpeakersApart /\ Spec => []SilenceKept
  <1>1. SpeakersApart /\ IInv => SilenceKept
    BY SilenceHolds
  <1>2. SpeakersApart => SpeakersApart'
    BY DEF SpeakersApart
  <1> QED
    BY BuffersInvariant, <1>1, <1>2, PTL
=============================================================================
