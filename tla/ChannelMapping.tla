--------------------------- MODULE ChannelMapping ---------------------------
(***************************************************************************)
(* How the channels of a port are numbered on the two sides                *)
(* (ct_channel_remapper::configure).  A CLAP port may have its channels in *)
(* any order and says so with a map: the speaker of each channel.  A VST3  *)
(* arrangement is a set of speakers, whose channels come in increasing     *)
(* order of the speakers.                                                  *)
(***************************************************************************)
EXTENDS Integers, Sequences, FiniteSets

MaxChannels == 64            \* ct_port_max_channels
Mono == 19                   \* the speaker v3_speaker_mono stands for

Invalid == [valid |-> FALSE, arrangement |-> {}, v3_to_clap |-> << >>]

\* The arrangement is kept in 32 bits.
Bits(speakers) == speakers \cap 0..31

\* Mutant: the inverse map.
Sorts_Inverted(count, map) ==
  {s \in [0 .. count - 1 -> 0 .. count - 1] :
     \A c, d \in 0 .. count - 1 :
       c # d => s[c] # s[d] /\ (s[c] < s[d] => map[c + 1] <= map[d + 1])}

\* The ways std::sort can order the first channels of the map by speaker: the
\* channel that comes at each place.
Sorts(count, map) ==
  {s \in [0 .. count - 1 -> 0 .. count - 1] :
     \A c, d \in 0 .. count - 1 :
       c < d => s[c] # s[d] /\ map[s[c] + 1] <= map[s[d] + 1]}

\* Refused: speakers out of range, Mono, and duplicates, as far as the bits
\* that are kept can tell.
Refused(count, map) ==
  \/ \E c \in 1..count : map[c] >= MaxChannels \/ map[c] = Mono
  \/ \E c, d \in 1..count : c # d /\ map[c] = map[d] /\ map[c] \in 0..31

\* The speakers of the channels; a port without a map has them in order.
Speakers(count, map) == IF map = << >> THEN [c \in 1..count |-> c - 1] ELSE map

\* The remappers that configure may make of a port with so many channels and
\* this map.  A single channel is Mono, whatever its map says.
Configure(count, map) ==
  LET speakers == Speakers(count, map) IN
  IF count > MaxChannels THEN {Invalid}
  ELSE IF count <= 1
  THEN {[valid |-> TRUE, arrangement |-> IF count = 0 THEN {} ELSE {Mono},
         v3_to_clap |-> [c \in 0 .. count - 1 |-> c]]}
  ELSE IF Len(speakers) < count \/ Refused(count, speakers) THEN {Invalid}
  ELSE {[valid |-> TRUE, arrangement |-> Bits({speakers[c] : c \in 1..count}),
         v3_to_clap |-> s] : s \in Sorts(count, speakers)}
=============================================================================
