--------------------------- MODULE MCProcessBuffers ---------------------------
(***************************************************************************)
(* Instances of ProcessBuffers for TLC.                                    *)
(***************************************************************************)
EXTENDS ProcessBuffers

PortWith(count, map) == [count |-> count, map |-> map, wide |-> FALSE]
Wide(port) == [port EXCEPT !.wide = TRUE]
List(in, out) == [inputs |-> in, outputs |-> out, told |-> <<Len(in), Len(out)>>]
Fixed(list) == [extension |-> FALSE, layouts |-> <<list>>]
Choice(lists) == [extension |-> TRUE, layouts |-> lists]

Stereo == PortWith(2, << >>)
Mono1 == PortWith(1, << >>)
Turned == PortWith(3, <<2, 0, 1>>)
Doubled == PortWith(2, <<3, 3>>)

\* A surround effect, a stereo effect with a mono side input, an instrument
\* that can do 64 bits, and plugins that are refused; and plugins with
\* configurations: with fewer inputs, with the same inputs, with one that is
\* not valid, and with one that is not what it announced.
Effects == {
  Fixed(List(<<Turned>>, <<Turned>>)),
  Fixed(List(<<Stereo, Mono1>>, <<Stereo>>)),
  Fixed(List(<<Wide(Stereo)>>, <<Wide(PortWith(2, <<1, 0>>))>>)),
  Fixed(List(<<Doubled>>, << >>)),
  Fixed(List(<< >>, <<PortWith(2, <<19, 0>>)>>)),
  Choice(<<List(<<Mono1>>, <<Mono1>>), List(<<Doubled>>, <<Mono1>>),
           List(<<Mono1>>, <<Stereo>>), List(<< >>, <<PortWith(2, <<1, 0>>)>>)>>),
  Choice(<<List(<<Mono1>>, <<Mono1>>), [List(<<Mono1>>, << >>) EXCEPT !.told = <<1, 1>>]>>)}

StereoEffect == {Fixed(List(<<Stereo>>, <<Stereo>>))}

Bus(has, silent) == [has |-> has, silent |-> silent]

SomeBuses == {Bus(<<TRUE, TRUE, TRUE>>, {}), Bus(<<TRUE, TRUE, TRUE>>, {0}),
              Bus(<<TRUE, FALSE>>, {0, 1}), Bus(<<TRUE>>, {})}
StereoBus == {Bus(<<TRUE, TRUE>>, {})}
=============================================================================
