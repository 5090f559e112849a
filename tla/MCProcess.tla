------------------------------ MODULE MCProcess ------------------------------
(***************************************************************************)
(* Stereo, one frame a block, a host that may pass two.  Buffers: without  *)
(* loss, the input reads the first cells; the output may be in place, in   *)
(* place with its channels exchanged, next to the input, partly over it,   *)
(* narrower, wider, absent, or no use at all.                              *)
(***************************************************************************)
EXTENDS Process

CONSTANTS c1, c2, c3

Port(types, cells) == [types |-> types, cells |-> cells]
Single == {"f32"}
Double == {"f64"}
Either == {"f32", "f64"}

Stereo == Port(Single, <<c1, c2>>)
Swapped == Port(Single, <<c2, c1>>)

\* No use with frames to play: a null channel, one channel twice.
Bad == {Port(Single, <<None>>), Port(Single, <<c1, c1>>)}

MCShapes ==
  {[frames |-> 1, input |-> Stereo, output |-> Port(Single, s)] :
     s \in {<<c1, c2>>, <<c2, c1>>, <<c3, c1>>, <<c2, c1, c3>>, <<c3>>}}
    \cup {[frames |-> 1, input |-> i, output |-> Swapped] :
            i \in {None, Port({}, <<>>), Port(Single, <<c1>>), Port(Single, <<c1, c1>>)}}
    \cup {[frames |-> 1, input |-> i, output |-> None] : i \in {None, Stereo}}
    \cup {[frames |-> n, input |-> Stereo, output |-> o] : n \in {0, 1}, o \in Bad}
    \cup {[frames |-> 2, input |-> Stereo, output |-> Swapped]}
    \cup {[frames |-> 1, input |-> Stereo, output |-> Port({}, <<c1>>)]}
    \cup {[frames |-> 1, input |-> Port(t, <<c1, c2>>), output |-> Port(u, <<c2, c1>>)] :
            t \in {Double, Either}, u \in {Single, Either}}

MCEventLists == {<<"other">>, <<"lost", "soft">>, <<"loud", "lost", "soft">>}
MCFlushLists == {<<>>, <<"flat">>}
=============================================================================
