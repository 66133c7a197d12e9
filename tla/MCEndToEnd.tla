------------------------------ MODULE MCEndToEnd ------------------------------
(* EndToEnd for TLC: NAL units of a few bytes.  The types are 32 VPS, 33 SPS, 34 PPS, 39 *)
(* SEI, 19 and 20 IDR, 21 CRA, 1 a trailing picture.                                     *)
EXTENDS EndToEnd, TLC

Unit(type, payload) == <<2 * type, 1>> \o payload

MCParameterSets == <<Unit(32, <<>>), Unit(33, <<7>>), Unit(34, <<>>)>>

Sample(units, cutOff, width, sync) ==
  [units |-> units, cutOff |-> cutOff, width |-> width, sync |-> sync]

Idr      == Sample(<<Unit(39, <<>>), Unit(19, <<5>>)>>, <<>>, 4, TRUE)
ShortIdr == Sample(<<Unit(20, <<>>)>>, <<9, 1>>, 1, TRUE)
LargeIdr == Sample(<<Unit(19, <<1, 0, 0, 3, 0, 0, 3, 1, 128>>)>>, <<>>, 2, TRUE)
Cra      == Sample(<<Unit(21, <<>>)>>, <<>>, 2, TRUE)
Delta    == Sample(<<Unit(1, <<0, 3>>), Unit(1, <<4>>)>>, <<>>, 1, FALSE)
Nothing  == Sample(<<>>, <<0, 0, 0, 0>>, 4, FALSE)

MCSamples == {Idr, ShortIdr, LargeIdr, Cra, Delta, Nothing}

EncoderSymmetry == Permutations(Encoders)

===============================================================================
