---------------------------- MODULE MCNetSession ----------------------------
(* Bytes with four values, the marker 3, bodies of two to four bytes.       *)
EXTENDS NetSession

Frame(head, size, body, tail) ==
    [head |-> head, size |-> size, body |-> body, tail |-> tail]

Whole == Frame(3, 2, <<0, 3>>, 3)
NoHead == Frame(2, 2, <<1, 1>>, 3)
NoTail == Frame(3, 2, <<1, 1>>, 2)

\* For one connection: right packets, then each kind of wrong one between
\* packets that a decoder left out of step might still take for right ones.
\* The sizes 0 and 1 are too short and 5 is too long; 252 makes the size of
\* the packet wrap round in an unsigned int.
DecodePlans ==
    { <<Whole, Frame(3, 3, <<1, 3, 3>>, 3), Frame(3, 4, <<3, 0, 0, 0>>, 3), Whole>>,
      <<Whole, NoHead, Whole, Whole>>,
      <<Whole, NoTail, Whole, Whole>>,
      <<NoTail, NoHead, Whole, NoTail, Whole>>,
      <<Whole, Frame(3, 0, <<>>, 3), Whole, Whole>>,
      <<Whole, Frame(3, 1, <<1>>, 3), Whole, Whole>>,
      <<Frame(3, 5, <<1, 1, 3, 1, 1>>, 3), Whole, NoTail>>,
      <<Frame(3, 252, <<1, 1>>, 3), Whole, Whole>> }

\* For several connections: one packet each, right or wrong.
TablePlans == { <<Whole>>, <<NoHead>>, <<NoTail>> }
=============================================================================
