--------------------------- MODULE MCYamuxChannel ---------------------------
(* Instances of YamuxChannel for TLC.                                      *)
EXTENDS YamuxChannel

CONSTANTS w1, w2, w3, w4

\* w4 is the responder's.
Writers == [w \in Writes |-> IF w = w4 THEN "b" ELSE "a"]
Lengths == [w \in Writes |-> IF w = w1 THEN 3 ELSE 2]

Setting(size, clamp, writes, cancels, closers, resetters, breakers, reject) ==
    [windowSize |-> size, maxSendWindow |-> clamp, writes |-> writes, cancels |-> cancels,
     closers |-> closers, resetters |-> resetters, breakers |-> breakers, reject |-> reject]

\* One way with cancellation, refusal and a writer that resets; one way to a reader
\* that half-closes and resets; both ways with a window below the default, closes
\* and resets; the end of the session around one write, of either end; and a
\* stream that is used and closed.
AllSettings ==
    {Setting(3, 3, {w1, w2}, {w1}, {"a"}, {"a"}, {}, TRUE),
     Setting(3, 8, {w1, w2}, {}, {"b"}, {"b"}, {}, FALSE),
     Setting(1, 8, {w2, w4}, {}, Ends, {"a"}, {}, FALSE),
     Setting(1, 8, {w2}, {}, {"a"}, {"b"}, {"a"}, FALSE),
     Setting(1, 8, {w4}, {}, {}, {}, {"a"}, FALSE),
     Setting(3, 8, {w1, w2, w3}, {}, {"a"}, {}, {}, FALSE)}

\* Both ends write and close.
HalfClosing == {Setting(1, 8, {w2, w4}, {}, Ends, {}, {}, FALSE)}
=============================================================================
