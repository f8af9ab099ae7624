----------------------------- MODULE MCConnTrim -----------------------------
(* Instances of ConnTrim for TLC. *)
EXTENDS ConnTrim, TLC

CONSTANTS m1, m2, m3, m4, p1, p2, p3

\* Three peers; p1 may connect a second time, or after it left.
Owner == [m \in Muxers |-> CASE m \in {m1, m4} -> p1 [] m = m2 -> p2 [] OTHER -> p3]
Ours == Muxers \cap {m2}

\* Protection, scores, other drops, decay with stops, and trims that stop meets.
Behaviours ==
    {[ops |-> {"close", "protect", "accept"}, muxers |-> {m1, m2, m4}],
     [ops |-> {"tags"}, muxers |-> {m1, m2, m3}],
     [ops |-> {"close", "drop", "accept"}, muxers |-> {m1, m2, m4}],
     [ops |-> {"decay", "stop"}, muxers |-> {m1}],
     [ops |-> {"close", "accept", "stop"}, muxers |-> {m1, m2, m4}]}
=============================================================================
