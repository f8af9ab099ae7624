---------------------------- MODULE MCDialBackoff ----------------------------
(* Instances of DialBackoff for TLC. *)
EXTENDS DialBackoff

Conf(tolerance, base, factor, maxDelay, jitter) ==
    [tolerance |-> tolerance, base |-> base, factor |-> factor,
     maxDelay |-> maxDelay, jitter |-> jitter]

\* The shape of DefaultDialBackoff with a ceiling that is no power of the factor,
\* a tolerance with full jitter, a base above the ceiling, and the cases delay
\* treats apart.
MCConfigs ==
    {Conf(0, 1, 2, 3, 40), Conf(1, 1, 2, 2, 150), Conf(0, 2, 2, 1, 0),
     Conf(0, 1, 1, 2, 0), Conf(1, 2, 0, 1, 50), Conf(0, 0, 2, 2, 20), Conf(0, 1, 2, 0, 20)}
=============================================================================
