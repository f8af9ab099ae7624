---------------------------- MODULE MCCExamples ----------------------------
(* All the examples, for TLC.                                              *)
EXTENDS CExamples

MCRequests == {"body", "none", "null", "server", "cleanup", "cleanup_server", "cleanup_provider"} \X (1 .. 40)

MCReplies ==
    [err : {"ok", "error", "not started"}, num : 0 .. 65535,
     text : {"", "cut", "peer", "stale", "cid", "json", "[]", "garbled", ServiceData}
            \cup {b.text : b \in {Hello, Again, News, ValueData, Relayed}},
     names : SUBSET UNION {Programs[m].nodes \cup {"proto"} : m \in Mains}]
=============================================================================
