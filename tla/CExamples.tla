----------------------------- MODULE CExamples -----------------------------
(* The programs of cbind/examples over the C binding (cbind/libp2p.nim).   *)
(* A program is data: the steps of its main in order, each with the label   *)
(* it jumps to when it fails, and what it runs from each label to its end.  *)
(* What the nodes of a program hold is a set of facts.                      *)
EXTENDS CallWait, Sequences, FiniteSets, TLC

CONSTANTS
    Mains,               \* the programs to look at
    LOOKUP_ATTEMPTS      \* of service_disco.c (30 in the code)

MAX_ADDRS == 16
EchoMaxSize == 4096

-----------------------------------------------------------------------------
(* What the callbacks keep of a reply: a number, a text of that length, or   *)
(* names.                                                                    *)

Kept(num, text, names) == [err |-> "ok", num |-> num, text |-> text, names |-> names]
Failed(err) == [err |-> err, num |-> 0, text |-> "", names |-> {}]
Nothing == Kept(0, "", {})
Bytes(text, len) == Kept(len, text, {})

Least(m, n) == IF m <= n THEN m ELSE n
Truncated(b, cap) == IF b.num <= cap THEN b ELSE Bytes("cut", cap)
\* A list that does not fit is cut; the order of a table is any order.
Cut(S, cap) == {T \in SUBSET S : Cardinality(T) = Least(Cardinality(S), cap)}

on_peerinfo(naddrs) == Kept(Least(naddrs, MAX_ADDRS), "peer", {})
on_dial(streamId) == Kept(streamId, "", {})
on_read(b) == Truncated(b, 4096)
on_value(b) == Truncated(b, 512)
on_cid(b) == Truncated(b, 255)
on_metrics(b) == Truncated(b, 65535)
on_providers(S) == {Kept(0, "", T) : T \in Cut(S, 8)}
on_peers(S) == {Kept(0, "", T) : T \in Cut(S, 16)}
on_publish(peerCount) == Kept(peerCount, "", {})
on_reserve == Nothing
on_bool_reply(reply) == Kept(IF reply THEN 1 ELSE 0, "", {})
on_entry(naddrs, protocols) == Kept(naddrs, "", protocols)
\* The records that list the service, with the data they carry.
on_records(S, data) == {Kept(0, data, T) : T \in Cut(S, 32)}

-----------------------------------------------------------------------------
(* Steps of a main.  Label "": the result is ignored; "keep": remembered.  *)

St(do, on, to, arg, fail) == [do |-> do, on |-> on, to |-> to, arg |-> arg, fail |-> fail]

\* AWAIT_BOOL and the calls like it.
Ask(do, n, fail) == St(do, n, n, Nothing, fail)
Tell(do, n, m, fail) == St(do, n, m, Nothing, fail)

\* Mutant: nobody looks whether there is a context.
await_createUnchecked(n, features, fail) == St("create", n, n, Kept(0, "", features), "")

await_create(n, features, fail) == St("create", n, n, Kept(0, "", features), fail)
await_peerinfo(n, fail) == Ask("peer_info", n, fail)
await_connect(from, to, fail) == Tell("connect", from, to, fail)
Read(n, fail) == Ask("read", n, fail)
Write(n, m, b, fail) == St("write", n, m, b, fail)
\* Compare what call `do` of n brought with the replies that are right.
Match(do, n, replies) == St("match", n, do, replies, "")
Local(do, fail) == Ask(do, "", fail)
Stops(nodes) == [i \in DOMAIN nodes |-> Ask("stop", nodes[i], "")]
Destroys(nodes) == [i \in DOMAIN nodes |-> Ask("destroy", nodes[i], "")]

-----------------------------------------------------------------------------
(* echo.c                                                                  *)

Hello == Bytes("hello from cbind echo", 21)
Again == Bytes("hello again", 11)

\* The hand-off, the request, its echo (of the bytes read), and the release.
serveEcho(n, m) ==
    <<Local("await", ""), Local("take", ""), Local("reset", ""), Read(n, "cleanup"),
      Write(n, m, Nothing, "keep"), Ask("release", n, ""), Local("check", "cleanup")>>

\* `how`: with the addresses of the server, or over the connection there is.
echoRoundTrip(how, sent) ==
    <<St("dial", "client", "server", Bytes(how, 0), "cleanup"), Write("client", "server", sent, "cleanup")>>
    \o serveEcho("server", "client")
    \o <<Read("client", "cleanup"), Match("read", "client", {sent}),
         Tell("close_with_eof", "client", "server", ""),
         Ask("release", "client", ""), Local("check", "cleanup")>>

EchoMain ==
    [style |-> "poll", nodes |-> {"server", "client"},
     body |->
        <<await_create("server", {}, "none"), Ask("listen", "server", ""),
          Ask("mount_protocol", "server", "server"), Ask("start", "server", "server"),
          await_peerinfo("server", "server"), await_create("client", {}, "server"),
          Ask("start", "client", "cleanup")>>
        \o echoRoundTrip("addrs", Hello) \o echoRoundTrip("", Again)
        \o <<Local("pass", "")>>,
     exits |->
        [none |-> <<>>, server |-> Destroys(<<"server">>),
         cleanup |-> Stops(<<"client", "server">>) \o Destroys(<<"client", "server">>)],
     goal |-> {<<"heard", n, b>> : n \in {"server", "client"}, b \in {Hello, Again}},
     gone |-> {}, tidy |-> {<<"handle", n, s>> : n \in {"server", "client"}, s \in 1 .. 2}]

-----------------------------------------------------------------------------
(* gossipsub.c                                                             *)

News == Bytes("hello gossipsub", 15)

gossipsubNode(n) == await_create(n, {"gossipsub"}, "")

GossipsubMain ==
    [style |-> "poll", nodes |-> {"subscriber", "publisher"},
     body |->
        <<gossipsubNode("subscriber"), gossipsubNode("publisher"), Local("need", "null"),
          Ask("listen", "subscriber", ""),
          Ask("subscribe", "subscriber", "cleanup"), Ask("start", "subscriber", "cleanup"),
          Ask("subscribe", "publisher", "cleanup"), Ask("start", "publisher", "cleanup"),
          await_peerinfo("subscriber", "cleanup"),
          Tell("connect", "publisher", "subscriber", "cleanup"),
          St("publish", "publisher", "subscriber", News, "cleanup"),
          Local("await", ""), Local("take", ""), Match("take", "", {News}), Local("pass", "")>>,
     exits |->
        [null |-> Destroys(<<"subscriber", "publisher">>),
         cleanup |-> Stops(<<"publisher", "subscriber">>) \o Destroys(<<"publisher", "subscriber">>)],
     goal |-> {<<"heard", "subscriber", News>>},
     gone |-> {}, tidy |-> {}]

-----------------------------------------------------------------------------
(* kad.c                                                                   *)

ValueData == Bytes("hello kademlia", 14)

\* `boot`: the peers in its bootstrapNodes.
kadNode(n, boot, fail) == await_create(n, {"kad"} \cup boot, fail)

KadMain ==
    [style |-> "poll", nodes |-> {"server", "client"},
     body |->
        <<kadNode("server", {}, "none"), Ask("start", "server", "cleanup_server"),
          await_peerinfo("server", "cleanup_server"),
          kadNode("client", {"server"}, "cleanup_server"),
          Ask("start", "client", "cleanup"), await_connect("client", "server", "cleanup"),
          St("kad_put_value", "server", "server", ValueData, "cleanup"),
          Tell("kad_get_value", "client", "server", "cleanup"),
          Match("kad_get_value", "client", {ValueData}), Local("check", "cleanup"),
          Ask("create_cid", "", "cleanup"), Ask("kad_start_providing", "server", "cleanup"),
          Ask("kad_get_providers", "client", "cleanup"),
          Match("kad_get_providers", "client", {Kept(0, "", T) : T \in {{"server"}, {"server", "client"}}}),
          Local("pass", "")>>,
     exits |->
        [none |-> <<>>,
         cleanup_server |-> Stops(<<"server">>) \o Destroys(<<"server">>),
         cleanup |-> Stops(<<"client">>) \o Destroys(<<"client">>)
                     \o Stops(<<"server">>) \o Destroys(<<"server">>)],
     goal |-> {<<"value", "server", ValueData>>, <<"fetched", "client", ValueData>>,
               <<"provides", "server">>, <<"found", "client", "server">>},
     gone |-> {}, tidy |-> {}]

-----------------------------------------------------------------------------
(* relay.c                                                                 *)

Relayed == Bytes("hello over the relay", 20)

relayNode(n, client) == await_create(n, {IF client THEN "relayClient" ELSE "relay"}, "")

RelayMain ==
    [style |-> "poll", nodes |-> {"relay", "dst", "src"},
     body |->
        <<relayNode("relay", FALSE), relayNode("dst", TRUE), relayNode("src", TRUE),
          Local("need", "null"), Ask("listen", "dst", ""),
          Ask("mount_protocol", "dst", "cleanup"), Ask("start", "relay", "cleanup"),
          Ask("start", "dst", "cleanup"), Ask("start", "src", "cleanup"),
          await_peerinfo("relay", "cleanup"), await_peerinfo("dst", "cleanup"),
          Ask("need_addrs", "relay", "cleanup"), Tell("connect", "dst", "relay", "cleanup"),
          Tell("circuit_relay_reserve", "dst", "relay", "cleanup"),
          St("dial", "src", "dst", Bytes("circuit", 0), "cleanup"),
          Write("src", "dst", Relayed, "cleanup"), Local("await", ""), Local("take", ""),
          Read("dst", "cleanup"), Match("read", "dst", {Relayed}), Local("pass", ""),
          Local("take", ""), Ask("release", "dst", "")>>,
     exits |->
        [null |-> Destroys(<<"relay", "dst", "src">>),
         cleanup |-> Stops(<<"src", "dst", "relay">>) \o Destroys(<<"src", "dst", "relay">>)],
     goal |-> {<<"heard", "dst", Relayed>>, <<"reserved", "dst", "relay">>},
     gone |-> {}, tidy |-> {}]

-----------------------------------------------------------------------------
(* peerstore.c                                                             *)

get_peers(n, fail) == Ask("peerstore_get_peers", n, fail)
holds(names) == "other" \in names
Listings(held) == {Kept(0, "", T) : T \in {S \in SUBSET {"local", "other"} : holds(S) = held}}

PeerstoreMain ==
    [style |-> "poll", nodes |-> {"local", "other"},
     body |->
        <<await_create("local", {}, ""), await_create("other", {}, ""), Local("need", "null"),
          Ask("start", "other", "cleanup"), await_peerinfo("other", "cleanup"),
          Tell("peerstore_add_peer", "local", "other", "cleanup"),
          get_peers("local", "cleanup"),
          Tell("peerstore_get_peer_info", "local", "other", "cleanup"),
          Match("peerstore_get_peers", "local", Listings(TRUE)), Local("check", "cleanup"),
          Match("peerstore_get_peer_info", "local", {on_entry(k, {"proto"}) : k \in 1 .. MAX_ADDRS}),
          Local("check", "cleanup"),
          Tell("peerstore_delete_peer", "local", "other", "cleanup"),
          get_peers("local", "cleanup"),
          Match("peerstore_get_peers", "local", Listings(FALSE)), Local("check", "cleanup"),
          Local("pass", "")>>,
     exits |->
        [null |-> Destroys(<<"local", "other">>),
         cleanup |-> Stops(<<"other">>) \o Destroys(<<"other", "local">>)],
     goal |-> {<<"knew", "local", "other">>},
     gone |-> {<<"knows", "local", "other">>}, tidy |-> {}]

-----------------------------------------------------------------------------
(* metrics.c: the prefix that fits is looked at.                           *)

MetricsMain ==
    [style |-> "poll", nodes |-> {"node"},
     body |->
        <<await_create("node", {}, "none"), Ask("start", "node", "cleanup"),
          Ask("collect_metrics", "", "cleanup"),
          Match("collect_metrics", "", {Bytes("json", 4000), Bytes("cut", 65535)}), Local("pass", "")>>,
     exits |-> [none |-> <<>>, cleanup |-> Stops(<<"node">>) \o Destroys(<<"node">>)],
     goal |-> {<<"running", "node">>},
     gone |-> {}, tidy |-> {}]

-----------------------------------------------------------------------------
(* service_disco.c                                                         *)

ServiceData == "demo-payload"

discoNode(n, boot, fail) == await_create(n, {"disco", "kad"} \cup boot, fail)

\* A call that has to be refused, because the switch has not started.
rejectsDiscoBeforeStart(n, fail) == Ask("service_disco_start", n, fail)

\* Ask; what came is looked at by "found", which may go back to the asking.
lookupProvider(n, fail) == <<Ask("service_disco_lookup", n, fail), Local("found", fail)>>

ServiceDiscoMain ==
    [style |-> "poll", nodes |-> {"provider", "seeker"},
     body |->
        <<discoNode("provider", {}, "none"), rejectsDiscoBeforeStart("provider", "cleanup_provider"),
          Ask("start", "provider", "cleanup_provider"), await_peerinfo("provider", "cleanup_provider"),
          discoNode("seeker", {"provider"}, "cleanup_provider"),
          Ask("start", "seeker", "cleanup"), await_connect("seeker", "provider", "cleanup"),
          Ask("service_disco_start_advertising", "provider", "cleanup")>>
        \o lookupProvider("seeker", "cleanup") \o <<Local("pass", "")>>,
     exits |->
        [none |-> <<>>,
         cleanup_provider |-> Stops(<<"provider">>) \o Destroys(<<"provider">>),
         cleanup |-> Stops(<<"seeker">>) \o Destroys(<<"seeker">>)
                     \o Stops(<<"provider">>) \o Destroys(<<"provider">>)],
     goal |-> {<<"advertises", "provider">>, <<"found", "seeker", "provider">>},
     gone |-> {}, tidy |-> {}]

-----------------------------------------------------------------------------
(* libp2p_mobile_check.c; its rc is 0 until something fails.               *)

\* A reply of false is a failure, as an error is.
call_bool_method(do, n) ==
    <<Ask(do, n, "cleanup"), Match(do, n, {on_bool_reply(TRUE)}), Local("check", "cleanup")>>

MobileCheckMain ==
    [style |-> "cond", nodes |-> {"node"},
     body |->
        <<await_create("node", {}, "none")>> \o call_bool_method("start", "node")
        \o call_bool_method("stop", "node") \o <<Local("pass", "")>>,
     exits |-> [none |-> <<>>, cleanup |-> Destroys(<<"node">>)],
     goal |-> {<<"started", "node">>},
     gone |-> {<<"running", "node">>}, tidy |-> {}]

Programs ==
    [echo |-> EchoMain, gossipsub |-> GossipsubMain, kad |-> KadMain, relay |-> RelayMain,
     peerstore |-> PeerstoreMain, metrics |-> MetricsMain, service_disco |-> ServiceDiscoMain,
     libp2p_mobile_check |-> MobileCheckMain]

-----------------------------------------------------------------------------
VARIABLES
    prog,                \* the program
    path, at,            \* where its main is: the body or a label, and the step
    ctx,                 \* its LibP2PCtx pointers
    status, ok,          \* locals of main: the exit status, the latest comparison
    got,                 \* the replies it has copied, by call and node
    tries,               \* lookups made (service_disco.c)
    heard, flag, raising,\* the hand-off of an event: slot, flag, callback under way
    facts,               \* what the nodes hold
    trouble              \* history: a call failed, or brought less than it should

mainVars == <<prog, path, at, ctx, status, ok, got, tries>>
eventVars == <<heard, flag, raising>>
vars == <<waitVars, mainVars, eventVars, facts, trouble>>

P == Programs[prog]
Path(label) == IF label = "body" THEN P.body ELSE P.exits[label]
StepAt(q) == Path(q[1])[q[2]]
Ended == at > Len(Path(path))
Now == StepAt(<<path, at>>)
Locals ==
    {"listen", "need", "need_addrs", "await", "take", "reset", "match", "check", "pass",
     "found", "destroy"}

Init ==
    /\ WaitInit
    /\ prog \in Mains /\ style = P.style
    /\ path = "body" /\ at = 1
    /\ ctx = [n \in P.nodes |-> "null"]
    /\ status = 1 /\ ok = TRUE /\ got = <<>> /\ tries = 0
    /\ heard = Nothing /\ flag = FALSE /\ raising = FALSE
    /\ facts = {} /\ trouble = FALSE

-----------------------------------------------------------------------------
(* The library: the handlers of cbind/libp2p.nim.                          *)

Up(n) == <<"running", n>> \in facts
Has(n, feature) == <<"has", n, feature>> \in facts
Linked(n, m) == {<<"link", n, m>>, <<"link", m, n>>} \cap facts # {}
Addrs(n) == got[<<"peer_info", n>>].num
\* The stream main means: the one of the event, or the one it dialled.
Handle(n) ==
    IF <<"listens", n>> \in facts THEN got[<<"take", "">>].num ELSE got[<<"dial", n>>].num
\* StreamRegistry.get
Registered(n) == <<"handle", n, Handle(n)>> \in facts
\* StreamRegistry.register
NextStreamId(n) == Cardinality({f \in facts : f[1] = "dialled" /\ f[2] = n}) + 1
Incoming(n) == {f \in facts : f[1] = "bytes" /\ f[2] = n /\ f[3] = Handle(n)}

\* Mutant: discovery is driven on a node that does not listen.
RunningServiceDiscoveryAnyTime(n) == Has(n, "disco")

RunningServiceDiscovery(n) == Has(n, "disco") /\ Up(n)

\* A call that is not ready is refused.
Ready(x) ==
    CASE x.do = "mount_protocol" -> <<"mounted", x.on>> \notin facts
      [] x.do = "connect" -> Up(x.to) /\ Addrs(x.to) > 0
      [] x.do = "dial" ->
            /\ <<"mounted", x.to>> \in facts /\ Up(x.to)
            /\ CASE x.arg.text = "addrs" -> Addrs(x.to) > 0
                 [] x.arg.text = "circuit" -> \E r \in P.nodes : <<"reserved", x.to, r>> \in facts
                 [] OTHER -> Linked(x.on, x.to)
      [] x.do = "read" -> Registered(x.on) /\ \A f \in Incoming(x.on) : f[4].num <= EchoMaxSize
      [] x.do \in {"write", "close_with_eof", "release"} -> Registered(x.on)
      [] x.do \in {"subscribe", "publish"} -> Has(x.on, "gossipsub")
      [] x.do \in {"kad_put_value", "kad_start_providing", "kad_get_providers"} -> Has(x.on, "kad")
      [] x.do = "kad_get_value" -> 
            Has(x.on, "kad") /\ \E m \in P.nodes : Linked(x.on, m) /\ <<"value", m, ValueData>> \in facts
      [] x.do \in {"service_disco_start", "service_disco_start_advertising", "service_disco_lookup"} ->
            RunningServiceDiscovery(x.on)
      [] x.do = "circuit_relay_reserve" ->
            Has(x.on, "relayClient") /\ Has(x.to, "relay") /\ Linked(x.on, x.to)
      [] x.do = "peerstore_add_peer" -> Addrs(x.to) > 0
      [] OTHER -> TRUE

Refusal(x) ==
    IF x.do \in {"service_disco_start", "service_disco_start_advertising", "service_disco_lookup"}
       /\ Has(x.on, "disco")
    THEN "not started" ELSE "error"

\* readLp waits for a message, closeWithEOF for the peer to close.
Pending(x) ==
    \/ x.do = "read" /\ Registered(x.on) /\ Incoming(x.on) = {}
    \/ x.do = "close_with_eof" /\ Registered(x.on) /\ <<"handle", x.to, Handle(x.on)>> \in facts

\* What callbacks keep of the replies that may come.
Results(x) ==
    CASE x.do = "peer_info" -> {on_peerinfo(k) : k \in {0, 1, MAX_ADDRS + 1}}
      [] x.do = "dial" -> {on_dial(NextStreamId(x.on))}
      [] x.do = "read" -> {on_read(f[4]) : f \in Incoming(x.on)}
      [] x.do = "publish" -> {on_publish(k) : k \in {0, 1}}
      [] x.do = "circuit_relay_reserve" -> {on_reserve}
      [] x.do = "kad_get_value" -> {on_value(ValueData), on_value(Bytes("stale", 5))}
      [] x.do = "create_cid" -> {on_cid(Bytes("cid", 59))}
      [] x.do = "kad_get_providers" ->
            UNION {on_providers(S) : S \in SUBSET {m \in P.nodes : <<"provides", m>> \in facts}}
      [] x.do = "service_disco_lookup" ->
            UNION {on_records(S, data) : S \in SUBSET {m \in P.nodes : <<"advertises", m>> \in facts},
                                         data \in {ServiceData, "garbled"}}
      [] x.do = "peerstore_get_peers" -> on_peers({m \in P.nodes : <<"knows", x.on, m>> \in facts})
      [] x.do = "peerstore_get_peer_info" ->
            {IF <<"knows", x.on, x.to>> \in facts THEN on_entry(Addrs(x.to), {"proto"})
             ELSE on_entry(0, {})}
      [] x.do \in {"start", "stop"} -> {on_bool_reply(TRUE)}
      [] x.do = "collect_metrics" ->
            {on_metrics(Bytes("[]", 2)), on_metrics(Bytes("json", 4000)), on_metrics(Bytes("json", 100000))}
      [] OTHER -> {Nothing}

\* Replies that are legal and leave the program without what it needs.
FallsShort(x, v) ==
    \/ x.do \in {"peer_info", "publish"} /\ v.num = 0
    \/ v.text \in {"stale", "[]", "garbled"}
    \/ x.do = "kad_get_providers" /\ v.names = {}

\* The subscribers a message of x.on reaches: itself (triggerSelf), and when its
\* mesh has formed the other.
Subscribers(x, v) ==
    {n \in {x.on, x.to} : <<"topic", n>> \in facts /\ (n = x.on \/ (v.num > 0 /\ Linked(x.on, n)))}

Adds(x, v) ==
    CASE x.do = "create" -> {<<"has", x.on, f>> : f \in x.arg.names}
      [] x.do = "start" -> {<<"running", x.on>>, <<"started", x.on>>}
      [] x.do = "mount_protocol" -> {<<"mounted", x.on>>}
      [] x.do = "connect" -> {<<"link", x.on, x.to>>}
      [] x.do = "dial" ->
            {<<"link", x.on, x.to>>, <<"dialled", x.on, v.num>>, <<"handle", x.on, v.num>>,
             <<"arriving", x.to, v>>}
      [] x.do = "write" ->
            {<<"bytes", x.to, Handle(x.on), IF x.arg = Nothing THEN got[<<"read", x.on>>] ELSE x.arg>>}
      [] x.do = "read" -> {<<"heard", x.on, v>>}
      [] x.do = "subscribe" -> {<<"topic", x.on>>}
      [] x.do = "publish" -> {<<"arriving", n, x.arg>> : n \in Subscribers(x, v)}
      [] x.do = "kad_put_value" -> {<<"value", x.on, x.arg>>}
      [] x.do = "kad_get_value" -> {<<"fetched", x.on, v>>}
      [] x.do = "kad_start_providing" -> {<<"provides", x.on>>}
      [] x.do \in {"kad_get_providers", "service_disco_lookup"} -> {<<"found", x.on, m>> : m \in v.names}
      [] x.do = "service_disco_start_advertising" -> {<<"advertises", x.on>>}
      [] x.do = "circuit_relay_reserve" -> {<<"reserved", x.on, x.to>>}
      [] x.do = "peerstore_add_peer" -> {<<"knows", x.on, x.to>>, <<"knew", x.on, x.to>>}
      [] OTHER -> {}

Removes(x) ==
    CASE x.do = "stop" -> {f \in facts : f[1] = "running" /\ f[2] = x.on}
                          \cup {f \in facts : f[1] = "link" /\ x.on \in {f[2], f[3]}}
      [] x.do = "read" -> Incoming(x.on)
      [] x.do = "release" -> {<<"handle", x.on, Handle(x.on)>>}
      [] x.do = "peerstore_delete_peer" -> {<<"knows", x.on, x.to>>}
      [] OTHER -> {}

Handles(r) ==
    LET x == StepAt(r.what)
    IN  /\ ~Pending(x)
        /\ \/ /\ Ready(x)
              /\ \E v \in Results(x) :
                    /\ Answer(r, v)
                    /\ facts' = (facts \ Removes(x)) \cup Adds(x, v)
                    /\ trouble' = (trouble \/ FallsShort(x, v))
           \/ ~Ready(x) /\ Answer(r, Failed(Refusal(x))) /\ UNCHANGED <<facts, trouble>>
        /\ UNCHANGED <<mainVars, eventVars>>

\* Any call may fail for a reason of its own.
Fails(r) ==
    /\ Answer(r, Failed("error"))
    /\ trouble' = TRUE
    /\ UNCHANGED <<mainVars, eventVars, facts>>

Callback(r) ==
    /\ CallbackWrites(r) \/ CallbackDone(r) \/ CallbackUnlocks(r)
    /\ UNCHANGED <<mainVars, eventVars, facts, trouble>>

\* The handler of a mounted protocol, or of a topic, fires its event.  Only a
\* listener of that node's context hears of it: onIncomingStream and
\* onPubsubMessage fill the slot, and then raise the flag.
EventWrites(f) ==
    /\ ~Over /\ ~raising
    /\ f \in facts /\ f[1] = "arriving" /\ Up(f[2])
    /\ facts' = (facts \ {f}) \cup
                {IF f[3].text = "" THEN <<"handle", f[2], f[3].num>> ELSE <<"heard", f[2], f[3]>>}
    /\ IF <<"listens", f[2]>> \in facts
       THEN heard' = Truncated(f[3], 511) /\ raising' = TRUE
       ELSE UNCHANGED <<heard, raising>>
    /\ UNCHANGED <<waitVars, mainVars, flag, trouble>>

EventFlags ==
    /\ ~Over /\ raising
    /\ flag' = TRUE /\ raising' = FALSE
    /\ UNCHANGED <<waitVars, mainVars, heard, facts, trouble>>

-----------------------------------------------------------------------------
(* main                                                                    *)

\* To the next step, or to the label of the one that failed.
Proceeds(x, good) ==
    /\ \/ good /\ at' = at + 1 /\ path' = path
       \/ ~good /\ x.fail \in {"", "keep"} /\ at' = at + 1 /\ path' = path
       \/ ~good /\ x.fail \notin {"", "keep"} /\ at' = 1 /\ path' = x.fail
    /\ ok' = IF x.fail = "keep" THEN good ELSE ok

AtStep(do) == act = "run" /\ ~Ended /\ Now.do = do

Calls ==
    /\ act = "run" /\ ~Ended /\ Now.do \notin Locals
    /\ Submit(<<path, at>>)
    /\ UNCHANGED <<mainVars, eventVars, facts, trouble>>

Refused ==
    /\ act = "run" /\ ~Ended /\ Now.do \notin Locals
    /\ SubmitRefused
    /\ trouble' = TRUE
    /\ IF style = "cond" THEN Proceeds(Now, FALSE) ELSE UNCHANGED <<path, at, ok>>
    /\ UNCHANGED <<prog, ctx, status, got, tries, eventVars, facts>>

\* The reply is there.  rejectsDiscoBeforeStart wants one refusal and no other.
Resumes ==
    /\ SeesDone
    /\ LET x == Now
           good == field.err = IF x.do = "service_disco_start" THEN "not started" ELSE "ok"
       IN  /\ Proceeds(x, good)
           /\ ctx' = IF x.do = "create" /\ good THEN [ctx EXCEPT ![x.on] = "made"] ELSE ctx
           /\ got' = IF good THEN (<<x.do, x.on>> :> field) @@ got ELSE got
    /\ UNCHANGED <<prog, status, tries, eventVars, facts, trouble>>

WaitsOn ==
    /\ Blocks \/ WakesEarly \/ Deadline \/ GivesUp
    /\ UNCHANGED <<mainVars, eventVars, facts, trouble>>

\* add_on_incoming_stream_listener, add_on_pubsub_message_listener
Listens ==
    /\ AtStep("listen")
    /\ facts' = facts \cup {<<"listens", Now.on>>}
    /\ Proceeds(Now, TRUE)
    /\ UNCHANGED <<waitVars, prog, ctx, status, got, tries, eventVars, trouble>>

\* The comparisons and tests of main between two calls.
Tests ==
    /\ \/ AtStep("need") /\ Proceeds(Now, \A n \in P.nodes : ctx[n] # "null")
       \/ AtStep("need_addrs") /\ Proceeds(Now, Addrs(Now.on) > 0)
       \/ AtStep("check") /\ Proceeds(Now, ok)
       \/ /\ AtStep("match")
          /\ ok' = (got[<<Now.to, Now.on>>] \in Now.arg)
          /\ at' = at + 1 /\ path' = path
    /\ UNCHANGED <<waitVars, prog, ctx, status, got, tries, eventVars, facts, trouble>>

\* wait_done on the flag of an event.
EventSeen ==
    /\ AtStep("await") /\ flag
    /\ Proceeds(Now, TRUE)
    /\ UNCHANGED <<waitVars, prog, ctx, status, got, tries, eventVars, facts, trouble>>

EventMissed ==
    /\ AtStep("await") /\ ~flag
    /\ Quits
    /\ UNCHANGED <<mainVars, eventVars, facts, trouble>>

TakesSlot ==
    /\ AtStep("take")
    /\ got' = (<<"take", "">> :> heard) @@ got
    /\ Proceeds(Now, TRUE)
    /\ UNCHANGED <<waitVars, prog, ctx, status, tries, eventVars, facts, trouble>>

ResetsFlag ==
    /\ AtStep("reset")
    /\ flag' = FALSE
    /\ Proceeds(Now, TRUE)
    /\ UNCHANGED <<waitVars, prog, ctx, status, got, tries, heard, raising, facts, trouble>>

\* The end of a round of lookupProvider: found, found with other data, or again.
LooksAtRecords ==
    /\ AtStep("found")
    /\ LET v == got[<<"service_disco_lookup", "seeker">>]
           listed == "provider" \in v.names
       IN  /\ tries' = tries + 1
           /\ \/ listed /\ Proceeds(Now, v.text = ServiceData) /\ UNCHANGED trouble
              \/ ~listed /\ tries' < LOOKUP_ATTEMPTS
                 /\ at' = at - 1 /\ UNCHANGED <<path, ok, trouble>>
              \/ ~listed /\ tries' = LOOKUP_ATTEMPTS
                 /\ Proceeds(Now, FALSE) /\ trouble' = TRUE
    /\ UNCHANGED <<waitVars, prog, ctx, status, got, eventVars, facts>>

\* Mutant: success whatever the last comparison said.
PassesAlways ==
    /\ AtStep("pass")
    /\ status' = 0
    /\ Proceeds(Now, TRUE)
    /\ UNCHANGED <<waitVars, prog, ctx, got, tries, eventVars, facts, trouble>>

\* status = 0 when the last comparison held.
Passes ==
    /\ AtStep("pass")
    /\ status' = IF ok THEN 0 ELSE 1
    /\ Proceeds(Now, TRUE)
    /\ UNCHANGED <<waitVars, prog, ctx, got, tries, eventVars, facts, trouble>>

\* libp2p_ctx_destroy, which stops the node and frees the context; nothing for a
\* null pointer.  The mobile check reports a teardown that fails.
DestroysContext ==
    /\ AtStep("destroy")
    /\ LET n == Now.on
       IN  /\ ctx' = IF ctx[n] = "made" THEN [ctx EXCEPT ![n] = "dead"] ELSE ctx
           /\ facts' = {f \in facts : f[2] # n}
           /\ \/ UNCHANGED <<status, trouble>>
              \/ ctx[n] = "made" /\ trouble' = TRUE
                 /\ status' = IF style = "cond" THEN 1 ELSE status
    /\ Proceeds(Now, TRUE)
    /\ UNCHANGED <<waitVars, prog, got, tries, eventVars>>

EndsBody ==
    /\ act = "run" /\ Ended /\ path = "body"
    /\ path' = "cleanup" /\ at' = 1
    /\ UNCHANGED <<waitVars, prog, ctx, status, ok, got, tries, eventVars, facts, trouble>>

Exits ==
    /\ Ended /\ path # "body"
    /\ Returns
    /\ UNCHANGED <<mainVars, eventVars, facts, trouble>>

MainGoesOn ==
    \/ Calls \/ Resumes \/ Listens \/ Tests \/ EventSeen \/ EventMissed \/ TakesSlot
    \/ ResetsFlag \/ LooksAtRecords \/ Passes \/ DestroysContext \/ EndsBody \/ Exits

Dispatch == EventFlags \/ \E r \in inflight : Callback(r)

Next ==
    \/ MainGoesOn \/ Refused \/ WaitsOn \/ Dispatch
    \/ \E f \in facts : EventWrites(f)
    \/ \E r \in inflight : Handles(r) \/ Fails(r)

\* main and a callback that runs come to the end of what they do, and a wait to
\* its limit (after the deadline a timed wait always times out).  The library may
\* never answer.
Spec ==
    /\ Init /\ [][Next]_vars
    /\ WF_vars(MainGoesOn) /\ WF_vars(Dispatch)
    /\ WF_vars(GivesUp /\ UNCHANGED <<mainVars, eventVars, facts, trouble>>)
    /\ WF_vars(Blocks /\ UNCHANGED <<mainVars, eventVars, facts, trouble>>)
    /\ SF_vars(Deadline /\ UNCHANGED <<mainVars, eventVars, facts, trouble>>)

-----------------------------------------------------------------------------
(* Properties.                                                             *)

\* The cleanup of every main, from every label: no call is made with a null or
\* destroyed context, none is destroyed twice, and a main that returns has
\* destroyed every context it made.
ContextsInOrder ==
    /\ \A r \in inflight :
         LET x == StepAt(r.what) IN x.on \in P.nodes /\ x.do # "create" => ctx[x.on] = "made"
    /\ AtStep("destroy") => ctx[Now.on] # "dead"
    /\ act = "returned" => \A n \in P.nodes : ctx[n] # "made"

\* Types; at most MAX_ADDRS addresses are kept of a peer, which is what connAddrs,
\* dialAddrs and bootAddrs have room for; and the hand-off of an event holds one:
\* no event is written over one whose flag main has not yet lowered.  And the
\* contexts are created, used and destroyed in order.
WellFormed ==
    /\ WaitTypeOK
    /\ at \in 1 .. Len(Path(path)) + 1
    /\ ctx \in [P.nodes -> {"null", "made", "dead"}]
    /\ status \in {0, 1} /\ {ok, flag, raising, trouble} \subseteq BOOLEAN
    /\ tries \in 0 .. LOOKUP_ATTEMPTS
    /\ \A k \in DOMAIN got : k[1] = "peer_info" => got[k].num <= MAX_ADDRS
    /\ ~(raising /\ flag)
    /\ ContextsInOrder

\* Exit status 0 means what the example is there to show: when status is set to
\* 0 the bytes, records or values have made their way, and nothing is left that
\* the example deletes or (when no call failed) releases.
StatusTellsTruth ==
    [][status = 1 /\ status' = 0 =>
          /\ P.goal \subseteq facts /\ P.gone \cap facts = {}
          /\ ~trouble => P.tidy \cap facts = {}]_vars

\* The steps of each example are in an order the library accepts: unless a call
\* fails for a reason of its own, or brings too little, main returns 0.
SucceedsUnlessTroubled == act = "returned" /\ ~trouble => status = 0

\* Whatever the library does, also when it never answers, the example ends.
MainEnds == <>Over
=============================================================================
