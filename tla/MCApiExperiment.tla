-------------------------- MODULE MCApiExperiment --------------------------
(* Small command lines and requests for ApiExperiment. *)
EXTENDS ApiExperiment

Line(t, o, c, w, s) == [tool |-> t, op |-> o, count |-> c, workers |-> w, samples |-> s]

\* loadgen-kv and loadgen-mesh: fewer, as many and more workers than requests; six
\* keys put two Puts into a mixed run; six requests fill the channel of loadgen-mesh.
OtherLines ==
  {Line(t, o, c, w, 1) : t \in KVStores, o \in {"write", "read", "mixed", "all"},
                         c \in 0 .. 2, w \in 1 .. 2}
    \union {Line("etcd", "mixed", 6, 2, 0)}
    \union {Line(t, o, 1, 0, s) : t \in KVStores, o \in {"watch", "election", "all"}, s \in 0 .. 2}
    \union {Line("mesh", "data-plane", c, w, 0) : c \in {1, 3, 6}, w \in 1 .. 2}

\* loadgen-http: the same, and every operation in turn.
HttpLines ==
  {Line(t, "all", 1, 1, 0) : t \in Protocols}
    \union {Line(t, "get-user", 2, 2, 0) : t \in {"rest", "grpc"}}
    \union {Line(t, "echo", c, 2 * c, 0) : t \in Protocols, c \in 0 .. 1}
    \union {Line("rest", "unknown", 2, 2, 0)}

\* Next to others, no load: two loads side by side are among the lines above.
BusyLines == {Line("rest", "echo", 0, 1, 0)}

SmallLines == OtherLines \union HttpLines \union BusyLines

MCFollowed == {<<"rest", "echo">>, <<"graphql", "request">>}

\* 25 and 20 bits instead of 64 and 53.
MCMaxInt   == 2^25 - 1
MCMaxExact == 2^20

MCUserIDs  == {10000}
MCVisitors == {<<0, 1>>}
MCReqs     == {<<0, 0>>, <<1, 0>>, <<1, 1>>, <<2, 0>>, <<3, 0>>} \union MCVisitors

Loads == UNION {LoadRequests(p, o) : p \in APIProtocols, o \in Operations}

Odd(p, v) == Asking(p, "get-user", "", [Nothing EXCEPT ![1] = v])

Numbers == {[kind |-> "int", n |-> -1], [kind |-> "int", n |-> MCMaxInt], [kind |-> "below", n |-> 0]}

OddInputs ==
  {Odd(p, v) : p \in APIProtocols, v \in Numbers}
    \union {[Asking("graphql", "echo", "", Nothing) EXCEPT !.names = {"get-user", "create-order"}]}
    \union {[OrderRequest(p, 40000) EXCEPT !.whole = FALSE] : p \in APIProtocols}
    \union {Asking("rest", "echo", "long", Nothing)}
    \union {[Asking(p, "echo", "", Nothing) EXCEPT !.names = {}] : p \in {"rest", "grpc"}}

MCInputs == Loads \union {ProbeRequest} \union OddInputs

=============================================================================
