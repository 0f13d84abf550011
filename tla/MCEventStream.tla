---------------------------- MODULE MCEventStream ----------------------------
(* Small instances of EventStream.                                         *)
EXTENDS EventStream, TLC

CONSTANTS w1, w2, w3, k1

Request(kind) == [kind |-> kind, costs |-> FALSE, cause |-> NoCause]
Call(kind) == [Request(kind) EXCEPT !.costs = TRUE]
Caused1(kind) == [Request(kind) EXCEPT !.cause = k1]

Load(a, b, c) == w1 :> a @@ w2 :> b @@ w3 :> c

\* A service beside a frame of no event and a raw provider call; two services,
\* one a provider call; three frames of no event; two raw
\* appends of one causation id.
MCLoads == {Load(Request("service"), Request("github"), Call("raw")),
            Load(Request("service"), Call("service"), Request("none")),
            Load(Request("github"), Request("progress"), Request("progress")),
            Load(Request("none"), Caused1("raw"), Caused1("raw"))}
MCRawLoads == {Load(Request("raw"), Request("service"), Request("none"))}
MCRawTwice == {Load(Caused1("raw"), Caused1("raw"), Request("none"))}
MCServices == {Load(Request("service"), Request("service"), Request("none"))}
=============================================================================
