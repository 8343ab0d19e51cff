------------------------- MODULE MCProxyFailover -------------------------
(* Two routes, the longer of which only some tables have, over two         *)
(* endpoints: the tables reorder them, drop one, and drop the longer route.*)
EXTENDS ProxyFailover

CONSTANTS a, b

near == <<"near">>
relayer == <<"near", "relayer">>

RouteTo(upstreams, threshold, rpc) ==
    [upstreams |-> upstreams, threshold |-> threshold, rpc |-> rpc]

MCTables == {
    [p \in {near} |-> RouteTo(<<a, b>>, 1, FALSE)],
    [p \in {near, relayer} |->
        IF p = near THEN RouteTo(<<b, a>>, 2, TRUE) ELSE RouteTo(<<a>>, 1, FALSE)],
    [p \in {relayer} |-> RouteTo(<<>>, 1, FALSE)]}

MCPaths == {<<"near", "relayer", "v1">>, <<"sol">>}
=============================================================================
