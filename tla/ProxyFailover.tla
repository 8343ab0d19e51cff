-------------------------- MODULE ProxyFailover --------------------------
(***************************************************************************)
(* The omni proxy: routes, upstream health, failover and reloads           *)
(* (omni-proxy/src/proxy.rs, background.rs, dynamic_config.rs, config.rs). *)
(*                                                                         *)
(* A request walks through the callbacks pingora makes: it takes the route *)
(* table as it is then, scans the upstreams of the longest prefix of its   *)
(* path for one that is not degraded, is sent there and, at its end, adds  *)
(* a failure to that upstream's health or takes the oldest one off.  A     *)
(* reload swaps the table; an endpoint that stays under its prefix keeps   *)
(* its health object, which requests with an older table share.  Failures  *)
(* leave their window as time passes and are pruned by the next reader.    *)
(*                                                                         *)
(* Paths and prefixes are sequences of segments.  A health object is named *)
(* by the reload, the prefix and the position that created it.  Metrics,   *)
(* header and URI rewriting and timeouts' lengths are left out.            *)
(***************************************************************************)
EXTENDS Integers, SequencesExt, FiniteSetsExt

CONSTANTS Requests,     \* sessions; one serves many requests in turn
          Endpoints,    \* upstream addresses, as same_endpoint compares them
          Paths,        \* what clients ask for
          Tables,       \* route tables the configuration can hold
          MaxReloads,   \* bound: reloads of the table
          MaxFailures,  \* bound: failures a health object holds
          MaxFaults     \* bound: outages, lost clients and broken connections

Healthz == <<"healthz">>
NoRoutes == <<>>

(* validate: every route has an upstream; prefixes are a function's domain, *)
(* so no two routes have the same.                                         *)
Valid(table) == \A p \in DOMAIN table : table[p].upstreams # <<>>
(* load_config or fetch_config: what is not valid is refused. *)
Loaded == {t \in Tables : Valid(t)}

ASSUME ProxyOK ==
    /\ MaxReloads \in Nat /\ MaxFailures \in Nat /\ MaxFaults \in Nat
    /\ \A path \in Paths : Len(path) \in Nat
    /\ \A t \in Tables : \A p \in DOMAIN t :
          /\ Len(p) \in Nat /\ t[p].upstreams \in Seq(Endpoints)
          /\ t[p].threshold \in Nat /\ t[p].rpc \in BOOLEAN

VARIABLES
    routes,    \* the current table: prefix to upstreams, health and failover
    reloads,   \* reloads so far
    failures,  \* failures[h]: a health object's deque
    req,       \* req[r]: the context of r's current request
    kept,      \* kept[r]: endpoints that every table since r's has had under its prefix
    up,        \* endpoints that serve
    faults     \* failures injected so far

vars == <<routes, reloads, failures, req, kept, up, faults>>

TablePrefixes == UNION {DOMAIN t : t \in Tables}
Positions == UNION {UNION {DOMAIN t[p].upstreams : p \in DOMAIN t} : t \in Tables}
HealthIds == [born: 0..MaxReloads, prefix: TablePrefixes, pos: Positions]
Stages == {"idle", "peer", "scan", "sent", "log"}

Idle == [stage |-> "idle", path |-> <<>>, routes |-> NoRoutes, prefix |-> <<>>,
         idx |-> 0, failed |-> FALSE]

Fault == faults < MaxFaults /\ faults' = faults + 1
-----------------------------------------------------------------------------
(* UpstreamHealth: the deque after a failure, after a success, and after a *)
(* reader has dropped what is older than the window from its front.        *)
Failure(e) == [by |-> e, old |-> FALSE]
AfterSuccess(deque) == IF deque = <<>> THEN <<>> ELSE Tail(deque)
RecentForever(deque) == deque
Fresh(deque) == {i \in DOMAIN deque : ~deque[i].old}
Recent(deque) == IF Fresh(deque) = {} THEN <<>> ELSE SubSeq(deque, Min(Fresh(deque)), Len(deque))
Degraded(deque, threshold) == Len(Recent(deque)) >= threshold

MergeByPosition(table, previous, born, p) ==
    [i \in DOMAIN table[p].upstreams |->
        IF p \in DOMAIN previous /\ i \in DOMAIN previous[p].health THEN previous[p].health[i]
        ELSE [born |-> born, prefix |-> p, pos |-> i]]
MergeAfresh(table, previous, born, p) ==
    [i \in DOMAIN table[p].upstreams |-> [born |-> born, prefix |-> p, pos |-> i]]

(* merge: an endpoint finds the health of the first upstream of the same   *)
(* prefix's previous route that is the same endpoint, or gets a new one.   *)
Merge(table, previous, born, p) ==
    [i \in DOMAIN table[p].upstreams |->
        LET same == IF p \notin DOMAIN previous THEN {}
                    ELSE {j \in DOMAIN previous[p].upstreams :
                             previous[p].upstreams[j] = table[p].upstreams[i]}
        IN  IF same = {} THEN [born |-> born, prefix |-> p, pos |-> i]
                         ELSE previous[p].health[Min(same)]]

(* build_route_map *)
RouteMap(table, previous, born) ==
    [p \in DOMAIN table |->
        [upstreams |-> table[p].upstreams, health |-> Merge(table, previous, born, p),
         threshold |-> table[p].threshold, rpc |-> table[p].rpc]]

(* match_route: the longest prefix that ends at a segment of the path. *)
Matching(table, path) == {p \in DOMAIN table : IsPrefix(p, path)}
Matched(table, path) ==
    CHOOSE p \in Matching(table, path) : \A q \in Matching(table, path) : Len(q) <= Len(p)

(* What the context of r says of its upstream. *)
Route(r) == req[r].routes[req[r].prefix]
Endpoint(r) == Route(r).upstreams[req[r].idx]
HealthOf(r) == Route(r).health[req[r].idx]
-----------------------------------------------------------------------------
Init ==
    /\ \E t \in Loaded : routes = RouteMap(t, <<>>, 0)
    /\ reloads = 0
    /\ failures = [h \in HealthIds |-> <<>>]
    /\ req = [r \in Requests |-> Idle]
    /\ kept = [r \in Requests |-> {}] /\ up = Endpoints /\ faults = 0

At(r, stage) == req[r].stage = stage

(* new_ctx and the filters before a peer is asked for: /healthz is answered *)
(* at once.                                                                *)
Open(r, path) ==
    /\ At(r, "idle")
    /\ req' = [req EXCEPT ![r] = [Idle EXCEPT !.path = path,
                  !.stage = IF path = Healthz THEN "log" ELSE "peer"]]
    /\ UNCHANGED <<routes, reloads, failures, kept, up, faults>>

(* upstream_peer takes the table.  Without a route the request fails and   *)
(* keeps what an earlier attempt may have left in its context.             *)
Unmatched(r) ==
    /\ At(r, "peer") /\ Matching(routes, req[r].path) = {}
    /\ req' = [req EXCEPT ![r].stage = "log", ![r].failed = TRUE]
    /\ UNCHANGED <<routes, reloads, failures, kept, up, faults>>

Match(r) ==
    /\ At(r, "peer") /\ Matching(routes, req[r].path) # {}
    /\ req' = [req EXCEPT ![r].stage = "scan", ![r].routes = routes, ![r].idx = 1,
                          ![r].prefix = Matched(routes, req[r].path)]
    /\ kept' = [kept EXCEPT ![r] = ToSet(routes[Matched(routes, req[r].path)].upstreams)]
    /\ UNCHANGED <<routes, reloads, failures, up, faults>>

ScanPastEnd(r) ==
    /\ At(r, "scan")
    /\ failures' = [failures EXCEPT ![HealthOf(r)] = Recent(@)]
    /\ req' = [req EXCEPT ![r] = IF Degraded(failures[HealthOf(r)], Route(r).threshold)
                               THEN [@ EXCEPT !.idx = @ + 1] ELSE [@ EXCEPT !.stage = "sent"]]
    /\ UNCHANGED <<routes, reloads, kept, up, faults>>

(* select reads one upstream's health after the other, pruning as it goes: *)
(* requests may end between two of its reads.  When each was degraded the  *)
(* request goes to the primary.                                            *)
Scan(r) ==
    /\ At(r, "scan")
    /\ LET deque == failures[HealthOf(r)]
           q     == req[r]
           last  == q.idx = Len(Route(r).upstreams)
       IN  /\ failures' = [failures EXCEPT ![HealthOf(r)] = Recent(deque)]
           /\ req' = [req EXCEPT ![r] =
                 IF ~Degraded(deque, Route(r).threshold) THEN [q EXCEPT !.stage = "sent"]
                 ELSE IF last THEN [q EXCEPT !.stage = "sent", !.idx = 1]
                 ELSE [q EXCEPT !.idx = q.idx + 1]]
    /\ UNCHANGED <<routes, reloads, kept, up, faults>>

(* The upstream answers: well, or with a failure status, or with a failing *)
(* JSON-RPC code in the body, which is read when it is small enough.       *)
Respond(r) ==
    /\ At(r, "sent")
    /\ \E failed \in {Endpoint(r) \notin up, FALSE} :
          /\ failed \/ Endpoint(r) \in up \/ Route(r).rpc
          /\ req' = [req EXCEPT ![r].stage = "log", ![r].failed = failed]
    /\ UNCHANGED <<routes, reloads, failures, kept, up, faults>>

(* The connection fails or times out; or the client goes away.  Either is  *)
(* the error that logging gets.                                            *)
Break(r) ==
    /\ \/ At(r, "sent") /\ Endpoint(r) \notin up /\ UNCHANGED faults
       \/ At(r, "sent") /\ Fault
    /\ req' = [req EXCEPT ![r].stage = "log", ![r].failed = TRUE]
    /\ UNCHANGED <<routes, reloads, failures, kept, up>>

(* A reused connection turns out to be closed: pingora asks for a peer     *)
(* again, with the same context.                                           *)
Reselect(r) ==
    /\ At(r, "sent") /\ Fault
    /\ req' = [req EXCEPT ![r].stage = "peer"]
    /\ UNCHANGED <<routes, reloads, failures, kept, up>>

(* logging: the outcome goes to the health object of the request's table. *)
Recorded(r) ==
    LET h == HealthOf(r)
    IN  IF req[r].failed
        THEN /\ Len(failures[h]) < MaxFailures
             /\ failures' = [failures EXCEPT ![h] = Append(@, Failure(Endpoint(r)))]
        ELSE failures' = [failures EXCEPT ![h] = AfterSuccess(@)]

Logging(r) ==
    /\ At(r, "log")
    /\ IF req[r].routes = NoRoutes THEN UNCHANGED failures ELSE Recorded(r)
    /\ req' = [req EXCEPT ![r] = Idle]
    /\ kept' = [kept EXCEPT ![r] = {}]
    /\ UNCHANGED <<routes, reloads, up, faults>>
-----------------------------------------------------------------------------
(* The refresher: a fetch that fails, and a configuration that is not      *)
(* valid, leave the table.                                                 *)
Reload(table) ==
    /\ reloads < MaxReloads /\ table \in Loaded
    /\ reloads' = reloads + 1
    /\ routes' = RouteMap(table, routes, reloads + 1)
    /\ kept' = [r \in Requests |->
          IF req[r].prefix \in DOMAIN table
          THEN kept[r] \cap ToSet(table[req[r].prefix].upstreams) ELSE {}]
    /\ UNCHANGED <<failures, req, up, faults>>

(* The gauges' callbacks read, and so prune, the health of the table. *)
Observe(h) ==
    /\ \E p \in DOMAIN routes : Contains(routes[p].health, h)
    /\ failures' = [failures EXCEPT ![h] = Recent(@)]
    /\ failures' # failures
    /\ UNCHANGED <<routes, reloads, req, kept, up, faults>>

(* Time: the oldest failure inside the window leaves it. *)
Age(h) ==
    /\ Fresh(failures[h]) # {}
    /\ failures' = [failures EXCEPT ![h][Min(Fresh(failures[h]))].old = TRUE]
    /\ UNCHANGED <<routes, reloads, req, kept, up, faults>>

(* An endpoint goes down and comes back. *)
Outage(e) ==
    /\ e \in up /\ Fault
    /\ up' = up \ {e}
    /\ UNCHANGED <<routes, reloads, failures, req, kept>>

Recover(e) ==
    /\ e \notin up
    /\ up' = up \cup {e}
    /\ UNCHANGED <<routes, reloads, failures, req, kept, faults>>
-----------------------------------------------------------------------------
Serve(r) ==
    Unmatched(r) \/ Match(r) \/ Scan(r) \/ Respond(r) \/ Logging(r)

Next ==
    \/ \E r \in Requests :
          \/ \E path \in Paths : Open(r, path)
          \/ Serve(r) \/ Break(r) \/ Reselect(r)
    \/ \E table \in Tables : Reload(table)
    \/ \E h \in HealthIds : Observe(h) \/ Age(h)
    \/ \E e \in Endpoints : Outage(e) \/ Recover(e)

(* A request that was accepted is served to its end, time passes, metrics  *)
(* are read every thirty seconds and outages end.  No client has to come   *)
(* and no reload has to happen.                                            *)
Fairness ==
    /\ \A r \in Requests : WF_vars(Serve(r))
    /\ WF_vars(\E h \in HealthIds : Observe(h) \/ Age(h))
    /\ WF_vars(\E e \in Endpoints : Recover(e))

Spec == Init /\ [][Next]_vars
FairSpec == Spec /\ Fairness
-----------------------------------------------------------------------------
(* The type of every variable; an index stays inside the upstreams of the  *)
(* table that the request holds, which the callbacks rely on.              *)
TypeOK ==
    /\ reloads \in 0..MaxReloads /\ faults \in 0..MaxFaults /\ up \subseteq Endpoints
    /\ DOMAIN routes \subseteq TablePrefixes
    /\ failures \in [HealthIds -> Seq([by: Endpoints, old: BOOLEAN])]
    /\ \A h \in HealthIds : Len(failures[h]) <= MaxFailures
    /\ \A r \in Requests :
          /\ req[r].stage \in Stages /\ req[r].path \in Paths \cup {<<>>}
          /\ kept[r] \subseteq Endpoints
          /\ req[r].routes # NoRoutes =>
                /\ req[r].prefix \in DOMAIN req[r].routes
                /\ req[r].idx \in DOMAIN Route(r).upstreams

(* What counts against an upstream are failures of that upstream: a reload *)
(* that reorders or replaces upstreams while requests are under way blames *)
(* none for another's (logging, proxy.rs:628; merge, proxy.rs:66).         *)
FailuresAreOwn ==
    \A p \in DOMAIN routes : \A i \in DOMAIN routes[p].upstreams :
        \A f \in ToSet(failures[routes[p].health[i]]) : f.by = routes[p].upstreams[i]

(* A request that fails under a table that has been replaced still counts  *)
(* against its upstream in the table of today, if the upstream was there   *)
(* all along: reloads do not blind the breaker.  The exception is a route  *)
(* that lists an endpoint twice, which validate admits: the next merge     *)
(* gives both the health of the first.                                     *)
ListedOnce(r) ==
    \A i \in DOMAIN Route(r).upstreams : Route(r).upstreams[i] = Endpoint(r) => i = req[r].idx
FailsNow(r) == At(r, "log") /\ req'[r].stage = "idle" /\ req[r].failed /\ req[r].routes # NoRoutes
CountsAcrossReloads ==
    [][\A r \in Requests : FailsNow(r) /\ Endpoint(r) \in kept[r] /\ ListedOnce(r) =>
          \A i \in DOMAIN routes[req[r].prefix].upstreams :
             LET h == routes[req[r].prefix].health[i]
             IN  routes[req[r].prefix].upstreams[i] = Endpoint(r)
                    => Len(failures'[h]) = Len(failures[h]) + 1]_vars

(* Once outages and lost clients are over, traffic is back on the primary  *)
(* for good: failures expire even though a degraded upstream gets no       *)
(* request whose success could take them off.                              *)
PrimaryReturns ==
    <>[](\A r \in Requests : At(r, "sent") => req[r].idx = 1)
=============================================================================
