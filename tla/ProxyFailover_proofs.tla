---------------------- MODULE ProxyFailover_proofs ----------------------
(***************************************************************************)
(* The omni proxy, for any tables, paths and requests and any number of    *)
(* reloads and failures: upstreams are blamed for their own failures only, *)
(* and a reload loses none of a failure's effect.  Both follow from whose  *)
(* each health object is, in today's table and in those requests hold.     *)
(* Then the VAA service, for any messages and requests: no answer leaves   *)
(* out what was available throughout.                                      *)
(***************************************************************************)
EXTENDS ProxyFailover, SequenceTheorems, FiniteSetTheorems, WellFoundedInduction, TLAPS

Failed == [by: Endpoints, old: BOOLEAN]
Blamed(deque) == {f.by : f \in ToSet(deque)}

(* Each upstream of each route has a health object. *)
TableTyped(table) ==
    /\ DOMAIN table \subseteq TablePrefixes
    /\ \A p \in DOMAIN table :
          /\ table[p].upstreams \in Seq(Endpoints) /\ table[p].upstreams # <<>>
          /\ table[p].health \in [DOMAIN table[p].upstreams -> HealthIds]

(* The context of a request: the upstream it is at is one of its route's. *)
Context(q) ==
    /\ q \in [stage: Stages, path: Paths \cup {<<>>}, routes: {q.routes},
              prefix: TablePrefixes \cup {<<>>}, idx: Nat, failed: BOOLEAN]
    /\ TableTyped(q.routes)
    /\ q.routes # NoRoutes =>
          q.prefix \in DOMAIN q.routes /\ q.idx \in DOMAIN q.routes[q.prefix].upstreams
    /\ q.stage \in {"scan", "sent"} => q.routes # NoRoutes
    /\ q.stage = "idle" => q.routes = NoRoutes

EnvTyped == reloads \in 0..MaxReloads /\ faults \in 0..MaxFaults /\ up \subseteq Endpoints
DequesTyped ==
    failures \in [HealthIds -> Seq(Failed)] /\ \A h \in HealthIds : Len(failures[h]) <= MaxFailures
RequestsTyped ==
    /\ DOMAIN req = Requests /\ DOMAIN kept = Requests
    /\ \A r \in Requests : Context(req[r]) /\ kept[r] \subseteq Endpoints
TypesInv == EnvTyped /\ TableTyped(routes) /\ DequesTyped /\ RequestsTyped

(* Whose health an object is, in one table and in all that are in use. *)
Owners(table) ==
    UNION {{<<table[p].health[i], table[p].upstreams[i]>> : i \in DOMAIN table[p].upstreams} :
              p \in DOMAIN table}
InUse == {routes} \cup {req[r].routes : r \in Requests}

(* An object has one owner in all tables in use, what is in its deque are  *)
(* the owner's failures, and objects of reloads to come are blank.         *)
OwnersInv ==
    /\ \A s, t \in InUse : \A x \in Owners(s), y \in Owners(t) : x[1] = y[1] => x[2] = y[2]
    /\ \A t \in InUse : \A x \in Owners(t) : x[1].born <= reloads /\ Blamed(failures[x[1]]) \subseteq {x[2]}
    /\ \A h \in HealthIds : h.born > reloads => failures[h] = <<>>

(* Where today's table has the endpoint of a request's upstream, it has its *)
(* health object, if the endpoint was there all along.                      *)
Kept(r, table) ==
    \A e \in kept[r] :
        /\ req[r].routes # NoRoutes /\ req[r].prefix \in DOMAIN table
        /\ e \in ToSet(table[req[r].prefix].upstreams)
        /\ \A j \in DOMAIN Route(r).upstreams :
              (\A i \in DOMAIN Route(r).upstreams : Route(r).upstreams[i] = e <=> i = j) =>
                 \A i \in DOMAIN table[req[r].prefix].upstreams :
                    table[req[r].prefix].upstreams[i] = e
                       => table[req[r].prefix].health[i] = Route(r).health[j]
KeptInv == \A r \in Requests : Kept(r, routes)

ProxyInv == TypesInv /\ OwnersInv /\ KeptInv
-----------------------------------------------------------------------------
(* Every set of natural numbers that is not empty has a least element,     *)
(* which is its minimum.                                                   *)
LEMMA MinIsLeast ==
    ASSUME NEW S \in SUBSET Nat, S # {}
    PROVE  Min(S) \in S /\ \A j \in S : Min(S) <= j
<1>1. PICK k \in S : \A j \in S : ~(<<j, k>> \in OpToRel(<, Nat))
  BY NatLessThanWellFounded, WFMin, Zenon
<1>2. \A j \in S : ~(j < k)
  BY <1>1 DEF OpToRel
<1>3. \A j \in S : j \in Nat /\ k \in Nat
  BY <1>1
<1>4. \A j \in S : k <= j
  BY <1>2, <1>3
<1> QED
  BY <1>4 DEF Min

(* Whoever is blamed in a deque is one of the endpoints; a blank deque     *)
(* blames nobody.                                                          *)
LEMMA BlankBlames == <<>> \in Seq(Failed) /\ Len(<<>>) = 0 /\ Blamed(<<>>) = {}
<1>1. <<>> \in Seq(Failed) /\ Len(<<>>) = 0
  BY EmptySeq
<1>2. DOMAIN <<>> = {}
  BY <1>1, LenProperties
<1> QED
  BY <1>1, <1>2 DEF Blamed, ToSet

(* A deque made of places of another blames no one else. *)
LEMMA PartBlames ==
    ASSUME NEW d \in Seq(Failed), NEW q \in Seq(Failed),
           \A i \in 1..Len(q) : \E j \in 1..Len(d) : q[i].by = d[j].by
    PROVE  Blamed(q) \subseteq Blamed(d)
<1>1. DOMAIN d = 1..Len(d) /\ DOMAIN q = 1..Len(q)
  BY LenProperties
<1>2. ASSUME NEW f \in ToSet(q) PROVE f.by \in Blamed(d)
  <2>1. PICK i \in 1..Len(q) : f = q[i]
    BY <1>1 DEF ToSet
  <2>2. PICK j \in 1..Len(d) : q[i].by = d[j].by
    OBVIOUS
  <2> QED
    BY <1>1, <2>1, <2>2 DEF Blamed, ToSet
<1> QED
  BY <1>2 DEF Blamed

(* Pruning keeps the failures of the window, from the first of them on. *)
LEMMA RecentPart ==
    ASSUME NEW d \in Seq(Failed)
    PROVE  /\ Recent(d) \in Seq(Failed) /\ Len(Recent(d)) <= Len(d)
           /\ Blamed(Recent(d)) \subseteq Blamed(d)
<1> DEFINE n == Len(d)
           m == Min(Fresh(d))
<1>1. n \in Nat /\ DOMAIN d = 1..n /\ \A i \in 1..n : d[i] \in Failed
  BY LenProperties, ElementOfSeq
<1>2. CASE Fresh(d) = {}
  BY <1>1, <1>2, BlankBlames DEF Recent
<1>3. CASE Fresh(d) # {}
  <2>1. Fresh(d) \in SUBSET Nat /\ Fresh(d) \subseteq 1..n
    BY <1>1 DEF Fresh
  <2>2. m \in 1..n
    BY <1>3, <2>1, MinIsLeast
  <2> HIDE DEF m
  <2>3. \A i \in m..n : d[i] \in Failed
    BY <1>1, <2>2
  <2>4. /\ SubSeq(d, m, n) \in Seq(Failed) /\ Len(SubSeq(d, m, n)) = n - m + 1
        /\ \A i \in 1..n - m + 1 : SubSeq(d, m, n)[i] = d[m + i - 1]
    BY <1>1, <2>2, <2>3, SubSeqProperties
  <2>5. \A i \in 1..n - m + 1 : m + i - 1 \in 1..n
    BY <1>1, <2>2
  <2>6. Blamed(SubSeq(d, m, n)) \subseteq Blamed(d)
    BY <2>4, <2>5, PartBlames
  <2>7. n - m + 1 <= n
    BY <1>1, <2>2
  <2> QED
    BY <1>3, <2>4, <2>6, <2>7 DEF Recent, m
<1> QED
  BY <1>2, <1>3

(* A success takes the oldest failure off, if there is one. *)
LEMMA SuccessPart ==
    ASSUME NEW d \in Seq(Failed)
    PROVE  /\ AfterSuccess(d) \in Seq(Failed) /\ Len(AfterSuccess(d)) <= Len(d)
           /\ Blamed(AfterSuccess(d)) \subseteq Blamed(d)
<1>1. CASE d = <<>>
  BY <1>1, BlankBlames DEF AfterSuccess
<1>2. CASE d # <<>>
  <2>1. /\ Tail(d) \in Seq(Failed) /\ Len(Tail(d)) = Len(d) - 1 /\ Len(d) \in Nat
        /\ \A i \in 1..Len(Tail(d)) : Tail(d)[i] = d[i + 1]
    BY <1>2, HeadTailProperties, LenProperties
  <2>2. \A i \in 1..Len(Tail(d)) : i + 1 \in 1..Len(d)
    BY <2>1
  <2>3. Blamed(Tail(d)) \subseteq Blamed(d)
    BY <2>1, <2>2, PartBlames
  <2> QED
    BY <1>2, <2>1, <2>3 DEF AfterSuccess
<1> QED
  BY <1>1, <1>2

(* A failure goes to the end of the deque. *)
LEMMA FailurePart ==
    ASSUME NEW d \in Seq(Failed), NEW e \in Endpoints
    PROVE  /\ Append(d, Failure(e)) \in Seq(Failed) /\ Len(Append(d, Failure(e))) = Len(d) + 1
           /\ Blamed(Append(d, Failure(e))) \subseteq Blamed(d) \cup {e}
<1> DEFINE q == Append(d, Failure(e))
<1>1. Failure(e) \in Failed /\ Failure(e).by = e
  BY DEF Failed, Failure
<1>2. /\ q \in Seq(Failed) /\ Len(q) = Len(d) + 1 /\ Len(d) \in Nat
      /\ \A i \in 1..Len(d) : q[i] = d[i]
      /\ q[Len(d) + 1] = Failure(e)
  BY <1>1, AppendProperties, LenProperties
<1>3. DOMAIN d = 1..Len(d) /\ DOMAIN q = 1..Len(d) + 1
  BY <1>2, LenProperties
<1> HIDE DEF q
<1>4. ASSUME NEW i \in 1..Len(d) + 1 PROVE q[i].by \in Blamed(d) \cup {e}
  <2>1. CASE i = Len(d) + 1
    BY <1>1, <1>2, <2>1
  <2>2. CASE i # Len(d) + 1
    <3>1. i \in DOMAIN d /\ q[i] = d[i]
      BY <1>2, <1>3, <2>2
    <3> QED
      BY <3>1 DEF Blamed, ToSet
  <2> QED
    BY <2>1, <2>2
<1>5. Blamed(q) \subseteq Blamed(d) \cup {e}
  BY <1>3, <1>4 DEF Blamed, ToSet
<1> QED
  BY <1>2, <1>5 DEF q

(* Aging changes no one's blame. *)
Aged(d) == [d EXCEPT ![Min(Fresh(d))].old = TRUE]

LEMMA AgedPart ==
    ASSUME NEW d \in Seq(Failed), Fresh(d) # {}
    PROVE  Aged(d) \in Seq(Failed) /\ Len(Aged(d)) <= Len(d) /\ Blamed(Aged(d)) \subseteq Blamed(d)
<1> DEFINE m == Min(Fresh(d))
           q == [d EXCEPT ![m] = [d[m] EXCEPT !.old = TRUE]]
<1>1. Len(d) \in Nat /\ DOMAIN d = 1..Len(d) /\ \A i \in 1..Len(d) : d[i] \in Failed
  BY LenProperties, ElementOfSeq
<1>2. Fresh(d) \in SUBSET Nat /\ Fresh(d) \subseteq 1..Len(d)
  BY <1>1 DEF Fresh
<1>3. m \in 1..Len(d)
  BY <1>2, MinIsLeast
<1>4. Aged(d) = q
  BY DEF Aged
<1> HIDE DEF m
<1>5. d[m] \in Failed /\ [d[m] EXCEPT !.old = TRUE] \in Failed /\ [d[m] EXCEPT !.old = TRUE].by = d[m].by
  BY <1>1, <1>3 DEF Failed
<1>6. /\ q \in Seq(Failed) /\ Len(q) = Len(d)
      /\ \A j \in 1..Len(d) : q[j] = IF j = m THEN [d[m] EXCEPT !.old = TRUE] ELSE d[j]
  BY <1>3, <1>5, ExceptSeq
<1> HIDE DEF q
<1>7. \A j \in 1..Len(d) : q[j].by = d[j].by
  BY <1>5, <1>6
<1>8. Blamed(q) \subseteq Blamed(d)
  BY <1>6, <1>7, PartBlames
<1> QED
  BY <1>1, <1>4, <1>6, <1>8
-----------------------------------------------------------------------------
(* The longest matching prefix is one of the table's. *)
LEMMA MatchedIn ==
    ASSUME NEW table, DOMAIN table \subseteq TablePrefixes,
           NEW path \in Paths \cup {<<>>}, Matching(table, path) # {}
    PROVE  Matched(table, path) \in DOMAIN table
<1> DEFINE M == Matching(table, path)
           S == {Len(path) - Len(p) : p \in M}
<1>1. Len(path) \in Nat
  BY ProxyOK, EmptySeq
<1>2. \A p \in M : Len(p) \in Nat /\ Len(p) <= Len(path)
  <2>1. \A p \in M : p \in DOMAIN table /\ Len(p) <= Len(path)
    BY DEF Matching, IsPrefix
  <2>2. \A p \in TablePrefixes : Len(p) \in Nat
    BY ProxyOK DEF TablePrefixes
  <2> QED
    BY <2>1, <2>2
<1>3. S \in SUBSET Nat /\ S # {}
  BY <1>1, <1>2
<1> HIDE DEF S
<1>0. Min(S) \in S
  BY <1>3, MinIsLeast
<1>4. PICK p \in M : Len(path) - Len(p) = Min(S)
  BY <1>0 DEF S
<1>5. \A q \in M : Len(path) - Len(p) <= Len(path) - Len(q)
  <2>1. \A q \in M : Len(path) - Len(q) \in S
    BY DEF S
  <2>2. \A j \in S : Min(S) <= j
    BY <1>3, MinIsLeast
  <2> QED
    BY <1>4, <2>1, <2>2
<1>6. \A q \in M : Len(q) <= Len(p)
  BY <1>1, <1>2, <1>5
<1>7. Matched(table, path) \in M
  BY <1>6 DEF Matched
<1> QED
  BY <1>7 DEF Matching

New(born, p, i) == [born |-> born, prefix |-> p, pos |-> i]

(* What a reload makes of each upstream: the health of the first upstream  *)
(* of the old route that is the same endpoint, or a new object.            *)
LEMMA MergeGives ==
    ASSUME NEW t \in Loaded, NEW previous, TableTyped(previous), NEW born \in 0..MaxReloads,
           NEW p \in DOMAIN t, NEW i \in DOMAIN t[p].upstreams
    PROVE  /\ t[p].upstreams[i] \in Endpoints
           /\ New(born, p, i) \in HealthIds
           /\ \/ /\ Merge(t, previous, born, p)[i] = New(born, p, i)
                 /\ p \in DOMAIN previous => t[p].upstreams[i] \notin ToSet(previous[p].upstreams)
              \/ /\ p \in DOMAIN previous
                 /\ \E k \in DOMAIN previous[p].upstreams :
                       /\ previous[p].upstreams[k] = t[p].upstreams[i]
                       /\ Merge(t, previous, born, p)[i] = previous[p].health[k]
<1> DEFINE e == t[p].upstreams[i]
           same == IF p \notin DOMAIN previous THEN {}
                   ELSE {j \in DOMAIN previous[p].upstreams : previous[p].upstreams[j] = e}
           new == New(born, p, i)
<1>1. t \in Tables /\ p \in TablePrefixes /\ i \in Positions
  BY DEF Loaded, TablePrefixes, Positions
<1>2. e \in Endpoints
  <2>1. t[p].upstreams \in Seq(Endpoints)
    BY <1>1, ProxyOK
  <2> QED
    BY <2>1, LenProperties, ElementOfSeq
<1>3. new \in HealthIds
  BY <1>1 DEF HealthIds, New
<1>4. Merge(t, previous, born, p)[i] = IF same = {} THEN new ELSE previous[p].health[Min(same)]
  BY DEF Merge, New
<1>5. CASE same = {}
  <2>1. p \in DOMAIN previous => e \notin ToSet(previous[p].upstreams)
    BY <1>5 DEF ToSet
  <2> QED
    BY <1>2, <1>3, <1>4, <1>5, <2>1
<1>6. CASE same # {}
  <2>1. p \in DOMAIN previous
    BY <1>6
  <2>2. previous[p].upstreams \in Seq(Endpoints)
    BY <2>1 DEF TableTyped
  <2>3. same \in SUBSET Nat
    BY <2>1, <2>2, LenProperties
  <2>4. Min(same) \in same
    BY <1>6, <2>3, MinIsLeast
  <2> QED
    BY <1>2, <1>3, <1>4, <1>6, <2>1, <2>4
<1> QED
  BY <1>5, <1>6

(* A reload's table is typed. *)
LEMMA RouteMapTyped ==
    ASSUME NEW t \in Loaded, NEW previous, TableTyped(previous), NEW born \in 0..MaxReloads
    PROVE  TableTyped(RouteMap(t, previous, born))
<1> DEFINE m == RouteMap(t, previous, born)
<1>1. t \in Tables /\ DOMAIN m = DOMAIN t /\ DOMAIN t \subseteq TablePrefixes
  BY DEF Loaded, TablePrefixes, RouteMap
<1>2. ASSUME NEW p \in DOMAIN t
      PROVE  /\ m[p].upstreams \in Seq(Endpoints) /\ m[p].upstreams # <<>>
             /\ m[p].health \in [DOMAIN m[p].upstreams -> HealthIds]
  <2>1. m[p].upstreams = t[p].upstreams /\ m[p].health = Merge(t, previous, born, p)
    BY DEF RouteMap
  <2>2. t[p].upstreams \in Seq(Endpoints) /\ t[p].upstreams # <<>>
    BY <1>1, ProxyOK DEF Loaded, Valid
  <2>3. ASSUME NEW i \in DOMAIN t[p].upstreams PROVE Merge(t, previous, born, p)[i] \in HealthIds
    <3>1. \/ Merge(t, previous, born, p)[i] \in HealthIds
          \/ /\ p \in DOMAIN previous
             /\ \E k \in DOMAIN previous[p].upstreams :
                   Merge(t, previous, born, p)[i] = previous[p].health[k]
      BY MergeGives
    <3> QED
      BY <3>1 DEF TableTyped
  <2>4. Merge(t, previous, born, p) \in [DOMAIN t[p].upstreams -> HealthIds]
    BY <2>3 DEF Merge
  <2> QED
    BY <2>1, <2>2, <2>4
<1> QED
  BY <1>1, <1>2 DEF TableTyped

(* The upstream a request is at, and its health. *)
LEMMA AtUpstream ==
    ASSUME TypesInv, NEW r \in Requests, req[r].routes # NoRoutes
    PROVE  /\ Endpoint(r) \in Endpoints /\ HealthOf(r) \in HealthIds
           /\ req[r].prefix \in DOMAIN req[r].routes
           /\ req[r].idx \in DOMAIN Route(r).upstreams
           /\ Route(r).upstreams \in Seq(Endpoints) /\ Len(Route(r).upstreams) \in Nat
           /\ DOMAIN Route(r).upstreams = 1..Len(Route(r).upstreams)
<1>1. TableTyped(req[r].routes) /\ req[r].prefix \in DOMAIN req[r].routes /\ req[r].idx \in DOMAIN Route(r).upstreams
  BY DEF TypesInv, RequestsTyped, Context, Route
<1>2. /\ Route(r).upstreams \in Seq(Endpoints)
      /\ Route(r).health \in [DOMAIN Route(r).upstreams -> HealthIds]
  BY <1>1 DEF TableTyped, Route
<1> QED
  BY <1>1, <1>2, LenProperties, ElementOfSeq DEF Endpoint, HealthOf

(* Every step keeps the types of counters and endpoints. *)
LEMMA EnvStep == ASSUME TypesInv, [Next]_vars PROVE EnvTyped'
<1> USE ProxyOK DEF EnvTyped, Fault
<1>0. EnvTyped
  BY DEF TypesInv
<1>1. ASSUME NEW r \in Requests, \E path \in Paths : Open(r, path) PROVE EnvTyped'
  BY <1>0, <1>1 DEF Open
<1>2. ASSUME NEW r \in Requests, Serve(r) PROVE EnvTyped'
  BY <1>0, <1>2 DEF Serve, Unmatched, Match, Scan, Respond, Logging
<1>3. ASSUME NEW r \in Requests, Break(r) PROVE EnvTyped'
  BY <1>0, <1>3 DEF Break
<1>4. ASSUME NEW r \in Requests, Reselect(r) PROVE EnvTyped'
  BY <1>0, <1>4 DEF Reselect
<1>5. ASSUME NEW t \in Tables, Reload(t) PROVE EnvTyped'
  BY <1>0, <1>5 DEF Reload
<1>6. ASSUME NEW h \in HealthIds, Observe(h) \/ Age(h) PROVE EnvTyped'
  BY <1>0, <1>6 DEF Observe, Age
<1>7. ASSUME NEW e \in Endpoints, Outage(e) PROVE EnvTyped'
  BY <1>0, <1>7 DEF Outage
<1>8. ASSUME NEW e \in Endpoints, Recover(e) PROVE EnvTyped'
  BY <1>0, <1>8 DEF Recover
<1>9. CASE UNCHANGED vars
  BY <1>0, <1>9 DEF vars
<1> QED
  BY <1>1, <1>2, <1>3, <1>4, <1>5, <1>6, <1>7, <1>8, <1>9 DEF Next

(* The table of today stays, or a reload brings another. *)
LEMMA TableStep == ASSUME TypesInv, [Next]_vars PROVE TableTyped(routes)'
<1>1. CASE routes' = routes
  BY <1>1 DEF TypesInv, TableTyped
<1>2. ASSUME NEW t \in Tables, Reload(t) PROVE TableTyped(routes)'
  <2>1. t \in Loaded /\ reloads + 1 \in 0..MaxReloads /\ routes' = RouteMap(t, routes, reloads + 1)
    BY <1>2, ProxyOK DEF Reload, TypesInv, EnvTyped
  <2>2. TableTyped(RouteMap(t, routes, reloads + 1))
    BY <2>1, RouteMapTyped DEF TypesInv
  <2> QED
    BY <2>1, <2>2 DEF TableTyped
<1>3. routes' = routes \/ \E t \in Tables : Reload(t)
  BY DEF Next, vars, Open, Serve, Unmatched, Match, Scan, Respond, Logging, Break, Reselect, Observe, Age, Outage,
     Recover
<1> QED
  BY <1>1, <1>2, <1>3

(* What a step does to the deques: nothing; or it drops failures of one or *)
(* lets them grow old; or a failed request adds one to its upstream's.     *)
Shrinks(h) ==
    \E d \in Seq(Failed) :
        /\ Len(d) <= Len(failures[h]) /\ Blamed(d) \subseteq Blamed(failures[h])
        /\ failures' = [failures EXCEPT ![h] = d]
Adds(r) ==
    /\ Len(failures[HealthOf(r)]) < MaxFailures
    /\ failures' = [failures EXCEPT ![HealthOf(r)] = Append(@, Failure(Endpoint(r)))]

LEMMA DequeSteps ==
    ASSUME TypesInv, [Next]_vars
    PROVE  \/ failures' = failures
           \/ \E r \in Requests :
                 req[r].routes # NoRoutes /\ routes' = routes /\ (Shrinks(HealthOf(r)) \/ Adds(r))
           \/ \E p \in DOMAIN routes : \E i \in DOMAIN routes[p].upstreams :
                 Shrinks(routes[p].health[i]) /\ UNCHANGED <<routes, req>>
           \/ \E h \in HealthIds :
                 failures[h] # <<>> /\ Shrinks(h) /\ UNCHANGED <<routes, req>>
<1>0. failures \in [HealthIds -> Seq(Failed)]
  BY DEF TypesInv, DequesTyped
<1>1. ASSUME NEW r \in Requests, Scan(r)
      PROVE  req[r].routes # NoRoutes /\ routes' = routes /\ Shrinks(HealthOf(r))
  <2>1. req[r].routes # NoRoutes
    BY <1>1 DEF Scan, At, TypesInv, RequestsTyped, Context
  <2>2. HealthOf(r) \in HealthIds
    BY <2>1, AtUpstream
  <2>3. failures' = [failures EXCEPT ![HealthOf(r)] = Recent(failures[HealthOf(r)])] /\ routes' = routes
    BY <1>1 DEF Scan
  <2> QED
    BY <1>0, <2>1, <2>2, <2>3, RecentPart DEF Shrinks
<1>2. ASSUME NEW r \in Requests, Logging(r), failures' # failures
      PROVE  req[r].routes # NoRoutes /\ routes' = routes /\ (Shrinks(HealthOf(r)) \/ Adds(r))
  <2>1. req[r].routes # NoRoutes /\ Recorded(r) /\ routes' = routes
    BY <1>2 DEF Logging
  <2>2. HealthOf(r) \in HealthIds
    BY <2>1, AtUpstream
  <2>3. CASE req[r].failed
    BY <2>1, <2>3 DEF Recorded, Adds
  <2>4. CASE ~req[r].failed
    <3>1. failures' = [failures EXCEPT ![HealthOf(r)] = AfterSuccess(failures[HealthOf(r)])]
      BY <2>1, <2>4 DEF Recorded
    <3> QED
      BY <1>0, <2>1, <2>2, <3>1, SuccessPart DEF Shrinks
  <2> QED
    BY <2>3, <2>4
<1>3. ASSUME NEW h \in HealthIds, Observe(h)
      PROVE  \E p \in DOMAIN routes : \E i \in DOMAIN routes[p].upstreams :
                 Shrinks(routes[p].health[i]) /\ UNCHANGED <<routes, req>>
  <2>1. PICK p \in DOMAIN routes : Contains(routes[p].health, h)
    BY <1>3 DEF Observe
  <2>2. routes[p].upstreams \in Seq(Endpoints) /\ routes[p].health \in [DOMAIN routes[p].upstreams -> HealthIds]
    BY DEF TypesInv, TableTyped
  <2>3. DOMAIN routes[p].upstreams = 1..Len(routes[p].upstreams) /\ Len(routes[p].upstreams) \in Nat
    BY <2>2, LenProperties
  <2>4. routes[p].health \in Seq(HealthIds)
    BY <2>2, <2>3
  <2>5. DOMAIN routes[p].health = 1..Len(routes[p].health)
    BY <2>4, LenProperties
  <2>6. PICK i \in DOMAIN routes[p].upstreams : routes[p].health[i] = h
    BY <2>1, <2>2, <2>5 DEF Contains
  <2>7. failures' = [failures EXCEPT ![h] = Recent(failures[h])] /\ UNCHANGED <<routes, req>>
    BY <1>3 DEF Observe
  <2>8. Shrinks(h)
    BY <1>0, <2>7, RecentPart DEF Shrinks
  <2> QED
    BY <2>6, <2>7, <2>8
<1>4. ASSUME NEW h \in HealthIds, Age(h)
      PROVE  failures[h] # <<>> /\ Shrinks(h) /\ UNCHANGED <<routes, req>>
  <2>1. /\ Fresh(failures[h]) # {} /\ UNCHANGED <<routes, req>>
        /\ failures' = [failures EXCEPT ![h] = Aged(failures[h])]
    BY <1>4 DEF Age, Aged
  <2>2. failures[h] # <<>>
    BY <2>1, BlankBlames, LenProperties DEF Fresh
  <2> QED
    BY <1>0, <2>1, <2>2, AgedPart DEF Shrinks
<1>5. \/ failures' = failures
      \/ \E r \in Requests : Scan(r) \/ Logging(r)
      \/ \E h \in HealthIds : Observe(h) \/ Age(h)
  BY DEF Next, vars, Open, Serve, Unmatched, Match, Respond, Break, Reselect, Reload, Outage, Recover
<1> QED
  BY <1>1, <1>2, <1>3, <1>4, <1>5

(* The deques keep their types. *)
LEMMA DequesStep == ASSUME TypesInv, [Next]_vars PROVE DequesTyped'
<1>0. DequesTyped /\ TableTyped(routes) /\ MaxFailures \in Nat
  BY ProxyOK DEF TypesInv
<1>1. ASSUME NEW h \in HealthIds, Shrinks(h) PROVE DequesTyped'
  <2>1. PICK d \in Seq(Failed) : Len(d) <= Len(failures[h]) /\ failures' = [failures EXCEPT ![h] = d]
    BY <1>1 DEF Shrinks
  <2>2. Len(d) \in Nat /\ Len(failures[h]) \in Nat /\ Len(failures[h]) <= MaxFailures
    BY <1>0, LenProperties DEF DequesTyped
  <2>3. Len(d) <= MaxFailures
    BY <1>0, <2>1, <2>2
  <2> QED
    BY <1>0, <2>1, <2>3 DEF DequesTyped
<1>2. ASSUME NEW r \in Requests, req[r].routes # NoRoutes, Adds(r) PROVE DequesTyped'
  <2>1. HealthOf(r) \in HealthIds /\ Endpoint(r) \in Endpoints
    BY <1>2, AtUpstream
  <2> DEFINE d == failures[HealthOf(r)]
             q == Append(d, Failure(Endpoint(r)))
  <2>2. d \in Seq(Failed) /\ Len(d) < MaxFailures /\ failures' = [failures EXCEPT ![HealthOf(r)] = q]
    BY <1>0, <1>2, <2>1 DEF DequesTyped, Adds
  <2>3. q \in Seq(Failed) /\ Len(q) = Len(d) + 1 /\ Len(d) \in Nat
    BY <2>1, <2>2, FailurePart, LenProperties
  <2>4. Len(q) <= MaxFailures
    BY <1>0, <2>2, <2>3
  <2> HIDE DEF q
  <2> QED
    BY <1>0, <2>1, <2>2, <2>3, <2>4 DEF DequesTyped
<1>3. \A p \in DOMAIN routes : \A i \in DOMAIN routes[p].upstreams : routes[p].health[i] \in HealthIds
  BY <1>0 DEF TableTyped
<1>4. CASE failures' = failures
  BY <1>0, <1>4 DEF DequesTyped
<1>5. ASSUME NEW r \in Requests, req[r].routes # NoRoutes PROVE HealthOf(r) \in HealthIds
  BY <1>5, AtUpstream
<1> QED
  BY <1>1, <1>2, <1>3, <1>4, <1>5, DequeSteps

(* No table has no owners. *)
LEMMA NoOwners == DOMAIN <<>> = {} /\ Owners(NoRoutes) = {} /\ TableTyped(NoRoutes)
<1>1. DOMAIN <<>> = {}
  BY EmptySeq, LenProperties
<1> QED
  BY <1>1 DEF Owners, NoRoutes, TableTyped

(* Before a request there is no table in its context. *)
LEMMA IdleContext == Context(Idle) /\ Idle.routes = NoRoutes
BY NoOwners DEF Idle, Context, Stages, NoRoutes

(* What a step does to one request's context, all others staying as they   *)
(* are, keeps the contexts typed.                                          *)
LEMMA ContextMoves ==
    ASSUME TypesInv, NEW r \in Requests, NEW q, Context(q), req' = [req EXCEPT ![r] = q],
           DOMAIN kept' = Requests, \A s \in Requests : kept'[s] \subseteq Endpoints
    PROVE  RequestsTyped'
<1>1. DOMAIN req' = Requests /\ \A s \in Requests : req'[s] = IF s = r THEN q ELSE req[s]
  BY DEF TypesInv, RequestsTyped
<1>2. \A s \in Requests : Context(req[s])
  BY DEF TypesInv, RequestsTyped
<1>3. \A s \in Requests : Context(req'[s])
  BY <1>1, <1>2
<1> QED
  BY <1>1, <1>3 DEF RequestsTyped, Context, TableTyped

(* Every step keeps the contexts typed. *)
LEMMA RequestsStep == ASSUME TypesInv, [Next]_vars PROVE RequestsTyped'
<1>0. /\ TableTyped(routes) /\ DOMAIN kept = Requests /\ DOMAIN req = Requests
      /\ \A r \in Requests : kept[r] \subseteq Endpoints /\ Context(req[r])
  BY DEF TypesInv, RequestsTyped
<1>1. ASSUME NEW r \in Requests, NEW path \in Paths, Open(r, path) PROVE RequestsTyped'
  <2> DEFINE q == [Idle EXCEPT !.path = path, !.stage = IF path = Healthz THEN "log" ELSE "peer"]
  <2>1. req' = [req EXCEPT ![r] = q] /\ kept' = kept
    BY <1>1 DEF Open
  <2>2. Context(q)
    BY NoOwners DEF Idle, Context, Stages, NoRoutes
  <2> HIDE DEF q
  <2> QED
    BY <1>0, <2>1, <2>2, ContextMoves
<1>2. ASSUME NEW r \in Requests, Unmatched(r) PROVE RequestsTyped'
  <2> DEFINE q == [req[r] EXCEPT !.stage = "log", !.failed = TRUE]
  <2>1. req' = [req EXCEPT ![r] = q] /\ kept' = kept
    BY <1>0, <1>2 DEF Unmatched
  <2>2. Context(q)
    BY <1>0 DEF Context, Stages
  <2> HIDE DEF q
  <2> QED
    BY <1>0, <2>1, <2>2, ContextMoves
<1>3. ASSUME NEW r \in Requests, Match(r) PROVE RequestsTyped'
  <2> DEFINE m == Matched(routes, req[r].path)
             q == [req[r] EXCEPT !.stage = "scan", !.routes = routes, !.idx = 1, !.prefix = m]
  <2>1. /\ req' = [req EXCEPT ![r] = q] /\ Matching(routes, req[r].path) # {}
        /\ kept' = [kept EXCEPT ![r] = ToSet(routes[m].upstreams)]
    BY <1>0, <1>3 DEF Match
  <2>2. m \in DOMAIN routes /\ DOMAIN routes \subseteq TablePrefixes
    <3>1. req[r].path \in Paths \cup {<<>>} /\ DOMAIN routes \subseteq TablePrefixes
      BY <1>0 DEF Context, TableTyped
    <3> QED
      BY <2>1, <3>1, MatchedIn
  <2> HIDE DEF m
  <2>3. routes[m].upstreams \in Seq(Endpoints) /\ routes[m].upstreams # <<>>
    BY <1>0, <2>2 DEF TableTyped
  <2>4. 1 \in DOMAIN routes[m].upstreams /\ ToSet(routes[m].upstreams) \subseteq Endpoints
    BY <2>3, EmptySeq, LenProperties, ElementOfSeq DEF ToSet
  <2>5. Context(q)
    <3>1. /\ q \in [stage: Stages, path: Paths \cup {<<>>}, routes: {routes},
                    prefix: TablePrefixes \cup {<<>>}, idx: Nat, failed: BOOLEAN]
          /\ q.routes = routes /\ q.prefix = m /\ q.idx = 1 /\ q.stage = "scan"
      BY <1>0, <2>2 DEF Context, Stages
    <3>2. routes # NoRoutes
      BY <2>2, NoOwners DEF NoRoutes
    <3> HIDE DEF q
    <3> QED
      BY <1>0, <2>2, <2>4, <3>1, <3>2 DEF Context
  <2>6. DOMAIN kept' = Requests /\ \A s \in Requests : kept'[s] \subseteq Endpoints
    BY <1>0, <2>1, <2>4
  <2> HIDE DEF q
  <2> QED
    BY <2>1, <2>5, <2>6, ContextMoves
<1>4. ASSUME NEW r \in Requests, Scan(r) PROVE RequestsTyped'
  <2> DEFINE q == IF ~Degraded(failures[HealthOf(r)], Route(r).threshold)
                    THEN [req[r] EXCEPT !.stage = "sent"]
                    ELSE IF req[r].idx = Len(Route(r).upstreams)
                    THEN [req[r] EXCEPT !.stage = "sent", !.idx = 1]
                    ELSE [req[r] EXCEPT !.idx = req[r].idx + 1]
  <2>1. req' = [req EXCEPT ![r] = q] /\ kept' = kept /\ req[r].stage = "scan"
    BY <1>0, <1>4 DEF Scan, At
  <2>2. /\ req[r].routes # NoRoutes /\ Route(r) = req[r].routes[req[r].prefix]
        /\ req[r].prefix \in DOMAIN req[r].routes
    BY <1>0, <2>1 DEF Context, Route
  <2>3. /\ Len(Route(r).upstreams) \in Nat /\ req[r].idx \in 1..Len(Route(r).upstreams)
        /\ DOMAIN Route(r).upstreams = 1..Len(Route(r).upstreams)
    BY <2>2, AtUpstream
  <2> DEFINE Q == [stage: Stages, path: Paths \cup {<<>>}, routes: {req[r].routes},
                  prefix: TablePrefixes \cup {<<>>}, idx: Nat, failed: BOOLEAN]
             q1 == [req[r] EXCEPT !.stage = "sent"]
             q2 == [req[r] EXCEPT !.stage = "sent", !.idx = 1]
             q3 == [req[r] EXCEPT !.idx = req[r].idx + 1]
  <2>a. req[r] \in Q
    BY <1>0 DEF Context
  <2>4. q1 \in Q /\ q1.prefix = req[r].prefix /\ q1.idx = req[r].idx /\ q1.stage = "sent"
    BY ONLY <2>a DEF Stages
  <2>5. q2 \in Q /\ q2.prefix = req[r].prefix /\ q2.idx = 1 /\ q2.stage = "sent"
    BY ONLY <2>a DEF Stages
  <2>6. q3 \in Q /\ q3.prefix = req[r].prefix /\ q3.idx = req[r].idx + 1 /\ q3.stage = req[r].stage
    BY ONLY <2>a DEF Stages
  <2> HIDE DEF q1, q2, q3
  <2>7. q \in {q1, q2} \/ (req[r].idx # Len(Route(r).upstreams) /\ q = q3)
    BY DEF q1, q2, q3
  <2> HIDE DEF q
  <2>8. q.idx \in {req[r].idx, 1} \/ (req[r].idx # Len(Route(r).upstreams) /\ q.idx = req[r].idx + 1)
    BY <2>4, <2>5, <2>6, <2>7
  <2>9. q.idx \in 1..Len(Route(r).upstreams)
    BY <2>3, <2>8
  <2>10. q \in Q /\ q.prefix = req[r].prefix /\ q.stage \in {"sent", "scan"}
    BY <2>1, <2>4, <2>5, <2>6, <2>7
  <2>11. q.routes = req[r].routes
    BY <2>10
  <2>12. Context(q)
    BY <1>0, <2>2, <2>3, <2>9, <2>10, <2>11 DEF Context
  <2> QED
    BY <1>0, <2>1, <2>12, ContextMoves
<1>5. ASSUME NEW r \in Requests, Respond(r) PROVE RequestsTyped'
  <2>1. PICK f \in BOOLEAN : req' = [req EXCEPT ![r] = [req[r] EXCEPT !.stage = "log", !.failed = f]] /\ kept' = kept
    BY <1>0, <1>5 DEF Respond
  <2>2. Context([req[r] EXCEPT !.stage = "log", !.failed = f])
    BY <1>0 DEF Context, Stages
  <2> QED
    BY <1>0, <2>1, <2>2, ContextMoves
<1>6. ASSUME NEW r \in Requests, Break(r) PROVE RequestsTyped'
  <2> DEFINE q == [req[r] EXCEPT !.stage = "log", !.failed = TRUE]
  <2>1. req' = [req EXCEPT ![r] = q] /\ kept' = kept
    BY <1>0, <1>6 DEF Break
  <2>2. Context(q)
    BY <1>0 DEF Context, Stages
  <2> HIDE DEF q
  <2> QED
    BY <1>0, <2>1, <2>2, ContextMoves
<1>7. ASSUME NEW r \in Requests, Reselect(r) PROVE RequestsTyped'
  <2> DEFINE q == [req[r] EXCEPT !.stage = "peer"]
  <2>1. req' = [req EXCEPT ![r] = q] /\ kept' = kept
    BY <1>0, <1>7 DEF Reselect
  <2>2. Context(q)
    BY <1>0 DEF Context, Stages
  <2> HIDE DEF q
  <2> QED
    BY <1>0, <2>1, <2>2, ContextMoves
<1>8. ASSUME NEW r \in Requests, Logging(r) PROVE RequestsTyped'
  <2>1. req' = [req EXCEPT ![r] = Idle] /\ kept' = [kept EXCEPT ![r] = {}]
    BY <1>8 DEF Logging
  <2> QED
    BY <1>0, <2>1, IdleContext, ContextMoves
<1>9. CASE UNCHANGED req /\ (kept' = kept \/ \E t \in Tables : Reload(t))
  <2>1. DOMAIN kept' = Requests /\ \A r \in Requests : kept'[r] \subseteq kept[r]
    BY <1>0, <1>9 DEF Reload
  <2> QED
    BY <1>0, <1>9, <2>1 DEF RequestsTyped, Context, TableTyped
<1> QED
  BY <1>1, <1>2, <1>3, <1>4, <1>5, <1>6, <1>7, <1>8, <1>9
  DEF Next, vars, Serve, Reload, Observe, Age, Outage, Recover

(* A request keeps its table, takes today's, or gives up the one it had. *)
LEMMA TablesMove ==
    ASSUME TypesInv, [Next]_vars
    PROVE  \A r \in Requests : req'[r].routes \in {req[r].routes, routes, NoRoutes}
<1>0. DOMAIN req = Requests /\ \A r \in Requests : Context(req[r])
  BY DEF TypesInv, RequestsTyped
<1>1. ASSUME NEW r \in Requests, req'[r] # req[r] PROVE req'[r].routes \in {req[r].routes, routes, NoRoutes}
  <2>1. CASE \E path \in Paths : Open(r, path)
    BY <1>0, <2>1, IdleContext DEF Open, Idle
  <2>2. CASE Unmatched(r) \/ Respond(r) \/ Break(r) \/ Reselect(r)
    BY <1>0, <2>2 DEF Unmatched, Respond, Break, Reselect, Context
  <2>3. CASE Match(r)
    BY <1>0, <2>3 DEF Match, Context
  <2>4. CASE Scan(r)
    BY <1>0, <2>4 DEF Scan, Context
  <2>5. CASE Logging(r)
    BY <1>0, <2>5, IdleContext DEF Logging
  <2>6. \/ \E path \in Paths : Open(r, path)
        \/ Serve(r) \/ Break(r) \/ Reselect(r)
    <3>1. ASSUME NEW s \in Requests, s # r,
                 (\E path \in Paths : Open(s, path)) \/ Serve(s) \/ Break(s) \/ Reselect(s)
          PROVE  FALSE
      <4>1. (\E path \in Paths : Open(s, path)) \/ Break(s) \/ Reselect(s) => req'[r] = req[r]
        BY <1>0, <3>1 DEF Open, Break, Reselect
      <4>2. Serve(s) => req'[r] = req[r]
        BY <1>0, <3>1 DEF Serve, Unmatched, Match, Scan, Respond, Logging
      <4> QED
        BY <1>1, <3>1, <4>1, <4>2
    <3>2. req' = req \/ \E s \in Requests :
                           (\E path \in Paths : Open(s, path)) \/ Serve(s) \/ Break(s) \/ Reselect(s)
      BY DEF Next, vars, Reload, Observe, Age, Outage, Recover
    <3> QED
      BY <1>1, <3>1, <3>2
  <2> QED
    BY <2>1, <2>2, <2>3, <2>4, <2>5, <2>6 DEF Serve
<1> QED
  BY <1>1

(* So a table in use was in use before, is none, or is a reload's. *)
LEMMA InUseStep ==
    ASSUME TypesInv, [Next]_vars
    PROVE  \A t \in InUse' : t \in InUse \/ t = NoRoutes \/ t = routes'
BY TablesMove DEF InUse

(* What an owner of a typed table is. *)
LEMMA OwnerIs ==
    ASSUME NEW table, TableTyped(table), NEW x \in Owners(table)
    PROVE  /\ x[1] \in HealthIds /\ x[2] \in Endpoints
           /\ \E p \in DOMAIN table : \E i \in DOMAIN table[p].upstreams :
                 x = <<table[p].health[i], table[p].upstreams[i]>>
<1>1. PICK p \in DOMAIN table : \E i \in DOMAIN table[p].upstreams :
              x = <<table[p].health[i], table[p].upstreams[i]>>
  BY DEF Owners
<1>2. PICK i \in DOMAIN table[p].upstreams : x = <<table[p].health[i], table[p].upstreams[i]>>
  BY <1>1
<1>3. table[p].upstreams \in Seq(Endpoints) /\ table[p].health \in [DOMAIN table[p].upstreams -> HealthIds]
  BY DEF TableTyped
<1>4. table[p].upstreams[i] \in Endpoints
  BY <1>3, LenProperties, ElementOfSeq
<1> QED
  BY <1>2, <1>3, <1>4

(* All tables in use are typed. *)
LEMMA InUseTyped == ASSUME TypesInv PROVE \A t \in InUse : TableTyped(t)
BY DEF InUse, TypesInv, RequestsTyped, Context

(* The owners a reload's table adds. *)
LEMMA NewOwners ==
    ASSUME NEW t \in Loaded, TableTyped(routes), NEW born \in 0..MaxReloads,
           NEW x \in Owners(RouteMap(t, routes, born))
    PROVE  \/ x \in Owners(routes)
           \/ \E p \in DOMAIN t : \E i \in DOMAIN t[p].upstreams :
                 New(born, p, i) \in HealthIds /\ x = <<New(born, p, i), t[p].upstreams[i]>>
<1> DEFINE m == RouteMap(t, routes, born)
<1>1. DOMAIN m = DOMAIN t
  BY DEF RouteMap
<1>2. PICK p \in DOMAIN t : \E i \in DOMAIN m[p].upstreams : x = <<m[p].health[i], m[p].upstreams[i]>>
  BY <1>1 DEF Owners
<1>3. m[p].upstreams = t[p].upstreams /\ m[p].health = Merge(t, routes, born, p)
  BY DEF RouteMap
<1>4. PICK i \in DOMAIN t[p].upstreams : x = <<Merge(t, routes, born, p)[i], t[p].upstreams[i]>>
  BY <1>2, <1>3
<1>5. \/ Merge(t, routes, born, p)[i] = New(born, p, i) /\ New(born, p, i) \in HealthIds
      \/ /\ p \in DOMAIN routes
         /\ \E k \in DOMAIN routes[p].upstreams :
               /\ routes[p].upstreams[k] = t[p].upstreams[i]
               /\ Merge(t, routes, born, p)[i] = routes[p].health[k]
  BY MergeGives
<1>6. CASE \E k \in DOMAIN routes[p].upstreams :
               /\ routes[p].upstreams[k] = t[p].upstreams[i]
               /\ Merge(t, routes, born, p)[i] = routes[p].health[k]
           /\ p \in DOMAIN routes
  BY <1>4, <1>6 DEF Owners
<1> QED
  BY <1>4, <1>5, <1>6

(* A reload keeps whose the objects are; the new ones are blank. *)
LEMMA ReloadOwners ==
    ASSUME TypesInv, OwnersInv, NEW t \in Tables, Reload(t)
    PROVE  OwnersInv'
<1> DEFINE m == RouteMap(t, routes, reloads + 1)
           Added(x) == \E p \in DOMAIN t : \E i \in DOMAIN t[p].upstreams :
                           New(reloads + 1, p, i) \in HealthIds
                              /\ x = <<New(reloads + 1, p, i), t[p].upstreams[i]>>
           Old(x) == x[1] \in HealthIds /\ \E s \in InUse : x \in Owners(s)
<1>1. /\ t \in Loaded /\ reloads + 1 \in 0..MaxReloads /\ reloads \in Nat
      /\ routes' = m /\ reloads' = reloads + 1 /\ failures' = failures /\ req' = req
  BY ProxyOK DEF Reload, TypesInv, EnvTyped
<1>2. \A s \in InUse' : s \in InUse \/ s = m
  BY <1>1 DEF InUse
<1>3. \A s \in InUse : \A x \in Owners(s) : Old(x)
  BY InUseTyped, OwnerIs
<1>4. \A x \in Owners(m) : Old(x) \/ Added(x)
  BY <1>1, <1>3, NewOwners DEF TypesInv, InUse
<1>5. \A s \in InUse' : \A x \in Owners(s) : Old(x) \/ Added(x)
  BY <1>2, <1>3, <1>4
<1>6. \A x : Old(x) => x[1].born <= reloads /\ x[1].born \in Nat /\ Blamed(failures[x[1]]) \subseteq {x[2]}
  BY DEF OwnersInv, HealthIds
<1>7. \A x : Added(x) => x[1].born = reloads + 1 /\ x[1] \in HealthIds
  BY DEF New
<1>8. \A x, y : Old(x) /\ Old(y) /\ x[1] = y[1] => x[2] = y[2]
  BY DEF OwnersInv
<1>9. \A x, y : Added(x) /\ Added(y) /\ x[1] = y[1] => x[2] = y[2]
  <2> SUFFICES ASSUME NEW x, NEW y, Added(x), Added(y), x[1] = y[1] PROVE x[2] = y[2]
    OBVIOUS
  <2>1. PICK p \in DOMAIN t : \E i \in DOMAIN t[p].upstreams :
               x = <<New(reloads + 1, p, i), t[p].upstreams[i]>>
    OBVIOUS
  <2>2. PICK i \in DOMAIN t[p].upstreams : x = <<New(reloads + 1, p, i), t[p].upstreams[i]>>
    BY <2>1
  <2>3. PICK q \in DOMAIN t : \E j \in DOMAIN t[q].upstreams :
               y = <<New(reloads + 1, q, j), t[q].upstreams[j]>>
    OBVIOUS
  <2>4. PICK j \in DOMAIN t[q].upstreams : y = <<New(reloads + 1, q, j), t[q].upstreams[j]>>
    BY <2>3
  <2>5. p = q /\ i = j
    BY <2>2, <2>4 DEF New
  <2> QED
    BY <2>2, <2>4, <2>5
<1>10. \A x, y : Old(x) /\ Added(y) => x[1] # y[1]
  BY <1>1, <1>6, <1>7
<1>11. \A x : Added(x) => Blamed(failures[x[1]]) \subseteq {x[2]}
  <2> SUFFICES ASSUME NEW x, Added(x) PROVE Blamed(failures[x[1]]) \subseteq {x[2]}
    OBVIOUS
  <2>1. x[1] \in HealthIds /\ x[1].born > reloads
    BY <1>1, <1>7
  <2> QED
    BY <2>1, BlankBlames DEF OwnersInv
<1>12. \A h \in HealthIds : h.born > reloads + 1 => failures[h] = <<>>
  BY <1>1 DEF OwnersInv, HealthIds
<1> HIDE DEF Old, Added
<1>13. \A s1, s2 \in InUse' : \A x \in Owners(s1), y \in Owners(s2) : x[1] = y[1] => x[2] = y[2]
  BY <1>5, <1>8, <1>9, <1>10
<1>14. \A x : Old(x) \/ Added(x) => x[1].born <= reloads + 1
  BY <1>1, <1>6, <1>7
<1>15. \A s \in InUse' : \A x \in Owners(s) :
          x[1].born <= reloads + 1 /\ Blamed(failures[x[1]]) \subseteq {x[2]}
  BY <1>5, <1>6, <1>11, <1>14
<1> QED
  BY <1>1, <1>12, <1>13, <1>15 DEF OwnersInv, Owners, Blamed

(* What a deque loses or grows by, it may. *)
LEMMA DequeOwners ==
    ASSUME TypesInv, OwnersInv, [Next]_vars, reloads' = reloads, routes' = routes
    PROVE  OwnersInv'
<1>0. failures \in [HealthIds -> Seq(Failed)]
  BY DEF TypesInv, DequesTyped
<1> DEFINE Harmless ==
        /\ \A s \in InUse : \A x \in Owners(s) : Blamed(failures'[x[1]]) \subseteq {x[2]}
        /\ \A h \in HealthIds : h.born > reloads => failures'[h] = <<>>
<1>1. \A s \in InUse : \A x \in Owners(s) : x[1] \in HealthIds
  BY InUseTyped, OwnerIs
<1>2. ASSUME NEW h \in HealthIds, Shrinks(h), ~(h.born > reloads) \/ failures[h] # <<>> PROVE Harmless
  <2>1. PICK d \in Seq(Failed) :
              Blamed(d) \subseteq Blamed(failures[h]) /\ failures' = [failures EXCEPT ![h] = d]
    BY <1>2 DEF Shrinks
  <2>2. \A g \in HealthIds : Blamed(failures'[g]) \subseteq Blamed(failures[g])
    BY <1>0, <2>1
  <2>3. \A g \in HealthIds : g # h => failures'[g] = failures[g]
    BY <1>0, <2>1
  <2>4. ~(h.born > reloads)
    BY <1>2 DEF OwnersInv
  <2>5. \A s \in InUse : \A x \in Owners(s) : Blamed(failures[x[1]]) \subseteq {x[2]}
    BY DEF OwnersInv
  <2>6. \A s \in InUse : \A x \in Owners(s) : Blamed(failures'[x[1]]) \subseteq {x[2]}
    BY <1>1, <2>2, <2>5
  <2>7. \A g \in HealthIds : g.born > reloads => failures'[g] = <<>>
    BY <2>3, <2>4 DEF OwnersInv
  <2> QED
    BY <2>6, <2>7
<1>3. ASSUME NEW r \in Requests, req[r].routes # NoRoutes
      PROVE  HealthOf(r) \in HealthIds /\ <<HealthOf(r), Endpoint(r)>> \in Owners(req[r].routes) /\ req[r].routes \in InUse
  <2>1. /\ HealthOf(r) \in HealthIds /\ req[r].prefix \in DOMAIN req[r].routes
        /\ req[r].idx \in DOMAIN Route(r).upstreams
    BY <1>3, AtUpstream
  <2> DEFINE table == req[r].routes
             p == req[r].prefix
             i == req[r].idx
  <2>2. HealthOf(r) = table[p].health[i] /\ Endpoint(r) = table[p].upstreams[i] /\ Route(r) = table[p]
    BY DEF HealthOf, Endpoint, Route
  <2>3. p \in DOMAIN table /\ i \in DOMAIN table[p].upstreams
    BY <2>1, <2>2
  <2> HIDE DEF table, p, i
  <2>4. <<HealthOf(r), Endpoint(r)>> \in Owners(table)
    BY <2>2, <2>3 DEF Owners
  <2> QED
    BY <2>1, <2>4 DEF InUse, table
<1>4. ASSUME NEW r \in Requests, req[r].routes # NoRoutes, Adds(r) PROVE Harmless
  <2> DEFINE h == HealthOf(r)
             e == Endpoint(r)
  <2>1. h \in HealthIds /\ e \in Endpoints
    BY <1>4, AtUpstream
  <2>2. failures' = [failures EXCEPT ![h] = Append(failures[h], Failure(e))]
    BY <1>4 DEF Adds
  <2>3. Blamed(failures'[h]) \subseteq Blamed(failures[h]) \cup {e}
    BY <1>0, <2>1, <2>2, FailurePart
  <2>4. \A g \in HealthIds : g # h => failures'[g] = failures[g]
    BY <1>0, <2>1, <2>2
  <2>5. <<h, e>> \in Owners(req[r].routes) /\ req[r].routes \in InUse
    BY <1>4, <1>3
  <2> HIDE DEF h, e
  <2>6. \A s \in InUse : \A x \in Owners(s) : x[1] = h => x[2] = e
    BY <2>5 DEF OwnersInv
  <2>7. ~(h.born > reloads)
    <3>1. <<h, e>>[1].born <= reloads
      BY <2>5 DEF OwnersInv
    <3>2. h.born \in Nat /\ reloads \in Nat
      BY <2>1, ProxyOK DEF HealthIds, TypesInv, EnvTyped
    <3> QED
      BY <3>1, <3>2
  <2>8. ASSUME NEW s \in InUse, NEW x \in Owners(s) PROVE Blamed(failures'[x[1]]) \subseteq {x[2]}
    <3>1. Blamed(failures[x[1]]) \subseteq {x[2]} /\ x[1] \in HealthIds
      BY <1>1 DEF OwnersInv
    <3> QED
      BY <2>3, <2>4, <2>6, <3>1
  <2>9. \A g \in HealthIds : g.born > reloads => failures'[g] = <<>>
    BY <2>4, <2>7 DEF OwnersInv
  <2> QED
    BY <2>8, <2>9
<1>5. ASSUME NEW s \in InUse, NEW x \in Owners(s) PROVE ~(x[1].born > reloads)
  <2>1. x[1].born <= reloads
    BY DEF OwnersInv
  <2>2. x[1].born \in Nat /\ reloads \in Nat
    BY <1>1, ProxyOK DEF HealthIds, TypesInv, EnvTyped
  <2> QED
    BY <2>1, <2>2
<1>6. ASSUME NEW r \in Requests, req[r].routes # NoRoutes, Shrinks(HealthOf(r)) PROVE Harmless
  <2>1. ~(<<HealthOf(r), Endpoint(r)>>[1].born > reloads)
    BY <1>3, <1>5, <1>6
  <2> QED
    BY <1>2, <1>3, <1>6, <2>1
<1>7. ASSUME NEW p \in DOMAIN routes, NEW i \in DOMAIN routes[p].upstreams, Shrinks(routes[p].health[i])
      PROVE  Harmless
  <2>1. <<routes[p].health[i], routes[p].upstreams[i]>> \in Owners(routes) /\ routes \in InUse
    BY DEF Owners, InUse
  <2>2. <<routes[p].health[i], routes[p].upstreams[i]>>[1] \in HealthIds
    BY <1>1, <2>1
  <2>3. ~(<<routes[p].health[i], routes[p].upstreams[i]>>[1].born > reloads)
    BY <1>5, <2>1
  <2> QED
    BY <1>2, <1>7, <2>2, <2>3
<1>8. ASSUME failures' = failures PROVE Harmless
  BY <1>8 DEF OwnersInv
<1> HIDE DEF Harmless
<1>9. Harmless
  BY <1>2, <1>4, <1>6, <1>7, <1>8, DequeSteps
<1>10. \A s \in InUse' : s \in InUse \/ Owners(s) = {}
  BY InUseStep, NoOwners DEF InUse
<1>11. \A s1, s2 \in InUse' : \A x \in Owners(s1), y \in Owners(s2) : x[1] = y[1] => x[2] = y[2]
  BY <1>10 DEF OwnersInv
<1>12. \A s \in InUse' : \A x \in Owners(s) : x[1].born <= reloads
  BY <1>10 DEF OwnersInv
<1>13. \A s \in InUse' : \A x \in Owners(s) : Blamed(failures'[x[1]]) \subseteq {x[2]}
  BY <1>9, <1>10 DEF Harmless
<1>14. \A h \in HealthIds : h.born > reloads => failures'[h] = <<>>
  BY <1>9 DEF Harmless
<1> QED
  BY <1>11, <1>12, <1>13, <1>14 DEF OwnersInv, Owners, Blamed

(* Every step keeps whose the objects are. *)
LEMMA OwnersStep == ASSUME TypesInv, OwnersInv, [Next]_vars PROVE OwnersInv'
<1>1. (reloads' = reloads /\ routes' = routes) \/ \E t \in Tables : Reload(t)
  BY DEF Next, vars, Open, Serve, Unmatched, Match, Scan, Respond, Logging, Break, Reselect, Observe, Age, Outage,
     Recover
<1> QED
  BY <1>1, ReloadOwners, DequeOwners

(* What a step does to the context of r and to what was kept for it. *)
LEMMA KeptMoves ==
    ASSUME TypesInv, KeptInv, [Next]_vars, NEW r \in Requests
    PROVE  \/ /\ routes' = routes /\ kept'[r] = kept[r] /\ req'[r].routes = req[r].routes
              /\ req'[r].prefix = req[r].prefix
           \/ kept'[r] = {}
           \/ Match(r)
           \/ \E t \in Tables : Reload(t)
<1>0. DOMAIN req = Requests /\ DOMAIN kept = Requests /\ Context(req[r])
  BY DEF TypesInv, RequestsTyped
<1>1. CASE \E path \in Paths : Open(r, path)
  <2>1. req[r].routes = NoRoutes /\ kept' = kept
    BY <1>0, <1>1 DEF Open, At, Context
  <2> QED
    BY <2>1 DEF KeptInv, Kept
<1>2. CASE Unmatched(r) \/ Respond(r) \/ Break(r) \/ Reselect(r)
  BY <1>0, <1>2 DEF Unmatched, Respond, Break, Reselect, Context
<1>3. CASE Scan(r)
  BY <1>0, <1>3 DEF Scan, Context
<1>4. CASE Logging(r)
  BY <1>0, <1>4 DEF Logging
<1>5. ASSUME NEW s \in Requests, s # r,
             (\E path \in Paths : Open(s, path)) \/ Serve(s) \/ Break(s) \/ Reselect(s)
      PROVE  routes' = routes /\ kept'[r] = kept[r] /\ req'[r] = req[r]
  <2>1. (\E path \in Paths : Open(s, path)) \/ Break(s) \/ Reselect(s)
            => routes' = routes /\ kept'[r] = kept[r] /\ req'[r] = req[r]
    BY <1>0, <1>5 DEF Open, Break, Reselect
  <2>2. Serve(s) => routes' = routes /\ kept'[r] = kept[r] /\ req'[r] = req[r]
    BY <1>0, <1>5 DEF Serve, Unmatched, Match, Scan, Respond, Logging
  <2> QED
    BY <1>5, <2>1, <2>2
<1>6. \/ UNCHANGED <<routes, kept, req>>
      \/ \E t \in Tables : Reload(t)
      \/ \E s \in Requests : (\E path \in Paths : Open(s, path)) \/ Serve(s) \/ Break(s) \/ Reselect(s)
  BY DEF Next, vars, Observe, Age, Outage, Recover
<1>7. (\E path \in Paths : Open(r, path)) \/ Serve(r) \/ Break(r) \/ Reselect(r)
          => \/ \E path \in Paths : Open(r, path)
             \/ Unmatched(r) \/ Respond(r) \/ Break(r) \/ Reselect(r)
             \/ Scan(r) \/ Logging(r) \/ Match(r)
  BY DEF Serve
<1> QED
  BY <1>1, <1>2, <1>3, <1>4, <1>5, <1>6, <1>7

(* A request takes today's table: it agrees with itself. *)
LEMMA MatchKeeps == ASSUME TypesInv, NEW r \in Requests, Match(r) PROVE Kept(r, routes)'
<1> DEFINE m == Matched(routes, req[r].path)
<1>1. /\ DOMAIN req = Requests /\ DOMAIN kept = Requests /\ Context(req[r])
      /\ DOMAIN routes \subseteq TablePrefixes
  BY DEF TypesInv, RequestsTyped, TableTyped
<1>2. /\ req'[r].routes = routes /\ req'[r].prefix = m /\ routes' = routes
      /\ kept'[r] = ToSet(routes[m].upstreams) /\ Matching(routes, req[r].path) # {}
  BY <1>1 DEF Match, Context
<1>3. m \in DOMAIN routes
  BY <1>1, <1>2, MatchedIn DEF Context
<1>4. routes # NoRoutes
  BY <1>3, NoOwners DEF NoRoutes
<1> HIDE DEF m
<1>5. Route(r)' = routes[m]
  BY <1>2 DEF Route
<1> QED
  BY <1>2, <1>3, <1>4, <1>5 DEF Kept

(* A reload merges what it keeps with the health it had. *)
LEMMA ReloadKeeps ==
    ASSUME TypesInv, KeptInv, NEW t \in Tables, Reload(t), NEW r \in Requests
    PROVE  Kept(r, routes)'
<1> DEFINE p == req[r].prefix
           m == RouteMap(t, routes, reloads + 1)
<1>1. /\ t \in Loaded /\ reloads + 1 \in 0..MaxReloads /\ routes' = m /\ req' = req
      /\ kept'[r] = IF p \in DOMAIN t THEN kept[r] \cap ToSet(t[p].upstreams) ELSE {}
  BY ProxyOK DEF Reload, TypesInv, EnvTyped
<1> HIDE DEF m
<1>0. Route(r)' = Route(r)
  BY <1>1 DEF Route
<1> SUFFICES ASSUME NEW e \in kept'[r]
             PROVE  /\ req[r].routes # NoRoutes /\ p \in DOMAIN m
                    /\ e \in ToSet(m[p].upstreams)
                    /\ \A j \in DOMAIN Route(r).upstreams :
                          (\A i \in DOMAIN Route(r).upstreams : Route(r).upstreams[i] = e <=> i = j) =>
                             \A i \in DOMAIN m[p].upstreams :
                                m[p].upstreams[i] = e => m[p].health[i] = Route(r).health[j]
  BY <1>0, <1>1 DEF Kept
<1>2. p \in DOMAIN t /\ e \in kept[r] /\ e \in ToSet(t[p].upstreams)
  BY <1>1
<1>3. DOMAIN m = DOMAIN t /\ m[p].upstreams = t[p].upstreams /\ m[p].health = Merge(t, routes, reloads + 1, p)
  BY <1>2 DEF RouteMap, m
<1>4. /\ req[r].routes # NoRoutes /\ p \in DOMAIN routes /\ e \in ToSet(routes[p].upstreams)
      /\ \A j \in DOMAIN Route(r).upstreams :
            (\A i \in DOMAIN Route(r).upstreams : Route(r).upstreams[i] = e <=> i = j) =>
               \A i \in DOMAIN routes[p].upstreams :
                  routes[p].upstreams[i] = e => routes[p].health[i] = Route(r).health[j]
  BY <1>2 DEF KeptInv, Kept
<1>5. ASSUME NEW i \in DOMAIN t[p].upstreams, t[p].upstreams[i] = e
      PROVE  \E k \in DOMAIN routes[p].upstreams :
                routes[p].upstreams[k] = e /\ m[p].health[i] = routes[p].health[k]
  <2>1. \/ t[p].upstreams[i] \notin ToSet(routes[p].upstreams)
        \/ \E k \in DOMAIN routes[p].upstreams :
              /\ routes[p].upstreams[k] = t[p].upstreams[i]
              /\ Merge(t, routes, reloads + 1, p)[i] = routes[p].health[k]
    BY <1>1, <1>2, <1>4, MergeGives DEF TypesInv
  <2> QED
    BY <1>3, <1>4, <1>5, <2>1
<1> HIDE DEF p
<1> QED
  BY <1>2, <1>3, <1>4, <1>5

(* Every step keeps the bond of today's table to those requests hold. *)
LEMMA KeptStep == ASSUME TypesInv, KeptInv, [Next]_vars PROVE KeptInv'
<1> SUFFICES ASSUME NEW r \in Requests PROVE Kept(r, routes)'
  BY DEF KeptInv
<1>1. CASE /\ routes' = routes /\ kept'[r] = kept[r] /\ req'[r].routes = req[r].routes
           /\ req'[r].prefix = req[r].prefix
  <2>1. Route(r)' = Route(r)
    BY <1>1 DEF Route
  <2> QED
    BY <1>1, <2>1 DEF KeptInv, Kept
<1>2. CASE kept'[r] = {}
  BY <1>2 DEF Kept
<1> QED
  BY <1>1, <1>2, KeptMoves, MatchKeeps, ReloadKeeps
-----------------------------------------------------------------------------
(* At first there is one table, and nothing is blamed on anyone. *)
LEMMA ProxyInit == ASSUME Init PROVE ProxyInv
<1>1. PICK t \in Loaded : routes = RouteMap(t, <<>>, 0)
  BY DEF Init
<1>2. TableTyped(<<>>) /\ 0 \in 0..MaxReloads
  BY NoOwners, ProxyOK DEF NoRoutes
<1>3. TableTyped(routes)
  BY <1>1, <1>2, RouteMapTyped
<1>4. /\ reloads = 0 /\ failures = [h \in HealthIds |-> <<>>] /\ up = Endpoints /\ faults = 0
      /\ req = [r \in Requests |-> Idle] /\ kept = [r \in Requests |-> {}]
  BY DEF Init
<1>5. EnvTyped /\ DequesTyped /\ RequestsTyped
  BY <1>4, ProxyOK, BlankBlames, IdleContext DEF EnvTyped, DequesTyped, RequestsTyped
<1>6. TypesInv
  BY <1>3, <1>5 DEF TypesInv
<1>7. KeptInv
  BY <1>4 DEF KeptInv, Kept
<1>8. InUse \subseteq {routes, NoRoutes}
  BY <1>4, IdleContext DEF InUse
<1>9. ASSUME NEW x \in Owners(routes)
      PROVE  \E p \in DOMAIN t : \E i \in DOMAIN t[p].upstreams : x = <<New(0, p, i), t[p].upstreams[i]>>
  <2>1. PICK p \in DOMAIN t : \E i \in DOMAIN routes[p].upstreams :
                x = <<routes[p].health[i], routes[p].upstreams[i]>>
    <3>1. DOMAIN routes = DOMAIN t
      BY <1>1 DEF RouteMap
    <3> QED
      BY <3>1 DEF Owners
  <2>2. routes[p].upstreams = t[p].upstreams /\ routes[p].health = Merge(t, <<>>, 0, p)
    BY <1>1 DEF RouteMap
  <2>3. PICK i \in DOMAIN t[p].upstreams : x = <<Merge(t, <<>>, 0, p)[i], t[p].upstreams[i]>>
    BY <2>1, <2>2
  <2>4. Merge(t, <<>>, 0, p)[i] = New(0, p, i)
    BY <1>2, NoOwners, MergeGives
  <2> QED
    BY <2>3, <2>4
<1>10. ASSUME NEW x \in Owners(routes), NEW y \in Owners(routes), x[1] = y[1] PROVE x[2] = y[2]
  <2>1. PICK p \in DOMAIN t : \E i \in DOMAIN t[p].upstreams : x = <<New(0, p, i), t[p].upstreams[i]>>
    BY <1>9
  <2>2. PICK i \in DOMAIN t[p].upstreams : x = <<New(0, p, i), t[p].upstreams[i]>>
    BY <2>1
  <2>3. PICK q \in DOMAIN t : \E j \in DOMAIN t[q].upstreams : y = <<New(0, q, j), t[q].upstreams[j]>>
    BY <1>9
  <2>4. PICK j \in DOMAIN t[q].upstreams : y = <<New(0, q, j), t[q].upstreams[j]>>
    BY <2>3
  <2>5. p = q /\ i = j
    BY <1>10, <2>2, <2>4 DEF New
  <2> QED
    BY <2>2, <2>4, <2>5
<1>11. ASSUME NEW x \in Owners(routes) PROVE x[1].born <= 0 /\ failures[x[1]] = <<>>
  <2>1. x[1] \in HealthIds
    BY <1>3, OwnerIs
  <2>2. x[1].born = 0
    BY <1>9 DEF New
  <2> QED
    BY <1>4, <2>1, <2>2
<1>12. OwnersInv
  BY <1>4, <1>8, <1>10, <1>11, NoOwners, BlankBlames DEF OwnersInv
<1> QED
  BY <1>6, <1>7, <1>12 DEF ProxyInv

(* The inductive invariant, from which the properties follow. *)
LEMMA ProxyStep == ASSUME ProxyInv, [Next]_vars PROVE ProxyInv'
BY EnvStep, TableStep, DequesStep, RequestsStep, OwnersStep, KeptStep DEF ProxyInv, TypesInv

LEMMA ProxyInvariant == Spec => []ProxyInv
BY ProxyInit, ProxyStep, PTL DEF Spec

(* The invariant says of every variable what TypeOK does, and more. *)
LEMMA TypesHold == ASSUME ProxyInv PROVE TypeOK
<1>1. EnvTyped /\ TableTyped(routes) /\ DequesTyped /\ RequestsTyped
  BY DEF ProxyInv, TypesInv
<1>2. ASSUME NEW r \in Requests
      PROVE  /\ req[r].stage \in Stages /\ req[r].path \in Paths \cup {<<>>}
             /\ kept[r] \subseteq Endpoints
             /\ req[r].routes # NoRoutes =>
                   /\ req[r].prefix \in DOMAIN req[r].routes
                   /\ req[r].idx \in DOMAIN Route(r).upstreams
  BY <1>1 DEF RequestsTyped, Context, Route
<1> QED
  BY <1>1, <1>2 DEF TypeOK, EnvTyped, TableTyped, DequesTyped, Failed

(* Every reachable state is well typed, for any tables: whatever is        *)
(* reloaded, the index of a request stays inside the upstreams of its own  *)
(* table.                                                                  *)
THEOREM ProxyTypeCorrect == Spec => []TypeOK
BY ProxyInvariant, TypesHold, PTL

(* No upstream of today's table is blamed for another's failure, however   *)
(* often reloads reorder and replace them under way.                       *)
THEOREM BlameIsOwn == Spec => []FailuresAreOwn
<1>1. ASSUME ProxyInv PROVE FailuresAreOwn
  <2> SUFFICES ASSUME NEW p \in DOMAIN routes, NEW i \in DOMAIN routes[p].upstreams,
                      NEW f \in ToSet(failures[routes[p].health[i]])
               PROVE  f.by = routes[p].upstreams[i]
    BY DEF FailuresAreOwn
  <2>1. <<routes[p].health[i], routes[p].upstreams[i]>> \in Owners(routes) /\ routes \in InUse
    BY DEF Owners, InUse
  <2>2. \A s \in InUse : \A x \in Owners(s) : Blamed(failures[x[1]]) \subseteq {x[2]}
    BY <1>1 DEF ProxyInv, OwnersInv
  <2>3. Blamed(failures[routes[p].health[i]]) \subseteq {routes[p].upstreams[i]}
    BY <2>1, <2>2
  <2> QED
    BY <2>3 DEF Blamed
<1> QED
  BY <1>1, ProxyInvariant, PTL

(* Only logging ends a request. *)
LEMMA LoggingEnds ==
    ASSUME TypesInv, [Next]_vars, NEW r \in Requests, At(r, "log"), req'[r].stage = "idle"
    PROVE  Logging(r)
<1>0. DOMAIN req = Requests /\ Context(req[r])
  BY DEF TypesInv, RequestsTyped
<1>1. ASSUME NEW s \in Requests, s # r,
             (\E path \in Paths : Open(s, path)) \/ Serve(s) \/ Break(s) \/ Reselect(s)
      PROVE  req'[r] = req[r]
  <2>1. (\E path \in Paths : Open(s, path)) \/ Break(s) \/ Reselect(s) => req'[r] = req[r]
    BY <1>0, <1>1 DEF Open, Break, Reselect
  <2>2. Serve(s) => req'[r] = req[r]
    BY <1>0, <1>1 DEF Serve, Unmatched, Match, Scan, Respond, Logging
  <2> QED
    BY <1>1, <2>1, <2>2
<1>2. req' = req \/ \E s \in Requests :
                       (\E path \in Paths : Open(s, path)) \/ Serve(s) \/ Break(s) \/ Reselect(s)
  BY DEF Next, vars, Reload, Observe, Age, Outage, Recover
<1>3. req'[r] # req[r]
  BY DEF At
<1>4. (\E path \in Paths : Open(r, path)) \/ Serve(r) \/ Break(r) \/ Reselect(r)
  BY <1>1, <1>2, <1>3
<1> QED
  BY <1>4 DEF Open, Serve, Unmatched, Match, Scan, Respond, Break, Reselect, At

(* The failure of a request reaches the object that today's table has for  *)
(* its upstream.                                                           *)
LEMMA CountsStep ==
    ASSUME ProxyInv, [Next]_vars, NEW r \in Requests, FailsNow(r), Endpoint(r) \in kept[r], ListedOnce(r),
           NEW i \in DOMAIN routes[req[r].prefix].upstreams,
           routes[req[r].prefix].upstreams[i] = Endpoint(r)
    PROVE  Len(failures'[routes[req[r].prefix].health[i]]) = Len(failures[routes[req[r].prefix].health[i]]) + 1
<1>1. TypesInv /\ Kept(r, routes)
  BY DEF ProxyInv, KeptInv
<1>2. req[r].routes # NoRoutes /\ req[r].failed /\ Logging(r)
  BY <1>1, LoggingEnds DEF FailsNow
<1>3. HealthOf(r) \in HealthIds /\ Endpoint(r) \in Endpoints /\ req[r].idx \in DOMAIN Route(r).upstreams
  BY <1>1, <1>2, AtUpstream
<1>4. failures' = [failures EXCEPT ![HealthOf(r)] = Append(failures[HealthOf(r)], Failure(Endpoint(r)))]
  BY <1>2 DEF Logging, Recorded
<1>5. failures \in [HealthIds -> Seq(Failed)]
  BY <1>1 DEF TypesInv, DequesTyped
<1>6. Len(failures'[HealthOf(r)]) = Len(failures[HealthOf(r)]) + 1
  BY <1>3, <1>4, <1>5, FailurePart
<1>7. \A j \in DOMAIN Route(r).upstreams : Route(r).upstreams[j] = Endpoint(r) <=> j = req[r].idx
  BY DEF ListedOnce, Endpoint
<1>8. routes[req[r].prefix].health[i] = HealthOf(r)
  BY <1>1, <1>3, <1>7 DEF Kept, HealthOf
<1> QED
  BY <1>6, <1>8

(* A failure under a table that was replaced counts against its upstream   *)
(* in today's, if the upstream was there all along: action property.       *)
THEOREM ReloadsKeepCounting == Spec => CountsAcrossReloads
<1>1. ASSUME ProxyInv, [Next]_vars
      PROVE  \A r \in Requests : FailsNow(r) /\ Endpoint(r) \in kept[r] /\ ListedOnce(r) =>
                \A i \in DOMAIN routes[req[r].prefix].upstreams :
                   LET h == routes[req[r].prefix].health[i]
                   IN  routes[req[r].prefix].upstreams[i] = Endpoint(r)
                          => Len(failures'[h]) = Len(failures[h]) + 1
  <2> SUFFICES ASSUME NEW r \in Requests, FailsNow(r), Endpoint(r) \in kept[r], ListedOnce(r),
                      NEW i \in DOMAIN routes[req[r].prefix].upstreams,
                      routes[req[r].prefix].upstreams[i] = Endpoint(r)
               PROVE  Len(failures'[routes[req[r].prefix].health[i]])
                         = Len(failures[routes[req[r].prefix].health[i]]) + 1
    BY Zenon
  <2> QED
    BY <1>1, CountsStep
<1> QED
  BY <1>1, ProxyInvariant, PTL DEF Spec, CountsAcrossReloads
-----------------------------------------------------------------------------
(***************************************************************************)
(* The VAA service (VaaApi).  A request carries what it has found and what *)
(* it has yet to look up, and together they are what it was asked for, but *)
(* for what it saw in neither source.  The names that both modules use,    *)
(* Requests, MaxFaults, req and faults, are VaaApi's from here on.         *)
(***************************************************************************)
CONSTANTS Vaas, Ours, Txs, Programs, Bridge, Log, Targets, Home, Asked, HasFallback, MaxStream
VARIABLES signed, indexed, shown, store, txres, spy, connected, stream, neither

Vaa == INSTANCE VaaApi

(* What a request has looked up, and what it has yet to look up.  w is     *)
(* what it found in neither source, scanned what wormholescan has, and     *)
(* sig what is signed.                                                     *)
VaaRequest == [stage: Vaa!Stages \cup Vaa!Statuses, target: {"none"} \cup Asked,
               todo: Seq(Vaas), data: SUBSET Vaas, resolved: BOOLEAN]
Resolving(q) ==
    /\ q.stage \in {"txres", "resolve", "putres", "fill"} => q.target \in Txs /\ q.data = {}
    /\ q.stage \in {"txres", "resolve", "putres", "store", "scan"} => q.resolved
    /\ q.stage = "putres" => Vaa!ToSet(q.todo) = Vaa!OwnMessages[q.target]
    /\ q.stage = "fill" => ~q.resolved
AtHand(q, w, scanned) ==
    /\ q.stage \in {"scan", "put"} => q.todo # <<>>
    /\ q.stage = "scan" => Head(q.todo) \in w \cup scanned
    /\ q.stage = "put" => Head(q.todo) \in q.data
    /\ q.stage = "finish" /\ q.resolved => q.todo = <<>>
Covers(q, w) ==
    q.stage \in {"store", "scan", "put", "finish"} =>
        IF q.resolved
        THEN /\ q.target \in Vaas \cup Txs
             /\ q.data \cup Vaa!ToSet(q.todo) \subseteq Vaa!Wanted(q.target)
             /\ Vaa!Wanted(q.target) \subseteq q.data \cup Vaa!ToSet(q.todo) \cup w
        ELSE /\ q.target \in Txs /\ q.data \subseteq Vaa!Emitted[q.target]
             /\ q.stage = "put" => Vaa!ToSet(q.todo) \subseteq q.data
Serving(q, w, scanned, sig) ==
    /\ q \in VaaRequest /\ q.data \subseteq sig
    /\ Resolving(q) /\ AtHand(q, w, scanned) /\ Covers(q, w)

VaaTyped ==
    /\ signed \subseteq Vaas /\ indexed \subseteq signed /\ shown \subseteq Txs
    /\ store \subseteq signed /\ txres \subseteq Txs
    /\ spy \in {"down", "channel", "open"} /\ connected \in BOOLEAN
    /\ faults \in 0..MaxFaults
    /\ stream \in Seq([vaa: Ours, signed: BOOLEAN])
    /\ \A i \in DOMAIN stream : stream[i].signed => stream[i].vaa \in signed
ServingInv ==
    /\ DOMAIN req = Requests
    /\ \A r \in Requests :
          neither[r] \subseteq Vaas /\ Serving(req[r], neither[r], Vaa!Scanned, signed)
VaaInv == VaaTyped /\ ServingInv
-----------------------------------------------------------------------------
LEMMA SameCardinality ==
    \A S : Vaa!Cardinality(S) = Cardinality(S) /\ (Vaa!IsFiniteSet(S) <=> IsFiniteSet(S))
BY DEF Vaa!Cardinality, Cardinality, Vaa!IsFiniteSet, IsFiniteSet

-----------------------------------------------------------------------------
(***************************************************************************)
(* The parsers, for logs of any length.  A fold is a function of its       *)
(* prefixes; that one exists, and what it returns, is shown by induction   *)
(* on the length: a prefix for which it failed would have a least one.     *)
(***************************************************************************)
LEMMA LeastOne ==
    ASSUME NEW S \in SUBSET Nat, S # {}
    PROVE  \E k \in S : \A j \in S : k <= j
<1>1. PICK k \in S : \A j \in S : ~(<<j, k>> \in OpToRel(<, Nat))
  BY NatLessThanWellFounded, WFMin, Zenon
<1>2. \A j \in S : ~(j < k)
  BY <1>1 DEF OpToRel
<1>3. \A j \in S : j \in Nat /\ k \in Nat
  BY <1>1
<1>4. \A j \in S : k <= j
  BY <1>2, <1>3
<1> QED
  BY <1>4

(* A property of the set of n that it holds of. *)
LEMMA UpTo ==
    ASSUME NEW L \in Nat, NEW Good, 0 \in Good, \A n \in 1..L : n - 1 \in Good => n \in Good
    PROVE  0..L \subseteq Good
<1> SUFFICES ASSUME (0..L) \ Good # {} PROVE FALSE
  OBVIOUS
<1>1. (0..L) \ Good \in SUBSET Nat
  OBVIOUS
<1>2. PICK k \in (0..L) \ Good : \A j \in (0..L) \ Good : k <= j
  BY <1>1, LeastOne
<1>3. k \in 1..L /\ k - 1 \in 0..L /\ ~(k <= k - 1)
  BY <1>2
<1> QED
  BY <1>2, <1>3

(* What the loop has read of each set of lines, last line last. *)
Reads(log, m, g) ==
    g = [s \in SUBSET (1..m) |->
            IF s = {} THEN Vaa!Start ELSE Vaa!Read(g[s \ {Vaa!Max(s)}], log[Vaa!Max(s)])]

LEMMA LastOf ==
    ASSUME NEW m \in Nat, NEW s \in SUBSET (1..m), m \in s PROVE Vaa!Max(s) = m
<1>1. \A y \in s : y \in 1..m /\ m >= y
  OBVIOUS
<1>2. \A x \in s : (\A y \in s : x >= y) => x = m
  BY <1>1
<1> QED
  BY <1>1, <1>2 DEF Vaa!Max

LEMMA ReadsFurther ==
    ASSUME NEW log, NEW m \in Nat \ {0}, NEW g, Reads(log, m - 1, g)
    PROVE  \E h : Reads(log, m, h)
<1> DEFINE Body(f, s) == IF s = {} THEN Vaa!Start
                         ELSE Vaa!Read(f[s \ {Vaa!Max(s)}], log[Vaa!Max(s)])
           h == [s \in SUBSET (1..m) |-> IF m \in s THEN Vaa!Read(g[s \ {m}], log[m]) ELSE g[s]]
<1>1. \A s \in SUBSET (1..(m - 1)) : g[s] = Body(g, s)
  BY DEF Reads
<1>2. ASSUME NEW s \in SUBSET (1..m) PROVE h[s] = Body(h, s)
  <2>1. CASE m \in s
    <3>1. Vaa!Max(s) = m /\ s \ {m} \in SUBSET (1..m) /\ m \notin s \ {m} /\ s # {}
      BY <2>1, LastOf
    <3>2. h[s \ {m}] = g[s \ {m}] /\ h[s] = Vaa!Read(g[s \ {m}], log[m])
      BY <2>1, <3>1
    <3> QED
      BY <3>1, <3>2
  <2>2. CASE m \notin s
    <3>0. \A x \in s : x \in 1..(m - 1)
      BY <2>2
    <3>1. s \in SUBSET (1..(m - 1)) /\ s \ {Vaa!Max(s)} \in SUBSET (1..m) /\ m \notin s \ {Vaa!Max(s)}
      BY <2>2, <3>0
    <3>2. h[s] = g[s] /\ h[s \ {Vaa!Max(s)}] = g[s \ {Vaa!Max(s)}]
      BY <2>2, <3>1
    <3>3. g[s] = Body(g, s)
      BY <1>1, <3>1
    <3> HIDE DEF h
    <3> QED
      BY <3>2, <3>3
  <2> QED
    BY <2>1, <2>2
<1>3. h = [s \in SUBSET (1..m) |-> h[s]]
  OBVIOUS
<1> HIDE DEF h
<1>4. h = [s \in SUBSET (1..m) |-> Body(h, s)]
  BY <1>2, <1>3
<1> QED
  BY <1>4 DEF Reads

LEMMA ReadsAll ==
    ASSUME NEW log, NEW L \in Nat PROVE \E g : Reads(log, L, g)
<1> DEFINE Good == {n \in Nat : \E g : Reads(log, n, g)}
           g0 == [s \in SUBSET (1..0) |-> Vaa!Start]
<1>1. 0 \in Good
  <2>1. \A s \in SUBSET (1..0) : s = {}
    OBVIOUS
  <2>2. Reads(log, 0, g0)
    BY <2>1 DEF Reads
  <2> QED
    BY <2>2
<1>2. ASSUME NEW n \in 1..L, n - 1 \in Good PROVE n \in Good
  BY <1>2, ReadsFurther
<1> HIDE DEF Good
<1>3. L \in Good
  BY <1>1, <1>2, UpTo
<1> QED
  BY <1>3 DEF Good

(* The loop of the parsers: from line to line, from the first to the last. *)
Loop(log, state) ==
    /\ state[0] = Vaa!Start
    /\ \A n \in 1..Len(log) : state[n] = Vaa!Read(state[n - 1], log[n])

LEMMA ParseIsALoop ==
    ASSUME NEW S, NEW log \in Seq(S)
    PROVE  \E state : Loop(log, state) /\ Vaa!Parse(log) = state[Len(log)].out
<1> DEFINE L == Len(log)
           it == CHOOSE g : Reads(log, L, g)
           state == [n \in 0..L |-> it[1..n]]
<1>1. L \in Nat /\ DOMAIN log = 1..L
  OBVIOUS
<1>2. Vaa!Parse(log) = it[DOMAIN log].out
  BY <1>1 DEF Vaa!Parse, Vaa!FoldLeft, Vaa!MapThenFoldSet, Reads
<1>3. Reads(log, L, it)
  BY <1>1, ReadsAll
<1> HIDE DEF it
<1>4. state[0] = Vaa!Start
  BY <1>1, <1>3 DEF Reads
<1>5. ASSUME NEW n \in 1..L PROVE state[n] = Vaa!Read(state[n - 1], log[n])
  <2>0. n \in Nat /\ n \in 1..n /\ 1..n \in SUBSET (1..n) /\ 1 <= n /\ n <= L
    BY <1>1
  <2> HIDE DEF L, state
  <2>4. 1..n \in SUBSET (1..L) /\ n - 1 \in 0..L /\ n \in 0..L
    BY <1>1, <2>0
  <2>5. (1..n) \ {n} = 1..(n - 1)
    BY <2>0
  <2>1. /\ 1..n \in SUBSET (1..L) /\ 1..n # {} /\ (1..n) \ {n} = 1..(n - 1)
        /\ n - 1 \in 0..L /\ n \in 0..L
    BY <2>0, <2>4, <2>5
  <2>3. Vaa!Max(1..n) = n
    BY <2>0, LastOf
  <2>2. it[1..n] = Vaa!Read(it[(1..n) \ {n}], log[n])
    BY <1>3, <2>1, <2>3 DEF Reads
  <2> QED
    BY <2>1, <2>2 DEF state
<1>6. Vaa!Parse(log) = state[L].out
  BY <1>1, <1>2
<1> HIDE DEF state
<1> QED
  BY <1>4, <1>5, <1>6 DEF Loop
-----------------------------------------------------------------------------
(* How many more invocations than ends there are from line i to line n. *)
Balance(log, i, n) == Vaa!Count(log, "invoke", i, n) - Vaa!Count(log, "end", i, n)
Shift(line) == IF Vaa!Happened(line) = "invoke" THEN 1 ELSE IF Vaa!Happened(line) = "end" THEN -1 ELSE 0

LEMMA FewLines ==
    ASSUME NEW log, NEW kind, NEW i \in Nat, NEW n \in Nat
    PROVE  IsFiniteSet({k \in i..n : Vaa!Happened(log[k]) = kind})
<1>1. IsFiniteSet(i..n) /\ {k \in i..n : Vaa!Happened(log[k]) = kind} \in SUBSET (i..n)
  BY FS_Interval
<1> QED
  BY <1>1, FS_Subset

LEMMA CountTyped ==
    ASSUME NEW log, NEW kind, NEW i \in Nat, NEW n \in Nat PROVE Vaa!Count(log, kind, i, n) \in Nat
<1> DEFINE K == {k \in i..n : Vaa!Happened(log[k]) = kind}
<1>1. IsFiniteSet(K)
  BY FewLines
<1> HIDE DEF K
<1>2. Cardinality(K) \in Nat
  BY <1>1, FS_CardinalityType
<1> QED
  BY <1>2, SameCardinality DEF Vaa!Count, K

LEMMA CountGrows ==
    ASSUME NEW log, NEW kind, NEW i \in Nat, NEW n \in Nat, i <= n + 1
    PROVE  Vaa!Count(log, kind, i, n + 1)
              = Vaa!Count(log, kind, i, n) + (IF Vaa!Happened(log[n + 1]) = kind THEN 1 ELSE 0)
<1> DEFINE K == {k \in i..n : Vaa!Happened(log[k]) = kind}
           more == {k \in i..(n + 1) : Vaa!Happened(log[k]) = kind}
<1>0. IsFiniteSet(K)
  BY FewLines
<1>1. n + 1 \notin K
  OBVIOUS
<1>2. more = IF Vaa!Happened(log[n + 1]) = kind THEN K \cup {n + 1} ELSE K
  <2>1. i..(n + 1) = (i..n) \cup {n + 1}
    OBVIOUS
  <2> QED
    BY <2>1
<1>3. Vaa!Count(log, kind, i, n) = Cardinality(K) /\ Vaa!Count(log, kind, i, n + 1) = Cardinality(more)
  BY SameCardinality DEF Vaa!Count
<1> HIDE DEF K, more
<1>4. Cardinality(K) \in Nat /\ Cardinality(K \cup {n + 1}) = Cardinality(K) + 1
  BY <1>0, <1>1, FS_AddElement, FS_CardinalityType
<1> QED
  BY <1>2, <1>3, <1>4

LEMMA BalanceShifts ==
    ASSUME NEW log, NEW i \in Nat, NEW n \in Nat, i <= n + 1
    PROVE  /\ Balance(log, i, n) \in Int
           /\ Balance(log, i, n + 1) = Balance(log, i, n) + Shift(log[n + 1])
<1>1. /\ Vaa!Count(log, "invoke", i, n) \in Nat /\ Vaa!Count(log, "end", i, n) \in Nat
      /\ Vaa!Count(log, "invoke", i, n + 1)
            = Vaa!Count(log, "invoke", i, n) + (IF Vaa!Happened(log[n + 1]) = "invoke" THEN 1 ELSE 0)
      /\ Vaa!Count(log, "end", i, n + 1)
            = Vaa!Count(log, "end", i, n) + (IF Vaa!Happened(log[n + 1]) = "end" THEN 1 ELSE 0)
  BY CountTyped, CountGrows
<1> QED
  BY <1>1 DEF Balance, Shift

LEMMA BalanceStarts ==
    ASSUME NEW log, NEW n \in Nat PROVE Balance(log, n + 1, n) = 0
<1>1. (n + 1)..n = {}
  OBVIOUS
<1>2. \A kind : Vaa!Count(log, kind, n + 1, n) = Cardinality({})
  BY <1>1, SameCardinality DEF Vaa!Count
<1> QED
  BY <1>2, FS_EmptySet DEF Balance

(* Which invocations are open after one more line. *)
LEMMA OpenNext ==
    ASSUME NEW log, NEW n \in Nat, NEW i \in 1..(n + 1)
    PROVE  Vaa!StillOpen(log, i, n + 1) <=>
              IF i = n + 1 THEN Vaa!Happened(log[i]) = "invoke"
              ELSE Vaa!StillOpen(log, i, n) /\ Balance(log, i, n) + Shift(log[n + 1]) > 0
<1>1. ASSUME NEW k \in i..(n + 1)
      PROVE  Vaa!Count(log, "end", i, k) < Vaa!Count(log, "invoke", i, k) <=> Balance(log, i, k) > 0
  <2>1. Vaa!Count(log, "end", i, k) \in Nat /\ Vaa!Count(log, "invoke", i, k) \in Nat
    BY CountTyped
  <2> QED
    BY <2>1 DEF Balance
<1>2. Balance(log, i, n + 1) = Balance(log, i, n) + Shift(log[n + 1]) /\ Balance(log, i, n) \in Int
  BY BalanceShifts
<1>3. CASE i = n + 1
  <2>1. Balance(log, i, n) = 0 /\ i..(n + 1) = {i}
    BY <1>3, BalanceStarts
  <2>2. Vaa!StillOpen(log, i, n + 1) <=> Vaa!Happened(log[i]) = "invoke" /\ Balance(log, i, n + 1) > 0
    BY <1>1, <1>3, <2>1 DEF Vaa!StillOpen
  <2> QED
    BY <1>2, <1>3, <2>1, <2>2 DEF Shift
<1>4. CASE i # n + 1
  <2>1. i..(n + 1) = (i..n) \cup {n + 1}
    BY <1>4
  <2> QED
    BY <1>1, <1>2, <1>4, <2>1 DEF Vaa!StillOpen
<1> QED
  BY <1>3, <1>4
-----------------------------------------------------------------------------
(* After n lines: the stack holds the programs of the open invocations,    *)
(* the outermost first, each with those above it still to end.             *)
StackOf(log, n, stack, opened) ==
    /\ stack \in Seq(Programs) /\ opened \in [DOMAIN stack -> 1..n]
    /\ \A d \in DOMAIN stack :
          /\ stack[d] = log[opened[d]].program
          /\ Balance(log, opened[d], n) = Len(stack) - d + 1
    /\ \A i \in 1..n : Vaa!StillOpen(log, i, n) <=> \E d \in DOMAIN stack : opened[d] = i
OwnUpTo(log, n) == {j \in 1..n : Vaa!OursAt(log, j)}
ReadUpTo(log, n, state) ==
    /\ state = [stack |-> state.stack, out |-> state.out]
    /\ state.out \in Seq(Vaas) /\ Vaa!InLogOrder(state.out, log, OwnUpTo(log, n))
    /\ \E opened : StackOf(log, n, state.stack, opened)

(* One line more is found, or none. *)
LEMMA ListsOneMore ==
    ASSUME NEW log, NEW n \in Nat, NEW out \in Seq(Vaas), log[n + 1].vaa \in Vaas,
           Vaa!OursAt(log, n + 1), Vaa!InLogOrder(out, log, OwnUpTo(log, n))
    PROVE  Vaa!InLogOrder(Append(out, log[n + 1].vaa), log, OwnUpTo(log, n + 1))
<1> DEFINE own == OwnUpTo(log, n)
           more == Append(out, log[n + 1].vaa)
<1>1. PICK at \in [DOMAIN out -> own] :
         /\ \A k, m \in DOMAIN out : k < m => at[k] < at[m]
         /\ Vaa!ToSet(at) = own
         /\ \A k \in DOMAIN out : out[k] = log[at[k]].vaa
  BY DEF Vaa!InLogOrder
<1> DEFINE at2 == [k \in DOMAIN more |-> IF k \in DOMAIN out THEN at[k] ELSE n + 1]
<1>2. /\ Len(out) \in Nat /\ DOMAIN out = 1..Len(out) /\ DOMAIN more = 1..(Len(out) + 1)
      /\ \A k \in DOMAIN out : more[k] = out[k]
      /\ more[Len(out) + 1] = log[n + 1].vaa
  OBVIOUS
<1>3. OwnUpTo(log, n + 1) = own \cup {n + 1} /\ own \subseteq 1..n
  BY DEF OwnUpTo
<1> HIDE DEF more, own
<1>4. at2 \in [DOMAIN more -> own \cup {n + 1}]
  BY <1>1
<1>5. ASSUME NEW k \in DOMAIN more, NEW m \in DOMAIN more, k < m PROVE at2[k] < at2[m]
  <2>0. k \in DOMAIN out
    BY <1>2, <1>5
  <2>1. k \in DOMAIN out /\ at2[k] = at[k] /\ at[k] \in 1..n
    BY <1>1, <1>3, <2>0
  <2> QED
    BY <1>1, <1>5, <2>1
<1>6. Vaa!ToSet(at2) = own \cup {n + 1}
  <2>1. at2[Len(out) + 1] = n + 1 /\ Len(out) + 1 \in DOMAIN more
    BY <1>2
  <2>2. \A k \in DOMAIN out : at2[k] = at[k] /\ k \in DOMAIN more
    BY <1>2
  <2>3. \A j \in own : \E k \in DOMAIN out : at[k] = j
    BY <1>1 DEF Vaa!ToSet
  <2>4. DOMAIN at2 = DOMAIN more
    OBVIOUS
  <2> HIDE DEF at2
  <2> QED
    BY <1>4, <2>1, <2>2, <2>3, <2>4 DEF Vaa!ToSet
<1>7. \A k \in DOMAIN more : more[k] = log[at2[k]].vaa
  BY <1>1, <1>2
<1> HIDE DEF at2
<1>8. Vaa!InLogOrder(more, log, own \cup {n + 1})
  BY <1>4, <1>5, <1>6, <1>7 DEF Vaa!InLogOrder
<1> QED
  BY <1>3, <1>8 DEF more

LEMMA ListsNoMore ==
    ASSUME NEW log, NEW n \in Nat, ~Vaa!OursAt(log, n + 1)
    PROVE  OwnUpTo(log, n + 1) = OwnUpTo(log, n)
BY DEF OwnUpTo

LEMMA StackUnmoved ==
    ASSUME NEW log, NEW n \in Nat, NEW stack, NEW opened, StackOf(log, n, stack, opened),
           Vaa!Happened(log[n + 1]) \notin {"invoke", "end"}
    PROVE  StackOf(log, n + 1, stack, opened)
<1>1. Shift(log[n + 1]) = 0
  BY DEF Shift
<1>2. /\ stack \in Seq(Programs) /\ opened \in [DOMAIN stack -> 1..n]
      /\ Len(stack) \in Nat /\ DOMAIN stack = 1..Len(stack)
  BY DEF StackOf
<1>3. ASSUME NEW d \in DOMAIN stack
      PROVE  stack[d] = log[opened[d]].program /\ Balance(log, opened[d], n + 1) = Len(stack) - d + 1
  <2>1. opened[d] \in Nat /\ opened[d] <= n + 1
    BY <1>2
  <2>2. stack[d] = log[opened[d]].program /\ Balance(log, opened[d], n) = Len(stack) - d + 1
    BY DEF StackOf
  <2>3. Balance(log, opened[d], n + 1) = Balance(log, opened[d], n) + 0
    BY <1>1, <2>1, BalanceShifts
  <2> QED
    BY <1>2, <2>2, <2>3
<1>4. ASSUME NEW i \in 1..(n + 1)
      PROVE  Vaa!StillOpen(log, i, n + 1) <=> \E d \in DOMAIN stack : opened[d] = i
  <2>1. CASE i = n + 1
    BY <1>2, <2>1, OpenNext
  <2>2. CASE i \in 1..n
    <3>1. Vaa!StillOpen(log, i, n) <=> \E d \in DOMAIN stack : opened[d] = i
      BY <2>2 DEF StackOf
    <3>2. \A d \in DOMAIN stack : opened[d] = i => Balance(log, i, n) > 0
      BY <1>2 DEF StackOf
    <3>3. Balance(log, i, n) \in Int
      BY <2>2, BalanceShifts
    <3>4. Vaa!StillOpen(log, i, n + 1) <=> Vaa!StillOpen(log, i, n) /\ Balance(log, i, n) > 0
      BY <1>1, <2>2, <3>3, OpenNext
    <3> QED
      BY <3>1, <3>2, <3>4
  <2> QED
    BY <2>1, <2>2
<1>5. opened \in [DOMAIN stack -> 1..(n + 1)]
  BY <1>2
<1> QED
  BY <1>2, <1>3, <1>4, <1>5 DEF StackOf

LEMMA StackPushed ==
    ASSUME NEW log, NEW n \in Nat, NEW stack, NEW opened, StackOf(log, n, stack, opened),
           Vaa!Happened(log[n + 1]) = "invoke", log[n + 1].program \in Programs
    PROVE  \E pushed : StackOf(log, n + 1, Append(stack, log[n + 1].program), pushed)
<1> DEFINE more == Append(stack, log[n + 1].program)
           pushed == [d \in DOMAIN more |-> IF d \in DOMAIN stack THEN opened[d] ELSE n + 1]
<1>1. Shift(log[n + 1]) = 1
  BY DEF Shift
<1>2. /\ stack \in Seq(Programs) /\ opened \in [DOMAIN stack -> 1..n]
      /\ Len(stack) \in Nat /\ DOMAIN stack = 1..Len(stack)
  BY DEF StackOf
<1>3. /\ more \in Seq(Programs) /\ Len(more) = Len(stack) + 1 /\ DOMAIN more = 1..(Len(stack) + 1)
      /\ \A d \in DOMAIN stack : more[d] = stack[d]
      /\ more[Len(stack) + 1] = log[n + 1].program
  BY <1>2
<1> HIDE DEF more
<1>4. /\ \A d \in DOMAIN stack : d \in DOMAIN more /\ pushed[d] = opened[d]
      /\ Len(stack) + 1 \in DOMAIN more /\ pushed[Len(stack) + 1] = n + 1
      /\ pushed \in [DOMAIN more -> 1..(n + 1)]
  BY <1>2, <1>3
<1> HIDE DEF pushed
<1>5. ASSUME NEW d \in DOMAIN more
      PROVE  more[d] = log[pushed[d]].program /\ Balance(log, pushed[d], n + 1) = Len(more) - d + 1
  <2>1. CASE d = Len(stack) + 1
    <3>1. Balance(log, n + 1, n) = 0 /\ Balance(log, n + 1, n + 1) = Balance(log, n + 1, n) + 1
      BY <1>1, BalanceShifts, BalanceStarts
    <3> QED
      BY <1>2, <1>3, <1>4, <2>1, <3>1
  <2>2. CASE d \in DOMAIN stack
    <3>1. opened[d] \in Nat /\ opened[d] <= n + 1
      BY <1>2, <2>2
    <3>2. Balance(log, opened[d], n + 1) = Balance(log, opened[d], n) + 1
      BY <1>1, <3>1, BalanceShifts
    <3>3. stack[d] = log[opened[d]].program /\ Balance(log, opened[d], n) = Len(stack) - d + 1
      BY <2>2 DEF StackOf
    <3> QED
      BY <1>2, <1>3, <1>4, <2>2, <3>2, <3>3
  <2> QED
    BY <1>2, <1>3, <2>1, <2>2
<1>6. ASSUME NEW i \in 1..(n + 1)
      PROVE  Vaa!StillOpen(log, i, n + 1) <=> \E d \in DOMAIN more : pushed[d] = i
  <2>1. CASE i = n + 1
    BY <1>4, <2>1, OpenNext
  <2>2. CASE i \in 1..n
    <3>1. Vaa!StillOpen(log, i, n) <=> \E d \in DOMAIN stack : opened[d] = i
      BY <2>2 DEF StackOf
    <3>2. \A d \in DOMAIN stack : opened[d] = i => Balance(log, i, n) > 0
      BY <1>2 DEF StackOf
    <3>3. Balance(log, i, n) \in Int
      BY <2>2, BalanceShifts
    <3>6. Vaa!StillOpen(log, i, n + 1) <=> Vaa!StillOpen(log, i, n) /\ Balance(log, i, n) + 1 > 0
      BY <1>1, <2>2, OpenNext
    <3>4. Vaa!StillOpen(log, i, n + 1) <=> Vaa!StillOpen(log, i, n)
      <4>1. Vaa!StillOpen(log, i, n) => Balance(log, i, n) > 0
        BY <3>1, <3>2
      <4>2. Balance(log, i, n) > 0 => Balance(log, i, n) + 1 > 0
        BY <3>3
      <4> QED
        BY <3>6, <4>1, <4>2
    <3>5. (\E d \in DOMAIN stack : opened[d] = i) <=> \E d \in DOMAIN more : pushed[d] = i
      <4>1. DOMAIN more = DOMAIN stack \cup {Len(stack) + 1}
        BY <1>2, <1>3
      <4>2. pushed[Len(stack) + 1] # i
        BY <1>4, <2>2
      <4>3. \A d \in DOMAIN stack : pushed[d] = opened[d]
        BY <1>4
      <4> QED
        BY <4>1, <4>2, <4>3
    <3> QED
      BY <3>1, <3>4, <3>5
  <2> QED
    BY <2>1, <2>2
<1> QED
  BY <1>3, <1>4, <1>5, <1>6 DEF StackOf, more

LEMMA StackPopped ==
    ASSUME NEW log, NEW n \in Nat, NEW stack, NEW opened, StackOf(log, n, stack, opened),
           Vaa!Happened(log[n + 1]) = "end"
    PROVE  \E left : StackOf(log, n + 1, IF stack = <<>> THEN stack ELSE Vaa!Front(stack), left)
<1> DEFINE less == IF stack = <<>> THEN stack ELSE Vaa!Front(stack)
           left == [d \in DOMAIN less |-> opened[d]]
           size == IF stack = <<>> THEN 0 ELSE Len(stack) - 1
<1>1. Shift(log[n + 1]) = -1
  BY DEF Shift
<1>2. /\ stack \in Seq(Programs) /\ opened \in [DOMAIN stack -> 1..n]
      /\ Len(stack) \in Nat /\ DOMAIN stack = 1..Len(stack) /\ (stack = <<>> <=> Len(stack) = 0)
  BY DEF StackOf
<1>3. /\ less \in Seq(Programs) /\ Len(less) = size /\ DOMAIN less = 1..size
      /\ size \in Nat /\ 1..size \subseteq DOMAIN stack
      /\ \A d \in 1..size : less[d] = stack[d]
  BY <1>2 DEF Vaa!Front
<1>4. \A d \in DOMAIN stack : d \in 1..size <=> Len(stack) - d > 0
  BY <1>2
<1>5. ASSUME NEW d \in DOMAIN stack
      PROVE  /\ stack[d] = log[opened[d]].program
             /\ Balance(log, opened[d], n) = Len(stack) - d + 1
             /\ Balance(log, opened[d], n + 1) = Len(stack) - d
  <2>1. opened[d] \in Nat /\ opened[d] <= n + 1
    BY <1>2
  <2>2. stack[d] = log[opened[d]].program /\ Balance(log, opened[d], n) = Len(stack) - d + 1
    BY DEF StackOf
  <2>3. Balance(log, opened[d], n + 1) = Balance(log, opened[d], n) - 1
    BY <1>1, <2>1, BalanceShifts
  <2> QED
    BY <1>2, <2>2, <2>3
<1> HIDE DEF less
<1>6. \A d \in DOMAIN less : d \in DOMAIN stack /\ less[d] = stack[d] /\ left[d] = opened[d]
  BY <1>3
<1>7. left \in [DOMAIN less -> 1..(n + 1)]
  BY <1>2, <1>6
<1> HIDE DEF left
<1>8. ASSUME NEW d \in DOMAIN less
      PROVE  less[d] = log[left[d]].program /\ Balance(log, left[d], n + 1) = Len(less) - d + 1
  <2>1. stack # <<>>
    BY <1>3
  <2>2. size = Len(stack) - 1
    BY <2>1
  <2> HIDE DEF size
  <2>4. d \in DOMAIN stack /\ less[d] = stack[d] /\ left[d] = opened[d]
    BY <1>6
  <2>3. /\ d \in DOMAIN stack /\ d \in Nat /\ less[d] = stack[d] /\ left[d] = opened[d]
        /\ Len(less) = Len(stack) - 1
    BY <1>2, <1>3, <2>2, <2>4
  <2> QED
    BY <1>2, <1>5, <2>3
<1>9. ASSUME NEW i \in 1..(n + 1)
      PROVE  Vaa!StillOpen(log, i, n + 1) <=> \E d \in DOMAIN less : left[d] = i
  <2>1. CASE i = n + 1
    BY <1>2, <1>6, <2>1, OpenNext
  <2>2. CASE i \in 1..n
    <3>1. Vaa!StillOpen(log, i, n) <=> \E d \in DOMAIN stack : opened[d] = i
      BY <2>2 DEF StackOf
    <3>2. Balance(log, i, n) \in Int
      BY <2>2, BalanceShifts
    <3>3. Vaa!StillOpen(log, i, n + 1) <=> Vaa!StillOpen(log, i, n) /\ Balance(log, i, n) > 1
      BY <1>1, <2>2, <3>2, OpenNext
    <3>4. \A d \in DOMAIN stack : opened[d] = i => (d \in DOMAIN less <=> Balance(log, i, n) > 1)
      <4>1. ASSUME NEW d \in DOMAIN stack, opened[d] = i
            PROVE  d \in DOMAIN less <=> Balance(log, i, n) > 1
        <5>1. d \in DOMAIN less <=> Len(stack) - d > 0
          BY <1>3, <1>4
        <5>2. Balance(log, i, n) = Len(stack) - d + 1 /\ d \in Nat /\ Len(stack) \in Nat
          BY <1>2, <1>5, <4>1
        <5> QED
          BY <5>1, <5>2
      <4> QED
        BY <4>1
    <3> QED
      BY <1>6, <3>1, <3>3, <3>4
  <2> QED
    BY <2>1, <2>2
<1> QED
  BY <1>3, <1>7, <1>8, <1>9 DEF StackOf, less
-----------------------------------------------------------------------------
(* A plain line is what svm.rs takes it for. *)
PlainLine(line) ==
    /\ line.author \in {"core", "program"} => line.word = "other"
    /\ line.author = "program" => line.vaa = "none"

LEMMA KindOfPlain ==
    ASSUME NEW line \in Vaa!Events \cup Vaa!Lines, PlainLine(line)
    PROVE  /\ Vaa!Happened(line) \in {"message", "invoke", "end", "sequence", "other"}
           /\ line.author = "contract" <=> Vaa!Happened(line) = "message"
           /\ line.author # "contract" => Vaa!Kind(line) = Vaa!Happened(line)
           /\ Vaa!Happened(line) \in {"message", "sequence"} => line.vaa \in Vaas
           /\ Vaa!Happened(line) \in {"message", "invoke"} => line.program \in Programs
<1>1. CASE line \in Vaa!Events
  <2>1. line.author = "contract" /\ line.vaa \in Vaas /\ line.program \in Programs
    BY <1>1 DEF Vaa!Events
  <2> QED
    BY <2>1 DEF Vaa!Happened
<1>2. CASE line.author = "runtime"
  <2>1. line.vaa = "none" /\ line.word \in Vaa!Words /\ line.program \in Programs
    BY <1>2 DEF Vaa!Events, Vaa!Lines
  <2> QED
    BY <1>2, <2>1 DEF Vaa!Happened, Vaa!Kind, Vaa!Words
<1>3. CASE line.author \in {"core", "program"}
  <2>1. line.vaa \in Vaas \cup {"none"} /\ line.word = "other"
    BY <1>3 DEF Vaa!Events, Vaa!Lines, PlainLine
  <2> QED
    BY <1>3, <2>1 DEF Vaa!Happened, Vaa!Kind, PlainLine
<1> QED
  BY <1>1, <1>2, <1>3 DEF Vaa!Lines

(* The sequence of a line is ours if our program is on the stack. *)
LEMMA OursByStack ==
    ASSUME NEW log, NEW n \in Nat, NEW stack, NEW opened, StackOf(log, n + 1, stack, opened),
           Vaa!Happened(log[n + 1]) = "sequence"
    PROVE  Vaa!OursAt(log, n + 1) <=> Vaa!Contains(stack, Bridge)
<1>1. Vaa!OursAt(log, n + 1)
         <=> \E i \in 1..(n + 1) : Vaa!StillOpen(log, i, n + 1) /\ log[i].program = Bridge
  BY DEF Vaa!OursAt
<1>2. Vaa!Contains(stack, Bridge) <=> \E d \in DOMAIN stack : stack[d] = Bridge
  BY DEF StackOf, Vaa!Contains
<1>3. /\ opened \in [DOMAIN stack -> 1..(n + 1)]
      /\ \A d \in DOMAIN stack : stack[d] = log[opened[d]].program
      /\ \A i \in 1..(n + 1) :
            Vaa!StillOpen(log, i, n + 1) <=> \E d \in DOMAIN stack : opened[d] = i
  BY DEF StackOf
<1>4. ASSUME NEW d \in DOMAIN stack, stack[d] = Bridge
      PROVE  \E i \in 1..(n + 1) : Vaa!StillOpen(log, i, n + 1) /\ log[i].program = Bridge
  BY <1>3, <1>4
<1>5. ASSUME NEW i \in 1..(n + 1), Vaa!StillOpen(log, i, n + 1), log[i].program = Bridge
      PROVE  \E d \in DOMAIN stack : stack[d] = Bridge
  BY <1>3, <1>5
<1> QED
  BY <1>1, <1>2, <1>4, <1>5

LEMMA ReadOne ==
    ASSUME NEW log, NEW n \in Nat, log[n + 1] \in Vaa!Events \cup Vaa!Lines,
           PlainLine(log[n + 1]), NEW state, ReadUpTo(log, n, state)
    PROVE  ReadUpTo(log, n + 1, Vaa!Read(state, log[n + 1]))
<1> DEFINE line == log[n + 1]
           next == Vaa!Read(state, line)
           found == [state EXCEPT !.out = Append(@, line.vaa)]
<1>1. PICK opened : StackOf(log, n, state.stack, opened)
  BY DEF ReadUpTo
<1>2. state = [stack |-> state.stack, out |-> state.out] /\ state.out \in Seq(Vaas)
  BY DEF ReadUpTo
<1>3. /\ Vaa!Happened(line) \in {"message", "invoke", "end", "sequence", "other"}
      /\ line.author = "contract" <=> Vaa!Happened(line) = "message"
      /\ line.author # "contract" => Vaa!Kind(line) = Vaa!Happened(line)
      /\ Vaa!Happened(line) \in {"message", "sequence"} => line.vaa \in Vaas
      /\ Vaa!Happened(line) \in {"message", "invoke"} => line.program \in Programs
  BY KindOfPlain
<1> HIDE DEF line
<1>4. ASSUME line.vaa \in Vaas, Vaa!OursAt(log, n + 1),
             StackOf(log, n + 1, state.stack, opened)
      PROVE  ReadUpTo(log, n + 1, found)
  <2>1. /\ found.stack = state.stack /\ found.out = Append(state.out, line.vaa)
        /\ found = [stack |-> found.stack, out |-> found.out]
    <3> DEFINE stack == state.stack
               out == state.out
               both == [stack |-> stack, out |-> out]
    <3>1. state = both
      BY <1>2
    <3> HIDE DEF stack, out
    <3>2. found = [stack |-> stack, out |-> Append(out, line.vaa)]
      BY <3>1
    <3> QED
      BY <3>2 DEF stack, out
  <2>2. Vaa!InLogOrder(Append(state.out, line.vaa), log, OwnUpTo(log, n + 1))
    BY <1>2, <1>4, ListsOneMore DEF ReadUpTo, line
  <2>3. Append(state.out, line.vaa) \in Seq(Vaas)
    BY <1>2, <1>4
  <2> QED
    BY <1>4, <2>1, <2>2, <2>3 DEF ReadUpTo
<1>5. ASSUME NEW s, ~Vaa!OursAt(log, n + 1), s = [stack |-> s.stack, out |-> state.out],
             NEW o, StackOf(log, n + 1, s.stack, o)
      PROVE  ReadUpTo(log, n + 1, s)
  <2>1. s.out = state.out /\ OwnUpTo(log, n + 1) = OwnUpTo(log, n)
    BY <1>5, ListsNoMore
  <2> QED
    BY <1>2, <1>5, <2>1 DEF ReadUpTo
<1>6. CASE Vaa!Happened(line) = "message"
  <2>1. StackOf(log, n + 1, state.stack, opened)
    BY <1>1, <1>6, StackUnmoved DEF line
  <2>2. Vaa!OursAt(log, n + 1) <=> line.program = Bridge
    BY <1>6 DEF Vaa!OursAt, line
  <2>3. next = IF line.program = Bridge THEN found ELSE state
    BY <1>3, <1>6 DEF Vaa!Read, Vaa!ReadLog
  <2> QED
    BY <1>2, <1>3, <1>4, <1>5, <1>6, <2>1, <2>2, <2>3 DEF line
<1>7. CASE Vaa!Happened(line) = "sequence"
  <2>1. StackOf(log, n + 1, state.stack, opened)
    BY <1>1, <1>7, StackUnmoved DEF line
  <2>2. Vaa!OursAt(log, n + 1) <=> Vaa!Contains(state.stack, Bridge)
    BY <1>7, <2>1, OursByStack DEF line
  <2>3. next = IF Vaa!Contains(state.stack, Bridge) THEN found ELSE state
    BY <1>3, <1>7 DEF Vaa!Read, Vaa!ReadLine
  <2> QED
    BY <1>2, <1>3, <1>4, <1>5, <1>7, <2>1, <2>2, <2>3 DEF line
<1>8. CASE Vaa!Happened(line) = "other"
  <2>1. StackOf(log, n + 1, state.stack, opened) /\ ~Vaa!OursAt(log, n + 1)
    BY <1>1, <1>8, StackUnmoved DEF line, Vaa!OursAt
  <2>2. next = state
    BY <1>3, <1>8 DEF Vaa!Read, Vaa!ReadLine
  <2> QED
    BY <1>2, <1>5, <2>1, <2>2 DEF line
<1>9. CASE Vaa!Happened(line) = "invoke"
  <2>1. PICK pushed : StackOf(log, n + 1, Append(state.stack, line.program), pushed)
    BY <1>1, <1>3, <1>9, StackPushed DEF line
  <2>2. next = [stack |-> Append(state.stack, line.program), out |-> state.out]
    <3>1. next = [state EXCEPT !.stack = Append(@, line.program)]
      BY <1>3, <1>9 DEF Vaa!Read, Vaa!ReadLine
    <3> QED
      BY <1>2, <3>1
  <2>3. ~Vaa!OursAt(log, n + 1)
    BY <1>9 DEF line, Vaa!OursAt
  <2> QED
    BY <1>5, <2>1, <2>2, <2>3 DEF line
<1>10. CASE Vaa!Happened(line) = "end"
  <2> DEFINE rest == IF state.stack = <<>> THEN state.stack ELSE Vaa!Front(state.stack)
  <2>1. PICK left : StackOf(log, n + 1, rest, left)
    BY <1>1, <1>10, StackPopped DEF line
  <2>2. next = [stack |-> rest, out |-> state.out]
    <3>1. next = [state EXCEPT !.stack = rest]
      BY <1>3, <1>10 DEF Vaa!Read, Vaa!ReadLine
    <3> QED
      BY <1>2, <3>1
  <2>3. ~Vaa!OursAt(log, n + 1)
    BY <1>10 DEF line, Vaa!OursAt
  <2> HIDE DEF rest
  <2> QED
    BY <1>5, <2>1, <2>2, <2>3 DEF line
<1> QED
  BY <1>3, <1>6, <1>7, <1>8, <1>9, <1>10 DEF line

LEMMA ReadNone ==
    ASSUME NEW log PROVE ReadUpTo(log, 0, Vaa!Start)
<1>1. Vaa!Start.stack = <<>> /\ Vaa!Start.out = <<>> /\ OwnUpTo(log, 0) = {}
  BY DEF Vaa!Start, OwnUpTo
<1>2. /\ <<>> \in Seq(Programs) /\ <<>> \in Seq(Vaas) /\ DOMAIN <<>> = {} /\ <<>> \in [{} -> {}]
      /\ <<>> \in [{} -> 1..0]
  OBVIOUS
<1>3. Vaa!InLogOrder(<<>>, log, {})
  <2>1. Vaa!ToSet(<<>>) = {}
    BY <1>2 DEF Vaa!ToSet
  <2> QED
    BY <1>2, <2>1 DEF Vaa!InLogOrder
<1>4. StackOf(log, 0, <<>>, <<>>)
  BY <1>2 DEF StackOf
<1> QED
  BY <1>1, <1>2, <1>3, <1>4 DEF ReadUpTo, Vaa!Start

(* The parsers list our messages, each once, in the order of the log,      *)
(* whatever its length and however its calls are nested, provided that no  *)
(* program prints a line that passes for one of the runtime's or of the    *)
(* core program's, which svm.rs:57-92 could not tell apart; an end without *)
(* an invocation changes nothing.                                          *)
THEOREM ParsesTransactions ==
    ASSUME NEW log \in Seq(Vaa!Events) \cup Seq(Vaa!Lines), Vaa!Plain(log)
    PROVE  Vaa!Parse(log) \in Seq(Vaas) /\ Vaa!InLogOrder(Vaa!Parse(log), log, Vaa!Own(log))
<1> DEFINE L == Len(log)
<1>1. /\ log \in Seq(Vaa!Events \cup Vaa!Lines) /\ L \in Nat /\ DOMAIN log = 1..L
      /\ \A n \in 1..L : log[n] \in Vaa!Events \cup Vaa!Lines
  OBVIOUS
<1>7. \A n \in 1..L : PlainLine(log[n])
  BY <1>1 DEF Vaa!Plain, PlainLine
<1>2. PICK state : Loop(log, state) /\ Vaa!Parse(log) = state[L].out
  BY <1>1, ParseIsALoop
<1> DEFINE Good == {n \in 0..L : ReadUpTo(log, n, state[n])}
<1>3. 0 \in Good
  BY <1>1, <1>2, ReadNone DEF Loop
<1>4. ASSUME NEW n \in 1..L, n - 1 \in Good PROVE n \in Good
  <2>1. n - 1 \in Nat /\ (n - 1) + 1 = n /\ n \in 0..L
    BY <1>1
  <2>2. /\ ReadUpTo(log, n - 1, state[n - 1]) /\ PlainLine(log[(n - 1) + 1])
        /\ log[(n - 1) + 1] \in Vaa!Events \cup Vaa!Lines
    BY <1>1, <1>4, <1>7, <2>1
  <2>3. ReadUpTo(log, (n - 1) + 1, Vaa!Read(state[n - 1], log[(n - 1) + 1]))
    BY <2>1, <2>2, ReadOne
  <2>4. state[n] = Vaa!Read(state[n - 1], log[n])
    BY <1>2 DEF Loop
  <2> QED
    BY <2>1, <2>3, <2>4
<1>5. L \in Good
  <2> HIDE DEF Good, L
  <2>1. 0..L \subseteq Good
    BY <1>1, <1>3, <1>4, UpTo
  <2> QED
    BY <1>1, <2>1
<1>6. OwnUpTo(log, L) = Vaa!Own(log)
  BY <1>1 DEF OwnUpTo, Vaa!Own
<1> QED
  BY <1>2, <1>5, <1>6 DEF ReadUpTo

(* What a transaction resolves to are its messages of ours. *)
LEMMA ResolvesOwn ==
    ASSUME Vaa!VaaOK, NEW t \in Txs
    PROVE  /\ Vaa!Resolution(t) \in Seq(Vaas)
           /\ Vaa!ToSet(Vaa!Resolution(t)) = Vaa!OwnMessages[t]
<1> DEFINE log == Log[t]
           out == Vaa!Parse(log)
           own == Vaa!Own(log)
<1>1. log \in Seq(Vaa!Events) \cup Seq(Vaa!Lines) /\ Vaa!Plain(log)
  BY DEF Vaa!VaaOK
<1>2. out \in Seq(Vaas) /\ Vaa!InLogOrder(out, log, own)
  BY <1>1, ParsesTransactions
<1> HIDE DEF log
<1>3. PICK at \in [DOMAIN out -> own] :
         Vaa!ToSet(at) = own /\ \A n \in DOMAIN out : out[n] = log[at[n]].vaa
  BY <1>2 DEF Vaa!InLogOrder
<1>4. Vaa!ToSet(out) = {log[i].vaa : i \in own}
  BY <1>3 DEF Vaa!ToSet
<1> QED
  BY <1>2, <1>4 DEF Vaa!Resolution, Vaa!OwnMessages, Vaa!MessagesAt, log
-----------------------------------------------------------------------------
(* An order of a set that is not empty. *)
LEMMA OrderOf ==
    ASSUME NEW S, IsFiniteSet(S), S # {}, NEW q \in Vaa!SetToSeqs(S)
    PROVE  q \in Seq(S) /\ q # <<>> /\ Vaa!ToSet(q) \subseteq S
<1>1. Vaa!Cardinality(S) \in Nat /\ Vaa!Cardinality(S) # 0
  BY SameCardinality, FS_CardinalityType, FS_EmptySet
<1>2. q \in [1..Vaa!Cardinality(S) -> S]
  BY DEF Vaa!SetToSeqs
<1> QED
  BY <1>1, <1>2 DEF Vaa!ToSet

(* A sequence has its head and what follows; one of the head alone ends. *)
LEMMA HeadAndTail ==
    ASSUME NEW S, NEW q \in Seq(S), q # <<>>
    PROVE  /\ Head(q) \in S /\ Tail(q) \in Seq(S) /\ Len(q) \in Nat
           /\ Head(q) \in Vaa!ToSet(q)
           /\ Vaa!ToSet(q) = {Head(q)} \cup Vaa!ToSet(Tail(q))
           /\ Len(q) # 1 => Tail(q) # <<>>
           /\ Len(q) = 1 => Tail(q) = <<>>
<1>1. /\ Len(q) \in Nat \ {0} /\ DOMAIN q = 1..Len(q) /\ Head(q) = q[1]
      /\ Head(q) \in S /\ Tail(q) \in Seq(S) /\ Len(Tail(q)) = Len(q) - 1
      /\ DOMAIN Tail(q) = 1..(Len(q) - 1)
      /\ \A i \in 1..(Len(q) - 1) : Tail(q)[i] = q[i + 1]
  BY LenProperties, EmptySeq, HeadTailProperties, ElementOfSeq
<1>2. ASSUME NEW x \in Vaa!ToSet(q) PROVE x \in {Head(q)} \cup Vaa!ToSet(Tail(q))
  <2>1. PICK i \in 1..Len(q) : x = q[i]
    BY <1>1 DEF Vaa!ToSet
  <2>2. CASE i = 1
    BY <1>1, <2>1, <2>2
  <2>3. CASE i # 1
    <3>1. i - 1 \in 1..(Len(q) - 1) /\ (i - 1) + 1 = i
      BY <1>1, <2>3
    <3>2. x = Tail(q)[i - 1]
      BY <1>1, <2>1, <3>1
    <3> QED
      BY <1>1, <3>1, <3>2 DEF Vaa!ToSet
  <2> QED
    BY <2>2, <2>3
<1>3. ASSUME NEW x \in Vaa!ToSet(Tail(q)) PROVE x \in Vaa!ToSet(q)
  <2>1. PICK i \in 1..(Len(q) - 1) : x = q[i + 1]
    BY <1>1, <1>3 DEF Vaa!ToSet
  <2>2. i + 1 \in 1..Len(q)
    BY <1>1
  <2> QED
    BY <1>1, <2>1, <2>2 DEF Vaa!ToSet
<1>4. Head(q) \in Vaa!ToSet(q)
  BY <1>1 DEF Vaa!ToSet
<1>5. Tail(q) = <<>> <=> Len(q) = 1
  <2>1. Tail(q) = <<>> <=> Len(Tail(q)) = 0
    BY <1>1, EmptySeq
  <2> QED
    BY <1>1, <2>1
<1>6. Vaa!ToSet(q) = {Head(q)} \cup Vaa!ToSet(Tail(q))
  BY <1>2, <1>3, <1>4
<1> QED
  BY <1>1, <1>4, <1>5, <1>6

(* The empty sequence, and one of a single element. *)
LEMMA FewInSequence ==
    /\ Vaa!ToSet(<<>>) = {}
    /\ \A S : <<>> \in Seq(S)
    /\ \A x : Vaa!ToSet(<<x>>) = {x}
    /\ \A S : \A x \in S : <<x>> \in Seq(S)
<1>1. \A x : DOMAIN <<x>> = {1} /\ <<x>>[1] = x
  OBVIOUS
<1>2. DOMAIN <<>> = {}
  OBVIOUS
<1> QED
  BY <1>1, <1>2 DEF Vaa!ToSet

(* What a request knows stays true as time goes by. *)
LEMMA ServingGrows ==
    ASSUME NEW q, NEW w, NEW v, NEW scanned, NEW s, NEW sig, NEW g,
           Serving(q, w, scanned, sig), w \subseteq v, scanned \subseteq s, sig \subseteq g
    PROVE  Serving(q, v, s, g)
BY DEF Serving, Resolving, AtHand, Covers

(* A request that is not in progress claims nothing. *)
LEMMA NotServing ==
    ASSUME NEW q \in VaaRequest, ~Vaa!InProgress(q), q.data = {}, NEW scanned, NEW sig
    PROVE  Serving(q, {}, scanned, sig)
BY DEF Serving, Resolving, AtHand, Covers, Vaa!InProgress, Vaa!Statuses

(* The history of a request, through a step that it takes or sits out. *)
LEMMA WitnessGrows ==
    ASSUME Vaa!Witnessed, NEW r \in Requests, neither[r] \subseteq Vaas
    PROVE  /\ neither'[r] \subseteq Vaas
           /\ ~Vaa!InProgress(req'[r]) => neither'[r] = {}
           /\ Vaa!InProgress(req'[r]) => Vaas \ (store' \cup Vaa!Scanned') \subseteq neither'[r]
           /\ Vaa!InProgress(req'[r]) /\ Vaa!InProgress(req[r]) => neither[r] \subseteq neither'[r]
BY DEF Vaa!Witnessed

(* A request that does not move. *)
LEMMA Unmoved ==
    ASSUME ServingInv, Vaa!Witnessed, NEW r \in Requests, req'[r] = req[r],
           signed \subseteq signed', indexed \subseteq indexed'
    PROVE  neither'[r] \subseteq Vaas /\ Serving(req[r], neither'[r], Vaa!Scanned', signed')
<1>0. neither[r] \subseteq Vaas /\ Serving(req[r], neither[r], Vaa!Scanned, signed)
  BY DEF ServingInv
<1>1. Vaa!Scanned \subseteq Vaa!Scanned'
  BY DEF Vaa!Scanned
<1>2. CASE Vaa!InProgress(req[r])
  BY <1>0, <1>1, <1>2, WitnessGrows, ServingGrows
<1>3. CASE ~Vaa!InProgress(req[r])
  <2>1. Serving(req[r], neither'[r], Vaa!Scanned', signed')
    BY <1>0, <1>3 DEF Serving, Resolving, AtHand, Covers, Vaa!InProgress, Vaa!Statuses
  <2> QED
    BY <1>0, <2>1, WitnessGrows
<1> QED
  BY <1>2, <1>3

(* Steps that move no request. *)
LEMMA NoneMoves ==
    ASSUME ServingInv, Vaa!Witnessed, req' = req,
           signed \subseteq signed', indexed \subseteq indexed'
    PROVE  ServingInv'
BY Unmoved DEF ServingInv

(* Steps that move one request, to q. *)
LEMMA OneMoves ==
    ASSUME ServingInv, Vaa!Witnessed, NEW r \in Requests, NEW q,
           req' = [req EXCEPT ![r] = q], UNCHANGED <<signed, indexed>>,
           Serving(q, neither'[r], Vaa!Scanned', signed')
    PROVE  ServingInv'
<1>1. DOMAIN req' = Requests /\ req'[r] = q
  BY DEF ServingInv
<1>2. ASSUME NEW s \in Requests
      PROVE  neither'[s] \subseteq Vaas /\ Serving(req'[s], neither'[s], Vaa!Scanned', signed')
  <2>1. CASE s = r
    BY <1>1, <2>1, WitnessGrows DEF ServingInv
  <2>2. CASE s # r
    <3>1. req'[s] = req[s]
      BY <2>2 DEF ServingInv
    <3> QED
      BY <3>1, Unmoved
  <2> QED
    BY <2>1, <2>2
<1> QED
  BY <1>1, <1>2 DEF ServingInv

(* What holds of a request that is served. *)
LEMMA ServedRequest ==
    ASSUME ServingInv, NEW r \in Requests
    PROVE  /\ Serving(req[r], neither[r], Vaa!Scanned, signed)
           /\ req[r] \in VaaRequest /\ req[r].data \subseteq signed /\ neither[r] \subseteq Vaas
           /\ Vaa!ToSet(req[r].todo) \subseteq Vaas
BY DEF ServingInv, Serving, VaaRequest, Vaa!ToSet

(* A request ends, or its client goes away. *)
LEMMA Rests ==
    ASSUME ServingInv, Vaa!Witnessed, NEW r \in Requests, NEW q \in VaaRequest,
           ~Vaa!InProgress(q), q.data = {}, req' = [req EXCEPT ![r] = q],
           UNCHANGED <<signed, indexed>>
    PROVE  ServingInv'
<1>1. req'[r] = q
  BY DEF ServingInv
<1>2. neither'[r] = {}
  BY <1>1, ServedRequest, WitnessGrows
<1>3. Serving(q, neither'[r], Vaa!Scanned', signed')
  BY <1>2, NotServing
<1> QED
  BY <1>3, OneMoves

(* A request goes on, with a longer history. *)
LEMMA Proceeds ==
    ASSUME ServingInv, Vaa!Witnessed, NEW r \in Requests, NEW q, Vaa!InProgress(q),
           req' = [req EXCEPT ![r] = q], UNCHANGED <<signed, indexed>>,
           \A w : /\ Vaa!InProgress(req[r]) => neither[r] \subseteq w
                  /\ w \subseteq Vaas /\ Vaas \ (store' \cup Vaa!Scanned) \subseteq w
                  => Serving(q, w, Vaa!Scanned, signed)
    PROVE  ServingInv'
<1>1. req'[r] = q /\ Vaa!Scanned' = Vaa!Scanned
  BY DEF ServingInv, Vaa!Scanned
<1>2. Serving(q, neither'[r], Vaa!Scanned', signed')
  BY <1>1, ServedRequest, WitnessGrows
<1> QED
  BY <1>2, OneMoves

(* An answer ends the request. *)
LEMMA AnswerEnds ==
    ASSUME ServingInv, Vaa!Witnessed, NEW r \in Requests, NEW status \in Vaa!Statuses,
           Vaa!Answer(r, status), UNCHANGED <<signed, indexed>>
    PROVE  ServingInv'
<1> DEFINE q == [Vaa!Idle EXCEPT !.stage = status, !.target = req[r].target]
<1>1. req[r].target \in {"none"} \cup Asked
  BY ServedRequest DEF VaaRequest
<1>2. q \in VaaRequest /\ q.data = {} /\ ~Vaa!InProgress(q)
  BY <1>1, FewInSequence DEF VaaRequest, Vaa!Idle, Vaa!InProgress
<1>3. req' = [req EXCEPT ![r] = q]
  BY DEF Vaa!Answer
<1> HIDE DEF q
<1> QED
  BY <1>2, <1>3, Rests
-----------------------------------------------------------------------------
(* Each step of a request. *)
LEMMA AskStep ==
    ASSUME Vaa!VaaOK, ServingInv, Vaa!Witnessed, NEW r \in Requests, NEW target \in Asked,
           Vaa!Ask(r, target)
    PROVE  ServingInv'
<1> DEFINE q == [Vaa!Idle EXCEPT !.target = target,
                  !.todo = IF target \in Vaas THEN <<target>> ELSE <<>>,
                  !.stage = IF target \in Vaas THEN "store" ELSE IF target \in Txs THEN "txres" ELSE "404"]
<1>1. req' = [req EXCEPT ![r] = q] /\ UNCHANGED <<signed, indexed, store>>
  BY DEF Vaa!Ask, Vaa!sources
<1>2. q \in VaaRequest /\ q.data = {} /\ q.resolved /\ q.target = target
  BY FewInSequence DEF VaaRequest, Vaa!Idle, Vaa!Stages, Vaa!Statuses
<1>3. CASE target \in Vaas
  <2>1. q.stage = "store" /\ q.todo = <<target>>
    BY <1>3 DEF Vaa!Idle
  <2> HIDE DEF q
  <2>2. ASSUME NEW w PROVE Serving(q, w, Vaa!Scanned, signed)
    BY <1>2, <1>3, <2>1, FewInSequence DEF Serving, Resolving, AtHand, Covers, Vaa!Wanted
  <2> QED
    BY <1>1, <2>1, <2>2, Proceeds DEF Vaa!InProgress, Vaa!Statuses
<1>4. CASE target \in Txs /\ target \notin Vaas
  <2>1. q.stage = "txres"
    BY <1>4 DEF Vaa!Idle
  <2> HIDE DEF q
  <2>2. ASSUME NEW w PROVE Serving(q, w, Vaa!Scanned, signed)
    BY <1>2, <1>4, <2>1 DEF Serving, Resolving, AtHand, Covers
  <2> QED
    BY <1>1, <2>1, <2>2, Proceeds DEF Vaa!InProgress, Vaa!Statuses
<1>5. CASE target \notin Vaas \cup Txs
  <2>1. q.stage = "404"
    BY <1>5 DEF Vaa!Idle
  <2> HIDE DEF q
  <2> QED
    BY <1>1, <1>2, <2>1, Rests DEF Vaa!InProgress, Vaa!Statuses
<1> QED
  BY <1>3, <1>4, <1>5

LEMMA ReadResolutionStep ==
    ASSUME Vaa!VaaOK, ServingInv, Vaa!Witnessed, NEW r \in Requests,
           Vaa!ReadResolution(r)
    PROVE  ServingInv'
<1> DEFINE q == req[r]
<1>0. /\ q \in VaaRequest /\ Serving(q, neither[r], Vaa!Scanned, signed)
      /\ q.stage = "txres" /\ q.target \in Txs /\ q.data = {} /\ q.resolved
      /\ UNCHANGED <<signed, indexed, store>> /\ DOMAIN req = Requests
  BY ServedRequest DEF Vaa!ReadResolution, Vaa!At, Vaa!sources, Serving, Resolving, ServingInv
<1>1. CASE req' = [req EXCEPT ![r].stage = "store", ![r].todo = Vaa!Resolution(req[r].target)]
  <2> DEFINE p == [q EXCEPT !.stage = "store", !.todo = Vaa!Resolution(q.target)]
  <2>1. req' = [req EXCEPT ![r] = p]
    BY <1>0, <1>1 DEF VaaRequest
  <2>2. /\ Vaa!Resolution(q.target) \in Seq(Vaas)
        /\ Vaa!ToSet(Vaa!Resolution(q.target)) = Vaa!OwnMessages[q.target] /\ q.target \notin Vaas
    BY <1>0, ResolvesOwn DEF Vaa!VaaOK
  <2>3. /\ p \in VaaRequest /\ p.stage = "store" /\ p.todo = Vaa!Resolution(q.target)
        /\ p.target = q.target /\ p.data = {} /\ p.resolved
    BY <1>0, <2>2 DEF VaaRequest, Vaa!Stages
  <2> HIDE DEF p, q
  <2>4. ASSUME NEW w PROVE Serving(p, w, Vaa!Scanned, signed)
    BY <1>0, <2>2, <2>3 DEF Serving, Resolving, AtHand, Covers, Vaa!Wanted
  <2> QED
    BY <1>0, <2>1, <2>3, <2>4, Proceeds DEF Vaa!InProgress, Vaa!Statuses
<1>2. CASE Vaa!Goto(r, "resolve")
  <2> DEFINE p == [q EXCEPT !.stage = "resolve"]
  <2>1. req' = [req EXCEPT ![r] = p]
    BY <1>0, <1>2 DEF VaaRequest, Vaa!Goto
  <2>2. /\ p \in VaaRequest /\ p.stage = "resolve"
        /\ p.target = q.target /\ p.data = {} /\ p.resolved
    BY <1>0 DEF VaaRequest, Vaa!Stages
  <2> HIDE DEF p, q
  <2>3. ASSUME NEW w PROVE Serving(p, w, Vaa!Scanned, signed)
    BY <1>0, <2>2 DEF Serving, Resolving, AtHand, Covers
  <2> QED
    BY <1>0, <2>1, <2>2, <2>3, Proceeds DEF Vaa!InProgress, Vaa!Statuses
<1> QED
  BY <1>1, <1>2 DEF Vaa!ReadResolution

LEMMA ResolveStep ==
    ASSUME Vaa!VaaOK, ServingInv, Vaa!Witnessed, NEW r \in Requests,
           Vaa!Resolve(r)
    PROVE  ServingInv'
<1> DEFINE q == req[r]
<1>0. /\ q \in VaaRequest /\ Serving(q, neither[r], Vaa!Scanned, signed)
      /\ q.stage = "resolve" /\ q.target \in Txs /\ q.data = {} /\ q.resolved
      /\ UNCHANGED <<signed, indexed, store>> /\ DOMAIN req = Requests
  BY ServedRequest DEF Vaa!Resolve, Vaa!At, Vaa!sources, Serving, Resolving, ServingInv
<1>1. CASE req' = [req EXCEPT ![r].stage = "putres", ![r].todo = Vaa!Resolution(req[r].target)]
  <2> DEFINE p == [q EXCEPT !.stage = "putres", !.todo = Vaa!Resolution(q.target)]
  <2>1. req' = [req EXCEPT ![r] = p]
    BY <1>0, <1>1 DEF VaaRequest
  <2>2. /\ Vaa!Resolution(q.target) \in Seq(Vaas)
        /\ Vaa!ToSet(Vaa!Resolution(q.target)) = Vaa!OwnMessages[q.target]
    BY <1>0, ResolvesOwn
  <2>3. /\ p \in VaaRequest /\ p.stage = "putres" /\ p.todo = Vaa!Resolution(q.target)
        /\ p.target = q.target /\ p.data = {} /\ p.resolved
    BY <1>0, <2>2 DEF VaaRequest, Vaa!Stages
  <2> HIDE DEF p, q
  <2>4. ASSUME NEW w PROVE Serving(p, w, Vaa!Scanned, signed)
    BY <1>0, <2>2, <2>3 DEF Serving, Resolving, AtHand, Covers
  <2> QED
    BY <1>0, <2>1, <2>3, <2>4, Proceeds DEF Vaa!InProgress, Vaa!Statuses
<1>2. CASE Vaa!Answer(r, "5xx")
  BY <1>0, <1>2, AnswerEnds DEF Vaa!Statuses
<1>3. CASE req' = [req EXCEPT ![r].stage = "fill", ![r].resolved = FALSE]
  <2> DEFINE p == [q EXCEPT !.stage = "fill", !.resolved = FALSE]
  <2>1. req' = [req EXCEPT ![r] = p]
    BY <1>0, <1>3 DEF VaaRequest
  <2>2. /\ p \in VaaRequest /\ p.stage = "fill" /\ ~p.resolved
        /\ p.target = q.target /\ p.data = {}
    BY <1>0 DEF VaaRequest, Vaa!Stages
  <2> HIDE DEF p, q
  <2>3. ASSUME NEW w PROVE Serving(p, w, Vaa!Scanned, signed)
    BY <1>0, <2>2 DEF Serving, Resolving, AtHand, Covers
  <2> QED
    BY <1>0, <2>1, <2>2, <2>3, Proceeds DEF Vaa!InProgress, Vaa!Statuses
<1> QED
  BY <1>1, <1>2, <1>3 DEF Vaa!Resolve

LEMMA PutResolutionStep ==
    ASSUME Vaa!VaaOK, ServingInv, Vaa!Witnessed, NEW r \in Requests, Vaa!PutResolution(r)
    PROVE  ServingInv'
<1> DEFINE q == req[r]
           p == [q EXCEPT !.stage = "store"]
<1>1. /\ q \in VaaRequest /\ Serving(q, neither[r], Vaa!Scanned, signed)
      /\ q.stage = "putres" /\ UNCHANGED <<signed, indexed, store>> /\ DOMAIN req = Requests
  BY ServedRequest DEF Vaa!PutResolution, Vaa!At, Vaa!sources, ServingInv
<1>2. req' = [req EXCEPT ![r] = p]
  BY <1>1 DEF VaaRequest, Vaa!Goto, Vaa!PutResolution
<1>3. /\ p \in VaaRequest /\ p.stage = "store" /\ p.target = q.target /\ p.data = q.data
      /\ p.todo = q.todo /\ p.resolved = q.resolved
  BY <1>1 DEF VaaRequest, Vaa!Stages
<1> HIDE DEF p, q
<1>4. q.target \in Txs \ Vaas /\ q.data = {} /\ q.resolved /\ Vaa!ToSet(q.todo) = Vaa!OwnMessages[q.target]
  BY <1>1 DEF Serving, Resolving, Vaa!VaaOK
<1>5. ASSUME NEW w PROVE Serving(p, w, Vaa!Scanned, signed)
  BY <1>1, <1>3, <1>4 DEF Serving, Resolving, AtHand, Covers, Vaa!Wanted
<1> QED
  BY <1>1, <1>2, <1>3, <1>5, Proceeds DEF Vaa!InProgress, Vaa!Statuses

(* The next VAA of a request was found. *)
LEMMA FoundOne ==
    ASSUME NEW q \in VaaRequest, NEW w, NEW scanned, NEW sig, Serving(q, w, scanned, sig),
           q.stage \in {"store", "scan"}, q.todo # <<>>, Head(q.todo) \in sig,
           NEW p \in VaaRequest, p.stage \in {"store", "put"}, p.target = q.target,
           p.data = q.data \cup {Head(q.todo)}, p.resolved = q.resolved,
           p.todo = IF p.stage = "put" THEN q.todo ELSE Tail(q.todo)
    PROVE  Serving(p, w, scanned, sig)
<1>1. /\ Head(q.todo) \in Vaa!ToSet(q.todo)
      /\ Vaa!ToSet(q.todo) = {Head(q.todo)} \cup Vaa!ToSet(Tail(q.todo))
  BY HeadAndTail DEF VaaRequest
<1>2. p.data \cup Vaa!ToSet(p.todo) = q.data \cup Vaa!ToSet(q.todo)
  BY <1>1
<1>3. q.resolved /\ Covers(p, w)
  BY <1>2 DEF Serving, Resolving, Covers
<1>4. Resolving(p) /\ AtHand(p, w, scanned)
  BY <1>3 DEF Resolving, AtHand
<1> QED
  BY <1>3, <1>4 DEF Serving

(* The next VAA of a request is in neither source. *)
LEMMA MissedOne ==
    ASSUME NEW q \in VaaRequest, NEW w, NEW scanned, NEW sig, Serving(q, w, scanned, sig),
           q.stage = "scan", Head(q.todo) \notin scanned,
           NEW p \in VaaRequest, p.stage = "store", p.target = q.target,
           p.data = q.data, p.resolved = q.resolved, p.todo = Tail(q.todo)
    PROVE  Serving(p, w, scanned, sig)
<1>1. q.resolved /\ q.todo # <<>> /\ Head(q.todo) \in w
  BY DEF Serving, Resolving, AtHand
<1>2. Vaa!ToSet(q.todo) = {Head(q.todo)} \cup Vaa!ToSet(Tail(q.todo))
  BY <1>1, HeadAndTail DEF VaaRequest
<1>3. Covers(p, w)
  BY <1>1, <1>2 DEF Serving, Covers
<1>4. Resolving(p) /\ AtHand(p, w, scanned)
  BY <1>1 DEF Resolving, AtHand
<1> QED
  BY <1>3, <1>4 DEF Serving

LEMMA LookUpStep ==
    ASSUME VaaTyped, ServingInv, Vaa!Witnessed, NEW r \in Requests, Vaa!LookUp(r)
    PROVE  ServingInv'
<1> DEFINE q == req[r]
           v == Head(q.todo)
<1>1. /\ q \in VaaRequest /\ Serving(q, neither[r], Vaa!Scanned, signed)
      /\ q.stage = "store" /\ UNCHANGED <<signed, indexed, store>> /\ DOMAIN req = Requests
  BY ServedRequest DEF Vaa!LookUp, Vaa!At, Vaa!sources, ServingInv
<1>2. CASE q.todo = <<>> /\ Vaa!Goto(r, "finish")
  <2> DEFINE p == [q EXCEPT !.stage = "finish"]
  <2>1. req' = [req EXCEPT ![r] = p]
    BY <1>1, <1>2 DEF VaaRequest, Vaa!Goto
  <2>2. /\ p \in VaaRequest /\ p.stage = "finish" /\ p.target = q.target /\ p.data = q.data
        /\ p.todo = q.todo /\ p.resolved = q.resolved
    BY <1>1 DEF VaaRequest, Vaa!Stages
  <2> HIDE DEF p, q
  <2>3. Serving(p, neither[r], Vaa!Scanned, signed)
    BY <1>1, <1>2, <2>2 DEF Serving, Resolving, AtHand, Covers
  <2>4. Vaa!InProgress(q) /\ Vaa!InProgress(p)
    BY <1>1, <2>2 DEF Vaa!InProgress, Vaa!Statuses
  <2> QED
    BY <1>1, <2>1, <2>3, <2>4, ServingGrows, Proceeds DEF q
<1>3. CASE q.todo # <<>> /\ v \in store /\ req' = [req EXCEPT ![r] = Vaa!Advance(Vaa!Found(r, v))]
  <2> DEFINE p == Vaa!Advance(Vaa!Found(r, v))
  <2>1. v \in signed /\ v \in Vaas /\ Tail(q.todo) \in Seq(Vaas)
    BY <1>1, <1>3, HeadAndTail DEF VaaTyped, VaaRequest
  <2>2. /\ p \in VaaRequest /\ p.stage = "store" /\ p.target = q.target
        /\ p.data = q.data \cup {v} /\ p.todo = Tail(q.todo) /\ p.resolved = q.resolved
    BY <1>1, <2>1 DEF VaaRequest, Vaa!Stages, Vaa!Advance, Vaa!Found
  <2> HIDE DEF p, q
  <2>3. Serving(p, neither[r], Vaa!Scanned, signed)
    BY <1>1, <1>3, <2>1, <2>2, FoundOne
  <2>4. Vaa!InProgress(q) /\ Vaa!InProgress(p)
    BY <1>1, <2>2 DEF Vaa!InProgress, Vaa!Statuses
  <2> QED
    BY <1>1, <1>3, <2>3, <2>4, ServingGrows, Proceeds DEF p, q
<1>4. CASE q.todo # <<>> /\ v \notin store /\ Vaa!Goto(r, "scan")
  <2> DEFINE p == [q EXCEPT !.stage = "scan"]
  <2>1. req' = [req EXCEPT ![r] = p]
    BY <1>1, <1>4 DEF VaaRequest, Vaa!Goto
  <2>2. /\ p \in VaaRequest /\ p.stage = "scan" /\ p.target = q.target /\ p.data = q.data
        /\ p.todo = q.todo /\ p.resolved = q.resolved
    BY <1>1 DEF VaaRequest, Vaa!Stages
  <2>3. v \in Vaas \ store'
    BY <1>1, <1>4, HeadAndTail DEF VaaRequest
  <2>4. ASSUME NEW w, neither[r] \subseteq w, Vaas \ (store' \cup Vaa!Scanned) \subseteq w
        PROVE  Serving(p, w, Vaa!Scanned, signed)
    <3>1. Serving(q, w, Vaa!Scanned, signed)
      BY <1>1, <2>4, ServingGrows
    <3>2. v \in w \cup Vaa!Scanned
      BY <2>3, <2>4
    <3> HIDE DEF p, q
    <3> QED
      BY <1>1, <1>4, <2>2, <3>1, <3>2 DEF Serving, Resolving, AtHand, Covers
  <2>5. Vaa!InProgress(q) /\ Vaa!InProgress(p)
    BY <1>1, <2>2 DEF Vaa!InProgress, Vaa!Statuses
  <2> HIDE DEF p
  <2> QED
    BY <1>1, <2>1, <2>4, <2>5, Proceeds
<1>5. CASE Vaa!Answer(r, "5xx")
  BY <1>1, <1>5, AnswerEnds DEF Vaa!Statuses
<1> QED
  BY <1>2, <1>3, <1>4, <1>5 DEF Vaa!LookUp

LEMMA FallbackStep ==
    ASSUME VaaTyped, ServingInv, Vaa!Witnessed, NEW r \in Requests, Vaa!Fallback(r)
    PROVE  ServingInv'
<1> DEFINE q == req[r]
           v == Head(q.todo)
<1>1. /\ q \in VaaRequest /\ Serving(q, neither[r], Vaa!Scanned, signed)
      /\ q.stage = "scan" /\ UNCHANGED <<signed, indexed, store>> /\ DOMAIN req = Requests
  BY ServedRequest DEF Vaa!Fallback, Vaa!At, Vaa!sources, ServingInv
<1>2. q.todo # <<>> /\ v \in Vaas /\ Tail(q.todo) \in Seq(Vaas) /\ Vaa!InProgress(q)
  BY <1>1, HeadAndTail DEF VaaRequest, Serving, AtHand, Vaa!InProgress, Vaa!Statuses
<1>3. CASE v \in Vaa!Scanned /\ req' = [req EXCEPT ![r] = [Vaa!Found(r, v) EXCEPT !.stage = "put"]]
  <2> DEFINE p == [Vaa!Found(r, v) EXCEPT !.stage = "put"]
  <2>1. v \in signed
    BY <1>3 DEF VaaTyped, Vaa!Scanned
  <2>2. /\ p \in VaaRequest /\ p.stage = "put" /\ p.target = q.target
        /\ p.data = q.data \cup {v} /\ p.todo = q.todo /\ p.resolved = q.resolved
    BY <1>1, <1>2 DEF VaaRequest, Vaa!Stages, Vaa!Found
  <2> HIDE DEF p, q
  <2>3. Serving(p, neither[r], Vaa!Scanned, signed)
    BY <1>1, <1>2, <2>1, <2>2, FoundOne
  <2>4. Vaa!InProgress(p)
    BY <2>2 DEF Vaa!InProgress, Vaa!Statuses
  <2> QED
    BY <1>1, <1>2, <1>3, <2>3, <2>4, ServingGrows, Proceeds DEF p, q
<1>4. CASE v \notin Vaa!Scanned /\ req' = [req EXCEPT ![r] = Vaa!Advance(@)]
  <2> DEFINE p == Vaa!Advance(q)
  <2>1. req' = [req EXCEPT ![r] = p]
    BY <1>1, <1>4 DEF Vaa!Advance
  <2>2. /\ p \in VaaRequest /\ p.stage = "store" /\ p.target = q.target
        /\ p.data = q.data /\ p.todo = Tail(q.todo) /\ p.resolved = q.resolved
    BY <1>1, <1>2 DEF VaaRequest, Vaa!Stages, Vaa!Advance
  <2> HIDE DEF p, q
  <2>3. Serving(p, neither[r], Vaa!Scanned, signed)
    BY <1>1, <1>4, <2>2, MissedOne
  <2>4. Vaa!InProgress(p)
    BY <2>2 DEF Vaa!InProgress, Vaa!Statuses
  <2> QED
    BY <1>1, <1>2, <2>1, <2>3, <2>4, ServingGrows, Proceeds DEF q
<1>5. CASE Vaa!Answer(r, "5xx")
  BY <1>1, <1>5, AnswerEnds DEF Vaa!Statuses
<1> QED
  BY <1>3, <1>4, <1>5 DEF Vaa!Fallback, Vaa!ScanHas

LEMMA CacheStep ==
    ASSUME ServingInv, Vaa!Witnessed, NEW r \in Requests, Vaa!Cache(r)
    PROVE  ServingInv'
<1> DEFINE q == req[r]
           next == IF q.resolved THEN "store" ELSE IF Len(q.todo) = 1 THEN "finish" ELSE "put"
           p == [q EXCEPT !.todo = Tail(q.todo), !.stage = next]
<1>1. /\ q \in VaaRequest /\ Serving(q, neither[r], Vaa!Scanned, signed)
      /\ q.stage = "put" /\ UNCHANGED <<signed, indexed>> /\ DOMAIN req = Requests
  BY ServedRequest DEF Vaa!Cache, Vaa!At, Vaa!sources, ServingInv
<1>2. /\ q.todo # <<>> /\ Tail(q.todo) \in Seq(Vaas) /\ Head(q.todo) \in q.data
      /\ Vaa!ToSet(q.todo) = {Head(q.todo)} \cup Vaa!ToSet(Tail(q.todo))
      /\ Len(q.todo) # 1 => Tail(q.todo) # <<>>
      /\ Tail(q.todo) # <<>> => Head(Tail(q.todo)) \in Vaa!ToSet(Tail(q.todo))
  BY <1>1, HeadAndTail DEF VaaRequest, Serving, AtHand
<1>3. req' = [req EXCEPT ![r] = p]
  BY <1>1 DEF Vaa!Cache, VaaRequest
<1>4. /\ p \in VaaRequest /\ p.stage = next /\ p.target = q.target /\ p.data = q.data
      /\ p.todo = Tail(q.todo) /\ p.resolved = q.resolved
  BY <1>1, <1>2 DEF VaaRequest, Vaa!Stages
<1> HIDE DEF p, q
<1>5. next \in {"store", "finish", "put"}
  OBVIOUS
<1>6. Covers(p, neither[r])
  BY <1>1, <1>2, <1>4, <1>5 DEF Serving, Covers
<1>7. Resolving(p) /\ AtHand(p, neither[r], Vaa!Scanned)
  <2>1. CASE q.resolved
    BY <1>4, <2>1 DEF Resolving, AtHand
  <2>2. CASE ~q.resolved
    <3>1. Vaa!ToSet(q.todo) \subseteq q.data
      BY <1>1, <2>2 DEF Serving, Covers
    <3> QED
      BY <1>2, <1>4, <2>2, <3>1 DEF Resolving, AtHand
  <2> QED
    BY <2>1, <2>2
<1>8. Serving(p, neither[r], Vaa!Scanned, signed)
  BY <1>1, <1>4, <1>6, <1>7 DEF Serving
<1>9. Vaa!InProgress(q) /\ Vaa!InProgress(p)
  BY <1>1, <1>4, <1>5 DEF Vaa!InProgress, Vaa!Statuses
<1> QED
  BY <1>1, <1>3, <1>8, <1>9, ServingGrows, Proceeds DEF q

LEMMA FallbackByTxStep ==
    ASSUME Vaa!VaaOK, VaaTyped, ServingInv, Vaa!Witnessed, NEW r \in Requests,
           Vaa!FallbackByTx(r)
    PROVE  ServingInv'
<1> DEFINE q == req[r]
           hits == Vaa!ScanHits(q.target)
<1>1. /\ q \in VaaRequest /\ Serving(q, neither[r], Vaa!Scanned, signed)
      /\ q.stage = "fill" /\ q.target \in Txs /\ q.data = {} /\ ~q.resolved
      /\ UNCHANGED <<signed, indexed, store>> /\ DOMAIN req = Requests
  BY ServedRequest DEF Vaa!FallbackByTx, Vaa!At, Vaa!sources, Serving, Resolving, ServingInv
<1>2. hits \subseteq Vaa!Emitted[q.target] /\ hits \subseteq signed /\ signed \subseteq Vaas
  BY DEF Vaa!ScanHits, Vaa!Scanned, VaaTyped
<1>3. Vaa!InProgress(q)
  BY <1>1 DEF Vaa!InProgress, Vaa!Statuses
<1>4. ASSUME hits # {}, NEW vaas \in Vaa!SetToSeqs(hits),
             req' = [req EXCEPT ![r].stage = "put", ![r].todo = vaas, ![r].data = hits]
      PROVE  ServingInv'
  <2> DEFINE p == [q EXCEPT !.stage = "put", !.todo = vaas, !.data = hits]
  <2>1. IsFiniteSet(hits)
    <3>1. IsFiniteSet(Vaas)
      BY SameCardinality DEF Vaa!VaaOK
    <3> QED
      BY <1>2, <3>1, FS_Subset
  <2> HIDE DEF hits
  <2>2. vaas \in Seq(hits) /\ vaas # <<>> /\ Vaa!ToSet(vaas) \subseteq hits
    BY <1>4, <2>1, OrderOf
  <2>3. vaas \in Seq(Vaas) /\ Head(vaas) \in hits
    BY <1>2, <2>2, HeadAndTail
  <2>4. req' = [req EXCEPT ![r] = p]
    BY <1>1, <1>4 DEF VaaRequest
  <2>5. /\ p \in VaaRequest /\ p.stage = "put" /\ p.target = q.target /\ p.data = hits
        /\ p.todo = vaas /\ ~p.resolved
    BY <1>1, <1>2, <2>3 DEF VaaRequest, Vaa!Stages
  <2> HIDE DEF p, q
  <2>6. ASSUME NEW w PROVE Serving(p, w, Vaa!Scanned, signed)
    BY <1>1, <1>2, <2>2, <2>3, <2>5 DEF Serving, Resolving, AtHand, Covers
  <2>7. Vaa!InProgress(p)
    BY <2>5 DEF Vaa!InProgress, Vaa!Statuses
  <2> QED
    BY <1>1, <2>4, <2>6, <2>7, Proceeds
<1>5. CASE Vaa!Goto(r, "finish")
  <2> DEFINE p == [q EXCEPT !.stage = "finish"]
  <2>1. req' = [req EXCEPT ![r] = p]
    BY <1>1, <1>5 DEF VaaRequest, Vaa!Goto
  <2>2. /\ p \in VaaRequest /\ p.stage = "finish" /\ p.target = q.target /\ p.data = {}
        /\ p.todo = q.todo /\ ~p.resolved
    BY <1>1 DEF VaaRequest, Vaa!Stages
  <2> HIDE DEF p, q, hits
  <2>3. ASSUME NEW w PROVE Serving(p, w, Vaa!Scanned, signed)
    BY <1>1, <2>2 DEF Serving, Resolving, AtHand, Covers
  <2>4. Vaa!InProgress(p)
    BY <2>2 DEF Vaa!InProgress, Vaa!Statuses
  <2> QED
    BY <1>1, <2>1, <2>3, <2>4, Proceeds
<1>6. CASE Vaa!Answer(r, "5xx")
  BY <1>1, <1>6, AnswerEnds DEF Vaa!Statuses
<1> QED
  BY <1>4, <1>5, <1>6 DEF Vaa!FallbackByTx
-----------------------------------------------------------------------------
(* Every step keeps the types, and what is in redis and on its way signed. *)
LEMMA VaaTypeStep ==
    ASSUME Vaa!VaaOK, VaaInv, [Vaa!Next]_(Vaa!vars) PROVE VaaTyped'
<1> USE DEF Vaa!vars, Vaa!sources, Vaa!spyVars
<1>0. VaaTyped /\ ServingInv
  BY DEF VaaInv
<1>1. Vaa!Fault => faults' \in 0..MaxFaults
  BY <1>0 DEF Vaa!Fault, VaaTyped, Vaa!VaaOK
<1>2. CASE UNCHANGED <<signed, indexed, shown, store, txres, spy, connected, stream>>
           /\ (UNCHANGED faults \/ Vaa!Fault)
  BY <1>0, <1>1, <1>2 DEF VaaTyped
<1>3. ASSUME NEW r \in Requests, Vaa!Resolve(r) PROVE VaaTyped'
  BY <1>2, <1>3 DEF Vaa!Resolve
<1>4. ASSUME NEW r \in Requests,
             Vaa!ReadResolution(r) \/ Vaa!LookUp(r) \/ Vaa!Fallback(r) \/ Vaa!FallbackByTx(r)
             \/ Vaa!Finish(r) \/ Vaa!Abandon(r) \/ \E target \in Asked : Vaa!Ask(r, target)
      PROVE  VaaTyped'
  BY <1>2, <1>4 DEF Vaa!ReadResolution, Vaa!LookUp, Vaa!Fallback, Vaa!FallbackByTx,
     Vaa!Finish, Vaa!Abandon, Vaa!Ask
<1>5. ASSUME NEW r \in Requests, Vaa!PutResolution(r) PROVE VaaTyped'
  <2>1. req[r].target \in Txs
    BY <1>0, <1>5, ServedRequest DEF Vaa!PutResolution, Vaa!At, Serving, Resolving
  <2> QED
    BY <1>0, <1>1, <1>5, <2>1 DEF Vaa!PutResolution, Vaa!PutTxres, VaaTyped
<1>6. ASSUME NEW r \in Requests, Vaa!Cache(r) PROVE VaaTyped'
  <2>1. Head(req[r].todo) \in signed
    BY <1>0, <1>6, ServedRequest DEF Vaa!Cache, Vaa!At, Serving, AtHand
  <2> QED
    BY <1>0, <1>1, <1>6, <2>1 DEF Vaa!Cache, Vaa!PutVaa, VaaTyped
<1>7. CASE Vaa!Connect \/ Vaa!Subscribe
  BY <1>0, <1>7 DEF Vaa!Connect, Vaa!Subscribe, VaaTyped
<1>8. CASE Vaa!Ingest
  <2>1. /\ stream \in Seq([vaa: Ours, signed: BOOLEAN]) /\ stream # <<>>
        /\ stream' = Tail(stream)
    BY <1>0, <1>8 DEF Vaa!Ingest, VaaTyped
  <2>2. /\ stream' \in Seq([vaa: Ours, signed: BOOLEAN])
        /\ \A i \in DOMAIN stream' : i + 1 \in DOMAIN stream /\ stream'[i] = stream[i + 1]
        /\ Head(stream) = stream[1] /\ 1 \in DOMAIN stream
    BY <2>1, HeadTailProperties, LenProperties, EmptySeq
  <2>3. \A i \in DOMAIN stream' : stream'[i].signed => stream'[i].vaa \in signed
    BY <1>0, <2>2 DEF VaaTyped
  <2>4. Head(stream).signed => Head(stream).vaa \in signed
    BY <1>0, <2>2 DEF VaaTyped
  <2> QED
    BY <1>0, <1>1, <1>8, <2>2, <2>3, <2>4 DEF Vaa!Ingest, Vaa!PutVaa, VaaTyped
<1>9. CASE Vaa!Disconnect \/ Vaa!Restart
  <2>1. stream' = <<>>
    BY <1>9 DEF Vaa!Disconnect, Vaa!Restart
  <2>2. stream' \in Seq([vaa: Ours, signed: BOOLEAN]) /\ DOMAIN stream' = {}
    BY <2>1, FewInSequence
  <2> QED
    BY <1>0, <1>1, <1>9, <2>2 DEF Vaa!Disconnect, Vaa!Restart, VaaTyped
<1>10. CASE Vaa!Expire
  BY <1>0, <1>1, <1>10 DEF Vaa!Expire, VaaTyped
<1>11. ASSUME NEW v \in Ours, NEW s \in BOOLEAN, Vaa!Sent(v, s), s => v \in signed',
              signed \subseteq signed', Ours \subseteq Vaas
       PROVE  /\ stream' \in Seq([vaa: Ours, signed: BOOLEAN])
              /\ \A i \in DOMAIN stream' : stream'[i].signed => stream'[i].vaa \in signed'
  <2> DEFINE m == [vaa |-> v, signed |-> s]
  <2>1. stream' = Append(stream, m) /\ stream \in Seq([vaa: Ours, signed: BOOLEAN])
        /\ m \in [vaa: Ours, signed: BOOLEAN]
    BY <1>0, <1>11 DEF Vaa!Sent, VaaTyped
  <2>2. m.signed => m.vaa \in signed'
    BY <1>11
  <2> HIDE DEF m
  <2>3. /\ stream' \in Seq([vaa: Ours, signed: BOOLEAN])
        /\ \A i \in DOMAIN stream' :
              stream'[i] = m \/ (i \in DOMAIN stream /\ stream'[i] = stream[i])
    BY <2>1, AppendProperties, LenProperties
  <2> QED
    BY <1>0, <1>11, <2>2, <2>3 DEF VaaTyped
<1>12. ASSUME NEW v \in Vaas, Vaa!Sign(v) PROVE VaaTyped'
  <2>1. signed' = signed \cup {v} /\ UNCHANGED <<indexed, shown, store, txres, spy, connected, faults>>
    BY <1>12 DEF Vaa!Sign
  <2>2. CASE v \in Ours /\ Vaa!Sent(v, TRUE)
    BY <1>0, <1>11, <2>1, <2>2 DEF VaaTyped, Vaa!VaaOK
  <2>3. CASE UNCHANGED stream
    BY <1>0, <2>1, <2>3 DEF VaaTyped
  <2> QED
    BY <1>12, <2>2, <2>3 DEF Vaa!Sign
<1>13. ASSUME NEW v \in Vaas, Vaa!SendUnsigned(v) PROVE VaaTyped'
  <2>1. v \in Ours /\ Vaa!Sent(v, FALSE) /\ Ours \subseteq Vaas /\ UNCHANGED signed
    BY <1>13 DEF Vaa!SendUnsigned, Vaa!VaaOK
  <2> QED
    BY <1>0, <1>1, <1>11, <1>13, <2>1 DEF Vaa!SendUnsigned, VaaTyped
<1>14. ASSUME NEW v \in Vaas, Vaa!Index(v) PROVE VaaTyped'
  BY <1>0, <1>14 DEF Vaa!Index, VaaTyped
<1>15. ASSUME NEW t \in Txs, Vaa!Show(t) PROVE VaaTyped'
  BY <1>0, <1>15 DEF Vaa!Show, VaaTyped
<1>16. CASE UNCHANGED Vaa!vars
  BY <1>2, <1>16
<1> QED
  BY <1>3, <1>4, <1>5, <1>6, <1>7, <1>8, <1>9, <1>10, <1>12, <1>13, <1>14, <1>15, <1>16
     DEF Vaa!Next, Vaa!Serve, Vaa!SpyStep, Vaa!World

(* Every step keeps what requests claim. *)
LEMMA ServingStep ==
    ASSUME Vaa!VaaOK, VaaInv, [Vaa!Next]_(Vaa!vars) PROVE ServingInv'
<1> USE DEF Vaa!vars, Vaa!sources, Vaa!spyVars
<1>0. VaaTyped /\ ServingInv
  BY DEF VaaInv
<1>1. ASSUME NEW r \in Requests, Vaa!Serve(r) \/ Vaa!Abandon(r), Vaa!Witnessed PROVE ServingInv'
  <2>1. CASE Vaa!Finish(r)
    <3>1. PICK status \in Vaa!Statuses : Vaa!Answer(r, status) /\ UNCHANGED <<signed, indexed>>
      BY <2>1 DEF Vaa!Finish, Vaa!Statuses
    <3> QED
      BY <1>0, <1>1, <3>1, AnswerEnds
  <2>2. CASE Vaa!Abandon(r)
    <3>1. req' = [req EXCEPT ![r] = Vaa!Idle] /\ UNCHANGED <<signed, indexed>>
      BY <2>2 DEF Vaa!Abandon
    <3>2. Vaa!Idle \in VaaRequest /\ Vaa!Idle.data = {} /\ ~Vaa!InProgress(Vaa!Idle)
      BY FewInSequence DEF VaaRequest, Vaa!Idle, Vaa!InProgress, Vaa!Stages
    <3> QED
      BY <1>0, <1>1, <3>1, <3>2, Rests
  <2> QED
    BY <1>0, <1>1, <2>1, <2>2, ReadResolutionStep, ResolveStep, PutResolutionStep, LookUpStep,
       FallbackStep, CacheStep, FallbackByTxStep DEF Vaa!Serve
<1>2. ASSUME NEW r \in Requests, NEW target \in Asked, Vaa!Ask(r, target), Vaa!Witnessed
      PROVE  ServingInv'
  BY <1>0, <1>2, AskStep
<1>3. CASE Vaa!Restart /\ Vaa!Witnessed
  <2>1. Vaa!Idle \in VaaRequest /\ Vaa!Idle.data = {} /\ ~Vaa!InProgress(Vaa!Idle)
    BY FewInSequence DEF VaaRequest, Vaa!Idle, Vaa!InProgress, Vaa!Stages
  <2>2. DOMAIN req' = Requests /\ \A r \in Requests : req'[r] = Vaa!Idle
    BY <1>3 DEF Vaa!Restart
  <2>3. \A r \in Requests : neither'[r] = {}
    BY <1>3, <2>1, <2>2 DEF Vaa!Witnessed
  <2>4. Serving(Vaa!Idle, {}, Vaa!Scanned', signed')
    BY <2>1, NotServing
  <2> QED
    BY <2>2, <2>3, <2>4 DEF ServingInv
<1>4. CASE (Vaa!SpyStep \/ Vaa!Disconnect \/ Vaa!Expire) /\ Vaa!Witnessed
  <2>1. UNCHANGED <<req, signed, indexed>>
    BY <1>4 DEF Vaa!SpyStep, Vaa!Connect, Vaa!Subscribe, Vaa!Ingest, Vaa!Disconnect, Vaa!Expire
  <2> QED
    BY <1>0, <1>4, <2>1, NoneMoves
<1>5. ASSUME NEW v \in Vaas, Vaa!Sign(v) \/ Vaa!Index(v) \/ Vaa!SendUnsigned(v), Vaa!Witnessed
      PROVE  ServingInv'
  <2>1. req' = req /\ signed \subseteq signed' /\ indexed \subseteq indexed'
    BY <1>5 DEF Vaa!Sign, Vaa!Index, Vaa!SendUnsigned
  <2> QED
    BY <1>0, <1>5, <2>1, NoneMoves
<1>6. ASSUME NEW t \in Txs, Vaa!Show(t), Vaa!Witnessed PROVE ServingInv'
  <2>1. UNCHANGED <<req, signed, indexed>>
    BY <1>6 DEF Vaa!Show
  <2> QED
    BY <1>0, <1>6, <2>1, NoneMoves
<1>7. CASE UNCHANGED Vaa!vars
  BY <1>0, <1>7 DEF ServingInv, Vaa!Scanned
<1> QED
  BY <1>1, <1>2, <1>3, <1>4, <1>5, <1>6, <1>7 DEF Vaa!Next, Vaa!World

(* The inductive invariant, from which the results follow. *)
LEMMA VaaInvariant ==
    ASSUME Vaa!VaaOK
    PROVE  Vaa!Spec => []VaaInv
<1>1. Vaa!Init => VaaInv
  <2> SUFFICES ASSUME Vaa!Init PROVE VaaInv
    OBVIOUS
  <2>1. Vaa!Idle \in VaaRequest /\ Vaa!Idle.data = {} /\ ~Vaa!InProgress(Vaa!Idle)
    BY FewInSequence DEF VaaRequest, Vaa!Idle, Vaa!InProgress, Vaa!Stages
  <2>2. ServingInv
    <3>1. Serving(Vaa!Idle, {}, Vaa!Scanned, signed)
      BY <2>1, NotServing
    <3> QED
      BY <3>1 DEF ServingInv, Vaa!Init
  <2>3. stream \in Seq([vaa: Ours, signed: BOOLEAN]) /\ DOMAIN stream = {}
    BY FewInSequence DEF Vaa!Init
  <2>4. VaaTyped
    <3>1. faults \in 0..MaxFaults
      BY DEF Vaa!Init, Vaa!VaaOK
    <3> QED
      BY <2>3, <3>1 DEF Vaa!Init, VaaTyped
  <2> QED
    BY <2>2, <2>4 DEF VaaInv
<1>2. VaaInv /\ [Vaa!Next]_(Vaa!vars) => VaaInv'
  BY VaaTypeStep, ServingStep DEF VaaInv
<1> QED
  BY <1>1, <1>2, PTL DEF Vaa!Spec

(* Every reachable state of the VAA service is well typed; what is stored  *)
(* or served is signed. *)
THEOREM VaaTypeCorrect ==
    ASSUME Vaa!VaaOK
    PROVE  Vaa!Spec => []Vaa!TypeOK
<1>1. ASSUME VaaInv PROVE Vaa!TypeOK
  <2>1. \A r \in Requests : req[r].stage \in Vaa!Stages \cup Vaa!Statuses
    BY <1>1, ServedRequest DEF VaaInv, VaaRequest
  <2> QED
    BY <1>1, <2>1, ServedRequest DEF VaaInv, VaaTyped, Vaa!TypeOK
<1> QED
  BY <1>1, VaaInvariant, PTL

(* For any messages, transactions and failures, and with or without        *)
(* wormholescan: what an answer leaves out was available nowhere at one    *)
(* instant of the request. *)
THEOREM AnswersHaveNoGap ==
    ASSUME Vaa!VaaOK
    PROVE  Vaa!Spec => Vaa!NoSilentGap
<1> DEFINE Complete == \A r \in Requests :
              Vaa!At(r, "finish") /\ ~Vaa!InProgress(req'[r]) /\ req'[r].stage \in {"200", "404"}
                 => IF req[r].resolved
                    THEN /\ req[r].data \subseteq Vaa!Wanted(req[r].target)
                         /\ Vaa!Wanted(req[r].target) \ req[r].data \subseteq neither[r]
                    ELSE req[r].data \subseteq Vaa!Emitted[req[r].target]
<1>1. ASSUME VaaInv PROVE Complete
  <2> SUFFICES ASSUME NEW r \in Requests, Vaa!At(r, "finish")
               PROVE  IF req[r].resolved
                      THEN /\ req[r].data \subseteq Vaa!Wanted(req[r].target)
                           /\ Vaa!Wanted(req[r].target) \ req[r].data \subseteq neither[r]
                      ELSE req[r].data \subseteq Vaa!Emitted[req[r].target]
    OBVIOUS
  <2>1. req[r].stage = "finish" /\ Serving(req[r], neither[r], Vaa!Scanned, signed)
    BY <1>1, ServedRequest DEF VaaInv, Vaa!At
  <2>2. CASE req[r].resolved
    BY <2>1, <2>2, FewInSequence DEF Serving, AtHand, Covers
  <2>3. CASE ~req[r].resolved
    BY <2>1, <2>3 DEF Serving, Covers
  <2> QED
    BY <2>2, <2>3
<1>2. Vaa!NoSilentGap <=> [][Complete]_(Vaa!vars)
  BY DEF Vaa!NoSilentGap
<1> HIDE DEF Complete
<1> QED
  BY <1>1, <1>2, VaaInvariant, PTL
=============================================================================
