------------------------------ MODULE VaaApi ------------------------------
(***************************************************************************)
(* The VAA service: the spy's stream, the store, the resolver and the      *)
(* fallback (wormhole-vaa-api/src/api.rs, spy.rs, store.rs, resolver/,     *)
(* wormholescan.rs, vaa.rs).                                               *)
(*                                                                         *)
(* Guardians sign a message; the spy streams it to whoever is subscribed   *)
(* then, and wormholescan indexes it some time later.  The subscriber puts *)
(* the VAAs of our emitters in the store.  A request looks up its VAAs one *)
(* after the other, in the store first and in wormholescan next, and puts  *)
(* what it finds there in the store.  A request by transaction hash first  *)
(* asks the chains' nodes which messages the transaction emitted, and      *)
(* remembers the answer.                                                   *)
(*                                                                         *)
(* The back-off between reconnections, encodings and metrics are left out. *)
(* What programs print is taken to be Plain: see LogParsers.               *)
(***************************************************************************)
EXTENDS LogParsers

CONSTANTS Requests,    \* clients; each makes one request after the other
          Ours,        \* those whose emitter is in the subscription's filters
          Txs,         \* transactions
          Log,         \* Log[t]: what the node of t's chain logs of t
          Targets,     \* Targets[t]: chains configured for the shape of t's hash
          Home,        \* Home[t]: the chain that executed t
          Asked,       \* what clients ask for: messages, transactions, garbage
          HasFallback, \* whether a wormholescan url is configured
          MaxStream,   \* bound: VAAs on their way from the spy
          MaxFaults    \* bound: failures the environment injects

ASSUME VaaOK ==
    /\ Ours \subseteq Vaas /\ IsFiniteSet(Vaas) /\ HasFallback \in BOOLEAN
    /\ MaxStream \in Nat /\ MaxFaults \in Nat
    /\ Vaas \cap Txs = {}
    /\ \A t \in Txs : Log[t] \in Seq(Events) \cup Seq(Lines) /\ Plain(Log[t])

VARIABLES
    signed,    \* messages the guardians have signed
    indexed,   \* those that wormholescan has
    shown,     \* transactions that their chain's node shows
    store,     \* VAAs in redis
    txres,     \* transactions whose resolution is in redis
    spy,       \* the subscriber's connection
    connected, \* the flag that /healthz reads
    stream,    \* what the spy sent and the subscriber has yet to ingest
    req,       \* req[r]: r's current request
    neither,   \* neither[r]: VAAs that were in neither source at some instant of it
    faults     \* failures injected so far

sources == <<signed, indexed, shown>>
spyVars == <<spy, connected, stream>>
vars == <<sources, store, txres, spyVars, req, neither, faults>>

Idle == [stage |-> "idle", target |-> "none", todo |-> <<>>, data |-> {}, resolved |-> TRUE]
Stages == {"idle", "txres", "resolve", "putres", "store", "scan", "put", "fill", "finish", "answered"}
Statuses == {"200", "404", "5xx"}

Fault == faults < MaxFaults /\ faults' = faults + 1
-----------------------------------------------------------------------------
(* The parser of t's chain finds our messages in what its node returns.    *)
(* Wormholescan lists all messages of t.                                   *)
Resolution(t) == Parse(Log[t])
MessagesAt(log, lines) == {log[i].vaa : i \in lines}
OwnMessages == [t \in Txs |-> MessagesAt(Log[t], Own(Log[t]))]
Emitted ==
    [t \in Txs |->
        MessagesAt(Log[t], {i \in DOMAIN Log[t] : Happened(Log[t][i]) \in {"message", "sequence"}})]

(* rpc: the probe of t's own chain, unless it is among those that fail. *)
Shows(t, failed) == Home[t] \in Targets[t] \ failed /\ t \in shown

(* The two calls to wormholescan; a 404 and an empty list are misses. *)
Scanned == IF HasFallback THEN indexed ELSE {}
ScanHas(v) == v \in Scanned
ScanHits(t) == Scanned \cap Emitted[t]

(* put_vaa and put_txres: an entry of redis, for as long as it lives. *)
PutVaa(v) == store' = store \cup {v}
PutTxres(t) == txres' = txres \cup {t}
-----------------------------------------------------------------------------
Init ==
    /\ signed = {} /\ indexed = {} /\ shown = {} /\ store = {} /\ txres = {}
    /\ spy = "down" /\ connected = FALSE /\ stream = <<>>
    /\ req = [r \in Requests |-> Idle] /\ neither = [r \in Requests |-> {}]
    /\ faults = 0

At(r, stage) == req[r].stage = stage
(* /healthz: the flag; redis answers the ping but for a fault. *)
Healthy == connected
InProgress(q) == q.stage \notin {"idle"} \cup Statuses
Goto(r, stage) == req' = [req EXCEPT ![r].stage = stage]
Answer(r, status) == req' = [req EXCEPT ![r] = [Idle EXCEPT !.stage = status, !.target = req[r].target]]

(* get_vaa, get_vaa_by_tx: what cannot be parsed is not found. *)
Ask(r, target) ==
    /\ ~InProgress(req[r])
    /\ req' = [req EXCEPT ![r] = [Idle EXCEPT !.target = target,
                  !.todo = IF target \in Vaas THEN <<target>> ELSE <<>>,
                  !.stage = IF target \in Vaas THEN "store" ELSE IF target \in Txs THEN "txres" ELSE "404"]]
    /\ UNCHANGED <<sources, store, txres, spyVars, faults>>

(* resolve_with_cache: redis' failure to answer is taken for a miss. *)
ReadResolution(r) ==
    /\ At(r, "txres")
    /\ \/ /\ req[r].target \in txres /\ UNCHANGED faults
          /\ req' = [req EXCEPT ![r].stage = "store", ![r].todo = Resolution(req[r].target)]
       \/ req[r].target \notin txres /\ UNCHANGED faults /\ Goto(r, "resolve")
       \/ Fault /\ Goto(r, "resolve")
    /\ UNCHANGED <<sources, store, txres, spyVars>>

(* resolve: all candidate chains are asked.  The first match wins; without *)
(* one a failed probe makes the result unknown.                            *)
Resolve(r) ==
    /\ At(r, "resolve")
    /\ \E failed \in SUBSET Targets[req[r].target] :
          LET t == req[r].target
              match == Shows(t, failed) /\ Resolution(t) # <<>>
          IN  /\ IF failed = {} THEN UNCHANGED faults ELSE Fault
              /\ \/ match /\ req' = [req EXCEPT ![r].stage = "putres", ![r].todo = Resolution(t)]
                 \/ ~match /\ failed # {} /\ Answer(r, "5xx")
                 \/ ~match /\ failed = {} /\ req' = [req EXCEPT ![r].stage = "fill", ![r].resolved = FALSE]
    /\ UNCHANGED <<sources, store, txres, spyVars>>

PutResolution(r) ==
    /\ At(r, "putres") /\ Goto(r, "store")
    /\ \/ PutTxres(req[r].target) /\ UNCHANGED faults
       \/ Fault /\ UNCHANGED txres
    /\ UNCHANGED <<sources, store, spyVars>>

Found(r, v) == [req[r] EXCEPT !.data = @ \cup {v}]
Advance(q) == [q EXCEPT !.todo = Tail(@), !.stage = "store"]

LookUpMissIsError(r) ==
    /\ At(r, "store")
    /\ IF req[r].todo = <<>> THEN Goto(r, "finish")
       ELSE IF Head(req[r].todo) \in store THEN req' = [req EXCEPT ![r] = Advance(Found(r, Head(req[r].todo)))]
       ELSE Answer(r, "5xx")
    /\ UNCHANGED <<sources, store, txres, spyVars, faults>>

(* Store::get_vaa *)
LookUp(r) ==
    /\ At(r, "store")
    /\ \/ req[r].todo = <<>> /\ Goto(r, "finish") /\ UNCHANGED faults
       \/ /\ req[r].todo # <<>> /\ UNCHANGED faults
          /\ LET v == Head(req[r].todo)
             IN  IF v \in store THEN req' = [req EXCEPT ![r] = Advance(Found(r, v))]
                                ELSE Goto(r, "scan")
       \/ req[r].todo # <<>> /\ Fault /\ Answer(r, "5xx")
    /\ UNCHANGED <<sources, store, txres, spyVars>>

FallbackErrorIsMiss(r) ==
    /\ At(r, "scan")
    /\ LET v == Head(req[r].todo)
       IN  \/ /\ ScanHas(v) /\ UNCHANGED faults
              /\ req' = [req EXCEPT ![r] = [Found(r, v) EXCEPT !.stage = "put"]]
           \/ /\ ~ScanHas(v) /\ UNCHANGED faults
              /\ req' = [req EXCEPT ![r] = Advance(@)]
           \/ HasFallback /\ Fault /\ req' = [req EXCEPT ![r] = Advance(@)]
    /\ UNCHANGED <<sources, store, txres, spyVars>>

(* fallback_get_vaa: wormholescan's error is not a miss. *)
Fallback(r) ==
    /\ At(r, "scan")
    /\ LET v == Head(req[r].todo)
       IN  \/ /\ ScanHas(v) /\ UNCHANGED faults
              /\ req' = [req EXCEPT ![r] = [Found(r, v) EXCEPT !.stage = "put"]]
           \/ /\ ~ScanHas(v) /\ UNCHANGED faults
              /\ req' = [req EXCEPT ![r] = Advance(@)]
           \/ HasFallback /\ Fault /\ Answer(r, "5xx")
    /\ UNCHANGED <<sources, store, txres, spyVars>>

(* cache_vaa; its failure is only logged. *)
Cache(r) ==
    /\ At(r, "put")
    /\ \/ PutVaa(Head(req[r].todo)) /\ UNCHANGED faults
       \/ Fault /\ UNCHANGED store
    /\ req' = [req EXCEPT ![r].todo = Tail(@), ![r].stage =
                  IF req[r].resolved THEN "store" ELSE IF Len(req[r].todo) = 1 THEN "finish" ELSE "put"]
    /\ UNCHANGED <<sources, txres, spyVars>>

(* Without a resolution wormholescan is asked for the transaction. *)
FallbackByTx(r) ==
    /\ At(r, "fill")
    /\ LET hits == ScanHits(req[r].target)
       IN  \/ /\ hits # {} /\ UNCHANGED faults
              /\ \E vaas \in SetToSeqs(hits) :
                    req' = [req EXCEPT ![r].stage = "put", ![r].todo = vaas, ![r].data = hits]
           \/ hits = {} /\ UNCHANGED faults /\ Goto(r, "finish")
           \/ HasFallback /\ Fault /\ Answer(r, "5xx")
    /\ UNCHANGED <<sources, store, txres, spyVars>>

Finish(r) ==
    /\ At(r, "finish")
    /\ Answer(r, IF req[r].data = {} THEN "404" ELSE "200")
    /\ UNCHANGED <<sources, store, txres, spyVars, faults>>

(* The client goes away: the handler is dropped where it waits. *)
Abandon(r) ==
    /\ InProgress(req[r])
    /\ req' = [req EXCEPT ![r] = Idle]
    /\ UNCHANGED <<sources, store, txres, spyVars, faults>>
-----------------------------------------------------------------------------
ConnectOnce ==
    /\ spy = "down" /\ faults = 0
    /\ spy' = "channel" /\ connected' = TRUE
    /\ UNCHANGED <<sources, store, txres, stream, req, faults>>

(* subscribe_once: the flag is set with the channel, before the stream. *)
Connect ==
    /\ spy = "down"
    /\ spy' = "channel" /\ connected' = TRUE
    /\ UNCHANGED <<sources, store, txres, stream, req, faults>>

Subscribe ==
    /\ spy = "channel"
    /\ spy' = "open"
    /\ UNCHANGED <<sources, store, txres, connected, stream, req, faults>>

IngestUnsigned ==
    /\ spy = "open" /\ stream # <<>>
    /\ stream' = Tail(stream)
    /\ store' = store \cup {Head(stream).vaa}
    /\ UNCHANGED <<sources, txres, spy, connected, req, faults>>

(* ingest: what carries no signature is refused; a failed write is logged. *)
Ingest ==
    /\ spy = "open" /\ stream # <<>>
    /\ stream' = Tail(stream)
    /\ \/ /\ UNCHANGED faults
          /\ IF Head(stream).signed THEN PutVaa(Head(stream).vaa) ELSE UNCHANGED store
       \/ Fault /\ UNCHANGED store
    /\ UNCHANGED <<sources, txres, spy, connected, req>>

(* The stream ends or is refused: the flag is cleared, run tries again.    *)
(* What was on its way is lost.                                            *)
Disconnect ==
    /\ spy # "down" /\ Fault
    /\ spy' = "down" /\ connected' = FALSE /\ stream' = <<>>
    /\ UNCHANGED <<sources, store, txres, req>>

(* The service is redeployed: redis keeps what it has. *)
Restart ==
    /\ Fault
    /\ spy' = "down" /\ connected' = FALSE /\ stream' = <<>>
    /\ req' = [r \in Requests |-> Idle]
    /\ UNCHANGED <<sources, store, txres>>
-----------------------------------------------------------------------------
Sent(v, isSigned) ==
    /\ Len(stream) < MaxStream
    /\ stream' = Append(stream, [vaa |-> v, signed |-> isSigned])

(* A quorum of guardians signs; the spy sends it to its subscribers. *)
Sign(v) ==
    /\ v \in Vaas \ signed
    /\ signed' = signed \cup {v}
    /\ IF spy = "open" /\ v \in Ours THEN Sent(v, TRUE) ELSE UNCHANGED stream
    /\ UNCHANGED <<indexed, shown, store, txres, spy, connected, req, faults>>

(* A spy that does not conform sends a VAA without signatures. *)
SendUnsigned(v) ==
    /\ spy = "open" /\ v \in Ours \ signed /\ Fault
    /\ Sent(v, FALSE)
    /\ UNCHANGED <<sources, store, txres, spy, connected, req>>

Index(v) ==
    /\ v \in signed \ indexed
    /\ indexed' = indexed \cup {v}
    /\ UNCHANGED <<signed, shown, store, txres, spyVars, req, faults>>

Show(t) ==
    /\ t \in Txs \ shown
    /\ shown' = shown \cup {t}
    /\ UNCHANGED <<signed, indexed, store, txres, spyVars, req, faults>>

(* Entries outlive their time in redis. *)
Expire ==
    /\ Fault
    /\ \/ \E v \in store : store' = store \ {v} /\ UNCHANGED txres
       \/ \E t \in txres : txres' = txres \ {t} /\ UNCHANGED store
    /\ UNCHANGED <<sources, spyVars, req>>
-----------------------------------------------------------------------------
(* History: a VAA that is in no source at an instant of r's request. *)
Witnessed ==
    neither' = [r \in Requests |->
        IF ~InProgress(req'[r]) THEN {}
        ELSE (IF InProgress(req[r]) THEN neither[r] ELSE {}) \cup (Vaas \ (store' \cup Scanned'))]

Serve(r) ==
    \/ ReadResolution(r) \/ Resolve(r) \/ PutResolution(r) \/ LookUp(r)
    \/ Fallback(r) \/ Cache(r) \/ FallbackByTx(r) \/ Finish(r)
SpyStep == Connect \/ Subscribe \/ Ingest
World ==
    \/ \E v \in Vaas : Sign(v) \/ Index(v)
    \/ \E t \in Txs : Show(t)

Next ==
    /\ \/ \E r \in Requests : Serve(r) \/ Abandon(r) \/ \E target \in Asked : Ask(r, target)
       \/ SpyStep \/ Disconnect \/ Restart \/ Expire \/ World
       \/ \E v \in Vaas : SendUnsigned(v)
    /\ Witnessed

(* Handlers and the subscriber's task are polled; guardians sign,          *)
(* wormholescan indexes and nodes show what is there.  No client has to    *)
(* come.                                                                   *)
Fairness ==
    /\ \A r \in Requests : WF_vars(Serve(r) /\ Witnessed)
    /\ WF_vars(SpyStep /\ Witnessed) /\ WF_vars(World /\ Witnessed)

Spec == Init /\ [][Next]_vars
FairSpec == Spec /\ Fairness
-----------------------------------------------------------------------------
(* The type of every variable; what is stored, and so what is served from  *)
(* the store, is signed.                                                   *)
TypeOK ==
    /\ signed \subseteq Vaas /\ indexed \subseteq signed /\ shown \subseteq Txs
    /\ store \subseteq signed /\ txres \subseteq Txs
    /\ spy \in {"down", "channel", "open"} /\ connected \in BOOLEAN
    /\ stream \in Seq([vaa: Ours, signed: BOOLEAN])
    /\ \A r \in Requests :
          /\ req[r].stage \in Stages \cup Statuses /\ ToSet(req[r].todo) \subseteq Vaas
          /\ req[r].data \subseteq signed /\ neither[r] \subseteq Vaas
    /\ faults \in 0..MaxFaults

(* What an answer leaves out was available nowhere: at one instant of the  *)
(* request it was in neither source.  A 404 is never an error in disguise, *)
(* nor a 200 with a gap (api.rs:5-8, api.rs:217-220).  The exception is a  *)
(* transaction that its node does not show yet: wormholescan alone is      *)
(* asked for it.                                                           *)
Wanted(target) == IF target \in Vaas THEN {target} ELSE OwnMessages[target]
NoSilentGap ==
    [][\A r \in Requests :
          At(r, "finish") /\ ~InProgress(req'[r]) /\ req'[r].stage \in {"200", "404"}
             => IF req[r].resolved
                THEN /\ req[r].data \subseteq Wanted(req[r].target)
                     /\ Wanted(req[r].target) \ req[r].data \subseteq neither[r]
                ELSE req[r].data \subseteq Emitted[req[r].target]]_vars

(* Once failures are over and wormholescan has caught up, every answer is  *)
(* a 200: a VAA that the spy missed is not lost.                           *)
AvailableIsServed ==
    <>[][\A r \in Requests :
            InProgress(req[r]) /\ req'[r].stage \in Statuses => req'[r].stage = "200"]_vars

(* The subscription comes back after every disconnection, and /healthz     *)
(* says so.                                                                *)
SpyReturns == <>[](spy = "open" /\ Healthy)
=============================================================================
