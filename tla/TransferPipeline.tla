-------------------------- MODULE TransferPipeline --------------------------
(* One transfer through the workers' stages, each a message of the RELAYER    *)
(* stream:                                                                    *)
(*   "preinit"  HyperCore: submit the initTransfer that the user committed to *)
(*   "init"     finalise on NEAR what was locked on a foreign chain           *)
(*   "near"     have the NEAR contract sign, at the fee the message carries   *)
(*   "sign"     submit the signed transfer to its destination                 *)
(*   "theirs"   the signature that another relayer asked for                  *)
(*   "claim"    claim the fee once the destination has finalised              *)
(* A stage does not call the next: the chain's events, republished by the     *)
(* indexer, and for "sign" the worker's own publication, bring it about.  The *)
(* first fee that was found too low is stored in FEE_MAPPING under the        *)
(* transfer's id, so that a later raise is measured by that quote and not by  *)
(* the price of the day; the stages share this entry, and which of them       *)
(* deletes it depends on the route.                                           *)
(*                                                                            *)
(* The waits for finality and for KYT are over when the model begins.         *)
EXTENDS Naturals, Sequences, FiniteSets

CONSTANTS Permits,   \* how many tasks run at once
          Quotes,    \* sequence of the fees that the API may ask
          Fees,      \* sequence of fees: what the user offers, then raises it to
          Discount,  \* fee_discount, in percent
          Trusted,   \* chains whose sender is in sign_without_checking_fee
          MaxTrouble \* bound: faults, and steps of the user, the price and others

ASSUME PipelineOK ==
  /\ Quotes \in Seq([token : Nat, native : Nat])
  /\ Fees \in Seq([token : Nat, native : Nat])
  /\ Trusted \subseteq {"near", "evm", "hyper"}
  /\ Permits \in Nat \ {0} /\ Discount \in 0..100 /\ MaxTrouble \in Nat

VARIABLES
  route,    \* where the transfer begins and ends
  place,    \* how far it is on the chains
  offer,    \* the fee offered: 0 for none
  price,    \* the quote that the API returns
  stopped,  \* KYT suggests to stop relaying for the sender
  events,   \* events of the chains that the indexer has not published
  queue,    \* the RELAYER stream
  tasks,    \* the running tasks
  pooled,   \* what a node has taken and no block includes yet
  quote,    \* redis: the entry of FEE_MAPPING, 0 for none
  quoted,   \* history: every quote that was stored and not overwritten
  forgot,   \* history: the entry is gone for a reason the code accepts
  refused,  \* history: a fee that meets a stored quote was refused
  leaked,   \* history: the entry may stay for ever
  given,    \* history: the transfer was given up for a reason the code names
  trouble

vars == <<route, place, offer, price, stopped, events, queue, tasks, pooled, quote,
          quoted, forgot, refused, leaked, given, trouble>>

history == <<quoted, forgot, refused, leaked, given>>
user == <<offer, price, stopped>>

Routes == [from : {"near", "evm", "hyper"}, to : {"near", "evm"}]
          \ {[from |-> "near", to |-> "near"]}

Places == {"committed", "locked", "stored", "paid", "claimed"}

Offers == 0..Len(Fees)

Messages == {"preinit", "init", "near", "sign"} \X Offers \cup {<<"theirs", 0>>, <<"claim", 0>>}

FeeOf(f) == IF f = 0 THEN [token |-> 0, native |-> 0] ELSE Fees[f]

(* The callback of HyperCore cannot pay the native part of a fee.             *)
Init ==
  /\ route \in Routes
  /\ offer \in Offers
  /\ route.from = "hyper" => FeeOf(offer).native = 0
  /\ price \in 1..Len(Quotes) /\ stopped = FALSE
  /\ place = CASE route.from = "near" -> "stored"
               [] route.from = "evm" -> "locked"
               [] route.from = "hyper" -> "committed"
  /\ events = {CASE route.from = "near" -> <<"near", offer>>
                 [] route.from = "evm" -> <<"init", offer>>
                 [] route.from = "hyper" -> <<"preinit", offer>>}
  /\ queue = {}
  /\ tasks = {} /\ pooled = {}
  /\ quote = 0 /\ quoted = {} /\ forgot = FALSE /\ refused = FALSE
  /\ leaked = FALSE /\ given = FALSE /\ trouble = 0

Fail == trouble < MaxTrouble /\ trouble' = trouble + 1

(* A step of somebody else: it takes from the same bound. *)
Meddle == Fail

-----------------------------------------------------------------------------
(* The fee.                                                                   *)

(* apply_discount                                                             *)
Discounted(amount) == (amount * (100 - Discount)) \div 100

(* is_fee_sufficient: the two parts of a fee make up for each other.          *)
Sufficient(q, fee) ==
  LET token == Discounted(Quotes[q].token)
      native == Discounted(Quotes[q].native)
  IN  \/ native = 0 /\ fee.token >= token
      \/ native # 0 /\ token = 0 /\ fee.native >= native
      \/ native # 0 /\ token # 0 /\ fee.token * native + fee.native * token >= token * native

(* What the stage checks: the fee in its message, but in the last stage the   *)
(* one that the contract held when it was asked.                              *)
Provided(t) == FeeOf(IF t.msg[1] = "sign" THEN t.fee ELSE t.msg[2])

(* The message's events leave FEE_MAPPING clean.  Of the stages that check a  *)
(* fee the first leave this to the later ones, unless there are none.         *)
OwnsFeeKeyAlways(m, outcome) ==
  m[1] \in {"near", "sign", "theirs"} \/ (m[1] = "init" /\ route.to = "near")

OwnsNoSignKey(m, outcome) ==
  (m[1] = "near" /\ outcome # "remove") \/ (m[1] = "init" /\ route.to = "near")

OwnsFeeKey(m, outcome) ==
  \/ m[1] = "near" /\ outcome # "remove"
  \/ m[1] \in {"sign", "theirs"}
  \/ m[1] = "init" /\ route.to = "near"

-----------------------------------------------------------------------------
(* A worker's task.                                                           *)

At(t, step) == t \in tasks /\ t.step = step

Become(t, u) == tasks' = (tasks \ {t}) \cup {u}

Go(t, step) == Become(t, [t EXCEPT !.step = step, !.fee = 0, !.price = 0])

Decide(t, outcome) ==
  Become(t, [t EXCEPT !.step = "settle", !.outcome = outcome, !.fee = 0, !.price = 0])

Rest(t) == tasks' = tasks \ {t}

(* is_transfer_finalised, is_init_transfer_pending, "The transfer does not    *)
(* exist".                                                                    *)
FinalisedBySource(m) ==
  CASE m[1] = "preinit" -> place # "committed"
    [] m[1] = "claim" -> place = "claimed"
    [] OTHER -> place \in {"stored", "paid", "claimed"}

Finalised(m) ==
  CASE m[1] = "preinit" -> place # "committed"
    [] m[1] = "init" -> place \in {"stored", "paid", "claimed"}
    [] m[1] = "claim" -> place = "claimed"
    [] OTHER -> place \in {"paid", "claimed"}

(* validate_sender: where the transfer enters and where it is signed, never   *)
(* again.                                                                     *)
Rejected(m) == m[1] \in {"init", "near"} /\ stopped

(* A permit is free and the consumer delivers a message; while another task   *)
(* has it, only because ack_wait ran out.  What is done already is `Remove`   *)
(* in the first and the last stage and `Drop` between; another relayer's      *)
(* signature is not ours to submit.  A call that fails here ends in a retry,  *)
(* as one that fails at the next step does.                                   *)
FirstStep(m) ==
  CASE m[1] = "claim" \/ (m[1] = "near" /\ route.from \in Trusted) -> "submit"
    [] m[1] = "sign" -> "read"
    [] OTHER -> "fee"

Take(m) ==
  LET again == \E t \in tasks : t.msg = m
      Begin(step, outcome) ==
        tasks' = tasks \cup {[msg |-> m, again |-> again, step |-> step, outcome |-> outcome,
                             fee |-> 0, price |-> 0]}
  IN  /\ Cardinality(tasks) < Permits /\ m \in queue
      /\ IF again THEN Fail ELSE UNCHANGED trouble
      /\ \/ m[1] = "theirs" /\ Begin("settle", "drop") /\ UNCHANGED given
         \/ Rejected(m) /\ Begin("settle", "drop") /\ given' = TRUE
         \/ /\ m[1] # "theirs" /\ ~Rejected(m) /\ Finalised(m)
            /\ Begin("settle", IF m[1] \in {"preinit", "claim"} THEN "remove" ELSE "drop")
            /\ UNCHANGED given
         \/ /\ m[1] # "theirs" /\ ~Rejected(m) /\ ~Finalised(m)
            /\ Begin(FirstStep(m), "") /\ UNCHANGED given
      /\ UNCHANGED <<route, place, user, events, queue, pooled, quote, quoted, forgot, refused, leaked>>

(* near_get_transfer_message: the contract forgets a transfer that is claimed, *)
(* and one without a fee as soon as it is signed.                             *)
ReadTransfer(t) ==
  /\ At(t, "read")
  /\ \/ Fail /\ Decide(t, "retry") /\ UNCHANGED given
     \/ /\ place = "claimed" \/ offer = 0
        /\ Decide(t, "drop") /\ given' = (given \/ place # "claimed") /\ UNCHANGED trouble
     \/ /\ place # "claimed" /\ offer # 0
        /\ Become(t, [t EXCEPT !.step = "fee", !.fee = offer]) /\ UNCHANGED <<given, trouble>>
  /\ UNCHANGED <<route, place, user, events, queue, pooled, quote, quoted, forgot, refused, leaked>>

(* get_transfer_fee; the check against it follows without another call.       *)
FetchFee(t) ==
  /\ At(t, "fee")
  /\ \/ Fail /\ Decide(t, "retry") /\ UNCHANGED given
     \/ /\ Sufficient(price, Provided(t))
        /\ Go(t, "submit") /\ UNCHANGED <<given, trouble>>
     \/ /\ ~Sufficient(price, Provided(t)) /\ Provided(t) = FeeOf(0)
        /\ Decide(t, "drop") /\ given' = TRUE /\ UNCHANGED trouble
     \/ /\ ~Sufficient(price, Provided(t)) /\ Provided(t) # FeeOf(0)
        /\ Become(t, [t EXCEPT !.step = "lookup", !.price = price])
        /\ UNCHANGED <<given, trouble>>
  /\ UNCHANGED <<route, place, user, events, queue, pooled, quote, quoted, forgot, refused, leaked>>

OnItsWay == \E m \in pooled : m[1] = "sign"

(* History of a refusal: the fee meets a quote that was stored for it, and    *)
(* nothing the code accepts has removed the quote.                            *)
Refuse(fee) ==
  refused' = (refused \/ (/\ ~forgot /\ place \notin {"paid", "claimed"} /\ ~OnItsWay
                          /\ \E q \in quoted : Sufficient(q, fee)))

(* get_fee: a quote that redis does not return is taken for one that was      *)
(* never stored.                                                              *)
LookUp(t) ==
  LET fee == Provided(t)
  IN  /\ At(t, "lookup")
      /\ \/ /\ quote # 0 /\ Sufficient(quote, fee)
            /\ Go(t, "submit") /\ UNCHANGED <<refused, trouble>>
         \/ /\ quote # 0 /\ ~Sufficient(quote, fee)
            /\ Decide(t, "retry") /\ Refuse(fee) /\ UNCHANGED trouble
         \/ /\ quote = 0
            /\ Become(t, [t EXCEPT !.step = "store"]) /\ Refuse(fee) /\ UNCHANGED trouble
         \/ Fail /\ Become(t, [t EXCEPT !.step = "store"]) /\ UNCHANGED refused
      /\ UNCHANGED <<route, place, user, events, queue, pooled, quote,
                     quoted, forgot, leaked, given>>

(* add_event to FEE_MAPPING: the quote of this task replaces whatever another *)
(* has stored since the look-up.                                              *)
StoreFee(t) ==
  /\ At(t, "store")
  /\ \/ /\ quote' = t.price
        /\ quoted' = (quoted \ {quote}) \cup {t.price}
        /\ leaked' = (leaked \/ t.msg \notin queue)
        /\ UNCHANGED trouble
     \/ Fail /\ UNCHANGED <<quote, quoted, leaked>>
  /\ Decide(t, "retry")
  /\ UNCHANGED <<route, place, user, events, queue, pooled, forgot, refused, given>>

(* The chains take a submission if it is in turn, and NEAR signs at the fee   *)
(* of the day only, as often as it is asked.                                  *)
InTurn(m) ==
  CASE m[1] = "preinit" -> place = "committed"
    [] m[1] = "init" -> place = "locked"
    [] m[1] = "near" -> place \in {"stored", "paid"} /\ m[2] = offer
    [] m[1] = "sign" -> place = "stored"
    [] m[1] = "claim" -> place = "paid"

After(m) ==
  CASE m[1] = "preinit" -> "locked"
    [] m[1] = "init" -> IF route.to = "near" THEN "paid" ELSE "stored"
    [] m[1] = "near" -> place
    [] m[1] = "sign" -> "paid"
    [] m[1] = "claim" -> "claimed"

(* The work that the indexer publishes for the event of the submission; there *)
(* is none where the transfer ends.                                           *)
EmitsAlways(m) ==
  CASE m[1] = "preinit" -> {<<"init", offer>>}
    [] m[1] = "init" -> {<<"near", offer>>}
    [] m[1] = "near" -> {<<"sign", offer>>}
    [] m[1] = "sign" -> {<<"claim", 0>>}
    [] m[1] = "claim" -> {}

Emits(m) ==
  CASE m[1] = "preinit" -> {<<"init", offer>>}
    [] m[1] = "init" -> IF route.to = "near" THEN {} ELSE {<<"near", offer>>}
    [] m[1] = "near" -> {<<"sign", offer>>}
    [] m[1] = "sign" -> {<<"claim", 0>>}
    [] m[1] = "claim" -> {}

Happens(m) == place' = After(m) /\ events' = events \cup Emits(m)

(* On NEAR the receipts decide: an unknown status and a listed failure are    *)
(* tried again, any other failure is final.                                   *)
SubmitToNear(t) ==
  LET m == t.msg
  IN  /\ At(t, "submit") /\ m[1] \in {"init", "near", "claim"}
      /\ \/ InTurn(m) /\ Happens(m) /\ Decide(t, "remove") /\ UNCHANGED <<given, trouble>>
         \/ InTurn(m) /\ Happens(m) /\ Fail /\ Decide(t, "retry") /\ UNCHANGED given
         \/ ~InTurn(m) /\ Decide(t, "drop") /\ UNCHANGED <<place, events, given, trouble>>
         \/ Fail /\ Decide(t, "retry") /\ UNCHANGED <<place, events, given>>
         \/ Fail /\ Decide(t, "drop") /\ given' = TRUE /\ UNCHANGED <<place, events>>
      /\ UNCHANGED <<route, user, queue, pooled, quote, quoted, forgot, refused, leaked>>

(* On another chain the receipt is not waited for: the task has done its part *)
(* when a node takes the transaction; an estimate that fails is final if its  *)
(* error is listed.  A second transaction of the same message waits as one    *)
(* with the first.                                                            *)
SubmitAbroad(t) ==
  LET m == t.msg
      Taken == pooled' = pooled \cup {m}
  IN  /\ At(t, "submit") /\ m[1] \in {"preinit", "sign"}
      /\ \/ Taken /\ Decide(t, "remove") /\ UNCHANGED <<given, trouble>>
         \/ Taken /\ Fail /\ Decide(t, "retry") /\ UNCHANGED given
         \/ /\ ~InTurn(m) /\ \E outcome \in {"drop", "retry"} : Decide(t, outcome)
            /\ UNCHANGED <<pooled, given, trouble>>
         \/ Fail /\ Decide(t, "retry") /\ UNCHANGED <<pooled, given>>
         \/ Fail /\ Decide(t, "drop") /\ given' = TRUE /\ UNCHANGED pooled
      /\ UNCHANGED <<route, place, user, events, queue, quote, quoted, forgot, refused, leaked>>

(* What the result of a task publishes.                                       *)
Produced(t) ==
  IF t.msg[1] = "near" /\ t.outcome = "remove"
  THEN {<<"sign", t.msg[2]>>} ELSE {}

Publish(t) == queue' = queue \cup Produced(t)

(* Not acknowledged: to be tried again, or the acknowledgement did not land.  *)
Keep(t) ==
  /\ At(t, "settle")
  /\ IF t.outcome = "retry" THEN UNCHANGED trouble ELSE Fail
  /\ Publish(t)
  /\ Rest(t)
  /\ UNCHANGED <<route, place, user, events, pooled, quote, history>>

(* History: a stage that does not own the entry leaves one behind, and        *)
(* nothing of an earlier stage is there to come.                              *)
Ahead(messages) ==
  \/ \E m \in messages : m[1] # "claim"
  \/ place = "committed" /\ \E m \in pooled : m[1] = "preinit"

LeavesEntry(t, m, messages) ==
  /\ quote # 0
  /\ \/ m[1] = "preinit"
     \/ m[1] = "init" /\ route.to # "near"
     \/ m[1] = "near" /\ t.outcome = "remove"
  /\ ~Ahead(messages)

(* Acknowledged, or terminated because it was given up or, while it was to be *)
(* tried again, past max_message_age; a publication that fails is only logged. *)
Leave(t) ==
  LET m == t.msg
      rest == queue \ {m}
  IN  /\ At(t, "settle")
      /\ \/ queue' = rest \cup Produced(t) /\ UNCHANGED trouble
         \/ Produced(t) # {} /\ Fail /\ queue' = rest
      /\ leaked' = (leaked \/ LeavesEntry(t, m, queue' \cup events))
      /\ given' = (given \/ t.outcome = "retry")
      /\ IF OwnsFeeKey(m, t.outcome) THEN Go(t, "clean") ELSE Rest(t)
      /\ UNCHANGED <<route, place, user, events, pooled, quote, quoted, forgot, refused>>

(* remove_event, after the acknowledgement.                                   *)
Clean(t) ==
  /\ At(t, "clean")
  /\ \/ /\ quote' = 0
        /\ forgot' = (forgot \/ t.outcome # "remove")
        /\ UNCHANGED <<leaked, trouble>>
     \/ Fail /\ leaked' = TRUE /\ UNCHANGED <<quote, forgot>>
  /\ Rest(t)
  /\ UNCHANGED <<route, place, user, events, queue, pooled, quoted, refused, given>>

Crash ==
  /\ Fail
  /\ tasks # {} /\ tasks' = {}
  /\ leaked' = (leaked \/ \E t \in tasks : t.step = "clean")
  /\ UNCHANGED <<route, place, user, events, queue, pooled, quote, quoted, forgot, refused, given>>

-----------------------------------------------------------------------------
(* The world.                                                                 *)

(* A transaction that a node took is included: in turn it takes effect, and   *)
(* one that comes too late is reverted, as the transfer is past it.  It may   *)
(* also be dropped, or reverted for another reason.                           *)
Include(m) ==
  /\ m \in pooled
  /\ pooled' = pooled \ {m}
  /\ \/ InTurn(m) /\ Happens(m) /\ UNCHANGED <<forgot, leaked, given, trouble>>
     \/ ~InTurn(m) /\ UNCHANGED <<place, events, forgot, leaked, given, trouble>>
     \/ /\ Fail /\ given' = TRUE /\ forgot' = TRUE
        /\ leaked' = (leaked \/ (quote # 0 /\ ~\E e \in queue \cup events : e[1] # "claim"))
        /\ UNCHANGED <<place, events>>
  /\ UNCHANGED <<route, user, queue, tasks, quote, quoted, refused>>

(* The indexer publishes the work of an event, or loses it.                   *)
Ingest(m) ==
  /\ m \in events
  /\ events' = events \ {m}
  /\ \/ queue' = queue \cup {m} /\ UNCHANGED <<leaked, given, trouble>>
     \/ /\ Fail /\ UNCHANGED queue
        /\ leaked' = TRUE /\ given' = TRUE
  /\ UNCHANGED <<route, place, user, tasks, pooled, quote, quoted, forgot, refused>>

RaiseFee ==
  /\ Meddle /\ route.to # "near" /\ place \in {"stored", "paid"}
  /\ \E f \in Offers : f > offer /\ offer' = f /\ events' = events \cup {<<"near", f>>}
  /\ UNCHANGED <<route, place, price, stopped, queue, tasks, pooled, quote, history>>

ChangePrice ==
  /\ Meddle
  /\ \E q \in 1..Len(Quotes) \ {price} : price' = q
  /\ UNCHANGED <<route, place, offer, stopped, events, queue, tasks, pooled, quote, history>>

StopSender ==
  /\ Meddle /\ ~stopped
  /\ stopped' = TRUE
  /\ UNCHANGED <<route, place, offer, price, events, queue, tasks, pooled, quote, history>>

(* Another relayer finalises on NEAR, or on the destination, and claims.      *)
RivalFinalises ==
  /\ Meddle
  /\ \/ InTurn(<<"init", 0>>) /\ Happens(<<"init", 0>>)
     \/ InTurn(<<"sign", 0>>) /\ place' = "claimed" /\ UNCHANGED events
  /\ UNCHANGED <<route, offer, price, stopped, queue, tasks, pooled, quote, history>>

RivalSigns ==
  /\ Meddle /\ place = "stored"
  /\ events' = events \cup {<<"theirs", 0>>}
  /\ UNCHANGED <<route, place, offer, price, stopped, queue, tasks, pooled, quote, history>>

World ==
  \/ RaiseFee \/ ChangePrice \/ StopSender \/ RivalFinalises \/ RivalSigns

CheckFee(t) == ReadTransfer(t) \/ FetchFee(t) \/ LookUp(t) \/ StoreFee(t)

Step(t) == CheckFee(t) \/ SubmitToNear(t) \/ SubmitAbroad(t) \/ Keep(t) \/ Leave(t) \/ Clean(t)

Progress ==
  \/ \E t \in tasks : Step(t)
  \/ \E m \in Messages : Take(m) \/ Ingest(m)

Block == \E m \in pooled : Include(m)

Next == Progress \/ Block \/ Crash \/ World

Spec == Init /\ [][Next]_vars

(* The relayer and the indexer do not stand still while there is work, blocks *)
(* are produced, and what is tried again and again is past max_message_age in *)
(* the end; faults, prices and other parties owe nothing.                     *)
Fairness ==
  /\ WF_vars(Progress /\ UNCHANGED trouble)
  /\ WF_vars(Block /\ UNCHANGED trouble)
  /\ SF_vars((\E t \in tasks : t.outcome = "retry" /\ Leave(t)) /\ UNCHANGED trouble)

FairSpec == Spec /\ Fairness

-----------------------------------------------------------------------------
(* The shape of the state, and that a transfer only meets the stages of its   *)
(* route: one that ends on NEAR is never signed for another chain.            *)
TypeOK ==
  /\ route \in Routes /\ place \in Places /\ offer \in Offers
  /\ price \in 1..Len(Quotes) /\ stopped \in BOOLEAN
  /\ events \subseteq Messages /\ queue \subseteq Messages
  /\ Cardinality(tasks) <= Permits
  /\ tasks \subseteq [msg : Messages, again : BOOLEAN,
                     step : {"read", "fee", "lookup", "store", "submit", "settle", "clean"},
                     outcome : {"", "remove", "drop", "retry"},
                     fee : Offers, price : 0..Len(Quotes)]
  /\ pooled \subseteq {"preinit", "sign"} \X Offers
  /\ quote \in 0..Len(Quotes) /\ quoted \subseteq 1..Len(Quotes)
  /\ {forgot, refused, leaked, given} \subseteq BOOLEAN /\ trouble \in 0..MaxTrouble
  /\ \A m \in events \cup queue \cup pooled :
       /\ m[1] = "preinit" => route.from = "hyper"
       /\ m[1] = "init" => route.from # "near"
       /\ m[1] \in {"near", "sign", "theirs", "claim"} => route.to # "near"

(* check_fee promises that a raise is measured by the quote it answers: no    *)
(* task refuses a fee that meets a stored quote because the price has moved   *)
(* on, whatever runs between its look-up and its store.  The exceptions are   *)
(* those of the code: a look-up that redis does not answer counts as no       *)
(* entry; of two tasks that both found none the later store replaces the      *)
(* earlier; and the quote has done its work once a message of the transfer is *)
(* given up or the signed transfer is with a node of its destination.         *)
QuoteHonoured == ~refused

(* When nothing of the transfer is left in the queue or on its way to it, its *)
(* entry in FEE_MAPPING is gone: one stage on each route deletes it, whatever *)
(* order the stages end in, but for a failed deletion, a crash, an event that *)
(* was lost, a task that outlived its message, and a stage that gives up      *)
(* before the one that owns the entry.                                        *)
FeeKeysCleaned ==
  queue = {} /\ events = {} /\ tasks = {} /\ pooled = {} /\ quote # 0 => leaked

(* The stages hand a transfer on without a gap: it reaches its destination    *)
(* and its fee is claimed, or it is given up for a reason that the code names. *)
TransfersComplete ==
  <>(given \/ place = IF route.to = "near" THEN "paid" ELSE "claimed")
=============================================================================
