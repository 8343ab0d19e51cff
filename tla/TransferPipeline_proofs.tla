---------------------- MODULE TransferPipeline_proofs ----------------------
(***************************************************************************)
(* A stored quote is honoured and its entry in FEE_MAPPING is deleted, for *)
(* any fees, quotes, discount and number of tasks: QuoteHonoured and       *)
(* FeeKeysCleaned, each from an invariant that says what the entry means   *)
(* while stages of the transfer run side by side.                          *)
(***************************************************************************)
EXTENDS TransferPipeline, FiniteSetTheorems, TLAPS

(* A message of the transfer's route, at a place that its stage can follow. *)
Fits(m) ==
    /\ m \in Messages
    /\ m[1] = "preinit" => route.from = "hyper"
    /\ m[1] = "init" => route.from # "near"
    /\ m[1] \in {"near", "sign", "theirs", "claim"} => route.to # "near"
    /\ m[1] \in {"near", "sign", "theirs"} => place \in {"stored", "paid", "claimed"}

Arrived == place \in {"paid", "claimed"}

(* The quote does not count any more: it was given up, or the transfer is  *)
(* at its destination or in a transaction that is to bring it there.       *)
Settled == forgot \/ Arrived \/ OnItsWay

StageInv ==
    /\ \A m \in events \cup queue \cup pooled : Fits(m)
    /\ pooled \subseteq {"preinit", "sign"} \X Offers
    /\ place = "locked" => route.from # "near"
    /\ place = "stored" => route.to # "near"

(* A task that owns the entry and removes its message has brought the      *)
(* transfer to its destination or on its way there.                        *)
TaskOK(t) ==
    /\ Fits(t.msg)
    /\ t.step = "read" => t.msg[1] = "sign"
    /\ t.step \in {"fee", "lookup", "store"} => t.msg[1] \in {"preinit", "init", "near", "sign"}
    /\ t.step \in {"lookup", "store"} => t.price # 0
    /\ t.step = "submit" => t.msg[1] # "theirs"
    /\ t.step \in {"settle", "clean"} /\ t.outcome = "remove" /\ OwnsFeeKey(t.msg, "remove")
          => Settled
    /\ t.step = "clean" => OwnsFeeKey(t.msg, t.outcome)
TaskInv == IsFiniteSet(tasks) /\ \A t \in tasks : TaskOK(t)

(* While the quote still counts there is at most one, and it is the entry. *)
QuoteInv ==
    Settled \/ (quote = 0 /\ quoted = {}) \/ (quote # 0 /\ quoted = {quote})

(* An entry that is not leaked has somebody to delete it: a task that is   *)
(* about to, or a message of a stage that does or that brings one about.   *)
KeyInv ==
    quote = 0 \/ leaked \/ Ahead(queue \cup events) \/ (\E t \in tasks : t.step = "clean")

PipelineInv ==
    TypeOK /\ StageInv /\ TaskInv /\ QuoteInv /\ QuoteHonoured /\ KeyInv
-----------------------------------------------------------------------------
(* The tasks: as many as there are permits, and of their type. *)
Steps == {"read", "fee", "lookup", "store", "submit", "settle", "clean"}
Outcomes == {"", "remove", "drop", "retry"}
Task == [msg : Messages, again : BOOLEAN, step : Steps, outcome : Outcomes,
         fee : Offers, price : 0..Len(Quotes)]
Bounded == trouble \in 0..MaxTrouble
TasksTyped == IsFiniteSet(tasks) /\ Cardinality(tasks) <= Permits /\ tasks \subseteq Task

(* Replacing an element does not enlarge a finite set. *)
LEMMA ReplaceElement ==
    ASSUME NEW S, IsFiniteSet(S), NEW n \in Nat, Cardinality(S) <= n, NEW x \in S, NEW y
    PROVE  /\ IsFiniteSet(S \ {x}) /\ Cardinality(S \ {x}) <= n
           /\ IsFiniteSet((S \ {x}) \cup {y}) /\ Cardinality((S \ {x}) \cup {y}) <= n
<1>1. /\ IsFiniteSet(S \ {x}) /\ Cardinality(S \ {x}) = Cardinality(S) - 1
      /\ Cardinality(S) \in Nat
  BY FS_RemoveElement, FS_CardinalityType
<1>2. /\ IsFiniteSet((S \ {x}) \cup {y})
      /\ \/ Cardinality((S \ {x}) \cup {y}) = Cardinality(S \ {x})
         \/ Cardinality((S \ {x}) \cup {y}) = Cardinality(S \ {x}) + 1
  BY <1>1, FS_AddElement
<1> QED
  BY <1>1, <1>2

(* A task that takes the place of one, and one that ends, keep the tasks   *)
(* typed; what goes on, and what is decided, is such a task.               *)
LEMMA TaskMoves ==
    ASSUME TasksTyped, NEW t \in tasks
    PROVE  /\ \A u \in Task : Become(t, u) => TasksTyped'
           /\ \A step \in Steps : Go(t, step) => TasksTyped'
           /\ \A outcome \in Outcomes : Decide(t, outcome) => TasksTyped'
           /\ Rest(t) => TasksTyped'
<1>1. t \in Task /\ Permits \in Nat /\ 0 \in Offers /\ 0 \in 0..Len(Quotes)
  BY PipelineOK DEF TasksTyped, Offers
<1>2. ASSUME NEW u \in Task, Become(t, u) PROVE TasksTyped'
  BY <1>1, <1>2, ReplaceElement DEF TasksTyped, Become
<1>3. ASSUME NEW step \in Steps PROVE [t EXCEPT !.step = step, !.fee = 0, !.price = 0] \in Task
  BY <1>1 DEF Task
<1>4. ASSUME NEW outcome \in Outcomes
      PROVE [t EXCEPT !.step = "settle", !.outcome = outcome, !.fee = 0, !.price = 0] \in Task
  BY <1>1 DEF Task, Steps
<1>5. ASSUME Rest(t) PROVE TasksTyped'
  BY <1>1, <1>5, ReplaceElement DEF TasksTyped, Rest
<1> QED
  BY <1>2, <1>3, <1>4, <1>5 DEF Go, Decide

(* Every step keeps the tasks within the permits and typed. *)
LEMMA TasksTypedStep ==
    ASSUME PipelineInv, [Next]_vars PROVE TasksTyped'
<1> USE PipelineOK DEF vars, history, user, Fail, Meddle, At
<1>0. TasksTyped /\ price \in 1..Len(Quotes) /\ offer \in Offers
  BY DEF PipelineInv, TypeOK, TaskInv, TasksTyped, Task, Steps, Outcomes
<1>1. ASSUME NEW t \in tasks, CheckFee(t) PROVE TasksTyped'
  <2>0. t \in Task
    BY <1>0 DEF TasksTyped
  <2>1. CASE ReadTransfer(t)
    <3>1. [t EXCEPT !.step = "fee", !.fee = offer] \in Task
      BY <1>0, <2>0 DEF Task, Steps
    <3> QED
      BY <1>0, <2>1, <3>1, TaskMoves DEF ReadTransfer, Outcomes
  <2>2. CASE FetchFee(t)
    <3>1. price \in 0..Len(Quotes)
      BY <1>0, PipelineOK
    <3>2. [t EXCEPT !.step = "lookup", !.price = price] \in Task
      BY <2>0, <3>1 DEF Task, Steps
    <3> QED
      BY <1>0, <2>2, <3>2, TaskMoves DEF FetchFee, Outcomes, Steps
  <2>3. CASE LookUp(t)
    <3>1. [t EXCEPT !.step = "store"] \in Task
      BY <2>0 DEF Task, Steps
    <3> QED
      BY <1>0, <2>3, <3>1, TaskMoves DEF LookUp, Outcomes, Steps
  <2>4. CASE StoreFee(t)
    BY <1>0, <2>4, TaskMoves DEF StoreFee, Outcomes
  <2> QED
    BY <1>1, <2>1, <2>2, <2>3, <2>4 DEF CheckFee
<1>2. ASSUME NEW t \in tasks, SubmitToNear(t) PROVE TasksTyped'
  <2>1. t \in tasks /\ TasksTyped
    BY <1>0, <1>2 DEF SubmitToNear
  <2> QED
    BY <2>1, <1>2, TaskMoves DEF SubmitToNear, Outcomes, Steps
<1>3. ASSUME NEW t \in tasks, SubmitAbroad(t) PROVE TasksTyped'
  <2>1. t \in tasks /\ TasksTyped
    BY <1>0, <1>3 DEF SubmitAbroad
  <2> QED
    BY <2>1, <1>3, TaskMoves DEF SubmitAbroad, Outcomes, Steps
<1>4. ASSUME NEW t \in tasks, Keep(t) PROVE TasksTyped'
  <2>1. t \in tasks /\ TasksTyped
    BY <1>0, <1>4 DEF Keep
  <2> QED
    BY <2>1, <1>4, TaskMoves DEF Keep, Outcomes, Steps
<1>5. ASSUME NEW t \in tasks, Leave(t) PROVE TasksTyped'
  <2>1. t \in tasks /\ TasksTyped
    BY <1>0, <1>5 DEF Leave
  <2> QED
    BY <2>1, <1>5, TaskMoves DEF Leave, Outcomes, Steps
<1>6. ASSUME NEW t \in tasks, Clean(t) PROVE TasksTyped'
  <2>1. t \in tasks /\ TasksTyped
    BY <1>0, <1>6 DEF Clean
  <2> QED
    BY <2>1, <1>6, TaskMoves DEF Clean, Outcomes, Steps
<1>7. ASSUME NEW m \in Messages, Take(m) PROVE TasksTyped'
  <2>1. PICK u : u \in Task /\ tasks' = tasks \cup {u} /\ Cardinality(tasks) < Permits
    <3> DEFINE Begun(step, outcome) == [msg |-> m, again |-> \E t \in tasks : t.msg = m,
                                        step |-> step, outcome |-> outcome,
                                        fee |-> 0, price |-> 0]
    <3>1. \A step \in Steps, outcome \in Outcomes : Begun(step, outcome) \in Task
      BY <1>7, 0 \in Offers, 0 \in 0..Len(Quotes) DEF Task, Offers
    <3>2. \E step \in Steps, outcome \in Outcomes : tasks' = tasks \cup {Begun(step, outcome)}
      <4>1. FirstStep(m) \in Steps
        BY DEF FirstStep, Steps
      <4> QED
        BY <1>7, <4>1 DEF Take, Steps, Outcomes
    <3> QED
      BY <1>7, <3>1, <3>2 DEF Take
  <2>2. Permits \in Nat /\ Cardinality(tasks) \in Nat
    BY <1>0, FS_CardinalityType DEF TasksTyped
  <2>3. IsFiniteSet(tasks') /\ (Cardinality(tasks') = Cardinality(tasks) \/ Cardinality(tasks') = Cardinality(tasks) + 1)
    BY <1>0, <2>1, FS_AddElement DEF TasksTyped
  <2> QED
    BY <1>0, <2>1, <2>2, <2>3 DEF TasksTyped
<1>8. ASSUME NEW m \in Messages, Ingest(m) PROVE TasksTyped'
  BY <1>0, <1>8 DEF Ingest, TypeOK, TaskInv, TasksTyped
<1>9. CASE Crash
  BY <1>0, <1>9, FS_EmptySet DEF Crash, TasksTyped
<1>10. CASE RaiseFee
  BY <1>0, <1>10 DEF RaiseFee, TypeOK, TaskInv, TasksTyped
<1>11. CASE ChangePrice
  BY <1>0, <1>11 DEF ChangePrice, TypeOK, TaskInv, TasksTyped
<1>12. CASE StopSender
  BY <1>0, <1>12 DEF StopSender, TypeOK, TaskInv, TasksTyped
<1>13. CASE RivalFinalises
  BY <1>0, <1>13 DEF RivalFinalises, TypeOK, TaskInv, TasksTyped
<1>14. CASE RivalSigns
  BY <1>0, <1>14 DEF RivalSigns, TypeOK, TaskInv, TasksTyped
<1>15. CASE UNCHANGED vars
  BY <1>0, <1>15 DEF TypeOK, TaskInv, TasksTyped
<1>16. ASSUME NEW m \in pooled, Include(m) PROVE TasksTyped'
  BY <1>0, <1>16 DEF Include, TasksTyped
<1> QED
  BY <1>1, <1>2, <1>3, <1>4, <1>5, <1>6, <1>7, <1>8, <1>9, <1>10, <1>11, <1>12,
     <1>13, <1>14, <1>15, <1>16 DEF Next, Progress, Block, Step, World

(* Every step leaves the count of trouble alone or adds one within the   *)
(* bound.                                                                *)
LEMMA TroubleStep ==
    ASSUME PipelineInv, [Next]_vars PROVE (Fail \/ UNCHANGED trouble)
<1> USE PipelineOK DEF vars, history, user, Meddle
<1>1. ASSUME NEW t \in tasks, CheckFee(t) PROVE (Fail \/ UNCHANGED trouble)
  BY <1>1 DEF CheckFee, ReadTransfer, FetchFee, LookUp, StoreFee
<1>2. ASSUME NEW t \in tasks, SubmitToNear(t) PROVE (Fail \/ UNCHANGED trouble)
  BY <1>2 DEF SubmitToNear
<1>3. ASSUME NEW t \in tasks, SubmitAbroad(t) PROVE (Fail \/ UNCHANGED trouble)
  BY <1>3 DEF SubmitAbroad
<1>4. ASSUME NEW t \in tasks, Keep(t) PROVE (Fail \/ UNCHANGED trouble)
  BY <1>4 DEF Keep
<1>5. ASSUME NEW t \in tasks, Leave(t) PROVE (Fail \/ UNCHANGED trouble)
  BY <1>5 DEF Leave
<1>6. ASSUME NEW t \in tasks, Clean(t) PROVE (Fail \/ UNCHANGED trouble)
  BY <1>6 DEF Clean
<1>7. ASSUME NEW m \in Messages, Take(m) PROVE (Fail \/ UNCHANGED trouble)
  BY <1>7 DEF Take
<1>8. ASSUME NEW m \in Messages, Ingest(m) PROVE (Fail \/ UNCHANGED trouble)
  BY <1>8 DEF Ingest
<1>9. CASE Crash
  BY <1>9 DEF Crash
<1>10. CASE RaiseFee
  BY <1>10 DEF RaiseFee
<1>11. CASE ChangePrice
  BY <1>11 DEF ChangePrice
<1>12. CASE StopSender
  BY <1>12 DEF StopSender
<1>13. CASE RivalFinalises
  BY <1>13 DEF RivalFinalises
<1>14. CASE RivalSigns
  BY <1>14 DEF RivalSigns
<1>15. CASE UNCHANGED vars
  BY <1>15
<1>16. ASSUME NEW m \in pooled, Include(m) PROVE (Fail \/ UNCHANGED trouble)
  BY <1>16 DEF Include
<1> QED
  BY <1>1, <1>2, <1>3, <1>4, <1>5, <1>6, <1>7, <1>8, <1>9, <1>10, <1>11, <1>12,
     <1>13, <1>14, <1>15, <1>16 DEF Next, Progress, Block, Step, World

(* A step spends at most what is left of the budget of troubles. *)
LEMMA BoundedStep ==
    ASSUME PipelineInv, [Next]_vars PROVE Bounded'
<1>1. Fail \/ UNCHANGED trouble
  BY TroubleStep
<1>2. trouble \in 0..MaxTrouble /\ MaxTrouble \in Nat
  BY PipelineOK DEF PipelineInv, TypeOK
<1> QED
  BY <1>1, <1>2 DEF Fail, Bounded

(* What the parts of a message are. *)
LEMMA Parts ==
    ASSUME NEW m \in Messages
    PROVE  m[1] \in {"preinit", "init", "near", "sign", "theirs", "claim"} /\ m[2] \in Offers
BY PipelineOK DEF Messages, Offers

(* The state but for the messages and the tasks. *)
ScalarsTyped ==
    /\ route \in Routes /\ place \in Places /\ offer \in Offers
    /\ price \in 1..Len(Quotes) /\ stopped \in BOOLEAN
    /\ quote \in 0..Len(Quotes) /\ quoted \subseteq 1..Len(Quotes)
    /\ forgot \in BOOLEAN /\ refused \in BOOLEAN /\ leaked \in BOOLEAN /\ given \in BOOLEAN

(* A submission that happens leaves every message fit for its place. *)
LEMMA HappensFits ==
    ASSUME PipelineInv, NEW m, Fits(m), m[1] # "theirs", InTurn(m), Happens(m), route' = route, offer' = offer
    PROVE  /\ \A x : Fits(x) => Fits(x)'
           /\ \A x \in events' : Fits(x)'
           /\ place' \in Places
           /\ place' = "stored" => route.to # "near"
           /\ place' = "locked" => route.from # "near"
           /\ Arrived => Arrived'
           /\ m[1] = "sign" => Arrived'
           /\ m[1] = "init" /\ route.to = "near" => Arrived'
<1>0. /\ place \in Places /\ offer \in Offers /\ StageInv
      /\ m[1] \in {"preinit", "init", "near", "sign", "claim"}
  BY Parts DEF PipelineInv, TypeOK, Fits
<1>1. place' = After(m) /\ events' = events \cup Emits(m)
  BY DEF Happens
<1>2. /\ place' \in Places
      /\ place \in {"stored", "paid", "claimed"} => place' \in {"stored", "paid", "claimed"}
      /\ place \in {"paid", "claimed"} => place' \in {"paid", "claimed"}
      /\ place' = "stored" => route.to # "near"
      /\ place' = "locked" => route.from # "near"
      /\ m[1] = "sign" => place' = "paid"
      /\ m[1] = "init" /\ route.to = "near" => place' = "paid"
  BY <1>0, <1>1 DEF InTurn, After, Places, StageInv, Fits
<1>3. \A x : Fits(x) => Fits(x)'
  BY <1>2 DEF Fits
<1>4. ASSUME NEW x \in Emits(m) PROVE Fits(x)'
  <2>1. CASE m[1] = "preinit"
    BY <1>0, <1>4, <2>1 DEF Emits, Fits, Messages
  <2>2. CASE m[1] = "init"
    BY <1>0, <1>1, <1>4, <2>2 DEF Emits, Fits, Messages, After
  <2>3. CASE m[1] = "near"
    BY <1>0, <1>1, <1>2, <1>4, <2>3 DEF Emits, Fits, Messages, After
  <2>4. CASE m[1] = "sign"
    BY <1>0, <1>4, <2>4 DEF Emits, Fits, Messages
  <2>5. CASE m[1] = "claim"
    BY <1>0, <1>4, <2>5 DEF Emits
  <2> QED
    BY <1>0, <2>1, <2>2, <2>3, <2>4, <2>5
<1> QED
  BY <1>0, <1>1, <1>2, <1>3, <1>4 DEF StageInv, Arrived

(* Every step keeps the types of the rest of the state. *)
LEMMA ScalarsStep ==
    ASSUME PipelineInv, [Next]_vars PROVE ScalarsTyped'
<1> USE PipelineOK DEF vars, history, user, Fail, Meddle, At
<1>0. ScalarsTyped /\ TaskInv
  BY DEF PipelineInv, TypeOK, ScalarsTyped
<1>1. ASSUME NEW t \in tasks, CheckFee(t) PROVE ScalarsTyped'
  <2>1. UNCHANGED <<route, place, user, forgot>>
    BY <1>1 DEF CheckFee, ReadTransfer, FetchFee, LookUp, StoreFee
  <2>2. /\ t.price \in 0..Len(Quotes)
        /\ t.step = "store" => t.price # 0
    BY <1>0 DEF PipelineInv, TypeOK, TaskInv, TaskOK
  <2>3. \/ UNCHANGED <<quote, quoted>>
        \/ t.step = "store" /\ quote' = t.price /\ quoted' = (quoted \ {quote}) \cup {t.price}
    BY <1>1 DEF CheckFee, ReadTransfer, FetchFee, LookUp, StoreFee
  <2>4. quote' \in 0..Len(Quotes) /\ quoted' \subseteq 1..Len(Quotes)
    <3>1. CASE UNCHANGED <<quote, quoted>>
      BY <1>0, <3>1 DEF ScalarsTyped
    <3>2. CASE t.step = "store" /\ quote' = t.price /\ quoted' = (quoted \ {quote}) \cup {t.price}
      <4>1. t.price \in 1..Len(Quotes)
        BY <2>2, <3>2, PipelineOK
      <4> QED
        BY <1>0, <2>2, <3>2, <4>1 DEF ScalarsTyped
    <3> QED
      BY <2>3, <3>1, <3>2
  <2>5. given' \in BOOLEAN
    BY <1>0, <1>1 DEF CheckFee, ReadTransfer, FetchFee, LookUp, StoreFee, ScalarsTyped
  <2>6. leaked' \in BOOLEAN
    BY <1>0, <1>1 DEF CheckFee, ReadTransfer, FetchFee, LookUp, StoreFee, ScalarsTyped
  <2>7. refused' \in BOOLEAN
    BY <1>0, <1>1 DEF CheckFee, ReadTransfer, FetchFee, LookUp, StoreFee, Refuse, ScalarsTyped
  <2> QED
    BY <1>0, <2>1, <2>4, <2>5, <2>6, <2>7 DEF ScalarsTyped
<1>2. ASSUME NEW t \in tasks, SubmitToNear(t) PROVE ScalarsTyped'
  <2>1. place' \in Places
    <3>1. t.msg[1] # "theirs" /\ Fits(t.msg)
      BY <1>0, <1>2 DEF SubmitToNear, TaskInv, TaskOK
    <3>2. UNCHANGED <<route, offer>>
      BY <1>2 DEF SubmitToNear
    <3>3. CASE InTurn(t.msg) /\ Happens(t.msg)
      BY <3>1, <3>2, <3>3, HappensFits
    <3>4. CASE UNCHANGED <<place, events>>
      BY <1>0, <3>2, <3>4 DEF ScalarsTyped
    <3> QED
      BY <1>2, <3>3, <3>4 DEF SubmitToNear
  <2>2. UNCHANGED <<route, user, quote, quoted, refused, leaked>>
    BY <1>2 DEF SubmitToNear
  <2>3. forgot' \in BOOLEAN /\ given' \in BOOLEAN
    BY <1>0, <1>2 DEF SubmitToNear, ScalarsTyped
  <2> QED
    BY <1>0, <2>1, <2>2, <2>3 DEF ScalarsTyped
<1>3. ASSUME NEW t \in tasks, SubmitAbroad(t) PROVE ScalarsTyped'
  BY <1>0, <1>3 DEF SubmitAbroad, ScalarsTyped
<1>4. ASSUME NEW t \in tasks, Keep(t) PROVE ScalarsTyped'
  BY <1>0, <1>4 DEF Keep, ScalarsTyped
<1>5. ASSUME NEW t \in tasks, Leave(t) PROVE ScalarsTyped'
  BY <1>0, <1>5 DEF Leave, ScalarsTyped
<1>6. ASSUME NEW t \in tasks, Clean(t) PROVE ScalarsTyped'
  <2>1. UNCHANGED <<route, place, user, quoted, refused, given>>
    BY <1>6 DEF Clean
  <2>2. quote' = 0 \/ quote' = quote
    BY <1>6 DEF Clean
  <2>3. quote' \in 0..Len(Quotes)
    BY <1>0, <2>2, PipelineOK DEF ScalarsTyped
  <2>4. forgot' \in BOOLEAN
    BY <1>0, <1>6 DEF Clean, ScalarsTyped
  <2>5. leaked' \in BOOLEAN
    BY <1>0, <1>6 DEF Clean, ScalarsTyped
  <2> QED
    BY <1>0, <2>1, <2>3, <2>4, <2>5 DEF ScalarsTyped
<1>7. ASSUME NEW m \in Messages, Take(m) PROVE ScalarsTyped'
  BY <1>0, <1>7 DEF Take, ScalarsTyped
<1>8. ASSUME NEW m \in Messages, Ingest(m) PROVE ScalarsTyped'
  BY <1>0, <1>8 DEF Ingest, ScalarsTyped
<1>9. CASE Crash
  BY <1>0, <1>9 DEF Crash, ScalarsTyped
<1>10. CASE RaiseFee
  BY <1>0, <1>10 DEF RaiseFee, ScalarsTyped
<1>11. CASE ChangePrice
  BY <1>0, <1>11 DEF ChangePrice, ScalarsTyped
<1>12. CASE StopSender
  BY <1>0, <1>12 DEF StopSender, ScalarsTyped
<1>13. CASE RivalFinalises
  <2>1. CASE InTurn(<<"init", 0>>) /\ Happens(<<"init", 0>>)
    <3>1. Fits(<<"init", 0>>)
      BY <1>0, <2>1, PipelineOK DEF InTurn, Fits, StageInv, PipelineInv, Messages, Offers
    <3>2. UNCHANGED <<route, offer, price, stopped, quote, history>>
      BY <1>13 DEF RivalFinalises
    <3>3. <<"init", 0>>[1] # "theirs"
      OBVIOUS
    <3> HIDE DEF Happens
    <3> QED
      BY <1>0, <2>1, <3>1, <3>2, <3>3, HappensFits DEF ScalarsTyped
  <2>2. CASE place' = "claimed" /\ InTurn(<<"sign", 0>>) /\ UNCHANGED events
    BY <1>0, <1>13, <2>2 DEF RivalFinalises, Places, InTurn, ScalarsTyped
  <2> QED
    BY <1>13, <2>1, <2>2 DEF RivalFinalises
<1>14. CASE RivalSigns
  BY <1>0, <1>14 DEF RivalSigns, ScalarsTyped
<1>15. CASE UNCHANGED vars
  BY <1>0, <1>15 DEF ScalarsTyped
<1>16. ASSUME NEW m \in pooled, Include(m) PROVE ScalarsTyped'
  <2>1. UNCHANGED <<route, user, quote, quoted, refused>>
    BY <1>16 DEF Include
  <2>2. /\ forgot' \in BOOLEAN /\ leaked' \in BOOLEAN /\ given' \in BOOLEAN
    BY <1>0, <1>16 DEF Include, ScalarsTyped
  <2>3. place' \in Places
    <3>1. Fits(m) /\ m[1] # "theirs"
      BY DEF PipelineInv, StageInv
    <3>2. CASE InTurn(m) /\ Happens(m)
      BY <2>1, <3>1, <3>2, HappensFits
    <3>3. CASE UNCHANGED <<place, events>>
      BY <1>0, <3>3 DEF ScalarsTyped
    <3> QED
      BY <1>16, <3>2, <3>3 DEF Include
  <2> QED
    BY <1>0, <2>1, <2>2, <2>3 DEF ScalarsTyped
<1> QED
  BY <1>1, <1>2, <1>3, <1>4, <1>5, <1>6, <1>7, <1>8, <1>9, <1>10, <1>11, <1>12,
     <1>13, <1>14, <1>15, <1>16 DEF Next, Progress, Block, Step, World

(* What no step undoes. *)
OnlyOnward ==
    /\ route' = route
    /\ \A x : Fits(x) => Fits(x)'
    /\ place' = "locked" => route.from # "near"
    /\ place' = "stored" => route.to # "near"
    /\ Arrived => Arrived'

(* Every step takes the transfer onward only. *)
LEMMA OnwardStep ==
    ASSUME PipelineInv, [Next]_vars PROVE OnlyOnward
<1> USE PipelineOK DEF vars, history, user, Fail, Meddle, At
<1>0. StageInv /\ TaskInv
  BY DEF PipelineInv
<1>1. ASSUME NEW t \in tasks, CheckFee(t) PROVE OnlyOnward
  <2>1. UNCHANGED <<route, place>>
    BY <1>1 DEF CheckFee, ReadTransfer, FetchFee, LookUp, StoreFee
  <2> QED
    BY <1>0, <2>1 DEF OnlyOnward, StageInv, Fits, Arrived
<1>2. ASSUME NEW t \in tasks, SubmitToNear(t) PROVE OnlyOnward
  <2>1. t.msg[1] # "theirs" /\ Fits(t.msg)
    BY <1>0, <1>2 DEF SubmitToNear, TaskInv, TaskOK
  <2>2. UNCHANGED <<route, offer>>
    BY <1>2 DEF SubmitToNear
  <2>3. CASE InTurn(t.msg) /\ Happens(t.msg)
    BY <2>1, <2>2, <2>3, HappensFits DEF OnlyOnward
  <2>4. CASE UNCHANGED <<place, events>>
    BY <1>0, <2>2, <2>4 DEF Fits, Arrived, StageInv, OnlyOnward
  <2> QED
    BY <1>2, <2>3, <2>4 DEF SubmitToNear
<1>3. ASSUME NEW t \in tasks, SubmitAbroad(t) PROVE OnlyOnward
  BY <1>0, <1>3 DEF SubmitAbroad, OnlyOnward, StageInv, Fits, Arrived
<1>4. ASSUME NEW t \in tasks, Keep(t) PROVE OnlyOnward
  BY <1>0, <1>4 DEF Keep, OnlyOnward, StageInv, TaskInv, Fits, Arrived
<1>5. ASSUME NEW t \in tasks, Leave(t) PROVE OnlyOnward
  BY <1>0, <1>5 DEF Leave, OnlyOnward, StageInv, TaskInv, Fits, Arrived
<1>6. ASSUME NEW t \in tasks, Clean(t) PROVE OnlyOnward
  BY <1>0, <1>6 DEF Clean, OnlyOnward, StageInv, TaskInv, Fits, Arrived
<1>7. ASSUME NEW m \in Messages, Take(m) PROVE OnlyOnward
  BY <1>0, <1>7 DEF Take, OnlyOnward, StageInv, TaskInv, Fits, Arrived
<1>8. ASSUME NEW m \in Messages, Ingest(m) PROVE OnlyOnward
  BY <1>0, <1>8 DEF Ingest, OnlyOnward, StageInv, TaskInv, Fits, Arrived
<1>9. CASE Crash
  BY <1>0, <1>9 DEF Crash, OnlyOnward, StageInv, TaskInv, Fits, Arrived
<1>10. CASE RaiseFee
  BY <1>0, <1>10 DEF RaiseFee, OnlyOnward, StageInv, TaskInv, Fits, Arrived
<1>11. CASE ChangePrice
  BY <1>0, <1>11 DEF ChangePrice, OnlyOnward, StageInv, TaskInv, Fits, Arrived
<1>12. CASE StopSender
  BY <1>0, <1>12 DEF StopSender, OnlyOnward, StageInv, TaskInv, Fits, Arrived
<1>13. CASE RivalFinalises
  <2>1. CASE InTurn(<<"init", 0>>) /\ Happens(<<"init", 0>>)
    <3>1. Fits(<<"init", 0>>)
      BY <1>0, <2>1, PipelineOK DEF InTurn, Fits, StageInv, PipelineInv, Messages, Offers
    <3>2. UNCHANGED <<route, offer, price, stopped, quote, history>>
      BY <1>13 DEF RivalFinalises
    <3>3. <<"init", 0>>[1] # "theirs"
      OBVIOUS
    <3> HIDE DEF Happens
    <3> QED
      BY <1>0, <2>1, <3>1, <3>2, <3>3, HappensFits DEF OnlyOnward
  <2>2. CASE place' = "claimed" /\ InTurn(<<"sign", 0>>) /\ UNCHANGED events
    BY <1>0, <1>13, <2>2 DEF RivalFinalises, Places, InTurn, OnlyOnward, Fits, Arrived, StageInv
  <2> QED
    BY <1>13, <2>1, <2>2 DEF RivalFinalises
<1>14. CASE RivalSigns
  BY <1>0, <1>14 DEF RivalSigns, OnlyOnward, StageInv, TaskInv, Fits, Arrived
<1>15. CASE UNCHANGED vars
  BY <1>0, <1>15 DEF OnlyOnward, StageInv, TaskInv, Fits, Arrived
<1>16. ASSUME NEW m \in pooled, Include(m) PROVE OnlyOnward
  <2>1. Fits(m) /\ m[1] # "theirs"
    BY <1>0 DEF StageInv
  <2>2. UNCHANGED <<route, offer>>
    BY <1>16 DEF Include
  <2>3. CASE InTurn(m) /\ Happens(m)
    BY <2>1, <2>2, <2>3, HappensFits DEF OnlyOnward
  <2>4. CASE UNCHANGED <<place, events>>
    BY <1>0, <2>2, <2>4 DEF Fits, Arrived, StageInv, OnlyOnward
  <2> QED
    BY <1>16, <2>3, <2>4 DEF Include
<1> QED
  BY <1>1, <1>2, <1>3, <1>4, <1>5, <1>6, <1>7, <1>8, <1>9, <1>10, <1>11, <1>12,
     <1>13, <1>14, <1>15, <1>16 DEF Next, Progress, Block, Step, World

(* No step takes back that the quote was forgotten or leaked. *)
LEMMA HistoryStep ==
    ASSUME PipelineInv, [Next]_vars PROVE ((forgot => forgot') /\ (leaked => leaked'))
<1> USE PipelineOK DEF vars, history, user, Fail, Meddle, At
<1>1. ASSUME NEW t \in tasks, CheckFee(t) PROVE ((forgot => forgot') /\ (leaked => leaked'))
  <2>1. UNCHANGED forgot /\ (UNCHANGED leaked \/ leaked' = (leaked \/ t.msg \notin queue))
    BY <1>1 DEF CheckFee, ReadTransfer, FetchFee, LookUp, StoreFee
  <2>2. leaked \in BOOLEAN
    BY DEF PipelineInv, TypeOK
  <2> QED
    BY <2>1, <2>2
<1>2. ASSUME NEW t \in tasks, SubmitToNear(t) PROVE ((forgot => forgot') /\ (leaked => leaked'))
  BY <1>2 DEF SubmitToNear
<1>3. ASSUME NEW t \in tasks, SubmitAbroad(t) PROVE ((forgot => forgot') /\ (leaked => leaked'))
  BY <1>3 DEF SubmitAbroad
<1>4. ASSUME NEW t \in tasks, Keep(t) PROVE ((forgot => forgot') /\ (leaked => leaked'))
  BY <1>4 DEF Keep
<1>5. ASSUME NEW t \in tasks, Leave(t) PROVE ((forgot => forgot') /\ (leaked => leaked'))
  BY <1>5 DEF Leave
<1>6. ASSUME NEW t \in tasks, Clean(t) PROVE ((forgot => forgot') /\ (leaked => leaked'))
  <2>1. UNCHANGED leaked \/ leaked' = TRUE
    BY <1>6 DEF Clean
  <2>2. UNCHANGED forgot \/ forgot' = (forgot \/ t.outcome # "remove")
    BY <1>6 DEF Clean
  <2>3. forgot \in BOOLEAN /\ leaked \in BOOLEAN
    BY DEF PipelineInv, TypeOK
  <2>4. ASSUME leaked PROVE leaked'
    BY <2>1, <2>3, <2>4
  <2>5. ASSUME forgot PROVE forgot'
    BY <2>2, <2>3, <2>5
  <2> QED
    BY <2>4, <2>5
<1>7. ASSUME NEW m \in Messages, Take(m) PROVE ((forgot => forgot') /\ (leaked => leaked'))
  BY <1>7 DEF Take
<1>8. ASSUME NEW m \in Messages, Ingest(m) PROVE ((forgot => forgot') /\ (leaked => leaked'))
  BY <1>8 DEF Ingest
<1>9. CASE Crash
  BY <1>9 DEF Crash
<1>10. CASE RaiseFee
  BY <1>10 DEF RaiseFee
<1>11. CASE ChangePrice
  BY <1>11 DEF ChangePrice
<1>12. CASE StopSender
  BY <1>12 DEF StopSender
<1>13. CASE RivalFinalises
  BY <1>13 DEF RivalFinalises
<1>14. CASE RivalSigns
  BY <1>14 DEF RivalSigns
<1>15. CASE UNCHANGED vars
  BY <1>15
<1>16. ASSUME NEW m \in pooled, Include(m) PROVE ((forgot => forgot') /\ (leaked => leaked'))
  <2>1. /\ UNCHANGED forgot \/ forgot' = TRUE
        /\ UNCHANGED leaked \/ leaked' = (leaked \/ (quote # 0 /\ ~\E e \in queue \cup events : e[1] # "claim"))
    BY <1>16 DEF Include
  <2>2. leaked \in BOOLEAN
    BY DEF PipelineInv, TypeOK
  <2> QED
    BY <2>1, <2>2
<1> QED
  BY <1>1, <1>2, <1>3, <1>4, <1>5, <1>6, <1>7, <1>8, <1>9, <1>10, <1>11, <1>12,
     <1>13, <1>14, <1>15, <1>16 DEF Next, Progress, Block, Step, World

(* What a task publishes fits. *)
(* A quote that does not count any more does not come to count again: the  *)
(* transaction on its way ends at the destination or is given up.          *)
LEMMA SettledStep ==
    ASSUME PipelineInv, [Next]_vars PROVE Settled => Settled'
<1>1. (Arrived => Arrived') /\ (forgot => forgot')
  BY OnwardStep, HistoryStep DEF OnlyOnward
<1>2. CASE \E m \in pooled : Include(m)
  <2>1. PICK m \in pooled : Include(m)
    BY <1>2
  <2>2. Fits(m) /\ m[1] \in {"preinit", "sign"} /\ UNCHANGED <<route, offer>> /\ pooled' = pooled \ {m}
    BY <2>1 DEF PipelineInv, StageInv, Include, user
  <2>3. CASE m[1] = "sign"
    <3>1. CASE InTurn(m) /\ Happens(m)
      BY <2>2, <2>3, <3>1, HappensFits DEF Settled
    <3>2. CASE ~InTurn(m)
      BY <1>1, <2>2, <2>3, <3>2 DEF InTurn, Fits, Arrived, Settled
    <3>3. CASE forgot' = TRUE
      BY <3>3 DEF Settled
    <3> QED
      BY <2>1, <3>1, <3>2, <3>3 DEF Include
  <2>4. CASE m[1] # "sign"
    BY <1>1, <2>2, <2>4 DEF Settled, OnItsWay
  <2> QED
    BY <2>3, <2>4
<1>3. CASE ~\E m \in pooled : Include(m)
  <2>1. pooled \subseteq pooled'
    BY <1>3 DEF Next, Progress, Block, Step, World, CheckFee, ReadTransfer, FetchFee, LookUp, StoreFee,
          SubmitToNear, SubmitAbroad, Keep, Leave, Clean, Take, Ingest, Crash, RaiseFee, ChangePrice,
          StopSender, RivalFinalises, RivalSigns, vars
  <2> QED
    BY <1>1, <2>1 DEF Settled, OnItsWay
<1> QED
  BY <1>2, <1>3

LEMMA ProducedFits ==
    ASSUME PipelineInv, NEW t \in tasks PROVE \A m \in Produced(t) : Fits(m)
<1>1. Fits(t.msg)
  BY DEF PipelineInv, TaskInv, TaskOK
<1>2. t.msg[2] \in Offers
  BY <1>1, Parts DEF Fits
<1> QED
  BY <1>1, <1>2 DEF Produced, Fits, Messages

(* Every step keeps the messages fit for the route and the place. *)
LEMMA StageStep ==
    ASSUME PipelineInv, [Next]_vars PROVE StageInv'
<1> USE PipelineOK DEF vars, history, user, Fail, Meddle, At
<1>0. StageInv /\ TaskInv /\ OnlyOnward
  BY OnwardStep DEF PipelineInv
<1>1. ASSUME NEW t \in tasks, CheckFee(t) PROVE StageInv'
  <2>1. UNCHANGED <<events, queue, pooled>>
    BY <1>1 DEF CheckFee, ReadTransfer, FetchFee, LookUp, StoreFee
  <2> QED
    BY <1>0, <2>1 DEF StageInv, OnlyOnward
<1>2. ASSUME NEW t \in tasks, SubmitToNear(t) PROVE StageInv'
  <2>1. t.msg[1] # "theirs" /\ Fits(t.msg)
    BY <1>0, <1>2 DEF SubmitToNear, TaskInv, TaskOK
  <2>2. UNCHANGED <<route, offer, queue, pooled>>
    BY <1>2 DEF SubmitToNear
  <2>3. CASE InTurn(t.msg) /\ Happens(t.msg)
    BY <1>0, <2>1, <2>2, <2>3, HappensFits DEF StageInv, OnlyOnward
  <2>4. CASE UNCHANGED <<place, events>>
    BY <1>0, <2>2, <2>4 DEF StageInv, OnlyOnward
  <2> QED
    BY <1>2, <2>3, <2>4 DEF SubmitToNear
<1>3. ASSUME NEW t \in tasks, SubmitAbroad(t) PROVE StageInv'
  <2>1. Fits(t.msg) /\ t.msg[1] \in {"preinit", "sign"} /\ UNCHANGED <<events, queue>>
    BY <1>0, <1>3 DEF SubmitAbroad, TaskInv, TaskOK
  <2>2. t.msg \in {"preinit", "sign"} \X Offers
    BY <2>1 DEF Fits, Messages
  <2>3. pooled' = pooled \cup {t.msg} \/ pooled' = pooled
    BY <1>3 DEF SubmitAbroad
  <2> QED
    BY <1>0, <2>1, <2>2, <2>3 DEF StageInv, OnlyOnward
<1>4. ASSUME NEW t \in tasks, Keep(t) PROVE StageInv'
  BY <1>0, <1>4, ProducedFits DEF Keep, Publish, StageInv, TaskInv, OnlyOnward
<1>5. ASSUME NEW t \in tasks, Leave(t) PROVE StageInv'
  BY <1>0, <1>5, ProducedFits DEF Leave, StageInv, TaskInv, OnlyOnward
<1>6. ASSUME NEW t \in tasks, Clean(t) PROVE StageInv'
  BY <1>0, <1>6 DEF Clean, StageInv, TaskInv, OnlyOnward
<1>7. ASSUME NEW m \in Messages, Take(m) PROVE StageInv'
  BY <1>0, <1>7 DEF Take, StageInv, TaskInv, OnlyOnward
<1>8. ASSUME NEW m \in Messages, Ingest(m) PROVE StageInv'
  BY <1>0, <1>8 DEF Ingest, StageInv, TaskInv, OnlyOnward
<1>9. CASE Crash
  BY <1>0, <1>9 DEF Crash, StageInv, TaskInv, OnlyOnward
<1>10. CASE RaiseFee
  <2>1. UNCHANGED <<queue, pooled>> /\ \E f \in Offers : events' = events \cup {<<"near", f>>}
    BY <1>10 DEF RaiseFee
  <2>2. \A f \in Offers : Fits(<<"near", f>>)
    BY <1>10 DEF RaiseFee, Fits, Messages
  <2> QED
    BY <1>0, <2>1, <2>2 DEF StageInv, OnlyOnward
<1>11. CASE ChangePrice
  BY <1>0, <1>11 DEF ChangePrice, StageInv, TaskInv, OnlyOnward
<1>12. CASE StopSender
  BY <1>0, <1>12 DEF StopSender, StageInv, TaskInv, OnlyOnward
<1>13. CASE RivalFinalises
  <2>1. CASE InTurn(<<"init", 0>>) /\ Happens(<<"init", 0>>)
    <3>1. Fits(<<"init", 0>>)
      BY <1>0, <2>1, PipelineOK DEF InTurn, Fits, StageInv, PipelineInv, Messages, Offers
    <3>2. UNCHANGED <<route, offer, queue, pooled>>
      BY <1>13 DEF RivalFinalises
    <3>3. <<"init", 0>>[1] # "theirs"
      OBVIOUS
    <3> HIDE DEF Happens
    <3> QED
      BY <1>0, <2>1, <3>1, <3>2, <3>3, HappensFits DEF StageInv, OnlyOnward
  <2>2. CASE place' = "claimed" /\ InTurn(<<"sign", 0>>) /\ UNCHANGED events
    BY <1>0, <1>13, <2>2 DEF RivalFinalises, StageInv, OnlyOnward
  <2> QED
    BY <1>13, <2>1, <2>2 DEF RivalFinalises
<1>14. CASE RivalSigns
  <2>1. UNCHANGED <<queue, pooled>> /\ events' = events \cup {<<"theirs", 0>>}
    BY <1>14 DEF RivalSigns
  <2>2. Fits(<<"theirs", 0>>)
    BY <1>0, <1>14 DEF RivalSigns, Fits, Messages, StageInv
  <2> QED
    BY <1>0, <2>1, <2>2 DEF StageInv, OnlyOnward
<1>15. CASE UNCHANGED vars
  BY <1>0, <1>15 DEF StageInv, TaskInv, OnlyOnward
<1>16. ASSUME NEW m \in pooled, Include(m) PROVE StageInv'
  <2>1. Fits(m) /\ m[1] # "theirs"
    BY <1>0 DEF StageInv
  <2>2. UNCHANGED <<route, offer, queue>> /\ pooled' = pooled \ {m}
    BY <1>16 DEF Include
  <2>3. CASE InTurn(m) /\ Happens(m)
    BY <1>0, <2>1, <2>2, <2>3, HappensFits DEF StageInv, OnlyOnward
  <2>4. CASE UNCHANGED <<place, events>>
    BY <1>0, <2>2, <2>4 DEF StageInv, OnlyOnward
  <2> QED
    BY <1>16, <2>3, <2>4 DEF Include
<1> QED
  BY <1>1, <1>2, <1>3, <1>4, <1>5, <1>6, <1>7, <1>8, <1>9, <1>10, <1>11, <1>12,
     <1>13, <1>14, <1>15, <1>16 DEF Next, Progress, Block, Step, World

(* The task that takes the place of one that goes on or is decided. *)
LEMMA Successor ==
    ASSUME TasksTyped, NEW t \in tasks
    PROVE  /\ \A step : Go(t, step) =>
                 \E u : /\ tasks' = (tasks \ {t}) \cup {u} /\ u.msg = t.msg
                       /\ u.step = step /\ u.outcome = t.outcome
           /\ \A outcome : Decide(t, outcome) =>
                 \E u : /\ tasks' = (tasks \ {t}) \cup {u} /\ u.msg = t.msg
                       /\ u.step = "settle" /\ u.outcome = outcome
<1>1. t \in Task
  BY DEF TasksTyped
<1>2. ASSUME NEW step, Go(t, step)
      PROVE  \E u : /\ tasks' = (tasks \ {t}) \cup {u} /\ u.msg = t.msg
                   /\ u.step = step /\ u.outcome = t.outcome
  <2> DEFINE v == [t EXCEPT !.step = step, !.fee = 0, !.price = 0]
  <2>1. v.msg = t.msg /\ v.step = step /\ v.outcome = t.outcome
    BY <1>1 DEF Task
  <2>2. tasks' = (tasks \ {t}) \cup {v}
    BY <1>2 DEF Go, Become
  <2> HIDE DEF v
  <2> QED
    BY <2>1, <2>2
<1>3. ASSUME NEW outcome, Decide(t, outcome)
      PROVE  \E u : /\ tasks' = (tasks \ {t}) \cup {u} /\ u.msg = t.msg
                   /\ u.step = "settle" /\ u.outcome = outcome
  <2> DEFINE v == [t EXCEPT !.step = "settle", !.outcome = outcome, !.fee = 0, !.price = 0]
  <2>1. v.msg = t.msg /\ v.step = "settle" /\ v.outcome = outcome
    BY <1>1 DEF Task
  <2>2. tasks' = (tasks \ {t}) \cup {v}
    BY <1>3 DEF Decide, Become
  <2> HIDE DEF v
  <2> QED
    BY <2>1, <2>2
<1> QED
  BY <1>2, <1>3

(* A task that stays in the task set stays what it should be. *)
LEMMA TaskKept ==
    ASSUME OnlyOnward, Settled => Settled', NEW t, TaskOK(t) PROVE TaskOK(t)'
BY DEF OnlyOnward, TaskOK, OwnsFeeKey

(* Every step keeps the tasks consistent with what they have done. *)
LEMMA TaskStep ==
    ASSUME PipelineInv, [Next]_vars PROVE TaskInv'
<1> USE PipelineOK DEF vars, history, user, Fail, Meddle, At
<1>0. /\ StageInv /\ TaskInv /\ ScalarsTyped /\ TasksTyped /\ OnlyOnward /\ IsFiniteSet(tasks')
      /\ \A t : TaskOK(t) => TaskOK(t)'
  BY OnwardStep, SettledStep, TasksTypedStep, TaskKept
     DEF PipelineInv, TypeOK, TaskInv, TasksTyped, Task, Steps, Outcomes, ScalarsTyped
<1>1. ASSUME NEW t \in tasks, CheckFee(t) PROVE TaskInv'
  <2>0. t \in Task /\ TaskOK(t)
    BY <1>0 DEF TasksTyped, TaskInv
  <2>1. SUFFICES \E u : tasks' = (tasks \ {t}) \cup {u} /\ TaskOK(u)
    BY <1>0 DEF TaskInv
  <2>2. \/ Decide(t, "retry") \/ Decide(t, "drop")
        \/ t.step \in {"fee", "lookup"} /\ Go(t, "submit")
        \/ t.step = "read" /\ Become(t, [t EXCEPT !.step = "fee", !.fee = offer])
        \/ t.step = "fee" /\ Become(t, [t EXCEPT !.step = "lookup", !.price = price])
        \/ t.step = "lookup" /\ Become(t, [t EXCEPT !.step = "store"])
    BY <1>1 DEF CheckFee, ReadTransfer, FetchFee, LookUp, StoreFee
  <2>3. ASSUME NEW outcome \in {"retry", "drop"}, Decide(t, outcome)
        PROVE  \E u : tasks' = (tasks \ {t}) \cup {u} /\ TaskOK(u)
    <3>1. PICK u : /\ tasks' = (tasks \ {t}) \cup {u} /\ u.msg = t.msg
                   /\ u.step = "settle" /\ u.outcome = outcome
      BY <1>0, <2>3, Successor
    <3>2. TaskOK(u)
      BY <2>0, <3>1 DEF TaskOK
    <3> QED
      BY <3>1, <3>2
  <2>4. CASE t.step \in {"fee", "lookup"} /\ Go(t, "submit")
    <3>1. PICK u : tasks' = (tasks \ {t}) \cup {u} /\ u.msg = t.msg /\ u.step = "submit"
      BY <1>0, <2>4, Successor
    <3>2. TaskOK(u)
      BY <2>0, <2>4, <3>1 DEF TaskOK
    <3> QED
      BY <3>1, <3>2
  <2>5. CASE t.step = "read" /\ Become(t, [t EXCEPT !.step = "fee", !.fee = offer])
    <3>1. TaskOK([t EXCEPT !.step = "fee", !.fee = offer])
      BY <2>0, <2>5 DEF Task, TaskOK
    <3> QED
      BY <2>5, <3>1 DEF Become
  <2>6. CASE t.step = "fee" /\ Become(t, [t EXCEPT !.step = "lookup", !.price = price])
    <3>1. price # 0
      BY <1>0, PipelineOK DEF ScalarsTyped
    <3>2. TaskOK([t EXCEPT !.step = "lookup", !.price = price])
      BY <2>0, <2>6, <3>1 DEF Task, TaskOK
    <3> QED
      BY <2>6, <3>2 DEF Become
  <2>7. CASE t.step = "lookup" /\ Become(t, [t EXCEPT !.step = "store"])
    <3>1. TaskOK([t EXCEPT !.step = "store"])
      BY <2>0, <2>7 DEF Task, TaskOK
    <3> QED
      BY <2>7, <3>1 DEF Become
  <2> QED
    BY <2>2, <2>3, <2>4, <2>5, <2>6, <2>7
<1>2. ASSUME NEW t \in tasks, SubmitToNear(t) PROVE TaskInv'
  <2>0. t \in Task
    BY <1>0 DEF TasksTyped
  <2>8. \/ Decide(t, "remove") /\ InTurn(t.msg) /\ Happens(t.msg)
        \/ Decide(t, "drop") \/ Decide(t, "retry")
    BY <1>2 DEF SubmitToNear
  <2>1. PICK u : /\ tasks' = (tasks \ {t}) \cup {u} /\ u.msg = t.msg /\ u.step = "settle"
                 /\ u.outcome = "remove" => InTurn(t.msg) /\ Happens(t.msg)
    <3>1. CASE Decide(t, "remove") /\ InTurn(t.msg) /\ Happens(t.msg)
      BY <1>0, <3>1, Successor
    <3>2. CASE Decide(t, "drop")
      BY <1>0, <3>2, Successor
    <3>3. CASE Decide(t, "retry")
      BY <1>0, <3>3, Successor
    <3> QED
      BY <2>8, <3>1, <3>2, <3>3
  <2>2. Fits(t.msg) /\ t.msg[1] # "theirs" /\ UNCHANGED <<route, offer>>
    BY <1>0, <1>2 DEF SubmitToNear, TaskInv, TaskOK
  <2>3. Fits(t.msg)'
    BY <1>0, <2>2 DEF OnlyOnward
  <2>4. ASSUME u.outcome = "remove", OwnsFeeKey(t.msg, "remove") PROVE Settled'
    <3>1. t.msg[1] = "init" /\ route.to = "near"
      BY <1>2, <2>4 DEF SubmitToNear, OwnsFeeKey
    <3>2. InTurn(t.msg) /\ Happens(t.msg)
      BY <2>1, <2>4
    <3> QED
      BY <2>2, <3>1, <3>2, HappensFits DEF Settled
  <2>5. TaskOK(u)'
    BY <2>1, <2>3, <2>4, <2>2 DEF TaskOK, OwnsFeeKey
  <2> QED
    BY <1>0, <2>1, <2>5 DEF TaskInv
<1>3. ASSUME NEW t \in tasks, SubmitAbroad(t) PROVE TaskInv'
  <2>1. \/ Decide(t, "remove") /\ pooled' = pooled \cup {t.msg}
        \/ Decide(t, "drop") \/ Decide(t, "retry")
    BY <1>3 DEF SubmitAbroad
  <2>2. PICK u : /\ tasks' = (tasks \ {t}) \cup {u} /\ u.msg = t.msg /\ u.step = "settle"
                 /\ u.outcome = "remove" => t.msg \in pooled'
    <3>1. CASE Decide(t, "remove") /\ pooled' = pooled \cup {t.msg}
      BY <1>0, <3>1, Successor
    <3>2. CASE Decide(t, "drop")
      BY <1>0, <3>2, Successor
    <3>3. CASE Decide(t, "retry")
      BY <1>0, <3>3, Successor
    <3> QED
      BY <2>1, <3>1, <3>2, <3>3
  <2>3. Fits(t.msg) /\ Fits(t.msg)' /\ t.msg[1] \in {"preinit", "sign"}
    BY <1>0, <1>3 DEF SubmitAbroad, TaskInv, TaskOK, OnlyOnward
  <2>4. u.outcome = "remove" /\ OwnsFeeKey(t.msg, "remove") => Settled'
    BY <2>2, <2>3 DEF OwnsFeeKey, Settled, OnItsWay
  <2>5. TaskOK(u)'
    BY <1>0, <2>2, <2>3, <2>4 DEF TaskOK, OwnsFeeKey, OnlyOnward
  <2> QED
    BY <1>0, <2>2, <2>5 DEF TaskInv
<1>4. ASSUME NEW t \in tasks, Keep(t) PROVE TaskInv'
  BY <1>0, <1>4 DEF Keep, Rest, TaskInv
<1>5. ASSUME NEW t \in tasks, Leave(t) PROVE TaskInv'
  <2>0. t \in Task
    BY <1>0 DEF TasksTyped
  <2>1. CASE Rest(t)
    BY <1>0, <2>1 DEF Rest, TaskInv
  <2>2. CASE OwnsFeeKey(t.msg, t.outcome) /\ Go(t, "clean")
    <3>1. PICK u : tasks' = (tasks \ {t}) \cup {u} /\ u.msg = t.msg /\ u.step = "clean" /\ u.outcome = t.outcome
      BY <1>0, <2>2, Successor
    <3>2. TaskOK(t) /\ t.step = "settle"
      BY <1>0, <1>5 DEF Leave, TaskInv
    <3>3. TaskOK(u)
      BY <2>2, <3>1, <3>2 DEF TaskOK
    <3> QED
      BY <1>0, <3>1, <3>3 DEF TaskInv
  <2> QED
    BY <1>5, <2>1, <2>2 DEF Leave
<1>6. ASSUME NEW t \in tasks, Clean(t) PROVE TaskInv'
  BY <1>0, <1>6 DEF Clean, Rest, TaskInv
<1>7. ASSUME NEW m \in Messages, Take(m) PROVE TaskInv'
  <2> DEFINE Begun(step, outcome) == [msg |-> m, again |-> \E t \in tasks : t.msg = m,
                                      step |-> step, outcome |-> outcome,
                                      fee |-> 0, price |-> 0]
  <2>1. Fits(m) /\ m[1] \in {"preinit", "init", "near", "sign", "theirs", "claim"}
    BY <1>0, <1>7, Parts DEF Take, StageInv, Fits
  <2>2. PICK u : /\ tasks' = tasks \cup {u} /\ u.msg = m
                 /\ \/ u.step = "settle" /\ u.outcome = "drop"
                    \/ u.step = "settle" /\ m[1] \in {"preinit", "claim"}
                    \/ u.step = FirstStep(m) /\ m[1] # "theirs"
    <3>1. \/ tasks' = tasks \cup {Begun("settle", "drop")}
          \/ m[1] \in {"preinit", "claim"} /\ tasks' = tasks \cup {Begun("settle", "remove")}
          \/ m[1] # "theirs" /\ tasks' = tasks \cup {Begun(FirstStep(m), "")}
      BY <1>7 DEF Take
    <3>2. \A step, outcome : /\ Begun(step, outcome).msg = m
                            /\ Begun(step, outcome).step = step
                            /\ Begun(step, outcome).outcome = outcome
      OBVIOUS
    <3> HIDE DEF Begun
    <3>3. CASE tasks' = tasks \cup {Begun("settle", "drop")}
      <4>1. /\ Begun("settle", "drop").msg = m /\ Begun("settle", "drop").step = "settle"
            /\ Begun("settle", "drop").outcome = "drop"
        BY <3>2
      <4> QED
        BY <3>3, <4>1
    <3>4. CASE m[1] \in {"preinit", "claim"} /\ tasks' = tasks \cup {Begun("settle", "remove")}
      <4>1. /\ Begun("settle", "remove").msg = m /\ Begun("settle", "remove").step = "settle"
            /\ Begun("settle", "remove").outcome = "remove"
        BY <3>2
      <4> QED
        BY <3>4, <4>1
    <3>5. CASE m[1] # "theirs" /\ tasks' = tasks \cup {Begun(FirstStep(m), "")}
      <4>1. Begun(FirstStep(m), "").msg = m /\ Begun(FirstStep(m), "").step = FirstStep(m)
        BY <3>2
      <4> QED
        BY <3>5, <4>1
    <3> QED
      BY <3>1, <3>3, <3>4, <3>5
  <2>3. TaskOK(u)
    BY <2>1, <2>2 DEF TaskOK, OwnsFeeKey, FirstStep
  <2> QED
    BY <1>0, <2>2, <2>3 DEF TaskInv
<1>8. ASSUME NEW m \in Messages, Ingest(m) PROVE TaskInv'
  BY <1>0, <1>8 DEF Ingest, StageInv, TaskInv
<1>9. CASE Crash
  BY <1>0, <1>9 DEF Crash, TaskInv
<1>10. CASE RaiseFee
  BY <1>0, <1>10 DEF RaiseFee, StageInv, TaskInv
<1>11. CASE ChangePrice
  BY <1>0, <1>11 DEF ChangePrice, StageInv, TaskInv
<1>12. CASE StopSender
  BY <1>0, <1>12 DEF StopSender, StageInv, TaskInv
<1>13. CASE RivalFinalises
  BY <1>0, <1>13 DEF RivalFinalises, StageInv, TaskInv
<1>14. CASE RivalSigns
  BY <1>0, <1>14 DEF RivalSigns, StageInv, TaskInv
<1>15. CASE UNCHANGED vars
  BY <1>0, <1>15 DEF StageInv, TaskInv
<1>16. ASSUME NEW m \in pooled, Include(m) PROVE TaskInv'
  BY <1>0, <1>16 DEF Include, TaskInv
<1> QED
  BY <1>1, <1>2, <1>3, <1>4, <1>5, <1>6, <1>7, <1>8, <1>9, <1>10, <1>11, <1>12,
     <1>13, <1>14, <1>15, <1>16 DEF Next, Progress, Block, Step, World

(* Every step keeps the entry and the quotes that were stored together. *)
LEMMA QuoteStep ==
    ASSUME PipelineInv, [Next]_vars PROVE QuoteInv'
<1> USE PipelineOK DEF vars, history, user, Fail, Meddle, At
<1>0. QuoteInv /\ TaskInv /\ ScalarsTyped /\ (Settled => Settled')
  BY SettledStep DEF PipelineInv, TypeOK, ScalarsTyped
<1>1. ASSUME NEW t \in tasks, CheckFee(t) PROVE QuoteInv'
  <2>1. \/ UNCHANGED <<quote, quoted>>
        \/ t.step = "store" /\ quote' = t.price /\ quoted' = (quoted \ {quote}) \cup {t.price}
    BY <1>1 DEF CheckFee, ReadTransfer, FetchFee, LookUp, StoreFee
  <2>2. t.step = "store" => t.price # 0
    BY <1>0 DEF TaskInv, TaskOK
  <2> QED
    BY <1>0, <2>1, <2>2 DEF QuoteInv
<1>2. ASSUME NEW t \in tasks, SubmitToNear(t) PROVE QuoteInv'
  <2>1. UNCHANGED <<quote, quoted>>
    BY <1>2 DEF SubmitToNear
  <2> QED
    BY <1>0, <2>1 DEF QuoteInv
<1>3. ASSUME NEW t \in tasks, SubmitAbroad(t) PROVE QuoteInv'
  <2>1. UNCHANGED <<quote, quoted>>
    BY <1>3 DEF SubmitAbroad
  <2> QED
    BY <1>0, <2>1 DEF QuoteInv
<1>4. ASSUME NEW t \in tasks, Keep(t) PROVE QuoteInv'
  <2>1. UNCHANGED <<quote, quoted>>
    BY <1>4 DEF Keep
  <2> QED
    BY <1>0, <2>1 DEF QuoteInv
<1>5. ASSUME NEW t \in tasks, Leave(t) PROVE QuoteInv'
  <2>1. UNCHANGED <<quote, quoted>>
    BY <1>5 DEF Leave
  <2> QED
    BY <1>0, <2>1 DEF QuoteInv
<1>6. ASSUME NEW t \in tasks, Clean(t) PROVE QuoteInv'
  <2>1. \/ UNCHANGED <<quote, quoted>>
        \/ UNCHANGED quoted /\ forgot' = (forgot \/ t.outcome # "remove")
    BY <1>6 DEF Clean
  <2>2. OwnsFeeKey(t.msg, t.outcome) /\ t.step = "clean"
    BY <1>0, <1>6 DEF Clean, TaskInv, TaskOK
  <2>3. CASE t.outcome = "remove"
    <3>1. Settled
      BY <1>0, <2>2, <2>3 DEF TaskInv, TaskOK
    <3> QED
      BY <1>0, <3>1 DEF QuoteInv
  <2>4. CASE t.outcome # "remove"
    <3>1. UNCHANGED <<quote, quoted>> \/ Settled'
      BY <1>0, <2>1, <2>4 DEF ScalarsTyped, Settled
    <3> QED
      BY <1>0, <3>1 DEF QuoteInv
  <2> QED
    BY <2>3, <2>4
<1>7. ASSUME NEW m \in Messages, Take(m) PROVE QuoteInv'
  <2>1. UNCHANGED <<quote, quoted>>
    BY <1>7 DEF Take
  <2> QED
    BY <1>0, <2>1 DEF QuoteInv
<1>8. ASSUME NEW m \in Messages, Ingest(m) PROVE QuoteInv'
  <2>1. UNCHANGED <<quote, quoted>>
    BY <1>8 DEF Ingest
  <2> QED
    BY <1>0, <2>1 DEF QuoteInv
<1>9. CASE Crash
  <2>1. UNCHANGED <<quote, quoted>>
    BY <1>9 DEF Crash
  <2> QED
    BY <1>0, <2>1 DEF QuoteInv
<1>10. CASE RaiseFee
  <2>1. UNCHANGED <<quote, quoted>>
    BY <1>10 DEF RaiseFee
  <2> QED
    BY <1>0, <2>1 DEF QuoteInv
<1>11. CASE ChangePrice
  <2>1. UNCHANGED <<quote, quoted>>
    BY <1>11 DEF ChangePrice
  <2> QED
    BY <1>0, <2>1 DEF QuoteInv
<1>12. CASE StopSender
  <2>1. UNCHANGED <<quote, quoted>>
    BY <1>12 DEF StopSender
  <2> QED
    BY <1>0, <2>1 DEF QuoteInv
<1>13. CASE RivalFinalises
  <2>1. UNCHANGED <<quote, quoted>>
    BY <1>13 DEF RivalFinalises
  <2> QED
    BY <1>0, <2>1 DEF QuoteInv
<1>14. CASE RivalSigns
  <2>1. UNCHANGED <<quote, quoted>>
    BY <1>14 DEF RivalSigns
  <2> QED
    BY <1>0, <2>1 DEF QuoteInv
<1>15. CASE UNCHANGED vars
  BY <1>0, <1>15 DEF QuoteInv, Settled, Arrived, OnItsWay
<1>16. ASSUME NEW m \in pooled, Include(m) PROVE QuoteInv'
  <2>1. UNCHANGED <<quote, quoted>>
    BY <1>16 DEF Include
  <2> QED
    BY <1>0, <2>1 DEF QuoteInv
<1> QED
  BY <1>1, <1>2, <1>3, <1>4, <1>5, <1>6, <1>7, <1>8, <1>9, <1>10, <1>11, <1>12,
     <1>13, <1>14, <1>15, <1>16 DEF Next, Progress, Block, Step, World

(* No step refuses a fee that meets a stored quote. *)
LEMMA HonouredStep ==
    ASSUME PipelineInv, [Next]_vars PROVE QuoteHonoured'
<1> USE PipelineOK DEF vars, history, user, Fail, Meddle, At
<1>0. QuoteInv /\ QuoteHonoured
  BY DEF PipelineInv
<1>1. ASSUME NEW t \in tasks, CheckFee(t) PROVE QuoteHonoured'
  <2>1. CASE UNCHANGED refused
    BY <1>0, <2>1 DEF QuoteHonoured
  <2>2. CASE Refuse(Provided(t)) /\ (quote = 0 \/ ~Sufficient(quote, Provided(t)))
    <3>1. ~(/\ ~forgot /\ place \notin {"paid", "claimed"} /\ ~OnItsWay
            /\ \E q \in quoted : Sufficient(q, Provided(t)))
      BY <1>0, <2>2 DEF QuoteInv, Settled, Arrived
    <3> QED
      BY <1>0, <2>2, <3>1 DEF Refuse, QuoteHonoured
  <2> QED
    BY <1>1, <2>1, <2>2 DEF CheckFee, ReadTransfer, FetchFee, LookUp, StoreFee
<1>2. ASSUME NEW t \in tasks, SubmitToNear(t) PROVE QuoteHonoured'
  BY <1>0, <1>2 DEF SubmitToNear, QuoteInv, QuoteHonoured
<1>3. ASSUME NEW t \in tasks, SubmitAbroad(t) PROVE QuoteHonoured'
  BY <1>0, <1>3 DEF SubmitAbroad, QuoteInv, QuoteHonoured
<1>4. ASSUME NEW t \in tasks, Keep(t) PROVE QuoteHonoured'
  BY <1>0, <1>4 DEF Keep, QuoteInv, QuoteHonoured
<1>5. ASSUME NEW t \in tasks, Leave(t) PROVE QuoteHonoured'
  BY <1>0, <1>5 DEF Leave, QuoteInv, QuoteHonoured
<1>6. ASSUME NEW t \in tasks, Clean(t) PROVE QuoteHonoured'
  BY <1>0, <1>6 DEF Clean, QuoteInv, QuoteHonoured
<1>7. ASSUME NEW m \in Messages, Take(m) PROVE QuoteHonoured'
  BY <1>0, <1>7 DEF Take, QuoteInv, QuoteHonoured
<1>8. ASSUME NEW m \in Messages, Ingest(m) PROVE QuoteHonoured'
  BY <1>0, <1>8 DEF Ingest, QuoteInv, QuoteHonoured
<1>9. CASE Crash
  BY <1>0, <1>9 DEF Crash, QuoteInv, QuoteHonoured
<1>10. CASE RaiseFee
  BY <1>0, <1>10 DEF RaiseFee, QuoteInv, QuoteHonoured
<1>11. CASE ChangePrice
  BY <1>0, <1>11 DEF ChangePrice, QuoteInv, QuoteHonoured
<1>12. CASE StopSender
  BY <1>0, <1>12 DEF StopSender, QuoteInv, QuoteHonoured
<1>13. CASE RivalFinalises
  BY <1>0, <1>13 DEF RivalFinalises, QuoteInv, QuoteHonoured
<1>14. CASE RivalSigns
  BY <1>0, <1>14 DEF RivalSigns, QuoteInv, QuoteHonoured
<1>15. CASE UNCHANGED vars
  BY <1>0, <1>15 DEF QuoteInv, QuoteHonoured
<1>16. ASSUME NEW m \in pooled, Include(m) PROVE QuoteHonoured'
  BY <1>0, <1>16 DEF Include, QuoteHonoured
<1> QED
  BY <1>1, <1>2, <1>3, <1>4, <1>5, <1>6, <1>7, <1>8, <1>9, <1>10, <1>11, <1>12,
     <1>13, <1>14, <1>15, <1>16 DEF Next, Progress, Block, Step, World

(* Every step keeps somebody to delete an entry that is not leaked. *)
LEMMA KeyStep ==
    ASSUME PipelineInv, [Next]_vars PROVE KeyInv'
<1> USE PipelineOK DEF vars, history, user, Fail, Meddle, At
<1>0. KeyInv /\ TaskInv /\ TasksTyped /\ (leaked => leaked')
  BY HistoryStep DEF PipelineInv, TypeOK, TaskInv, TasksTyped, Task, Steps, Outcomes
<1>1. ASSUME NEW t \in tasks, CheckFee(t) PROVE KeyInv'
  <2>1. UNCHANGED <<queue, events, place, pooled>> /\ tasks \ {t} \subseteq tasks' /\ t.step # "clean"
    BY <1>1 DEF CheckFee, ReadTransfer, FetchFee, LookUp, StoreFee, Go, Decide, Become
  <2>2. CASE UNCHANGED quote
    BY <1>0, <2>1, <2>2 DEF KeyInv, Ahead
  <2>3. CASE t.step = "store" /\ leaked' = (leaked \/ t.msg \notin queue)
    <3>1. t.msg[1] # "claim"
      BY <1>0, <2>3 DEF TaskInv, TaskOK
    <3>2. CASE t.msg \in queue
      BY <2>1, <3>1, <3>2 DEF KeyInv, Ahead
    <3>3. CASE t.msg \notin queue
      BY <2>3, <3>3 DEF KeyInv
    <3> QED
      BY <3>2, <3>3
  <2> QED
    BY <1>1, <2>2, <2>3 DEF CheckFee, ReadTransfer, FetchFee, LookUp, StoreFee
<1>2. ASSUME NEW t \in tasks, SubmitToNear(t) PROVE KeyInv'
  <2>1. tasks \ {t} \subseteq tasks' /\ t.step # "clean"
    BY <1>2 DEF SubmitToNear, Decide, Become
  <2>2. UNCHANGED <<queue, pooled, quote, leaked>> /\ events \subseteq events'
    BY <1>2 DEF SubmitToNear, Happens
  <2>3. place = "committed" => place' = "committed"
    BY <1>2 DEF SubmitToNear, InTurn
  <2> QED
    BY <1>0, <2>1, <2>2, <2>3 DEF KeyInv, Ahead
<1>3. ASSUME NEW t \in tasks, SubmitAbroad(t) PROVE KeyInv'
  <2>1. tasks \ {t} \subseteq tasks' /\ t.step # "clean"
    BY <1>3 DEF SubmitAbroad, Decide, Become
  <2>2. UNCHANGED <<queue, events, place, quote, leaked>> /\ pooled \subseteq pooled'
    BY <1>3 DEF SubmitAbroad
  <2> QED
    BY <1>0, <2>1, <2>2 DEF KeyInv, Ahead
<1>4. ASSUME NEW t \in tasks, Keep(t) PROVE KeyInv'
  <2>1. UNCHANGED <<events, place, pooled, quote, leaked>> /\ queue \subseteq queue'
    BY <1>4 DEF Keep, Publish
  <2>2. tasks \ {t} \subseteq tasks' /\ t.step # "clean"
    BY <1>4 DEF Keep, Rest
  <2> QED
    BY <1>0, <2>1, <2>2 DEF KeyInv, Ahead
<1>5. ASSUME NEW t \in tasks, Leave(t) PROVE KeyInv'
  <2>1. UNCHANGED <<events, place, pooled, quote>> /\ queue \ {t.msg} \subseteq queue'
    BY <1>5 DEF Leave
  <2>2. tasks \ {t} \subseteq tasks' /\ t.step # "clean"
    BY <1>5 DEF Leave, Rest, Go, Become
  <2>3. CASE t.msg[1] = "claim"
    BY <1>0, <2>1, <2>2, <2>3 DEF KeyInv, Ahead
  <2>4. CASE OwnsFeeKey(t.msg, t.outcome)
    <3>1. Go(t, "clean")
      BY <1>5, <2>4 DEF Leave
    <3>2. PICK u : tasks' = (tasks \ {t}) \cup {u} /\ u.step = "clean"
      BY <1>0, <3>1, Successor
    <3> QED
      BY <3>2 DEF KeyInv
  <2>5. CASE t.msg[1] # "claim" /\ ~OwnsFeeKey(t.msg, t.outcome) /\ quote # 0
    <3>1. CASE Ahead(queue' \cup events)
      BY <2>1, <3>1 DEF KeyInv, Ahead
    <3>2. CASE ~Ahead(queue' \cup events)
      <4>1. LeavesEntry(t, t.msg, queue' \cup events)
        <5>1. t.msg[1] \in {"preinit", "init", "near", "sign", "theirs", "claim"}
          BY <1>0 DEF PipelineInv, TaskInv, TaskOK, Fits, Messages
        <5> QED
          BY <2>5, <3>2, <5>1 DEF LeavesEntry, OwnsFeeKey
      <4>2. leaked' = (leaked \/ LeavesEntry(t, t.msg, queue' \cup events))
        BY <1>5 DEF Leave
      <4> QED
        BY <4>1, <4>2 DEF KeyInv
    <3> QED
      BY <3>1, <3>2
  <2>6. CASE quote = 0
    BY <2>1, <2>6 DEF KeyInv
  <2> QED
    BY <2>3, <2>4, <2>5, <2>6
<1>6. ASSUME NEW t \in tasks, Clean(t) PROVE KeyInv'
  <2>1. quote' = 0 \/ leaked' = TRUE
    BY <1>6 DEF Clean
  <2> QED
    BY <2>1 DEF KeyInv
<1>7. ASSUME NEW m \in Messages, Take(m) PROVE KeyInv'
  <2>1. UNCHANGED <<queue, events, place, pooled, quote, leaked>> /\ tasks \subseteq tasks'
    BY <1>7 DEF Take
  <2> QED
    BY <1>0, <2>1 DEF KeyInv, Ahead
<1>8. ASSUME NEW m \in Messages, Ingest(m) PROVE KeyInv'
  BY <1>0, <1>8 DEF Ingest, KeyInv, TaskInv, Ahead
<1>9. CASE Crash
  <2>1. UNCHANGED <<queue, events, place, pooled, quote>>
    BY <1>9 DEF Crash
  <2>2. CASE \E t \in tasks : t.step = "clean"
    BY <1>9, <2>2 DEF Crash, KeyInv
  <2>3. CASE ~\E t \in tasks : t.step = "clean"
    BY <1>0, <2>1, <2>3 DEF KeyInv, Ahead
  <2> QED
    BY <2>2, <2>3
<1>10. CASE RaiseFee
  BY <1>0, <1>10 DEF RaiseFee, KeyInv, TaskInv, Ahead
<1>11. CASE ChangePrice
  BY <1>0, <1>11 DEF ChangePrice, KeyInv, TaskInv, Ahead
<1>12. CASE StopSender
  BY <1>0, <1>12 DEF StopSender, KeyInv, TaskInv, Ahead
<1>13. CASE RivalFinalises
  <2>1. UNCHANGED <<queue, tasks, pooled, quote, leaked>> /\ events \subseteq events'
    BY <1>13 DEF RivalFinalises, Happens
  <2>2. place = "committed" => place' = "committed"
    BY <1>13 DEF RivalFinalises, InTurn
  <2> QED
    BY <1>0, <2>1, <2>2 DEF KeyInv, Ahead
<1>14. CASE RivalSigns
  BY <1>0, <1>14 DEF RivalSigns, KeyInv, TaskInv, Ahead
<1>15. CASE UNCHANGED vars
  BY <1>0, <1>15 DEF KeyInv, TaskInv, Ahead
<1>16. ASSUME NEW m \in pooled, Include(m) PROVE KeyInv'
  <2>1. /\ UNCHANGED <<queue, tasks, quote>> /\ pooled' = pooled \ {m} /\ events \subseteq events'
        /\ m[1] \in {"preinit", "sign"}
    BY <1>16 DEF Include, Happens, PipelineInv, StageInv
  <2>2. CASE InTurn(m) /\ Happens(m) /\ UNCHANGED leaked
    <3>1. CASE m[1] = "preinit"
      <4>1. <<"init", offer>> \in events' /\ <<"init", offer>>[1] # "claim"
        BY <2>2, <3>1 DEF Happens, Emits
      <4> QED
        BY <4>1 DEF KeyInv, Ahead
    <3>2. CASE m[1] = "sign"
      BY <1>0, <2>1, <2>2, <3>2 DEF InTurn, KeyInv, Ahead
    <3> QED
      BY <2>1, <3>1, <3>2
  <2>3. CASE ~InTurn(m) /\ UNCHANGED <<place, leaked>>
    BY <1>0, <2>1, <2>3 DEF InTurn, KeyInv, Ahead
  <2>4. CASE leaked' = (leaked \/ (quote # 0 /\ ~\E e \in queue \cup events : e[1] # "claim"))
    <3>1. CASE \E e \in queue \cup events : e[1] # "claim"
      BY <2>1, <3>1 DEF KeyInv, Ahead
    <3>2. CASE ~\E e \in queue \cup events : e[1] # "claim"
      BY <2>1, <2>4, <3>2 DEF KeyInv
    <3> QED
      BY <3>1, <3>2
  <2> QED
    BY <1>16, <2>2, <2>3, <2>4 DEF Include
<1> QED
  BY <1>1, <1>2, <1>3, <1>4, <1>5, <1>6, <1>7, <1>8, <1>9, <1>10, <1>11, <1>12,
     <1>13, <1>14, <1>15, <1>16 DEF Next, Progress, Block, Step, World

(* The types of the parts make up the type. *)
LEMMA TypeOfParts ==
    (TasksTyped /\ Bounded /\ ScalarsTyped /\ StageInv => TypeOK)
      /\ (TasksTyped' /\ Bounded' /\ ScalarsTyped' /\ StageInv' => TypeOK')
BY DEF TasksTyped, Task, Steps, Outcomes, Bounded, ScalarsTyped, StageInv, Fits, TypeOK

(* An initial state whose event fits its route. *)
LEMMA InitialState ==
    ASSUME Init, NEW m, events = {m}, Fits(m), place \in {"stored", "locked", "committed"},
           place = "locked" => route.from # "near", place = "stored" => route.to # "near"
    PROVE  PipelineInv
<1>1. StageInv
  BY DEF Init, StageInv
<1>2. TaskInv /\ TasksTyped
  BY PipelineOK, FS_EmptySet DEF Init, TaskInv, TasksTyped
<1>3. ScalarsTyped /\ Bounded
  <2>1. 0 \in 0..Len(Quotes) /\ 0 \in 0..MaxTrouble
    BY PipelineOK
  <2>2. trouble = 0 /\ quote = 0 /\ quoted = {} /\ stopped = FALSE /\ forgot = FALSE /\ refused = FALSE
        /\ leaked = FALSE /\ given = FALSE
    BY DEF Init
  <2>3. route \in Routes /\ offer \in Offers /\ price \in 1..Len(Quotes)
    BY DEF Init
  <2>4. place \in Places
    BY DEF Places
  <2> QED
    BY <2>1, <2>2, <2>3, <2>4 DEF ScalarsTyped, Bounded
<1>4. QuoteInv /\ QuoteHonoured /\ KeyInv
  BY DEF Init, QuoteInv, QuoteHonoured, KeyInv
<1> QED
  BY <1>1, <1>2, <1>3, <1>4, TypeOfParts DEF PipelineInv

(* What the initial states are. *)
LEMMA Initially ==
    ASSUME Init PROVE PipelineInv
<1> USE PipelineOK DEF Init
<1>1. route \in Routes /\ offer \in Offers
  OBVIOUS
<1>2. CASE route.from = "near"
  <2>1. place = "stored" /\ events = {<<"near", offer>>} /\ route.to # "near"
    BY <1>1, <1>2 DEF Routes
  <2>2. Fits(<<"near", offer>>)
    BY <1>1, <2>1 DEF Fits, Messages
  <2> QED
    BY <1>1, <1>2, <2>1, <2>2, InitialState
<1>3. CASE route.from = "evm"
  <2>1. place = "locked" /\ events = {<<"init", offer>>}
    BY <1>1, <1>3
  <2>2. Fits(<<"init", offer>>)
    BY <1>1, <1>3, <2>1 DEF Fits, Messages
  <2> QED
    BY <1>1, <1>3, <2>1, <2>2, InitialState
<1>4. CASE route.from = "hyper"
  <2>1. place = "committed" /\ events = {<<"preinit", offer>>}
    BY <1>1, <1>4
  <2>2. Fits(<<"preinit", offer>>)
    BY <1>1, <1>4, <2>1 DEF Fits, Messages
  <2> QED
    BY <1>1, <1>4, <2>1, <2>2, InitialState
<1> QED
  BY <1>1, <1>2, <1>3, <1>4 DEF Routes

(* The invariant is inductive. *)
LEMMA Inductive ==
    ASSUME PipelineInv, [Next]_vars PROVE PipelineInv'
<1>1. /\ TasksTyped' /\ Bounded' /\ ScalarsTyped' /\ StageInv' /\ TaskInv'
      /\ QuoteInv' /\ QuoteHonoured' /\ KeyInv'
  BY TasksTypedStep, BoundedStep, ScalarsStep, StageStep, TaskStep, QuoteStep, HonouredStep, KeyStep
<1>2. TypeOK'
  BY <1>1, TypeOfParts
<1> QED
  BY <1>1, <1>2 DEF PipelineInv

(* TransferPipeline: every state has its type, and a transfer meets only   *)
(* the stages of its route.                                                *)
THEOREM PipelineTypeCorrect == Spec => []TypeOK
<1>1. PipelineInv => TypeOK
  BY DEF PipelineInv
<1> QED
  BY Initially, Inductive, <1>1, PTL DEF Spec

(* TransferPipeline: no stage refuses a fee that meets a stored quote,     *)
(* whatever the order of the stages, the raises and the price, unless the  *)
(* quote was forgotten for a reason the code accepts.                      *)
THEOREM StoredQuotesAreHonoured == Spec => []QuoteHonoured
<1>1. PipelineInv => QuoteHonoured
  BY DEF PipelineInv
<1> QED
  BY Initially, Inductive, <1>1, PTL DEF Spec

(* TransferPipeline: once nothing of the transfer is under way its entry   *)
(* in FEE_MAPPING is gone or one of the named leaks has happened.          *)
THEOREM EntriesAreDeleted == Spec => []FeeKeysCleaned
<1>1. PipelineInv => FeeKeysCleaned
  BY DEF PipelineInv, KeyInv, Ahead, FeeKeysCleaned
<1> QED
  BY Initially, Inductive, <1>1, PTL DEF Spec
=============================================================================
