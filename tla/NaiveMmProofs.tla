--------------------------- MODULE NaiveMmProofs ---------------------------
(***************************************************************************)
(* Proofs about the market maker, for every set of mids, every lot, limit, *)
(* number of orders and every bound on the positions under way.            *)
(***************************************************************************)
EXTENDS NaiveMm, SequenceTheorems, TLAPS

(***************************************************************************)
(* Types. That an order's id is one of Id, wherever it is made from a      *)
(* slot, rests on slots holding numbers that were posted.                  *)
(***************************************************************************)
Slot(s) ==
  {NoOrder} \cup [status : {"PendingNew", "Live", "PendingCancel"}, n : 1 .. posted[s], px : Price]

\* An id is its side and its number.
LEMMA IdShape ==
  /\ \A id \in Id : id[1] \in Side /\ id[2] \in Nat /\ id = <<id[1], id[2]>>
                    /\ id[2] \in 0 .. MaxOrders[id[1]]
  /\ \A s \in Side : \A n \in 0 .. MaxOrders[s] : <<s, n>> \in Id
<1>1. MaxOrders["bid"] \in Nat /\ MaxOrders["ask"] \in Nat
  BY BoundsAssumption DEF Side
<1> QED
  BY <1>1 DEF Id, Own, Side

\* The id of what a slot holds, or held last.
LEMMA SlotId ==
  ASSUME TypeOK, NEW s \in Side
  PROVE  /\ <<s, order[s].n>> \in Id /\ order[s] \in Slot(s) /\ order[s].n \in 0 .. posted[s]
         /\ order[s].status # "None" => order[s].n \in 1 .. posted[s] /\ order[s].px \in Price
         /\ posted[s] \in Nat /\ posted[s] <= MaxOrders[s] /\ MaxOrders[s] \in Nat
<1>1. posted[s] \in Nat /\ posted[s] <= MaxOrders[s] /\ MaxOrders[s] \in Nat
  BY BoundsAssumption DEF TypeOK
<1>2. order[s] \in Slot(s)
  BY DEF TypeOK, Slot
<1>3. order[s].n \in 0 .. posted[s] /\ (order[s].status # "None" => order[s].n \in 1 .. posted[s] /\ order[s].px \in Price)
  BY <1>1, <1>2 DEF Slot, NoOrder
<1> QED
  BY <1>1, <1>2, <1>3, IdShape

\* Initially the slots are empty.
LEMMA TypeInit == Init => TypeOK
<1> SUFFICES ASSUME Init PROVE TypeOK
  OBVIOUS
<1>1. PICK orphans \in SUBSET (Orphans \X {0}) :
        left = [id \in Id |-> IF id \in orphans THEN Lot ELSE 0] /\ disowned = orphans
  BY DEF Init
<1>2. orphans \subseteq Id
  BY OrphansAssumption DEF Id
<1>3. left \in [Id -> 0 .. Lot]
  BY <1>1, LotAssumption
<1>4. account \in Int
  BY StartAssumption, LimitAssumption DEF Init
<1>5. /\ \A s \in Side : order[s] \in Slot(s) /\ posted[s] <= MaxOrders[s]
      /\ DOMAIN order = Side /\ posted \in [Side -> Nat]
  BY BoundsAssumption DEF Init, Slot
<1>6. disowned \cup silent \cup blind \cup cancelled \subseteq Id
  BY <1>1, <1>2 DEF Init
<1>7. execs \in Seq(Report) /\ positions \in Seq(Int) /\ path \in Seq(Int)
  BY <1>4 DEF Init
<1>8. pending_cancel \in [Side -> {"no", "yes", "expired"}] /\ position \in Int
  BY DEF Init
<1>9. {ready, did_init, update_scheduled} \subseteq BOOLEAN /\ last_mid \in Price \cup {None}
  BY DEF Init
<1>10. /\ posts \subseteq Id /\ cancels \subseteq Id /\ answers \subseteq Answer
       /\ cancel_all \in {"unsent", "sent", "over"}
  BY DEF Init
<1> QED
  BY <1>3, <1>4, <1>5, <1>6, <1>7, <1>8, <1>9, <1>10 DEF TypeOK, Slot

\* The slots of both sides after a step that gives each a value of its kind.
LEMMA SlotsKeepType ==
  ASSUME TypeOK, posted' = posted, DOMAIN order' = Side, \A s \in Side : order'[s] \in Slot(s)
  PROVE  /\ \A s \in Side : order'[s] \in {NoOrder} \cup
              [status : {"PendingNew", "Live", "PendingCancel"}, n : 1 .. posted'[s], px : Price]
         /\ posted' \in [Side -> Nat] /\ \A s \in Side : posted'[s] <= MaxOrders[s]
  BY DEF TypeOK, Slot

\* Freeing the slot of an order, or marking it live.
LEMMA SlotActions ==
  ASSUME TypeOK, NEW id \in Id
  PROVE  /\ FreeSlot(id[1]) =>
              /\ DOMAIN order' = Side /\ order'[id[1]] = NoOrder
              /\ \A s \in Side \ {id[1]} : order'[s] = order[s] /\ pending_cancel'[s] = pending_cancel[s]
              /\ pending_cancel' \in [Side -> {"no", "yes", "expired"}] /\ pending_cancel'[id[1]] = "no"
         /\ MarkLive(id[1]) /\ InSlot(id) =>
              /\ DOMAIN order' = Side /\ pending_cancel' = pending_cancel
              /\ order'[id[1]] \in Slot(id[1]) /\ order'[id[1]].status = "Live"
              /\ order'[id[1]].n = order[id[1]].n
              /\ \A s \in Side \ {id[1]} : order'[s] = order[s]
<1>1. id[1] \in Side /\ DOMAIN order = Side /\ pending_cancel \in [Side -> {"no", "yes", "expired"}]
  BY IdShape DEF TypeOK
<1>2. order[id[1]] \in Slot(id[1])
  BY <1>1, SlotId
<1>3. ASSUME FreeSlot(id[1])
      PROVE  /\ DOMAIN order' = Side /\ order'[id[1]] = NoOrder
             /\ \A s \in Side \ {id[1]} : order'[s] = order[s] /\ pending_cancel'[s] = pending_cancel[s]
             /\ pending_cancel' \in [Side -> {"no", "yes", "expired"}] /\ pending_cancel'[id[1]] = "no"
  BY <1>1, <1>3 DEF FreeSlot
<1>4. ASSUME MarkLive(id[1]), InSlot(id)
      PROVE  /\ DOMAIN order' = Side /\ pending_cancel' = pending_cancel
             /\ order'[id[1]] \in Slot(id[1]) /\ order'[id[1]].status = "Live"
             /\ order'[id[1]].n = order[id[1]].n
             /\ \A s \in Side \ {id[1]} : order'[s] = order[s]
  <2>1. order[id[1]].status # "None"
    BY <1>4 DEF InSlot
  <2>2. order[id[1]] \in [status : {"PendingNew", "Live", "PendingCancel"}, n : 1 .. posted[id[1]], px : Price]
    BY <1>2, <2>1 DEF Slot, NoOrder
  <2>3. order'[id[1]] = [order[id[1]] EXCEPT !.status = "Live"]
    BY <1>1, <1>4 DEF MarkLive
  <2> QED
    BY <1>1, <1>4, <2>2, <2>3 DEF MarkLive, Slot
<1> QED
  BY <1>3, <1>4

\* The strategy's handlers keep the types.
LEMMA TypeHandlers ==
  ASSUME TypeOK,
         \/ \E mid \in Price \cup {None} : OnObs(mid)
         \/ OnPosition \/ OnExecution \/ \E a \in answers : OnOrderResponse(a)
         \/ \E s \in Side : ExpireCancel(s)
  PROVE  TypeOK'
<1>1. CASE \E mid \in Price \cup {None} : OnObs(mid)
  BY <1>1 DEF OnObs, CancelAllOnce, TypeOK, slotVars, exchangeVars, historyVars
<1>2. CASE OnPosition
  <2>1. position' \in Int /\ positions' \in Seq(Int)
    BY <1>2 DEF OnPosition, TypeOK
  <2> QED
    BY <1>2, <2>1 DEF OnPosition, TypeOK, slotVars, requestVars, exchangeVars, historyVars
<1>3. CASE OnExecution
  <2> DEFINE e == Head(execs)
  <2>1. e.id \in Id /\ execs' \in Seq(Report)
    <3>1. execs \in Seq(Report) /\ execs # << >> /\ execs' = Tail(execs)
      BY <1>3 DEF OnExecution, TypeOK
    <3>2. e \in Report /\ Tail(execs) \in Seq(Report)
      BY <3>1
    <3> QED
      BY <3>1, <3>2 DEF Report
  <2>2. UNCHANGED slotVars \/ FreeSlot(e.id[1]) \/ (InSlot(e.id) /\ MarkLive(e.id[1]))
    BY <1>3, <2>1 DEF OnExecution, Executed
  <2>3. /\ DOMAIN order' = Side /\ \A s \in Side : order'[s] \in Slot(s)
        /\ pending_cancel' \in [Side -> {"no", "yes", "expired"}]
    BY <2>1, <2>2, SlotActions, SlotId, SMTT(30) DEF TypeOK, slotVars, Slot
  <2>4. posted' = posted
    BY <1>3 DEF OnExecution, requestVars
  <2> QED
    BY <1>3, <2>1, <2>3, <2>4, SlotsKeepType
    DEF OnExecution, TypeOK, flagVars, requestVars, exchangeVars, historyVars
<1>4. ASSUME NEW a \in answers, OnOrderResponse(a) PROVE TypeOK'
  <2>1. a.id \in Id /\ a.id[1] \in Side
    BY IdShape DEF TypeOK, Answer
  <2>2. /\ \/ UNCHANGED slotVars \/ FreeSlot(a.id[1]) \/ (InSlot(a.id) /\ MarkLive(a.id[1]))
           \/ order' = [order EXCEPT ![a.id[1]] = NoOrder] /\ pending_cancel' = pending_cancel
        /\ disowned' \subseteq disowned \cup {a.id}
    BY <1>4, <2>1 DEF OnOrderResponse, TypeOK, Answer, slotVars
  <2>3. /\ DOMAIN order' = Side /\ \A s \in Side : order'[s] \in Slot(s)
        /\ pending_cancel' \in [Side -> {"no", "yes", "expired"}]
    BY <2>1, <2>2, SlotActions, SlotId, SMTT(30) DEF TypeOK, slotVars, Slot
  <2>4. posted' = posted
    BY <1>4 DEF OnOrderResponse, requestVars
  <2> QED
    BY <1>4, <2>1, <2>2, <2>3, <2>4, SlotsKeepType
    DEF OnOrderResponse, TypeOK, flagVars, requestVars, exchangeVars
<1>5. CASE \E s \in Side : ExpireCancel(s)
  BY <1>5 DEF ExpireCancel, TypeOK, flagVars, requestVars, exchangeVars, historyVars
<1> QED
  BY <1>1, <1>2, <1>3, <1>4, <1>5

\* So do the gateway and the exchange.
LEMMA TypeExchange ==
  ASSUME TypeOK,
         \/ \E id \in posts : post_order(id)
         \/ \E id \in cancels : cancel_order(id)
         \/ cancel_all_orders \/ \E a \in answers : LoseAnswer(a)
         \/ \E id \in Id, named \in BOOLEAN : Fill(id, named)
         \/ Restore
  PROVE  TypeOK'
<1> USE LotAssumption
        DEF gatewayUnchanged, slotVars, flagVars, requestVars, exchangeVars, historyVars
<1>1. ASSUME NEW id \in posts, post_order(id) PROVE TypeOK'
  <2>1. id \in Id /\ left' \in [Id -> 0 .. Lot] /\ answers' \subseteq Answer
    BY <1>1 DEF post_order, Tell, Answer, TypeOK
  <2> QED
    BY <1>1, <2>1 DEF post_order, TypeOK
<1>2. ASSUME NEW id \in cancels, cancel_order(id) PROVE TypeOK'
  <2>1. id \in Id /\ left' \in [Id -> 0 .. Lot] /\ answers' \subseteq Answer
    <3>1. id \in Id /\ left \in [Id -> 0 .. Lot] /\ answers \subseteq Answer /\ cancel_order(id)
      BY <1>2 DEF TypeOK
    <3>2. left' \in {left, [left EXCEPT ![id] = 0]}
          /\ answers' \in {answers, answers \cup {[id |-> id, of |-> "cancel", status |-> "Ok"]}}
      BY <3>1 DEF cancel_order, Tell
    <3>3. [id |-> id, of |-> "cancel", status |-> "Ok"] \in Answer /\ [left EXCEPT ![id] = 0] \in [Id -> 0 .. Lot]
      BY <3>1 DEF Answer
    <3> QED
      BY <3>1, <3>2, <3>3
  <2> QED
    BY <1>2, <2>1 DEF cancel_order, TypeOK
<1>3. CASE cancel_all_orders
  <2>1. left' \in [Id -> 0 .. Lot] /\ silent' \subseteq Id
    BY <1>3 DEF cancel_all_orders, TypeOK
  <2> QED
    BY <1>3, <2>1 DEF cancel_all_orders, TypeOK
<1>4. ASSUME NEW a \in answers, LoseAnswer(a) PROVE TypeOK'
  <2>1. silent' \subseteq Id /\ answers' \subseteq Answer
    BY <1>4 DEF LoseAnswer, TypeOK, Answer
  <2> QED
    BY <1>4, <2>1 DEF LoseAnswer, TypeOK
<1>5. ASSUME NEW id \in Id, NEW named \in BOOLEAN, Fill(id, named) PROVE TypeOK'
  <2>1. left' \in [Id -> 0 .. Lot] /\ silent' \subseteq Id /\ account' \in Int
    BY <1>5 DEF Fill, TypeOK, Filled
  <2>2. path' \in Seq(Int) /\ positions' \in Seq(Int)
    BY <1>5, <2>1 DEF Fill, TypeOK
  <2>3. execs' \in Seq(Report)
    <3>1. [id |-> id, alive |-> left[id] > 1] \in Report
      BY DEF Report
    <3> QED
      BY <1>5, <3>1 DEF Fill, TypeOK
  <2> QED
    BY <1>5, <2>1, <2>2, <2>3 DEF Fill, TypeOK
<1>6. CASE Restore
  <2>1. positions' \in Seq(Int)
    BY <1>6 DEF Restore, TypeOK
  <2> QED
    BY <1>6, <2>1 DEF Restore, TypeOK
<1> QED
  BY <1>1, <1>2, <1>3, <1>4, <1>5, <1>6

\* What update() asks for a cancel is Live, and what it posts is new.
LEMMA Targets ==
  ASSUME TypeOK
  PROVE  /\ ToCancel \subseteq Side /\ ToPost \subseteq Side /\ Expired \subseteq Side
         /\ \A s \in ToCancel : /\ s \notin Expired /\ s \notin ToPost /\ order[s].status = "Live"
                                /\ pending_cancel[s] = "no"
         /\ \A s \in ToPost : /\ posted[s] < MaxOrders[s]
                              /\ order[s].status = "None" \/ s \in Expired
  BY DEF ToCancel, ToPost, Expired

\* What update() decides for each side, and the ids it adds to its requests.
Posting(refused) == ToPost \ refused
Cancelling(refused) == ToCancel \ refused
SlotIds(S) == {<<s, order[s].n>> : s \in S}
NewIds(S) == {<<s, posted[s] + 1>> : s \in S}

LEMMA Decided ==
  ASSUME TypeOK, NEW refused \in SUBSET Side, Decide(refused), NEW s \in Side
  PROVE  /\ s \in Posting(refused) =>
              order'[s] = NewOrder(posted[s] + 1, last_mid) /\ posted'[s] = posted[s] + 1
         /\ s \notin Posting(refused) => posted'[s] = posted[s]
         /\ s \in Expired \ Posting(refused) => order'[s] = NoOrder
         /\ s \in Cancelling(refused) => order'[s] = [order[s] EXCEPT !.status = "PendingCancel"]
         /\ s \notin Posting(refused) \cup Expired \cup Cancelling(refused) => order'[s] = order[s]
         /\ s \in Expired => pending_cancel'[s] = "no"
         /\ s \in Cancelling(refused) => pending_cancel'[s] = "yes"
         /\ s \notin Expired \cup Cancelling(refused) => pending_cancel'[s] = pending_cancel[s]
<1> DEFINE p == Posting(refused)
           c == Cancelling(refused)
<1>1. s \in c => s \notin Expired /\ s \notin p
  BY Targets DEF Posting, Cancelling
<1>2. order'[s] = CASE s \in p -> NewOrder(posted[s] + 1, last_mid)
                    [] s \in Expired \ p -> NoOrder
                    [] s \in c -> [order[s] EXCEPT !.status = "PendingCancel"]
                    [] OTHER -> order[s]
  BY DEF Decide, Posting, Cancelling
<1>3. posted'[s] = IF s \in p THEN posted[s] + 1 ELSE posted[s]
  BY DEF Decide, Posting
<1>4. pending_cancel'[s] = IF s \in Expired THEN "no" ELSE IF s \in c THEN "yes" ELSE pending_cancel[s]
  BY DEF Decide, Cancelling
<1> HIDE DEF p, c
<1> DEFINE onPost == NewOrder(posted[s] + 1, last_mid)
           onCancel == [order[s] EXCEPT !.status = "PendingCancel"]
           before == order[s]
<1>5. order'[s] = CASE s \in p -> onPost [] s \in Expired \ p -> NoOrder
                    [] s \in c -> onCancel [] OTHER -> before
  BY <1>2
<1> HIDE DEF onPost, onCancel, before
<1>6. /\ s \in p => order'[s] = onPost
      /\ s \in Expired \ p => order'[s] = NoOrder
      /\ s \in c => order'[s] = onCancel
      /\ s \notin p \cup Expired \cup c => order'[s] = before
  BY <1>1, <1>5
<1> QED
  BY <1>3, <1>4, <1>6, <1>1 DEF p, c, onPost, onCancel, before

LEMMA DecidedSets ==
  ASSUME NEW refused \in SUBSET Side, Decide(refused)
  PROVE  /\ posts' = posts \cup NewIds(Posting(refused))
         /\ cancels' = cancels \cup SlotIds(Cancelling(refused))
         /\ cancelled' = cancelled \cup SlotIds(Cancelling(refused))
         /\ disowned' = disowned \cup SlotIds(Expired)
         /\ blind' \subseteq blind \cup NewIds(Posting(refused))
         /\ DOMAIN order' = Side /\ DOMAIN posted' = Side /\ DOMAIN pending_cancel' = Side
         /\ blind' = IF positions = << >> THEN blind ELSE blind \cup NewIds(Posting(refused))
  BY DEF Decide, Posting, Cancelling, SlotIds, NewIds

\* The numbers update() gives to new orders.
LEMMA Numbers ==
  ASSUME TypeOK
  PROVE  \A s \in ToPost : /\ posted[s] + 1 \in 1 .. MaxOrders[s]
                           /\ <<s, posted[s] + 1>> \in Id
<1> SUFFICES ASSUME NEW s \in ToPost PROVE posted[s] + 1 \in 1 .. MaxOrders[s] /\ <<s, posted[s] + 1>> \in Id
  OBVIOUS
<1>1. s \in Side /\ posted[s] < MaxOrders[s] /\ posted[s] \in Nat /\ MaxOrders[s] \in Nat
  BY Targets, SlotId
<1>2. posted[s] + 1 \in 1 .. MaxOrders[s] /\ posted[s] + 1 \in 0 .. MaxOrders[s]
  BY <1>1
<1> QED
  BY <1>1, <1>2, IdShape

\* update() keeps the types: it decides only when it has seen a mid.
LEMMA TypeUpdate ==
  ASSUME TypeOK, NEW refused \in SUBSET Side, Update(refused) PROVE TypeOK'
<1> USE DEF exchangeVars
<1>1. CASE last_mid = None
  BY <1>1 DEF Update, TypeOK, slotVars, requestVars
<1>2. CASE last_mid # None
  <2> DEFINE posting == Posting(refused)
             cancelling == Cancelling(refused)
  <2>1. Decide(refused) /\ last_mid \in Price /\ ready' = TRUE /\ update_scheduled' = FALSE
        /\ did_init' \in BOOLEAN /\ cancel_all' \in {"unsent", "sent", "over"}
        /\ UNCHANGED <<position, last_mid, exchangeVars, answers, execs, positions, silent>>
    BY <1>2 DEF Update, TypeOK, CancelAllOnce
  <2>2. posting \subseteq ToPost /\ cancelling \subseteq ToCancel /\ posting \subseteq Side /\ cancelling \subseteq Side
    BY Targets DEF Posting, Cancelling
  <2> HIDE DEF posting, cancelling
  <2>3. ASSUME NEW s \in Side
        PROVE  posted'[s] \in Nat /\ posted'[s] <= MaxOrders[s]
    <3>1. posted'[s] = IF s \in posting THEN posted[s] + 1 ELSE posted[s]
      BY <2>1, Decided DEF posting
    <3>2. s \in posting => posted[s] < MaxOrders[s]
      BY <2>2, Targets
    <3>3. posted[s] \in Nat /\ posted[s] <= MaxOrders[s] /\ MaxOrders[s] \in Nat
      BY SlotId
    <3> QED
      BY <3>1, <3>2, <3>3
  <2>4. ASSUME NEW s \in Side
        PROVE  order'[s] \in {NoOrder} \cup
                 [status : {"PendingNew", "Live", "PendingCancel"}, n : 1 .. posted'[s], px : Price]
    <3>1. CASE s \in posting
      <4>1. order'[s] = NewOrder(posted[s] + 1, last_mid) /\ posted'[s] = posted[s] + 1
        BY <2>1, <3>1, Decided DEF posting
      <4>2. posted[s] \in Nat
        BY SlotId
      <4>3. posted[s] + 1 \in 1 .. posted'[s]
        BY <4>1, <4>2
      <4> QED
        BY <2>1, <4>1, <4>3 DEF NewOrder
    <3>2. CASE s \in Expired \ posting
      BY <2>1, <3>2, Decided DEF posting
    <3>3. CASE s \in cancelling
      <4>1. order'[s] = [order[s] EXCEPT !.status = "PendingCancel"]
        BY <2>1, <3>3, Decided DEF cancelling
      <4>2. s \notin posting /\ order[s].status = "Live"
        BY <2>2, <3>3, Targets
      <4>3. posted'[s] = posted[s]
        BY <2>1, <4>2, Decided DEF posting
      <4>4. order[s] \in [status : {"PendingNew", "Live", "PendingCancel"}, n : 1 .. posted[s], px : Price]
        BY <4>2, SlotId DEF Slot, NoOrder
      <4> QED
        BY <4>1, <4>3, <4>4
    <3>4. CASE s \notin posting \cup Expired \cup cancelling
      <4>1. order'[s] = order[s] /\ posted'[s] = posted[s]
        BY <2>1, <3>4, Decided DEF posting, cancelling
      <4> QED
        BY <4>1, SlotId DEF Slot
    <3> QED
      BY <3>1, <3>2, <3>3, <3>4
  <2>5. posted' \in [Side -> Nat] /\ pending_cancel' \in [Side -> {"no", "yes", "expired"}]
    BY <2>1 DEF Decide, TypeOK
  <2>6. SlotIds(cancelling) \subseteq Id /\ SlotIds(Expired) \subseteq Id /\ NewIds(posting) \subseteq Id
    BY <2>2, SlotId, Numbers, Targets DEF SlotIds, NewIds
  <2>7. /\ posts' \subseteq Id /\ cancels' \subseteq Id /\ DOMAIN order' = Side
        /\ disowned' \cup silent' \cup blind' \cup cancelled' \subseteq Id
    BY <2>1, <2>6, DecidedSets DEF TypeOK, posting, cancelling
  <2> QED
    BY <2>1, <2>3, <2>4, <2>5, <2>7 DEF TypeOK
<1> QED
  BY <1>1, <1>2

\* Every step keeps the types.
LEMMA TypeStep == TypeOK /\ [Next]_vars => TypeOK'
<1>1. ASSUME TypeOK, UNCHANGED vars PROVE TypeOK'
  BY <1>1 DEF vars, slotVars, flagVars, requestVars, exchangeVars, historyVars, TypeOK
<1> QED
  BY <1>1, TypeHandlers, TypeExchange, TypeUpdate DEF Next, Strategy, Gateway, Market

\* Every variable of the market maker keeps its type: no slot, request or
\* message ever names an order that was not posted (strategy.rs).
THEOREM TypeCorrect == Spec => []TypeOK
<1> QED
  BY TypeInit, TypeStep, PTL DEF Spec
-----------------------------------------------------------------------------
(***************************************************************************)
(* Slots and orders. What a slot says of an order is right only together   *)
(* with what is on its way: an order nobody has heard of yet cannot have   *)
(* been traded, cancelled or marked Live, and an answer to a cancel tells  *)
(* of an order that is over and whose cancel the slot still waits for.     *)
(***************************************************************************)
Reports == {execs[i] : i \in DOMAIN execs}

\* Nothing has happened to the order, and nothing but a rejection will.
Untouched(id) ==
  /\ left[id] = 0 /\ id \notin cancelled
  /\ \A a \in answers : a.id = id => a.status = "FailedPostOnly"
  /\ \A r \in Reports : r.id # id
  /\ InSlot(id) => order[id[1]].status = "PendingNew"
Unanswered(id) == \A a \in answers : a.id # id

\* Not posted yet, or the post is under way.
Unposted(id) == id[2] > posted[id[1]]
Fresh ==
  \A id \in Id : /\ Unposted(id) => id \notin posts
                 /\ Unposted(id) \/ id \in posts => Untouched(id) /\ Unanswered(id)
Rejected == \A a \in answers : a.status = "FailedPostOnly" => a.of = "post" /\ Untouched(a.id)

\* What says that an order is over is right, and cancels are remembered.
Over ==
  /\ \A a \in answers : a.of = "cancel" => left[a.id] = 0 /\ a.id \in cancelled
  /\ \A r \in Reports : ~ r.alive => left[r.id] = 0
  /\ cancels \subseteq cancelled

\* The slot of an order whose cancel was asked for waits for the answer.
Awaited ==
  \A s \in Side : order[s].status # "None" /\ <<s, order[s].n>> \in cancelled =>
    pending_cancel[s] # "no"

SlotInv ==
  /\ TypeOK
  /\ Fresh
  /\ Rejected
  /\ Over
  /\ Awaited
  /\ CancelOwned
  /\ OrphansExplained
  /\ PhantomsExplained

\* The executions under way after one is taken or added.
LEMMA ReportsTaken ==
  ASSUME execs \in Seq(Report), execs # << >>, execs' = Tail(execs)
  PROVE  Head(execs) \in Reports /\ Reports = {Head(execs)} \cup Reports'
<1>1. Len(execs) \in Nat /\ Len(execs) > 0 /\ DOMAIN execs = 1 .. Len(execs) /\ Head(execs) = execs[1]
  OBVIOUS
<1>2. DOMAIN execs' = 1 .. (Len(execs) - 1) /\ \A i \in 1 .. (Len(execs) - 1) : execs'[i] = execs[i + 1]
  BY <1>1
<1>3. Reports' \subseteq Reports
  <2> SUFFICES ASSUME NEW i \in DOMAIN execs' PROVE execs'[i] \in Reports
    BY DEF Reports
  <2>1. i + 1 \in DOMAIN execs /\ execs'[i] = execs[i + 1]
    BY <1>1, <1>2
  <2> QED
    BY <2>1 DEF Reports
<1>4. \A i \in DOMAIN execs : i = 1 \/ execs[i] \in Reports'
  <2> SUFFICES ASSUME NEW i \in DOMAIN execs, i # 1 PROVE execs[i] \in Reports'
    OBVIOUS
  <2>1. i - 1 \in DOMAIN execs' /\ execs'[i - 1] = execs[i]
    BY <1>1, <1>2
  <2> QED
    BY <2>1 DEF Reports
<1> QED
  BY <1>1, <1>3, <1>4 DEF Reports

LEMMA ReportsAdded ==
  ASSUME execs \in Seq(Report), NEW r \in Report, execs' = Append(execs, r)
  PROVE  Reports' = Reports \cup {r}
<1>1. Len(execs) \in Nat /\ DOMAIN execs = 1 .. Len(execs)
  OBVIOUS
<1>2. /\ DOMAIN execs' = 1 .. (Len(execs) + 1) /\ execs'[Len(execs) + 1] = r
      /\ \A i \in 1 .. Len(execs) : execs'[i] = execs[i]
  BY <1>1
<1>3. DOMAIN execs' = DOMAIN execs \cup {Len(execs) + 1}
  BY <1>1, <1>2
<1> QED
  BY <1>1, <1>2, <1>3 DEF Reports

\* A report names an order.
LEMMA ReportTypes ==
  ASSUME TypeOK PROVE \A r \in Reports : r.id \in Id /\ r.alive \in BOOLEAN
<1>1. execs \in Seq(Report)
  BY DEF TypeOK
<1>2. \A i \in DOMAIN execs : execs[i] \in Report
  BY <1>1
<1> QED
  BY <1>2 DEF Reports, Report

\* The two things news of an order does to its slot.
LEMMA Freed ==
  ASSUME TypeOK, NEW id \in Id, InSlot(id), order' = [order EXCEPT ![id[1]] = NoOrder]
  PROVE  /\ \A j \in Id : InSlot(j)' <=> InSlot(j) /\ j # id
         /\ \A j \in Id : InSlot(j)' => order'[j[1]] = order[j[1]]
         /\ order'[id[1]].status = "None" /\ \A s \in Side \ {id[1]} : order'[s] = order[s]
<1>1. id[1] \in Side /\ DOMAIN order = Side /\ order'[id[1]] = NoOrder
  BY IdShape DEF TypeOK
<1>2. \A s \in Side \ {id[1]} : order'[s] = order[s]
  BY <1>1
<1>3. \A j \in Id : j[1] \in Side /\ j = <<j[1], j[2]>>
  BY IdShape
<1>4. ASSUME NEW j \in Id, j[1] = id[1] PROVE ~ InSlot(j)' /\ (InSlot(j) => j = id)
  BY <1>1, <1>3, <1>4 DEF InSlot, NoOrder
<1>5. ASSUME NEW j \in Id, j[1] # id[1] PROVE order'[j[1]] = order[j[1]] /\ (InSlot(j)' <=> InSlot(j)) /\ j # id
  BY <1>2, <1>3, <1>5 DEF InSlot
<1> QED
  BY <1>1, <1>2, <1>4, <1>5 DEF NoOrder

LEMMA Marked ==
  ASSUME TypeOK, NEW id \in Id, InSlot(id), MarkLive(id[1])
  PROVE  /\ \A j \in Id : InSlot(j)' <=> InSlot(j)
         /\ \A j \in Id \ {id} : InSlot(j)' => order'[j[1]] = order[j[1]]
         /\ \A s \in Side : /\ order'[s].status = "None" <=> order[s].status = "None"
                            /\ order'[s].n = order[s].n
         /\ pending_cancel' = pending_cancel
<1>1. /\ id[1] \in Side /\ pending_cancel' = pending_cancel
      /\ order'[id[1]].status = "Live" /\ order'[id[1]].n = order[id[1]].n
      /\ \A s \in Side \ {id[1]} : order'[s] = order[s]
  BY SlotActions, IdShape
<1>2. order[id[1]].status # "None" /\ order[id[1]].n = id[2]
  BY DEF InSlot
<1>3. \A s \in Side : /\ order'[s].status = "None" <=> order[s].status = "None"
                      /\ order'[s].n = order[s].n
  BY <1>1, <1>2
<1>4. \A j \in Id : j[1] \in Side /\ j = <<j[1], j[2]>>
  BY IdShape
<1>5. \A j \in Id : InSlot(j)' <=> InSlot(j)
  BY <1>3, <1>4 DEF InSlot
<1>6. ASSUME NEW j \in Id \ {id}, InSlot(j)' PROVE order'[j[1]] = order[j[1]]
  <2>1. j[1] # id[1]
    BY <1>2, <1>4, <1>5, <1>6 DEF InSlot
  <2> QED
    BY <1>1, <1>4, <2>1
<1> QED
  BY <1>1, <1>3, <1>5, <1>6

\* An order that ended names its end in a report, whatever the report's place.
LEMMA PhantomsByReport ==
  PhantomsExplained <=>
    \A id \in Id : InSlot(id) =>
      \/ Open(id) \/ id \in posts \/ id \in silent
      \/ \E a \in answers : a.id = id /\ (a.of = "cancel" \/ a.status = "FailedPostOnly")
      \/ \E r \in Reports : r.id = id /\ ~ r.alive
  BY DEF PhantomsExplained, Reports

\* The orders OrphansExplained is about have an id, and every id but those of
\* an earlier process is one of them.
LEMMA OwnIds == \A s \in Side : Own(s) \subseteq Id
  BY DEF Own, Id, Side

\* Books, positions and the passing of time leave the orders alone.
QuietStep ==
  /\ UNCHANGED <<order, left, answers, execs, cancelled, posts, cancels, posted, disowned, silent>>
  /\ \A s \in Side : pending_cancel'[s] = "no" <=> pending_cancel[s] = "no"

LEMMA QuietSteps ==
  ASSUME TypeOK,
         \/ UNCHANGED vars \/ \E mid \in Price \cup {None} : OnObs(mid)
         \/ OnPosition \/ (\E s \in Side : ExpireCancel(s)) \/ Restore
         \/ \E refused \in SUBSET Side : Update(refused) /\ last_mid = None
  PROVE  QuietStep
<1> USE DEF QuietStep, slotVars, requestVars, exchangeVars, historyVars
<1>1. CASE UNCHANGED vars
  BY <1>1 DEF vars
<1>2. CASE \E mid \in Price \cup {None} : OnObs(mid)
  BY <1>2 DEF OnObs
<1>3. CASE OnPosition
  BY <1>3 DEF OnPosition
<1>4. CASE \E s \in Side : ExpireCancel(s)
  BY <1>4 DEF ExpireCancel, TypeOK
<1>5. CASE Restore
  BY <1>5 DEF Restore
<1>6. CASE \E refused \in SUBSET Side : Update(refused) /\ last_mid = None
  BY <1>6 DEF Update
<1> QED
  BY <1>1, <1>2, <1>3, <1>4, <1>5, <1>6

LEMMA QuietKeeps ==
  ASSUME SlotInv, TypeOK', QuietStep PROVE SlotInv'
<1>1. Reports' = Reports /\ \A id \in Id : /\ InSlot(id)' <=> InSlot(id)
                                           /\ Untouched(id)' <=> Untouched(id)
                                           /\ Unanswered(id)' <=> Unanswered(id)
                                           /\ Unposted(id)' <=> Unposted(id)
                                           /\ Open(id)' <=> Open(id)
  BY DEF QuietStep, Reports, InSlot, Untouched, Unanswered, Unposted, Open
<1>2. Fresh'
  BY <1>1 DEF SlotInv, Fresh, QuietStep
<1>3. Rejected'
  BY <1>1 DEF SlotInv, Rejected, QuietStep, TypeOK, Answer
<1>4. Over'
  BY <1>1 DEF SlotInv, Over, QuietStep
<1>5. Awaited' /\ CancelOwned'
  BY DEF SlotInv, Awaited, CancelOwned, QuietStep
<1>6. OrphansExplained'
  BY <1>1, OwnIds DEF SlotInv, OrphansExplained, QuietStep
<1>7. PhantomsExplained'
  BY DEF SlotInv, PhantomsExplained, QuietStep, Open, InSlot
<1> QED
  BY <1>2, <1>3, <1>4, <1>5, <1>6, <1>7 DEF SlotInv

\* An execution: the report is taken, and the slot changes only if it names its order.
LEMMA ExecutionHandled ==
  ASSUME TypeOK, OnExecution
  PROVE  /\ UNCHANGED <<left, posts, cancels, cancelled, answers, posted, disowned, silent>>
         /\ \E r \in Reports :
              /\ r.id \in Id /\ Reports = {r} \cup Reports'
              /\ \/ UNCHANGED slotVars /\ ~ InSlot(r.id)
                 \/ InSlot(r.id) /\ r.alive /\ MarkLive(r.id[1])
                 \/ InSlot(r.id) /\ ~ r.alive /\ FreeSlot(r.id[1])
<1>1. execs \in Seq(Report) /\ execs # << >> /\ execs' = Tail(execs)
  BY DEF OnExecution, TypeOK
<1>2. Head(execs) \in Reports /\ Reports = {Head(execs)} \cup Reports'
  BY <1>1, ReportsTaken
<1>3. Head(execs).id \in Id /\ Head(execs).alive \in BOOLEAN
  BY <1>2, ReportTypes
<1>4. Executed(Head(execs))
  BY DEF OnExecution
<1>5. \/ UNCHANGED slotVars /\ ~ InSlot(Head(execs).id)
      \/ InSlot(Head(execs).id) /\ Head(execs).alive /\ MarkLive(Head(execs).id[1])
      \/ InSlot(Head(execs).id) /\ ~ Head(execs).alive /\ FreeSlot(Head(execs).id[1])
  BY <1>3, <1>4 DEF Executed
<1> QED
  BY <1>2, <1>3, <1>5 DEF OnExecution, requestVars, exchangeVars, historyVars

LEMMA ExecutionKeeps ==
  ASSUME SlotInv, TypeOK', OnExecution PROVE SlotInv'
<1>1. TypeOK /\ Over
  BY DEF SlotInv
<1>2. UNCHANGED <<left, posts, cancels, cancelled, answers, posted, disowned, silent>>
  BY <1>1, ExecutionHandled
<1>3. PICK r \in Reports :
        /\ r.id \in Id /\ Reports = {r} \cup Reports'
        /\ \/ UNCHANGED slotVars /\ ~ InSlot(r.id)
           \/ InSlot(r.id) /\ r.alive /\ MarkLive(r.id[1])
           \/ InSlot(r.id) /\ ~ r.alive /\ FreeSlot(r.id[1])
  BY <1>1, ExecutionHandled
<1>4. /\ \A j \in Id : InSlot(j)' => InSlot(j) /\ (j # r.id => order'[j[1]] = order[j[1]])
      /\ \A j \in Id : InSlot(j) => InSlot(j)' \/ (j = r.id /\ ~ r.alive)
      /\ InSlot(r.id)' => r.alive
  <2>1. CASE UNCHANGED slotVars /\ ~ InSlot(r.id)
    BY <2>1 DEF slotVars, InSlot
  <2>2. CASE InSlot(r.id) /\ r.alive /\ MarkLive(r.id[1])
    BY <1>1, <1>3, <2>2, Marked
  <2>3. CASE InSlot(r.id) /\ ~ r.alive /\ FreeSlot(r.id[1])
    BY <1>1, <1>3, <2>3, Freed DEF FreeSlot
  <2> QED
    BY <1>3, <2>1, <2>2, <2>3
<1>5. ASSUME NEW j \in Id PROVE (Untouched(j) => Untouched(j)') /\ (Unanswered(j)' <=> Unanswered(j))
                                /\ (Unposted(j)' <=> Unposted(j))
  BY <1>2, <1>3, <1>4 DEF Untouched, Unanswered, Unposted
<1>6. Fresh'
  BY <1>2, <1>5 DEF SlotInv, Fresh
<1>7. Rejected'
  BY <1>2, <1>5 DEF SlotInv, Rejected, TypeOK, Answer
<1>8. Over'
  BY <1>2, <1>3 DEF SlotInv, Over
<1>9. Awaited' /\ CancelOwned'
  <2>1. CASE UNCHANGED slotVars
    BY <1>2, <2>1 DEF SlotInv, Awaited, CancelOwned, slotVars
  <2>2. CASE InSlot(r.id) /\ MarkLive(r.id[1])
    BY <1>1, <1>2, <1>3, <2>2, Marked DEF SlotInv, Awaited, CancelOwned
  <2>3. CASE InSlot(r.id) /\ FreeSlot(r.id[1])
    <3>1. /\ order'[r.id[1]].status = "None" /\ pending_cancel'[r.id[1]] = "no"
          /\ \A s \in Side \ {r.id[1]} : order'[s] = order[s] /\ pending_cancel'[s] = pending_cancel[s]
      BY <1>1, <1>3, <2>3, Freed, SlotActions DEF FreeSlot
    <3> QED
      BY <1>2, <3>1 DEF SlotInv, Awaited, CancelOwned
  <2> QED
    BY <1>3, <2>1, <2>2, <2>3
<1>10. OrphansExplained'
  <2>1. ~ r.alive => ~ Open(r.id) /\ r.id \notin posts
    BY <1>3 DEF SlotInv, Over, Open, Fresh, Untouched
  <2>2. \A j : (Open(j)' <=> Open(j))
    BY <1>2 DEF Open
  <2> QED
    BY <1>2, <1>4, <2>1, <2>2, OwnIds DEF SlotInv, OrphansExplained
<1>11. PhantomsExplained'
  <2>1. \A j \in Id : InSlot(j) =>
      \/ Open(j) \/ j \in posts \/ j \in silent
      \/ \E a \in answers : a.id = j /\ (a.of = "cancel" \/ a.status = "FailedPostOnly")
      \/ \E x \in Reports : x.id = j /\ ~ x.alive
    BY PhantomsByReport DEF SlotInv
  <2>2. \A j : (Open(j)' <=> Open(j))
    BY <1>2 DEF Open
  <2>3. \A j \in Id : InSlot(j)' =>
      \/ Open(j)' \/ j \in posts' \/ j \in silent'
      \/ \E a \in answers' : a.id = j /\ (a.of = "cancel" \/ a.status = "FailedPostOnly")
      \/ \E x \in Reports' : x.id = j /\ ~ x.alive
    BY <1>2, <1>3, <1>4, <2>1, <2>2
  <2> QED
    BY <2>3 DEF PhantomsExplained, Reports
<1> QED
  BY <1>6, <1>7, <1>8, <1>9, <1>10, <1>11 DEF SlotInv

\* An answer to a request: what it does to the slot, given what is known of the order.
LEMMA ResponseHandled ==
  ASSUME SlotInv, NEW a \in answers, OnOrderResponse(a)
  PROVE  /\ UNCHANGED <<left, posts, cancels, cancelled, execs, posted, silent>>
         /\ answers' = answers \ {a} /\ disowned \subseteq disowned'
         /\ a.id \in Id /\ a.id[1] \in Side /\ a.id \notin posts
         /\ (a.of = "cancel" \/ a.status = "FailedPostOnly") => left[a.id] = 0
         /\ \/ UNCHANGED slotVars /\ ~ InSlot(a.id)
            \/ InSlot(a.id) /\ a.of = "post" /\ a.status = "Ok" /\ MarkLive(a.id[1])
            \/ /\ InSlot(a.id) /\ order' = [order EXCEPT ![a.id[1]] = NoOrder]
               /\ pending_cancel'[a.id[1]] = "no"
               /\ \A s \in Side \ {a.id[1]} : pending_cancel'[s] = pending_cancel[s]
               /\ left[a.id] = 0 \/ a.id \in disowned'
<1> USE DEF SlotInv
<1>1. /\ a \in Answer /\ a.id \in Id /\ a.id[1] \in Side /\ a.id = <<a.id[1], a.id[2]>>
      /\ a.of \in {"post", "cancel"} /\ a.status \in {"Ok", "FailedPostOnly"}
  BY IdShape DEF TypeOK, Answer
<1>2. a.id \notin posts
  BY <1>1 DEF Fresh, Unanswered
<1>3. a.status = "FailedPostOnly" => left[a.id] = 0 /\ a.id \notin cancelled /\ a.of = "post"
  BY DEF Rejected, Untouched
<1>4. a.of = "cancel" => left[a.id] = 0 /\ a.id \in cancelled
  BY DEF Over
<1>5. /\ UNCHANGED <<left, posts, cancels, cancelled, execs, posted, silent>>
      /\ answers' = answers \ {a}
  BY DEF OnOrderResponse, requestVars, exchangeVars
<1>6. CASE ~ InSlot(a.id)
  BY <1>1, <1>2, <1>3, <1>4, <1>5, <1>6 DEF OnOrderResponse, slotVars
<1>7. CASE InSlot(a.id) /\ a.status = "Ok" /\ pending_cancel[a.id[1]] # "no"
  <2>1. FreeSlot(a.id[1]) /\ disowned' = IF a.of = "post" THEN disowned \cup {a.id} ELSE disowned
    BY <1>7 DEF OnOrderResponse
  <2>2. /\ pending_cancel'[a.id[1]] = "no" /\ order' = [order EXCEPT ![a.id[1]] = NoOrder]
        /\ \A s \in Side \ {a.id[1]} : pending_cancel'[s] = pending_cancel[s]
    BY <1>1, <2>1, SlotActions DEF FreeSlot
  <2> QED
    BY <1>1, <1>2, <1>3, <1>4, <1>5, <1>7, <2>1, <2>2
<1>8. CASE InSlot(a.id) /\ a.status = "Ok" /\ pending_cancel[a.id[1]] = "no"
  <2>1. MarkLive(a.id[1]) /\ disowned' = disowned
    BY <1>8 DEF OnOrderResponse
  <2>2. a.of = "post"
    BY <1>1, <1>4, <1>8 DEF Awaited, InSlot
  <2> QED
    BY <1>1, <1>2, <1>3, <1>4, <1>5, <1>8, <2>1, <2>2
<1>9. CASE InSlot(a.id) /\ a.status = "FailedPostOnly"
  <2>1. order' = [order EXCEPT ![a.id[1]] = NoOrder] /\ pending_cancel' = pending_cancel /\ disowned' = disowned
    BY <1>9 DEF OnOrderResponse
  <2>2. pending_cancel[a.id[1]] = "no"
    BY <1>1, <1>3, <1>9 DEF CancelOwned, InSlot
  <2> QED
    BY <1>1, <1>2, <1>3, <1>4, <1>5, <1>9, <2>1, <2>2
<1> QED
  BY <1>1, <1>6, <1>7, <1>8, <1>9

LEMMA ResponseKeeps ==
  ASSUME SlotInv, TypeOK', NEW a \in answers, OnOrderResponse(a) PROVE SlotInv'
<1> DEFINE freed == /\ InSlot(a.id) /\ order' = [order EXCEPT ![a.id[1]] = NoOrder]
                    /\ pending_cancel'[a.id[1]] = "no"
                    /\ \A s \in Side \ {a.id[1]} : pending_cancel'[s] = pending_cancel[s]
                    /\ left[a.id] = 0 \/ a.id \in disowned'
           marked == InSlot(a.id) /\ a.of = "post" /\ a.status = "Ok" /\ MarkLive(a.id[1])
<1>1. TypeOK
  BY DEF SlotInv
<1>2. /\ UNCHANGED <<left, posts, cancels, cancelled, execs, posted, silent>>
      /\ answers' = answers \ {a} /\ disowned \subseteq disowned'
      /\ a.id \in Id /\ a.id[1] \in Side /\ a.id \notin posts
      /\ (a.of = "cancel" \/ a.status = "FailedPostOnly") => left[a.id] = 0
  BY ResponseHandled
<1>3. (UNCHANGED slotVars /\ ~ InSlot(a.id)) \/ marked \/ freed
  BY ResponseHandled
<1>4. Reports' = Reports /\ \A j : Open(j)' <=> Open(j)
  BY <1>2 DEF Reports, Open
<1>5. /\ \A j \in Id : InSlot(j)' => InSlot(j)
      /\ \A j \in Id : InSlot(j)' /\ order'[j[1]] # order[j[1]] => j = a.id /\ marked
      /\ \A j \in Id : InSlot(j) => InSlot(j)' \/ (j = a.id /\ freed)
      /\ InSlot(a.id)' => marked
  <2>1. CASE UNCHANGED slotVars /\ ~ InSlot(a.id)
    BY <2>1 DEF slotVars, InSlot
  <2>2. CASE marked
    BY <1>1, <1>2, <2>2, Marked
  <2>3. CASE freed
    BY <1>1, <1>2, <2>3, Freed
  <2> QED
    BY <1>3, <2>1, <2>2, <2>3
<1>6. marked => ~ Untouched(a.id)
  BY DEF Untouched
<1> HIDE DEF freed, marked
<1>7. ASSUME NEW j \in Id PROVE (Untouched(j) => Untouched(j)') /\ (Unanswered(j) => Unanswered(j)')
                                /\ (Unposted(j)' <=> Unposted(j))
  BY <1>2, <1>4, <1>5, <1>6 DEF Untouched, Unanswered, Unposted
<1>8. Fresh'
  BY <1>2, <1>7 DEF SlotInv, Fresh
<1>9. Rejected'
  BY <1>2, <1>7 DEF SlotInv, Rejected, TypeOK, Answer
<1>10. Over'
  BY <1>2, <1>4 DEF SlotInv, Over
<1>11. Awaited' /\ CancelOwned'
  <2>1. CASE UNCHANGED slotVars
    BY <1>2, <2>1 DEF SlotInv, Awaited, CancelOwned, slotVars
  <2>2. CASE marked
    BY <1>1, <1>2, <2>2, Marked DEF SlotInv, Awaited, CancelOwned, marked
  <2>3. CASE freed
    <3>1. order'[a.id[1]].status = "None" /\ \A s \in Side \ {a.id[1]} : order'[s] = order[s]
      BY <1>1, <1>2, <2>3, Freed DEF freed
    <3> QED
      BY <1>2, <2>3, <3>1 DEF SlotInv, Awaited, CancelOwned, freed
  <2> QED
    BY <1>3, <2>1, <2>2, <2>3
<1>12. OrphansExplained'
  <2>1. freed => ~ Open(a.id) \/ a.id \in disowned'
    BY DEF freed, Open
  <2> QED
    BY <1>2, <1>4, <1>5, <2>1, OwnIds DEF SlotInv, OrphansExplained
<1>13. PhantomsExplained'
  <2>1. marked => a.of = "post" /\ a.status = "Ok"
    BY DEF marked
  <2>2. \A j \in Id : InSlot(j) =>
      \/ Open(j) \/ j \in posts \/ j \in silent
      \/ \E b \in answers : b.id = j /\ (b.of = "cancel" \/ b.status = "FailedPostOnly")
      \/ \E x \in Reports : x.id = j /\ ~ x.alive
    BY PhantomsByReport DEF SlotInv
  <2>3. \A j \in Id : InSlot(j)' =>
      \/ Open(j)' \/ j \in posts' \/ j \in silent'
      \/ \E b \in answers' : b.id = j /\ (b.of = "cancel" \/ b.status = "FailedPostOnly")
      \/ \E x \in Reports' : x.id = j /\ ~ x.alive
    BY <1>2, <1>4, <1>5, <2>1, <2>2
  <2> QED
    BY <2>3 DEF PhantomsExplained, Reports
<1> QED
  BY <1>8, <1>9, <1>10, <1>11, <1>12, <1>13 DEF SlotInv

\* update() and the orders: a slot it changes loses its order to Expired, is asked
\* for a cancel while it is Live, or takes an order with a number nobody has used.
LEMMA UpdateHandled ==
  ASSUME TypeOK, NEW refused \in SUBSET Side, Decide(refused)
  PROVE  /\ \A j \in Id : InSlot(j)' <=> \/ j \in NewIds(Posting(refused))
                                         \/ InSlot(j) /\ j[1] \notin Posting(refused) \cup Expired
         /\ \A j \in NewIds(Posting(refused)) :
              /\ order'[j[1]].status = "PendingNew" /\ j \in Id /\ Unposted(j) /\ ~ Unposted(j)'
         /\ \A j \in Id : InSlot(j)' /\ j \notin NewIds(Posting(refused)) =>
              order'[j[1]] = order[j[1]] \/ j \in SlotIds(Cancelling(refused))
         /\ \A j \in SlotIds(Cancelling(refused)) :
              /\ order[j[1]].status = "Live" /\ pending_cancel[j[1]] = "no"
              /\ j \in Id /\ InSlot(j) /\ InSlot(j)' /\ pending_cancel'[j[1]] = "yes"
         /\ \A j \in Id : InSlot(j) => InSlot(j)' \/ j \in SlotIds(Expired)
         /\ \A j \in Id : Unposted(j)' <=> Unposted(j) /\ j \notin NewIds(Posting(refused))
<1> DEFINE p == Posting(refused)
           c == Cancelling(refused)
<1>1. p \subseteq ToPost /\ c \subseteq ToCancel /\ p \subseteq Side /\ c \subseteq Side /\ Expired \subseteq Side
  BY Targets DEF Posting, Cancelling
<1>2. ASSUME NEW s \in Side
      PROVE /\ s \in p => order'[s].status = "PendingNew" /\ order'[s].n = posted[s] + 1 /\ posted'[s] = posted[s] + 1
            /\ s \notin p => posted'[s] = posted[s]
            /\ s \in Expired \ p => order'[s].status = "None"
            /\ s \in c => /\ order'[s].n = order[s].n /\ order'[s].status = "PendingCancel"
                          /\ pending_cancel'[s] = "yes"
            /\ s \notin p \cup Expired \cup c => order'[s] = order[s]
  <2>1. s \in p => order'[s].status = "PendingNew" /\ order'[s].n = posted[s] + 1 /\ posted'[s] = posted[s] + 1
    <3>1. s \in p => order'[s] = NewOrder(posted[s] + 1, last_mid) /\ posted'[s] = posted[s] + 1
      BY Decided
    <3> QED
      BY <3>1 DEF NewOrder
  <2>2. s \in c => order'[s].n = order[s].n /\ order'[s].status = "PendingCancel"
    <3> SUFFICES ASSUME s \in c PROVE order'[s].n = order[s].n /\ order'[s].status = "PendingCancel"
      OBVIOUS
    <3>1. order'[s] = [order[s] EXCEPT !.status = "PendingCancel"]
      BY Decided
    <3>2. order[s].status = "Live"
      BY <1>1, Targets
    <3>3. order[s] \in [status : {"PendingNew", "Live", "PendingCancel"}, n : 1 .. posted[s], px : Price]
      BY <3>2, SlotId DEF Slot, NoOrder
    <3> QED
      BY <3>1, <3>3
  <2>3. s \in Expired \ p => order'[s].status = "None"
    <3>1. s \in Expired \ p => order'[s] = NoOrder
      BY Decided
    <3> QED
      BY <3>1 DEF NoOrder
  <2>4. /\ s \notin p => posted'[s] = posted[s]
        /\ s \in c => pending_cancel'[s] = "yes"
        /\ s \notin p \cup Expired \cup c => order'[s] = order[s]
    BY Decided
  <2> QED
    BY <2>1, <2>2, <2>3, <2>4
<1> HIDE DEF p, c
<1>3. \A s \in c : s \notin p /\ s \notin Expired /\ order[s].status = "Live" /\ pending_cancel[s] = "no"
  BY <1>1, Targets
<1>4. \A s \in p : order[s].status = "None" \/ s \in Expired
  BY <1>1, Targets
<1>5. \A j \in Id : j[1] \in Side /\ j[2] \in Nat /\ j = <<j[1], j[2]>>
  BY IdShape
<1>6. \A s \in Side : /\ posted[s] \in Nat /\ order[s].n \in 0 .. posted[s]
                      /\ <<s, order[s].n>> \in Id
  BY SlotId
<1>7. \A s \in p : <<s, posted[s] + 1>> \in Id
  BY <1>1, Numbers
<1>8. \A j : j \in NewIds(p) <=> \E s \in p : j = <<s, posted[s] + 1>>
  BY DEF NewIds
<1>9. \A S : \A j : j \in SlotIds(S) <=> \E s \in S : j = <<s, order[s].n>>
  BY DEF SlotIds
<1>10. ASSUME NEW j \in Id
       PROVE InSlot(j)' <=> j \in NewIds(p) \/ (InSlot(j) /\ j[1] \notin p \cup Expired)
  <2>1. CASE j[1] \in p
    BY <1>1, <1>2, <1>5, <1>8, <2>1 DEF InSlot
  <2>2. CASE j[1] \notin p
    <3>1. j \notin NewIds(p)
      BY <1>5, <1>8, <2>2
    <3> QED
      BY <1>1, <1>2, <1>3, <1>5, <2>2, <3>1 DEF InSlot
  <2> QED
    BY <2>1, <2>2
<1>11. ASSUME NEW j \in NewIds(p)
       PROVE order'[j[1]].status = "PendingNew" /\ j \in Id /\ Unposted(j) /\ ~ Unposted(j)'
  <2>1. PICK s \in p : j = <<s, posted[s] + 1>>
    BY <1>8
  <2>2. /\ j[1] = s /\ j[2] = posted[s] + 1 /\ s \in Side /\ j \in Id /\ posted[s] \in Nat
        /\ order'[s].status = "PendingNew" /\ posted'[s] = posted[s] + 1
    BY <1>1, <1>2, <1>6, <1>7, <2>1
  <2> QED
    BY <2>2 DEF Unposted
<1>12. ASSUME NEW j \in Id, InSlot(j)', j \notin NewIds(p), j \notin SlotIds(c)
       PROVE order'[j[1]] = order[j[1]]
  <2>1. InSlot(j) /\ j[1] \notin p \cup Expired
    BY <1>10, <1>12
  <2>2. j[1] \notin c
    BY <1>5, <1>9, <1>12, <2>1 DEF InSlot
  <2> QED
    BY <1>2, <1>5, <2>1, <2>2
<1>13. ASSUME NEW j \in SlotIds(c)
       PROVE /\ order[j[1]].status = "Live" /\ pending_cancel[j[1]] = "no"
             /\ j \in Id /\ InSlot(j) /\ InSlot(j)' /\ pending_cancel'[j[1]] = "yes"
  <2>1. PICK s \in c : j = <<s, order[s].n>>
    BY <1>9
  <2>2. InSlot(j) /\ j \in Id
    BY <1>1, <1>3, <1>6, <2>1 DEF InSlot
  <2> QED
    BY <1>1, <1>2, <1>3, <1>10, <2>1, <2>2
<1>14. ASSUME NEW j \in Id, InSlot(j) PROVE InSlot(j)' \/ j \in SlotIds(Expired)
  <2>1. order[j[1]].status # "None" /\ j = <<j[1], order[j[1]].n>>
    BY <1>5, <1>14 DEF InSlot
  <2>2. j[1] \in Expired => j \in SlotIds(Expired)
    BY <1>9, <2>1
  <2> QED
    BY <1>4, <1>5, <1>10, <1>14, <2>1, <2>2
<1>15. ASSUME NEW j \in Id PROVE Unposted(j)' <=> Unposted(j) /\ j \notin NewIds(p)
  <2>1. CASE j[1] \in p
    <3>1. posted'[j[1]] = posted[j[1]] + 1 /\ posted[j[1]] \in Nat /\ j[2] \in Nat
      BY <1>1, <1>2, <1>5, <1>6, <2>1
    <3>2. j \in NewIds(p) <=> j[2] = posted[j[1]] + 1
      BY <1>5, <1>8, <2>1
    <3> QED
      BY <3>1, <3>2 DEF Unposted
  <2>2. CASE j[1] \notin p
    BY <1>2, <1>5, <1>8, <2>2 DEF Unposted
  <2> QED
    BY <2>1, <2>2
<1> QED
  BY <1>10, <1>11, <1>12, <1>13, <1>14, <1>15 DEF p, c

LEMMA UpdateKeeps ==
  ASSUME SlotInv, TypeOK', NEW refused \in SUBSET Side, Update(refused), last_mid # None PROVE SlotInv'
<1> DEFINE new == NewIds(Posting(refused))
           asked == SlotIds(Cancelling(refused))
           over == SlotIds(Expired)
<1>1. TypeOK /\ Decide(refused) /\ UNCHANGED <<left, answers, execs, silent>>
  BY DEF SlotInv, Update, exchangeVars
<1>2. /\ posts' = posts \cup new /\ cancels' = cancels \cup asked
      /\ cancelled' = cancelled \cup asked /\ disowned' = disowned \cup over
  BY <1>1, DecidedSets
<1>3. /\ \A j \in Id : InSlot(j)' => j \in new \/ InSlot(j)
      /\ \A j \in new : /\ order'[j[1]].status = "PendingNew" /\ j \in Id
                        /\ Unposted(j) /\ ~ Unposted(j)' /\ InSlot(j)'
      /\ \A j \in Id : InSlot(j)' /\ j \notin new => order'[j[1]] = order[j[1]] \/ j \in asked
      /\ \A j \in asked : /\ order[j[1]].status = "Live" /\ pending_cancel[j[1]] = "no"
                          /\ j \in Id /\ InSlot(j) /\ InSlot(j)' /\ pending_cancel'[j[1]] = "yes"
      /\ \A j \in Id : InSlot(j) => InSlot(j)' \/ j \in over
      /\ \A j \in Id : Unposted(j)' <=> Unposted(j) /\ j \notin new
  BY <1>1, UpdateHandled
<1>4. \A s \in Side : /\ s \in Expired => pending_cancel'[s] = "no"
                      /\ s \notin Expired /\ s \notin Cancelling(refused) => pending_cancel'[s] = pending_cancel[s]
  BY <1>1, Decided
<1> HIDE DEF new, asked, over
<1>5. Reports' = Reports /\ \A j : Open(j)' <=> Open(j)
  BY <1>1 DEF Reports, Open
<1>6. ASSUME NEW j \in Id, Untouched(j) PROVE Untouched(j)'
  <2>1. j \notin asked
    BY <1>3, <1>6 DEF Untouched
  <2>2. InSlot(j)' => order'[j[1]].status = "PendingNew"
    BY <1>3, <1>6, <2>1 DEF Untouched
  <2> QED
    BY <1>1, <1>2, <1>5, <1>6, <2>1, <2>2 DEF Untouched
<1>7. Fresh'
  <2> SUFFICES ASSUME NEW j \in Id
               PROVE /\ Unposted(j)' => j \notin posts'
                     /\ Unposted(j)' \/ j \in posts' => Untouched(j)' /\ Unanswered(j)'
    BY DEF Fresh
  <2>1. /\ Unposted(j) => j \notin posts
        /\ Unposted(j) \/ j \in posts => Untouched(j) /\ Unanswered(j)
    BY DEF SlotInv, Fresh
  <2>2. Unanswered(j)' <=> Unanswered(j)
    BY <1>1 DEF Unanswered
  <2> QED
    BY <1>2, <1>3, <1>6, <2>1, <2>2
<1>8. Rejected'
  BY <1>1, <1>6 DEF SlotInv, Rejected, TypeOK, Answer
<1>9. Over'
  BY <1>1, <1>2, <1>5 DEF SlotInv, Over
<1>10. ASSUME NEW s \in Side
       PROVE /\ order'[s].status # "None" /\ <<s, order'[s].n>> \in cancelled' => pending_cancel'[s] # "no"
             /\ pending_cancel'[s] # "no" => order'[s].status # "None" /\ <<s, order'[s].n>> \in cancelled'
  <2> DEFINE j == <<s, order'[s].n>>
  <2>1. CASE s \in Posting(refused)
    <3>1. order'[s] = NewOrder(posted[s] + 1, last_mid)
      BY <1>1, <2>1, Decided
    <3>2. j \in new
      <4>1. order'[s].n = posted[s] + 1
        BY <3>1 DEF NewOrder
      <4> QED
        BY <2>1, <4>1 DEF NewIds, new
    <3>3. j \notin cancelled /\ j \notin asked
      BY <1>3, <3>2 DEF SlotInv, Fresh, Untouched
    <3>4. s \notin Cancelling(refused)
      BY <1>1, <2>1, Targets DEF Posting, Cancelling
    <3>5. pending_cancel'[s] = "no"
      BY <1>4, <1>1, <2>1, <3>4, Targets DEF SlotInv, CancelOwned, Posting
    <3> QED
      BY <1>2, <3>3, <3>5
  <2>2. CASE s \in Cancelling(refused)
    <3>1. <<s, order[s].n>> \in asked
      BY <2>2 DEF asked, SlotIds
    <3>2. \A k \in asked : InSlot(k)' /\ pending_cancel'[k[1]] = "yes"
      BY <1>3
    <3>3. order'[s].status # "None" /\ order'[s].n = order[s].n /\ pending_cancel'[s] = "yes"
      BY <3>1, <3>2 DEF InSlot
    <3> QED
      BY <1>2, <3>1, <3>3
  <2>3. CASE s \in Expired /\ s \notin Posting(refused)
    <3>1. order'[s] = NoOrder /\ pending_cancel'[s] = "no"
      BY <1>1, <1>4, <2>3, Decided
    <3> QED
      BY <3>1 DEF NoOrder
  <2>4. CASE s \notin Posting(refused) \cup Expired \cup Cancelling(refused)
    <3>1. order'[s] = order[s] /\ pending_cancel'[s] = pending_cancel[s]
      BY <1>1, <2>4, Decided
    <3>2. j \in asked => pending_cancel'[s] # "no"
      BY <1>3
    <3> QED
      BY <1>2, <3>1, <3>2 DEF SlotInv, Awaited, CancelOwned
  <2> QED
    BY <2>1, <2>2, <2>3, <2>4
<1>11. Awaited' /\ CancelOwned'
  BY <1>10 DEF Awaited, CancelOwned
<1>12. OrphansExplained'
  BY <1>2, <1>3, <1>5, OwnIds DEF SlotInv, OrphansExplained
<1>13. PhantomsExplained'
  BY <1>1, <1>2, <1>3, <1>5 DEF SlotInv, PhantomsExplained
<1> QED
  BY <1>1, <1>7, <1>8, <1>9, <1>11, <1>12, <1>13 DEF SlotInv

\* The gateway and the exchange never touch a slot: what is to be shown of one
\* order follows from what happens to that order alone.
ExchangeStep == UNCHANGED <<order, pending_cancel, posted, cancelled, disowned>>

LEMMA ExchangeKeeps ==
  ASSUME SlotInv, TypeOK', ExchangeStep, posts' \subseteq posts, cancels' \subseteq cancels,
         silent \subseteq silent',
         \A j \in Id : Untouched(j) /\ j \notin posts => Untouched(j)' /\ (Unanswered(j) => Unanswered(j)'),
         \A j \in posts' : Untouched(j)' /\ Unanswered(j)',
         Rejected', Over',
         \A j \in Id : Open(j)' => Open(j) \/ j \in posts,
         \A j \in Id : /\ \/ Open(j) \/ j \in posts
                          \/ \E a \in answers : a.id = j /\ (a.of = "cancel" \/ a.status = "FailedPostOnly")
                          \/ \E r \in Reports : r.id = j /\ ~ r.alive
                       => \/ Open(j)' \/ j \in posts' \/ j \in silent'
                          \/ \E a \in answers' : a.id = j /\ (a.of = "cancel" \/ a.status = "FailedPostOnly")
                          \/ \E r \in Reports' : r.id = j /\ ~ r.alive
  PROVE  SlotInv'
<1>1. \A j : (InSlot(j)' <=> InSlot(j)) /\ (Unposted(j)' <=> Unposted(j))
  BY DEF InSlot, Unposted, ExchangeStep
<1>2. Fresh'
  BY <1>1 DEF SlotInv, Fresh
<1>3. Awaited' /\ CancelOwned'
  BY DEF SlotInv, Awaited, CancelOwned, ExchangeStep
<1>4. OrphansExplained'
  BY <1>1, OwnIds DEF SlotInv, OrphansExplained, ExchangeStep
<1>5. \A j \in Id : InSlot(j) =>
      \/ Open(j) \/ j \in posts \/ j \in silent
      \/ \E a \in answers : a.id = j /\ (a.of = "cancel" \/ a.status = "FailedPostOnly")
      \/ \E r \in Reports : r.id = j /\ ~ r.alive
  BY PhantomsByReport DEF SlotInv
<1>6. \A j \in Id : InSlot(j)' =>
      \/ Open(j)' \/ j \in posts' \/ j \in silent'
      \/ \E a \in answers' : a.id = j /\ (a.of = "cancel" \/ a.status = "FailedPostOnly")
      \/ \E r \in Reports' : r.id = j /\ ~ r.alive
  BY <1>1, <1>5
<1>7. PhantomsExplained'
  BY <1>6 DEF PhantomsExplained, Reports
<1> QED
  BY <1>2, <1>3, <1>4, <1>7 DEF SlotInv

\* A post arrives: the order is open, rejected with an answer, or lost in silence.
LEMMA PostKeeps ==
  ASSUME SlotInv, TypeOK', NEW id \in posts, post_order(id) PROVE SlotInv'
<1> USE DEF SlotInv
<1>1. id \in Id /\ Untouched(id) /\ Unanswered(id)
  BY DEF TypeOK, Fresh
<1>2. /\ posts' = posts \ {id} /\ cancels' = cancels /\ silent \subseteq silent'
      /\ ExchangeStep /\ Reports' = Reports
  BY DEF post_order, gatewayUnchanged, slotVars, ExchangeStep, Reports
<1>3. /\ \A j \in Id \ {id} : left'[j] = left[j]
      /\ answers \subseteq answers' /\ \A a \in answers' \ answers : a.id = id /\ a.of = "post"
      /\ \/ left'[id] = Lot /\ \A a \in answers' \ answers : a.status = "Ok"
         \/ /\ left' = left /\ \A a \in answers' \ answers : a.status = "FailedPostOnly"
            /\ (\E a \in answers' : a.id = id /\ a.status = "FailedPostOnly") \/ id \in silent'
  <2>1. left \in [Id -> 0 .. Lot]
    BY DEF TypeOK
  <2>2. CASE left' = [left EXCEPT ![id] = Lot] /\ Tell(id, "post", "Ok")
    BY <1>1, <2>1, <2>2 DEF Tell
  <2>3. CASE left' = left /\ Tell(id, "post", "FailedPostOnly")
    <3> DEFINE b == [id |-> id, of |-> "post", status |-> "FailedPostOnly"]
    <3>1. answers' = answers \cup {b} /\ b.id = id /\ b.of = "post" /\ b.status = "FailedPostOnly"
      BY <2>3 DEF Tell
    <3> HIDE DEF b
    <3> QED
      BY <2>3, <3>1
  <2>4. CASE left' = left /\ answers' = answers /\ id \in silent'
    BY <2>4
  <2> QED
    BY <2>2, <2>3, <2>4 DEF post_order
<1>4. ASSUME NEW j \in Id, j # id
      PROVE (Untouched(j) => Untouched(j)') /\ (Unanswered(j)' <=> Unanswered(j)) /\ (Open(j)' <=> Open(j))
  BY <1>2, <1>3, <1>4 DEF Untouched, Unanswered, ExchangeStep, InSlot, Open
<1>5. left' = left /\ (\A a \in answers' \ answers : a.status = "FailedPostOnly") => Untouched(id)'
  BY <1>1, <1>2, <1>3 DEF Untouched, Unanswered, ExchangeStep, InSlot
<1>6. \A j \in posts' : j # id /\ j \in Id /\ Untouched(j) /\ Unanswered(j)
  BY <1>2 DEF Fresh, TypeOK
<1>7. Rejected'
  <2> SUFFICES ASSUME NEW a \in answers', a.status = "FailedPostOnly" PROVE a.of = "post" /\ Untouched(a.id)'
    BY DEF Rejected
  <2>1. CASE a \in answers
    BY <1>1, <1>4, <2>1 DEF Rejected, Unanswered, TypeOK, Answer
  <2>2. CASE a \notin answers
    BY <1>3, <1>5, <2>2
  <2> QED
    BY <2>1, <2>2
<1>8. Over'
  <2>1. ASSUME NEW a \in answers', a.of = "cancel" PROVE left'[a.id] = 0 /\ a.id \in cancelled'
    <3>1. a \in answers /\ a.id \in Id /\ a.id # id
      BY <1>1, <1>3, <2>1 DEF Unanswered, TypeOK, Answer
    <3> QED
      BY <1>2, <1>3, <2>1, <3>1 DEF Over, ExchangeStep
  <2>2. ASSUME NEW r \in Reports', ~ r.alive PROVE left'[r.id] = 0
    BY <1>1, <1>2, <1>3, <2>2, ReportTypes DEF Over, Untouched
  <2> QED
    BY <1>2, <2>1, <2>2 DEF Over, ExchangeStep
<1>9. ASSUME NEW j \in Id,
             \/ Open(j) \/ j \in posts
             \/ \E a \in answers : a.id = j /\ (a.of = "cancel" \/ a.status = "FailedPostOnly")
             \/ \E r \in Reports : r.id = j /\ ~ r.alive
      PROVE  \/ Open(j)' \/ j \in posts' \/ j \in silent'
             \/ \E a \in answers' : a.id = j /\ (a.of = "cancel" \/ a.status = "FailedPostOnly")
             \/ \E r \in Reports' : r.id = j /\ ~ r.alive
  <2>1. CASE j = id
    BY <1>3, <2>1, LotAssumption DEF Open
  <2>2. CASE j # id
    BY <1>2, <1>3, <1>4, <1>9, <2>2
  <2> QED
    BY <2>1, <2>2
<1>10. /\ \A j \in Id : Untouched(j) /\ j \notin posts => Untouched(j)' /\ (Unanswered(j) => Unanswered(j)')
       /\ \A j \in posts' : Untouched(j)' /\ Unanswered(j)'
       /\ \A j \in Id : Open(j)' => Open(j) \/ j \in posts
  BY <1>4, <1>6
<1> QED
  BY <1>2, <1>7, <1>8, <1>9, <1>10, ExchangeKeeps

\* A cancel that finds the order open is answered; any other is not.
LEMMA CancelKeeps ==
  ASSUME SlotInv, TypeOK', NEW id \in cancels, cancel_order(id) PROVE SlotInv'
<1> USE DEF SlotInv
<1>1. id \in Id /\ id \in cancelled
  BY DEF TypeOK, Over
<1>2. /\ posts' = posts /\ cancels' \subseteq cancels /\ silent' = silent
      /\ ExchangeStep /\ Reports' = Reports
  BY DEF cancel_order, gatewayUnchanged, slotVars, ExchangeStep, Reports
<1>3. /\ \A j \in Id : left'[j] = left[j] \/ (j = id /\ left'[j] = 0)
      /\ answers \subseteq answers'
      /\ \A a \in answers' \ answers : a.id = id /\ a.of = "cancel" /\ a.status = "Ok" /\ left[id] > 0 /\ left'[id] = 0
      /\ left' = left \/ \E a \in answers' : a.id = id /\ a.of = "cancel"
  <2>1. left \in [Id -> 0 .. Lot]
    BY DEF TypeOK
  <2>2. CASE left[id] > 0 /\ left' = [left EXCEPT ![id] = 0] /\ Tell(id, "cancel", "Ok")
    <3> DEFINE b == [id |-> id, of |-> "cancel", status |-> "Ok"]
    <3>1. /\ answers' = answers \cup {b} /\ b.id = id /\ b.of = "cancel" /\ b.status = "Ok"
          /\ left'[id] = 0
      BY <1>1, <2>1, <2>2 DEF Tell
    <3>2. \A j \in Id : left'[j] = left[j] \/ (j = id /\ left'[j] = 0)
      BY <2>1, <2>2, <3>1
    <3> HIDE DEF b
    <3> QED
      BY <2>2, <3>1, <3>2
  <2>3. CASE left' = left /\ answers' = answers
    BY <2>3
  <2> QED
    BY <2>2, <2>3 DEF cancel_order
<1>4. ASSUME NEW j \in Id, Untouched(j) PROVE Untouched(j)' /\ (Unanswered(j)' <=> Unanswered(j))
  BY <1>1, <1>2, <1>3, <1>4 DEF Untouched, Unanswered, ExchangeStep, InSlot
<1>5. \A j \in posts' : j \in Id /\ Untouched(j) /\ Unanswered(j)
  BY <1>2 DEF Fresh, TypeOK
<1>6. Rejected'
  BY <1>3, <1>4 DEF Rejected, TypeOK, Answer
<1>7. Over'
  <2>1. ASSUME NEW a \in answers', a.of = "cancel" PROVE left'[a.id] = 0 /\ a.id \in cancelled'
    <3>1. CASE a \in answers
      BY <1>2, <1>3, <2>1, <3>1 DEF Over, ExchangeStep, TypeOK, Answer
    <3>2. CASE a \notin answers
      BY <1>1, <1>2, <1>3, <3>2 DEF ExchangeStep
    <3> QED
      BY <3>1, <3>2
  <2>2. ASSUME NEW r \in Reports', ~ r.alive PROVE left'[r.id] = 0
    BY <1>2, <1>3, <2>2, ReportTypes DEF Over
  <2> QED
    BY <1>2, <2>1, <2>2 DEF Over, ExchangeStep
<1>8. \A j \in Id : Open(j)' => Open(j)
  BY <1>1, <1>3 DEF Open
<1>9. ASSUME NEW j \in Id,
             \/ Open(j) \/ j \in posts
             \/ \E a \in answers : a.id = j /\ (a.of = "cancel" \/ a.status = "FailedPostOnly")
             \/ \E r \in Reports : r.id = j /\ ~ r.alive
      PROVE  \/ Open(j)' \/ j \in posts' \/ j \in silent'
             \/ \E a \in answers' : a.id = j /\ (a.of = "cancel" \/ a.status = "FailedPostOnly")
             \/ \E r \in Reports' : r.id = j /\ ~ r.alive
  BY <1>2, <1>3, <1>9 DEF Open
<1> QED
  BY <1>2, <1>4, <1>5, <1>6, <1>7, <1>8, <1>9, ExchangeKeeps

\* CancelAll ends orders in silence.
LEMMA CancelAllKeeps ==
  ASSUME SlotInv, TypeOK', cancel_all_orders PROVE SlotInv'
<1> USE DEF SlotInv
<1>1. /\ posts' = posts /\ cancels' = cancels /\ answers' = answers
      /\ ExchangeStep /\ Reports' = Reports
  BY DEF cancel_all_orders, gatewayUnchanged, slotVars, ExchangeStep, Reports
<1>2. /\ silent \subseteq silent'
      /\ \A j \in Id : left'[j] = left[j] \/ (left'[j] = 0 /\ (Open(j) => j \in silent'))
  BY DEF cancel_all_orders, Open
<1>3. ASSUME NEW j \in Id PROVE (Untouched(j) => Untouched(j)') /\ (Unanswered(j)' <=> Unanswered(j))
  BY <1>1, <1>2 DEF Untouched, Unanswered, ExchangeStep, InSlot
<1>4. \A j \in posts' : j \in Id /\ Untouched(j) /\ Unanswered(j)
  BY <1>1 DEF Fresh, TypeOK
<1>5. Rejected'
  BY <1>1, <1>3 DEF Rejected, TypeOK, Answer
<1>6. Over'
  BY <1>1, <1>2, ReportTypes DEF Over, ExchangeStep, TypeOK, Answer
<1>7. \A j \in Id : Open(j)' => Open(j)
  BY <1>2 DEF Open
<1>8. \A j \in Id : Open(j) => Open(j)' \/ j \in silent'
  BY <1>2 DEF Open
<1>9. ASSUME NEW j \in Id,
             \/ Open(j) \/ j \in posts
             \/ \E a \in answers : a.id = j /\ (a.of = "cancel" \/ a.status = "FailedPostOnly")
             \/ \E r \in Reports : r.id = j /\ ~ r.alive
      PROVE  \/ Open(j)' \/ j \in posts' \/ j \in silent'
             \/ \E a \in answers' : a.id = j /\ (a.of = "cancel" \/ a.status = "FailedPostOnly")
             \/ \E r \in Reports' : r.id = j /\ ~ r.alive
  BY <1>1, <1>8, <1>9
<1> QED
  BY <1>1, <1>2, <1>3, <1>4, <1>5, <1>6, <1>7, <1>9, ExchangeKeeps

\* An answer is lost.
LEMMA LossKeeps ==
  ASSUME SlotInv, TypeOK', NEW a \in answers, LoseAnswer(a) PROVE SlotInv'
<1> USE DEF SlotInv
<1>1. /\ posts' = posts /\ cancels' = cancels /\ left' = left /\ answers' = answers \ {a}
      /\ silent \subseteq silent' /\ ExchangeStep /\ Reports' = Reports
      /\ a.of = "cancel" \/ a.status = "FailedPostOnly" => a.id \in silent'
  BY DEF LoseAnswer, gatewayUnchanged, requestVars, slotVars, ExchangeStep, Reports
<1>2. ASSUME NEW j \in Id PROVE (Untouched(j) => Untouched(j)') /\ (Unanswered(j) => Unanswered(j)')
  BY <1>1 DEF Untouched, Unanswered, ExchangeStep, InSlot
<1>3. \A j \in posts' : j \in Id /\ Untouched(j) /\ Unanswered(j)
  BY <1>1 DEF Fresh, TypeOK
<1>4. Rejected'
  BY <1>1, <1>2 DEF Rejected, TypeOK, Answer
<1>5. Over'
  BY <1>1 DEF Over, ExchangeStep
<1>6. \A j : Open(j)' <=> Open(j)
  BY <1>1 DEF Open
<1>7. ASSUME NEW j \in Id,
             \/ Open(j) \/ j \in posts
             \/ \E b \in answers : b.id = j /\ (b.of = "cancel" \/ b.status = "FailedPostOnly")
             \/ \E r \in Reports : r.id = j /\ ~ r.alive
      PROVE  \/ Open(j)' \/ j \in posts' \/ j \in silent'
             \/ \E b \in answers' : b.id = j /\ (b.of = "cancel" \/ b.status = "FailedPostOnly")
             \/ \E r \in Reports' : r.id = j /\ ~ r.alive
  BY <1>1, <1>6, <1>7
<1> QED
  BY <1>1, <1>2, <1>3, <1>4, <1>5, <1>6, <1>7, ExchangeKeeps

\* A fill: the last one of an order is reported, or passes in silence.
LEMMA FillKeeps ==
  ASSUME SlotInv, TypeOK', NEW id \in Id, NEW named \in BOOLEAN, Fill(id, named) PROVE SlotInv'
<1> USE DEF SlotInv
<1> DEFINE report == [id |-> id, alive |-> left[id] > 1]
<1>1. /\ posts' = posts /\ cancels' = cancels /\ answers' = answers /\ ExchangeStep
      /\ silent \subseteq silent'
  BY DEF Fill, requestVars, slotVars, ExchangeStep
<1>2. left \in [Id -> 0 .. Lot] /\ left[id] \in Nat /\ left[id] > 0
  BY LotAssumption DEF Fill, TypeOK
<1>3. left'[id] = left[id] - 1 /\ \A j \in Id \ {id} : left'[j] = left[j]
  BY <1>2 DEF Fill
<1>4. ~ named /\ left[id] = 1 => id \in silent'
  BY DEF Fill
<1>5. report \in Report /\ report.id = id /\ (report.alive <=> left[id] > 1)
  <2>1. report \in Report
    BY DEF Report
  <2>2. report.id = id
    OBVIOUS
  <2>3. report.alive <=> left[id] > 1
    BY Zenon
  <2> QED
    BY <2>1, <2>2, <2>3
<1>6. Reports' = IF named THEN Reports \cup {report} ELSE Reports
  <2>1. execs \in Seq(Report)
    BY DEF TypeOK
  <2>2. CASE named
    BY <1>5, <2>1, <2>2, ReportsAdded DEF Fill
  <2>3. CASE ~ named
    BY <2>3 DEF Fill, Reports
  <2> QED
    BY <2>2, <2>3
<1> HIDE DEF report
<1>7. ASSUME NEW j \in Id, Untouched(j) PROVE j # id /\ Untouched(j)'
  <2>1. j # id /\ left'[j] = left[j]
    BY <1>2, <1>3, <1>7 DEF Untouched
  <2> QED
    BY <1>1, <1>5, <1>6, <1>7, <2>1 DEF Untouched, ExchangeStep, InSlot
<1>8. \A j : Unanswered(j)' <=> Unanswered(j)
  BY <1>1 DEF Unanswered
<1>9. \A j \in posts' : j \in Id /\ Untouched(j) /\ Unanswered(j)
  BY <1>1 DEF Fresh, TypeOK
<1>10. Rejected'
  BY <1>1, <1>7 DEF Rejected, TypeOK, Answer
<1>11. \A j \in Id : left[j] = 0 => left'[j] = 0
  BY <1>2, <1>3
<1>12. Over'
  <2>1. \A r \in Reports' : ~ r.alive => left'[r.id] = 0
    <3> SUFFICES ASSUME NEW r \in Reports', ~ r.alive PROVE left'[r.id] = 0
      OBVIOUS
    <3>1. CASE r \in Reports
      BY <1>11, <3>1, ReportTypes DEF Over
    <3>2. CASE r \notin Reports
      <4>1. r = report
        BY <1>6, <3>2
      <4> QED
        BY <1>2, <1>3, <1>5, <4>1
    <3> QED
      BY <3>1, <3>2
  <2>2. \A a \in answers' : a.of = "cancel" => left'[a.id] = 0 /\ a.id \in cancelled'
    BY <1>1, <1>11 DEF Over, ExchangeStep, TypeOK, Answer
  <2> QED
    BY <1>1, <2>1, <2>2 DEF Over, ExchangeStep
<1>13. \A j \in Id : Open(j)' => Open(j)
  BY <1>2, <1>3 DEF Open
<1>14. \A j \in Id : Open(j) => Open(j)' \/ j \in silent' \/ \E r \in Reports' : r.id = j /\ ~ r.alive
  <2> SUFFICES ASSUME NEW j \in Id, Open(j), ~ Open(j)'
               PROVE  j \in silent' \/ \E r \in Reports' : r.id = j /\ ~ r.alive
    OBVIOUS
  <2>1. j = id /\ left[id] = 1
    BY <1>2, <1>3 DEF Open
  <2> QED
    BY <1>4, <1>5, <1>6, <2>1
<1>15. ASSUME NEW j \in Id,
             \/ Open(j) \/ j \in posts
             \/ \E a \in answers : a.id = j /\ (a.of = "cancel" \/ a.status = "FailedPostOnly")
             \/ \E r \in Reports : r.id = j /\ ~ r.alive
      PROVE  \/ Open(j)' \/ j \in posts' \/ j \in silent'
             \/ \E a \in answers' : a.id = j /\ (a.of = "cancel" \/ a.status = "FailedPostOnly")
             \/ \E r \in Reports' : r.id = j /\ ~ r.alive
  BY <1>1, <1>6, <1>14, <1>15
<1> QED
  BY <1>1, <1>7, <1>8, <1>9, <1>10, <1>12, <1>13, <1>15, ExchangeKeeps

\* Initially nothing is posted and nothing is on its way.
LEMMA SlotInit == Init => SlotInv
<1> SUFFICES ASSUME Init PROVE SlotInv
  OBVIOUS
<1>1. TypeOK
  BY TypeInit
<1>2. /\ \A s \in Side : order[s].status = "None" /\ pending_cancel[s] = "no" /\ posted[s] = 0
      /\ posts = {} /\ cancels = {} /\ answers = {} /\ execs = << >> /\ cancelled = {}
  BY DEF Init, NoOrder
<1>3. PICK orphans \in SUBSET (Orphans \X {0}) :
        left = [id \in Id |-> IF id \in orphans THEN Lot ELSE 0] /\ disowned = orphans
  BY DEF Init
<1>4. Reports = {} /\ \A id \in Id : ~ InSlot(id)
  BY <1>2, IdShape DEF Reports, InSlot
<1>5. \A id \in Id : Unposted(id) => id \notin orphans
  BY <1>2, IdShape DEF Unposted
<1>6. Fresh
  BY <1>2, <1>3, <1>4, <1>5 DEF Fresh, Untouched, Unanswered
<1>7. Rejected /\ Over /\ Awaited /\ CancelOwned
  BY <1>2, <1>4 DEF Rejected, Over, Awaited, CancelOwned
<1>8. OrphansExplained
  BY <1>2, <1>3, OwnIds DEF OrphansExplained, Open
<1>9. PhantomsExplained
  BY <1>4 DEF PhantomsExplained
<1> QED
  BY <1>1, <1>6, <1>7, <1>8, <1>9 DEF SlotInv

LEMMA SlotStep == SlotInv /\ [Next]_vars => SlotInv'
<1> SUFFICES ASSUME SlotInv, [Next]_vars PROVE SlotInv'
  OBVIOUS
<1>1. TypeOK /\ TypeOK'
  BY TypeStep DEF SlotInv
<1>2. CASE \/ UNCHANGED vars \/ \E mid \in Price \cup {None} : OnObs(mid)
           \/ OnPosition \/ (\E s \in Side : ExpireCancel(s)) \/ Restore
  BY <1>1, <1>2, QuietSteps, QuietKeeps
<1>3. ASSUME NEW refused \in SUBSET Side, Update(refused) PROVE SlotInv'
  <2>1. CASE last_mid = None
    BY <1>1, <1>3, <2>1, QuietSteps, QuietKeeps
  <2>2. CASE last_mid # None
    BY <1>1, <1>3, <2>2, UpdateKeeps
  <2> QED
    BY <2>1, <2>2
<1>4. CASE OnExecution
  BY <1>1, <1>4, ExecutionKeeps
<1>5. CASE \E a \in answers : OnOrderResponse(a)
  BY <1>1, <1>5, ResponseKeeps
<1>6. CASE Gateway
  BY <1>1, <1>6, PostKeeps, CancelKeeps, CancelAllKeeps, LossKeeps DEF Gateway
<1>7. CASE \E id \in Id, named \in BOOLEAN : Fill(id, named)
  BY <1>1, <1>7, FillKeeps
<1> QED
  BY <1>2, <1>3, <1>4, <1>5, <1>6, <1>7 DEF Next, Strategy, Market

\* The inductive invariant.
THEOREM SlotsSound == Spec => []SlotInv
<1> QED
  BY SlotInit, SlotStep, PTL DEF Spec

\* A cancel that is waited for belongs to the order in the slot (strategy.rs
\* on_order_response, update): no answer and no time-out is charged to a later order.
THEOREM CancelAlwaysOwned == Spec => []CancelOwned
<1>1. SlotInv => CancelOwned
  BY DEF SlotInv
<1> QED
  BY <1>1, SlotsSound, PTL

\* An order that can still be traded is in its slot, but for the two ways in which
\* the strategy gives an order up (strategy.rs on_order_response, update).
THEOREM OrphansAlwaysExplained == Spec => []OrphansExplained
<1>1. SlotInv => OrphansExplained
  BY DEF SlotInv
<1> QED
  BY <1>1, SlotsSound, PTL

\* A slot names an order that can still be traded, or whose end is on its way, or
\* whose end was never told (strategy.rs on_execution, on_order_response).
THEOREM PhantomsAlwaysExplained == Spec => []PhantomsExplained
<1>1. SlotInv => PhantomsExplained
  BY DEF SlotInv
<1> QED
  BY <1>1, SlotsSound, PTL

\* update() asks for the cancel of an order once (strategy.rs update).
THEOREM CancelledOnce == Spec => CancelOnce
<1>1. ASSUME SlotInv, [Next]_vars
      PROVE [\A id \in cancelled : id \in cancels' => id \in cancels]_vars
  <2>1. SUFFICES ASSUME NEW id \in cancelled, id \in cancels', id \notin cancels PROVE FALSE
    OBVIOUS
  <2>2. \E refused \in SUBSET Side : Update(refused) /\ last_mid # None
    BY <1>1, <2>1 DEF Next, Strategy, Gateway, Market, OnObs, OnPosition, OnExecution,
      OnOrderResponse, Update, ExpireCancel, post_order, cancel_order, cancel_all_orders,
      LoseAnswer, Fill, Restore, vars, requestVars, gatewayUnchanged, exchangeVars
  <2>3. PICK refused \in SUBSET Side : Update(refused) /\ last_mid # None
    BY <2>2
  <2>4. TypeOK /\ Decide(refused) /\ Awaited
    BY <1>1, <2>3 DEF SlotInv, Update
  <2>5. id \in SlotIds(Cancelling(refused))
    BY <2>1, <2>4, DecidedSets
  <2>6. order[id[1]].status = "Live" /\ pending_cancel[id[1]] = "no" /\ id \in Id /\ InSlot(id)
    BY <2>4, <2>5, UpdateHandled
  <2>7. id[1] \in Side /\ id = <<id[1], order[id[1]].n>>
    BY <2>6, IdShape DEF InSlot
  <2> QED
    BY <2>1, <2>4, <2>6, <2>7 DEF Awaited
<1> QED
  BY <1>1, SlotsSound, PTL DEF Spec, CancelOnce
-----------------------------------------------------------------------------
(***************************************************************************)
(* Exposure. On a side where the strategy gave up no order and posted none *)
(* behind the news, the slot holds all there is to fill, and it was filled *)
(* when the position it was judged by was the account's own.               *)
(***************************************************************************)
Heard ==
  /\ path # << >> /\ path[Len(path)] = account
  /\ positions = << >> => position = account
  /\ positions # << >> => positions[Len(positions)] = account

\* The order of an earlier process is not in a slot.
Leftover == \A s \in Side : <<s, 0>> \notin posts /\ (Open(<<s, 0>>) => <<s, 0>> \in disowned)

\* What the order in the slot can still add to the position.
Outstanding(s) ==
  IF order[s].status = "None" THEN 0
  ELSE IF <<s, order[s].n>> \in posts THEN Lot ELSE left[<<s, order[s].n>>]
Explained(s) == \E id \in blind \cup disowned : id[1] = s
Bounded == \A s \in Side : Explained(s) \/ Long(s, account) + Outstanding(s) < MaxPosition + Lot

ExposureInv ==
  /\ SlotInv
  /\ Heard
  /\ Leftover
  /\ Bounded

LEMMA LastAppended ==
  ASSUME NEW q \in Seq(Int), NEW x \in Int
  PROVE  Append(q, x) # << >> /\ Append(q, x)[Len(Append(q, x))] = x
  OBVIOUS

LEMMA LastJoined ==
  ASSUME NEW q \in Seq(Int), NEW r \in Seq(Int), r # << >>
  PROVE  q \o r # << >> /\ (q \o r)[Len(q \o r)] = r[Len(r)]
<1>1. Len(r) \in Nat /\ Len(r) > 0 /\ Len(q) \in Nat /\ Len(q \o r) = Len(q) + Len(r)
  OBVIOUS
<1>2. (q \o r)[Len(q) + Len(r)] = r[Len(r)]
  BY <1>1
<1> QED
  BY <1>1, <1>2

LEMMA LastKept ==
  ASSUME NEW q \in Seq(Int), q # << >>
  PROVE  /\ Tail(q) = << >> => Head(q) = q[Len(q)]
         /\ Tail(q) # << >> => Tail(q)[Len(Tail(q))] = q[Len(q)]
<1>1. Len(q) \in Nat /\ Len(q) > 0 /\ Len(Tail(q)) = Len(q) - 1 /\ Tail(q) \in Seq(Int)
  OBVIOUS
<1>2. Tail(q) = << >> => Len(q) = 1
  BY <1>1, SMTT(30)
<1>3. Tail(q) # << >> => Len(q) > 1
  BY <1>1
<1> QED
  BY <1>1, <1>2, <1>3

\* The last position under way is the account's.
LEMMA HeardStep ==
  ASSUME TypeOK, Heard, [Next]_vars PROVE Heard'
<1>1. account \in Int /\ positions \in Seq(Int) /\ path \in Seq(Int)
  BY DEF TypeOK
<1>2. CASE OnPosition
  <2>1. positions # << >> /\ position' = Head(positions) /\ positions' = Tail(positions)
        /\ path' = path /\ account' = account
    BY <1>2 DEF OnPosition, exchangeVars
  <2> QED
    BY <1>1, <2>1, LastKept DEF Heard
<1>3. ASSUME NEW id \in Id, NEW named \in BOOLEAN, Fill(id, named) PROVE Heard'
  <2>1. account' \in Int /\ path' = Append(path, account') /\ positions' = Append(positions, account')
    BY <1>1, <1>3 DEF Fill, Filled
  <2> QED
    BY <1>1, <2>1, LastAppended DEF Heard
<1>4. CASE Restore
  <2>1. positions' = positions \o path /\ path' = path /\ account' = account
    BY <1>4 DEF Restore
  <2> QED
    BY <1>1, <2>1, LastJoined DEF Heard
<1>5. CASE UNCHANGED <<path, account, positions, position>>
  BY <1>5 DEF Heard
<1>6. CASE UNCHANGED vars
  BY <1>5, <1>6 DEF vars, exchangeVars
<1>7. CASE Gateway
  BY <1>5, <1>7 DEF Gateway, post_order, cancel_order, cancel_all_orders, LoseAnswer, gatewayUnchanged
<1>8. CASE \/ \E mid \in Price \cup {None} : OnObs(mid)
           \/ OnExecution \/ \E a \in answers : OnOrderResponse(a)
           \/ \E refused \in SUBSET Side : Update(refused)
           \/ \E s \in Side : ExpireCancel(s)
  BY <1>5, <1>8 DEF OnObs, OnExecution, OnOrderResponse, Update, ExpireCancel, exchangeVars
<1> QED
  BY <1>2, <1>3, <1>4, <1>6, <1>7, <1>8 DEF Next, Strategy, Market

\* What a step does to the orders, the account and what explains an excess: no
\* order opens that was not posted, nothing is forgotten.
LEMMA StepMoves ==
  ASSUME SlotInv, [Next]_vars
  PROVE  /\ disowned \subseteq disowned' /\ blind \subseteq blind'
         /\ posts' \subseteq posts \cup NewIds(ToPost)
         /\ \A j \in Id : Open(j)' => Open(j) \/ j \in posts
<1> USE DEF SlotInv, slotVars, flagVars, requestVars, exchangeVars, historyVars, gatewayUnchanged
<1>0. left \in [Id -> 0 .. Lot]
  BY DEF TypeOK
<1>1. CASE \/ UNCHANGED vars \/ \E mid \in Price \cup {None} : OnObs(mid)
           \/ OnPosition \/ (\E s \in Side : ExpireCancel(s)) \/ Restore \/ OnExecution
  BY <1>1 DEF vars, OnObs, OnPosition, ExpireCancel, Restore, OnExecution, Open
<1>2. ASSUME NEW a \in answers, OnOrderResponse(a) \/ LoseAnswer(a)
      PROVE  /\ disowned \subseteq disowned' /\ UNCHANGED <<blind, posts, left>>
  BY <1>2, ResponseHandled DEF OnOrderResponse, LoseAnswer
<1>3. ASSUME NEW refused \in SUBSET Side, Update(refused)
      PROVE  /\ disowned \subseteq disowned' /\ blind \subseteq blind' /\ left' = left
             /\ posts' \subseteq posts \cup NewIds(ToPost)
  <2>1. CASE last_mid = None
    BY <1>3, <2>1 DEF Update
  <2>2. CASE last_mid # None
    <3>1. Decide(refused) /\ left' = left
      BY <1>3, <2>2 DEF Update
    <3> QED
      BY <3>1, DecidedSets DEF Posting, NewIds
  <2> QED
    BY <2>1, <2>2
<1>4. ASSUME NEW id \in posts, post_order(id)
      PROVE  /\ UNCHANGED <<disowned, blind>> /\ posts' \subseteq posts
             /\ \A j \in Id : Open(j)' => Open(j) \/ j \in posts
  BY <1>0, <1>4 DEF post_order, Open
<1>5. ASSUME NEW id \in cancels, cancel_order(id)
      PROVE  /\ UNCHANGED <<disowned, blind, posts>> /\ \A j \in Id : Open(j)' => Open(j)
  BY <1>0, <1>5 DEF cancel_order, Open
<1>6. CASE cancel_all_orders
  BY <1>6 DEF cancel_all_orders, Open
<1>7. ASSUME NEW id \in Id, NEW named \in BOOLEAN, Fill(id, named)
      PROVE  /\ UNCHANGED <<disowned, blind, posts>> /\ \A j \in Id : Open(j)' => Open(j)
  BY <1>0, <1>7 DEF Fill, Open
<1>8. left' = left => \A j \in Id : Open(j)' => Open(j)
  BY DEF Open
<1> QED
  BY <1>1, <1>2, <1>3, <1>4, <1>5, <1>6, <1>7, <1>8 DEF Next, Strategy, Gateway, Market

LEMMA LeftoverStep ==
  ASSUME SlotInv, Leftover, [Next]_vars PROVE Leftover'
<1> SUFFICES ASSUME NEW s \in Side
             PROVE  <<s, 0>> \notin posts' /\ (Open(<<s, 0>>)' => <<s, 0>> \in disowned')
  BY DEF Leftover
<1>1. TypeOK
  BY DEF SlotInv
<1>2. <<s, 0>> \in Id
  BY DEF Id
<1>3. <<s, 0>> \notin NewIds(ToPost)
  <2>1. \A r \in ToPost : posted[r] + 1 # 0
    <3>1. \A r \in ToPost : posted[r] \in Nat
      BY <1>1, SlotId, Targets
    <3> QED
      BY <3>1
  <2> QED
    BY <2>1 DEF NewIds
<1> QED
  BY <1>2, <1>3, StepMoves DEF Leftover

\* The order in a slot counts for at most a lot, and never for less than nothing.
LEMMA OutstandingSize ==
  ASSUME TypeOK, NEW s \in Side PROVE Outstanding(s) \in 0 .. Lot
<1>1. <<s, order[s].n>> \in Id /\ left \in [Id -> 0 .. Lot]
  BY SlotId DEF TypeOK
<1> QED
  BY <1>1, LotAssumption DEF Outstanding

\* A step that leaves the account alone and adds nothing to the slots.
LEMMA BoundedKept ==
  ASSUME TypeOK, TypeOK', Bounded, account' = account,
         disowned \subseteq disowned', blind \subseteq blind',
         \A s \in Side : Explained(s)' \/ Outstanding(s)' <= Outstanding(s)
  PROVE  Bounded'
<1> SUFFICES ASSUME NEW s \in Side
             PROVE  Explained(s)' \/ Long(s, account)' + Outstanding(s)' < MaxPosition + Lot
  BY DEF Bounded
<1>1. Explained(s) => Explained(s)'
  BY DEF Explained
<1>2. Long(s, account)' = Long(s, account) /\ Long(s, account) \in Int
  BY DEF Long, TypeOK
<1>3. Outstanding(s) \in Int /\ Outstanding(s)' \in Int
  <2>1. Outstanding(s) \in 0 .. Lot /\ Lot \in Nat
    BY OutstandingSize, LotAssumption
  <2>2. <<s, order'[s].n>> \in Id /\ left' \in [Id -> 0 .. Lot]
    <3>1. order'[s].n \in 0 .. MaxOrders[s]
      <4>1. /\ order'[s] \in {NoOrder} \cup
               [status : {"PendingNew", "Live", "PendingCancel"}, n : 1 .. posted'[s], px : Price]
            /\ posted'[s] \in Nat /\ posted'[s] <= MaxOrders[s] /\ MaxOrders[s] \in Nat
        BY BoundsAssumption DEF TypeOK
      <4>2. order'[s].n \in 0 .. posted'[s]
        BY <4>1 DEF NoOrder
      <4> QED
        BY <4>1, <4>2
    <3> QED
      BY <3>1, IdShape DEF TypeOK
  <2>3. Outstanding(s)' \in 0 .. Lot
    BY <2>2, LotAssumption DEF Outstanding
  <2> QED
    BY <2>1, <2>3
<1>4. MaxPosition \in Nat /\ Lot \in Nat
  BY LimitAssumption, LotAssumption
<1> QED
  BY <1>1, <1>2, <1>3, <1>4 DEF Bounded

\* update() gives a slot a new order only when the position it has heard leaves
\* room, and that is the account's own unless the post is blind.
LEMMA BoundedByUpdate ==
  ASSUME SlotInv, TypeOK', Heard, Bounded, NEW refused \in SUBSET Side, Update(refused)
  PROVE  Bounded'
<1>1. TypeOK /\ account' = account /\ left' = left
  BY DEF SlotInv, Update, exchangeVars
<1>2. CASE last_mid = None
  <2>1. UNCHANGED <<order, posts, left, disowned, blind, account>>
    BY <1>2 DEF Update, slotVars, requestVars, exchangeVars
  <2> QED
    BY <2>1 DEF Bounded, Explained, Outstanding, Long
<1>3. CASE last_mid # None
  <2>1. Decide(refused)
    BY <1>3 DEF Update
  <2>2. /\ posts' = posts \cup NewIds(Posting(refused)) /\ disowned' = disowned \cup SlotIds(Expired)
        /\ blind' = IF positions = << >> THEN blind ELSE blind \cup NewIds(Posting(refused))
    BY <2>1, DecidedSets
  <2>3. Posting(refused) \subseteq ToPost /\ Expired \subseteq Side
    BY Targets, <1>1 DEF Posting
  <2>4. MaxPosition \in Nat /\ Lot \in Nat
    BY LimitAssumption, LotAssumption
  <2> SUFFICES ASSUME NEW s \in Side
               PROVE  Explained(s)' \/ Long(s, account)' + Outstanding(s)' < MaxPosition + Lot
    BY DEF Bounded
  <2>5. Explained(s) => Explained(s)'
    BY <2>2 DEF Explained
  <2>6. Long(s, account)' = Long(s, account) /\ Long(s, account) \in Int
    BY <1>1 DEF Long, TypeOK
  <2>7. CASE s \in Expired
    <3>1. <<s, order[s].n>> \in disowned'
      BY <2>2, <2>7 DEF SlotIds
    <3> QED
      BY <3>1 DEF Explained
  <2>8. CASE s \notin Expired /\ s \in Posting(refused)
    <3>1. <<s, posted[s] + 1>> \in NewIds(Posting(refused))
      BY <2>8 DEF NewIds
    <3>2. CASE positions # << >>
      <4>1. <<s, posted[s] + 1>> \in blind'
        BY <2>2, <3>1, <3>2
      <4> QED
        BY <4>1 DEF Explained
    <3>3. CASE positions = << >>
      <4>1. position = account
        BY <3>3 DEF Heard
      <4>2. ~ (Long(s, account) >= MaxPosition)
        BY <2>3, <2>8, <4>1 DEF ToPost, AtLimit
      <4>3. order'[s] = NewOrder(posted[s] + 1, last_mid)
        BY <1>1, <2>1, <2>8, Decided
      <4>4. order'[s].n = posted[s] + 1 /\ order'[s].status # "None"
        BY <4>3 DEF NewOrder
      <4>5. Outstanding(s)' = Lot
        BY <2>2, <3>1, <4>4 DEF Outstanding
      <4> QED
        BY <2>4, <2>6, <4>2, <4>5
    <3> QED
      BY <3>2, <3>3
  <2>9. CASE s \notin Expired /\ s \notin Posting(refused)
    <3>1. \/ order'[s] = order[s]
          \/ order'[s] = [order[s] EXCEPT !.status = "PendingCancel"] /\ order[s].status = "Live"
      <4>1. CASE s \in Cancelling(refused)
        <5>1. order'[s] = [order[s] EXCEPT !.status = "PendingCancel"]
          BY <1>1, <2>1, <4>1, Decided
        <5>2. order[s].status = "Live"
          BY <1>1, <4>1, Targets DEF Cancelling
        <5> QED
          BY <5>1, <5>2
      <4>2. CASE s \notin Cancelling(refused)
        <5>1. s \notin Posting(refused) \cup Expired \cup Cancelling(refused)
          BY <2>9, <4>2
        <5>2. order'[s] = order[s]
          BY <1>1, <2>1, <5>1, Decided
        <5> QED
          BY <5>2
      <4> QED
        BY <4>1, <4>2
    <3>2. order'[s].n = order[s].n /\ (order'[s].status = "None" <=> order[s].status = "None")
      <4>1. CASE order'[s] = [order[s] EXCEPT !.status = "PendingCancel"] /\ order[s].status = "Live"
        <5>1. order[s].status = "Live"
          BY <4>1
        <5>2. order[s] \in [status : {"PendingNew", "Live", "PendingCancel"}, n : 1 .. posted[s], px : Price]
          BY <1>1, <5>1, SlotId DEF Slot, NoOrder
        <5> QED
          BY <4>1, <5>2
      <4> QED
        BY <3>1, <4>1
    <3>3. <<s, order[s].n>> \notin NewIds(Posting(refused))
      BY <2>9 DEF NewIds
    <3>4. Outstanding(s)' = Outstanding(s)
      BY <1>1, <2>2, <3>2, <3>3 DEF Outstanding
    <3> QED
      BY <2>5, <2>6, <3>4 DEF Bounded
  <2> QED
    BY <2>7, <2>8, <2>9
<1> QED
  BY <1>2, <1>3

\* A fill moves what the slot's order has left into the account.
LEMMA BoundedByFill ==
  ASSUME SlotInv, TypeOK', Leftover, Bounded, NEW id \in Id, NEW named \in BOOLEAN, Fill(id, named)
  PROVE  Bounded'
<1>1. TypeOK /\ left \in [Id -> 0 .. Lot] /\ left[id] > 0 /\ account \in Int /\ account' = account + Filled(id[1])
  BY DEF SlotInv, Fill, TypeOK
<1>2. UNCHANGED <<order, posts, disowned, blind>> /\ left'[id] = left[id] - 1
      /\ \A j \in Id \ {id} : left'[j] = left[j]
  BY <1>1 DEF Fill, slotVars, requestVars
<1>3. id \notin posts
  BY <1>1 DEF SlotInv, Fresh, Untouched
<1>4. id[1] \in Side /\ id = <<id[1], id[2]>> /\ id[2] \in 0 .. MaxOrders[id[1]]
  BY IdShape
<1>5. InSlot(id) \/ id \in disowned
  <2>1. CASE id[2] = 0
    BY <1>1, <1>4, <2>1 DEF Leftover, Open
  <2>2. CASE id[2] # 0
    <3>1. MaxOrders[id[1]] \in Nat
      BY <1>4, BoundsAssumption
    <3>2. id[2] \in 1 .. MaxOrders[id[1]]
      BY <1>4, <2>2, <3>1
    <3>3. id \in Own(id[1])
      BY <1>4, <3>2 DEF Own
    <3> QED
      BY <1>1, <1>4, <3>3 DEF SlotInv, OrphansExplained, Open
  <2> QED
    BY <2>1, <2>2
<1>6. ASSUME NEW s \in Side
      PROVE  Explained(s)' \/ Long(s, account)' + Outstanding(s)' < MaxPosition + Lot
  <2>1. Explained(s)' <=> Explained(s)
    BY <1>2 DEF Explained
  <2>2. Outstanding(s) \in 0 .. Lot /\ Lot \in Nat /\ MaxPosition \in Nat /\ <<s, order[s].n>> \in Id
    BY <1>1, OutstandingSize, SlotId, LotAssumption, LimitAssumption
  <2>3. Explained(s) \/ Long(s, account) + Outstanding(s) < MaxPosition + Lot
    BY DEF Bounded
  <2>4. CASE s = id[1] /\ id \in disowned
    BY <2>1, <2>4 DEF Explained
  <2>5. CASE s = id[1] /\ InSlot(id)
    <3>1. order[s].status # "None" /\ <<s, order[s].n>> = id
      BY <1>4, <2>5 DEF InSlot
    <3>2. Outstanding(s) = left[id] /\ Outstanding(s)' = left[id] - 1
      BY <1>2, <1>3, <3>1 DEF Outstanding
    <3>3. Long(s, account)' = Long(s, account) + 1 /\ Long(s, account) \in Int
      BY <1>1, <2>5 DEF Long, Filled, Side
    <3>4. left[id] \in Int
      BY <1>1, LotAssumption
    <3> QED
      BY <2>1, <2>2, <2>3, <3>2, <3>3, <3>4
  <2>6. CASE s # id[1]
    <3>1. <<s, order[s].n>> # id
      BY <1>4, <2>6
    <3>2. Outstanding(s)' = Outstanding(s)
      BY <1>2, <2>2, <3>1 DEF Outstanding
    <3>3. Long(s, account)' = Long(s, account) - 1 /\ Long(s, account) \in Int
      BY <1>1, <1>4, <2>6 DEF Long, Filled, Side
    <3> QED
      BY <2>1, <2>2, <2>3, <3>2, <3>3
  <2> QED
    BY <1>5, <2>4, <2>5, <2>6
<1> QED
  BY <1>6 DEF Bounded

\* Any other step leaves the account alone and adds nothing to a slot.
LEMMA BoundedByOthers ==
  ASSUME SlotInv, TypeOK', Bounded, [Next]_vars,
         \/ UNCHANGED vars \/ \E mid \in Price \cup {None} : OnObs(mid)
         \/ OnPosition \/ (\E s \in Side : ExpireCancel(s)) \/ Restore
         \/ OnExecution \/ (\E a \in answers : OnOrderResponse(a)) \/ Gateway
  PROVE  Bounded'
<1>1. TypeOK /\ disowned \subseteq disowned' /\ blind \subseteq blind' /\ left \in [Id -> 0 .. Lot]
  BY StepMoves DEF SlotInv, TypeOK
<1>2. Lot \in Nat /\ \A s \in Side : <<s, order[s].n>> \in Id
  BY <1>1, SlotId, LotAssumption
<1>3. \A s \in Side : Outstanding(s) \in 0 .. Lot
  BY <1>1, OutstandingSize
<1>4. CASE UNCHANGED <<order, posts, left, account>>
  BY <1>1, <1>2, <1>3, <1>4, BoundedKept DEF Outstanding
<1>5. CASE \/ UNCHANGED vars \/ \E mid \in Price \cup {None} : OnObs(mid)
           \/ OnPosition \/ (\E s \in Side : ExpireCancel(s)) \/ Restore
           \/ \E a \in answers : LoseAnswer(a)
  BY <1>4, <1>5 DEF vars, OnObs, OnPosition, ExpireCancel, Restore, LoseAnswer, slotVars, requestVars,
    exchangeVars, gatewayUnchanged
<1>6. ASSUME UNCHANGED <<posts, left, account>>,
             \A s \in Side : \/ order'[s].status = "None"
                             \/ /\ order'[s].status = "None" <=> order[s].status = "None"
                                /\ order'[s].n = order[s].n
      PROVE  Bounded'
  <2>1. \A s \in Side : Outstanding(s)' = 0 \/ Outstanding(s)' = Outstanding(s)
    BY <1>6 DEF Outstanding
  <2>2. \A s \in Side : Outstanding(s)' <= Outstanding(s)
    BY <1>2, <1>3, <2>1
  <2> QED
    BY <1>1, <1>6, <2>2, BoundedKept
<1>7. CASE OnExecution
  <2>1. PICK r \in Reports :
        /\ r.id \in Id
        /\ \/ UNCHANGED slotVars
           \/ InSlot(r.id) /\ MarkLive(r.id[1])
           \/ InSlot(r.id) /\ FreeSlot(r.id[1])
    BY <1>1, <1>7, ExecutionHandled
  <2>2. UNCHANGED <<posts, left, account>>
    BY <1>7 DEF OnExecution, requestVars, exchangeVars
  <2>3. CASE UNCHANGED slotVars
    BY <1>6, <2>2, <2>3 DEF slotVars
  <2>4. CASE InSlot(r.id) /\ MarkLive(r.id[1])
    BY <1>1, <1>6, <2>1, <2>2, <2>4, Marked
  <2>5. CASE InSlot(r.id) /\ FreeSlot(r.id[1])
    <3>1. order'[r.id[1]].status = "None" /\ \A s \in Side \ {r.id[1]} : order'[s] = order[s]
      BY <1>1, <2>1, <2>5, Freed DEF FreeSlot
    <3> QED
      BY <1>6, <2>2, <3>1
  <2> QED
    BY <2>1, <2>3, <2>4, <2>5
<1>8. ASSUME NEW a \in answers, OnOrderResponse(a) PROVE Bounded'
  <2>1. /\ UNCHANGED <<posts, left, account>> /\ a.id \in Id
        /\ \/ UNCHANGED slotVars
           \/ InSlot(a.id) /\ MarkLive(a.id[1])
           \/ InSlot(a.id) /\ order' = [order EXCEPT ![a.id[1]] = NoOrder]
    BY <1>8, ResponseHandled DEF OnOrderResponse, exchangeVars
  <2>2. CASE UNCHANGED slotVars
    BY <1>6, <2>1, <2>2 DEF slotVars
  <2>3. CASE InSlot(a.id) /\ MarkLive(a.id[1])
    BY <1>1, <1>6, <2>1, <2>3, Marked
  <2>4. CASE InSlot(a.id) /\ order' = [order EXCEPT ![a.id[1]] = NoOrder]
    <3>1. order'[a.id[1]].status = "None" /\ \A s \in Side \ {a.id[1]} : order'[s] = order[s]
      BY <1>1, <2>1, <2>4, Freed
    <3> QED
      BY <1>6, <2>1, <3>1
  <2> QED
    BY <2>1, <2>2, <2>3, <2>4
<1>9. ASSUME NEW id \in posts, post_order(id) PROVE Bounded'
  <2>1. left[id] = 0 /\ id \in Id
    BY <1>1 DEF SlotInv, Fresh, Untouched, TypeOK
  <2>2. /\ UNCHANGED <<order, account>> /\ posts' = posts \ {id}
        /\ left' = left \/ left' = [left EXCEPT ![id] = Lot]
    BY <1>9 DEF post_order, gatewayUnchanged, slotVars
  <2>3. left'[id] \in {0, Lot} /\ \A j \in Id \ {id} : left'[j] = left[j]
    BY <1>1, <2>1, <2>2
  <2>4. \A s \in Side : Outstanding(s)' <= Outstanding(s)
    <3> SUFFICES ASSUME NEW s \in Side PROVE Outstanding(s)' <= Outstanding(s)
      OBVIOUS
    <3>1. CASE <<s, order[s].n>> = id /\ order[s].status # "None"
      <4>1. Outstanding(s) = Lot /\ Outstanding(s)' = left'[id]
        BY <2>2, <3>1 DEF Outstanding
      <4> QED
        BY <1>2, <2>3, <4>1
    <3>2. CASE <<s, order[s].n>> # id \/ order[s].status = "None"
      <4>1. Outstanding(s)' = Outstanding(s)
        BY <1>2, <2>2, <2>3, <3>2 DEF Outstanding
      <4> QED
        BY <1>2, <1>3, <4>1
    <3> QED
      BY <3>1, <3>2
  <2> QED
    BY <1>1, <2>2, <2>4, BoundedKept
<1>10. ASSUME UNCHANGED <<order, account, posts>>, \A j \in Id : left'[j] = left[j] \/ left'[j] = 0
       PROVE  Bounded'
  <2>1. \A s \in Side : Outstanding(s)' = 0 \/ Outstanding(s)' = Outstanding(s)
    BY <1>2, <1>10 DEF Outstanding
  <2>2. \A s \in Side : Outstanding(s)' <= Outstanding(s)
    BY <1>2, <1>3, <2>1
  <2> QED
    BY <1>1, <1>10, <2>2, BoundedKept
<1>11. ASSUME NEW id \in cancels, cancel_order(id) PROVE Bounded'
  <2>1. UNCHANGED <<order, account, posts>> /\ \A j \in Id : left'[j] = left[j] \/ left'[j] = 0
    BY <1>1, <1>11 DEF cancel_order, gatewayUnchanged, slotVars
  <2> QED
    BY <1>10, <2>1
<1>12. CASE cancel_all_orders
  <2>1. UNCHANGED <<order, account, posts>> /\ \A j \in Id : left'[j] = left[j] \/ left'[j] = 0
    BY <1>1, <1>12 DEF cancel_all_orders, gatewayUnchanged, slotVars
  <2> QED
    BY <1>10, <2>1
<1> QED
  BY <1>5, <1>7, <1>8, <1>9, <1>11, <1>12 DEF Gateway

LEMMA ExposureInit == Init => ExposureInv
<1> SUFFICES ASSUME Init PROVE ExposureInv
  OBVIOUS
<1>1. SlotInv
  BY SlotInit
<1>2. /\ account \in StartPosition /\ positions = <<account>> /\ path = <<account>> /\ posts = {}
      /\ \A s \in Side : order[s].status = "None"
  BY DEF Init, NoOrder
<1>3. PICK orphans \in SUBSET (Orphans \X {0}) :
        left = [id \in Id |-> IF id \in orphans THEN Lot ELSE 0] /\ disowned = orphans
  BY DEF Init
<1>4. Heard
  BY <1>2 DEF Heard
<1>5. Leftover
  <2>1. \A s \in Side : <<s, 0>> \in Id
    BY DEF Id
  <2>2. \A id \in Id : left[id] > 0 => id \in disowned
    BY <1>3
  <2> QED
    BY <1>2, <2>1, <2>2 DEF Leftover, Open
<1>6. Bounded
  <2> SUFFICES ASSUME NEW s \in Side PROVE Long(s, account) + Outstanding(s) < MaxPosition + Lot
    BY DEF Bounded
  <2>1. account \in (-MaxPosition) .. MaxPosition /\ MaxPosition \in Nat /\ Lot \in Nat \ {0}
    BY <1>2, StartAssumption, LimitAssumption, LotAssumption
  <2>2. Outstanding(s) = 0
    BY <1>2 DEF Outstanding
  <2> QED
    BY <2>1, <2>2 DEF Long
<1> QED
  BY <1>1, <1>4, <1>5, <1>6 DEF ExposureInv

LEMMA ExposureStep == ExposureInv /\ [Next]_vars => ExposureInv'
<1> SUFFICES ASSUME ExposureInv, [Next]_vars PROVE ExposureInv'
  OBVIOUS
<1>1. SlotInv /\ TypeOK /\ Heard /\ Leftover /\ Bounded
  BY DEF ExposureInv, SlotInv
<1>2. SlotInv' /\ TypeOK'
  BY <1>1, SlotStep, TypeStep
<1>3. Heard' /\ Leftover'
  BY <1>1, HeardStep, LeftoverStep
<1>4. Bounded'
  BY <1>1, <1>2, BoundedByUpdate, BoundedByFill, BoundedByOthers DEF Next, Strategy, Market
<1> QED
  BY <1>2, <1>3, <1>4 DEF ExposureInv

\* The account passes its limit by a lot or more only on a side where the strategy
\* gave an order up, or posted one behind the news (strategy.rs update).
THEOREM ExposureAlwaysBounded == Spec => []ExposureBounded
<1>1. ExposureInv => ExposureBounded
  <2> SUFFICES ASSUME ExposureInv, NEW s \in Side, Long(s, account) >= MaxPosition + Lot PROVE Explained(s)
    BY DEF ExposureBounded, Explained
  <2>1. TypeOK /\ Bounded
    BY DEF ExposureInv, SlotInv
  <2>2. Outstanding(s) \in 0 .. Lot /\ Lot \in Nat /\ MaxPosition \in Nat
    BY <2>1, OutstandingSize, LotAssumption, LimitAssumption
  <2>3. Long(s, account) \in Int
    BY <2>1 DEF Long, TypeOK
  <2> QED
    BY <2>1, <2>2, <2>3 DEF Bounded
<1> QED
  BY <1>1, ExposureInit, ExposureStep, PTL DEF Spec
=============================================================================
