------------------------- MODULE StripRelatedProofs -------------------------
(***************************************************************************)
(* Related control writes SwOnOffData from two more places.  The orders of *)
(* the other actors still stand and are still sent, for any number of      *)
(* ports and any requests.                                                 *)
(***************************************************************************)
EXTENDS StripRelated, StripPortsProofs

LEMMA RequestMaskType ==
  ASSUME NEW req \in [Ports -> 0 .. 2], NEW st \in [Ports -> OnOffValues]
  PROVE  RequestMask(req, st) \in SUBSET MaskBits
<1>1. ASSUME NEW i \in Ports, NEW b \in RequestBit(req, st, i)
      PROVE  b \in MaskBits
  <2> DEFINE v == IF req[i] = 2 THEN st[i] ELSE req[i]
  <2>1. v \in 0 .. 2
    BY DEF OnOffValues
  <2>2. v # 0 /\ b = i + v - 1
    BY <1>1 DEF RequestBit
  <2> QED
    BY <2>1, <2>2, NAssumption DEF Ports, MaskBits
<1> QED
  BY <1>1 DEF RequestMask

\* A byte written as a whole: the orders it contradicts no longer stand.
LEMMA SetByteBelief ==
  ASSUME Belief, NEW m \in SUBSET MaskBits, SetByte(m)
  PROVE  Belief' /\ \A p \in Ports : order'[p] \in {order[p], NoOrder}
<1>1. order' \in [Ports -> 0 .. NoOrder]
  BY DEF SetByte, Belief, BeliefType, NoOrder
<1>2. ASSUME NEW p \in Ports, order'[p] # NoOrder
      PROVE  /\ order'[p] = order[p]
             /\ p \in mask' <=> order'[p] = 1
  BY <1>2 DEF SetByte, NoOrder
<1>3. \A p \in Ports : order'[p] \in {order[p], NoOrder}
  BY DEF SetByte
<1> QED
  BY <1>1, <1>2, <1>3 DEF SetByte, Belief, BeliefType, OrderStands, OrderKnown

\* A send, whatever is then written over the byte.
LEMMA SentThen ==
  ASSUME OrderStands, UsartControlPortOnOff,
         \A p \in Ports : order'[p] \in {order[p], NoOrder}
  PROVE  OrdersWereSent'
BY DEF OrdersWereSent, OrderStands, UsartControlPortOnOff

LEMMA RepackedType ==
  ASSUME Belief
  PROVE  Repacked \in SUBSET MaskBits
BY PackType DEF Repacked, Belief, BeliefType
-----------------------------------------------------------------------------
(* The inductive invariant: the strip's, and the type of RelatedCtrl       *)

RInv == IInv /\ RelatedType

RelType == [delay : Nat, hold : Nat, pre : SUBSET MaskBits,
            ctr : SUBSET MaskBits, mark : BOOLEAN, after : BOOLEAN]

LEMMA Ends ==
  0 \in 0 .. MaxAge /\ MaxAge \in 0 .. MaxAge /\ MaxAsks \in 0 .. MaxAsks
<1>1. MaxAge \in Nat /\ MaxAsks \in Nat
  BY RelatedAssumption
<1> QED
  BY <1>1

LEMMA NoRequestType == NoRequest \in RelType
BY DEF NoRequest, RelType

LEMMA RelKept ==
  ASSUME rel \in RelType, NEW b \in BOOLEAN
  PROVE  /\ [rel EXCEPT !.mark = b] \in RelType
         /\ [rel EXCEPT !.after = b] \in RelType
         /\ Marked(rel) \in RelType
BY DEF RelType, Marked

LEMMA RequestedType ==
  ASSUME RInv, NEW req \in Requests
  PROVE  /\ Requested(req) \in [delay : Nat, hold : Nat, pre : SUBSET MaskBits,
                                ctr : SUBSET MaskBits, mark : BOOLEAN,
                                after : BOOLEAN]
         /\ RequestMask(req.states, onoff) \in SUBSET MaskBits
         /\ Repacked \in SUBSET MaskBits
<1>1. Belief
  BY InvParts DEF RInv
<1>2. Repacked \in SUBSET MaskBits
  BY <1>1, RepackedType
<1>3. req \in [states : [Ports -> 0 .. 2], delay : Nat, hold : Nat]
  BY RelatedAssumption
<1>4. RequestMask(req.states, onoff) \in SUBSET MaskBits
  BY <1>1, <1>3, RequestMaskType DEF Belief, BeliefType
<1> QED
  BY <1>2, <1>3, <1>4 DEF Requested, RInv, RelatedType

LEMMA StripKeeps ==
  ASSUME RInv, app_timer_callback1 \/ Strip, UNCHANGED relVars
  PROVE  RInv'
<1>1. Next
  BY DEF Next, Others, Strip, Client
<1>2. IInv'
  BY <1>1, StepInv DEF RInv
<1> QED
  BY <1>2 DEF RInv, RelatedType, relVars

LEMMA RelatedNowInv ==
  ASSUME RInv, NEW req \in Requests, RelatedNow(req)
  PROVE  RInv'
<1> USE DEF RInv
<1>1. Belief' /\ OrdersWereSent'
  <2>1. Belief' /\ \A p \in Ports : order'[p] \in {order[p], NoOrder}
    BY Split, RequestedType, SetByteBelief DEF RelatedNow
  <2> QED
    BY <2>1, Split, SentKept DEF RelatedNow, Comes, Sending, link, appVars,
                                 timerVars
<1>2. RestType'
  BY Split DEF RelatedNow, Comes, RestType, link, appVars, timerVars, records,
               meter, roles, world
<1>3. RelatedType'
  BY RequestedType, RelatedAssumption DEF RelatedNow, Comes, RelatedType
<1> QED
  BY <1>1, <1>2, <1>3, Join

LEMMA RelatedLaterInv ==
  ASSUME RInv, NEW req \in Requests, RelatedLater(req)
  PROVE  RInv'
<1> USE DEF RInv
<1>1. Belief' /\ OrdersWereSent'
  <2>1. Belief' /\ \A p \in Ports : order'[p] \in {order[p], NoOrder}
    BY Split, RequestedType, SetByteBelief DEF RelatedLater
  <2> QED
    BY <2>1, Split, SentKept DEF RelatedLater, Comes, Sending, link, appVars,
                                 timerVars
<1>2. RestType'
  BY Split DEF RelatedLater, Comes, RestType, link, appVars, timerVars,
               records, meter, roles, world
<1>3. RelatedType'
  <2>1. rel' \in [delay : Nat, hold : Nat, pre : SUBSET MaskBits,
                  ctr : SUBSET MaskBits, mark : BOOLEAN, after : BOOLEAN]
    BY RequestedType DEF RelatedLater, Marked
  <2>2. age' \in 0 .. MaxAge /\ owed' \in BOOLEAN /\ asks' \in 0 .. MaxAsks
    BY RelatedAssumption DEF RelatedLater, Comes, RelatedType
  <2> QED
    BY <2>1, <2>2 DEF RelatedLater, Comes, RelatedType
<1> QED
  BY <1>1, <1>2, <1>3, Join

LEMMA RelatedSendInv ==
  ASSUME RInv, RelatedSend
  PROVE  RInv'
<1> USE DEF RInv
<1>1. Belief' /\ OrdersWereSent'
  BY Split, SameBelief, SentNow DEF RelatedSend, belief
<1>2. RestType'
  BY Split, SwitchFrame DEF RelatedSend, RestType, appVars, timerVars, records,
                            meter, roles, world
<1>3. RelatedType'
  BY Ends, RelKept DEF RelatedSend, RelatedType, RelType
<1> QED
  BY <1>1, <1>2, <1>3, Join

LEMMA RelatedApplyInv ==
  ASSUME RInv, RelatedApply
  PROVE  RInv'
<1> USE DEF RInv
<1>1. Belief' /\ OrdersWereSent'
  <2>1. Belief' /\ \A p \in Ports : order'[p] \in {order[p], NoOrder}
    BY Split, SetByteBelief DEF RelatedApply, RelatedType
  <2> QED
    BY <2>1, Split, SentKept DEF RelatedApply, Tick, Sending, link, appVars,
                                 timerVars
<1>2. RestType'
  BY Split DEF RelatedApply, Tick, RestType, link, appVars, timerVars, records,
               meter, roles, world
<1>3. RelatedType'
  BY DEF RelatedApply, Tick, RelatedType
<1> QED
  BY <1>1, <1>2, <1>3, Join

LEMMA RelatedAppliedInv ==
  ASSUME RInv, RelatedApplied
  PROVE  RInv'
<1> USE DEF RInv
<1>1. Belief' /\ OrdersWereSent'
  <2>1. Belief' /\ \A p \in Ports : order'[p] \in {order[p], NoOrder}
    <3>1. CASE SetByte(rel.pre)
      BY <3>1, Split, SetByteBelief DEF RelatedType
    <3>2. CASE UNCHANGED belief
      BY <3>2, Split, SameBelief DEF belief
    <3> QED
      BY <3>1, <3>2 DEF RelatedApplied
  <2> QED
    BY <2>1, Split, SentThen DEF RelatedApplied
<1>2. RestType'
  BY Split, SwitchFrame DEF RelatedApplied, Tick, RestType, appVars, timerVars,
                            records, meter, roles, world
<1>3. RelatedType'
  BY DEF RelatedApplied, Tick, RelatedType
<1> QED
  BY <1>1, <1>2, <1>3, Join

LEMMA RelatedRestoreInv ==
  ASSUME RInv, RelatedRestore
  PROVE  RInv'
<1> USE DEF RInv
<1>1. Belief' /\ OrdersWereSent'
  <2>1. Belief' /\ \A p \in Ports : order'[p] \in {order[p], NoOrder}
    BY Split, SetByteBelief DEF RelatedRestore, RelatedType
  <2> QED
    BY <2>1, Split, SentKept DEF RelatedRestore, Tick, Sending, link, appVars,
                                 timerVars
<1>2. RestType'
  BY Split DEF RelatedRestore, Tick, RestType, link, appVars, timerVars,
               records, meter, roles, world
<1>3. RelatedType'
  BY DEF RelatedRestore, Tick, RelatedType
<1> QED
  BY <1>1, <1>2, <1>3, Join

LEMMA RelatedRestoredInv ==
  ASSUME RInv, RelatedRestored
  PROVE  RInv'
<1> USE DEF RInv
<1>1. Belief' /\ OrdersWereSent'
  BY Split, SameBelief, SentNow DEF RelatedRestored, belief
<1>2. RestType'
  BY Split, SwitchFrame DEF RelatedRestored, Tick, RestType, appVars,
                            timerVars, records, meter, roles, world
<1>3. RelatedType'
  BY Ends, RelKept DEF RelatedRestored, Tick, RelatedType, RelType
<1> QED
  BY <1>1, <1>2, <1>3, Join

LEMMA SecondInv ==
  ASSUME RInv, Second
  PROVE  RInv'
<1>1. IInv'
  BY StepInv DEF RInv, Second
<1>2. RelatedType'
  BY RelatedAssumption DEF RInv, Second, RelatedType
<1> QED
  BY <1>1, <1>2 DEF RInv

LEMMA RelatedRestartInv ==
  ASSUME RInv, RelatedRestart
  PROVE  RInv'
<1>1. IInv'
  BY StepInv DEF RInv, RelatedRestart, Next, Others
<1>2. RelatedType'
  BY Ends, NoRequestType DEF RInv, RelatedRestart, RelatedType, RelType
<1> QED
  BY <1>1, <1>2 DEF RInv

LEMMA RelatedStepInv ==
  ASSUME RInv, [RelatedNext]_allVars
  PROVE  RInv'
<1>1. CASE (app_timer_callback1 \/ Strip) /\ UNCHANGED relVars
  BY <1>1, StripKeeps
<1>2. CASE \E req \in Requests : RelatedNow(req) \/ RelatedLater(req)
  BY <1>2, RelatedNowInv, RelatedLaterInv
<1>3. CASE RelatedSend
  BY <1>3, RelatedSendInv
<1>4. CASE RelatedTick
  BY <1>4, RelatedApplyInv, RelatedAppliedInv, RelatedRestoreInv,
     RelatedRestoredInv DEF RelatedTick
<1>5. CASE Second
  BY <1>5, SecondInv
<1>6. CASE RelatedRestart
  BY <1>6, RelatedRestartInv
<1>7. CASE UNCHANGED allVars
  <2>1. IInv'
    BY <1>7, StepInv DEF RInv, allVars
  <2> QED
    BY <1>7, <2>1 DEF RInv, RelatedType, allVars, relVars
<1> QED
  BY <1>1, <1>2, <1>3, <1>4, <1>5, <1>6, <1>7 DEF RelatedNext, RelatedOthers

LEMMA RelatedInitInv ==
  ASSUME RelatedInit
  PROVE  RInv
<1>1. IInv
  BY InitInv DEF RelatedInit
<1>2. RelatedType
  BY Ends, NoRequestType DEF RelatedInit, RelatedType, RelType
<1> QED
  BY <1>1, <1>2 DEF RInv

LEMMA RelatedInvariance == RelatedSpec => []RInv
<1>1. RelatedInit => RInv
  BY RelatedInitInv
<1>2. RInv /\ [RelatedNext]_allVars => RInv'
  BY RelatedStepInv
<1> QED
  BY <1>1, <1>2, PTL DEF RelatedSpec

\* RelatedCtrl keeps its type (Switch_RelatedCtl, SysTime_GetTime).
THEOREM RelatedTypeCorrect == RelatedSpec => []RelatedType
<1>1. RInv => RelatedType
  BY DEF RInv
<1> QED
  BY <1>1, RelatedInvariance, PTL

\* No packing undoes an order and no status forgets it, although the related
\* control writes over the byte (Switch_delayCtl, DevRule.c:396).
THEOREM RelatedOrders == RelatedSpec => [](OrderStands /\ OrderKnown)
<1>1. RInv => OrderStands /\ OrderKnown
  BY DEF RInv, IInv
<1> QED
  BY <1>1, RelatedInvariance, PTL

\* Every order that stands is in the last frame once its actor is past its
\* send, whatever the related control writes over the byte in between.
THEOREM RelatedSent == RelatedSpec => []OrdersWereSent
<1>1. RInv => OrdersWereSent
  BY DEF RInv, IInv
<1> QED
  BY <1>1, RelatedInvariance, PTL
=============================================================================
