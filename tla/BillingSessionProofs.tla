----------------------- MODULE BillingSessionProofs -----------------------
(***************************************************************************)
(* What is proved of BillingSession for every price, number of attempts    *)
(* and number of faults.                                                   *)
(*                                                                         *)
(* The accounts do not guide the session: what it does depends on what it  *)
(* remembers.  So the inductive invariant, SessionInv, says what the       *)
(* session's figures mean at each point of the request and does not        *)
(* mention the accounts; that every statement moves an account and its     *)
(* figure alike is a fact about steps, FundingMoves and TokenMoves.        *)
(***************************************************************************)
EXTENDS BillingSession, TLAPS

Opening == {"new", "admit", "token", "funding", "untoken"}

Opened == {"ready", "reserve", "reserveToken", "unreserve", "insert", "settle", "settleToken",
           "refund", "unsettled"}

\* A reservation of the wallet that is not complete yet.
TopUp == IF pc \in {"reserveToken", "unreserve"} THEN amt ELSE 0

\* Until the session is open only the token may be charged.
OnlyTheToken ==
    pc \in Opening =>
        /\ pre = 0 /\ base = 0 /\ extraReserved = 0
        /\ pc \in {"new", "admit", "token"} => tokenConsumed = 0
        /\ pc = "funding" => tokenConsumed = amt
        /\ pc # "new" => source # "none"

\* An open session has reserved as much on the token as on its source.  A wallet
\* may have lost more to a rollback that failed.
ReservedAlike ==
    pc \in Opened =>
        /\ source # "none"
        /\ tokenConsumed = pre
        /\ source = "subscription" => base + extraReserved = pre
        /\ source = "wallet" => base >= pre + TopUp /\ (faults = 0 => base = pre + TopUp)

\* A request is settled or refunded, by one of its two actors at a time.
EndsOnce ==
    /\ fundingSettled => rpc = "off" /\ (pc \in {"settleToken", "dead"} \/ settled)
    /\ settled => pc = "done" /\ rpc = "off"
    /\ pc = "settleToken" => fundingSettled
    /\ tokenSettled => settled
    /\ refunded => pc \in {"done", "dead"}
    /\ rpc # "off" => pc \in {"done", "dead"}
    /\ rpc = "extra" => source = "subscription"
    /\ record = "refunded" => rpc \notin {"off", "funding"}
    /\ rpc = "dead" => pc = "dead"
    /\ pc = "dead" => faults > 0

\* Where no statement fails, a request that is over and has no refund has
\* nothing left to be adjusted.
NothingLeft ==
    pc = "done" /\ rpc = "off" /\ faults = 0 =>
        IF settled THEN tokenSettled \/ tokenConsumed = actual
        ELSE tokenConsumed = 0 /\ base = 0 /\ (source = "subscription" => extraReserved = 0)

SessionInv == TypeOK /\ OnlyTheToken /\ ReservedAlike /\ EndsOnce /\ NothingLeft

-----------------------------------------------------------------------------
(* TypeOK in three parts, by what the provers need for them.               *)

FlagTypes ==
    /\ forced \in BOOLEAN /\ playground \in BOOLEAN
    /\ require \in BOOLEAN /\ trusted \in BOOLEAN
    /\ fundingSettled \in BOOLEAN /\ settled \in BOOLEAN
    /\ refunded \in BOOLEAN /\ tokenSettled \in BOOLEAN

StepTypes ==
    /\ pc \in Opening \cup Opened \cup Ended
    /\ goal \in {"ready", "insert"}
    /\ source \in {"none", "wallet", "subscription"}
    /\ plan \in {<<>>, <<"wallet">>, <<"subscription">>}
    /\ record \in {"none", "consumed", "refunded"}
    /\ rpc \in {"off", "funding", "extra", "token", "over", "dead"}

FigureTypes ==
    /\ calls \in 0..MaxCalls /\ faults \in 0..MaxFaults
    /\ price \in Prices /\ actual \in Prices
    /\ amt \in Nat /\ pre \in Nat /\ tokenConsumed \in Nat /\ extraReserved \in Nat /\ base \in Nat
    /\ tries \in 0..MaxAttempts /\ (rpc = "funding" => tries > 0)
    /\ fundingPaid \in Int /\ tokenPaid \in Int

\* The three parts make up TypeOK.
LEMMA TypeParts == TypeOK <=> FlagTypes /\ StepTypes /\ FigureTypes
BY DEF TypeOK, FlagTypes, StepTypes, FigureTypes, Opening, Opened, Ended

\* And they do after a step.
LEMMA TypePartsNext == FlagTypes' /\ StepTypes' /\ FigureTypes' => TypeOK'
BY DEF TypeOK, FlagTypes, StepTypes, FigureTypes, Opening, Opened, Ended

\* A billing preference names a source, and at most one more to fall back on.
LEMMA PlanSplits == ASSUME NEW p \in Plans
  PROVE Head(p) \in {"wallet", "subscription"} /\ Tail(p) \in {<<>>, <<"wallet">>, <<"subscription">>}
<1>1. CASE p = <<"wallet">> BY <1>1
<1>2. CASE p = <<"subscription">> BY <1>2
<1>3. CASE p = <<"wallet", "subscription">> BY <1>3
<1>4. CASE p = <<"subscription", "wallet">> BY <1>4
<1> QED BY <1>1, <1>2, <1>3, <1>4 DEF Plans

\* Falling back goes to a source that exists, or gives the session up.
LEMMA NextSourceTypes ==
  ASSUME TypeOK, source # "none", NextSource
  PROVE  /\ pc' \in {"new", "done", "admit"}
         /\ source' \in {"wallet", "subscription"}
         /\ plan' \in {<<>>, <<"wallet">>, <<"subscription">>}
<1>1. CASE plan = <<>> BY <1>1 DEF NextSource, NoSession, TypeOK
<1>2. CASE plan # <<>>
  <2>1. /\ plan \in {<<"wallet">>, <<"subscription">>} /\ source' = Head(plan) /\ plan' = Tail(plan)
        /\ pc' = "admit"
    BY <1>2 DEF NextSource, TypeOK
  <2>2. /\ Head(plan) \in {"wallet", "subscription"} /\ Tail(plan) \in {<<>>, <<"wallet">>, <<"subscription">>}
    BY <2>1, PlanSplits DEF Plans
  <2> QED BY <2>1, <2>2
<1> QED BY <1>1, <1>2

-----------------------------------------------------------------------------
(* Every step preserves the invariant.                                      *)

\* SessionInv is preserved: NewBillingSession opens with a plan that names a source.
LEMMA NewBillingSessionKeeps == ASSUME SessionInv, NewBillingSession PROVE SessionInv'
<1> USE BillingAssumption DEF SessionInv, NewBillingSession, request, progress, moving, session,
    flags, refund, paid
<1>0. /\ price' \in Prices /\ source' \in {"wallet", "subscription"}
      /\ plan' \in {<<>>, <<"wallet">>, <<"subscription">>}
  BY PlanSplits
<1>1. FlagTypes' BY TypeParts DEF FlagTypes
<1>2. StepTypes' BY <1>0, TypeParts DEF StepTypes, Opening, Opened, Ended
<1>3. FigureTypes'
  BY <1>0, TypeParts DEF FigureTypes, StepTypes, FlagTypes, OnlyTheToken, ReservedAlike, Opening,
      Opened, TopUp, Prices, MaxAttempts
<1>4. OnlyTheToken'
  BY <1>0, TypeParts DEF FigureTypes, StepTypes, OnlyTheToken, EndsOnce, Opening, Opened, Ended
<1>5. ReservedAlike'
  BY <1>0, TypeParts DEF FigureTypes, StepTypes, OnlyTheToken, ReservedAlike, EndsOnce, Opening,
      Opened, TopUp, Ended
<1>6. EndsOnce'
  BY <1>0, TypeParts DEF FlagTypes, FigureTypes, StepTypes, EndsOnce, Opening, Opened, Ended
<1>7. NothingLeft'
  BY <1>0, TypeParts DEF FlagTypes, FigureTypes, StepTypes, OnlyTheToken, ReservedAlike, EndsOnce,
      NothingLeft, Opening, Opened, TopUp, Ended, Prices
<1> QED BY <1>1, <1>2, <1>3, <1>4, <1>5, <1>6, <1>7, TypePartsNext

\* SessionInv is preserved: tryWallet goes to the funding step without the token
\* only with nothing to reserve.
LEMMA TryWalletKeeps == ASSUME SessionInv, TryWallet PROVE SessionInv'
<1> USE BillingAssumption DEF SessionInv, TryWallet, NoSession, Ok, Fault, request, progress,
    moving, session, flags, refund, paid
<1>0. /\ pc' \in {"new", "done", "admit", "token", "funding"}
      /\ source' \in {"wallet", "subscription"}
      /\ plan' \in {<<>>, <<"wallet">>, <<"subscription">>}
  BY NextSourceTypes DEF TypeOK
<1>9. amt' \in Nat /\ (pc' = "funding" => amt' = 0) /\ faults' \in 0..MaxFaults
  <2>1. CASE Ok /\ NextSource /\ UNCHANGED <<amt, trusted>> BY <2>1, NextSourceTypes DEF TypeOK
  <2>2. CASE Fault /\ pc' = NoSession /\ UNCHANGED amt BY <2>2 DEF TypeOK
  <2>3. ASSUME Ok, NEW t \in BOOLEAN, amt' = IF t THEN 0 ELSE price,
               pc' = IF t \/ price = 0 THEN "funding" ELSE "token"
        PROVE  amt' \in Nat /\ (pc' = "funding" => amt' = 0) /\ faults' \in 0..MaxFaults
    BY <2>3 DEF TypeOK, Prices
  <2> QED BY <2>1, <2>2, <2>3
<1>1. FlagTypes' BY TypeParts DEF FlagTypes
<1>2. StepTypes' BY <1>0, <1>9, TypeParts DEF StepTypes, Opening, Opened, Ended
<1>3. FigureTypes'
  <2>1. /\ calls' \in 0..MaxCalls /\ faults' \in 0..MaxFaults BY <1>0, <1>9, TypeParts DEF FigureTypes
  <2> QED BY <1>0, <1>9, <2>1, TypeParts DEF FigureTypes
<1>4. OnlyTheToken'
  BY <1>0, <1>9, TypeParts DEF FigureTypes, StepTypes, OnlyTheToken, EndsOnce, Opening, Opened,
      Ended
<1>5. ReservedAlike'
  BY <1>0, <1>9, TypeParts DEF FigureTypes, StepTypes, OnlyTheToken, ReservedAlike, EndsOnce,
      Opening, Opened, TopUp, Ended
<1>6. EndsOnce'
  BY <1>0, <1>9, TypeParts DEF FlagTypes, FigureTypes, StepTypes, EndsOnce, Opening, Opened, Ended
<1>7. NothingLeft'
  BY <1>0, <1>9, TypeParts DEF FlagTypes, FigureTypes, StepTypes, OnlyTheToken, ReservedAlike,
      EndsOnce, NothingLeft, Opening, Opened, TopUp, Ended, Prices
<1> QED BY <1>1, <1>2, <1>3, <1>4, <1>5, <1>6, <1>7, TypePartsNext

\* SessionInv is preserved: trySubscription starts with the token.
LEMMA TrySubscriptionKeeps == ASSUME SessionInv, TrySubscription PROVE SessionInv'
<1> USE BillingAssumption DEF SessionInv, TrySubscription, request, progress, moving, session,
    flags, refund, paid
<1>1. FlagTypes' BY TypeParts DEF FlagTypes
<1>2. StepTypes' BY TypeParts DEF StepTypes, Opening, Opened, Ended
<1>3. FigureTypes'
  BY TypeParts DEF FigureTypes, StepTypes, FlagTypes, OnlyTheToken, ReservedAlike, Opening,
      Opened, TopUp, Prices, MaxAttempts
<1>4. OnlyTheToken'
  BY TypeParts DEF FigureTypes, StepTypes, OnlyTheToken, EndsOnce, Opening, Opened, Ended
<1>5. ReservedAlike'
  BY TypeParts DEF FigureTypes, StepTypes, OnlyTheToken, ReservedAlike, EndsOnce, Opening, Opened,
      TopUp, Ended
<1>6. EndsOnce' BY TypeParts DEF FlagTypes, FigureTypes, StepTypes, EndsOnce, Opening, Opened, Ended
<1>7. NothingLeft'
  BY TypeParts DEF FlagTypes, FigureTypes, StepTypes, OnlyTheToken, ReservedAlike, EndsOnce,
      NothingLeft, Opening, Opened, TopUp, Ended, Prices
<1> QED BY <1>1, <1>2, <1>3, <1>4, <1>5, <1>6, <1>7, TypePartsNext

\* SessionInv is preserved: the token is charged first, and remembered.
LEMMA PreConsumeTokenKeeps == ASSUME SessionInv, PreConsumeToken PROVE SessionInv'
<1> USE BillingAssumption DEF SessionInv, PreConsumeToken, ChargeToken, NoSession, Ok, Fault,
    request, progress, moving, session, flags, refund, paid
<1>1. FlagTypes' BY TypeParts DEF FlagTypes
<1>2. StepTypes' BY TypeParts DEF StepTypes, Opening, Opened, Ended
<1>3. FigureTypes'
  BY TypeParts DEF FigureTypes, StepTypes, FlagTypes, OnlyTheToken, ReservedAlike, Opening,
      Opened, TopUp, Prices, MaxAttempts
<1>4. OnlyTheToken'
  BY TypeParts DEF FigureTypes, StepTypes, OnlyTheToken, EndsOnce, Opening, Opened, Ended
<1>5. ReservedAlike'
  BY TypeParts DEF FigureTypes, StepTypes, OnlyTheToken, ReservedAlike, EndsOnce, Opening, Opened,
      TopUp, Ended
<1>6. EndsOnce' BY TypeParts DEF FlagTypes, FigureTypes, StepTypes, EndsOnce, Opening, Opened, Ended
<1>7. NothingLeft'
  BY TypeParts DEF FlagTypes, FigureTypes, StepTypes, OnlyTheToken, ReservedAlike, EndsOnce,
      NothingLeft, Opening, Opened, TopUp, Ended, Prices
<1> QED BY <1>1, <1>2, <1>3, <1>4, <1>5, <1>6, <1>7, TypePartsNext

\* SessionInv is preserved: preConsume is complete: token and source hold the same amount.
LEMMA PreConsumeFundingKeeps == ASSUME SessionInv, PreConsumeFunding PROVE SessionInv'
<1> USE BillingAssumption DEF SessionInv, PreConsumeFunding, Ok, Fault, request, progress,
    moving, session, flags, refund, paid
<1>1. FlagTypes' BY TypeParts DEF FlagTypes
<1>2. StepTypes' BY TypeParts DEF StepTypes, Opening, Opened, Ended
<1>3. FigureTypes'
  BY TypeParts DEF FigureTypes, StepTypes, FlagTypes, OnlyTheToken, ReservedAlike, Opening,
      Opened, TopUp, Prices, MaxAttempts
<1>4. OnlyTheToken'
  BY TypeParts DEF FigureTypes, StepTypes, OnlyTheToken, EndsOnce, Opening, Opened, Ended
<1>5. ReservedAlike'
  BY TypeParts DEF FigureTypes, StepTypes, OnlyTheToken, ReservedAlike, EndsOnce, Opening, Opened,
      TopUp, Ended
<1>6. EndsOnce' BY TypeParts DEF FlagTypes, FigureTypes, StepTypes, EndsOnce, Opening, Opened, Ended
<1>7. NothingLeft'
  BY TypeParts DEF FlagTypes, FigureTypes, StepTypes, OnlyTheToken, ReservedAlike, EndsOnce,
      NothingLeft, Opening, Opened, TopUp, Ended, Prices
<1> QED BY <1>1, <1>2, <1>3, <1>4, <1>5, <1>6, <1>7, TypePartsNext

\* SessionInv is preserved: the next source starts with nothing charged.
LEMMA RollBackTokenKeeps == ASSUME SessionInv, RollBackToken PROVE SessionInv'
<1> USE BillingAssumption DEF SessionInv, RollBackToken, ChargeToken, Ok, Fault, request,
    progress, moving, session, flags, refund, paid
<1>0. /\ pc' \in {"new", "done", "admit"}
      /\ source' \in {"wallet", "subscription"}
      /\ plan' \in {<<>>, <<"wallet">>, <<"subscription">>}
  BY NextSourceTypes DEF TypeOK, OnlyTheToken, Opening
<1>1. FlagTypes' BY TypeParts DEF FlagTypes
<1>2. StepTypes' BY <1>0, TypeParts DEF StepTypes, Opening, Opened, Ended
<1>3. FigureTypes'
  BY <1>0, TypeParts DEF FigureTypes, StepTypes, FlagTypes, OnlyTheToken, ReservedAlike, Opening,
      Opened, TopUp, Prices, MaxAttempts
<1>4. OnlyTheToken'
  BY <1>0, TypeParts DEF FigureTypes, StepTypes, OnlyTheToken, EndsOnce, Opening, Opened, Ended
<1>5. ReservedAlike'
  BY <1>0, TypeParts DEF FigureTypes, StepTypes, OnlyTheToken, ReservedAlike, EndsOnce, Opening,
      Opened, TopUp, Ended
<1>6. EndsOnce'
  BY <1>0, TypeParts DEF FlagTypes, FigureTypes, StepTypes, EndsOnce, Opening, Opened, Ended
<1>7. NothingLeft'
  BY <1>0, TypeParts DEF FlagTypes, FigureTypes, StepTypes, OnlyTheToken, ReservedAlike, EndsOnce,
      NothingLeft, Opening, Opened, TopUp, Ended, Prices
<1> QED BY <1>1, <1>2, <1>3, <1>4, <1>5, <1>6, <1>7, TypePartsNext

\* SessionInv is preserved: a top-up starts from what is reserved.
LEMMA RepriceKeeps == ASSUME SessionInv, Reprice PROVE SessionInv'
<1> USE BillingAssumption DEF SessionInv, Reprice, StartReserve, Reserved, request, progress,
    moving, session, flags, refund, paid
<1>0. amt' \in Nat BY DEF TypeOK, Prices
<1>1. FlagTypes' BY TypeParts DEF FlagTypes
<1>2. StepTypes' BY <1>0, TypeParts DEF StepTypes, Opening, Opened, Ended
<1>3. FigureTypes'
  <2>1. calls' \in 0..MaxCalls /\ faults' \in 0..MaxFaults BY <1>0, TypeParts DEF FigureTypes
  <2> QED BY <1>0, <2>1, TypeParts DEF FigureTypes
<1>4. OnlyTheToken'
  BY <1>0, TypeParts DEF FigureTypes, StepTypes, OnlyTheToken, EndsOnce, Opening, Opened, Ended
<1>5. ReservedAlike'
  BY <1>0, TypeParts DEF FigureTypes, StepTypes, OnlyTheToken, ReservedAlike, EndsOnce, Opening,
      Opened, TopUp, Ended
<1>6. EndsOnce'
  BY <1>0, TypeParts DEF FlagTypes, FigureTypes, StepTypes, EndsOnce, Opening, Opened, Ended
<1>7. NothingLeft'
  BY <1>0, TypeParts DEF FlagTypes, FigureTypes, StepTypes, OnlyTheToken, ReservedAlike, EndsOnce,
      NothingLeft, Opening, Opened, TopUp, Ended, Prices
<1> QED BY <1>1, <1>2, <1>3, <1>4, <1>5, <1>6, <1>7, TypePartsNext

\* SessionInv is preserved: the source is topped up before the token.
LEMMA ReserveFundingKeeps == ASSUME SessionInv, ReserveFunding PROVE SessionInv'
<1> USE BillingAssumption DEF SessionInv, ReserveFunding, ReserveFailed, Ok, Fault, request,
    progress, moving, session, flags, refund, paid
<1>0. base' \in Nat /\ fundingPaid' \in Int BY DEF TypeOK
<1>1. FlagTypes' BY TypeParts DEF FlagTypes
<1>2. StepTypes' BY <1>0, TypeParts DEF StepTypes, Opening, Opened, Ended
<1>3. FigureTypes'
  BY <1>0, TypeParts, SMTT(30) DEF FigureTypes, StepTypes, FlagTypes, OnlyTheToken, ReservedAlike,
      Opening, Opened, TopUp, Prices, MaxAttempts
<1>4. OnlyTheToken'
  BY <1>0, TypeParts DEF FigureTypes, StepTypes, OnlyTheToken, EndsOnce, Opening, Opened, Ended
<1>5. ReservedAlike'
  BY <1>0, TypeParts, SMTT(30) DEF FigureTypes, StepTypes, OnlyTheToken, ReservedAlike, EndsOnce,
      Opening, Opened, TopUp, Ended
<1>6. EndsOnce'
  BY <1>0, TypeParts DEF FlagTypes, FigureTypes, StepTypes, EndsOnce, Opening, Opened, Ended
<1>7. NothingLeft'
  BY <1>0, TypeParts DEF FlagTypes, FigureTypes, StepTypes, OnlyTheToken, ReservedAlike, EndsOnce,
      NothingLeft, Opening, Opened, TopUp, Ended, Prices
<1> QED BY <1>1, <1>2, <1>3, <1>4, <1>5, <1>6, <1>7, TypePartsNext

\* SessionInv is preserved: the top-up is complete, or to be rolled back.
LEMMA ReserveTokenKeeps == ASSUME SessionInv, ReserveToken PROVE SessionInv'
<1> USE BillingAssumption DEF SessionInv, ReserveToken, ChargeToken, Ok, Fault, request,
    progress, moving, session, flags, refund, paid
<1>0. /\ pre' \in Nat /\ tokenConsumed' \in Nat /\ extraReserved' \in Nat
      /\ tokenPaid' \in Int
  BY DEF TypeOK
<1>1. FlagTypes' BY TypeParts DEF FlagTypes
<1>2. StepTypes' BY <1>0, TypeParts DEF StepTypes, Opening, Opened, Ended
<1>3. FigureTypes'
  BY <1>0, TypeParts, SMTT(30) DEF FigureTypes, StepTypes, FlagTypes, OnlyTheToken, ReservedAlike,
      Opening, Opened, TopUp, Prices, MaxAttempts
<1>4. OnlyTheToken'
  BY <1>0, TypeParts DEF FigureTypes, StepTypes, OnlyTheToken, EndsOnce, Opening, Opened, Ended
<1>5. ReservedAlike'
  <2>1. CASE pc' = "unreserve"
    BY <2>1, TypeParts DEF FigureTypes, StepTypes, ReservedAlike, Opened, TopUp
  <2>2. CASE pc' = goal
    BY <2>2, TypeParts DEF FigureTypes, StepTypes, ReservedAlike, Opened, TopUp
  <2> QED BY <2>1, <2>2
<1>6. EndsOnce'
  BY <1>0, TypeParts DEF FlagTypes, FigureTypes, StepTypes, EndsOnce, Opening, Opened, Ended
<1>7. NothingLeft'
  BY <1>0, TypeParts DEF FlagTypes, FigureTypes, StepTypes, OnlyTheToken, ReservedAlike, EndsOnce,
      NothingLeft, Opening, Opened, TopUp, Ended, Prices
<1> QED BY <1>1, <1>2, <1>3, <1>4, <1>5, <1>6, <1>7, TypePartsNext

\* SessionInv is preserved: a rollback that fails leaves the wallet with more
\* than the session knows.
LEMMA RollBackFundingKeeps == ASSUME SessionInv, RollBackFunding PROVE SessionInv'
<1> USE BillingAssumption DEF SessionInv, RollBackFunding, ReserveFailed, Ok, Fault, request,
    progress, moving, session, flags, refund, paid
<1>0. base' \in Nat /\ fundingPaid' \in Int
  BY DEF TypeOK, ReservedAlike, TopUp, Opened
<1>1. FlagTypes' BY TypeParts DEF FlagTypes
<1>2. StepTypes' BY <1>0, TypeParts DEF StepTypes, Opening, Opened, Ended
<1>3. FigureTypes'
  BY <1>0, TypeParts DEF FigureTypes, StepTypes, FlagTypes, OnlyTheToken, ReservedAlike, Opening,
      Opened, TopUp, Prices, MaxAttempts
<1>4. OnlyTheToken'
  BY <1>0, TypeParts DEF FigureTypes, StepTypes, OnlyTheToken, EndsOnce, Opening, Opened, Ended
<1>5. ReservedAlike'
  BY <1>0, TypeParts, SMTT(30) DEF FigureTypes, StepTypes, OnlyTheToken, ReservedAlike, EndsOnce,
      Opening, Opened, TopUp, Ended
<1>6. EndsOnce'
  BY <1>0, TypeParts DEF FlagTypes, FigureTypes, StepTypes, EndsOnce, Opening, Opened, Ended
<1>7. NothingLeft'
  BY <1>0, TypeParts DEF FlagTypes, FigureTypes, StepTypes, OnlyTheToken, ReservedAlike, EndsOnce,
      NothingLeft, Opening, Opened, TopUp, Ended, Prices
<1> QED BY <1>1, <1>2, <1>3, <1>4, <1>5, <1>6, <1>7, TypePartsNext

\* SessionInv is preserved: a failed request has its reservation refunded, or none.
LEMMA FailKeeps == ASSUME SessionInv, Fail PROVE SessionInv'
<1> USE BillingAssumption DEF SessionInv, Fail, request, progress, moving, session, flags,
    refund, paid
<1>1. FlagTypes' BY TypeParts DEF FlagTypes
<1>2. StepTypes' BY TypeParts DEF StepTypes, Opening, Opened, Ended
<1>3. FigureTypes'
  BY TypeParts DEF FigureTypes, StepTypes, FlagTypes, OnlyTheToken, ReservedAlike, Opening,
      Opened, TopUp, Prices, MaxAttempts
<1>4. OnlyTheToken'
  BY TypeParts DEF FigureTypes, StepTypes, OnlyTheToken, EndsOnce, Opening, Opened, Ended
<1>5. ReservedAlike'
  BY TypeParts DEF FigureTypes, StepTypes, OnlyTheToken, ReservedAlike, EndsOnce, Opening, Opened,
      TopUp, Ended
<1>6. EndsOnce' BY TypeParts DEF FlagTypes, FigureTypes, StepTypes, EndsOnce, Opening, Opened, Ended
<1>7. NothingLeft'
  BY TypeParts DEF FlagTypes, FigureTypes, StepTypes, OnlyTheToken, ReservedAlike, EndsOnce,
      NothingLeft, Opening, Opened, TopUp, Ended, Prices
<1> QED BY <1>1, <1>2, <1>3, <1>4, <1>5, <1>6, <1>7, TypePartsNext

\* SessionInv is preserved: the actual price is known.
LEMMA SucceedKeeps == ASSUME SessionInv, Succeed PROVE SessionInv'
<1> USE BillingAssumption DEF SessionInv, Succeed, request, progress, moving, session, flags,
    refund, paid
<1>1. FlagTypes' BY TypeParts DEF FlagTypes
<1>2. StepTypes' BY TypeParts DEF StepTypes, Opening, Opened, Ended
<1>3. FigureTypes'
  BY TypeParts DEF FigureTypes, StepTypes, FlagTypes, OnlyTheToken, ReservedAlike, Opening,
      Opened, TopUp, Prices, MaxAttempts
<1>4. OnlyTheToken'
  BY TypeParts DEF FigureTypes, StepTypes, OnlyTheToken, EndsOnce, Opening, Opened, Ended
<1>5. ReservedAlike'
  BY TypeParts DEF FigureTypes, StepTypes, OnlyTheToken, ReservedAlike, EndsOnce, Opening, Opened,
      TopUp, Ended
<1>6. EndsOnce' BY TypeParts DEF FlagTypes, FigureTypes, StepTypes, EndsOnce, Opening, Opened, Ended
<1>7. NothingLeft'
  BY TypeParts DEF FlagTypes, FigureTypes, StepTypes, OnlyTheToken, ReservedAlike, EndsOnce,
      NothingLeft, Opening, Opened, TopUp, Ended, Prices
<1> QED BY <1>1, <1>2, <1>3, <1>4, <1>5, <1>6, <1>7, TypePartsNext

\* SessionInv is preserved: the source is settled before the token.
LEMMA SettleKeeps == ASSUME SessionInv, Settle PROVE SessionInv'
<1> USE BillingAssumption DEF SessionInv, Settle, Delta, Ok, Fault, request, progress, moving,
    session, flags, refund, paid
<1>1. FlagTypes' BY TypeParts DEF FlagTypes
<1>2. StepTypes' BY TypeParts DEF StepTypes, Opening, Opened, Ended
<1>3. FigureTypes'
  BY TypeParts, SMTT(30) DEF FigureTypes, StepTypes, FlagTypes, OnlyTheToken, ReservedAlike,
      Opening, Opened, TopUp, Prices, MaxAttempts
<1>4. OnlyTheToken'
  BY TypeParts DEF FigureTypes, StepTypes, OnlyTheToken, EndsOnce, Opening, Opened, Ended
<1>5. ReservedAlike'
  BY TypeParts DEF FigureTypes, StepTypes, OnlyTheToken, ReservedAlike, EndsOnce, Opening, Opened,
      TopUp, Ended
<1>6. EndsOnce' BY TypeParts DEF FlagTypes, FigureTypes, StepTypes, EndsOnce, Opening, Opened, Ended
<1>7. NothingLeft'
  BY TypeParts DEF FlagTypes, FigureTypes, StepTypes, OnlyTheToken, ReservedAlike, EndsOnce,
      NothingLeft, Opening, Opened, TopUp, Ended, Prices
<1> QED BY <1>1, <1>2, <1>3, <1>4, <1>5, <1>6, <1>7, TypePartsNext

\* SessionInv is preserved: the session ends settled.
LEMMA SettleTokenKeeps == ASSUME SessionInv, SettleToken PROVE SessionInv'
<1> USE BillingAssumption DEF SessionInv, SettleToken, ChargeToken, Delta, Ok, Fault, request,
    progress, moving, session, flags, refund, paid
<1>1. FlagTypes' BY TypeParts DEF FlagTypes
<1>2. StepTypes' BY TypeParts DEF StepTypes, Opening, Opened, Ended
<1>3. FigureTypes'
  BY TypeParts, SMTT(30) DEF FigureTypes, StepTypes, FlagTypes, OnlyTheToken, ReservedAlike,
      Opening, Opened, TopUp, Prices, MaxAttempts
<1>4. OnlyTheToken'
  BY TypeParts DEF FigureTypes, StepTypes, OnlyTheToken, EndsOnce, Opening, Opened, Ended
<1>5. ReservedAlike'
  BY TypeParts DEF FigureTypes, StepTypes, OnlyTheToken, ReservedAlike, EndsOnce, Opening, Opened,
      TopUp, Ended
<1>6. EndsOnce' BY TypeParts DEF FlagTypes, FigureTypes, StepTypes, EndsOnce, Opening, Opened, Ended
<1>7. NothingLeft'
  BY TypeParts DEF FlagTypes, FigureTypes, StepTypes, OnlyTheToken, ReservedAlike, EndsOnce,
      NothingLeft, Opening, Opened, TopUp, Ended, Prices
<1> QED BY <1>1, <1>2, <1>3, <1>4, <1>5, <1>6, <1>7, TypePartsNext

\* SessionInv is preserved: the goroutine takes over only from a session that is not settled.
LEMMA RefundKeeps == ASSUME SessionInv, Refund PROVE SessionInv'
<1> USE BillingAssumption DEF SessionInv, Refund, NeedsRefund, request, progress, moving,
    session, flags, refund, paid
<1>1. FlagTypes' BY TypeParts DEF FlagTypes
<1>2. StepTypes' BY TypeParts DEF StepTypes, Opening, Opened, Ended
<1>3. FigureTypes'
  BY TypeParts DEF FigureTypes, StepTypes, FlagTypes, OnlyTheToken, ReservedAlike, Opening,
      Opened, TopUp, Prices, MaxAttempts
<1>4. OnlyTheToken'
  BY TypeParts DEF FigureTypes, StepTypes, OnlyTheToken, EndsOnce, Opening, Opened, Ended
<1>5. ReservedAlike'
  BY TypeParts DEF FigureTypes, StepTypes, OnlyTheToken, ReservedAlike, EndsOnce, Opening, Opened,
      TopUp, Ended
<1>6. EndsOnce' BY TypeParts DEF FlagTypes, FigureTypes, StepTypes, EndsOnce, Opening, Opened, Ended
<1>7. NothingLeft'
  BY TypeParts DEF FlagTypes, FigureTypes, StepTypes, OnlyTheToken, ReservedAlike, EndsOnce,
      NothingLeft, Opening, Opened, TopUp, Ended, Prices
<1> QED BY <1>1, <1>2, <1>3, <1>4, <1>5, <1>6, <1>7, TypePartsNext

\* SessionInv is preserved: the wallet is refunded once.
LEMMA RefundWalletKeeps == ASSUME SessionInv, RefundWallet PROVE SessionInv'
<1> USE BillingAssumption DEF SessionInv, RefundWallet, Ok, Fault, request, progress, moving,
    session, flags, refund, paid
<1>1. FlagTypes' BY TypeParts DEF FlagTypes
<1>2. StepTypes' BY TypeParts DEF StepTypes, Opening, Opened, Ended
<1>3. FigureTypes'
  BY TypeParts, SMTT(30) DEF FigureTypes, StepTypes, FlagTypes, OnlyTheToken, ReservedAlike,
      Opening, Opened, TopUp, Prices, MaxAttempts
<1>4. OnlyTheToken'
  BY TypeParts DEF FigureTypes, StepTypes, OnlyTheToken, EndsOnce, Opening, Opened, Ended
<1>5. ReservedAlike'
  BY TypeParts DEF FigureTypes, StepTypes, OnlyTheToken, ReservedAlike, EndsOnce, Opening, Opened,
      TopUp, Ended
<1>6. EndsOnce' BY TypeParts DEF FlagTypes, FigureTypes, StepTypes, EndsOnce, Opening, Opened, Ended
<1>7. NothingLeft'
  BY TypeParts DEF FlagTypes, FigureTypes, StepTypes, OnlyTheToken, ReservedAlike, EndsOnce,
      NothingLeft, Opening, Opened, TopUp, Ended, Prices
<1> QED BY <1>1, <1>2, <1>3, <1>4, <1>5, <1>6, <1>7, TypePartsNext

\* SessionInv is preserved: the record is refunded within its attempts.
LEMMA RefundSubscriptionKeeps == ASSUME SessionInv, RefundSubscription PROVE SessionInv'
<1> USE BillingAssumption DEF SessionInv, RefundSubscription, Ok, Fault, request, progress,
    moving, session, flags, refund, paid
<1>0. /\ tries' \in 0..MaxAttempts /\ (rpc' = "funding" => tries' > 0)
      /\ rpc' \in {"extra", "funding"} /\ (record' = "refunded" => rpc' = "extra")
      /\ faults' \in 0..MaxFaults /\ faults' >= faults
      /\ record' \in {"refunded", record} /\ fundingPaid' \in Int
  <2>1. CASE Ok /\ record' = "refunded" /\ rpc' = "extra" /\ UNCHANGED tries
             /\ fundingPaid' = IF record = "refunded" THEN fundingPaid ELSE fundingPaid - base
    BY <2>1 DEF TypeOK
  <2>2. ASSUME Fault, NEW given \in BOOLEAN, tries' = tries - 1, UNCHANGED record,
               fundingPaid' = IF given THEN fundingPaid - base ELSE fundingPaid,
               rpc' = IF tries = 1 THEN "extra" ELSE "funding"
        PROVE  /\ tries' \in 0..MaxAttempts /\ (rpc' = "funding" => tries' > 0)
               /\ rpc' \in {"extra", "funding"} /\ (record' = "refunded" => rpc' = "extra")
               /\ faults' \in 0..MaxFaults /\ faults' >= faults
               /\ record' \in {"refunded", record} /\ fundingPaid' \in Int
    BY <2>2 DEF TypeOK, MaxAttempts, EndsOnce
  <2> QED BY <2>1, <2>2
<1>1. FlagTypes' BY TypeParts DEF FlagTypes
<1>2. StepTypes' BY <1>0, TypeParts DEF StepTypes, Opening, Opened, Ended
<1>3. FigureTypes'
  BY <1>0, TypeParts DEF FigureTypes, StepTypes, FlagTypes, OnlyTheToken, ReservedAlike, Opening,
      Opened, TopUp, Prices, MaxAttempts
<1>4. OnlyTheToken'
  BY <1>0, TypeParts DEF FigureTypes, StepTypes, OnlyTheToken, EndsOnce, Opening, Opened, Ended
<1>5. ReservedAlike'
  BY <1>0, TypeParts DEF FigureTypes, StepTypes, OnlyTheToken, ReservedAlike, EndsOnce, Opening,
      Opened, TopUp, Ended
<1>6. EndsOnce'
  BY <1>0, TypeParts DEF FlagTypes, FigureTypes, StepTypes, EndsOnce, Opening, Opened, Ended
<1>7. NothingLeft'
  BY <1>0, TypeParts DEF FlagTypes, FigureTypes, StepTypes, OnlyTheToken, ReservedAlike, EndsOnce,
      NothingLeft, Opening, Opened, TopUp, Ended, Prices
<1> QED BY <1>1, <1>2, <1>3, <1>4, <1>5, <1>6, <1>7, TypePartsNext

\* SessionInv is preserved: top-ups are refunded apart for a subscription only.
LEMMA RefundExtraKeeps == ASSUME SessionInv, RefundExtra PROVE SessionInv'
<1> USE BillingAssumption DEF SessionInv, RefundExtra, Ok, Fault, request, progress, moving,
    session, flags, refund, paid
<1>1. FlagTypes' BY TypeParts DEF FlagTypes
<1>2. StepTypes' BY TypeParts DEF StepTypes, Opening, Opened, Ended
<1>3. FigureTypes'
  BY TypeParts, SMTT(30) DEF FigureTypes, StepTypes, FlagTypes, OnlyTheToken, ReservedAlike,
      Opening, Opened, TopUp, Prices, MaxAttempts
<1>4. OnlyTheToken'
  BY TypeParts DEF FigureTypes, StepTypes, OnlyTheToken, EndsOnce, Opening, Opened, Ended
<1>5. ReservedAlike'
  BY TypeParts DEF FigureTypes, StepTypes, OnlyTheToken, ReservedAlike, EndsOnce, Opening, Opened,
      TopUp, Ended
<1>6. EndsOnce' BY TypeParts DEF FlagTypes, FigureTypes, StepTypes, EndsOnce, Opening, Opened, Ended
<1>7. NothingLeft'
  BY TypeParts DEF FlagTypes, FigureTypes, StepTypes, OnlyTheToken, ReservedAlike, EndsOnce,
      NothingLeft, Opening, Opened, TopUp, Ended, Prices
<1> QED BY <1>1, <1>2, <1>3, <1>4, <1>5, <1>6, <1>7, TypePartsNext

\* SessionInv is preserved: the token comes last.
LEMMA RefundTokenKeeps == ASSUME SessionInv, RefundToken PROVE SessionInv'
<1> USE BillingAssumption DEF SessionInv, RefundToken, ChargeToken, Ok, Fault, request,
    progress, moving, session, flags, refund, paid
<1>1. FlagTypes' BY TypeParts DEF FlagTypes
<1>2. StepTypes' BY TypeParts DEF StepTypes, Opening, Opened, Ended
<1>3. FigureTypes'
  BY TypeParts DEF FigureTypes, StepTypes, FlagTypes, OnlyTheToken, ReservedAlike, Opening,
      Opened, TopUp, Prices, MaxAttempts
<1>4. OnlyTheToken'
  BY TypeParts DEF FigureTypes, StepTypes, OnlyTheToken, EndsOnce, Opening, Opened, Ended
<1>5. ReservedAlike'
  BY TypeParts DEF FigureTypes, StepTypes, OnlyTheToken, ReservedAlike, EndsOnce, Opening, Opened,
      TopUp, Ended
<1>6. EndsOnce' BY TypeParts DEF FlagTypes, FigureTypes, StepTypes, EndsOnce, Opening, Opened, Ended
<1>7. NothingLeft'
  BY TypeParts DEF FlagTypes, FigureTypes, StepTypes, OnlyTheToken, ReservedAlike, EndsOnce,
      NothingLeft, Opening, Opened, TopUp, Ended, Prices
<1> QED BY <1>1, <1>2, <1>3, <1>4, <1>5, <1>6, <1>7, TypePartsNext

\* SessionInv is preserved: a process that dies ends both actors.
LEMMA CrashKeeps == ASSUME SessionInv, Crash PROVE SessionInv'
<1> USE BillingAssumption DEF SessionInv, Crash, Fault, Ended, request, progress, moving,
    session, flags, refund, paid
<1>1. FlagTypes' BY TypeParts DEF FlagTypes
<1>2. StepTypes' BY TypeParts DEF StepTypes, Opening, Opened, Ended
<1>3. FigureTypes'
  BY TypeParts DEF FigureTypes, StepTypes, FlagTypes, OnlyTheToken, ReservedAlike, Opening,
      Opened, TopUp, Prices, MaxAttempts
<1>4. OnlyTheToken'
  BY TypeParts DEF FigureTypes, StepTypes, OnlyTheToken, EndsOnce, Opening, Opened, Ended
<1>5. ReservedAlike'
  BY TypeParts DEF FigureTypes, StepTypes, OnlyTheToken, ReservedAlike, EndsOnce, Opening, Opened,
      TopUp, Ended
<1>6. EndsOnce' BY TypeParts DEF FlagTypes, FigureTypes, StepTypes, EndsOnce, Opening, Opened, Ended
<1>7. NothingLeft'
  BY TypeParts DEF FlagTypes, FigureTypes, StepTypes, OnlyTheToken, ReservedAlike, EndsOnce,
      NothingLeft, Opening, Opened, TopUp, Ended, Prices
<1> QED BY <1>1, <1>2, <1>3, <1>4, <1>5, <1>6, <1>7, TypePartsNext

\* The handler, the refund goroutine and a crash of the process preserve
\* SessionInv, whoever else works on the accounts.
LEMMA SessionStep ==
  ASSUME SessionInv, HandlerStep \/ Succeed \/ RefundStep \/ Crash
  PROVE  SessionInv'
BY NewBillingSessionKeeps, TryWalletKeeps, TrySubscriptionKeeps, PreConsumeTokenKeeps,
    PreConsumeFundingKeeps, RollBackTokenKeeps, RepriceKeeps, ReserveFundingKeeps,
    ReserveTokenKeeps, RollBackFundingKeeps, FailKeeps, SucceedKeeps, SettleKeeps, SettleTokenKeeps,
    RefundKeeps, RefundWalletKeeps, RefundSubscriptionKeeps, RefundExtraKeeps, RefundTokenKeeps,
    CrashKeeps DEF HandlerStep, RefundStep

-----------------------------------------------------------------------------
(* What the steps do to the accounts.                                       *)

\* A step does to the funding source what the ledger allows, and loses nothing
\* unless a statement fails.
FundingMoves ==
    /\ TxSaves => FundingLedger!Next \/ UNCHANGED <<fundingPaid, HeldFunding, OpenFunding>>
    /\ faults' = 0 => fundingPaid' - HeldFunding' = fundingPaid - HeldFunding
\* The same of the token.
TokenMoves ==
    /\ TokenLedger!Next \/ UNCHANGED <<tokenPaid, HeldToken, OpenToken>>
    /\ faults' = 0 => tokenPaid' - HeldToken' = tokenPaid - HeldToken

\* While the handler is at work and nothing is settled, both accounts are open and
\* hold what the session has reserved.
LEMMA HeldOpen ==
  ASSUME SessionInv, pc \notin {"settleToken", "done", "dead"}
  PROVE  /\ OpenFunding /\ OpenToken
         /\ HeldFunding = IF source = "subscription" THEN base + extraReserved + TopUp ELSE base
         /\ HeldToken = IF playground THEN 0 ELSE tokenConsumed
<1>1. /\ ~fundingSettled /\ ~settled /\ ~tokenSettled /\ rpc = "off"
      /\ base \in Nat /\ extraReserved \in Nat /\ amt \in Nat
  BY DEF SessionInv, TypeOK, EndsOnce
<1>2. HeldFunding = IF source = "subscription" THEN base + extraReserved + TopUp ELSE base
  BY <1>1 DEF HeldFunding, TopUp
<1> QED BY <1>1, <1>2 DEF OpenFunding, HeldToken, OpenToken

\* The same after a step.
LEMMA HeldOpenNext ==
  ASSUME SessionInv', pc' \notin {"settleToken", "done", "dead"}
  PROVE  /\ OpenFunding' /\ OpenToken'
         /\ HeldFunding' = IF source' = "subscription" THEN base' + extraReserved' + TopUp' ELSE base'
         /\ HeldToken' = IF playground' THEN 0 ELSE tokenConsumed'
<1>1. /\ ~fundingSettled' /\ ~settled' /\ ~tokenSettled' /\ rpc' = "off"
      /\ base' \in Nat /\ extraReserved' \in Nat /\ amt' \in Nat
  BY DEF SessionInv, TypeOK, EndsOnce
<1>2. HeldFunding' = IF source' = "subscription" THEN base' + extraReserved' + TopUp' ELSE base'
  BY <1>1 DEF HeldFunding, TopUp
<1> QED BY <1>1, <1>2 DEF OpenFunding, HeldToken, OpenToken

\* How to show FundingMoves: a reservation.
LEMMA FundingReserve ==
  ASSUME OpenFunding, OpenFunding', HeldFunding' >= HeldFunding,
         fundingPaid' - HeldFunding' = fundingPaid - HeldFunding
  PROVE  FundingMoves
BY DEF FundingMoves, FundingLedger!Next, FundingLedger!Reserve, FundingLedger!lost

\* How to show FundingMoves: giving back.
LEMMA FundingRelease ==
  ASSUME OpenFunding, 0 <= HeldFunding', HeldFunding' <= HeldFunding,
         fundingPaid' - HeldFunding' = fundingPaid - HeldFunding
  PROVE  FundingMoves
BY DEF FundingMoves, FundingLedger!Next, FundingLedger!Release, FundingLedger!lost

\* How to show FundingMoves: failing to give back.
LEMMA FundingLose ==
  ASSUME OpenFunding, 0 <= HeldFunding', HeldFunding' <= HeldFunding, faults' # 0,
         TxSaves => UNCHANGED fundingPaid
  PROVE  FundingMoves
BY DEF FundingMoves, FundingLedger!Next, FundingLedger!Lose, FundingLedger!lost

\* How to show FundingMoves: the settlement.
LEMMA FundingSettles ==
  ASSUME OpenFunding, ~OpenFunding', 0 <= HeldFunding',
         fundingPaid - HeldFunding <= fundingPaid' - HeldFunding',
         fundingPaid' - HeldFunding' <= fundingPaid,
         faults' = 0 => fundingPaid' - HeldFunding' = fundingPaid - HeldFunding
  PROVE  FundingMoves
BY DEF FundingMoves, FundingLedger!Next, FundingLedger!Settle, FundingLedger!lost


\* How to show TokenMoves: a reservation.
LEMMA TokenReserve ==
  ASSUME OpenToken, OpenToken', HeldToken' >= HeldToken,
         tokenPaid' - HeldToken' = tokenPaid - HeldToken
  PROVE  TokenMoves
BY DEF TokenMoves, TokenLedger!Next, TokenLedger!Reserve, TokenLedger!lost

\* How to show TokenMoves: giving back.
LEMMA TokenRelease ==
  ASSUME OpenToken, 0 <= HeldToken', HeldToken' <= HeldToken,
         tokenPaid' - HeldToken' = tokenPaid - HeldToken
  PROVE  TokenMoves
BY DEF TokenMoves, TokenLedger!Next, TokenLedger!Release, TokenLedger!lost

\* How to show TokenMoves: failing to give back.
LEMMA TokenLose ==
  ASSUME OpenToken, 0 <= HeldToken', HeldToken' <= HeldToken, faults' # 0, UNCHANGED tokenPaid
  PROVE  TokenMoves
BY DEF TokenMoves, TokenLedger!Next, TokenLedger!Lose, TokenLedger!lost

\* How to show TokenMoves: the settlement.
LEMMA TokenSettles ==
  ASSUME OpenToken, ~OpenToken', 0 <= HeldToken',
         tokenPaid - HeldToken <= tokenPaid' - HeldToken',
         tokenPaid' - HeldToken' <= tokenPaid,
         faults' = 0 => tokenPaid' - HeldToken' = tokenPaid - HeldToken
  PROVE  TokenMoves
BY DEF TokenMoves, TokenLedger!Next, TokenLedger!Settle, TokenLedger!lost


\* PreConsumeFunding moves the funding source as the ledger allows.
LEMMA PreConsumeFundingMovesFunding ==
  ASSUME SessionInv, SessionInv', PreConsumeFunding
  PROVE  FundingMoves
<1> USE DEF PreConsumeFunding
<1>1. /\ base = 0 /\ extraReserved = 0 /\ TopUp = 0 /\ amt \in Nat
      /\ fundingPaid \in Int /\ extraReserved' = extraReserved
  BY DEF SessionInv, TypeOK, OnlyTheToken, Opening, TopUp
<1>2. OpenFunding /\ HeldFunding = 0
  BY <1>1, HeldOpen
<1>3. pc' \in {"ready", "untoken"} /\ TopUp' = 0
  BY DEF TopUp
<1>4. CASE base' = amt /\ fundingPaid' = fundingPaid + amt
  <2>1. OpenFunding' /\ HeldFunding' = amt
    BY <1>1, <1>3, <1>4, HeldOpenNext
  <2> QED BY <1>1, <1>2, <1>4, <2>1, FundingReserve
<1>5. CASE UNCHANGED <<fundingPaid, base>>
  <2>1. OpenFunding' /\ HeldFunding' = 0
    BY <1>1, <1>3, <1>5, HeldOpenNext
  <2> QED BY <1>1, <1>2, <1>5, <2>1, FundingReserve
<1> QED BY <1>4, <1>5

\* ReserveFunding moves the funding source as the ledger allows.
LEMMA ReserveFundingMovesFunding ==
  ASSUME SessionInv, SessionInv', ReserveFunding
  PROVE  FundingMoves
<1> USE DEF ReserveFunding
<1>1. /\ base \in Nat /\ extraReserved \in Nat /\ amt \in Nat /\ fundingPaid \in Int
      /\ UNCHANGED <<source, extraReserved, amt>> /\ source \in {"wallet", "subscription"}
  BY DEF SessionInv, TypeOK, ReservedAlike, Opened, progress, session, moving
<1>2. OpenFunding /\ HeldFunding = IF source = "subscription" THEN base + extraReserved ELSE base
  BY <1>1, HeldOpen DEF TopUp
<1>3. CASE /\ fundingPaid' = fundingPaid + amt
           /\ base' = IF source = "wallet" THEN base + amt ELSE base
           /\ pc' = "reserveToken"
  <2>1. OpenFunding' /\ HeldFunding' = HeldFunding + amt
    BY <1>1, <1>2, <1>3, HeldOpenNext DEF TopUp
  <2> QED BY <1>1, <1>2, <1>3, <2>1, FundingReserve
<1>4. CASE pc' = ReserveFailed /\ UNCHANGED <<fundingPaid, base>>
  <2>1. OpenFunding' /\ HeldFunding' = HeldFunding
    BY <1>1, <1>2, <1>4, HeldOpenNext DEF TopUp, ReserveFailed
  <2> QED BY <1>1, <1>2, <1>4, <2>1, FundingReserve
<1> QED BY <1>3, <1>4

\* ReserveToken moves the funding source as the ledger allows.
LEMMA ReserveTokenMovesFunding ==
  ASSUME SessionInv, SessionInv', ReserveToken
  PROVE  FundingMoves
<1> USE DEF ReserveToken
<1>1. /\ base \in Nat /\ extraReserved \in Nat /\ amt \in Nat /\ fundingPaid \in Int
      /\ UNCHANGED <<source, amt, base, fundingPaid>> /\ goal \in {"ready", "insert"}
  BY DEF SessionInv, TypeOK, progress, moving
<1>2. OpenFunding /\ HeldFunding = IF source = "subscription" THEN base + extraReserved + amt ELSE base
  BY <1>1, HeldOpen DEF TopUp
<1>3. CASE pc' = goal /\ extraReserved' = extraReserved + amt
  <2>1. OpenFunding' /\ HeldFunding' = HeldFunding
    BY <1>1, <1>2, <1>3, HeldOpenNext DEF TopUp
  <2> QED BY <1>1, <1>2, <2>1, FundingReserve
<1>4. CASE pc' = "unreserve" /\ UNCHANGED session
  <2>1. OpenFunding' /\ HeldFunding' = HeldFunding
    BY <1>1, <1>2, <1>4, HeldOpenNext DEF TopUp, session
  <2> QED BY <1>1, <1>2, <2>1, FundingReserve
<1> QED BY <1>3, <1>4

\* RollBackFunding moves the funding source as the ledger allows.
LEMMA RollBackFundingMovesFunding ==
  ASSUME SessionInv, SessionInv', RollBackFunding
  PROVE  FundingMoves
<1> USE DEF RollBackFunding
<1>1. /\ base \in Nat /\ extraReserved \in Nat /\ amt \in Nat
      /\ fundingPaid \in Int /\ faults \in Nat
      /\ UNCHANGED <<source, extraReserved, amt>> /\ source \in {"wallet", "subscription"}
      /\ base' \in Nat
  BY DEF SessionInv, TypeOK, ReservedAlike, Opened, progress, session, moving
<1>2. OpenFunding /\ HeldFunding = IF source = "subscription" THEN base + extraReserved + amt ELSE base
  BY <1>1, HeldOpen DEF TopUp
<1>3. OpenFunding' /\ HeldFunding' = IF source = "subscription" THEN base' + extraReserved ELSE base'
  BY <1>1, HeldOpenNext DEF TopUp, ReserveFailed
<1>4. CASE fundingPaid' = fundingPaid - amt /\ base' = IF source = "wallet" THEN base - amt ELSE base
  <2>1. HeldFunding' = HeldFunding - amt /\ 0 <= HeldFunding'
    BY <1>1, <1>2, <1>3, <1>4
  <2> QED BY <1>1, <1>2, <1>4, <2>1, FundingRelease
<1>5. CASE Fault /\ UNCHANGED <<fundingPaid, base>>
  <2>1. 0 <= HeldFunding' /\ HeldFunding' <= HeldFunding /\ faults' # 0
    BY <1>1, <1>2, <1>3, <1>5 DEF Fault
  <2> QED BY <1>1, <1>2, <1>5, <2>1, FundingLose
<1> QED BY <1>4, <1>5

\* Settle moves the funding source as the ledger allows.
LEMMA SettleMovesFunding == ASSUME SessionInv, SessionInv', Settle PROVE FundingMoves
<1> USE DEF Settle
<1>1. /\ base \in Nat /\ extraReserved \in Nat /\ pre \in Nat
      /\ fundingPaid \in Int /\ faults \in Nat
      /\ UNCHANGED <<source, extraReserved, base, pre, actual>> /\ actual \in Nat
      /\ source \in {"wallet", "subscription"}
  BY DEF SessionInv, TypeOK, ReservedAlike, Opened, progress, session, Prices
<1>2. OpenFunding /\ HeldFunding = IF source = "subscription" THEN base + extraReserved ELSE base
  BY <1>1, HeldOpen DEF TopUp
<1>3. HeldFunding \in Nat /\ HeldFunding >= pre /\ (faults = 0 => HeldFunding = pre)
  BY <1>1, <1>2 DEF SessionInv, ReservedAlike, Opened, TopUp
<1>4. CASE fundingPaid' = fundingPaid + Delta /\ (settled' \/ fundingSettled') /\ Ok
  <2>1. ~OpenFunding' /\ HeldFunding' = actual
    BY <1>1, <1>4 DEF OpenFunding, HeldFunding
  <2> QED BY <1>1, <1>2, <1>3, <1>4, <2>1, FundingSettles DEF Delta, Ok
<1>5. CASE pc' = "unsettled" /\ UNCHANGED fundingPaid
  <2>1. OpenFunding' /\ HeldFunding' = HeldFunding
    BY <1>1, <1>2, <1>5, HeldOpenNext DEF TopUp
  <2> QED BY <1>1, <1>2, <1>3, <1>5, <2>1, FundingReserve
<1>6. Delta = 0 /\ UNCHANGED fundingPaid => fundingPaid' = fundingPaid + Delta
  BY <1>1
<1> QED BY <1>4, <1>5, <1>6

\* RefundWallet moves the funding source as the ledger allows.
LEMMA RefundWalletMovesFunding ==
  ASSUME SessionInv, SessionInv', RefundWallet
  PROVE  FundingMoves
<1> USE DEF RefundWallet
<1>1. /\ base \in Nat /\ fundingPaid \in Int /\ faults \in Nat
      /\ ~fundingSettled /\ ~settled /\ pc \in {"done", "dead"}
      /\ UNCHANGED <<source, extraReserved, base, fundingSettled, settled, pc>>
  BY DEF SessionInv, TypeOK, EndsOnce, progress, session, flags
<1>2. OpenFunding /\ HeldFunding = base /\ HeldFunding' = 0
  BY <1>1 DEF OpenFunding, HeldFunding
<1>3. CASE fundingPaid' = fundingPaid - base
  BY <1>1, <1>2, <1>3, FundingRelease
<1>4. CASE Fault /\ UNCHANGED fundingPaid
  <2>1. faults' # 0
    BY <1>1, <1>4 DEF Fault
  <2> QED BY <1>1, <1>2, <1>4, <2>1, FundingLose
<1> QED BY <1>3, <1>4

\* RefundSubscription moves the funding source as the ledger allows.
LEMMA RefundSubscriptionMovesFunding ==
  ASSUME SessionInv, SessionInv', RefundSubscription
  PROVE  FundingMoves
<1> USE DEF RefundSubscription
<1>1. /\ base \in Nat /\ extraReserved \in Nat /\ fundingPaid \in Int /\ faults \in Nat
      /\ ~fundingSettled /\ ~settled /\ pc \in {"done", "dead"} /\ record # "refunded"
      /\ UNCHANGED <<source, extraReserved, base, fundingSettled, settled, pc>>
  BY DEF SessionInv, TypeOK, EndsOnce, progress, session, flags
<1>2. OpenFunding /\ HeldFunding = base + extraReserved
  BY <1>1 DEF OpenFunding, HeldFunding
<1>3. CASE fundingPaid' = fundingPaid - base /\ rpc' = "extra"
  <2>1. HeldFunding' = extraReserved
    BY <1>1, <1>3 DEF HeldFunding
  <2> QED BY <1>1, <1>2, <1>3, <2>1, FundingRelease
<1>4. CASE Fault /\ rpc' \in {"extra", "funding"} /\ (TxSaves => UNCHANGED fundingPaid)
  <2>1. faults' # 0
    BY <1>1, <1>4 DEF Fault
  <2>2. HeldFunding' \in {extraReserved, base + extraReserved}
    BY <1>1, <1>4 DEF HeldFunding
  <2> QED BY <1>1, <1>2, <1>4, <2>1, <2>2, FundingLose
<1>5. \/ fundingPaid' = fundingPaid - base /\ rpc' = "extra"
      \/ Fault /\ rpc' \in {"extra", "funding"} /\ (TxSaves => UNCHANGED fundingPaid)
  BY <1>1
<1> QED BY <1>3, <1>4, <1>5

\* RefundExtra moves the funding source as the ledger allows.
LEMMA RefundExtraMovesFunding == ASSUME SessionInv, SessionInv', RefundExtra PROVE FundingMoves
<1> USE DEF RefundExtra
<1>1. /\ extraReserved \in Nat /\ fundingPaid \in Int /\ faults \in Nat
      /\ source = "subscription"
      /\ ~fundingSettled /\ ~settled /\ pc \in {"done", "dead"}
      /\ UNCHANGED <<source, extraReserved, base, fundingSettled, settled, pc>>
  BY DEF SessionInv, TypeOK, EndsOnce, progress, session, flags
<1>2. OpenFunding /\ HeldFunding = extraReserved /\ HeldFunding' = 0
  BY <1>1 DEF OpenFunding, HeldFunding
<1>3. CASE fundingPaid' = fundingPaid - extraReserved
  BY <1>1, <1>2, <1>3, FundingRelease
<1>4. CASE Fault /\ UNCHANGED fundingPaid
  <2>1. faults' # 0
    BY <1>1, <1>4 DEF Fault
  <2> QED BY <1>1, <1>2, <1>4, <2>1, FundingLose
<1> QED BY <1>3, <1>4

\* ReserveToken moves the token as the ledger allows.
LEMMA ReserveTokenMovesToken == ASSUME SessionInv, SessionInv', ReserveToken PROVE TokenMoves
<1> USE DEF ReserveToken
<1>1. /\ tokenConsumed \in Nat /\ amt \in Nat /\ tokenPaid \in Int
      /\ goal \in {"ready", "insert"}
      /\ UNCHANGED playground
  BY DEF SessionInv, TypeOK, request
<1>2. pc' \in {"ready", "insert", "unreserve"}
  BY <1>1
<1>3. /\ OpenToken /\ HeldToken = IF playground THEN 0 ELSE tokenConsumed
      /\ OpenToken' /\ HeldToken' = IF playground THEN 0 ELSE tokenConsumed'
  BY <1>1, <1>2, HeldOpen, HeldOpenNext
<1>4. CASE ChargeToken(amt) /\ tokenConsumed' = tokenConsumed + amt
  <2>1. HeldToken' >= HeldToken /\ tokenPaid' - HeldToken' = tokenPaid - HeldToken
    BY <1>1, <1>3, <1>4 DEF ChargeToken
  <2> QED BY <1>3, <2>1, TokenReserve
<1>5. CASE UNCHANGED <<tokenPaid, session>>
  <2>1. HeldToken' >= HeldToken /\ tokenPaid' - HeldToken' = tokenPaid - HeldToken
    BY <1>1, <1>3, <1>5 DEF session
  <2> QED BY <1>3, <2>1, TokenReserve
<1> QED BY <1>4, <1>5

\* SettleToken moves the token as the ledger allows.
LEMMA SettleTokenMovesToken == ASSUME SessionInv, SessionInv', SettleToken PROVE TokenMoves
<1> USE DEF SettleToken
<1>1. /\ tokenConsumed = pre /\ pre \in Nat /\ actual \in Nat
      /\ tokenPaid \in Int /\ faults \in Nat
      /\ ~settled /\ ~tokenSettled /\ rpc = "off"
      /\ UNCHANGED <<playground, tokenConsumed, actual, rpc>>
  BY DEF SessionInv, TypeOK, ReservedAlike, EndsOnce, Opened, Prices, request, session,
      progress, refund
<1>2. OpenToken /\ ~OpenToken' /\ HeldToken = IF playground THEN 0 ELSE pre
  BY <1>1 DEF OpenToken, HeldToken
<1>3. CASE Ok /\ ChargeToken(Delta) /\ tokenSettled' = TRUE
  <2>1. HeldToken' = IF playground THEN 0 ELSE actual
    <3>1. CASE playground BY <1>1, <3>1 DEF HeldToken
    <3>2. CASE ~playground BY <1>1, <1>3, <3>2 DEF HeldToken
    <3> QED BY <3>1, <3>2
  <2>2. tokenPaid' = IF playground THEN tokenPaid ELSE tokenPaid + actual - pre
    BY <1>1, <1>3 DEF ChargeToken, Delta
  <2> QED BY <1>1, <1>2, <2>1, <2>2, TokenSettles
<1>4. CASE Fault /\ UNCHANGED <<tokenPaid, tokenSettled>>
  <2>1. HeldToken' = HeldToken /\ faults' # 0
    BY <1>1, <1>4 DEF HeldToken, Fault
  <2> QED BY <1>1, <1>2, <1>4, <2>1, TokenSettles
<1> QED BY <1>3, <1>4

\* PreConsumeToken moves the token as the ledger allows.
LEMMA PreConsumeTokenMovesToken ==
  ASSUME SessionInv, SessionInv', PreConsumeToken
  PROVE  TokenMoves
<1> USE DEF PreConsumeToken
<1>1. /\ tokenConsumed = 0 /\ amt \in Nat /\ tokenPaid \in Int
      /\ UNCHANGED <<playground, rpc, settled, tokenSettled>>
      /\ ~settled /\ ~tokenSettled /\ rpc = "off"
  BY DEF SessionInv, TypeOK, OnlyTheToken, EndsOnce, Opening, request, refund, flags
<1>2. /\ OpenToken /\ HeldToken = 0
      /\ OpenToken' /\ HeldToken' = IF playground THEN 0 ELSE tokenConsumed'
  BY <1>1 DEF OpenToken, HeldToken
<1>3. CASE ChargeToken(amt) /\ tokenConsumed' = amt
  <2>1. HeldToken' >= HeldToken /\ tokenPaid' - HeldToken' = tokenPaid - HeldToken
    BY <1>1, <1>2, <1>3 DEF ChargeToken
  <2> QED BY <1>2, <2>1, TokenReserve
<1>4. CASE UNCHANGED <<tokenConsumed, tokenPaid>>
  <2>1. HeldToken' >= HeldToken /\ tokenPaid' - HeldToken' = tokenPaid - HeldToken
    BY <1>1, <1>2, <1>4
  <2> QED BY <1>2, <2>1, TokenReserve
<1> QED BY <1>3, <1>4

\* RollBackToken moves the token as the ledger allows.
LEMMA RollBackTokenMovesToken == ASSUME SessionInv, SessionInv', RollBackToken PROVE TokenMoves
<1> USE DEF RollBackToken
<1>1. /\ tokenConsumed \in Nat /\ tokenPaid \in Int /\ faults \in Nat
      /\ UNCHANGED <<playground, rpc, settled, tokenSettled>>
      /\ ~settled /\ ~tokenSettled /\ rpc = "off"
  BY DEF SessionInv, TypeOK, EndsOnce, Opening, request, refund, flags
<1>2. OpenToken /\ HeldToken' = 0 /\ HeldToken = IF playground THEN 0 ELSE tokenConsumed
  BY <1>1 DEF OpenToken, HeldToken
<1>3. CASE ChargeToken(-tokenConsumed)
  <2>1. tokenPaid' - HeldToken' = tokenPaid - HeldToken /\ HeldToken' <= HeldToken
    BY <1>1, <1>2, <1>3 DEF ChargeToken
  <2> QED BY <1>2, <2>1, TokenRelease
<1>4. CASE Fault /\ UNCHANGED tokenPaid
  <2>1. faults' # 0 /\ HeldToken' <= HeldToken
    BY <1>1, <1>2, <1>4 DEF Fault
  <2> QED BY <1>2, <1>4, <2>1, TokenLose
<1> QED BY <1>3, <1>4

\* RefundToken moves the token as the ledger allows.
LEMMA RefundTokenMovesToken == ASSUME SessionInv, SessionInv', RefundToken PROVE TokenMoves
<1> USE DEF RefundToken
<1>1. /\ tokenConsumed \in Nat /\ tokenPaid \in Int /\ faults \in Nat
      /\ ~settled /\ ~tokenSettled
  BY DEF SessionInv, TypeOK, EndsOnce
<1>2. OpenToken /\ HeldToken' = 0 /\ HeldToken = IF playground THEN 0 ELSE tokenConsumed
  BY <1>1 DEF OpenToken, HeldToken
<1>3. CASE ChargeToken(-tokenConsumed)
  <2>1. tokenPaid' - HeldToken' = tokenPaid - HeldToken /\ HeldToken' <= HeldToken
    BY <1>1, <1>2, <1>3 DEF ChargeToken
  <2> QED BY <1>2, <2>1, TokenRelease
<1>4. CASE Fault /\ UNCHANGED tokenPaid
  <2>1. faults' # 0 /\ HeldToken' <= HeldToken
    BY <1>1, <1>2, <1>4 DEF Fault
  <2> QED BY <1>2, <1>4, <2>1, TokenLose
<1> QED BY <1>3, <1>4

\* No step of the session goes beyond the ledger of its funding source.
LEMMA FundingStep ==
  ASSUME SessionInv, SessionInv', HandlerStep \/ Succeed \/ RefundStep \/ Crash
  PROVE  FundingMoves
<1> USE DEF FundingMoves, request, progress, moving, session, flags, refund, paid, SessionInv,
    TypeOK, OnlyTheToken, ReservedAlike, EndsOnce, TopUp, Opening, Opened, Prices, HeldFunding,
    OpenFunding, FundingLedger!Next, FundingLedger!Reserve, FundingLedger!Release,
    FundingLedger!Lose, FundingLedger!Settle, FundingLedger!Close, FundingLedger!lost
<1>1. CASE NewBillingSession
  BY <1>1, BillingAssumption DEF NewBillingSession
<1>2. CASE TryWallet
  BY <1>2, BillingAssumption DEF TryWallet, NextSource, NoSession, Ok, Fault
<1>3. CASE TrySubscription
  BY <1>3, BillingAssumption DEF TrySubscription
<1>4. CASE PreConsumeToken
  BY <1>4, BillingAssumption DEF PreConsumeToken, ChargeToken, NoSession, Ok, Fault
<1>5. CASE PreConsumeFunding BY <1>5, PreConsumeFundingMovesFunding
<1>6. CASE RollBackToken
  BY <1>6, BillingAssumption DEF RollBackToken, NextSource, NoSession, ChargeToken, Ok, Fault
<1>7. CASE Reprice
  BY <1>7, BillingAssumption DEF Reprice, StartReserve, Reserved
<1>8. CASE ReserveFunding BY <1>8, ReserveFundingMovesFunding
<1>9. CASE ReserveToken BY <1>9, ReserveTokenMovesFunding
<1>10. CASE RollBackFunding BY <1>10, RollBackFundingMovesFunding
<1>11. CASE Fail
  BY <1>11, BillingAssumption DEF Fail
<1>12. CASE Succeed
  BY <1>12, BillingAssumption DEF Succeed
<1>13. CASE Settle BY <1>13, SettleMovesFunding
<1>14. CASE SettleToken
  BY <1>14, BillingAssumption DEF SettleToken, ChargeToken, Delta, Ok, Fault
<1>15. CASE Refund
  BY <1>15, HeldOpen, HeldOpenNext, BillingAssumption DEF Refund, NeedsRefund
<1>16. CASE RefundWallet BY <1>16, RefundWalletMovesFunding
<1>17. CASE RefundSubscription BY <1>17, RefundSubscriptionMovesFunding
<1>18. CASE RefundExtra BY <1>18, RefundExtraMovesFunding
<1>19. CASE RefundToken
  BY <1>19, BillingAssumption DEF RefundToken, ChargeToken, Ok, Fault
<1>20. CASE Crash
  BY <1>20, BillingAssumption DEF Crash, Fault, Ended
<1> QED BY <1>1, <1>2, <1>3, <1>4, <1>5, <1>6, <1>7, <1>8, <1>9, <1>10, <1>11, <1>12, <1>13,
    <1>14, <1>15, <1>16, <1>17, <1>18, <1>19, <1>20 DEF HandlerStep, RefundStep

\* Nor beyond the ledger of the token.
LEMMA TokenStep ==
  ASSUME SessionInv, SessionInv', HandlerStep \/ Succeed \/ RefundStep \/ Crash
  PROVE  TokenMoves
<1> USE DEF TokenMoves, request, progress, moving, session, flags, refund, paid, SessionInv,
    TypeOK, OnlyTheToken, ReservedAlike, EndsOnce, TopUp, Opening, Opened, Prices, HeldToken,
    OpenToken, TokenLedger!Next, TokenLedger!Reserve, TokenLedger!Release, TokenLedger!Lose,
    TokenLedger!Settle, TokenLedger!Close, TokenLedger!lost
<1>1. CASE NewBillingSession
  BY <1>1, BillingAssumption DEF NewBillingSession
<1>2. CASE TryWallet
  BY <1>2, BillingAssumption DEF TryWallet, NextSource, NoSession, Ok, Fault
<1>3. CASE TrySubscription
  BY <1>3, BillingAssumption DEF TrySubscription
<1>4. CASE PreConsumeToken BY <1>4, PreConsumeTokenMovesToken
<1>5. CASE PreConsumeFunding
  BY <1>5, BillingAssumption DEF PreConsumeFunding, Ok, Fault
<1>6. CASE RollBackToken BY <1>6, RollBackTokenMovesToken
<1>7. CASE Reprice
  BY <1>7, BillingAssumption DEF Reprice, StartReserve, Reserved
<1>8. CASE ReserveFunding
  BY <1>8, BillingAssumption DEF ReserveFunding, ReserveFailed, Ok, Fault
<1>9. CASE ReserveToken BY <1>9, ReserveTokenMovesToken
<1>10. CASE RollBackFunding
  BY <1>10, BillingAssumption DEF RollBackFunding, ReserveFailed, Ok, Fault
<1>11. CASE Fail
  BY <1>11, BillingAssumption DEF Fail
<1>12. CASE Succeed
  BY <1>12, BillingAssumption DEF Succeed
<1>13. CASE Settle
  BY <1>13, HeldOpen, HeldOpenNext, BillingAssumption DEF Settle, Delta, Ok, Fault
<1>14. CASE SettleToken BY <1>14, SettleTokenMovesToken
<1>15. CASE Refund
  BY <1>15, HeldOpen, HeldOpenNext, BillingAssumption DEF Refund, NeedsRefund
<1>16. CASE RefundWallet
  BY <1>16, BillingAssumption DEF RefundWallet, Ok, Fault
<1>17. CASE RefundSubscription
  BY <1>17, BillingAssumption DEF RefundSubscription, Ok, Fault
<1>18. CASE RefundExtra
  BY <1>18, BillingAssumption DEF RefundExtra, Ok, Fault
<1>19. CASE RefundToken BY <1>19, RefundTokenMovesToken
<1>20. CASE Crash
  BY <1>20, BillingAssumption DEF Crash, Fault, Ended
<1> QED BY <1>1, <1>2, <1>3, <1>4, <1>5, <1>6, <1>7, <1>8, <1>9, <1>10, <1>11, <1>12, <1>13,
    <1>14, <1>15, <1>16, <1>17, <1>18, <1>19, <1>20 DEF HandlerStep, RefundStep

-----------------------------------------------------------------------------
(* The theorems.                                                            *)

\* A new request has no session.
LEMMA SessionInit == ASSUME Init PROVE SessionInv
<1>1. TypeOK
  <2>1. FlagTypes BY DEF Init, FlagTypes
  <2>2. StepTypes BY DEF Init, StepTypes, Opening
  <2>3. FigureTypes BY BillingAssumption DEF Init, FigureTypes, Prices, MaxAttempts
  <2> QED BY <2>1, <2>2, <2>3, TypeParts
<1> QED BY <1>1 DEF Init, SessionInv, OnlyTheToken, ReservedAlike, EndsOnce, NothingLeft,
    Opening, Opened

\* A step that changes nothing preserves it.
LEMMA SessionStutter == ASSUME SessionInv, UNCHANGED vars PROVE SessionInv'
BY DEF vars, request, progress, moving, session, flags, refund, paid, SessionInv, TypeOK,
    OnlyTheToken,
    ReservedAlike, EndsOnce, NothingLeft, TopUp, Prices

\* At every point of a request what the session remembers agrees with what it has
\* done: the same amount is reserved on token and source, and settling, refunding
\* and dying exclude each other.
THEOREM SessionCorrect == Spec => []SessionInv
<1>1. Init => SessionInv
  BY SessionInit
<1>2. SessionInv /\ [Next]_vars => SessionInv'
  BY SessionStep, SessionStutter DEF Next
<1> QED BY <1>1, <1>2, PTL DEF Spec

\* The figures, flags and steps of billing_session.go have their types, with any
\* number of attempts and faults.
THEOREM BillingTypeCorrect == Spec => []TypeOK
<1>1. SessionInv => TypeOK
  BY DEF SessionInv
<1> QED BY <1>1, SessionCorrect, PTL

\* On the wallet or the subscription every behaviour of the session is one of the
\* ledger, provided that marking a refunded record does not fail after the quota
\* was given back (without it RefundSubscriptionPreConsume gives it back again).
THEOREM FundingRefinement == ASSUME TxSaves PROVE Spec => FundingImplementsLedger
<1>1. Init => FundingLedger!Init
  BY DEF Init, FundingLedger!Init, HeldFunding, OpenFunding
<1>2. SessionInv /\ SessionInv' /\ [Next]_vars => [FundingLedger!Next]_(FundingLedger!vars)
  <2>1. ASSUME SessionInv, SessionInv', Next PROVE [FundingLedger!Next]_(FundingLedger!vars)
    BY <2>1, FundingStep DEF Next, FundingMoves, FundingLedger!vars
  <2>2. ASSUME UNCHANGED vars PROVE UNCHANGED FundingLedger!vars
    BY <2>2 DEF vars, request, progress, moving, session, flags, refund, paid, HeldFunding,
        OpenFunding, FundingLedger!vars
  <2> QED BY <2>1, <2>2
<1> QED BY <1>1, <1>2, SessionCorrect, PTL DEF Spec, FundingImplementsLedger, FundingLedger!Spec

\* On the API token it is so without that proviso.
THEOREM TokenRefinement == Spec => TokenImplementsLedger
<1>1. Init => TokenLedger!Init
  BY DEF Init, TokenLedger!Init, HeldToken, OpenToken
<1>2. SessionInv /\ SessionInv' /\ [Next]_vars => [TokenLedger!Next]_(TokenLedger!vars)
  <2>1. ASSUME SessionInv, SessionInv', Next PROVE [TokenLedger!Next]_(TokenLedger!vars)
    BY <2>1, TokenStep DEF Next, TokenMoves, TokenLedger!vars
  <2>2. ASSUME UNCHANGED vars PROVE UNCHANGED TokenLedger!vars
    BY <2>2 DEF vars, request, progress, moving, session, flags, refund, paid, HeldToken,
        OpenToken, TokenLedger!vars
  <2> QED BY <2>1, <2>2
<1> QED BY <1>1, <1>2, SessionCorrect, PTL DEF Spec, TokenImplementsLedger, TokenLedger!Spec

\* Where no statement fails, an account is charged what the session holds on it.
Exact == faults = 0 => fundingPaid = HeldFunding /\ tokenPaid = HeldToken

\* What is held is never negative.
LEMMA HeldTypes ==
  ASSUME SessionInv
  PROVE  /\ HeldFunding \in Nat /\ HeldToken \in Nat /\ faults \in Nat
         /\ fundingPaid \in Int /\ tokenPaid \in Int
<1>1. /\ base \in Nat /\ extraReserved \in Nat /\ amt \in Nat
      /\ actual \in Nat /\ tokenConsumed \in Nat
      /\ faults \in Nat /\ fundingPaid \in Int /\ tokenPaid \in Int
  BY DEF SessionInv, TypeOK, Prices
<1>2. HeldFunding \in Nat
  BY <1>1 DEF HeldFunding
<1>3. HeldToken \in Nat
  BY <1>1 DEF HeldToken
<1> QED BY <1>1, <1>2, <1>3

\* The same after a step.
LEMMA HeldTypesNext ==
  ASSUME SessionInv'
  PROVE  /\ HeldFunding' \in Nat /\ HeldToken' \in Nat /\ faults' \in Nat
         /\ fundingPaid' \in Int /\ tokenPaid' \in Int
<1>1. /\ base' \in Nat /\ extraReserved' \in Nat /\ amt' \in Nat
      /\ actual' \in Nat /\ tokenConsumed' \in Nat
      /\ faults' \in Nat /\ fundingPaid' \in Int /\ tokenPaid' \in Int
  BY DEF SessionInv, TypeOK, Prices
<1>2. HeldFunding' \in Nat
  <2>1. CASE fundingSettled' \/ settled' BY <1>1, <2>1 DEF HeldFunding
  <2>2. CASE ~(fundingSettled' \/ settled')
    <3> DEFINE a == IF rpc' \in {"off", "funding"} THEN base' ELSE 0
               b == IF source' = "subscription" /\ rpc' \in {"off", "funding", "extra"}
                    THEN extraReserved' ELSE 0
               c == IF source' = "subscription" /\ pc' \in {"reserveToken", "unreserve"}
                    THEN amt' ELSE 0
    <3>1. a \in Nat /\ b \in Nat /\ c \in Nat BY <1>1
    <3>2. HeldFunding' = a + b + c BY <2>2 DEF HeldFunding
    <3> HIDE DEF a, b, c
    <3> QED BY <3>1, <3>2
  <2> QED BY <2>1, <2>2
<1>3. HeldToken' \in Nat
  BY <1>1 DEF HeldToken
<1> QED BY <1>1, <1>2, <1>3

\* A fault that has happened stays counted.
LEMMA FaultsStay ==
  ASSUME SessionInv, HandlerStep \/ Succeed \/ RefundStep \/ Crash
  PROVE  faults' = faults \/ faults' = faults + 1
BY DEF HandlerStep, RefundStep, NewBillingSession, TryWallet, TrySubscription, PreConsumeToken,
    PreConsumeFunding, RollBackToken, Reprice, ReserveFunding, ReserveToken, RollBackFunding, Fail,
    Succeed, Settle, SettleToken, Refund, RefundWallet, RefundSubscription, RefundExtra,
        RefundToken,
    Crash, Ok, Fault

\* A request that is over and was spared faults is charged its price on both
\* accounts, or nothing.
LEMMA QuietIsReconciled == ASSUME SessionInv, Exact PROVE Reconciled
<1> SUFFICES ASSUME Quiet, faults = 0
             PROVE  fundingPaid = Owed /\ tokenPaid = IF playground THEN 0 ELSE Owed
  BY DEF Reconciled
<1>1. fundingPaid = HeldFunding /\ tokenPaid = HeldToken
  BY DEF Exact
<1>2. pc \in {"done", "unsettled"} /\ rpc \in {"off", "over"}
  BY DEF SessionInv, EndsOnce, Quiet, Ended
<1>3. CASE settled
  BY <1>1, <1>2, <1>3 DEF SessionInv, TypeOK, EndsOnce, NothingLeft, Owed, HeldFunding, HeldToken
<1>4. CASE ~settled /\ pc = "unsettled"
  <2>1. HeldFunding = pre /\ HeldToken = IF playground THEN 0 ELSE pre
    BY <1>4, HeldOpen DEF SessionInv, TypeOK, ReservedAlike, Opened, TopUp
  <2> QED BY <1>1, <1>4, <2>1 DEF Owed
<1>5. CASE ~settled /\ pc = "done"
  <2>1. ~fundingSettled /\ ~tokenSettled /\ base \in Nat /\ extraReserved \in Nat
    BY <1>5 DEF SessionInv, TypeOK, EndsOnce, NothingLeft
  <2> QED
    BY <1>1, <1>2, <1>5, <2>1 DEF SessionInv, TypeOK, EndsOnce, NothingLeft, Owed, HeldFunding,
        HeldToken
<1> QED BY <1>2, <1>3, <1>4, <1>5

\* The log of a request agrees with its accounts: without a fault, both have been
\* charged exactly what it costs once handler and refund are over.
THEOREM BillingReconciled == Spec => []Reconciled
<1>1. Init => Exact
  BY DEF Init, Exact, HeldFunding, HeldToken
<1>2. SessionInv /\ SessionInv' /\ Exact /\ [Next]_vars => Exact'
  <2>1. ASSUME SessionInv, SessionInv', Exact, Next PROVE Exact'
    <3>1. faults' = 0 => faults = 0
      BY <2>1, FaultsStay, HeldTypes DEF Next
    <3>2. FundingMoves /\ TokenMoves
      BY <2>1, FundingStep, TokenStep DEF Next
    <3>3. ASSUME faults' = 0 PROVE fundingPaid' = HeldFunding' /\ tokenPaid' = HeldToken'
      <4>1. fundingPaid - HeldFunding = 0 /\ tokenPaid - HeldToken = 0
        BY <2>1, <3>1, <3>3, HeldTypes DEF Exact
      <4>2. fundingPaid' - HeldFunding' = 0 /\ tokenPaid' - HeldToken' = 0
        BY <3>2, <3>3, <4>1 DEF FundingMoves, TokenMoves
      <4> QED BY <2>1, <4>2, HeldTypesNext
    <3> QED BY <3>3 DEF Exact
  <2>2. ASSUME Exact, UNCHANGED vars PROVE Exact'
    BY <2>2 DEF vars, request, progress, moving, session, flags, refund, paid, Exact,
        HeldFunding, HeldToken
  <2> QED BY <2>1, <2>2
<1>3. SessionInv /\ Exact => Reconciled
  BY QuietIsReconciled
<1> QED BY <1>1, <1>2, <1>3, SessionCorrect, PTL DEF Spec

\* What the session holds is covered by what was paid.
Covered == fundingPaid >= HeldFunding /\ tokenPaid >= HeldToken

\* The ledger never lets what is held outgrow what is paid.
LEMMA LedgerCovers ==
  ASSUME SessionInv, SessionInv', FundingMoves, TokenMoves, TxSaves
  PROVE  /\ fundingPaid' - HeldFunding' >= fundingPaid - HeldFunding
         /\ tokenPaid' - HeldToken' >= tokenPaid - HeldToken
<1>1. fundingPaid' - HeldFunding' >= fundingPaid - HeldFunding
  BY HeldTypes, HeldTypesNext DEF FundingMoves, FundingLedger!Next, FundingLedger!Reserve,
      FundingLedger!Release,
     FundingLedger!Lose, FundingLedger!Settle, FundingLedger!Close, FundingLedger!lost
<1>2. tokenPaid' - HeldToken' >= tokenPaid - HeldToken
  BY HeldTypes, HeldTypesNext DEF TokenMoves, TokenLedger!Next, TokenLedger!Reserve,
      TokenLedger!Release,
     TokenLedger!Lose, TokenLedger!Settle, TokenLedger!Close, TokenLedger!lost
<1> QED BY <1>1, <1>2

\* However a refund is retried, and whatever fails, the request is never given
\* back more than it was charged; again provided that the record's mark does not
\* fail alone.
THEOREM BillingRefundedOnce == ASSUME TxSaves PROVE Spec => []RefundedOnce
<1>1. Init => Covered
  BY DEF Init, Covered, HeldFunding, HeldToken
<1>2. SessionInv /\ SessionInv' /\ Covered /\ [Next]_vars => Covered'
  <2>1. ASSUME SessionInv, SessionInv', Covered, Next PROVE Covered'
    <3>1. FundingMoves /\ TokenMoves
      BY <2>1, FundingStep, TokenStep DEF Next
    <3> QED BY <2>1, <3>1, LedgerCovers, HeldTypes, HeldTypesNext DEF Covered
  <2>2. ASSUME Covered, UNCHANGED vars PROVE Covered'
    BY <2>2 DEF vars, request, progress, moving, session, flags, refund, paid, Covered,
        HeldFunding, HeldToken
  <2> QED BY <2>1, <2>2
<1>3. SessionInv /\ Covered => RefundedOnce
  BY HeldTypes DEF Covered, RefundedOnce
<1> QED BY <1>1, <1>2, <1>3, SessionCorrect, PTL DEF Spec

=============================================================================
