--------------------------- MODULE BillingSession ---------------------------
(***************************************************************************)
(* The billing of ONE request (service/billing_session.go, billing.go,     *)
(* funding_source.go): its quota is reserved on the API token and on the   *)
(* funding source, topped up before a retry, and settled at the actual     *)
(* price or refunded by a goroutine of its own.                            *)
(*                                                                         *)
(* Every statement on an account is one step, and what the session keeps   *)
(* between two statements is its state.  The accounts are kept as what     *)
(* this request has been charged on them: whether a balance covers an      *)
(* amount depends on other requests and is left open.                      *)
(***************************************************************************)
EXTENDS Integers, Sequences

CONSTANTS
    MaxPrice,   \* bound: prices are 0..MaxPrice
    MaxCalls,   \* bound: attempts that price the request
    MaxFaults,  \* bound: failed statements and process crashes
    TxSaves     \* TRUE: once the nested transaction has given the quota back,
                \* marking the pre-consume record refunded does not fail

ASSUME BillingAssumption ==
    /\ MaxPrice \in Nat /\ MaxCalls \in Nat /\ MaxFaults \in Nat
    /\ TxSaves \in BOOLEAN

VARIABLES
    forced,         \* ForcePreConsume: an asynchronous task
    playground,     \* IsPlayground: the request has no API token to charge
    pc, goal,       \* where the request handler is; where it goes on after a reservation
    calls,          \* what is left of MaxCalls
    price, actual,  \* the estimated and the actual quota
    plan, source,   \* funding sources still to try, and the one being used
    amt, require,   \* amount being moved, and must the wallet cover it
    pre,            \* preConsumedQuota
    tokenConsumed, extraReserved, trusted,
    base,           \* WalletFunding.consumed, SubscriptionFunding.preConsumed
    fundingSettled, settled, refunded,
    tokenSettled,   \* history: the settlement has adjusted the token
    record,         \* status of the subscription's pre-consume record
    rpc, tries,     \* the refund goroutine, and its attempts at the record
    fundingPaid,    \* net charge of the funding source for this request
    tokenPaid,      \* net charge of the token
    faults

request == <<forced, playground>>
progress == <<goal, calls, price, actual, plan, source>>
moving  == <<amt, require>>
session == <<pre, tokenConsumed, extraReserved, trusted>>
flags   == <<fundingSettled, settled, refunded, tokenSettled>>
refund  == <<record, rpc, tries>>
paid    == <<fundingPaid, tokenPaid>>
vars    == <<request, pc, progress, moving, session, base, flags, refund, paid, faults>>

Prices == 0..MaxPrice

\* A statement succeeds, or it fails and changes nothing.
Ok    == UNCHANGED faults
Fault == faults < MaxFaults /\ faults' = faults + 1

\* The orders in which the four billing preferences try the sources; a user
\* without subscription, or whose plans forbid the overflow, has no second one.
Plans == {<<"wallet">>, <<"subscription">>,
          <<"wallet", "subscription">>, <<"subscription", "wallet">>}

MaxAttempts == 3  \* of refundWithRetry

Init ==
    /\ forced \in BOOLEAN /\ playground \in BOOLEAN
    /\ pc = "new" /\ goal = "ready" /\ calls = MaxCalls
    /\ price = 0 /\ actual = 0
    /\ plan = <<>> /\ source = "none"
    /\ amt = 0 /\ require = FALSE
    /\ pre = 0 /\ tokenConsumed = 0 /\ extraReserved = 0 /\ trusted = FALSE
    /\ base = 0
    /\ fundingSettled = FALSE /\ settled = FALSE /\ refunded = FALSE /\ tokenSettled = FALSE
    /\ record = "none" /\ rpc = "off" /\ tries = 0
    /\ fundingPaid = 0 /\ tokenPaid = 0
    /\ faults = 0

-----------------------------------------------------------------------------
(* Opening the session: NewBillingSession and preConsume.                  *)

NewBillingSession ==
    /\ pc = "new" /\ calls > 0
    /\ \E q \in Prices, p \in Plans :
        price' = q /\ source' = Head(p) /\ plan' = Tail(p)
    /\ calls' = calls - 1
    /\ pc' = "admit"
    /\ UNCHANGED <<request, goal, actual, moving, session, base, flags, refund, paid, faults>>

\* No session: a task's next attempt tries again, any other request ends.
NoSession == IF forced THEN "new" ELSE "done"

\* The source cannot pay: the next one of the plan, if there is one.
NextSource ==
    IF plan = <<>> THEN pc' = NoSession /\ UNCHANGED <<plan, source>>
                   ELSE pc' = "admit" /\ source' = Head(plan) /\ plan' = Tail(plan)

\* tryWallet: the balance must cover the price; a trusted user reserves nothing.
TryWallet ==
    /\ pc = "admit" /\ source = "wallet"
    /\ \/ \* the balance is checked here and reserved later
          /\ Ok /\ NextSource /\ UNCHANGED <<amt, trusted>>
       \/ /\ Fault /\ pc' = NoSession /\ UNCHANGED <<plan, source, amt, trusted>>
       \/ /\ Ok
          /\ \E t \in IF forced THEN {FALSE} ELSE BOOLEAN :
                /\ trusted' = t
                /\ amt' = IF t THEN 0 ELSE price
                /\ pc' = IF t \/ price = 0 THEN "funding" ELSE "token"
          /\ UNCHANGED <<plan, source>>
    /\ UNCHANGED <<request, goal, calls, price, actual, require, pre, tokenConsumed,
                   extraReserved, base, flags, refund, paid>>

\* trySubscription: at least 1, and never trusted.
TrySubscription ==
    /\ pc = "admit" /\ source = "subscription"
    /\ amt' = IF price = 0 THEN 1 ELSE price
    /\ trusted' = FALSE
    /\ pc' = "token"
    /\ UNCHANGED <<request, progress, require, pre, tokenConsumed, extraReserved, base,
                   flags, refund, paid, faults>>

\* The amount is charged to the token, unless the playground has none.
ChargeToken(n) == tokenPaid' = IF playground THEN tokenPaid ELSE tokenPaid + n

\* PreConsumeTokenQuota; its failure ends the attempt to open a session.
PreConsumeToken ==
    /\ pc = "token"
    /\ \/ /\ Ok /\ ChargeToken(amt)
          /\ tokenConsumed' = amt
          /\ pc' = "funding"
       \/ /\ Ok \/ Fault
          /\ ~playground
          /\ pc' = NoSession
          /\ UNCHANGED <<tokenConsumed, tokenPaid>>
    /\ UNCHANGED <<request, progress, moving, pre, extraReserved, trusted, base, flags,
                   refund, fundingPaid>>

\* funding.PreConsume; the wallet has nothing to do for the amount 0.
PreConsumeFunding ==
    /\ pc = "funding"
    /\ \/ /\ Ok
          /\ fundingPaid' = fundingPaid + amt
          /\ base' = amt
          /\ record' = IF source = "subscription" THEN "consumed" ELSE record
          /\ pre' = amt
          /\ pc' = "ready"
          /\ plan' = <<>> /\ price' = 0
       \/ /\ amt > 0
          /\ \/ Ok /\ UNCHANGED plan      \* not covered: the next source follows
             \/ Fault /\ plan' = <<>>
          /\ pc' = "untoken"
          /\ UNCHANGED <<price, fundingPaid, base, record, pre>>
    /\ UNCHANGED <<request, goal, calls, actual, source, moving, tokenConsumed,
                   extraReserved, trusted, flags, rpc, tries, tokenPaid>>

\* Mutant of RollBackToken: the next source is tried with the token still charged.
KeepToken ==
    /\ pc = "untoken"
    /\ Ok /\ NextSource
    /\ tokenConsumed' = 0
    /\ UNCHANGED <<request, goal, calls, price, actual, moving, pre, extraReserved, trusted,
                   base, flags, refund, paid>>

\* The funding source has not paid: the token's quota is given back.
RollBackToken ==
    /\ pc = "untoken"
    /\ NextSource
    /\ \/ Ok /\ ChargeToken(-tokenConsumed)
       \/ Fault /\ ~playground /\ UNCHANGED tokenPaid
    /\ tokenConsumed' = 0
    /\ UNCHANGED <<request, goal, calls, price, actual, moving, pre, extraReserved, trusted,
                   base, flags, refund, fundingPaid>>

-----------------------------------------------------------------------------
(* Topping the reservation up: reserve.                                    *)

\* What reserve does nothing for.
Reserved(q, r) == settled \/ refunded \/ (trusted /\ ~r) \/ q <= pre

\* reserve(q, r) is called with work to do, and goes on to g when it succeeds.
StartReserve(q, r, g) ==
    /\ ~Reserved(q, r)
    /\ amt' = q - pre /\ require' = r /\ goal' = g
    /\ pc' = "reserve"

\* The next attempt is priced anew.  A task's price must be covered
\* (ReserveBeforeSubmit), as must an image request's.
Reprice ==
    /\ pc = "ready" /\ calls > 0
    /\ calls' = calls - 1
    /\ \E q \in Prices, r \in IF forced THEN {TRUE} ELSE BOOLEAN : StartReserve(q, r, "ready")
    /\ UNCHANGED <<request, price, actual, plan, source, session, base, flags, refund, paid,
                   faults>>

\* A reservation has failed: a task may be tried on another channel.
ReserveFailed == IF forced /\ goal = "ready" THEN "ready" ELSE "refund"

\* reserveFunding.  Without require the wallet is charged whatever its balance.
ReserveFunding ==
    /\ pc = "reserve"
    /\ \/ /\ Ok
          /\ fundingPaid' = fundingPaid + amt
          /\ base' = IF source = "wallet" THEN base + amt ELSE base
          /\ pc' = "reserveToken"
       \/ /\ (Ok /\ (source = "wallet" => require)) \/ Fault
          /\ pc' = ReserveFailed
          /\ UNCHANGED <<fundingPaid, base>>
    /\ UNCHANGED <<request, progress, moving, session, flags, refund, tokenPaid>>

\* reserveToken, and the bookkeeping of a reservation that is complete.
ReserveToken ==
    /\ pc = "reserveToken"
    /\ \/ /\ Ok /\ ChargeToken(amt)
          /\ pre' = pre + amt
          /\ tokenConsumed' = tokenConsumed + amt
          /\ extraReserved' = extraReserved + amt
          /\ trusted' = (trusted /\ ~require)
          /\ pc' = goal
       \/ /\ Ok \/ Fault
          /\ ~playground
          /\ pc' = "unreserve"
          /\ UNCHANGED <<tokenPaid, session>>
    /\ UNCHANGED <<request, progress, moving, base, flags, refund, fundingPaid>>

\* rollbackFundingReserve.
RollBackFunding ==
    /\ pc = "unreserve"
    /\ \/ /\ Ok
          /\ fundingPaid' = fundingPaid - amt
          /\ base' = IF source = "wallet" THEN base - amt ELSE base
       \/ Fault /\ UNCHANGED <<fundingPaid, base>>
    /\ pc' = ReserveFailed
    /\ UNCHANGED <<request, progress, moving, session, flags, refund, tokenPaid>>

-----------------------------------------------------------------------------
(* The end of the request.                                                 *)

\* Every attempt has failed, the client has gone, or the answer is not billable.
Fail ==
    /\ pc \in {"ready", "new"}
    /\ pc' = IF pc = "ready" THEN "refund" ELSE "done"
    /\ UNCHANGED <<request, progress, moving, session, base, flags, refund, paid, faults>>

\* The upstream has answered; the request costs q.
Succeed ==
    /\ pc = "ready"
    /\ actual' \in Prices
    /\ pc' = "settle"
    /\ UNCHANGED <<request, goal, calls, price, plan, source, moving, session, base, flags,
                   refund, paid, faults>>

Delta == actual - pre

\* Settle, the funding source.  A subscription refuses what exceeds its total.
Settle ==
    /\ pc = "settle"
    /\ \/ /\ Delta = 0 /\ Ok
          /\ settled' = TRUE /\ pc' = "done"
          /\ UNCHANGED <<fundingSettled, fundingPaid>>
       \/ /\ Delta # 0 /\ Ok
          /\ fundingPaid' = fundingPaid + Delta
          /\ fundingSettled' = TRUE /\ pc' = "settleToken"
          /\ UNCHANGED settled
       \/ /\ Delta # 0
          /\ (Ok /\ source = "subscription" /\ Delta > 0) \/ Fault
          /\ pc' = "unsettled"
          /\ UNCHANGED <<fundingSettled, settled, fundingPaid>>
    /\ UNCHANGED <<request, progress, moving, session, base, refunded, tokenSettled, refund,
                   tokenPaid>>

\* Settle, the token: an error is logged, the session is settled all the same.
SettleToken ==
    /\ pc = "settleToken"
    /\ \/ Ok /\ ChargeToken(Delta) /\ tokenSettled' = TRUE
       \/ Fault /\ ~playground /\ UNCHANGED <<tokenPaid, tokenSettled>>
    /\ settled' = TRUE /\ pc' = "done"
    /\ UNCHANGED <<request, progress, moving, session, base, fundingSettled, refunded, refund,
                   fundingPaid>>

\* needsRefundLocked.
NeedsRefund ==
    /\ ~settled /\ ~refunded /\ ~fundingSettled
    /\ tokenConsumed > 0 \/ (source = "subscription" /\ base > 0)

\* Refund: the goroutine takes over.
Refund ==
    /\ pc = "refund"
    /\ IF NeedsRefund THEN refunded' = TRUE /\ rpc' = "funding" /\ tries' = MaxAttempts
                      ELSE UNCHANGED <<refunded, rpc, tries>>
    /\ pc' = "done"
    /\ UNCHANGED <<request, progress, moving, session, base, fundingSettled, settled,
                   tokenSettled, record, paid, faults>>

\* Mutant of RefundWallet: the top-ups are refunded apart whatever the source.
RefundWalletAndExtra ==
    /\ rpc = "funding" /\ source = "wallet"
    /\ Ok /\ fundingPaid' = fundingPaid - base
    /\ rpc' = "extra"
    /\ UNCHANGED <<request, pc, progress, moving, session, base, flags, record, tries,
                   tokenPaid>>

\* WalletFunding.Refund; it is not idempotent, so it is never retried.
RefundWallet ==
    /\ rpc = "funding" /\ source = "wallet"
    /\ \/ Ok /\ fundingPaid' = fundingPaid - base
       \/ Fault /\ UNCHANGED fundingPaid
    /\ rpc' = "token"
    /\ UNCHANGED <<request, pc, progress, moving, session, base, flags, record, tries,
                   tokenPaid>>

\* Mutant of RefundSubscription: one attempt too many.
RefundOnceMore ==
    /\ rpc = "funding" /\ source = "subscription"
    /\ \/ /\ Ok
          /\ fundingPaid' = IF record = "refunded" THEN fundingPaid ELSE fundingPaid - base
          /\ record' = "refunded" /\ rpc' = "extra"
          /\ UNCHANGED tries
       \/ /\ Fault
          /\ tries' = tries - 1
          /\ rpc' = IF tries = 0 THEN "extra" ELSE "funding"
          /\ UNCHANGED <<record, fundingPaid>>
    /\ UNCHANGED <<request, pc, progress, moving, session, base, flags, tokenPaid>>

\* One attempt at RefundSubscriptionPreConsume.  The quota is given back in a
\* transaction nested in the one that marks the record, which may still fail.
RefundSubscription ==
    /\ rpc = "funding" /\ source = "subscription"
    /\ \/ /\ Ok
          /\ fundingPaid' = IF record = "refunded" THEN fundingPaid ELSE fundingPaid - base
          /\ record' = "refunded" /\ rpc' = "extra"
          /\ UNCHANGED tries
       \/ /\ Fault
          /\ \E given \in IF TxSaves THEN {FALSE} ELSE BOOLEAN :
                fundingPaid' = IF given THEN fundingPaid - base ELSE fundingPaid
          /\ tries' = tries - 1
          /\ rpc' = IF tries = 1 THEN "extra" ELSE "funding"
          /\ UNCHANGED record
    /\ UNCHANGED <<request, pc, progress, moving, session, base, flags, tokenPaid>>

\* Mutant of RefundExtra: the goroutine does not get on without a top-up.
RefundExtraOnly ==
    /\ rpc = "extra" /\ extraReserved > 0
    /\ Ok /\ fundingPaid' = fundingPaid - extraReserved
    /\ rpc' = "token"
    /\ UNCHANGED <<request, pc, progress, moving, session, base, flags, record, tries,
                   tokenPaid>>

\* The subscription's top-ups are not in the record.
RefundExtra ==
    /\ rpc = "extra"
    /\ \/ Ok /\ fundingPaid' = fundingPaid - extraReserved
       \/ Fault /\ extraReserved > 0 /\ UNCHANGED fundingPaid
    /\ rpc' = "token"
    /\ UNCHANGED <<request, pc, progress, moving, session, base, flags, record, tries,
                   tokenPaid>>

\* Mutant of RefundToken: it is tried again after an error, though it is not
\* idempotent and the failed statement may have been carried out.
RefundTokenAgain ==
    /\ rpc = "token"
    /\ \/ Ok /\ ChargeToken(-tokenConsumed) /\ rpc' = "over"
       \/ /\ Fault /\ tokenConsumed > 0 /\ ~playground
          /\ \E done \in BOOLEAN : ChargeToken(IF done THEN -tokenConsumed ELSE 0)
          /\ UNCHANGED rpc
    /\ UNCHANGED <<request, pc, progress, moving, session, base, flags, record, tries,
                   fundingPaid>>

RefundToken ==
    /\ rpc = "token"
    /\ \/ Ok /\ ChargeToken(-tokenConsumed)
       \/ Fault /\ tokenConsumed > 0 /\ ~playground /\ UNCHANGED tokenPaid
    /\ rpc' = "over"
    /\ UNCHANGED <<request, pc, progress, moving, session, base, flags, record, tries,
                   fundingPaid>>

Ended == {"done", "unsettled", "dead"}  \* a failed settlement is only logged

\* The process dies; nothing of a session is persisted.
Crash ==
    /\ pc \notin Ended \/ rpc \in {"funding", "extra", "token"}
    /\ Fault
    /\ pc' = "dead"
    /\ rpc' = IF rpc = "off" THEN "off" ELSE "dead"
    /\ UNCHANGED <<request, progress, moving, session, base, flags, record, tries, paid>>

HandlerStep ==
    \/ NewBillingSession \/ TryWallet \/ TrySubscription
    \/ PreConsumeToken \/ PreConsumeFunding \/ RollBackToken
    \/ Reprice \/ ReserveFunding \/ ReserveToken \/ RollBackFunding
    \/ Fail \/ Settle \/ SettleToken \/ Refund

RefundStep == RefundWallet \/ RefundSubscription \/ RefundExtra \/ RefundToken

Next == HandlerStep \/ Succeed \/ RefundStep \/ Crash

Spec == Init /\ [][Next]_vars

\* Unless the process dies, a handler and a goroutine run to their end: every
\* statement returns.
Fairness == WF_vars(HandlerStep \/ Succeed) /\ WF_vars(RefundStep)

FairSpec == Spec /\ Fairness

-----------------------------------------------------------------------------
(* Properties.                                                             *)

\* The session's figures are quotas within the prices, its flags Booleans, and
\* handler and goroutine are at one of their steps, an attempt of the refund
\* within its three.
TypeOK ==
    /\ forced \in BOOLEAN /\ playground \in BOOLEAN
    /\ pc \in {"new", "admit", "token", "funding", "untoken", "ready", "reserve", "reserveToken",
              "unreserve", "insert", "settle", "settleToken", "refund"} \cup Ended
    /\ goal \in {"ready", "insert"}
    /\ calls \in 0..MaxCalls /\ faults \in 0..MaxFaults
    /\ price \in Prices /\ actual \in Prices
    /\ source \in {"none", "wallet", "subscription"}
    /\ plan \in {<<>>, <<"wallet">>, <<"subscription">>}
    /\ amt \in Nat /\ pre \in Nat /\ tokenConsumed \in Nat /\ extraReserved \in Nat /\ base \in Nat
    /\ require \in BOOLEAN /\ trusted \in BOOLEAN
    /\ fundingSettled \in BOOLEAN /\ settled \in BOOLEAN
    /\ refunded \in BOOLEAN /\ tokenSettled \in BOOLEAN
    /\ record \in {"none", "consumed", "refunded"}
    /\ rpc \in {"off", "funding", "extra", "token", "over", "dead"}
    /\ tries \in 0..MaxAttempts /\ (rpc = "funding" => tries > 0)
    /\ fundingPaid \in Int /\ tokenPaid \in Int

\* What the session answers for on each account, and whether it still may move it.
HeldFunding ==
    IF fundingSettled \/ settled THEN actual
    ELSE (IF rpc \in {"off", "funding"} THEN base ELSE 0)
       + (IF source = "subscription" /\ rpc \in {"off", "funding", "extra"} THEN extraReserved ELSE 0)
       + (IF source = "subscription" /\ pc \in {"reserveToken", "unreserve"} THEN amt ELSE 0)

OpenFunding ==
    /\ ~fundingSettled /\ ~settled
    /\ rpc \in {"off", "funding"} \/ (rpc = "extra" /\ source = "subscription")

HeldToken ==
    IF playground \/ rpc \in {"over", "dead"} THEN 0
    ELSE IF tokenSettled THEN actual ELSE tokenConsumed

OpenToken == ~settled /\ rpc \notin {"over", "dead"}

FundingLedger == INSTANCE QuotaLedger WITH paid <- fundingPaid, held <- HeldFunding, open <- OpenFunding

TokenLedger == INSTANCE QuotaLedger WITH paid <- tokenPaid, held <- HeldToken, open <- OpenToken

\* On the wallet or the subscription the session does what the ledger allows,
\* whichever statements fail and wherever the process dies: reservations and
\* rollbacks of exactly what was reserved, then one settlement or one refund,
\* then nothing.
FundingImplementsLedger == FundingLedger!Spec

\* And so it does on the API token, which is charged and refunded by statements
\* of its own.
TokenImplementsLedger == TokenLedger!Spec

\* The request is over, its refund too.
Quiet == pc \in Ended /\ rpc \in {"off", "over", "dead"}

\* What the request costs: the actual price once it is settled, the reservation
\* when the subscription has refused the settlement, nothing otherwise.
Owed == IF settled THEN actual ELSE IF pc = "unsettled" THEN pre ELSE 0

\* Where no statement fails, both accounts have been charged exactly what the
\* request costs, whatever was reserved, topped up, rolled back, settled or
\* refunded on the way, from whichever source ("保证日志记录的预扣额度与用户余额的
\* 实际变动始终对账一致").
Reconciled ==
    Quiet /\ faults = 0 =>
        fundingPaid = Owed /\ tokenPaid = IF playground THEN 0 ELSE Owed

\* Refunding a request is idempotent: however often the refund is attempted, it
\* never returns more than the request was charged.
RefundedOnce == fundingPaid >= 0 /\ tokenPaid >= 0

\* A request that fails ends up costing nothing on either account: the refund is
\* carried through though the handler has returned.
FailureIsFree ==
    pc = "refund" ~> (Quiet /\ fundingPaid = 0 /\ tokenPaid = 0) \/ faults > 0

=============================================================================
