---------------------------- MODULE QuotaLedger ----------------------------
(***************************************************************************)
(* What a billing session promises about one account, the funding source   *)
(* or the API token (the interface BillingSettler of                       *)
(* relay/common/billing.go and FundingSource of service/funding_source.go):*)
(* amounts are reserved and given back while the account is open, and one  *)
(* settlement or one refund closes it for good.  `held` is what the session*)
(* answers for; what is paid beyond it went astray when giving it back     *)
(* failed.                                                                 *)
(***************************************************************************)
EXTENDS Integers

VARIABLES
    paid,  \* what the account has been charged for the request
    held,  \* what of it the session accounts for
    open   \* nothing has been settled or refunded yet

vars == <<paid, held, open>>

lost == paid - held

Init == paid = 0 /\ held = 0 /\ open = TRUE

Reserve == open' /\ held' >= held /\ lost' = lost

\* A reservation is given back: a rollback, or the refund that closes the account.
Release == 0 <= held' /\ held' <= held /\ lost' = lost

\* Giving it back fails.
Lose == 0 <= held' /\ held' <= held /\ paid' = paid

\* The settlement.  What failed rollbacks have left behind, it does not return.
Settle == ~open' /\ 0 <= held' /\ lost <= lost' /\ lost' <= paid

\* The session ends without moving anything.
Close == ~open' /\ UNCHANGED <<paid, held>>

Next == open /\ (Reserve \/ Release \/ Lose \/ Settle \/ Close)

Spec == Init /\ [][Next]_vars

=============================================================================
