------------------------- MODULE TaskBillingProofs -------------------------
(***************************************************************************)
(* What is proved of TaskBilling for any number of polling passes, prices, *)
(* attempts and faults.  The submitting request is the session of          *)
(* BillingSessionProofs; the passes work on the same accounts beside it.   *)
(* What ending the task has written must be Kept: on the channels without  *)
(* a live fetch it always is.                                              *)
(***************************************************************************)
EXTENDS TaskBilling, BillingSessionProofs

\* No live fetch undoes the end of a task.
Kept == LiveFetch => KeepsEnd

\* What may happen to a pass.
PassMoves(p) == PassBegins(p) \/ PassStep(p) \/ PassEnds(p)

\* A submission is forced, and what it is priced at is reserved before the row
\* is inserted.
PricedAhead ==
    /\ forced /\ ~trusted
    /\ pc \in {"reserve", "reserveToken"} /\ goal = "insert" => actual = pre + amt
    /\ pc = "insert" => actual <= pre

\* Once the row is there, the submission only settles, and both accounts hold at
\* least what the row says.
RowIsHeld ==
    task.status # "none" =>
        /\ pc \in {"settle", "settleToken", "unsettled", "done", "dead"} /\ rpc = "off"
        /\ pc = "done" => settled
        /\ pc = "unsettled" => faults > 0
        /\ actual <= HeldFunding
        /\ ~playground => actual <= HeldToken

\* A pass works on a row that is there.
PassHasRow ==
    \A p \in Pollers : /\ ppc[p] # "idle" => task.status # "none"
                       /\ ppc[p] = "fetched" => LiveFetch

\* Who has read an unfinished row has read the price of the submission, and the
\* row keeps it until the pass that has ended the task is through.
ReadPrice ==
    /\ task.status \in Unfinished => task.quota = actual
    /\ \A p \in Pollers :
        /\ Updating(p) \/ Settling(p) => snap[p].quota = actual
        /\ Updating(p) => snap[p].status \in Unfinished
        /\ ppc[p] = "fetched" /\ snap[p].status \in Unfinished => snap[p].quota = actual
        /\ Settling(p) => task.status \in Terminal /\ task.quota = actual

\* The row and what the passes remember of it.
RowTypes ==
    /\ task \in [status : {"none"} \cup Unfinished \cup Terminal, quota : Prices]
    /\ full \in BOOLEAN
    /\ outcome \in {"none", "queued"} \cup Terminal
    /\ ppc \in [Pollers -> {"idle", "fetched", "updating", "polled", "funding", "token", "quota"}]
    /\ snap \in [Pollers -> [status : {"none"} \cup Unfinished \cup Terminal, quota : Prices]]
    /\ adj \in [Pollers -> Prices]

RowInv == RowTypes /\ PassHasRow /\ (Kept => ReadPrice /\ SettlesAlone)

\* Submission, row and passes; the accounts do not guide any of them.
TaskInv == SessionInv /\ PricedAhead /\ RowIsHeld /\ RowInv

-----------------------------------------------------------------------------
(* The passes.                                                             *)

\* What a written row says.
LEMMA WriteSays ==
  ASSUME NEW s, NEW q, Write(s, q)
  PROVE  task' = [status |-> s, quota |-> q] /\ task'.status = s /\ task'.quota = q /\ full' \in BOOLEAN
<1>1. full' \in BOOLEAN
  <2>1. CASE s \in Terminal BY <2>1 DEF Write
  <2>2. CASE s \notin Terminal BY <2>2 DEF Write
  <2> QED BY <2>1, <2>2
<1> QED BY <1>1 DEF Write, Row

\* What a step of a pass leaves to the submission.
PassFrame ==
    /\ UNCHANGED <<request, pc, progress, moving, session, base, flags, refund, outcome>>
    /\ Ok \/ Fault

\* A pass reads and writes the row and the accounts, nothing else.
LEMMA PassFrames ==
  ASSUME NEW p \in Pollers, PassMoves(p)
  PROVE  PassFrame
BY DEF PassMoves, PassBegins, PassStep, PollRead, ImageRound, FetchRead, FetchWrite, PollProgress,
    PollTerminal, Sweep, BulkFail, AdjustFunding, AdjustToken, UpdateQuota, PassEnds, PassFrame, Ok, vars, job

\* It moves the accounts by whole quotas.
LEMMA PassPays ==
  ASSUME TaskInv, NEW p \in Pollers, PassMoves(p)
  PROVE  fundingPaid' \in Int /\ tokenPaid' \in Int
<1>1. /\ fundingPaid \in Int /\ tokenPaid \in Int
      /\ adj[p] \in Int /\ snap[p].quota \in Int
  BY DEF TaskInv, SessionInv, TypeOK, RowInv, RowTypes, Prices
<1> QED BY <1>1 DEF PassMoves, PassBegins, PassStep, PollRead, ImageRound, FetchRead, FetchWrite,
    PollProgress, PollTerminal, Sweep, BulkFail, AdjustFunding, AdjustToken, UpdateQuota, PassEnds,
    TaskDelta, ChargeToken, vars, paid

\* So the session's invariant and what it holds do not depend on the passes.
LEMMA FrameKeeps ==
  ASSUME SessionInv, PassFrame, fundingPaid' \in Int, tokenPaid' \in Int
  PROVE  SessionInv' /\ UNCHANGED <<HeldFunding, HeldToken>>
<1> USE DEF PassFrame, Ok, Fault, request, progress, moving, session, flags, refund
<1>1. faults' \in 0..MaxFaults /\ faults' >= faults
  BY BillingAssumption DEF SessionInv, TypeOK
<1>2. TypeOK'
  BY <1>1 DEF SessionInv, TypeOK, Prices
<1>3. OnlyTheToken'
  BY DEF SessionInv, OnlyTheToken
<1>4. ReservedAlike'
  BY <1>1 DEF SessionInv, TypeOK, ReservedAlike, TopUp
<1>5. EndsOnce'
  BY <1>1 DEF SessionInv, TypeOK, EndsOnce
<1>6. NothingLeft'
  BY <1>1 DEF SessionInv, TypeOK, NothingLeft
<1>7. UNCHANGED <<HeldFunding, HeldToken>>
  BY DEF HeldFunding, HeldToken
<1> QED BY <1>2, <1>3, <1>4, <1>5, <1>6, <1>7 DEF SessionInv

\* A pass begins with the price of the submission, or it looks at a row that has
\* ended.
LEMMA PassBeginsKeeps == ASSUME TaskInv, NEW p \in Pollers, PassBegins(p) PROVE RowInv'
<1> USE DEF TaskInv, RowInv, Goto, job, row, vars, progress
<1>1. /\ ppc[p] = "idle" /\ task.status # "none" /\ UNCHANGED <<task, full, outcome, adj, actual>>
      /\ actual \in Prices
  BY DEF PassBegins, PollRead, ImageRound, FetchRead, Unfinished, SessionInv, TypeOK
<1>2. PICK r \in [status : Unfinished \cup Terminal, quota : Prices], at \in {"polled", "updating", "fetched"} :
        /\ snap' = [snap EXCEPT ![p] = r] /\ ppc' = [ppc EXCEPT ![p] = at]
        /\ r = task \/ (r.status \in Unfinished /\ r.quota = actual)
        /\ at = "fetched" => LiveFetch
        /\ at # "fetched" => r.status \in Unfinished
  <2>1. task \in [status : Unfinished \cup Terminal, quota : Prices]
    BY <1>1 DEF RowTypes
  <2>2. CASE PollRead(p)
    BY <2>1, <2>2 DEF PollRead
  <2>3. CASE ImageRound(p)
    <3>1. PICK st \in Unfinished : snap' = [snap EXCEPT ![p] = Row(st, actual)]
      BY <2>3 DEF ImageRound
    <3>2. /\ Row(st, actual) \in [status : Unfinished \cup Terminal, quota : Prices]
          /\ Row(st, actual).status \in Unfinished /\ Row(st, actual).quota = actual
      BY <1>1 DEF Row
    <3> QED BY <2>3, <3>1, <3>2 DEF ImageRound
  <2>4. CASE FetchRead(p)
    BY <2>1, <2>4 DEF FetchRead
  <2> QED BY <2>2, <2>3, <2>4 DEF PassBegins
<1>3. RowTypes'
  BY <1>1, <1>2 DEF RowTypes
<1>4. PassHasRow'
  BY <1>1, <1>2 DEF RowTypes, PassHasRow
<1>5. ASSUME Kept PROVE ReadPrice'
  BY <1>1, <1>2, <1>5 DEF RowTypes, ReadPrice, Settling, Updating
<1>6. ASSUME Kept PROVE SettlesAlone'
  BY <1>1, <1>2, <1>6 DEF RowTypes, SettlesAlone, Settling
<1> QED BY <1>3, <1>4, <1>5, <1>6 DEF Kept

\* A pass that is through with the task leaves the others as they are.
LEMMA LeaveKeeps ==
  ASSUME TaskInv, NEW p \in Pollers, Leave(p), PassFrame, full' \in BOOLEAN,
         task' \in [status : Unfinished \cup Terminal, quota : Prices],
         Kept /\ task'.status \in Unfinished => task'.quota = actual,
         Kept => \A r \in Pollers \ {p} : Settling(r) => task'.status \in Terminal /\ task'.quota = actual
  PROVE  RowInv'
<1> USE DEF TaskInv, RowInv, Leave, Goto, Row, NoRow, PassFrame, progress
<1>1. RowTypes'
  BY BillingAssumption DEF RowTypes, Unfinished, Terminal, Prices
<1>2. PassHasRow'
  BY DEF RowTypes, PassHasRow, Unfinished, Terminal
<1>3. ASSUME Kept PROVE ReadPrice'
  BY <1>3 DEF RowTypes, ReadPrice, Settling, Updating, Unfinished, Terminal
<1>4. ASSUME Kept PROVE SettlesAlone'
  BY <1>4 DEF RowTypes, SettlesAlone, Settling
<1> QED BY <1>1, <1>2, <1>3, <1>4 DEF Kept

\* Nobody is settling while the row is in the unfinished status the pass has read.
LEMMA WinnerIsAlone ==
  ASSUME TaskInv, Kept, NEW p \in Pollers, Updating(p), Won(p)
  PROVE  /\ task.status \in Unfinished /\ snap[p].quota = actual /\ task.quota = actual
         /\ \A r \in Pollers : ~Settling(r)
BY DEF TaskInv, RowInv, ReadPrice, Won, Unfinished, Terminal

\* What a pass at work knows: a row that was inserted and, but for a live fetch,
\* its price.
LEMMA PassHasRead ==
  ASSUME TaskInv, NEW p \in Pollers, ppc[p] # "idle"
  PROVE  /\ task.status # "none" /\ snap[p].quota \in Prices /\ actual \in Prices
         /\ task \in [status : Unfinished \cup Terminal, quota : Prices] /\ full \in BOOLEAN
         /\ Kept => /\ ppc[p] # "fetched" => snap[p].quota = actual
                    /\ task.status \in Unfinished => task.quota = actual
                    /\ \A r \in Pollers : Settling(r) => task.status \in Terminal /\ task.quota = actual
<1>1. task.status # "none" /\ snap[p].quota \in Prices /\ actual \in Prices
  BY DEF TaskInv, RowInv, RowTypes, PassHasRow, SessionInv, TypeOK
<1>2. task \in [status : Unfinished \cup Terminal, quota : Prices] /\ full \in BOOLEAN
  BY <1>1 DEF TaskInv, RowInv, RowTypes
<1>3. ppc[p] = "fetched" \/ Updating(p) \/ Settling(p)
  BY DEF TaskInv, RowInv, RowTypes, Updating, Settling
<1> QED BY <1>1, <1>2, <1>3 DEF TaskInv, RowInv, ReadPrice

\* What a live fetch writes over an ended task is what the row said, at the same
\* price; over an unfinished one it is progress.
LEMMA FetchIsHarmless ==
  ASSUME TaskInv, Kept, NEW p \in Pollers, ppc[p] = "fetched", Won(p), NEW s \in Unfinished \cup Terminal,
         snap[p].status \in Unfinished => s \in Unfinished, KeepsEnd => ~Undoes(p, s)
  PROVE  /\ snap[p].quota = task.quota
         /\ s \in Unfinished <=> task.status \in Unfinished
<1>1. ~Undoes(p, s) /\ task.status # "none" /\ snap[p].status = task.status
  BY DEF TaskInv, RowInv, PassHasRow, Kept, Won
<1>2. task.status \in Unfinished \/ task.status \in Terminal
  BY <1>1 DEF TaskInv, RowInv, RowTypes
<1> QED BY <1>1, <1>2 DEF TaskInv, RowInv, ReadPrice, Undoes, Unfinished, Terminal

\* tryRealtimeFetch takes the row for its own.
LEMMA FetchWriteKeeps == ASSUME TaskInv, NEW p \in Pollers, FetchWrite(p) PROVE RowInv'
<1>1. PassFrame /\ Leave(p) /\ ppc[p] = "fetched"
  BY PassFrames DEF PassMoves, PassStep, FetchWrite
<1>2. CASE UNCHANGED row
  BY <1>1, <1>2, PassHasRead, LeaveKeeps DEF row
<1>3. ASSUME NEW s \in Unfinished \cup Terminal, Won(p), snap[p].status \in Unfinished => s \in Unfinished,
             KeepsEnd => ~Undoes(p, s), Write(s, snap[p].quota)
      PROVE  RowInv'
  <2>1. /\ task' \in [status : Unfinished \cup Terminal, quota : Prices] /\ full' \in BOOLEAN
        /\ task'.status = s /\ task'.quota = snap[p].quota
    BY <1>1, <1>3, PassHasRead DEF Write, Row
  <2>2. ASSUME Kept
        PROVE  /\ task'.status \in Unfinished => task'.quota = actual
               /\ \A r \in Pollers : Settling(r) => task'.status \in Terminal /\ task'.quota = actual
    BY <1>1, <1>3, <2>1, <2>2, PassHasRead, FetchIsHarmless DEF Unfinished, Terminal
  <2> QED BY <1>1, <2>1, <2>2, LeaveKeeps DEF Kept
<1> QED BY <1>2, <1>3 DEF FetchWrite

\* Progress is written only over the status that was read.
LEMMA PollProgressKeeps == ASSUME TaskInv, NEW p \in Pollers, PollProgress(p) PROVE RowInv'
<1>1. PassFrame /\ Leave(p) /\ Updating(p) /\ ppc[p] # "idle"
  BY PassFrames DEF PassMoves, PassStep, PollProgress, Updating
<1>2. CASE UNCHANGED row
  BY <1>1, <1>2, PassHasRead, LeaveKeeps DEF row
<1>3. ASSUME NEW s \in Unfinished, Won(p), Write(s, snap[p].quota) PROVE RowInv'
  <2>1. /\ task' \in [status : Unfinished \cup Terminal, quota : Prices] /\ full' \in BOOLEAN
        /\ task'.quota = snap[p].quota
    BY <1>1, <1>3, PassHasRead DEF Write, Row
  <2> QED BY <1>1, <1>3, <2>1, WinnerIsAlone, LeaveKeeps
<1> QED BY <1>2, <1>3 DEF PollProgress

\* The pass that ends the task settles it alone.
LEMMA SettleAtKeeps ==
  ASSUME TaskInv, NEW p \in Pollers, PassFrame, Updating(p), Won(p),
         NEW s \in Terminal, Write(s, snap[p].quota), NEW q \in Prices, SettleAt(p, q)
  PROVE  RowInv'
<1>1. /\ ppc[p] # "idle" /\ actual \in Prices
      /\ task' \in [status : Unfinished \cup Terminal, quota : Prices] /\ full' \in BOOLEAN
      /\ task'.status \in Terminal /\ task'.status \notin Unfinished /\ task'.quota = snap[p].quota
      /\ task'.status # "none"
  BY PassHasRead DEF Updating, Write, Row, Unfinished, Terminal
<1>2. Kept => snap[p].quota = actual /\ \A r \in Pollers : ~Settling(r)
  BY WinnerIsAlone
<1>3. CASE Leave(p)
  BY <1>1, <1>2, <1>3, LeaveKeeps
<1>4. CASE adj' = [adj EXCEPT ![p] = q] /\ Goto(p, "funding") /\ UNCHANGED snap
  <2> USE <1>1, <1>2, <1>4 DEF TaskInv, RowInv, Goto, PassFrame, progress
  <2>1. RowTypes'
    BY DEF RowTypes
  <2>2. PassHasRow'
    BY DEF RowTypes, PassHasRow
  <2>3. ASSUME Kept PROVE ReadPrice'
    BY <2>3 DEF RowTypes, ReadPrice, Settling, Updating
  <2>4. ASSUME Kept PROVE SettlesAlone'
    BY <2>4 DEF RowTypes, SettlesAlone, Settling
  <2> QED BY <2>1, <2>2, <2>3, <2>4 DEF Kept
<1> QED BY <1>3, <1>4 DEF SettleAt

\* So it is for the answer of the upstream.
LEMMA PollTerminalKeeps == ASSUME TaskInv, NEW p \in Pollers, PollTerminal(p) PROVE RowInv'
<1>1. PassFrame /\ Updating(p) /\ ppc[p] # "idle"
  BY PassFrames DEF PassMoves, PassStep, PollTerminal, Updating
<1>2. CASE Leave(p) /\ UNCHANGED row
  BY <1>1, <1>2, PassHasRead, LeaveKeeps DEF row
<1>3. ASSUME NEW s \in Terminal, Won(p), Write(s, snap[p].quota), Finalize(p) PROVE RowInv'
  BY <1>1, <1>3, SettleAtKeeps DEF Finalize
<1> QED BY <1>2, <1>3 DEF PollTerminal

\* And for the sweep of a task that has timed out.
LEMMA SweepKeeps == ASSUME TaskInv, NEW p \in Pollers, Sweep(p) PROVE RowInv'
<1>1. PassFrame /\ Updating(p) /\ "failure" \in Terminal /\ 0 \in Prices
  BY PassFrames, BillingAssumption DEF PassMoves, PassStep, Sweep, Terminal, Prices, Updating
<1> QED BY <1>1, SettleAtKeeps DEF Sweep

\* A task without channel is failed whatever its status, at its price.
LEMMA BulkFailKeeps == ASSUME TaskInv, NEW p \in Pollers, BulkFail(p) PROVE RowInv'
<1>1. PassFrame /\ Leave(p) /\ ppc[p] # "idle"
  BY PassFrames DEF PassMoves, PassStep, BulkFail, Updating
<1>2. CASE UNCHANGED row
  BY <1>1, <1>2, PassHasRead, LeaveKeeps DEF row
<1>3. CASE Write("failure", task.quota)
  <2>1. /\ task' \in [status : Unfinished \cup Terminal, quota : Prices] /\ full' \in BOOLEAN
        /\ task'.status \in Terminal /\ task'.status \notin Unfinished /\ task'.quota = task.quota
    BY <1>1, <1>3, PassHasRead DEF Write, Row, Unfinished, Terminal
  <2> QED BY <1>1, <2>1, PassHasRead, LeaveKeeps
<1> QED BY <1>2, <1>3 DEF BulkFail

\* A settling pass goes on to the next account.
LEMMA GotoKeeps ==
  ASSUME TaskInv, NEW p \in Pollers, Settling(p), NEW at \in {"token", "quota"}, Goto(p, at),
         UNCHANGED <<row, snap, adj>>, PassFrame
  PROVE  RowInv'
<1> USE DEF TaskInv, RowInv, Goto, PassFrame, progress, row
<1>1. RowTypes'
  BY DEF RowTypes
<1>2. PassHasRow'
  BY DEF RowTypes, PassHasRow, Settling
<1>3. ASSUME Kept PROVE ReadPrice'
  BY <1>3 DEF RowTypes, ReadPrice, Settling, Updating
<1>4. ASSUME Kept PROVE SettlesAlone'
  BY <1>4 DEF RowTypes, SettlesAlone, Settling
<1> QED BY <1>1, <1>2, <1>3, <1>4 DEF Kept

\* taskAdjustFunding is carried out or gives the settlement up.
LEMMA AdjustFundingKeeps == ASSUME TaskInv, NEW p \in Pollers, AdjustFunding(p) PROVE RowInv'
<1>1. PassFrame /\ ppc[p] = "funding" /\ UNCHANGED row
  BY PassFrames DEF PassMoves, PassStep, AdjustFunding, job
<1>2. CASE Leave(p)
  BY <1>1, <1>2, PassHasRead, LeaveKeeps DEF row
<1>3. CASE Goto(p, "token") /\ UNCHANGED <<snap, adj>>
  BY <1>1, <1>3, GotoKeeps DEF Settling
<1> QED BY <1>2, <1>3 DEF AdjustFunding

\* taskAdjustTokenQuota goes on whether it succeeds or not.
LEMMA AdjustTokenKeeps == ASSUME TaskInv, NEW p \in Pollers, AdjustToken(p) PROVE RowInv'
<1>1. PassFrame /\ ppc[p] = "token" /\ UNCHANGED <<row, snap, adj>> /\ Goto(p, "quota")
  BY PassFrames DEF PassMoves, PassStep, AdjustToken, job
<1> QED BY <1>1, GotoKeeps DEF Settling

\* The new quota goes to a row that has ended.
LEMMA UpdateQuotaKeeps == ASSUME TaskInv, NEW p \in Pollers, UpdateQuota(p) PROVE RowInv'
<1>1. PassFrame /\ Leave(p) /\ ppc[p] = "quota"
  BY PassFrames DEF PassMoves, PassStep, UpdateQuota
<1>2. CASE UNCHANGED row
  BY <1>1, <1>2, PassHasRead, LeaveKeeps DEF row
<1>3. CASE task' = Row(task.status, adj[p]) /\ UNCHANGED full
  <2>1. /\ task' \in [status : Unfinished \cup Terminal, quota : Prices] /\ full' \in BOOLEAN
        /\ task'.status = task.status
    BY <1>1, <1>3, PassHasRead DEF Row, TaskInv, RowInv, RowTypes
  <2>2. Kept => task.status \in Terminal /\ \A r \in Pollers \ {p} : ~Settling(r)
    BY <1>1 DEF TaskInv, RowInv, ReadPrice, SettlesAlone, Settling
  <2> QED BY <1>1, <2>1, <2>2, LeaveKeeps DEF Unfinished, Terminal
<1> QED BY <1>2, <1>3 DEF UpdateQuota

\* A pass may die anywhere.
LEMMA PassEndsKeeps == ASSUME TaskInv, NEW p \in Pollers, PassEnds(p) PROVE RowInv'
<1>1. PassFrame /\ Leave(p) /\ ppc[p] # "idle" /\ UNCHANGED row
  BY PassFrames DEF PassMoves, PassEnds, job
<1> QED BY <1>1, PassHasRead, LeaveKeeps DEF row

\* Whatever passes do, the row tells their price and one of them settles.
LEMMA PassKeepsRow ==
  ASSUME TaskInv, NEW p \in Pollers, PassMoves(p)
  PROVE  RowInv'
BY PassBeginsKeeps, FetchWriteKeeps, PollProgressKeeps, PollTerminalKeeps, SweepKeeps, BulkFailKeeps,
    AdjustFundingKeeps, AdjustTokenKeeps, UpdateQuotaKeeps, PassEndsKeeps DEF PassMoves, PassStep

\* A row that is there stays, and none appears.
LEMMA PassKeepsExistence ==
  ASSUME TaskInv, NEW p \in Pollers, PassMoves(p)
  PROVE  task.status # "none" /\ task'.status # "none"
<1>1. task.status # "none"
  <2>1. CASE ppc[p] # "idle"
    BY <2>1, PassHasRead
  <2>2. CASE ppc[p] = "idle"
    BY <2>2 DEF PassMoves, PassBegins, PassStep, PollRead, ImageRound, FetchRead, FetchWrite, PollProgress,
        PollTerminal, Sweep, BulkFail, AdjustFunding, AdjustToken, UpdateQuota, PassEnds, Unfinished, Updating
  <2> QED BY <2>1, <2>2
<1>2. ASSUME NEW s \in Unfinished \cup Terminal, NEW q, Write(s, q) PROVE task'.status # "none"
  BY <1>2, WriteSays DEF Unfinished, Terminal
<1> QED BY <1>1, <1>2 DEF PassMoves, PassBegins, PassStep, PollRead, ImageRound, FetchRead, FetchWrite,
    PollProgress, PollTerminal, Sweep, BulkFail, AdjustFunding, AdjustToken, UpdateQuota, PassEnds,
    Unfinished, Terminal, Row, job, row

\* A step of a pass preserves the whole invariant.
LEMMA PassKeeps ==
  ASSUME TaskInv, NEW p \in Pollers, PassMoves(p)
  PROVE  TaskInv' /\ UNCHANGED <<HeldFunding, HeldToken>>
<1>1. PassFrame /\ RowInv' /\ task.status # "none"
  BY PassFrames, PassKeepsRow, PassKeepsExistence
<1>2. SessionInv' /\ UNCHANGED <<HeldFunding, HeldToken>>
  BY <1>1, FrameKeeps, PassPays DEF TaskInv
<1>3. PricedAhead'
  BY <1>1 DEF TaskInv, PricedAhead, PassFrame, request, progress, session, moving
<1>4. RowIsHeld'
  BY <1>1, <1>2 DEF TaskInv, RowIsHeld, PassFrame, request, progress, flags, refund, Ok, Fault,
      SessionInv, TypeOK
<1> QED BY <1>1, <1>2, <1>3, <1>4 DEF TaskInv

-----------------------------------------------------------------------------
(* The submission.                                                         *)

\* The session's steps leave the request, its final price, the row and the passes.
LEMMA SubmissionFrame ==
  ASSUME HandlerStep \/ RefundStep \/ Crash
  PROVE  UNCHANGED <<forced, playground, actual>>
BY DEF HandlerStep, RefundStep, NewBillingSession, TryWallet, TrySubscription, PreConsumeToken,
    PreConsumeFunding, RollBackToken, Reprice, ReserveFunding, ReserveToken, RollBackFunding, Fail,
    Settle, SettleToken, Refund, RefundWallet, RefundSubscription, RefundExtra, RefundToken, Crash,
    request, progress

\* A row that is not touched stays as it is described.
LEMMA RowStays ==
  ASSUME RowInv, UNCHANGED <<actual, job, pass>>
  PROVE  RowInv'
BY DEF RowInv, RowTypes, PassHasRow, ReadPrice, SettlesAlone, Settling, Updating, job, row, pass, Prices

\* The price is reserved before the row, by whichever steps the session takes.
LEMMA SessionPrices ==
  ASSUME SessionInv, PricedAhead, HandlerStep \/ RefundStep \/ Crash
  PROVE  PricedAhead'
<1> USE DEF PricedAhead, request, progress, moving, session
<1>0. forced' /\ forced /\ ~trusted /\ actual' = actual
  <2>1. UNCHANGED <<forced, actual>> BY SubmissionFrame
  <2> QED BY <2>1, Zenon
<1>1. /\ forced' /\ forced /\ ~trusted /\ actual' = actual
      /\ actual \in Int /\ pre \in Int /\ amt \in Int
  <2>1. actual \in Int /\ pre \in Int /\ amt \in Int BY DEF SessionInv, TypeOK, Prices
  <2> QED BY <1>0, <2>1
<1>2. CASE NewBillingSession BY <1>1, <1>2 DEF NewBillingSession
<1>3. CASE TryWallet
  <2>1. ~trusted' BY <1>0, <1>3, Zenon DEF TryWallet
  <2>2. pc' \notin {"reserve", "reserveToken", "insert"}
    BY <1>3 DEF TryWallet, NextSource, NoSession
  <2> QED BY <1>1, <2>1, <2>2
<1>4. CASE TrySubscription BY <1>1, <1>4 DEF TrySubscription
<1>5. CASE PreConsumeToken BY <1>1, <1>5 DEF PreConsumeToken, NoSession
<1>6. CASE PreConsumeFunding BY <1>1, <1>6 DEF PreConsumeFunding
<1>7. CASE RollBackToken BY <1>1, <1>7 DEF RollBackToken, NextSource, NoSession
<1>8. CASE Reprice BY <1>1, <1>8 DEF Reprice, StartReserve
<1>9. CASE ReserveFunding BY <1>1, <1>9 DEF ReserveFunding, ReserveFailed
<1>10. CASE ReserveToken
  <2>1. ~trusted' BY <1>0, <1>10, Zenon DEF ReserveToken, session
  <2>2. \/ pc' = goal /\ pre' = pre + amt
        \/ pc' = "unreserve"
    BY <1>10 DEF ReserveToken
  <2>3. goal \in {"ready", "insert"}
    BY DEF SessionInv, TypeOK
  <2> QED BY <1>1, <1>10, <2>1, <2>2, <2>3 DEF ReserveToken
<1>11. CASE RollBackFunding BY <1>1, <1>11 DEF RollBackFunding, ReserveFailed
<1>12. CASE Fail BY <1>1, <1>12 DEF Fail
<1>13. CASE Settle \/ SettleToken BY <1>1, <1>13 DEF Settle, SettleToken
<1>14. CASE Refund BY <1>1, <1>14 DEF Refund
<1>15. CASE RefundStep
  <2>1. UNCHANGED <<pc, goal, pre, amt, trusted>>
    BY <1>15 DEF RefundStep, RefundWallet, RefundSubscription, RefundExtra, RefundToken
  <2> QED BY <1>1, <2>1
<1>16. CASE Crash BY <1>1, <1>16 DEF Crash
<1> QED BY <1>2, <1>3, <1>4, <1>5, <1>6, <1>7, <1>8, <1>9, <1>10, <1>11, <1>12, <1>13, <1>14, <1>15, <1>16
    DEF HandlerStep

\* After the row only a settlement or a crash is left, and neither lets go of
\* what the row says.
LEMMA SessionHolds ==
  ASSUME SessionInv, SessionInv', RowIsHeld, HandlerStep \/ RefundStep \/ Crash, UNCHANGED <<job, pass>>
  PROVE  RowIsHeld'
<1> SUFFICES ASSUME task.status # "none", UNCHANGED task PROVE RowIsHeld'
  BY DEF RowIsHeld, job, row
<1>1. /\ pc \in {"settle", "settleToken", "unsettled", "done", "dead"} /\ rpc = "off"
      /\ actual <= HeldFunding /\ (~playground => actual <= HeldToken)
      /\ actual \in Nat /\ faults \in Nat
  BY DEF RowIsHeld, SessionInv, TypeOK, Prices
<1>2. UNCHANGED <<actual, playground>>
  BY SubmissionFrame
<1>3. CASE Settle
  <2>1. HeldToken' = HeldToken
    BY <1>3 DEF Settle, HeldToken, request, progress, session, refund
  <2>2. CASE settled' \/ fundingSettled'
    <3>1. HeldFunding' = actual
      BY <1>2, <2>2 DEF HeldFunding
    <3>2. pc' \in {"done", "settleToken"} /\ (pc' = "done" => settled') /\ rpc' = "off"
      BY <1>1, <1>3, <2>2 DEF Settle, SessionInv, EndsOnce, refund
    <3> QED BY <1>1, <1>2, <2>1, <3>1, <3>2 DEF RowIsHeld
  <2>3. CASE pc' = "unsettled" /\ UNCHANGED <<settled, fundingSettled>>
    <3>1. HeldFunding' = HeldFunding
      BY <1>3, <2>3 DEF Settle, HeldFunding, progress, session, refund
    <3>2. faults' > 0
      <4>1. source = "subscription" => actual <= pre
        <5>1. source = "subscription" => HeldFunding = base + extraReserved /\ base + extraReserved = pre
          BY <1>3, HeldOpen DEF Settle, SessionInv, TypeOK, ReservedAlike, Opened, TopUp
        <5> QED BY <1>1, <5>1
      <4>2. pre \in Nat
        BY DEF SessionInv, TypeOK
      <4>3. ~(source = "subscription" /\ Delta > 0)
        BY <1>1, <4>1, <4>2 DEF Delta
      <4> QED BY <1>1, <1>3, <2>3, <4>3 DEF Settle, Fault, SessionInv, EndsOnce
    <3> QED BY <1>1, <1>2, <1>3, <2>1, <2>3, <3>1, <3>2 DEF Settle, RowIsHeld, refund
  <2> QED BY <1>3, <2>2, <2>3 DEF Settle
<1>4. CASE SettleToken
  <2>1. HeldFunding' = HeldFunding
    BY <1>2, <1>4 DEF SettleToken, HeldFunding, SessionInv, EndsOnce
  <2>2. ~playground => actual <= HeldToken'
    <3>1. rpc' = "off" /\ (tokenSettled' \/ UNCHANGED <<tokenSettled, tokenConsumed>>)
      BY <1>1, <1>4 DEF SettleToken, refund, session
    <3>2. HeldToken' = actual \/ HeldToken' = HeldToken \/ playground
      <4>1. CASE tokenSettled' BY <1>2, <3>1, <4>1 DEF HeldToken
      <4>2. CASE UNCHANGED <<tokenSettled, tokenConsumed>> BY <1>1, <1>2, <3>1, <4>2 DEF HeldToken
      <4> QED BY <3>1, <4>1, <4>2
    <3> QED BY <1>1, <3>2
  <2> QED BY <1>1, <1>2, <1>4, <2>1, <2>2 DEF SettleToken, RowIsHeld, refund
<1>5. CASE Crash
  <2>1. HeldFunding' = HeldFunding /\ HeldToken' = HeldToken
    BY <1>1, <1>5 DEF Crash, HeldFunding, HeldToken, request, progress, session, flags, Ended
  <2> QED BY <1>1, <1>2, <1>5, <2>1 DEF Crash, RowIsHeld, Fault
<1>6. Settle \/ SettleToken \/ Crash
  BY <1>1 DEF HandlerStep, RefundStep, NewBillingSession, TryWallet, TrySubscription, PreConsumeToken,
      PreConsumeFunding, RollBackToken, Reprice, ReserveFunding, ReserveToken, RollBackFunding, Fail,
      Refund, RefundWallet, RefundSubscription, RefundExtra, RefundToken
<1> QED BY <1>3, <1>4, <1>5, <1>6

\* A step of the session preserves the whole invariant.
LEMMA SessionKeeps ==
  ASSUME TaskInv, HandlerStep \/ RefundStep \/ Crash, UNCHANGED <<job, pass>>
  PROVE  TaskInv'
<1>1. SessionInv'
  BY SessionStep DEF TaskInv
<1>2. PricedAhead'
  BY SessionPrices DEF TaskInv
<1>3. RowIsHeld'
  BY <1>1, SessionHolds DEF TaskInv
<1>4. RowInv'
  BY RowStays, SubmissionFrame DEF TaskInv
<1> QED BY <1>1, <1>2, <1>3, <1>4 DEF TaskInv

\* Until the row is inserted, no pass has anything to do with the task.
LEMMA NoRowNoPass ==
  ASSUME TaskInv, pc \in {"ready", "insert"}
  PROVE  task.status = "none" /\ \A p \in Pollers : ppc[p] = "idle"
BY DEF TaskInv, RowIsHeld, RowInv, PassHasRow

\* The answer of the upstream prices the task; what it exceeds the reservation by
\* is reserved first.
LEMMA SubmittedKeeps ==
  ASSUME TaskInv, Submitted
  PROVE  TaskInv' /\ UNCHANGED <<HeldFunding, HeldToken>>
<1> USE DEF Submitted
<1>1. PICK s \in {"queued", "success", "failure"}, q \in Prices, r \in BOOLEAN :
        /\ outcome' = s /\ actual' = q
        /\ \/ StartReserve(q, r, "insert")
           \/ Reserved(q, r) /\ pc' = "insert" /\ UNCHANGED <<moving, goal>>
  OBVIOUS
<1>2. /\ q \in Nat /\ pre \in Nat /\ amt \in Nat /\ ~settled /\ ~refunded /\ ~fundingSettled
      /\ ~tokenSettled /\ rpc = "off" /\ source \in {"wallet", "subscription"} /\ goal \in {"ready", "insert"}
  BY DEF TaskInv, SessionInv, TypeOK, EndsOnce, ReservedAlike, Opened, Prices
<1>3. \/ pc' = "reserve" /\ amt' = q - pre /\ q > pre /\ goal' = "insert" /\ require' = r
      \/ pc' = "insert" /\ q <= pre /\ amt' = amt /\ goal' = goal /\ require' = require
  <2>1. ~trusted BY DEF TaskInv, PricedAhead
  <2> QED BY <1>1, <1>2, <2>1 DEF StartReserve, Reserved, moving
<1>4. /\ UNCHANGED <<forced, playground, calls, price, plan, source, pre, tokenConsumed, extraReserved,
                     trusted, base, fundingSettled, settled, refunded, tokenSettled, record, rpc, tries,
                     fundingPaid, tokenPaid, faults, task, full, ppc, snap, adj>>
  BY DEF request, session, flags, refund, paid, row, pass
<1>5. SessionInv'
  <2>1. FlagTypes'
    BY <1>3, <1>4, TypeParts DEF TaskInv, SessionInv, FlagTypes
  <2>2. StepTypes'
    BY <1>2, <1>3, <1>4, TypeParts DEF TaskInv, SessionInv, StepTypes, Opening, Opened
  <2>3. FigureTypes'
    BY <1>1, <1>2, <1>3, <1>4, TypeParts DEF TaskInv, SessionInv, FigureTypes, Prices
  <2>4. OnlyTheToken' /\ ReservedAlike'
    BY <1>2, <1>3, <1>4 DEF TaskInv, SessionInv, OnlyTheToken, ReservedAlike, Opening, Opened, TopUp
  <2>5. EndsOnce' /\ NothingLeft'
    BY <1>2, <1>3, <1>4 DEF TaskInv, SessionInv, EndsOnce, NothingLeft
  <2> QED BY <2>1, <2>2, <2>3, <2>4, <2>5, TypePartsNext DEF SessionInv
<1>6. PricedAhead'
  BY <1>1, <1>2, <1>3, <1>4 DEF TaskInv, PricedAhead
<1>7. task.status = "none" /\ \A p \in Pollers : ppc[p] = "idle"
  BY NoRowNoPass
<1>8. RowIsHeld'
  BY <1>4, <1>7 DEF RowIsHeld
<1>9. RowInv'
  <2>1. RowTypes'
    BY <1>1, <1>4 DEF TaskInv, RowInv, RowTypes, Terminal
  <2>2. ReadPrice' /\ PassHasRow' /\ SettlesAlone'
    BY <1>4, <1>7 DEF ReadPrice, PassHasRow, SettlesAlone, Settling, Updating, Unfinished
  <2> QED BY <2>1, <2>2 DEF RowInv
<1>10. UNCHANGED <<HeldFunding, HeldToken>>
  BY <1>2, <1>3, <1>4 DEF HeldFunding, HeldToken
<1> QED BY <1>5, <1>6, <1>8, <1>9, <1>10 DEF TaskInv

\* The row is inserted at a price that is reserved on both accounts.
LEMMA InsertKeeps ==
  ASSUME TaskInv, Insert
  PROVE  TaskInv' /\ UNCHANGED <<HeldFunding, HeldToken>>
<1> USE DEF Insert
<1>1. /\ pc' \in {"settle", "refund"}
      /\ UNCHANGED <<request, progress, moving, session, base, flags, refund, paid, outcome, pass>>
      /\ Ok \/ Fault
      /\ pc' = "settle" => Write(outcome, actual)
      /\ pc' = "refund" => UNCHANGED row
  OBVIOUS
<1>2. /\ ~settled /\ ~refunded /\ ~fundingSettled /\ ~tokenSettled /\ rpc = "off"
      /\ faults \in 0..MaxFaults /\ actual \in Prices /\ actual <= pre /\ actual \in Nat /\ pre \in Nat
      /\ source \in {"wallet", "subscription"} /\ tokenConsumed = pre
  BY DEF TaskInv, PricedAhead, SessionInv, TypeOK, EndsOnce, ReservedAlike, Opened, Prices
<1>3. SessionInv'
  <2> USE DEF request, progress, moving, session, flags, refund, paid
  <2>1. faults' \in 0..MaxFaults /\ faults' >= faults
    BY <1>1, <1>2, BillingAssumption DEF Ok, Fault
  <2>2. FlagTypes'
    BY <1>1, TypeParts DEF TaskInv, SessionInv, FlagTypes
  <2>3. StepTypes'
    BY <1>1, TypeParts DEF TaskInv, SessionInv, StepTypes, Opened
  <2>4. FigureTypes'
    BY <1>1, <2>1, TypeParts DEF TaskInv, SessionInv, FigureTypes, Prices
  <2>5. OnlyTheToken' /\ ReservedAlike'
    BY <1>1, <1>2, <2>1 DEF TaskInv, SessionInv, OnlyTheToken, ReservedAlike, Opening, Opened, TopUp
  <2>6. EndsOnce' /\ NothingLeft'
    BY <1>1, <1>2 DEF TaskInv, SessionInv, EndsOnce, NothingLeft
  <2> QED BY <2>2, <2>3, <2>4, <2>5, <2>6, TypePartsNext DEF SessionInv
<1>4. UNCHANGED <<HeldFunding, HeldToken>>
  BY <1>1, <1>2 DEF HeldFunding, HeldToken, request, progress, session, moving, flags, refund
<1>5. PricedAhead'
  BY <1>1 DEF TaskInv, PricedAhead, request, progress, session
<1>6. actual <= HeldFunding /\ (~playground => actual <= HeldToken)
  <2>1. HeldToken = IF playground THEN 0 ELSE pre
    BY <1>2, HeldOpen DEF TaskInv
  <2>2. HeldFunding = IF source = "subscription" THEN base + extraReserved + TopUp ELSE base
    BY HeldOpen DEF TaskInv
  <2>3. TopUp = 0 /\ (source = "subscription" => base + extraReserved = pre)
        /\ (source = "wallet" => base >= pre + TopUp) /\ base \in Nat /\ extraReserved \in Nat
    BY DEF TaskInv, SessionInv, TypeOK, ReservedAlike, Opened, TopUp
  <2>4. HeldFunding >= pre
    BY <1>2, <2>2, <2>3
  <2>5. HeldFunding \in Int
    BY <2>2, <2>3
  <2> QED BY <1>2, <2>1, <2>4, <2>5
<1>7. task.status = "none" /\ \A p \in Pollers : ppc[p] = "idle"
  BY NoRowNoPass
<1>8. RowIsHeld'
  BY <1>1, <1>2, <1>4, <1>6, <1>7 DEF RowIsHeld, request, progress, refund, row
<1>9. RowInv'
  <2>1. RowTypes'
    <3>1. CASE pc' = "settle"
      <4>1. /\ task' = [status |-> outcome, quota |-> actual] /\ full' \in BOOLEAN
        BY <1>1, <3>1, WriteSays
      <4> QED BY <1>1, <1>2, <4>1 DEF TaskInv, RowInv, RowTypes, Unfinished, Terminal, pass
    <3>2. CASE pc' = "refund"
      BY <1>1, <3>2 DEF TaskInv, RowInv, RowTypes, pass, row
    <3> QED BY <1>1, <3>1, <3>2
  <2>2. /\ task'.status \in Unfinished => task'.quota = actual' /\ \A p \in Pollers : ppc'[p] = "idle"
    BY <1>1, <1>7, WriteSays DEF Unfinished, pass, progress, row
  <2>3. ReadPrice' /\ PassHasRow' /\ SettlesAlone'
    BY <1>1, <1>7, <2>2, WriteSays DEF ReadPrice, PassHasRow, SettlesAlone, Settling, Updating, Unfinished,
        pass, progress, row
  <2> QED BY <2>1, <2>3 DEF RowInv
<1> QED BY <1>3, <1>4, <1>5, <1>8, <1>9 DEF TaskInv

-----------------------------------------------------------------------------
(* Types, and who settles.                                                 *)

\* Nothing has happened yet.
LEMMA TaskStarts == ASSUME TaskInit PROVE TaskInv
<1>1. SessionInv
  BY SessionInit DEF TaskInit
<1>2. PricedAhead /\ RowIsHeld
  BY DEF TaskInit, Init, PricedAhead, RowIsHeld, Row, NoRow
<1>3. RowInv
  <2>1. RowTypes
    <3>1. 0 \in Prices
      BY BillingAssumption DEF Prices
    <3>2. NoRow \in [status : {"none"} \cup Unfinished \cup Terminal, quota : Prices]
      BY <3>1 DEF NoRow, Row
    <3> QED BY <3>1, <3>2 DEF TaskInit, RowTypes
  <2>2. PassHasRow /\ ReadPrice /\ SettlesAlone
    BY DEF TaskInit, PassHasRow, ReadPrice, SettlesAlone, Settling, Updating, Row, NoRow, Unfinished
  <2> QED BY <2>1, <2>2 DEF RowInv
<1> QED BY <1>1, <1>2, <1>3 DEF TaskInv

\* A step that changes nothing.
LEMMA TaskStutter ==
  ASSUME TaskInv, UNCHANGED tvars
  PROVE  TaskInv' /\ UNCHANGED <<HeldFunding, HeldToken>>
<1>1. SessionInv' /\ RowInv'
  BY SessionStutter, RowStays DEF TaskInv, tvars, vars, progress
<1>2. UNCHANGED <<HeldFunding, HeldToken>>
  BY DEF tvars, vars, HeldFunding, HeldToken, request, progress, moving, session, flags, refund
<1> QED BY <1>1, <1>2 DEF TaskInv, PricedAhead, RowIsHeld, tvars, vars, request, progress, moving, session,
    flags, refund, job, row

\* Submission, row and passes keep to their invariant, however the passes overlap
\* with the submission and with each other.
THEOREM TaskInvariant == TaskSpec => []TaskInv
<1>1. TaskInit => TaskInv
  BY TaskStarts
<1>2. TaskInv /\ [TaskNext]_tvars => TaskInv'
  <2> SUFFICES ASSUME TaskInv, [TaskNext]_tvars PROVE TaskInv'
    OBVIOUS
  <2>1. CASE (HandlerStep \/ RefundStep \/ Crash) /\ UNCHANGED <<job, pass>>
    BY <2>1, SessionKeeps
  <2>2. CASE Submitted BY <2>2, SubmittedKeeps
  <2>3. CASE Insert BY <2>3, InsertKeeps
  <2>4. CASE \E p \in Pollers : PassMoves(p)
    BY <2>4, PassKeeps DEF PassMoves
  <2>5. CASE UNCHANGED tvars BY <2>5, TaskStutter
  <2> QED BY <2>1, <2>2, <2>3, <2>4, <2>5 DEF TaskNext, SubmitStep, PassMoves
<1> QED BY <1>1, <1>2, PTL DEF TaskSpec

\* The row, the snapshots and the session have their types.
THEOREM TaskTypeCorrect == TaskSpec => []TaskTypeOK
<1>1. TaskInv => TaskTypeOK
  BY DEF TaskInv, SessionInv, RowInv, RowTypes, TaskTypeOK
<1> QED BY <1>1, TaskInvariant, PTL

\* Of any number of passes that see a task end, one settles or refunds it:
\* UpdateWithStatus lets one through, and an ended row lets none.  On a channel
\* with a live fetch this is so as long as no fetch undoes the end of a task.
THEOREM OnePassSettles == ASSUME LiveFetch => KeepsEnd PROVE TaskSpec => []SettlesAlone
<1>1. TaskInv => SettlesAlone
  BY DEF TaskInv, RowInv, Kept
<1> QED BY <1>1, TaskInvariant, PTL

-----------------------------------------------------------------------------
(* The accounts.                                                           *)

\* The most that the one pass which ends the task can have given back: it has not
\* been at the account while it is still at one of the steps `before`.
Ceiling(before) ==
    IF task.status \in Terminal /\ \A p \in Pollers : ppc[p] \notin before THEN actual ELSE 0

\* What the accounts have been charged covers what the session holds, but for
\* what that pass has given back.
TaskCovered ==
    /\ fundingPaid >= HeldFunding - Ceiling({"funding"})
    /\ tokenPaid >= IF playground THEN 0 ELSE HeldToken - Ceiling({"funding", "token"})

\* What TaskCovered speaks of are numbers.
LEMMA TaskFigures ==
  ASSUME TaskInv
  PROVE  /\ HeldFunding \in Nat /\ HeldToken \in Nat /\ actual \in Nat /\ faults \in Nat
         /\ fundingPaid \in Int /\ tokenPaid \in Int
         /\ Ceiling({"funding"}) \in {0, actual} /\ Ceiling({"funding", "token"}) \in {0, actual}
         /\ task.quota \in Nat /\ \A p \in Pollers : adj[p] \in Nat
<1>1. actual \in Nat /\ task.quota \in Nat /\ \A p \in Pollers : adj[p] \in Nat
  BY DEF TaskInv, SessionInv, TypeOK, RowInv, RowTypes, Prices
<1> QED BY <1>1, HeldTypes DEF TaskInv, Ceiling

\* The same after a step.
LEMMA TaskFiguresNext ==
  ASSUME TaskInv'
  PROVE  /\ HeldFunding' \in Nat /\ HeldToken' \in Nat /\ actual' \in Nat /\ faults' \in Nat
         /\ fundingPaid' \in Int /\ tokenPaid' \in Int
         /\ Ceiling({"funding"})' \in {0, actual'} /\ Ceiling({"funding", "token"})' \in {0, actual'}
<1>1. actual' \in Nat
  BY DEF TaskInv, SessionInv, TypeOK, Prices
<1> QED BY <1>1, HeldTypesNext DEF TaskInv, Ceiling

\* An account that a pass does not move stays covered: nobody goes back to a step
\* before the account, and an ended task stays ended.
LEMMA CeilingGrows ==
  ASSUME Kept, TaskInv, TaskInv', NEW p \in Pollers, PassMoves(p)
  PROVE  /\ actual' = actual
         /\ Ceiling({"funding"})' >= Ceiling({"funding"})
         /\ Ceiling({"funding", "token"})' >= Ceiling({"funding", "token"})
<1>1. actual' = actual /\ actual \in Nat
  BY PassFrames, TaskFigures DEF PassFrame, progress
<1>2. CASE task.status \notin Terminal
  BY <1>1, <1>2, TaskFiguresNext DEF Ceiling
<1>3. CASE task.status \in Terminal
  <2>1. task.status \notin Unfinished /\ (Updating(p) => ~Won(p))
    BY <1>3, WinnerIsAlone DEF Unfinished, Terminal
  <2>2. task'.status \in Terminal
    <3>1. CASE FetchWrite(p)
      <4>1. CASE UNCHANGED row BY <1>3, <4>1 DEF row
      <4>2. ASSUME NEW s \in Unfinished \cup Terminal, Won(p), snap[p].status \in Unfinished => s \in Unfinished,
                   KeepsEnd => ~Undoes(p, s), Write(s, snap[p].quota)
            PROVE  task'.status \in Terminal
        BY <2>1, <3>1, <4>2, FetchIsHarmless DEF FetchWrite, Write, Row
      <4> QED BY <3>1, <4>1, <4>2 DEF FetchWrite
    <3>2. CASE PassBegins(p)
      BY <1>3, <3>2 DEF PassBegins, PollRead, ImageRound, FetchRead, job, row
    <3>3. CASE ~FetchWrite(p) /\ ~PassBegins(p)
      <4>1. ASSUME NEW s \in Terminal, NEW q, Write(s, q) PROVE task'.status \in Terminal
        BY <4>1, WriteSays
      <4>2. CASE PollProgress(p) \/ PollTerminal(p) \/ Sweep(p)
        BY <1>3, <2>1, <4>2 DEF PollProgress, PollTerminal, Sweep, Updating, row
      <4>3. CASE BulkFail(p)
        BY <1>3, <4>1, <4>3 DEF BulkFail, Terminal, row
      <4> QED BY <1>3, <3>3, <4>2, <4>3 DEF PassMoves, PassStep, AdjustFunding, AdjustToken, UpdateQuota,
          PassEnds, Row, job, row
    <3> QED BY <3>1, <3>2, <3>3
  <2>3. ppc' = [ppc EXCEPT ![p] = ppc'[p]]
    BY DEF PassMoves, PassBegins, PassStep, PollRead, ImageRound, FetchRead, FetchWrite, PollProgress,
        PollTerminal, Sweep, BulkFail, AdjustFunding, AdjustToken, UpdateQuota, PassEnds, Leave, Goto, Finalize,
        SettleAt, TaskInv, RowInv, RowTypes
  <2>4. /\ ppc'[p] # "funding"
        /\ ppc'[p] = "token" => ppc[p] = "funding"
    BY <2>1 DEF PassMoves, PassBegins, PassStep, PollRead, ImageRound, FetchRead, FetchWrite, PollProgress,
        PollTerminal, Sweep, BulkFail, AdjustFunding, AdjustToken, UpdateQuota, PassEnds, Leave, Goto, TaskInv,
        RowInv, RowTypes, Updating
  <2> QED BY <1>1, <1>3, <2>2, <2>3, <2>4 DEF Ceiling, TaskInv, RowInv, RowTypes
<1> QED BY <1>2, <1>3

\* A pass gives back at most the price, once.
LEMMA PassCovers ==
  ASSUME Kept, TaskInv, TaskInv', TaskCovered, UNCHANGED <<HeldFunding, HeldToken>>,
         NEW p \in Pollers, PassMoves(p)
  PROVE  TaskCovered'
<1>1. playground' = playground
  BY PassFrames DEF PassFrame, request
<1>2. fundingPaid' >= HeldFunding' - Ceiling({"funding"})'
  <2>1. CASE fundingPaid' = fundingPaid
    BY <2>1, TaskFigures, TaskFiguresNext, CeilingGrows DEF TaskCovered
  <2>2. CASE fundingPaid' # fundingPaid
    <3>1. /\ ppc[p] = "funding" /\ Goto(p, "token") /\ UNCHANGED task
          /\ fundingPaid' = fundingPaid + TaskDelta(p)
      BY <2>2 DEF PassMoves, PassBegins, PassStep, PollRead, ImageRound, FetchRead, FetchWrite, PollProgress,
          PollTerminal, Sweep, BulkFail, AdjustFunding, AdjustToken, UpdateQuota, PassEnds, vars, paid, job, row
    <3>2. /\ TaskDelta(p) >= -actual /\ TaskDelta(p) \in Int /\ task.status \in Terminal
      BY <3>1, TaskFigures, PassHasRead DEF TaskDelta, Settling
    <3>3. Ceiling({"funding"}) = 0
      BY <3>1 DEF Ceiling
    <3>4. Ceiling({"funding"})' = actual
      BY <3>1, <3>2, CeilingGrows DEF Ceiling, Goto, TaskInv, RowInv, RowTypes, SettlesAlone, Settling
    <3> QED BY <3>1, <3>2, <3>3, <3>4, TaskFigures DEF TaskCovered
  <2> QED BY <2>1, <2>2
<1>3. tokenPaid' >= IF playground THEN 0 ELSE HeldToken' - Ceiling({"funding", "token"})'
  <2>1. CASE tokenPaid' = tokenPaid
    BY <2>1, TaskFigures, TaskFiguresNext, CeilingGrows DEF TaskCovered
  <2>2. CASE tokenPaid' # tokenPaid
    <3>1. /\ ppc[p] = "token" /\ Goto(p, "quota") /\ UNCHANGED task
          /\ ~playground /\ tokenPaid' = tokenPaid + TaskDelta(p)
      BY <2>2 DEF PassMoves, PassBegins, PassStep, PollRead, ImageRound, FetchRead, FetchWrite, PollProgress,
          PollTerminal, Sweep, BulkFail, AdjustFunding, AdjustToken, UpdateQuota, PassEnds, ChargeToken, vars,
          paid, job, row
    <3>2. /\ TaskDelta(p) >= -actual /\ TaskDelta(p) \in Int /\ task.status \in Terminal
      BY <3>1, TaskFigures, PassHasRead DEF TaskDelta, Settling
    <3>3. Ceiling({"funding", "token"}) = 0
      BY <3>1 DEF Ceiling
    <3>4. Ceiling({"funding", "token"})' = actual
      BY <3>1, <3>2, CeilingGrows DEF Ceiling, Goto, TaskInv, RowInv, RowTypes, SettlesAlone, Settling
    <3> QED BY <3>1, <3>2, <3>3, <3>4, TaskFigures DEF TaskCovered
  <2> QED BY <2>1, <2>2
<1> QED BY <1>1, <1>2, <1>3 DEF TaskCovered

\* The submission gives back no more than it has been charged.
LEMMA SubmissionCovers ==
  ASSUME TxSaves, TaskInv, TaskInv', TaskCovered, HandlerStep \/ RefundStep \/ Crash, UNCHANGED <<job, pass>>
  PROVE  TaskCovered'
<1>1. /\ fundingPaid' - HeldFunding' >= fundingPaid - HeldFunding
      /\ tokenPaid' - HeldToken' >= tokenPaid - HeldToken
  BY FundingStep, TokenStep, LedgerCovers DEF TaskInv
<1>2. UNCHANGED <<playground, Ceiling({"funding"}), Ceiling({"funding", "token"})>>
  BY SubmissionFrame DEF Ceiling, job, row, pass
<1>3. (playground => HeldToken = 0) /\ (playground' => HeldToken' = 0)
  BY DEF HeldToken
<1> QED BY <1>1, <1>2, <1>3, TaskFigures, TaskFiguresNext DEF TaskCovered

\* Pricing and inserting the task move nothing.
LEMMA InsertCovers ==
  ASSUME TaskInv, TaskInv', TaskCovered, Submitted \/ Insert
  PROVE  TaskCovered'
<1>1. UNCHANGED <<HeldFunding, HeldToken, fundingPaid, tokenPaid, playground>>
  BY SubmittedKeeps, InsertKeeps DEF Submitted, Insert, paid, request
<1>2. Ceiling({"funding"}) = 0 /\ Ceiling({"funding", "token"}) = 0
  BY NoRowNoPass DEF Submitted, Insert, Ceiling, Terminal
<1> QED BY <1>1, <1>2, TaskFigures, TaskFiguresNext DEF TaskCovered

\* However submission, refund, retries and passes overlap, neither account is ever
\* given back more than the task was charged (under the provisos of
\* BillingRefundedOnce and OnePassSettles).
THEOREM TaskRefundsOnce ==
  ASSUME TxSaves, LiveFetch => KeepsEnd
  PROVE  TaskSpec => []RefundedOnce
<1>0. Kept
  BY DEF Kept
<1>1. TaskInit => TaskCovered
  BY DEF TaskInit, Init, TaskCovered, Ceiling, Terminal, Row, NoRow, HeldFunding, HeldToken
<1>2. TaskInv /\ TaskInv' /\ TaskCovered /\ [TaskNext]_tvars => TaskCovered'
  <2> SUFFICES ASSUME TaskInv, TaskInv', TaskCovered, [TaskNext]_tvars PROVE TaskCovered'
    OBVIOUS
  <2>1. CASE (HandlerStep \/ RefundStep \/ Crash) /\ UNCHANGED <<job, pass>>
    BY <2>1, SubmissionCovers
  <2>2. CASE Submitted \/ Insert BY <2>2, InsertCovers
  <2>3. CASE \E p \in Pollers : PassMoves(p)
    BY <1>0, <2>3, PassKeeps, PassCovers DEF PassMoves
  <2>4. CASE UNCHANGED tvars
    BY <2>4, TaskStutter DEF TaskCovered, Ceiling, tvars, vars, request, progress, paid, job, row, pass
  <2> QED BY <2>1, <2>2, <2>3, <2>4 DEF TaskNext, SubmitStep, PassMoves
<1>3. TaskInv /\ TaskCovered => RefundedOnce
  <2> SUFFICES ASSUME TaskInv, TaskCovered PROVE RefundedOnce
    OBVIOUS
  <2>1. Ceiling({"funding"}) <= HeldFunding /\ (~playground => Ceiling({"funding", "token"}) <= HeldToken)
    BY TaskFigures DEF TaskInv, RowIsHeld, Ceiling, Terminal
  <2> QED BY <2>1, TaskFigures DEF TaskCovered, RefundedOnce
<1> QED BY <1>1, <1>2, <1>3, TaskInvariant, PTL DEF TaskSpec

\* What the row says the passes have moved.
RowShift == IF task.status = "none" THEN 0 ELSE task.quota - actual

\* The passes have moved an account by d: `at` are the steps of a pass that has
\* been at the account and not yet written that to the row.
Shifted(at, d) ==
    /\ (\A p \in Pollers : ppc[p] \notin at) => d = RowShift
    /\ \A p \in Pollers : ppc[p] \in at => d = adj[p] - actual

\* Where no statement fails, an account is charged what the session holds and
\* what the pass that has ended the task has moved.
TaskExact ==
    faults = 0 =>
        /\ Shifted({"token", "quota"}, fundingPaid - HeldFunding)
        /\ IF playground THEN tokenPaid = 0 ELSE Shifted({"quota"}, tokenPaid - HeldToken)

\* The steps of a pass where no statement fails: it goes on without touching an
\* account, adjusts one of the two, or writes the new quota.
LEMMA PassSteps ==
  ASSUME Kept, TaskInv, NEW p \in Pollers, PassMoves(p), faults' = 0
  PROVE  /\ faults = 0
         /\ \E at \in {"idle", "fetched", "updating", "polled", "funding", "token", "quota"} : ppc' = [ppc EXCEPT ![p] = at]
         /\ \A r \in Pollers \ {p} : adj'[r] = adj[r]
         /\ \/ /\ ppc[p] \notin {"token", "quota"} /\ ppc'[p] \notin {"token", "quota"}
               /\ UNCHANGED <<fundingPaid, tokenPaid>> /\ task'.quota = task.quota
            \/ /\ ppc[p] = "funding" /\ ppc'[p] = "token" /\ UNCHANGED <<tokenPaid, task, adj>>
               /\ fundingPaid' = fundingPaid + TaskDelta(p)
            \/ /\ ppc[p] = "token" /\ ppc'[p] = "quota" /\ UNCHANGED <<fundingPaid, task, adj>>
               /\ ChargeToken(TaskDelta(p))
            \/ /\ ppc[p] = "quota" /\ ppc'[p] = "idle" /\ UNCHANGED <<fundingPaid, tokenPaid>>
               /\ task'.quota = adj[p]
<1>1. faults \in Nat /\ RowTypes
  BY DEF TaskInv, SessionInv, TypeOK, RowInv
<1>2. faults = 0 /\ ~Fault
  BY <1>1, PassFrames DEF PassFrame, Ok, Fault
<1> USE <1>1, <1>2 DEF RowTypes, Leave, Goto, Row, NoRow, vars, paid, job, row
<1>3. CASE PassBegins(p)
  BY <1>3 DEF PassBegins, PollRead, ImageRound, FetchRead
<1>4. CASE FetchWrite(p)
  <2>1. task'.quota = task.quota
    BY <1>4, FetchIsHarmless, WriteSays DEF FetchWrite
  <2> QED BY <1>4, <2>1 DEF FetchWrite
<1>5. CASE PollProgress(p)
  <2>1. task'.quota = task.quota
    BY <1>5, WinnerIsAlone, WriteSays DEF PollProgress
  <2> QED BY <1>5, <2>1 DEF PollProgress, Updating
<1>6. CASE PollTerminal(p) \/ Sweep(p)
  <2>1. task'.quota = task.quota /\ Updating(p)
    BY <1>6, WinnerIsAlone, WriteSays DEF PollTerminal, Sweep, Updating
  <2> QED BY <1>6, <2>1 DEF PollTerminal, Sweep, Finalize, SettleAt, Updating
<1>7. CASE BulkFail(p)
  <2>1. task'.quota = task.quota
    BY <1>7, WriteSays DEF BulkFail
  <2> QED BY <1>7, <2>1 DEF BulkFail, Updating
<1>8. CASE AdjustFunding(p)
  BY <1>8 DEF AdjustFunding
<1>9. CASE AdjustToken(p)
  BY <1>9 DEF AdjustToken
<1>10. CASE UpdateQuota(p)
  BY <1>10 DEF UpdateQuota
<1>11. ~PassEnds(p)
  BY DEF PassEnds
<1> QED BY <1>3, <1>4, <1>5, <1>6, <1>7, <1>8, <1>9, <1>10, <1>11 DEF PassMoves, PassStep

\* A pass moves each account by the difference it settles the task at.
LEMMA PassIsExact ==
  ASSUME Kept, TaskInv, TaskInv', TaskExact, UNCHANGED <<HeldFunding, HeldToken>>,
         NEW p \in Pollers, PassMoves(p)
  PROVE  TaskExact'
<1> SUFFICES ASSUME faults' = 0
             PROVE  /\ Shifted({"token", "quota"}, fundingPaid - HeldFunding)'
                    /\ IF playground' THEN tokenPaid' = 0
                                      ELSE Shifted({"quota"}, tokenPaid - HeldToken)'
  BY DEF TaskExact
<1>1. /\ Shifted({"token", "quota"}, fundingPaid - HeldFunding)
      /\ IF playground THEN tokenPaid = 0 ELSE Shifted({"quota"}, tokenPaid - HeldToken)
  BY PassSteps DEF TaskExact
<1>2. /\ actual' = actual /\ playground' = playground
      /\ task.status # "none" /\ task'.status # "none"
  BY PassFrames, PassKeepsExistence DEF PassFrame, progress, request
<1>3. /\ \A r \in Pollers \ {p} : ppc'[r] = ppc[r] /\ adj'[r] = adj[r]
      /\ Settling(p) => snap[p].quota = actual /\ task.quota = actual /\ \A r \in Pollers \ {p} : ~Settling(r)
  <2>1. \A r \in Pollers \ {p} : ppc'[r] = ppc[r] /\ adj'[r] = adj[r]
    <3>1. DOMAIN ppc = Pollers
      BY DEF TaskInv, RowInv, RowTypes
    <3> QED BY <3>1, PassSteps
  <2>2. Settling(p) => \A r \in Pollers \ {p} : ~Settling(r)
    BY DEF TaskInv, RowInv, SettlesAlone
  <2>3. Settling(p) => snap[p].quota = actual /\ task.quota = actual
    BY PassHasRead DEF TaskInv, RowInv, Settling
  <2> QED BY <2>1, <2>2, <2>3
<1> USE TaskFigures, TaskFiguresNext DEF Shifted, RowShift
<1>4. CASE /\ ppc[p] \notin {"token", "quota"} /\ ppc'[p] \notin {"token", "quota"}
           /\ UNCHANGED <<fundingPaid, tokenPaid>> /\ task'.quota = task.quota
  BY <1>1, <1>2, <1>3, <1>4
<1>5. CASE /\ ppc[p] = "funding" /\ ppc'[p] = "token" /\ UNCHANGED <<tokenPaid, task, adj>>
           /\ fundingPaid' = fundingPaid + TaskDelta(p)
  BY <1>1, <1>2, <1>3, <1>5 DEF Settling, TaskDelta
<1>6. CASE /\ ppc[p] = "token" /\ ppc'[p] = "quota" /\ UNCHANGED <<fundingPaid, task, adj>>
           /\ ChargeToken(TaskDelta(p))
  <2>1. Shifted({"token", "quota"}, fundingPaid - HeldFunding)'
    BY <1>1, <1>2, <1>3, <1>6 DEF Settling
  <2>2. CASE playground
    BY <1>1, <1>2, <1>6, <2>1, <2>2 DEF ChargeToken
  <2>3. CASE ~playground
    <3>1. tokenPaid - HeldToken = 0
      BY <1>1, <1>2, <1>3, <1>6, <2>3 DEF Settling
    <3>2. tokenPaid' - HeldToken' = adj'[p] - actual'
      BY <1>2, <1>3, <1>6, <2>3, <3>1 DEF TaskDelta, ChargeToken, Settling
    <3> QED BY <1>2, <1>3, <1>6, <2>1, <2>3, <3>2 DEF Settling
  <2> QED BY <2>2, <2>3
<1>7. CASE /\ ppc[p] = "quota" /\ ppc'[p] = "idle" /\ UNCHANGED <<fundingPaid, tokenPaid>>
           /\ task'.quota = adj[p]
  BY <1>1, <1>2, <1>3, <1>7 DEF Settling
<1> QED BY <1>4, <1>5, <1>6, <1>7, PassSteps

\* The submission moves what it holds and what is paid alike.
LEMMA SubmissionIsExact ==
  ASSUME TaskInv, TaskInv', TaskExact, HandlerStep \/ RefundStep \/ Crash, UNCHANGED <<job, pass>>
  PROVE  TaskExact'
<1> SUFFICES ASSUME faults' = 0 PROVE TaskExact'
  BY DEF TaskExact
<1>1. /\ faults = 0
      /\ fundingPaid' - HeldFunding' = fundingPaid - HeldFunding
      /\ tokenPaid' - HeldToken' = tokenPaid - HeldToken
  BY FundingStep, TokenStep, FaultsStay, TaskFigures DEF TaskInv, FundingMoves, TokenMoves
<1>2. UNCHANGED <<playground, actual, RowShift, ppc, adj>>
  BY SubmissionFrame DEF RowShift, job, row, pass
<1>3. (playground => HeldToken = 0) /\ (playground' => HeldToken' = 0)
  BY DEF HeldToken
<1> QED BY <1>1, <1>2, <1>3, TaskFigures, TaskFiguresNext DEF TaskExact, Shifted

\* The row is inserted with the price of the submission.
LEMMA InsertIsExact ==
  ASSUME TaskInv, TaskInv', TaskExact, Submitted \/ Insert
  PROVE  TaskExact'
<1>1. UNCHANGED <<HeldFunding, HeldToken, fundingPaid, tokenPaid, playground, ppc, adj>>
  BY SubmittedKeeps, InsertKeeps DEF Submitted, Insert, paid, request, pass
<1>2. faults' = 0 => faults = 0
  BY TaskFigures DEF Submitted, Insert, Ok, Fault
<1>3. RowShift = 0 /\ RowShift' = 0 /\ \A p \in Pollers : ppc[p] = "idle"
  <2>1. task.status = "none" /\ \A p \in Pollers : ppc[p] = "idle"
    BY NoRowNoPass DEF Submitted, Insert
  <2>2. task' = task \/ (task'.quota = actual /\ actual' = actual)
    BY WriteSays DEF Submitted, Insert, progress, row
  <2> QED BY <2>1, <2>2, TaskFigures DEF RowShift
<1> QED BY <1>1, <1>2, <1>3 DEF TaskExact, Shifted

\* Where no statement fails, a task that nobody is working on has cost what its
\* row says on both accounts, for any number of passes (under the proviso of
\* OnePassSettles).
THEOREM TaskBillingReconciled == ASSUME LiveFetch => KeepsEnd PROVE TaskSpec => []TaskReconciled
<1>0. Kept
  BY DEF Kept
<1>1. TaskInit => TaskExact
  BY DEF TaskInit, Init, TaskExact, Shifted, RowShift, Row, NoRow, HeldFunding, HeldToken
<1>2. TaskInv /\ TaskInv' /\ TaskExact /\ [TaskNext]_tvars => TaskExact'
  <2> SUFFICES ASSUME TaskInv, TaskInv', TaskExact, [TaskNext]_tvars PROVE TaskExact'
    OBVIOUS
  <2>1. CASE (HandlerStep \/ RefundStep \/ Crash) /\ UNCHANGED <<job, pass>>
    BY <2>1, SubmissionIsExact
  <2>2. CASE Submitted \/ Insert BY <2>2, InsertIsExact
  <2>3. CASE \E p \in Pollers : PassMoves(p)
    BY <1>0, <2>3, PassKeeps, PassIsExact DEF PassMoves
  <2>4. CASE UNCHANGED tvars
    BY <2>4, TaskStutter DEF TaskExact, Shifted, RowShift, tvars, vars, request, progress, paid, job, row, pass
  <2> QED BY <2>1, <2>2, <2>3, <2>4 DEF TaskNext, SubmitStep, PassMoves
<1>3. TaskInv /\ TaskExact => TaskReconciled
  <2> SUFFICES ASSUME TaskInv, TaskExact, task.status # "none", Quiet, faults = 0,
                      \A p \in Pollers : ~Settling(p)
               PROVE  /\ fundingPaid = task.quota
                      /\ tokenPaid = IF playground THEN 0 ELSE task.quota
    BY DEF TaskReconciled
  <2>1. pc = "done" /\ settled /\ rpc = "off"
    BY TaskFigures DEF TaskInv, SessionInv, EndsOnce, RowIsHeld, Quiet, Ended
  <2>2. HeldFunding = actual /\ HeldToken = IF playground THEN 0 ELSE actual
    BY <2>1 DEF TaskInv, SessionInv, NothingLeft, HeldFunding, HeldToken
  <2>3. fundingPaid - HeldFunding = task.quota - actual
    BY DEF TaskExact, Shifted, RowShift, Settling
  <2>4. IF playground THEN tokenPaid = 0 ELSE tokenPaid - HeldToken = task.quota - actual
    BY DEF TaskExact, Shifted, RowShift, Settling
  <2> QED BY <2>2, <2>3, <2>4, TaskFigures
<1> QED BY <1>1, <1>2, <1>3, TaskInvariant, PTL DEF TaskSpec

=============================================================================
