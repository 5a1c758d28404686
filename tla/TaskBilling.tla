---------------------------- MODULE TaskBilling ----------------------------
(***************************************************************************)
(* The charge of ONE asynchronous task, from its submission to its end:    *)
(* the submitting request with its billing session (controller/relay.go,   *)
(* module BillingSession), the row in the table tasks, and the passes that *)
(* follow the upstream and correct or refund the charge when the task ends *)
(* (service/task_polling.go, task_billing.go, model/task.go).              *)
(*                                                                         *)
(* Polling is a system task: one node polls at a time, but a pass that has *)
(* lost its lease may still be running beside the next one.  Two handlers  *)
(* of requests run a pass of their own beside them: the one that waits for *)
(* an image (controller/plugin_protocol_image.go) and the one that shows a *)
(* Gemini or Vertex video (relay/relay_task.go).  Every pass has read the  *)
(* row once and writes whole rows later, on condition of the status it has *)
(* read.  `actual` is the quota the submission was priced at.              *)
(***************************************************************************)
EXTENDS BillingSession

CONSTANTS
    Pollers,   \* passes that may run at the same time
    LiveFetch, \* the channel is one that tryRealtimeFetch asks: Gemini or Vertex
    KeepsEnd,  \* TRUE: no live fetch takes back what ending the task has written
    TimesOut   \* TASK_TIMEOUT_MINUTES is positive

ASSUME TaskAssumption == LiveFetch \in BOOLEAN /\ KeepsEnd \in BOOLEAN /\ TimesOut \in BOOLEAN

VARIABLES
    task,     \* the row: status and quota
    full,     \* the row's progress is "100%"
    outcome,  \* the status the upstream has answered the submission with
    ppc,      \* where a polling pass is with the task
    snap,     \* the row as the pass has read it
    adj       \* the quota the pass settles the task at

row   == <<task, full>>
job   == <<row, outcome>>
pass  == <<ppc, snap, adj>>
tvars == <<vars, job, pass>>

Unfinished == {"queued", "running"}
Terminal   == {"success", "failure"}

Row(s, q) == [status |-> s, quota |-> q]
NoRow == Row("none", 0)

\* A whole row is written.  An ended one says 100%; what an unfinished one says
\* is the upstream's affair.
Write(s, q) == task' = Row(s, q) /\ full' \in IF s \in Terminal THEN {TRUE} ELSE BOOLEAN

TaskInit ==
    /\ Init /\ forced
    /\ task = NoRow /\ full = FALSE /\ outcome = "none"
    /\ ppc = [p \in Pollers |-> "idle"]
    /\ snap = [p \in Pollers |-> NoRow]
    /\ adj = [p \in Pollers |-> 0]

-----------------------------------------------------------------------------
(* executeTaskSubmission, from the answer of the upstream to the row.      *)

\* The upstream has accepted the task, or even finished it; a task that has
\* failed at once costs nothing.  A price above the reservation is reserved.
Submitted ==
    /\ pc = "ready"
    /\ \E s \in {"queued", "success", "failure"}, q \in Prices, r \in BOOLEAN :
        /\ s = "failure" => q = 0
        /\ outcome' = s /\ actual' = q
        /\ \/ StartReserve(q, r, "insert")
           \/ Reserved(q, r) /\ pc' = "insert" /\ UNCHANGED <<moving, goal>>
    /\ UNCHANGED <<request, calls, price, plan, source, session, base, flags, refund, paid,
                   faults, row, pass>>

\* Mutant of Insert: an insert that reports an error may have been carried out.
InsertUncertain ==
    /\ pc = "insert"
    /\ \/ Ok /\ Write(outcome, actual) /\ pc' = "settle"
       \/ Fault /\ pc' = "refund" /\ (Write(outcome, actual) \/ UNCHANGED row)
    /\ UNCHANGED <<request, progress, moving, session, base, flags, refund, paid, outcome, pass>>

\* The row is the barrier: before it every failure is refunded, after it the
\* charge is the task's.
Insert ==
    /\ pc = "insert"
    /\ \/ Ok /\ Write(outcome, actual) /\ pc' = "settle"
       \/ Ok /\ pc' = "refund" /\ UNCHANGED row      \* the client has gone
       \/ Fault /\ pc' = "refund" /\ UNCHANGED row
    /\ UNCHANGED <<request, progress, moving, session, base, flags, refund, paid, outcome, pass>>

-----------------------------------------------------------------------------
(* A polling pass.                                                         *)

Goto(p, at) == ppc' = [ppc EXCEPT ![p] = at]

\* The pass is through with the task and forgets it.
Leave(p) ==
    /\ Goto(p, "idle")
    /\ snap' = [snap EXCEPT ![p] = NoRow]
    /\ adj' = [adj EXCEPT ![p] = 0]

\* Mutant of PollRead: the query misses the tasks that are running.
PollReadQueued(p) ==
    /\ ppc[p] = "idle" /\ task.status = "queued" /\ ~full
    /\ snap' = [snap EXCEPT ![p] = task]
    /\ Goto(p, "polled")
    /\ UNCHANGED <<vars, job, adj>>

\* GetTimedOutUnfinishedTasks and GetAllUnFinishSyncTasks: a row that says 100%
\* is in neither, whatever its status.
PollRead(p) ==
    /\ ppc[p] = "idle" /\ task.status \in Unfinished /\ ~full
    /\ snap' = [snap EXCEPT ![p] = task]
    /\ Goto(p, "polled")
    /\ UNCHANGED <<vars, job, adj>>

\* waitTaskPluginImageTask: between its rounds the submitting request keeps the
\* row in memory as it was inserted, with what its last round was answered.
ImageRound(p) ==
    /\ ppc[p] = "idle" /\ pc \in {"done", "unsettled"} /\ task.status # "none"
    /\ outcome = "queued"
    /\ \E s \in Unfinished : snap' = [snap EXCEPT ![p] = Row(s, actual)]
    /\ Goto(p, "updating")
    /\ UNCHANGED <<vars, job, adj>>

\* tryRealtimeFetch reads the row in any status and asks the upstream.  A task
\* that is finished there and not here is handed to UpdateVideoTasks.
FetchRead(p) ==
    /\ LiveFetch
    /\ ppc[p] = "idle" /\ task.status # "none"
    /\ snap' = [snap EXCEPT ![p] = task]
    /\ Goto(p, "fetched") \/ (task.status \in Unfinished /\ Goto(p, "updating"))
    /\ UNCHANGED <<vars, job, adj>>

\* Mutant of Won: the update is not conditional.
WonAlways(p) == task.status # "none"

\* UpdateWithStatus finds the row in the status that was read.
Won(p) == task.status = snap[p].status

\* A live fetch that finds the status s has read the row of a task that has ended,
\* and makes it unfinished again or brings back the quota from before its end.
Undoes(p, s) ==
    snap[p].status \in Terminal /\ (s \in Unfinished \/ snap[p].quota # task.quota)

\* In any other case tryRealtimeFetch writes the upstream's status and progress
\* over the row, an ended one too, and with them the quota it has read.
FetchWrite(p) ==
    /\ ppc[p] = "fetched"
    /\ \/ /\ Ok /\ Won(p)
          /\ \E s \in Unfinished \cup Terminal :
                /\ snap[p].status \in Unfinished => s \in Unfinished
                /\ KeepsEnd => ~Undoes(p, s)
                /\ Write(s, snap[p].quota)
       \/ (Ok \/ Fault) /\ UNCHANGED row
    /\ Leave(p)
    /\ UNCHANGED <<request, pc, progress, moving, session, base, flags, refund, paid, outcome>>

\* The pass is at updateVideoSingleTask or the batch with its row.
Updating(p) == ppc[p] \in {"polled", "updating"}

\* The upstream is still at work, or did not give a usable answer: the pass
\* writes its whole row back, unless nothing in it has changed.
PollProgress(p) ==
    /\ Updating(p)
    /\ \/ Ok /\ Won(p) /\ \E s \in Unfinished : Write(s, snap[p].quota)
       \/ (Ok \/ Fault) /\ UNCHANGED row
    /\ Leave(p)
    /\ UNCHANGED <<request, pc, progress, moving, session, base, flags, refund, paid, outcome>>

\* The task is settled at q: nothing is left to do when that is its quota.
SettleAt(p, q) ==
    IF q = snap[p].quota THEN Leave(p)
    ELSE /\ adj' = [adj EXCEPT ![p] = q]
         /\ Goto(p, "funding")
         /\ UNCHANGED snap

\* finalizeTerminalTask: a successful task keeps its quota or is settled by its
\* usage, a failed one is refunded unless the adaptor has priced it.
Finalize(p) == \E q \in Prices : SettleAt(p, q)

\* The upstream has finished the task, it is gone there, or too many polls have
\* failed: who wins the update settles the charge.
PollTerminal(p) ==
    /\ Updating(p)
    /\ \E s \in Terminal :
        \/ /\ Ok /\ Won(p)
           /\ Write(s, snap[p].quota)
           /\ Finalize(p)
        \/ /\ (Ok /\ ~Won(p)) \/ Fault
           /\ Leave(p) /\ UNCHANGED row
    /\ UNCHANGED <<request, pc, progress, moving, session, base, flags, refund, paid, outcome>>

\* sweepTimedOutTasks: failed and refunded.
Sweep(p) ==
    /\ TimesOut
    /\ ppc[p] = "polled" /\ Won(p)
    /\ Ok
    /\ Write("failure", snap[p].quota)
    /\ SettleAt(p, 0)
    /\ UNCHANGED <<request, pc, progress, moving, session, base, flags, refund, paid, outcome>>

\* TaskBulkUpdateByID: without channel or upstream id the task is failed,
\* whatever its status is by now, and its charge is left alone.
BulkFail(p) ==
    /\ Updating(p)
    /\ \/ Ok /\ Write("failure", task.quota)
       \/ Fault /\ UNCHANGED row
    /\ Leave(p)
    /\ UNCHANGED <<request, pc, progress, moving, session, base, flags, refund, paid, outcome>>

TaskDelta(p) == adj[p] - snap[p].quota

\* taskAdjustFunding; when it fails the charge stays as it was.
AdjustFunding(p) ==
    /\ ppc[p] = "funding"
    /\ \/ /\ Ok /\ fundingPaid' = fundingPaid + TaskDelta(p)
          /\ Goto(p, "token") /\ UNCHANGED <<snap, adj>>
       \/ /\ (Ok /\ source = "subscription" /\ TaskDelta(p) > 0) \/ Fault
          /\ Leave(p) /\ UNCHANGED fundingPaid
    /\ UNCHANGED <<request, pc, progress, moving, session, base, flags, refund, tokenPaid, job>>

\* taskAdjustTokenQuota, whose errors are logged.
AdjustToken(p) ==
    /\ ppc[p] = "token"
    /\ \/ Ok /\ ChargeToken(TaskDelta(p))
       \/ Fault /\ ~playground /\ UNCHANGED tokenPaid
    /\ Goto(p, "quota")
    /\ UNCHANGED <<request, pc, progress, moving, session, base, flags, refund, fundingPaid,
                   job, snap, adj>>

\* Mutants of UpdateQuota: the row gets the difference; it keeps its quota.
UpdateDifference(p) ==
    /\ ppc[p] = "quota"
    /\ Ok /\ task' = Row(task.status, TaskDelta(p)) /\ UNCHANGED full
    /\ Leave(p)
    /\ UNCHANGED <<request, pc, progress, moving, session, base, flags, refund, paid, outcome>>
UpdateNothing(p) ==
    /\ ppc[p] = "quota"
    /\ Leave(p)
    /\ UNCHANGED <<vars, job>>

UpdateQuota(p) ==
    /\ ppc[p] = "quota"
    /\ \/ Ok /\ task' = Row(task.status, adj[p]) /\ UNCHANGED full
       \/ Fault /\ UNCHANGED row
    /\ Leave(p)
    /\ UNCHANGED <<request, pc, progress, moving, session, base, flags, refund, paid, outcome>>

\* The node that polls dies, or its pass is cancelled.
PassEnds(p) ==
    /\ ppc[p] # "idle" /\ Fault
    /\ Leave(p)
    /\ UNCHANGED <<request, pc, progress, moving, session, base, flags, refund, paid, job>>

PassStep(p) ==
    \/ FetchWrite(p) \/ PollProgress(p) \/ PollTerminal(p) \/ Sweep(p) \/ BulkFail(p)
    \/ AdjustFunding(p) \/ AdjustToken(p) \/ UpdateQuota(p)

SubmitStep == (HandlerStep /\ UNCHANGED <<job, pass>>) \/ Submitted \/ Insert

PassBegins(p) == PollRead(p) \/ ImageRound(p) \/ FetchRead(p)

TaskNext ==
    \/ SubmitStep
    \/ (RefundStep \/ Crash) /\ UNCHANGED <<job, pass>>
    \/ \E p \in Pollers : PassBegins(p) \/ PassStep(p) \/ PassEnds(p)

TaskSpec == TaskInit /\ [][TaskNext]_tvars

\* Passes are scheduled again and again and run to their end, as do the handlers
\* of requests, which nobody needs to send; a task that has timed out is swept by
\* every pass, and two passes do not keep changing its status between each
\* other's read and update for ever.
TaskFairness ==
    /\ WF_tvars(SubmitStep)
    /\ WF_tvars(RefundStep /\ UNCHANGED <<job, pass>>)
    /\ \A p \in Pollers :
        /\ WF_tvars(PassStep(p))
        /\ SF_tvars(PollRead(p))
        /\ SF_tvars(Sweep(p))

TaskFairSpec == TaskSpec /\ TaskFairness

-----------------------------------------------------------------------------
(* Properties.                                                             *)

\* A row has a status and a price, and a pass is at one of its steps with a row
\* it has read.
TaskTypeOK ==
    /\ TypeOK
    /\ task \in [status : {"none"} \cup Unfinished \cup Terminal, quota : Prices]
    /\ full \in BOOLEAN
    /\ outcome \in {"none", "queued"} \cup Terminal
    /\ ppc \in [Pollers -> {"idle", "fetched", "updating", "polled", "funding", "token", "quota"}]
    /\ snap \in [Pollers -> [status : {"none"} \cup Unfinished \cup Terminal, quota : Prices]]
    /\ adj \in [Pollers -> Prices]

\* The pass has won the update that ends the task and is at its charge.
Settling(p) == ppc[p] \in {"funding", "token", "quota"}

\* Where no statement fails, a task that nobody is settling has cost, on both
\* accounts, exactly the quota its row says: the submission's settlement, the
\* passes that end the task and the requests that read it may overlap in any
\* way, and each moves the charge by its own difference once.  This, SettlesAlone
\* and RefundedOnce need KeepsEnd on the channels with a live fetch.
TaskReconciled ==
    /\ task.status # "none" /\ Quiet /\ faults = 0
    /\ \A p \in Pollers : ~Settling(p)
    => /\ fundingPaid = task.quota
       /\ tokenPaid = IF playground THEN 0 ELSE task.quota

\* A task ends once: of all the passes that see it finished, time out or give
\* it up, one settles or refunds its charge.
SettlesAlone == \A p, r \in Pollers : Settling(p) /\ Settling(r) => p = r

\* A task does not stay unfinished for ever: whatever the upstream answers, and
\* whichever pass dies, it ends, unless the upstream reports 100% of a task that
\* it does not call finished: such a row is out of every pass's sight.
TaskEnds == task.status \in Unfinished ~> task.status \in Terminal \/ full

=============================================================================
