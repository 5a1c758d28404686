# TLA+ models of the new-api gateway

new-api is a gateway in front of AI providers: it authenticates users and API
tokens, selects a channel, relays the request, and bills it against a wallet or a
subscription. Several nodes (Go) share one SQL database and one Redis; a
dashboard (TypeScript, React) runs in the tabs of a browser. The models cover the
parts whose correctness depends on the order in which nodes, goroutines,
statements, tabs, timers and answers act.

## 1. Inventory

| Component | State | Operations | Interacts with | What is hard | What makes it correct | Module |
|---|---|---|---|---|---|---|
| System-task framework (`model/system_task.go`, `service/system_task.go`, `controller/system_task*.go`) | task rows, one lease row per type; per node a pass loop, per task a handler and a heartbeat | create, schedule, claim, renew, finish, release, reap, purge | log cleanup, channel tests, model updates, polling | no transaction spans two statements; timestamps older than the statements that use them; crashes | one execution per task, exact `active_key`, no running row without lease row, final results, every task ends | `SystemTask` |
| User authentication cache (`model/user_auth_cache.go`, `user_cache.go`) | per user: hash, fence, floor in Redis; `auth_version` in SQL | fence, increment, publish, read through, field update | every authenticated request | delayed fills, rolled-back transactions, expiring keys | no stale snapshot authorizes after a committed restriction | `UserAuthCache` |
| Sessions (`model/user_session.go`, `service/auth_session.go`, `controller/auth_session.go`) | session rows with a refresh chain; hash in Redis | login, rotate, advance, revoke, read | dashboard client, user auth version | concurrent refreshes, lost answers, cache writes after the tombstone has expired | bounded staleness, a published revocation is final, the browser's own tokens are never taken for stolen ones | `AuthSession`, `UserSessionCache` |
| Dashboard authentication client (`web/src/lib/auth-session*.ts`, `stores/auth-store.ts`, `routes/`) | per tab: store, epoch, refresh in flight; shared: cookie, browser lock, channel | refresh, recover, sign in, sign out, hear of other tabs | session endpoints | answers after something newer, tabs waiting for each other | a signed-out session never comes back, every refresh and sign-out ends | `AuthSession` |
| Billing session (`service/billing_session.go`, `funding_source.go`, `billing.go`) | reserved amounts, settled/refunded flags | pre-consume, reserve, settle, asynchronous refund | wallet, subscription, token | each of several statements may fail; refund after the handler | both accounts end at the price, or at zero after a refund | `BillingSession`, `QuotaLedger` |
| Asynchronous tasks (`service/task_polling.go`, `task_billing.go`, `model/task.go`, `controller/relay.go`) | task rows | submit, poll, sweep, fail in bulk, adjust the charge | billing session, system tasks | two passes and the submission move the same accounts | a task is settled once, costs what its row says, and ends | `TaskBilling` |
| Token quota and token cache (`model/quota_reserve.go`, `token.go`, `token_cache.go`, `utils.go`) | SQL balance, Redis hash and fence, batch in memory | reserve, adjust, flush, validate, mutate | billing, token administration | the cached balance decides, the row follows; batches die with the process | charges reach the row once; overspending only where a fill overlaps a charge; no stale token after a mutation | `TokenQuota` |
| Playground chat (`web/src/features/playground`) | conversation, request in flight, buffered pieces, copy in localStorage | send, stop, regenerate, edit, delete, clear, save, load | relay endpoint | updates that React evaluates later, overtaken answers, reloads | a message holds its own answer, none waits for ever, the copy follows the screen | `Playground` |
| Subscription quota (`model/subscription.go`) | subscription rows, pre-consume records | pre-consume, refund, reset, expire | billing, payments | nested transactions | one refund per request | part of `BillingSession` |
| Payments, redemption, check-in (`model/topup.go`, `redemption.go`, `checkin.go`) | orders, codes | complete, redeem | wallet | duplicated callbacks | one credit each | no |
| Channel selection, cache, affinity | channel cache, abilities | refresh, select, disable | relay | refresh races | a disabled channel is not selected after the refresh | no |
| Relay and adaptors | per request | convert, retry, stream | billing, channels | partial output | one settlement per request | no (`Succeed` and `Submitted` are its outcomes) |
| Rate limiting, settings, plug-ins, identities, Midjourney, statistics, the rest of the clients | | | | | | no |

Section 11 says why the last rows are left out.

## 2. Modules

| Module | Kind | Uses |
|---|---|---|
| `SystemTask`, `UserAuthCache`, `UserSessionCache`, `AuthSession`, `TokenQuota`, `Playground` | one component each | |
| `QuotaLedger` | abstract specification of one account of a billing session | |
| `BillingSession` | the session, shown to implement `QuotaLedger` twice | `INSTANCE QuotaLedger` |
| `TaskBilling` | composition: submission with its session, task row, polling passes | `EXTENDS BillingSession` |
| `MC...` | instances for TLC | their component |
| `...Proofs` | theorems checked by TLAPS | their component |

Conventions. A step is one SQL statement or transaction commit, one Redis script,
or one JavaScript callback. A statement that fails changes nothing and costs one
of `MaxFaults`; a statement that is applied although the client sees an error is
modelled nowhere (`InsertUncertain` in `TaskBilling` shows what one such case
would do). Names `Max...` and `Turns` are bounds of the instances. Variables and
fields called history in a comment exist for the properties only. `CHECK_DEADLOCK
FALSE` is set in every run: bounds, and the absence of work, let each system rest.

## 3. SystemTask

`task` is the table `system_tasks` (status, type, whether `active_key` is set,
`locked_by`), `lock` the table `system_task_locks`. Of `locked_until` a lease
keeps whether it has passed; because a claim and a reaping pass compare it with a
timestamp taken earlier, `overdue[r]` is the set of types whose lease had expired
by the timestamp runner `r` holds. Renewing and finishing also take a timestamp
(`RenewStart`, `FinishStart`) before their statement (`RenewCommit`,
`FinishCommit`). `pc`, `stale`, `due`, `found`, `cur`, `old` are the locals of the
pass loop, `handler` and `beat` the goroutines of a claimed task, `purge` the
snapshot of `DeleteSystemTaskHistory`.

| Code | Actions |
|---|---|
| `ExpireStaleSystemTaskLocks`, `MarkSystemTaskLeaseExpired` | `ExpireSelect`, `ExpireMark`, `ExpireDelete` |
| `runSystemTaskScheduler`, `CreateSystemTask` | `ScheduleSelect`, `ScheduleCreate` |
| `EnqueueSystemTask`, `StartLogCleanupTask` | `Enqueue` |
| `runSystemTaskClaimPass`, `ClaimSystemTask`, `acquireSystemTaskLock` | `ClaimSelect`, `ClaimRead`, `LockInsert`, `LockExisting`, `LockTakeover`, `ClaimRetire`, `ClaimPromote`, `ClaimAbandon`, `ClaimDispatch` |
| `runWithLeaseHeartbeat`, `RenewSystemTaskLock` | `RenewStart`, `RenewCommit` |
| `FinishSystemTask`, `ReleaseSystemTaskLock` | `FinishStart`, `FinishCommit`, `FinishRelease` |
| a handler that returns without finishing, or panics | `HandlerQuits` |
| `DeleteSystemTaskHistory` | `PurgeSelect`, `PurgeDelete` |
| passing time; death of a process | `LeaseExpires`, `Crash` |

Left out: payload, state and result texts; whether a handler is enabled and its
interval has elapsed (a free choice). A restarted node draws a new random runner
id, so a crashed runner never comes back. With `MaxTask` rows in use a runner that
wants to create one waits at that step; in the code it would go on.

`PromptClaim` says that no claim outlasts the lease it has just written (minutes
against a handful of statements). The code does not enforce it. With
`PromptClaim = FALSE` TLC finds `PendingEnds` violated: the reaper deletes the
lease of a stalled claim, the promotion does not look at the lease, and the row is
then running without a lease row, which is the only way the reaper finds tasks; the
row and the key of its type stay taken.

Runs: `safety` (2 nodes, 1 type, 2 rows of which one is a pending row that
predates `active_key`, 1 failure) checks `TypeOK`, `ActiveKeyExact`,
`DispatchedOnce`, `RunningHasLease`, `TerminalIsFinal`, `LiveLeaseIsKept`.
`liveness` (2 nodes, one never killed, 1 row, 2 failures) checks `PendingEnds`.
`history` (1 node, 2 types, 2 rows, 2 purges) checks `PurgeKeepsLatest`. Two nodes
and two rows are the smallest instance in which one node acts on what another has
changed meanwhile, in which a late release or reaper meets the next task of the
type, and in which a takeover concerns another task; two types matter only in the
history.

Not promised by the code, and not stated as a property: a renewal that commits
between the reaper's query and its update does not save the task.

Fairness: a node that is not killed keeps executing its loop and goroutines (weak);
the stale-lease pass comes due again and again (strong fairness of
`ExpireSelect`, which a ticker throttles); handlers return; the lease of a holder
that no longer renews it expires.

## 4. UserAuthCache

One user. `ver` and `row` are the committed row, `txn` the request whose
transaction holds its lock; `hash`, `fence`, `floor` are the three Redis keys. A
snapshot is its version, since whatever restricts a user is written in the
transaction that increments it. `snap[p]` is the version request `p` has in hand,
`since[p]` (history) the version committed when it began.

| Code | Actions |
|---|---|
| `GetUserCache`, `cacheGetUserBase`, `populateUserCache` | `ReadHash`, `CheckFloor`, `LoadRow`, `Gate`, `Fill`, `Return` |
| `IncrementUserAuthVersionWithTx` and the transaction around it | `TxLock`, `TxFence`, `TxCommit`, `TxRollback` |
| `PublishUserAuthCache`, `updateUserCache`, `ClearBinding` | `RefreshStart`, `Reread`, `Refresh` |
| `publishCommittedUserAuthVersion`, `invalidateUserCache` | `Tombstone`, `Invalidate` |
| `updateUserCacheField`, `updateUserCacheFieldAtVersion` | `FieldSelect`, `FieldWrite` |
| TTLs; death of a process | `HashExpires`, `FenceExpires`, `Crash` |

A fence does not expire before a hash older than it, because its TTL is at least
twice that of a hash. Two assumptions on timing are constants: `PromptTx`, no
transaction outlives the fence it has published; `PromptFill`, no request keeps a
stale snapshot in hand that long. With `PromptFill = FALSE` TLC finds
`NoStaleAnswer` violated: when the publication after a commit is lost or late and
the fence expires, a fill that read the row before the change is accepted.

Run `userAuth`: 2 requests at a time, 3 security changes, 2 failures; `TypeOK`,
`NoStaleAnswer`, `StaleIsFenced`, `FloorIsCommitted`, and `LockoutEnds` under
fairness (a request that has begun is carried on; keys with a TTL expire). A
request that returns makes room for the next one, so that reader, delayed writer
and transactions all meet although only two are in progress at a time; three
changes let an old publication meet the fence of a newer transaction after another
one has been published.

Left out: `RefreshUserGroupCache` (the group changes without a new version), the
`Quota` field, Redis disabled or evicting keys, SQLite (no row locks).

## 5. AuthSession

The tabs of one browser, the cookie they share, the requests under way and the
session rows. `page[t]` is the memory of a tab: the session in the store, whether
its access token is fresh, the bootstrap state, the refresh runner (`run`), whether
`authEpoch` still is the runner's (`current`), the race and recovery counters, a
request waiting at the 401 interceptor (`api`), login or sign-out (`op`). `queue`
is the Web Lock, `net` the set of requests with the phase they are in, `inbox` the
cross-tab events not delivered, `row` the session rows. A refresh token is its
session and its generation: the successor is derived from the token presented.

Reading the row, the compare-and-swap and the answer are separate steps of the
server (`Serve`), the answer and its `Set-Cookie` one step of the browser
(`Deliver`), even for tabs that have been reloaded since. Any statement of a refresh
may fail (`ServeFails`): when it is the one that reads the session, the answer is a
401 that clears the cookie (`unread`), else a 500. `PromptRetry` says that the
browser does not present an answered token again after the 30 s replay window.

Runs: `tabs` (2 tabs, 2 sessions, Web Locks, 2 turns, symmetry of tabs) checks
`TypeOK`, `TabsKeepSession`, `NeverBack`; `tabsLiveness` (1 session, with and
without locks, 1 turn, replay after the window allowed) checks `RefreshEnds`,
`LogoutEnds`, `SignedOutWhereUsed`. A turn is a sign-out, a further login, a reload,
a token expiry, a failed request or statement or a revocation by others; all of them
are followed to the end, so two turns give every pair of them in every order.

Fairness: the server serves and the browser delivers, per tab and kind of request,
and the code of a tab goes on. Users, clocks and faults owe nothing. No fairness is
assumed of calls of the API, since few pages poll and a window that gets the focus
fetches nothing: that a tab goes on using the API is a premise of
`SignedOutWhereUsed`, and a tab that does not may show an ended session for ever.

Where the code falls short of its documents: `docs/authentication.md:72` says that
after a temporary failure of the server the refresh may be tried again
(网络或服务端临时故障允许后续导航重试 refresh) and that a browser becomes anonymous
only when the server has confirmed the cookie to be invalid. A lookup of the session
that fails with any error but "inactive" is turned into `ErrRefreshTokenInvalid`
(`service/auth_session.go:243`), which is answered 401 and clears the cookie of an
active session. `TabsKeepSession` excepts that answer; every other 401 it covers.

What the model showed on the way, none of it promised otherwise by the code:
without Web Locks `TabsKeepSession` does not hold, since a refresh served after two
rotations of another tab is refused with 401, which clears the shared cookie; a
sign-out with an expired access token and an unknown cookie reports success without
revoking anything; the answer `AUTH_REFRESH_RACE` is never sent, because the row's
token always is the successor of its previous one, so the client's race retries are
a reserve; a session revoked between lookup and rotation is answered with 500.

Left out: the Redis copy of the rows (next section), `applyAuthRotation`, the
`applyAuthBundle` of the OAuth callback page, secure verification, session limits.

## 6. UserSessionCache

One session row (`active`, `version`, `holder` of its lock), its hash (`status`,
`cached`, `exp`) and requests that read it through the cache, refresh it, advance
its version or revoke it in one of three ways. Unlike the user's cache it has no
floor: what keeps stale snapshots out are clocks. The model therefore has a clock
`now` that may move between any two steps. `cacheDeadline` is taken before the row
is read (`TakeDeadline`), a snapshot expires at that deadline, and a deny entry
CacheTTL after it was written.

| Code | Actions |
|---|---|
| `GetUserSessionCached` | `ReadCache`, `LoadRow`, `CacheDenied`, `Filled`, `Finish` |
| `writeUserSessionCache` | `CheckDeadline`, `Fill` |
| `confirmUserSessionActiveSnapshot` | `Confirm` |
| `RotateUserSessionRefresh`, `AdvanceUserSessionAuthVersion` | `BeginChange`, `SwapRefresh`, `AdvanceVersion` |
| `RevokeUserSession` and the bulk revocations | `RevokeRead`, `Fence`, `Commit`, `Tombstone` |
| time; death of a request | `Tick`, `Crash` |

Run `sessionCache`: 2 requests, CacheTTL 2, expiry at 5, 2 versions, 1 failure,
clock to 5, symmetry of requests: long enough for a tombstone to be written, to
expire, and for an older fill to arrive after it. `BoundedStaleness` is the promise
of the code's comments (a stale snapshot cannot outlive the tombstone);
`SealedIsFinal` is stronger, for revocations whose tombstone was published.

Limits of the promise that the model makes visible: after a fence has expired an
advance may cache a newer version, which refuses the tombstone and leaves an active
entry for at most CacheTTL; after an advance a delayed fill of the older version
may be served as long. Left out: the cache write of `CreateUserSession`, retention
and limits, the single-use login flows.

## 7. BillingSession, QuotaLedger, TaskBilling

`BillingSession` is one request: opening with the sources of the user's billing
preference in order, the trust bypass, top-ups before a retry, settlement, and the
refund goroutine (`rpc`) with its three attempts. The accounts are kept as what the
request has been charged on them (`fundingPaid`, `tokenPaid`); whether a balance
covers an amount depends on others and is a free choice.

| Code | Actions |
|---|---|
| `NewBillingSession`, `preConsume`, `shouldTrust` | `NewBillingSession`, `NextSource`, `TryWallet`, `TrySubscription`, `PreConsumeToken`, `PreConsumeFunding`, `RollBackToken` |
| `Reserve`, `reserveFunding`, its rollback | `Reprice`, `ReserveFunding`, `ReserveToken`, `RollBackFunding` |
| the handler's result | `Fail`, `Succeed` |
| `Settle` | `Settle`, `SettleToken` |
| `Refund` and its goroutine, `refundWithRetry` | `Refund`, `RefundWallet`, `RefundSubscription`, `RefundExtra`, `RefundToken` |
| death of the process | `Crash` |

`QuotaLedger` is what the session promises about one account: reserve and give back
while it is open, then one settlement or refund, then nothing. The refinement is
checked for both accounts (`FundingImplementsLedger`, `TokenImplementsLedger`):
`held` is computed from the session's fields, `open` from its flags and the
progress of the refund. What a failed rollback leaves behind is the only thing the
ledger allows to go astray.

Run `billing` (prices 0..3, 3 priced attempts, 3 failures): the refinement,
`Reconciled` (exact amounts when no statement fails), `FailureIsFree` under
fairness (handlers and goroutines run to their end unless the process dies). Three
failures are needed to exhaust the attempts of the refund, three attempts for a
top-up after a top-up.

Finding, run `retriedRefund` (`TxSaves = FALSE`): the refund of a subscription runs
in a nested transaction of its own; when saving the record fails after it, the
retry refunds again. The comment in the code calls the refund idempotent.

`TaskBilling` composes the session with the task row and the passes that follow the
upstream. Polling is a system task, but a pass that has lost its lease may run
beside the next one, and two handlers run passes of their own, so two passes act at
once on snapshots read earlier.

| Code | Actions |
|---|---|
| `executeTaskSubmissionWith`, `RelayTaskSubmit` | `Submitted`, `Insert` |
| `RunTaskPollingOnce`, `GetAllUnFinishSyncTasks`, `GetTimedOutUnfinishedTasks` | `PollRead` |
| `waitTaskPluginImageTask` (the request that waits for its image) | `ImageRound` |
| `tryRealtimeFetch` (the request that shows a Gemini or Vertex video) | `FetchRead`, `FetchWrite` |
| `updateVideoSingleTask`, the batch, `recordPollFailure` | `PollProgress`, `PollTerminal` |
| `sweepTimedOutTasks`, `TaskBulkUpdateByID` | `Sweep`, `BulkFail` |
| `RecalculateTaskQuota`, `RefundTaskQuota` | `AdjustFunding`, `AdjustToken`, `UpdateQuota` |
| death of the node or cancellation of the pass | `PassEnds` |

`full` says that the progress of the row is 100%. The upstream's answer decides it,
also for a task it does not call finished, and the queries of the passes skip such a
row.

Run `task` (2 passes, prices 0..2, 1 failure, all kinds of passes, a timeout):
`TaskReconciled`, `SettlesAlone`, `RefundedOnce`, and `TaskEnds` under fairness
(passes are scheduled again and again; a task that timed out is swept; two passes do
not overtake each other for ever; nothing is assumed of requests). `TaskEnds` needs
`TASK_TIMEOUT_MINUTES > 0` (`TimesOut`; otherwise nobody sweeps) and says `\/ full`:
a row that reports 100% while it is unfinished leaves every pass, and stays as it is.
A bulk failure does not compare the status and moves no quota: it can overwrite a
finished task and it leaves the charge, with the row's quota, which `TaskReconciled`
therefore still relates to the accounts.

Where the code falls short of its comments: `tryRealtimeFetch` reads the row in any
status and hands a task that has just finished to the poller, "so that happens once"
(`relay/relay_task.go:578`). In every other case it writes the status of the
upstream and the whole row it has read, on condition of the status alone. When the
row had ended and the upstream answers an unfinished status (a sweep or a bulk
failure ended a task the upstream still works on), the row is unfinished again, is
polled, and is settled or refunded a second time; when the status stays and the quota
was settled in between, the older quota comes back. `KeepsEnd` excludes both. With
`KeepsEnd = FALSE` TLC finds `RefundedOnce` violated, without a failure and with
price 1: a pass ends the task and gives its quota back, a live fetch that read the row
just before the pass has written the new quota makes it unfinished again, and the next
pass ends it and gives the same quota back.

Left out: models that are free and the path without a session; periodic resets of
a subscription between reservation and refund; rows without billing data; tasks
submitted before `TaskRefundLegacyCutoff`, which the sweep ends without a refund and
with quota 0; an insert that commits but reports an error (`model/task.go`), which
would refund a task that runs: it is the mutant `InsertUncertain`.

## 8. TokenQuota

One token: its row, its hash, the mutation fence, the batch in memory and the one
being flushed, the goroutines that adjust the hash (`ups`, `downs`), and requests.

| Code | Actions |
|---|---|
| `TryReserveTokenQuota`, `cacheInitToken`, `persistTokenQuotaDelta` | `TryReserve`, `LoadRow`, `InitToken`, `ReserveDB`, `Persist`, `Compensate` |
| `IncreaseTokenQuota`, `DecreaseTokenQuota` | `Adjust`, `ApplyDelta`, `DropDelta`, `AdjustRow` |
| `batchUpdate` | `Swap`, `Flush` |
| `ValidateUserToken`, `GetTokenByKey` | `Validate`, `ValidateUncached` |
| `UpdateToken`, `Update`, `SelectUpdate`, `Delete` | `MutateRead`, `Fence`, `Drop`, `WriteRow` |
| TTLs; death of a node | `HashExpires`, `FenceExpires`, `Crash` |

Run `tokenQuota` (2 requests at a time, quota 1, 2 charges, 1 mutation, 1 failure,
with and without batching, symmetry of requests): `Balanced` says that cache
trouble never costs or gives a unit, `NoOverspend` that grants exceed the quota
only by units which `excess` counts where a snapshot of the row misses a charge,
`NoStaleToken` that a mutation whose invalidation succeeded is seen by every later
request (under `PromptFence`, which the comment on `tokenCacheFenceSeconds`
demands). Quota 1 and two charges are the smallest overspend.

Overspending does happen, and the properties say where: reservations do not extend
the hash's TTL, so a hash that expires is filled from a row which lacks charges on
their way or batched; a reservation falls back to the row while the hash is intact;
an asynchronous increase may reach a hash that was filled after the row had it.
`Update` writes `remain_quota` back from the row it read, for a status change too.
The wallet runs the same code over the user's hash and is not modelled again.

## 9. Playground

`msgs` and `ui` are what is rendered, `box` the updates that are queued with
`latestMessagesRef` and the debounced save, `stored` the copy in localStorage,
`gen` and `buf` the request generation and the buffered pieces, `cgen` and `source`
the state of the stream controller, `reqs` every request with its phase and the
pieces delivered. Of a text the model keeps which pieces of which answer it has;
`Text` says what the pieces say, since a chunk that begins with all of the text
buffered (`mergePendingStreamChunk`) or shown (`getAppendableChunk`) before it is
taken for a newer copy of that text (`Repeats`, `Merged`, `Appendable`).

| Code | Actions |
|---|---|
| `handleSendMessage`, `handleRegenerateMessage`, `applyEdit`, with `sendChat` | `HandleSendMessage`, `HandleRegenerateMessage`, `ApplyEdit` |
| `handleDeleteMessage`, `handleClearMessages`, `handleEditMessage`, `handleEditOpenChange` | the actions of the same names |
| `createStreamRequestController` | `Headers`, `StreamPiece`, `StreamDone`, `StreamError`, `StreamEnds` |
| `sendNonStreamingChat` after its `await` | `Response` |
| `scheduleStreamFlush`, `flushStreamUpdates` | `FlushTimer` |
| `stopGeneration` | `StopGeneration` |
| `persistMessages`, `saveMessages`, `loadMessages`, the effects' clean-up | `SaveTimer`, `Mount`, `Unmount` |
| another tab of the same user | `OtherTab` |
| React | `Render` |

A click is handled and rendered in one step, because React flushes everything that
is queued after a discrete event. An update from a timer or an answer is queued;
React evaluates the first update of an empty queue at once or not (`eager`). An
update function looks at `requestGenerationRef` when it is evaluated, and persists
its result then.

A save may fail or find no user, and is not tried again; a load may fail, which shows
an empty conversation and leaves the copy or removes it; another tab may write the
same key. `synced` says that none of this has happened since the page last loaded or
saved.

Run `playground` (the request of the stored conversation and two more, three
pieces, one edit, deletion or clearing, two pages, three stored messages; the second
answer repeats itself, the third does not): `OwnAnswer`, `Settled`, `Saved`. Two
requests are needed for an answer to be overtaken, two pieces for one to be lost or
doubled, two pages for a reload in the middle of an answer, and a conversation of
four messages for the copy to be trimmed.

Limits the model makes visible: an answer whose text repeats from its beginning loses
what it repeats, or not, depending on when the buffer was flushed (`Stutters`; without
this exemption `OwnAnswer` fails); a failed save is not repeated before the next
change, and two tabs overwrite each other's copy; stopping may drop the pieces of the last 50 ms;
an edit that is saved while updates wait to be rendered puts the rendered
conversation back and can lose pieces or leave a message waiting (`raced`, which
the properties exempt; without the exemption `Settled` fails); a stream that ends
with status 200 and without `[DONE]` keeps generating until the user stops it; a
reload or a sign-out within the 500 ms of the debounce loses the latest changes;
only the last empty unfinished message is repaired on load.

Left out: reasoning and timing, the removal and truncation of stored messages by size,
the tags in which some models put their reasoning, acting before the 0 ms load timer, an account
adopted in place by the authentication client, parameters and model options.

## 10. Mutants and proofs

Each property of a passing run has a mutant of a modelled definition (`Mutant of
...` in the modules) that breaks it: a missing unique index, a dropped status
check, a release by type, a TTL that starts too late, a buffer that is not emptied.

Each `...Proofs` module proves its theorems for every value of the constants of the
module it extends; the bounds of the runs play no part. The pattern is the same
everywhere: an inductive invariant, checked by TLC on the run's instance first, a
lemma per action (or per kind of step, where many actions do the same to the state
the invariant is about), and theorems that read the checked property off it.

`SystemTaskProofs`, for every set of runners and types and every bound:

* `TypeCorrect`: `Spec => []TypeOK`. `TypeOK` is not inductive by itself: that a
  lease or a local names an inserted row of the right type (`Shape`) is carried
  along. `TaskEvolves` and `LockStep` say what a step can do to one row of either
  table; the later proofs use only these two lemmas.
* `TerminalCorrect`: `Spec => TerminalIsFinal`, from `TaskEvolves`.
* `ActiveKeyCorrect`: only an insert creates a key (`KeyStep`), guarded by the
  unique index.
* `DispatchedOnceCorrect`: by the invariant `Owner`, that `locked_by` of a promoted
  row names the only runner that has, or is about to start, a handler for it. Leases
  and timing play no part: the conditional promotion gives single execution.
* `RunningHasLeaseCorrect`, `LiveLeaseKeptCorrect`, under `PromptClaim` (no claim
  outlasts the lease it is taking) and `LoneLegacy` (no type starts with two rows
  of an older version). `LeaseInv` follows a lease through a claim: a claim that is
  about to promote its task holds a live lease for it, a claim takes over or gives
  back only leases of tasks that are not running, a handler releases after the end
  of its own task, and so every running row has its lease row.
* `PurgeKeepsLatestCorrect`, without assumption: ids are given in order, and for every
  row a purge may delete there is a newer one of its type among those it keeps.

`UserAuthCacheProofs`, for every set of requests and every bound:

* `AuthTypeCorrect`, `FloorCorrect`, without assumption on timing. `OrderInv` adds
  that what a request has in hand was committed and that what a transaction is about
  to commit is the next version.
* `StaleIsFencedCorrect`, `NoStaleAnswerCorrect`, under `PromptTx` and `PromptFill`.
  `AuthInv` says where the protection of a committed change is at each moment: a
  transaction that may still commit has its fence in place, and from the commit on
  every older version, in the hash or in the hands of a request, is below the floor.

`UserSessionCacheProofs`, for every set of requests, TTL, expiry and number of
failures:

* `SessionTypeCorrect`: `TypeOK`, with the row lock.
* `BoundedStalenessCorrect`: by `FreshInv`, that whatever is cached, held or about
  to be cached for a version expires less than CacheTTL after the row has left that
  version, or the row still has it.
* `SealedCorrect`: by `SealInv`, which adds to `FreshInv` that after the tombstone
  was published the row is revoked, that the hash is a deny entry lasting to the
  tombstone's expiry or that this moment has passed, and that the deadline of any
  fill still on its way is no later.

`AuthSessionProofs`, for every set of tabs and sessions and any number of turns:

* `SessionTypesCorrect`, `NeverBackCorrect`, with and without Web Locks and without
  assumption on timing. The invariant `TabInv` says that a tab waits for one refresh at a time (`OneRefresh`), that nobody has heard of a session
  before its login was answered (`Unborn`, `Secret`), and that the answer of a
  refresh for a session the tab has signed out of has been overtaken (`Over`): the
  epoch of `auth-session.ts` is what `NeverBack` rests on. Forty branches come down
  to four kinds of step: the browser changes a tab and takes requests off the net
  (`Browses`), a tab sends one (`Sends`), the server moves one on (`Serves`), rows
  end (`RowsMove`); each keeps `TabInv` by one lemma.
* `TabsKeepSessionCorrect`, with Web Locks and under `PromptRetry`. `LockInv`: the
  tab that runs a refresh is the first of the lock's queue, so that one page of all
  waits for one refresh. `KeepInv`: every token a request or the cookie carries is
  the row's or an older one in its window, and the token of the running refresh and
  of the cookie is the newest the browser has, with the row at most one rotation
  ahead; so a rotation that an abandoned request causes is never two ahead.

`BillingSessionProofs`, for every quota, amount and outcome of the statements:

* `BillingTypeCorrect`, `BillingReconciled`, by `SessionInv`: until the funding source has
  been charged only the token is, an open session has reserved alike on both, it is
  settled or refunded by one actor at a time, and after its end nothing is left on
  either account that the request does not cost.
* `FundingRefinement`, `TokenRefinement`: every step is a step of `QuotaLedger` for
  that account or a stutter, action by action. `FundingRefinement` and
  `BillingRefundedOnce` assume `TxSaves`, that the outer transaction of a refund
  saves its record once the inner one has given the quota back; the run
  `retriedRefund` shows what happens without it. The token's side needs nothing.

`TaskBillingProofs`, for every set of pollers: `TaskTypeCorrect`, without assumption;
`OnePassSettles`, `TaskRefundsOnce` (under `TxSaves` too), `TaskBillingReconciled`,
under `KeepsEnd` on the channels with a live fetch. `TaskInv` puts the session's
invariant together with the task row: the charge is priced and reserved before the row
is inserted, both accounts hold at least what the row says, every pass that has read
an unfinished row has read that price, and one pass settles it.

`TokenQuotaProofs`, for every finite set of requests (`ProcAssumption`):

* `TokenTypeCorrect`, `TokenBalanced`, `TokenNoOverspend`, by `QuotaInv`: what was
  granted and charged is in the row, in the queued batch or in a statement some
  request is about to send (`Counted`, `Books`, which count the requests at each
  point), and what the cache, or a snapshot about to fill it, may still grant exceeds
  what is left by no more than the recorded excess (`Covered`).
* `TokenNoStale`, under `PromptFence`, by `Fenced`: the fence is up from the
  invalidation to the write, and a snapshot still held when it falls is as new as the
  last guarded mutation.

`PlaygroundProofs`, for any number of requests, pieces, edits and pages and a queue of
any length, whatever the pieces say: `OwnAnswerCorrect`, `SettledCorrect`,
`SavedCorrect`.

* `ChatInv` speaks of four conversations: the rendered one, the latest, the stored one
  and `Coming`, what the next render will show. Each holds its own answers (`Talks`),
  only its last message may be waiting, and what `Coming` and the buffer have of the
  running answer are pieces that have arrived of it, in order, and all of them when the
  answer does not repeat itself (`Arrived`, `Buffered`): `Piled` and `Grown` say so of
  a flush and of a buffered piece, since what is cut off a chunk is its beginning
  (`ChunkEnd`) and nothing is cut off a plain one (`NoRepeat`). The flags end with the answer
  (`Flags`, `Live`), and everything queued belongs to the generation (`Queued`).
* `Rendered` evaluates a queue by a recursive function. The library's induction takes
  a predicate as parameter, so `Induct` states induction over a set of numbers
  instead, from the least number outside it; `RenderedAppend` and `RenderedOther`
  follow: an update put in a queue is evaluated last, and updates of another
  generation do nothing, which is why a stop drops what is still queued.
* Three kinds of step keep `ChatInv`: one after which nothing is left to render
  (`RestedInv`: clicks, renders, loading), one that queues something of the running
  answer (`LaterStep`), one of an answer that was overtaken (`OldStep`).

Assumptions are the named `ASSUME`s on the constants of these modules and the ones
named above, which the runs make as well. `PromptX` constants exclude that a process
stalls for longer than a lease, fence or window lasts; the code has no other guard.

Only model-checked: the liveness properties, which are out of the prover's reach.

## 11. Not modelled

* Relay, adaptors, plug-ins, settings, pricing: conversion between formats, HTTP
  and floating-point formulas, without protocol state. Their outcomes are free
  choices of the models above.
* Payments, redemption, check-in: one transaction under a row lock or a unique index
  each (check-in on SQLite runs two statements and deletes its record when the second
  fails).
* Rate limiting: atomic scripts over wall-clock windows.
* Channel selection: weighted random choice over configuration.
* Midjourney polling: the shape of `TaskBilling` with its own table.
* External identities, passkeys, two-factor: their effect is the version bump of
  `UserAuthCache`; the protocols are external.
* The group inside the user's cached hash, whose writes carry no new version.
* The dashboard's forms, tables, dialogs, charts and translations are by far most
  of the TypeScript lines. They render what the server answers and keep no state
  that anything else reads or changes, so a model of them would have neither
  concurrency nor a property that is not the text of the component. Coverage of the
  client is therefore confined to its two stateful protocols, authentication and
  the playground.
