# Verification of local-ai-proxy

TLA+ models of the gateway's core: the credit ledger, the SQL transactions that
implement it, the life of a chat request on top of it, the rate and concurrency
limits in front of it, the usage log behind it, the routing of requests to
backend nodes, the end users and credit requests, the users, roles and sessions,
and the start of the process. TLC checks them on small instances; TLAPS proves
the properties of the ledger, of the limiters and of the guard for the last
admin for every instance.

## 1. The system

local-ai-proxy is a single Go process in front of several inference backends.
PostgreSQL holds everything that survives a restart.

| Part | State | Operations | What makes it correct | Where |
|---|---|---|---|---|
| Credit ledger | `credit_balances`, `credit_holds`, `credit_transactions` | `AddCredits`, `ReserveCredits`, `SettleHold`, `ReleaseHold`, `CleanupSettledHolds`, `applyMonthlyAllowance` | reserved = sum of pending holds; a hold is charged at most once; the trail explains the balance; one allowance a month; nothing is oversold | `internal/store/credits.go`, `federated.go` |
| Chat request flow | one handler goroutine per request | billing resolution → credit gate → validation, pricing, routing → reserve → upstream → settle or release → usage entry | nobody pays without an answer, answers are paid for, the usage entry says what was charged | `internal/proxy`, `internal/billing`, `internal/credits/middleware.go` |
| Sweeper | none | every ten minutes release pending holds older than ten minutes; delete old finished holds | no reservation is stranded | `internal/credits/sweeper.go` |
| Node registry | entries, published snapshot, round-robin counters | `SetNodes`, `SetNodeProbe`, `Resolve` | only probed healthy nodes are routed to | `internal/registry` |
| Node poller | per-node runtime state, cached node set | startup sweep, poll cycle, `RefreshNode` | hysteresis; routing follows the table | `internal/poller` |
| Admin node API | `nodes` | create, update, delete, refresh | a change is in routing when the call returns | `internal/admin/nodes.go`, `internal/store/nodes.go` |
| Declared nodes | `nodes` | sync at startup | all or repaired by the next start; API nodes are left alone | `internal/nodesource` |
| Startup | `accounts`, `users.account_id`, `api_keys.account_id`, `registration_events` | five backfills in a fixed order | what a dead start left is finished by the next; nothing that must happen once happens twice | `cmd/proxy/main.go`, `internal/store` |
| Service accounts | `registration_tokens`, `accounts` | create a token, register with it, revoke it | as many accounts as uses, no more than allowed | `internal/store/credits.go` |
| Rate limiter | token buckets per key and account, slots per account | allow, refund, prune, acquire, release | rates and slots are never exceeded, refunds are exact | `internal/ratelimit` |
| End-user provisioning | `federated_identities`, `accounts` | resolve, provision | one account per identity | `internal/store/federated.go` |
| Credit requests | `credit_requests` | file on a cap hit, expire, mark granted, dismiss; grants are a call of their own | at most one pending per account; whoever marks first pays once | `internal/creditrequest`, `internal/admin/credit_requests.go` |
| Usage log writer | a channel of 1000 entries, one goroutine | send, write, drain at shutdown | an accepted entry is written | `cmd/proxy/main.go` |
| Users, sessions, roles | `users`, `user_sessions` | register, login, change password, deactivate, change role | an active admin remains; sessions die with the credential | `internal/user`, `internal/store/store.go` |

How they meet. A request runs through the middleware chain in its own
goroutine, so every step between two database calls interleaves with other
requests of the same account, with the sweeper and with admin calls. Handlers
read the registry's snapshot without a lock while the poller and admin calls
replace it. Handlers and the usage writer share a bounded channel. Nothing but
the database survives a crash.

The hard behaviours, each listed as a hazard with its line in `PROJECT.json`:
a hold swept while its request still streams; the process dying with holds
open; a COMMIT whose answer is lost; several first requests of a month with
clocks from both sides of midnight; amounts finer than the columns keep; row
locks taken in different orders; two loads of the node table overlapping; a
probe finishing after its node became something else; a refund arriving after
its bucket was refilled or pruned; a handler still streaming while `main` takes
the process apart; a login that read the password before it was changed; two
admins demoting each other; a pod that dies between two backfills while another
one starts.

## 2. Modules

`CreditData` - the rows of the credit tables, the constants and the arithmetic.
Money columns are `DECIMAL(15,6)`; a *tick* is their last digit, so columns are
integers. Go passes float64 amounts with a finer grain; they are counted in
quarters of a tick, which tells apart all cases of rounding (exact, below, at
and above the half). `ToTicks` is what storing a value does.

`CreditLedger` - what the store promises: one action per database transaction.
Calls that change nothing are stuttering steps. `used` is the sequence of hold
ids, `month` the UTC month; `applyMonthlyAllowance` takes the month its request
read, which may be over.

`CreditTransactions` - the same operations statement by statement: a session
takes the lock of the row a statement touches, keeps the row versions it writes
in its transaction record, and publishes them at COMMIT or drops them at
ROLLBACK, which can happen after every statement. It is checked and proved to
implement `CreditLedger` under the mapping that hides uncommitted hold ids.

`ChatRequests` - the handlers of concurrent requests over the actions of
`CreditLedger` (by INSTANCE), the sweeper, crashes, and store calls that fail
with or without having committed. The upstream is a free choice between failure
and an answer with some cost; estimates are free too, since they come from
averages and request sizes. Usage entries that `logUsage` managed to send are
kept in `entries`; what the writer does with them is not part of this module.

`NodeRegistry` - the registry's entries and what `SetNodes` and `SetNodeProbe`
make of them. A node's probe identity is a base URL and a *pin* (all other
identity columns); a model list is abstracted to the identity whose probe
reported it, which is what the routing properties tell apart.

`NodePoller` - the poll loop and admin calls as workers that each run
`ListNodesWithSecrets`, `SetNodes`, `reconcile`, choose what is due, and apply
probe results one by one, with the table changing in between. PUT is its two
steps, the read of the row and the write of all of it.

`RateLimits` - the account bucket, the key bucket and the slots, each behind its
own mutex, and the middleware as the sequence of gates a request passes. A
minute is `Minute` clock ticks and a token `Minute` parts, so that a limit of n
per minute refills n parts a tick and no fraction is lost. Allow, Return and
prune are functions from buckets to buckets. The overrides and key limits a
request sees are free choices, as an admin may change them at any time. `meter`,
`keyMeter` and `fair` are history: a meter is filled by each request let through
and leaks at the highest limit, and `fair` is the bucket an account would have
had if the requests its key refused had never come.

`UsageWriter` - the channel of usage entries, the two selects of its writer, the
cap-hit recorder with its delivery semaphore, and `main` from the signal to its
return. An entry is named by its request. A send on the closed channel panics
in the handler, where the server recovers it. Handlers that neither log an entry
nor record a cap hit are left out, and so is the exit of a process whose
listener fails.

`Sessions` - users, their roles, passwords and sessions. A call walks through
its handler's statements. A transaction's writes appear at its commit, a DELETE
takes the sessions that were committed when it ran, and the locks are those
PostgreSQL takes: the advisory lock of the guarded mutations, `FOR UPDATE`, the
weaker lock of an UPDATE, and the foreign key's lock of an INSERT, which waits
for the second and not for the third. Passwords are numbered; `raced` is history
and marks a session whose login was overtaken by a change of its user. Expiry is
a free choice at each lookup; a session keeps which of the two lifetimes it got.

`DeclaredNodes` and `Accounts` - the tables that startup writes, each operator
one statement or one committed transaction. A node row remembers who wrote its
columns last. An account says whether it has a balance row and a registration
event and how often it was granted its initial credits. The tables begin as an
installation from before accounts left them, perhaps with a service account, and
that one perhaps named "admin-service", which the lookup then adopts.

`Startup` - composes the two: pods that go through `main` one statement at a
time, die at any of them (a failed call is `os.Exit`), start again with another
file, start at once, serve and stop; and the requests that add users, accounts,
keys, tokens and nodes while a pod serves. The files a pod may load are the
choice at `Boot`; a file that does not parse or validate fails before the first
write and is a `Crash`.

`EndUsers` - a chat request of an end user from `ResolveEndUserAccount` to the
credit gate, the filing of a credit request by the recorder, and the admin calls
that list and resolve it and grant credits. A grant looks at no request, so any
admin may grant to any account at any time; callers that act on a request come in
both orders the repository describes, marking it and then granting (`GrantMarked`)
or granting and then marking it (`TopUp`, `MarkGranted`), and may fail between the
two. `paid` is history and counts the grants made for a request by callers that had
marked it. Credit is reduced to having some or none. The
INSERT of a request is two steps, its subquery and the insertion under the
unique index, because a dismissal can commit between the snapshot and the row.

`CreditLedgerProofs`, `CreditTransactionsProofs`, `ChatRequestsProofs`,
`NodePollerProofs`, `RateLimitsProofs`, `SessionsProofs`, `EndUsersProofs` - the
theorems about the module each is named after (section 4). `LifecycleProofs` - those
about the two ends of main, `Startup` and `UsageWriter`; it extends both, which is
why the specification of the second is called `WriterSpec`.
The `MC*` modules give TLC its constants.

Operators named *Mutant* in a comment are deliberately wrong variants of an
action. No specification uses them; each shows that one property notices one
slip in the code.

## 3. Runs

| Run | Checks | Instance |
|---|---|---|
| `credit_ledger` | type and safety invariants, `ReserveWithinBalance`, `FinishedHoldsStay` | two accounts (one managed), two holds, costs of 2 and 7 quarters, grants and clawbacks, two months |
| `credit_transactions` | `ImplementsLedger`, `TransactionsEnd` | one account, two sessions, two holds, two months |
| `chat_requests` | who pays and what is logged | two requests of one end user by either billing path, two holds, two months, one crash |
| `holds_end` | `HoldsEnd` (liveness) | two requests of a service account, one grant, one crash |
| `node_poller` | `Hysteresis`, `RoutingConverges` (liveness) | one node, two URLs, two pins, the loop and an admin with two calls, one backend death |
| `rate_limits` | `RateKept`, `NoBudgetBurned`, `SlotsMatchStreams` | three requests of an end user or of no account on one key; limits of 1 and 2, two slots, two ticks a minute, a clock of two minutes, pruning after one |
| `usage_writer` | `OneOutcome`, `CleanShutdownDrains`, `ShutdownEnds` (liveness) | three handlers, a channel and a semaphore of one slot |
| `sessions` | `OldPasswordSessionsRaced`, `RoleSessionsRaced`, `SlotsMatchHashing`, `ActiveAdminRemains` | two users in every combination of role and activity, two sessions, three requests, one bcrypt slot |
| `startup` | `OneAdminServiceAccount`, `TokenUsesMatchAccounts`, `KeysBilled`, `SettledTables`, `DeclaredNodesSynced` | two pods with two starts, two requests, two users, a file of one node and one of two, one token with one use |
| `end_users` | `OneAccountPerIdentity`, `DismissedSilences`, `MarkFirstPaysOnce` | two identities, three requests at once and five in all, two months |
| `single_response_overrun` | finding | two requests of an end user |
| `deleted_node` | finding | as `node_poller`, with one pin |

Why the bounds are enough. The credit invariants relate one account's balance
to its own holds, and conflicts are pairwise (two operations on one hold or one
balance row): two holds, two sessions and two requests meet in every order. Two
accounts show that charges do not cross. Two months are needed for a stale
clock. The costs include an exact half tick and three quarters, so every
rounding case occurs. Node state is kept per node and no operation relates two
nodes, so one node with two URLs and two concurrent workers shows the races;
failures are counted up to the threshold, beyond which the code does not
distinguish them. `MaxGrants`, `MaxMonth`, `MaxCrashes`, `MaxChanges` and
`MaxDead` and `MaxClock` cut off counters that would grow for ever; `RoomForHold` keeps a
transaction from starting when the instance has no hold id left for it. In
`rate_limits` a third request is refused a slot while two are in flight, a
bucket is pruned and comes back within the clock's range, and the override moves
the limit both ways. `idleCutoff` is the code's ten minutes cut to one, the
shortest for which the properties hold. In `usage_writer` the second entry meets
a full channel and the third can come after the drain or after the close. In
`sessions` every race is between a login, or an authorized admin call, and one or
two changes of the same user, so two users and three calls suffice; one slot is
full whenever someone hashes. In `startup` one start can die and the next one
repair it, or two run at once (the theorems of section 4 are for any number of
starts and any files); going from one file to the other adds or removes a node.
In `end_users` a filing, a dismissal and a second filing, or two resolutions and
a listing, meet on both sides of a month's turn, and two callers that grant first
meet one that marks first. `MaxCalls` and `MaxBoots` bound the numbers of requests
and starts.

Fairness. `CreditTransactions`: an open transaction executes its statements;
strong fairness, because PostgreSQL grants row locks in the order they were
asked for. `ChatRequests`: time passes, the ticker ticks, and a sweep is not
failed by the database for ever (strong fairness of a release); handlers get
none, so `HoldsEnd` does not rest on them. `NodePoller`: goroutines run, nodes
become due, and the loop's reload does not fail for ever. `UsageWriter`: the
writer, `main` and the recordings run, database calls return, `Shutdown` has its
timer and a delivery its client timeout; strong fairness for a recording, because
blocked sends on a Go channel are served in order. Nothing makes a handler end
or a signal come.

### What the runs show

* However the statements interleave, wait and roll back, each commit is one
  atomic ledger operation, and no order of locks deadlocks.
* A charge always belongs to an answered request, on its account and of its
  cost. An answer is free only if the sweeper was faster or the store failed.
  A usage entry agrees with the ledger except when the answer to a settlement's
  COMMIT was lost (then the entry says 0 and the charge exists).
* An end user's request by identity meets the gate only after the allowance of
  the month it read was applied; the month may turn between the two. (A key created directly on an end-user account gets no monthly reset
  from its requests: billing resolves it without `ResolveEndUserAccount`.)
* Every hold ends, whatever happens to its handler.
* After the last admin call routing settles on the table's enabled nodes, their
  current URLs and models, without dead backends.
* In any window of t minutes a key lets at most limit x (1 + t) requests
  through, an account that many more than the refunds made in the window.
  Pruning is no way round it: a bucket idle for more than a minute would be full
  anyway, so the "free burst" that `per-account-rate-limiting.md` allows for is
  none. A refund counts when it is made: one that comes after the bucket had
  refilled by itself gives the account a token in the later window.
* A refusal by the shared key leaves the account's bucket no worse than if the
  request had not come. Until the refund, another request of the account may be
  refused for the token that is on its way back.
* Slots are exactly the requests in flight. Each usage entry is buffered, in the
  writer's hands, written, failed, dropped or lost to a panic, and never two of
  these; if nobody is being served when `Shutdown` returns, none is left behind.
* A system with an active admin keeps one, even though a call is authorized
  before it takes the lock and may be carried out for an admin who has lost the
  role meanwhile. After a password change, a role change or a deactivation the
  only sessions that do not reflect it are those of logins in flight: the code
  does not stop these, and such a session may outlive the change (a disabled
  user's is refused by the middlewares until the user is activated again). For
  passwords this contradicts `user/handler.go:393-397` and `store.go:751-754`
  (below). `store.go:677-679` says that a role change "invalidates existing
  sessions", which it does; a login in flight is not one of them, though through
  it "a 7-day user session" of a new admin can still arise.
* Every start repairs what earlier ones left: nodes follow the file, every
  account has its balance row, every key is billed. The admin service account is
  created and granted once and never mistaken for one a caller registers under
  its name, since the smallest id wins and it is created before anybody can
  register. Only an account of that name that is older than the first start is
  taken for it; then none is created and nothing is granted. A user's keys are on
  the user's account, except for a user whom two starts gave one each (`doubled`,
  against `store.go:1014-1015`).
* However first requests race, an identity has one account. A dismissal silences
  the month but for a filing whose subquery ran before it. The callers that mark
  first pay a request at most once between them, and only if they asked before the
  allowance was reset, whatever others grant beside them; callers that grant first
  may pay it again. The recorder's comment "at most one winner per account per
  month" leaves out that an account may file again after a grant.

### Findings

1. `single_response_overrun`: end-user-accounts.md says the overrun of the cap
   "is bounded by a single response". It is bounded by one response per request
   in flight: two concurrent answers above their estimates both settle.
2. `deleted_node`: `load` reads the table and calls `SetNodes` without a lock
   around both, so a poll cycle that read before a DELETE brings the node back
   after 204 was answered, until the next cycle.

### Disagreements without a run of their own

In each of these the code allows what a comment or a document rules out. Where a
passing property excepts the case, its comment quotes the line, and the property
shows that this is the only exception; dropping the exception from it makes TLC
print the behaviour told here.

* Password change. `user/handler.go:393-397` says "a 200 always means every other
  session is dead" and `store.go:751-754` that a change "can never report success
  while stale sessions remain usable". A login that read the old hash inserts its
  session after the DELETE; nothing at the insertion looks at the password again,
  and the foreign key's lock does not wait for the UPDATE. Such a session lives
  until it expires or a later change ends it. (`raced` in `OldPasswordSessionsRaced`)
* Backfill. `store.go:1014-1015` calls `BackfillAccounts` "Idempotent — safe to
  call on every startup". Its SELECT takes no lock and its UPDATE does not ask that
  the user still has no account: of two starts at once the first attaches the keys
  to its account and the second moves the user to another. The gateway's manifest
  (`deploy/k8s/deployment.yaml`) sets no strategy, so a rolling update runs pods
  side by side and nothing keeps a start apart from the restart of another;
  `admin_service_account.go:15-16` expects "two pods booting at once". (The
  Recreate strategy in `docs/deployment.md:78-94` is for an Ollama backend, not
  for the gateway.) (`doubled` in `KeysBilled`)
* Dismissal. `docs/design/credit-requests.md:59-63` says that with a dismissed row
  filing is a "no-op for the rest of the month" and "the NOT EXISTS check suffices
  for it". The subquery sees what was committed when the INSERT began and the
  unique index covers pending rows only: of two cap hits the first is filed and
  dismissed between the subquery and the insertion of the second, which then adds
  a request to the dismissed month. (`raced` in `DismissedSilences`)
* Grants. `docs/design/credit-requests.md:119-122` has callers "mark first, then
  grant", so that "a raced or stale actor can never grant twice". The code says the
  reverse of the same callers (`admin/credit_requests.go:16-19`: they grant "first,
  then" mark), as does section 6 of the design of the console's Top up, and the
  grant endpoint (`admin.go:773-805`) knows no requests. In that order two admins
  both grant for one pending request before either marks it, and the second learns
  of it from a 409 after the money moved. `MarkFirstPaysOnce` is about the callers
  that mark first, in the presence of the others.
* Probes. `apply` checks that a node id still exists, not that the node is still
  what was probed: a probe of the old URL that finishes after an update makes the
  new URL routable with the old models until the next probe, although the README
  says "There is no optimistic routing". `RoutingConverges` shows that this, like
  `deleted_node`, heals.
* Drain. "remaining entries are drained" at shutdown fails for a handler that
  outlives the ten seconds of `Shutdown`: it can send between the writer's last
  look at the channel and `close`, and its entry is accepted and never written;
  later still, its send panics. (The only exception of `CleanShutdownDrains`)

## 4. Proofs

`CreditLedgerProofs` proves, for any sets of accounts, holds, amounts and any
bounds:

| Theorem | Says |
|---|---|
| `TypeCorrect` | tables are well typed, hold rows have ids from the sequence |
| `ReservedCorrect` | `reserved` is the sum of the pending holds |
| `ReserveCovered` | a reservation is granted only if balance minus what is reserved covers it (to half a tick) |
| `ChargedOnceCorrect` | one charge per hold, on the hold's account, and the hold is then settled |
| `FinishedHoldsFinal` | a settled or released hold never changes again, so none is charged after a release |
| `AuditTrailCorrect` | the trail ends in the balance and every row explains its step to within a tick |
| `AllowanceCorrect` | one allowance per managed account and month, in order |

Assumptions: only those named in `CreditData` and `CreditLedger` (managed
accounts are accounts, costs and allowances are natural numbers, grants are
integers). TLC evaluates them in every run.

`CreditTransactionsProofs` proves, for any number of sessions besides:

| Theorem | Says |
|---|---|
| `StoreTyped` | committed rows are well typed and a lock belongs to an open transaction |
| `StoreImplements` | every COMMIT is one operation of `CreditLedger`, and nothing else is visible |
| `StoreKeepsLedger` | the five invariants of `CreditLedger` hold of the committed rows |

`ChatRequestsProofs` proves, for any number of requests and crashes:

| Theorem | Says |
|---|---|
| `ImplementsLedger`, `LedgerKept` | the request flow is a behaviour of `CreditLedger` and keeps its five invariants |
| `RequestsTyped` | handlers are well typed and no two requests have the same hold |
| `ChargesAnswered` | every usage row is the cost of an answered request, on the account it was billed to |
| `AnswersPaid` | an answer is free only if its hold was swept or a store call returned an error |
| `EntriesAgree` | a usage entry and the audit trail agree on the charge |
| `AllowanceFirst` | an end user's request passes the gate only after the allowance of the month it read was applied |

Assumptions of both: those of `CreditData`, that `NoSession` is not a session,
and that the bounds on grants, months and crashes are natural numbers.

`RateLimitsProofs` proves, for any requests, accounts, keys, limits and caps:

| Theorem | Says |
|---|---|
| `LimitersTyped` | no bucket is overdrawn or above its capacity |
| `RateKeptCorrect` | what an account or key was let through, less refunds, never exceeds a leaky meter of the highest limit |
| `RefundsExact` | a bucket, with the tokens of undecided requests, is never below the one without the refused requests |
| `SlotsCorrect` | slots are the requests in flight, within the cap |

Assumptions: limits and caps are at least 1 (configuration, the admin endpoint
and `ApplyConfigDefaultsAndCap` see to it), no limit is above `MaxLimit`, a
bucket is not pruned before it was idle for a minute, and the set of requests
in progress is finite.

`NodePollerProofs` proves, for any nodes, URLs, pins and number of admin calls:

| Theorem | Says |
|---|---|
| `PollerTyped` | rows, runtime state, registry entries and workers are well typed |
| `HysteresisHolds` | a healthy node has fewer failures than the threshold since its last success, an unhealthy one has failed |

Assumptions: the poll loop is not an admin call, `NoNode` is not a node, and the
bounds are natural numbers.

`LifecycleProofs` proves of `Startup`, for any pods, users, tokens, node names and
files, and any number of starts, crashes and requests:

| Theorem | Says |
|---|---|
| `TokensCounted` | a token makes as many accounts as it counts uses, and no more than it allows |
| `OneAdminAccount` | one admin service account is made and granted once, or an older one adopted, and every lookup finds it |
| `KeysAlwaysBilled` | while a pod serves every key has an account, and a user's keys are on the user's unless two starts gave it two |
| `TablesSettled` | with no start under way or left half done, no balance row and no event is missing |
| `NodesSynced` | a start that finishes leaves exactly the declared nodes enabled; file and API keep to their own rows |

Assumptions: `NoAccount`, `NoUser`, `NoToken` and `NoPod` are no account ids, users,
tokens and pods, a file declares node names, and a token allows at least one use.

It also proves of `UsageWriter`, for any handlers and channel capacity:

| Theorem | Says |
|---|---|
| `WriterTyped` | writer, handlers and channel are well typed, the channel within its capacity |
| `OneOutcomeCorrect` | an entry is in exactly one place from the end of its request on |
| `ShutdownDrains` | a shutdown with nobody left being served leaves no accepted entry unwritten, and nobody sends on the closed channel |

Assumption: the capacities of the channel and of the recorder's semaphore are at
least 1.

`SessionsProofs` proves, for any users, sessions, requests and semaphore:

| Theorem | Says |
|---|---|
| `SessionsTypeCorrect` | rows, sessions and calls are well typed and the semaphore is within its capacity |
| `ActiveAdminKept` | a step never takes the last active admin away |
| `SlotsAreHeld` | the semaphore counts the calls that are hashing |
| `OldPasswordsDie` | a session of a replaced password is of a login that raced with the change |
| `OldRolesDie` | the same for a session of a former role or a disabled user |

Assumptions: `NoUser` and `NoToken` are neither users nor tokens, the semaphore
has at least one slot, and the number of requests is bounded by a natural number.

`EndUsersProofs` proves, for any identities, calls and months:

| Theorem | Says |
|---|---|
| `OneAccountCorrect` | racing first requests of an end user make one account, and requests bill it |
| `DismissalSilences` | after a dismissal its month gets no request of the account but one that was being filed; two are never pending |
| `MarkFirstPaidOnce` | callers that mark first pay a credit request at most once, and only if it was marked granted, whatever others grant |

Assumptions: `NoIdentity` is not an identity, the bounds are natural numbers.

TLC evaluates all these assumptions in the runs of their modules.

The argument for the ledger. Each invariant is inductive together with `TypeOK`;
`ReserveWithinBalance` also needs `ReservedMatchesHolds`. A sum over a set of
holds would need induction, which the provers lack; instead the sum is the
cardinality of the set of all (hold, tick) pairs of pending holds, and each
operation adds or removes one finite block of pairs (`AddBlock`,
`RemoveBlock`). Rounding enters by four lemmas on `ToTicks`: it commutes with
adding whole ticks, which is why `reserved` never drifts from the rounded
holds, and two roundings differ by at most one tick, which is the tolerance of
`AuditTrail`.

The argument for the transactions. A COMMIT publishes row versions that were
computed statements earlier, so that it is a ledger operation does not follow
from the state before it. `StoreInv` carries the computation along: for each
operation and each statement, the rows a session has locked are those it read,
the version it will write is the ledger's operation applied to them, and its
audit rows are the ledger's (`Adding`, `Reserving`, `Settling`, `Releasing`,
`Resetting`). Others cannot disturb this, because every step respects the locks
of the rest (`Spared`). A hold id drawn from the sequence is locked by its one
session until it is committed, and stays used after a rollback. The step
theorem then has one case per COMMIT, and the ledger's invariants are imported
by instantiating its theorems.

The argument for the requests. That each step is a ledger step or leaves the
tables alone gives the ledger's invariants for free, and the proofs above them
use those in place of the tables' definitions. `RequestsInv` says which fields
of a request each program counter has set. `HoldsInv` relates a request to its
hold: holds are distinct; until the request gives its hold back, it is pending
or was swept; a charge it was told of is in the trail; an unpaid request is not
in it. `Env` states what any step may do behind the back of a request, so that
the other handlers, the sweeper and crashes are one case each. `SweepInv` and
`EntriesInv` add that only aged holds are swept and that entries repeat what
their request was told.

The argument for the limiters. `RateKept` says nothing about buckets, so it is
not inductive. `Meters` adds what ties the two together: as long as an id has a
bucket, the debt on its meter and the tokens in the bucket together do not
exceed the highest limit, and an id without a bucket has a meter that has leaked
empty by now. A request moves one token from the bucket to the meter, refills
are slower than the leak, and a pruned bucket had more than a minute, in which
any meter leaks empty. `NoBudgetBurned` needs that `fair` itself never exceeds
the bucket's capacity, for otherwise the cap on a refund would lose tokens.
`SlotsMatchStreams` adds or removes one request of the set in flight per step
and uses the cardinality theorems for it.

The argument for the poller. Hysteresis is a property of each node's runtime
state (`Steady`); what needs an argument is that a worker applies a result only
to a node that is still there and was not reset since, and that the lists a
worker carries between its steps name nodes at all. `WorkersTyped` says so.

The argument for the writer. `OutcomeInv` says that the seven places an entry can
be in (buffer, the writer's hands, written, failed, dropped, lost in a panic,
none because only a cap hit was recorded) are disjoint, that the buffer has no
duplicates, and that together they hold exactly the requests that are done.
`ShutdownInv` orders the shutdown: the channel is closed only after the writer's
context is cancelled, which is after the server drained, and a writer that is
done has found the buffer empty unless a late handler sent.

The argument for startup. Every step does one of five things to the accounts
(`AccountEffect`), and the lemmas named after the phases say where each leaves
its pod; the invariants build on these instead of on the actions. `TokenInv`:
a token whose row a registration holds has a use left and no second
registration holds it. `AdminInv`: whoever is past the lookup, serves or is in a
request has seen the admin service account exist, made or adopted, so an account
that is registered under its name has a larger id. `KeyInv`: a pod past the users has
left none without an account, one past the keys no key, and a key about to be
inserted is for an account read when its user had one. `SettledInv`: a row is
missing only while some pod is, or died, before the backfill of that row, or
before the first start. `NodesInv`: what a pod listed is still true where it
relies on it (config nodes stay config nodes, the API never takes a name that is
in use); and while all pods that start together have the same file, every step
brings the enabled config nodes closer to it (`Closer`), so that a pod that
merged a name or disabled one never finds it undone by another (`Reached`).

The argument for the last admin. That a step keeps an active admin does not
follow from the state before it alone: the step that demotes is the commit, and
the count was made two statements earlier. `AdminInv` carries the count over:
the advisory lock admits one mutation at a time (`OneMutation`), a mutation past
its guard is about a registered user (`KnownUsers`), and, if that user is an
active admin and stands to lose it, there is another one (`AnotherAdmin`). Steps
in between cannot spoil this, because activation, registration and bootstrap
only add admins and everything that removes one waits for the lock. The count
enters by one lemma: a set with an element and a cardinality that is not at most
1 has another element (`CountOthers`).

The argument for the sessions. `SessionInv` says of every call what it has read:
a login's row is current or the login was overtaken (`LoginCurrent`), and the
sessions that a change is about to delete are all of its user's, except its own
and those that raced with it (`Revoked`, `Purged`). A change commits against
that, and a login that inserts after it is marked.

The argument for end users. `IdentityInv` counts accounts against identities:
there are as many of one as of the other, and each identity's account is made
for it. The window is the provisional account that is not committed yet: one call
at most has it for an identity, and then the identity is not known. `SilenceInv`
says that no request is filed behind a dismissal of its month and that a call
about to file has seen none or was overtaken; `GrantInv` that one call at most
has marked a request and is about to pay it, and that nobody who marked it has
paid it before; grants by others do not touch either.

Only model-checked: the liveness properties `TransactionsEnd`, `HoldsEnd`,
`RoutingConverges` and `ShutdownEnds`, since liveness under fairness is outside the
prover's reach; and the two findings, which are counterexamples. Every invariant
and every action property that a passing run checks is stated by a theorem.

## 5. Plan

Done: 1 ledger with proofs, 2 transactions and refinement, 3 chat requests,
4 registry entries and poller, 5 usage writer and shutdown, 6 rate limits with
proofs, 7 end users and credit requests, 8 users and sessions with proofs,
9 declared nodes and startup.

Next: the round-robin counters of `Resolve`; the usage estimates as functions
against a reference definition.

## 6. Not modelled

HTTP framing, JSON and SSE parsing, CORS, error envelopes, metrics and logs are
input and output without protocol of their own. Admin listings and analytics
are single queries; pricing, key and account limits and profile changes are
single updates. API key authentication is one lookup. Admin grants reach the
ledger as `AddCredits`. The per-IP and per-email buckets in front of the auth
endpoints only refuse requests and share the algorithm of `RateLimits`. `Resolve`
chooses among routable nodes with counters nothing else reads. The estimates set
the size of a reservation, which `ChatRequests` leaves free. Schema migration is
not modelled. `PROJECT.json`
lists every component with its status.
