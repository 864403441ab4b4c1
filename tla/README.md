# Klenzo in TLA+

Klenzo is a personal finance and habit backend: a NestJS application
(`apps/klenzo`) over PostgreSQL (through Prisma) and Redis, with two Cloudflare
ports and six thin gRPC services around it. This directory holds its
specifications, the TLC configurations that check them, and TLAPS proofs.

Everything here is translated from the TypeScript. The code shares one pattern,
and nearly all of its hard behaviour comes from it: a handler reads a row,
awaits, computes new column values from what it read, and writes them
unconditionally. Node runs many handlers at once and any number of processes may
serve one database, so other requests run at every `await`. An action of these
modules is therefore one await-free section, or one database round trip, of a
handler; a request is a client that goes from `pc = "idle"` through its sections
and back.

Contents: [the system](#the-system), [the modules](#the-modules),
[the runs](#the-runs), [what is proved](#what-is-proved),
[findings](#findings), [limits](#limits), [not modelled](#not-modelled), [plan](#plan).


## The system

Paths are below `apps/klenzo/src/app` unless they start elsewhere.

| component | state | operations | hard behaviour | correct when |
|---|---|---|---|---|
| **Ledger** `finance/ledger.service.ts` | `wallets.balance`, `ledger_entries` | postDebit, postCredit, postTransfer, reverseEntry, verifyWalletBalance | balance read outside the transaction that writes it; two rows per transfer; row locks taken in caller order | transfers whole, reversals linked and single, a posting and its entry inseparable, no unchecked overdraft, calls return |
| **Audit chain** `audit/*.service.ts`, `admin/rbac` (writer) | `audit_logs` with checksum and previousChecksum | three writers, verifyEntry, verifyChain | two writers read one predecessor; swallowed failures; rows that become visible late; user deletion rewrites rows | every row hangs on an older one; a break has a cause and stays visible |
| **Account** `auth/auth.service.ts`, `auth/jwt.strategy.ts`, `admin/admin.service.ts` | `users.isActive`, `failedLoginAttempts`, reset token; Redis `user:profile:*` | login, forgotPassword, resetPassword, toggleUserActive, profile writes, validate | counting from a stale read across bcrypt; reset overlapping a lock; cache filled after its eviction | failures lock, locks hold, the cache catches up |
| **Session and MFA** `auth/auth.service.ts`, `auth/mfa.service.ts`, `auth/google-oauth.service.ts` | refresh token hash, `mfaEnabled`, `mfaSecret`, challenge JWTs | login, mfaLogin, refresh, logout, setup, enable, disable | overlapping refreshes, logout against a refresh, setup against enable | a token is exchanged once, logout is final, MFA is on for a secret that was proven |
| **Transactions and budgets** `finance/finance.service.ts` | `transactions`, `budgets.spent` | create, update, approve, delete, recalculate | `spent` is a cached sum kept by read-modify-write over two tables without a transaction; a link to a budget of another user | `spent` is the sum it stands for |
| **Groups** `finance/finance.service.ts` | groups, members, group expenses | createGroup, addGroupMember, removeGroupMember, updateGroup, deleteGroup, getGroupBalances | parallel inserts that fail singly; duplicate check and insert apart; payers who leave | balances add up to zero |
| **RBAC** `admin/rbac/rbac.service.ts`, `common/guards/permissions.guard.ts` | roles, permissions, assignments; Redis `rbac:perms:*` | guard, assign, remove, set all roles, permissions of a role, seed, create and delete of administrators | count-then-delete of the last SUPER_ADMIN; roles of users who are no administrators; delete-then-insert; legacy fallback; cache set after invalidation | an administrator with SUPER_ADMIN remains; cached permissions follow assignments |
| **Approvals** `admin/approval` | `approval_requests.status` | create, approve, reject, expiry | check PENDING, then update by id | decided by another person; a decision stands |
| **Consent** `admin/consent` | one row per user and type; policy versions | grant, refuse, revoke, check, new version | find-then-create; a check of three reads | consent reported complete was given |
| **Support cases** `admin/support` | one row per case, its messages | open, update, escalate, close, addMessage | message and case in two writes; times taken before the write is sent | the list shows the latest activity first |
| **Habits** `habit/habit.service.ts` | streaks, `habit_logs` | completeHabit and CRUD | check and insert apart; streak from a stale row; midnight between two reads; days of 23 and 25 hours | the streak is the run of logged days |
| **Tasks**, **dashboard** `productivity`, `insight`, `finance` | `tasks`, `transactions`; Redis `insights:dashboard:*` | CRUD; getDashboard, invalidateDashboard | an entry that finance deletes without waiting, and that settleGroup, tasks and habits do not delete | its finances are the rows' or the reason is known; stale for two minutes at most |
| **Notifications, banners, flags** `notification`, `feature-flags` | rows and a Redis copy each | read through, write and invalidate, broadcast in the background | fill after invalidation; a banner whose time comes or passes; promises nobody awaits | the copy is right or the reason is known; a broadcast reaches all |
| **Seed script** `apps/klenzo/src/seed.ts` | every table | find, then save, row by row | stopped half-way, run again, run twice | after a whole run every row is there |
| **Idempotency, retries** `common/guards/idempotency.guard.ts`, `common/resilience`, `libs/database/src/transaction.ts` | Redis marker; map of an isolate; breaker | guard; withIdempotentTransaction; retryWithBackoff | get, then set; repeating what took effect; evictions | one effect per key |
| **Cloudflare ports** `apps/auth-worker`, `apps/api-worker` | the same `users` row; cookies `kz_at`, `kz_rt` | every route of auth-worker, the proxy, the RPC client | cookies overtake each other; lost answers; deadlines | cookies current; second factor kept; a link works once; calls end |
| **Google sign-in** `auth/google-oauth.service.ts` | the same row | callback, ID token | find, link or create over three round trips | no session past MFA |
| adapters, stubs, plumbing, gRPC services | none that matters | I/O | | |

How they interact: controllers call services; every service shares the one
Prisma client and the one Redis client. `JwtStrategy.validate` stands before
every authenticated request and reads what Account's writers evict. Every
mutating request ends in `AuditInterceptor`, which calls an audit writer and does
not await it, so audit writers overlap with each other and with later requests;
administrators' writes go through `RbacService.writeAuditEvent`. Deleting a user
reaches `audit_logs` through a foreign key. `FinanceService`,
`HabitService` and `ProductivityService` send notifications, fire and forget;
approvals, groups and transactions keep an account from being deleted, and
everything else of it goes with it or stays as nobody's. auth-worker and klenzo
serve one `users` table, and api-worker forwards a browser's requests to
auth-worker and calls it for tokens and profiles. `LedgerService`,
`IdempotencyGuard`, `withIdempotentTransaction`, the retry helper, `callRpc`'s two
functions, `ApprovalService.createRequest` and the event bus are provided, but no
route calls them yet.


## The modules

| module | lines | models |
|---|---|---|
| `SerialLedger` | 69 | what the ledger promises when calls do not overlap: each call one step |
| `Ledger` | 451 | the service, one action per database round trip |
| `LedgerProofs` | 2119 | its theorems |
| `AuditChain`, `AuditChainProofs` | 212, 1021 | the three audit writers and the verifier |
| `Account`, `AccountProofs` | 297, 456 | lock, reset and cached profile of one user |
| `Session`, `SessionProofs` | 267, 250 | refresh token and second factor of one user |
| `Budget`, `BudgetProofs` | 402, 2806 | transactions and budget totals of users |
| `Rbac`, `RbacProofs` | 481, 1300 | roles, permissions and the guard's cache |
| `AdminRoutes`, `Desk`, `Redis` | 100, 58, 57 | what the services below share: who may call which route, accounts and requests, the cache |
| `Approval`, `Consent`, `Support` | 136, 166, 157 | the back office |
| `Inbox`, `Flags`, `Task`, `Habit`, `Group` | 236, 81, 138, 195, 199 | the users' services and what they cache |
| `Seed` | 178 | the script that fills a database |
| `Platform`, `PlatformProofs` | 217, 7823 | these together, with deleted accounts and stopped requests |
| `UserStore`, `Browser`, `AuthWorker`, `Google` | 53, 166, 245, 52 | the `users` row, a browser with its cookies, auth-worker's routes, Google sign-in |
| `TokenLookup`, `AuthRpc` | 64, 109 | what an RPC caller may rely on; the client and server of the calls |
| `Delivery` | 192 | idempotency keys, retries, the circuit breaker |
| `Edge`, `EdgeProofs` | 94, 2475 | these together |
| `MC...` | | the values, symmetry and bounds of the runs |

`PROJECT.json` maps every definition to its lines. Definitions named `Mutant: ...`
in a comment are the slips that each property was tried against; no specification
uses them.

**Ledger.** `wallet` and `rows` are the committed tables; a row's number is its
id and its `createdAt`. `call`, `txn` and `ids` are a request's local variables and
its open transaction: the arguments, what is to be written, and the rows inserted
but not committed. postDebit and postCredit read the wallet and decide in one
step; postTransfer reads two wallets in either order (`Promise.all`), reverseEntry
an entry and then its wallet. Then `MarkReversed`, `InsertEntry`, `UpdateWallet`
and `Commit` run one statement each at READ COMMITTED: an UPDATE waits while an
earlier uncommitted writer holds the row (`HoldsWallet`, `HoldsEntry`), `Abort` is
any failure between two statements (timeout, lost connection, crash), and
`DeadlockVictim` is PostgreSQL's detector. An amount is any integer: neither the
service nor the schema checks its sign. `SerialLedger` has one step per call
and an overdraft check against the balance of that step; it is the refinement
target for one client.

**AuditChain.** `ReadPrevious` is the read of the newest row, with the checksum
computed from it; `Stamp` takes `createdAt` and may be followed by other writers'
commits before `Append` makes the row visible; `Swallow` is the `catch` that drops
it. SHA-256 is ideal: a checksum is the text hashed, reduced to what can differ
between writing and verifying - which fields the writer lists, the actor, the key
order of `metadata`, the previous checksum. `DeleteUser` clears the actor of its
rows (`ON DELETE SET NULL`). `VerifyChain` is verifyChain's loop.

**Account.** `Login` reads the row and awaits bcrypt; `LoginFails` and
`LoginSucceeds` write from what it read. `ForgotPassword`/`StoreResetToken` and
`ResetPassword`/`OpenAccount` are the two halves of those handlers. `WriteAndEvict`
and `Evict` are the writes that delete the cached profile afterwards,
`ToggleUserActive` the one that does not. `ValidateMisses`, `ValidateReads`, `Fill`
are `JwtStrategy.validate` on a cache miss. `was` is history: whether requests
overlapped, and failures since the account was opened.

**Session.** A token and a secret are numbers never used before. `Refresh` finds
the row by the token's hash; `GenerateRefreshToken` stores a new one over whatever
is stored by then, for refreshes and sign-ins alike. `Setup`/`StoreSecret`,
`Enable`/`SetEnabled`, `Disable`/`ClearSecret` are the halves of MfaService.
`SignIn` covers the password and the Google sign-in, which share their ending.
History `past` records which exceptions happened (two refreshes, or two changes of
the settings, overlapped), the tokens exchanged and the secrets proven.

**Budget.** A transaction is its kind (approved expense, pending expense, income),
amount, category and link; a budget its category and `spent`. `Settle` and
`SettleMore` decide, after the write of the transaction, which totals the request
goes on to change; `FindLess`/`Subtract` and `FindMore`/`Add` are read and write of
each. `findFirst` without an order picks any budget of the category.
`RecalculateBudgetSpent`, `ReadLinked`, `ReadUnlinked`, `StoreTotal` are the four
round trips of a recalculation. `Stop` is a crash or a write whose row is gone.
Transactions and budgets have owners (`Owner`). createTransaction, approveTransaction
and the recalculation ask for the user's own budget and transactions; updateTransaction
stores whatever link it is given and changes that budget's total by its id alone.
`was` is history: `"exact"`, `"apart"` (a request stopped half-way, or an expense is
counted without a link or in a budget of another user), `"raced"` (a request wrote from
something that had changed since).

**Rbac.** `assigned`, `perms` and `status` are the tables: a user of any legacy role may
be given roles, but only `ADMIN` and `SUPERADMIN` pass RolesGuard (`Live`). `cache[a]` is the set of
at most one entry that Redis holds for `a`. Every request starts with
PermissionGuard: `Begin` is the read of the cache, `Load` the query with the
fallback for an administrator without roles, `Fill` the write of the entry; at
`pc = "handle"` the permissions are known and a handler may start. `Remove`,
`RemoveCounts`, `RemoveWrites` are the three round trips of removeRoleFromAdmin,
`SetAdminRoles`, `ClearRoles`, `InsertRoles` those of setAdminRoles, `FindUsers` and
`Evict` the invalidation that follows a change, one key at a time. `Seed`,
`SeedClears`, `SeedCreates` are the seed, which evicts nobody. A query that joins
a user's roles and their permissions is one read. Unknown ids in setAdminRoles
are one kind of list (`hasCode`): it skips the check, because the check looks for
codes where the list has ids, and then fails to insert. History: `stale` holds
those whose entry may be wrong with nothing left to evict it, and says why at
each action that adds to it; `bypassed` says that a SUPER_ADMIN was taken away
where the check could not see it, or where it counted a holder who is no administrator.
createAdmin never gives SUPER_ADMIN: the check in front of it compares the actor's role
with `'superadmin'`, where the column has `SUPERADMIN`, and refuses everybody.

The modules so far share no variables: their services meet in different columns
of the same rows. Login is in both Account (the password and the lock) and
Session (what follows). The next two families are composed.

**Platform.** `Desk` has the accounts and, for each client, the request that it is
in: stage, asker, row, value to be written, what was read. `Begin` starts a request
of several round trips, `Once` one of a single one, `Go` and `End` are the steps
between. `AdminRoutes` is the catalog of roles and what each administration route
asks for; `Admin(u, routes, route)` is the guard. `Redis` is get, set, del and
expiry, each of which swallows an error, with the history `excused`: keys whose
entry may be old with nothing left to delete it. Each service module adds its table,
its handlers cut at their awaits, a `...Next(c)`, and what a deleted account does
to its rows (`ConsentsDeleted`, `Orphaned`, ...). `Platform` takes them together:
`DeleteUser` is one delete with every foreign key that it fires or that refuses it,
`Stop` ends any request between two of its statements, `Background` is what no
request makes (messages in flight, expiring entries, the clock of a banner).

- *Approval*: both deciders read PENDING and update by id; `overlapped` is the
  history of requests that two calls were in at once.
- *Consent*: `CheckPolicyConsent`, `CheckPrivacy`, `CheckConsents` are the three
  reads of a check; `held` is the history whether what it will answer was true at
  some moment since its first.
- *Support*: a request takes the time when it prepares a statement (`Stamped`,
  `StampTouch`) and the statement arrives later, `TouchCase` perhaps after a newer one. A
  case is its newest message's time and its `updatedAt`. The clocks of the processes and
  of the database are taken for one that never goes back.
- *Inbox*: `Notify` starts a createNotification that nobody awaits; `InsertNote`
  and `EvictNote` are its two round trips, `DropPost` is the process that ends. The banner
  is listed from `StartDate` to `EndDate`, by a clock of hours that a list reads before its
  query; `NewHour` passes either date without a deletion. `promised` is the history of
  readers to whom a stored broadcast owes a message.
- *Habit*: `today` moves on at any moment; the log counts how often a day was
  logged, and `Streak` is the arithmetic on the row as it was read: the difference of two
  local midnights in hours, so that a day of 23 or 25 hours makes diffDays a fraction.
- *Group*: createGroup inserts its members in any order, one refused insert rejects
  the call and keeps the others; `Net` is getGroupBalances as a fold over members.
- *Task*: the tasks, and the finances on the dashboard. createTransaction,
  updateTransaction, approveTransaction and deleteTransaction delete the dashboard's entry
  after their write without waiting (`finance/finance.service.ts:74`, `:110`, `:169`,
  `:204`); `SettleGroup` writes a transaction and deletes nothing. What the dashboard shows
  of tasks and habits is deleted by nobody, and is as old as the entry.
- *Seed*: `Plan` is the sequence of rows that the nine sections look for, `FindRow`,
  `SaveRow` and `SavePart` what each does; it runs on an empty database, before the
  first request.

**Edge.** `UserStore` is the row, with tokens, links and secrets as numbers never
used before. `Browser` has the cookie jar: a request takes the cookies along when it
is sent, its answer replaces them when it is delivered, and both may overtake others or
be lost (`Lose`: the proxy's binding throws after or before the handler ran). `Met` and
`crossed` are the history of requests that met another of their family.
`AuthWorker` is each route of auth-worker cut at its awaits, `Google` klenzo's
other way to the same row. `AuthRpc` is api-worker's call with its deadline (`timers`),
served in two awaits - the token is verified, then the row is read - and answered with
headers, at which the timer is cleared, and a body. It is held against `TokenLookup`, the
abstract promise: every question ends, with nothing learnt or with an answer about a token
that verified at one moment of the question and of the person as he was at that moment or a
later one. The answer as a whole may have been true at neither: an account that was locked
while the token was valid, and opened after it expired, is reported active. `Delivery`
puts the retrying, circuit-broken client in front of either server-side guard.
`Delivery` shares no state with the rest: `Edge` starts either with the one or with
the other, so that one run speaks of both without the product of their states.


## The runs

| run | checks | instance | distinct states |
|---|---|---|---|
| `ledger` | OverdraftOnlyUnchecked, TransfersPaired, ReversalsLinked, PostingsAtomic, EveryCallEnds | 2 clients, 2 wallets, amounts 1 and -1, 5 entries | 250 thousand |
| `ledger_serial` | LedgerVerifies, SerialLedgerSpec | 1 client, 2 wallets, amounts 1 and -1, 5 entries | 22 thousand |
| `ledger_lost_update` | RunningBalance is violated | 2 clients, amount 1 | |
| `audit_chain` | TypeOK, Rooted, BreaksHaveACause, BreaksStay | 2 writers, 1 user, 4 rows | 2.6 million |
| `audit_unaltered` | UnalteredEntriesVerify is violated | as `audit_chain` | |
| `account` | FifthFailureLocks, LimitLocks, LocksEventually, CacheCatchesUp; RefreshOnce, LogoutHolds, ProvenSecret | 2 requests, limit 5; 3 requests, 3 tokens, 2 secrets | 889 thousand |
| `mfa_unproven` | EnabledIsProven is violated | 2 requests | |
| `budget` | TypeOK, SpentIsTotal, RecalculationRestores | 2 requests, 1 transaction, a budget of each of 2 users, amounts 1-2, totals to 2 | 2.2 million |
| `rbac` | TypeOK, SuperAdminRemains, CacheExplained, PermissionsCatchUp | 2 requests, 2 users, 2 roles, 2 changes, 1 fault | 1.6 million |
| `platform` | TypeOK, SeparationOfDuties, DecisionsStand, CompleteMeansConsented, ListedByActivity, CachesExplained, BroadcastReachesAll, StreakIsRun, DebtsMatchCredits, SeedComplete | 2 clients, 4 people, 3 requests, 1 fault; 2 scripts | 822 thousand |
| `habit_periods` | PeriodsCountOnce is violated | as `platform`, 1 client | |
| `edge` | JarCurrent, SecondFactor, LinksWorkOnce, RpcImplementsLookup, KeyedOnce | 2 clients, 3 requests, 1 lapse; 2 retries, 2 isolates, 1 fault | 989 thousand |

Bounds and why they are enough:

- *Ledger.* Five stamps allow two transfers that deadlock, or a transfer, its
  reversal and a racing posting. Two clients are what a lock cycle and a lost
  update take. `Room` keeps a call from starting when its rows would not fit, so
  every call can end. The amounts are one of each sign: a wallet can be too low for a
  debit, and a credit can lower it.
- *AuditChain.* Four rows and two writers give a fork, a row after a fork, a late
  commit between two visible rows and a lost row, in any combination. The proofs
  remove the bound.
- *Account.* The limit is the real one, 5; the count stops at 6, one past it,
  which is what an overlapping or an administrator-opened account reaches.
- *Session.* Two concurrent exchanges of a token take two requests, a third makes
  a sign-in overlap both. Two secrets are one before and one after a setup. Account and
  Session share no variable, so `MCAccount` lets a behaviour be of the one or of the
  other, and one run checks both without the product of their states.
- *Budget.* One transaction and one budget let two requests collide on both rows; the
  second budget, of another user, is there for the links that updateTransaction does not
  check. The run follows two requests at a time only while that second budget does not
  exist and the stored amount is 1 (what a request is about to write may be 2), and one
  request at a time in all other states (`Focus`): everything together is out of TLC's
  reach. Moving a transaction between two budgets of one user is not run. A step that
  would write a total above `MaxSpent` is not taken; its request can still stop.
- *Rbac.* Two users - an administrator with SUPER_ADMIN, an ordinary user, or one who does
  not exist yet - and two changes are what two racing removals, a removal after a role for an
  ordinary user, a creation that races an assignment, or a fill that races a change take;
  the second role grants less than SUPER_ADMIN, so entries can differ. One fault is one
  lost eviction or one stop. A role's permissions can be set to one set (`Grants`) that
  lets its users administer. Users are interchangeable, and a SUPERADMIN may ask for
  whatever an ADMIN may, so the run begins with `ann` a SUPERADMIN (`AnnFirst`) and does
  without symmetry, which liveness would not allow.
- *Platform.* `MaxDesks = 1` lets a behaviour use one service, besides the deletion
  of accounts, stops and the background; each service is an initial state, as is
  the empty database with its script. Three requests of two clients are a reader
  or decider, one that races it, and a deletion. The users are a super
  administrator, one who may decide approvals, and two without a role; `fin` and
  `ann` can both be asker and decider. Two policy versions, one case, one message
  a reader, one flag, a banner for one hour of three, four days of which one has 25 hours
  and one 23, with a week of two, one expense each, two figures for a user's finances. Behaviours
  that use two services at once were not run: they meet in the accounts, the
  inbox and the cache, which every service's run has already. The seed's plan has
  one user, one template a section (two transactions that look for the same
  description, as seed.ts has) and two parts, for two scripts started twice.
- *Edge.* Three requests are a session to begin with, a request and the one that
  crosses it; `MaxFailed = 2` stands for the limit of five, at which login only
  stops counting; one token, cookie or link may run out. Three attempts of one
  operation are a first, its repetition, and one after a fault.

What the passing runs show, beyond types:

- *PostingsAtomic*: a wallet changes only in the step that appends an entry with
  that very balance, and entries change only from POSTED to REVERSED - also when
  the balance written is stale. *RunningBalance* is the stronger statement that
  fails. *OverdraftOnlyUnchecked* says that stale balances never make a wallet
  negative; only a posting that lowers it without a look at the balance does: taking back a
  credit, or a credit of a negative amount, which nothing refuses.
- *SerialLedgerSpec*: with one call at a time the service is `SerialLedger`.
- *BreaksHaveACause* and *BreaksStay*: verifyChain reports a fork or an
  unverifiable row, never a lost write, and what it reported once it reports ever
  after.
- *FifthFailureLocks* holds for requests that do not overlap; *LimitLocks* and
  *LocksEventually* say what is left when they do.
- *RefreshOnce*, *LogoutHolds*, *ProvenSecret* name exactly the overlap that each
  promise does not survive; dropping the exception of the last is `mfa_unproven`.
- *SpentIsTotal* names what makes totals drift - a race, a stop, an expense counted
  without a link, and one linked to a budget of another user, which its recalculation does
  not count - and *RecalculationRestores* that an undisturbed recalculation repairs what
  is not an ongoing race. `docs/services/finance-service.md:236-243` speaks of the
  transactions "in the period"; no query of the code looks at a budget's period, and
  neither does the model.
- *SuperAdminRemains* names the four ways around the check for the last
  SUPER_ADMIN (overlapping removals, a list with a code, deletion of the user, and an
  ordinary user who was given the role, is counted, and cannot use it);
  *CacheExplained* names every way a cached permission set can be wrong without an
  eviction on its way - among them a role assigned to a new administrator before
  createAdmin gave him his own - and *PermissionsCatchUp* that none outlives the
  entry.
- *LedgerVerifies*: with one call at a time verifyWalletBalance is always consistent
  and no entry is reversed twice.
- *TypeOK* of Platform has the foreign keys to users in it: a request that read an
  account before it was deleted leaves no row of it behind.
- *SeparationOfDuties* and *DecisionsStand*: nobody approves his own request however
  calls overlap, and a decision changes only by a call that overlapped it.
- *CompleteMeansConsented*: a check of three reads reports complete only what was
  so at one moment, although consents change between the reads; a newer policy
  version is the one exception.
- *ListedByActivity*: a case is listed by its newest message unless the touch is still to
  come, its request stopped, or a write carried an older time past a newer one.
- *BroadcastReachesAll*: everybody with an account gets the message of a stored broadcast,
  whatever becomes of Redis, of other accounts and of other messages, unless the process
  ends first.
- *CachesExplained*: fills after invalidations, with the complete list of what may go wrong:
  a stopped process, a lost delete, a stale read, a date that passes, a settled group.
- *StreakIsRun*: the stored streak is the run of days in the log, with no gap longer than
  the code allows and without the days that a daily habit does not count after one of 23
  hours, except after two completions that overlap, a changed frequency or a stop between log
  and streak; midnight between the check and the insert does no harm. That is what the code
  counts; it is not what `docs/services/habit-service.md:93-96` says of weekly habits, which
  *PeriodsCountOnce* states and `habit_periods` refutes.
- *DebtsMatchCredits*: balances add up to zero unless a payer is no member or one
  user was added twice at once.
- *SeedComplete*: after a whole run every row is there; a habit or a group cut off
  before its parts stays so.
- *JarCurrent*, *SecondFactor*, *LinksWorkOnce*: what a browser holds is what the row
  holds unless named requests crossed; every session while MFA is on goes back
  to a code, through any number of refreshes; a reset link works once.
- *RpcImplementsLookup*: refinement of `TokenLookup` (`INSTANCE ... WITH`), with its
  liveness: every call ends because its timer fires or, once that is cleared, because its
  body ends or is cut off.
- *KeyedOnce*: one key, one commit, unless Redis or the connection failed, two
  attempts overlapped before the marker, or an isolate was another or new.

Fairness. `Ledger!FairSpec` has strong fairness of a call's own statements,
because PostgreSQL's lock queues are first come first served, and weak fairness
of the deadlock detector, which runs for as long as a cycle stands; no call must
abort and nobody must start one. `Account!FairSpec` has weak fairness of a
request's next section, because Node's event loop resumes a handler whose await
is settled, and of `Expire`, because Redis removes a key at its TTL;
`Rbac!FairSpec` is the same, and changes are finite only by the bound. Requests are
never assumed to arrive. `Edge!Spec` has weak fairness of a call's timer (`setTimeout` in
callRpc, `TimerSpec`): while it runs it fires, whatever the server does. callRpc clears it
at the headers, so that the end of the body (`Body`) rests on the transport of the Workers
runtime and not on this code: the fairness of `Body` is an assumption about that runtime,
and with `TimerSpec` alone calls need not end. `TokenLookup` states its liveness as
`Ends(c)`, a leads-to, and not as fairness of its actions, since which of them ends
a call is up to the implementation.
The other specifications have safety properties only.
Deadlock is not checked: every bounded instance stops when its stamps, tokens or
rows are used up.


## What is proved

The type invariants of Ledger, Account and Session are not among the runs' properties:
they are theorems. All of it for any number of clients, wallets, actors, amounts and rows, from the
named assumptions of the modules only (bounds are naturals, amounts are integers - in
Budget positive ones -, NULL is not an id, the midnights of days d < e are 24(e-d) hours
apart, or one more or less, requests, transactions and readers are finite sets, no user is named
like a cache key, the first version of a policy is 1, there is a day, the lists of the
seed are sequences).

- **Ledger.** `TypeCorrect`, `NoOverdraft`, `TransfersAtomic`,
  `ReversalsExplained` and `PostingsAreAtomic`, from one inductive invariant
  (`Invariance`). The four safety properties are not inductive: they speak of
  committed rows, and a step commits what an open call planned long before. So
  `IInv` adds what an open call has read (`ReadsInv`), what its transaction is
  going to write (`TxnInv`), which stamps it holds at which statement
  (`StageInv`), that stamps are handed out once (`StampInv`), and that a negative
  balance on its way has its excuse already (`OverdraftInv`). The proof has one
  lemma per action and, under it, one step per conjunct that the action can
  disturb; steps that touch neither table are dealt with once (`QuietLedger`).
- `SerialRefinement`: under the hypothesis that all clients are one, `Spec`
  implements `SerialLedger!SSpec`. The extra invariant (`FreshOf`) says that
  what the one open call read is still so; every action but `Commit` is a stutter.
- `WalletsVerify` (`LedgerVerifies`) and `SerialBalancesRun`, under the same hypothesis: the
  stamp of the entry being committed is later than all others, so the newest POSTED entry
  of a wallet is the last one written (`Agrees`), and a reversal finds its entry POSTED,
  so nothing had taken it back. `SerialBalancesRun` is `RunningBalance`, which finding 1
  refutes for two clients: overlap alone loses postings.
- **AuditChain.** `ChainTypeCorrect`, `ChainRooted`, `ChainBreaksHaveACause`,
  `ChainBreaksStay`. The argument rests on two facts about rows that point
  backwards: in a valid chain no two rows have the same checksum (`Twins`), and
  rows without a shared predecessor form one chain (`Straight`). Both are by
  least counterexample, from the well-foundedness of `<`.
- **Account.** `AccountTypeCorrect`, `FailuresLock`, `LimitAlwaysLocks`. The
  invariant says that a count still to be written is below the bound, and that
  requests that did not overlap find the row as they read it.
- **Session.** `SessionTypeCorrect`, `RefreshedOnce`, `LogoutIsFinal`,
  `SecretProven`: each property with what the request under way holds.

- **Rbac.** `RbacTypeCorrect`, `LastSuperAdminStays`, `CacheHasACause`, for any finite
  set of users, whatever their legacy roles, any roles and grants. `SuperAdminRemains` is not
  inductive: the invariant adds that only one removal is between its check and
  its delete (`RemovalInv`), and that past the check another holder exists;
  `FreshInv` and `JobInv` are what `CacheExplained` needs of users yet to be created.
  The steps that change no row and no entry are dealt with once (`QuietKeeps`).
- **Platform.** `RowsAreOwned` (`TypeOK`, with the foreign keys), `NobodyApprovesHisOwn`
  (`SeparationOfDuties`), `DecisionsAreKept` (`DecisionsStand`), `CompleteWasTrue`
  (`CompleteMeansConsented`), `TouchesFollow` (`ListedByActivity`), `CachesAreExplained`,
  `BroadcastsReachAll`, `StreaksAreRuns` (`StreakIsRun`) and `DebtsDoMatch`
  (`DebtsMatchCredits`), for any users and requests, and any number of services in one
  behaviour, where the run has one (`MaxDesks = 1`). Each service has an invariant over its
  rows and the requests at its stages (`ApprovalInv`, `ConsentInv`, `SupportInv`,
  `CacheInv`, `HabitInv`, `GroupInv`); `PlatformInv` is all of them. A step of one service
  keeps its own invariant (`...Step`); no two services share a stage (`ServicesApart`), so
  it keeps the others' too (`...Kept`). A stopped request and a deleted account touch all of
  them, and each has its lemma (`...Stopped`, `...Deleted`). What the properties lack to be
  inductive: what a check of consents has read was the latest version then (`Checked`); an
  entry that a request read before an eviction is on its list of excuses (`Explained`); a
  broadcast that has yet to send holds its readers, and none of their messages is lost
  before the process ends (`CacheInv`); between the log of a day and the streak, the habit
  counts the logs without that day (`Undisturbed`); a user has at most one row of the group
  unless two requests were adding him at once (`RowsCounted`), from which the balances add
  up by lemmas about sums over finite sets (`SumLinear`).
- **Seed**, within Platform and in `PlatformProofs`. `SeedAlwaysComplete`, for any scripts,
  starts, users, tasks and descriptions, the latter with repetitions. `SeedComplete` is not
  inductive: the invariant adds that every row of the plan before the one that a script
  is at is there (`Behind`), which is what makes an end of the plan an end with everything.
  The plan is a concatenation of sequences of unknown lengths (`PlanIsSeq`); the steps of
  a script share one lemma about positions (`StepKeeps`) and one about parts
  (`CompleteKeeps`).
- **Budget.** `BudgetTypeCorrect`, `TotalsExact` (`SpentIsTotal`) and `RecalculationExact`
  (`RecalculationRestores`), for any owners. The total is exact only between requests; at any other
  moment it is off by what the requests under way still have to add and to take
  (`Owed`). `BudgetInv` says so for every open budget that nothing disturbed
  (`Exact`), that a draft names only budgets that were there (`BudgetTypes`), and that the
  partial sums of an undisturbed recalculation are still true (`Recounted`). A step
  moves a row, a total and what its request owes by one amount. The sums are folds
  over finite sets; that they do not depend on the order, and change by a term when
  one term does (`SumChange`, `SumSplit`, `SumPart`), is proved by least
  counterexample, from the well-foundedness of `<`.
- **Edge.** `CommittedOnce` (`KeyedOnce`), `SessionsAreEarned` (`SecondFactor`),
  `ResetLinksWorkOnce` (`LinksWorkOnce`), `CookiesCurrent` (`JarCurrent`), and
  `AnswersWereTrue`: the safety half of the refinement of `TokenLookup`, initial states and
  steps, in which a token's verification and the row it is answered by are two steps.
  `DeliveryInv` says who may still write under a key; `EdgeInv` types the calls in the
  worker by the route they serve and says that the number of a token or a link is never used
  again; `LinksInv` and `JarInv` add, for the routes that can cross (`Crossing`), what a
  call has read and is going to write.

Only model-checked: liveness (`EveryCallEnds`, `LocksEventually`, `CacheCatchesUp`,
`PermissionsCatchUp`, and the liveness half of `RpcImplementsLookup`), which needs
ENABLED.


## Findings

1. *Lost postings* (`ledger_lost_update`). All four ledger operations read the
   balance before the transaction that overwrites it. Of two overlapping postings
   the later commit wins and the wallet moves by one amount only, against "The
   ledger is the source of truth for wallet balances"
   (`finance/ledger.service.ts:8`).
2. *Unaltered entries that do not verify* (`audit_unaltered`). The verifier hashes
   eight fields; `AuditLogService.create` hashes seven, `writeAuditEvent` six,
   `jsonb` reorders keys, and deleting a user clears a hashed field, against
   "Returns true if the checksum is valid and unaltered"
   (`audit/audit.service.ts:103`).
3. *MFA on for a secret nobody proved* (`mfa_unproven`). `enable` checks a code of
   the secret it read and turns MFA on for the one stored by then
   (`auth/mfa.service.ts:78`).
4. *Weekly streaks count completions* (`habit_periods`). Every completion within seven days
   of the last one adds 1 to a weekly streak (`habit/habit.service.ts:98`), so two days of
   one week count as two weeks, against "Multiple completions in the same period count as
   one" (`docs/services/habit-service.md:96`); a missed week ends the streak only at the next
   completion.

Smaller divergences met on the way, without a run of their own:
`createTransaction` counts an expense into the budget that `dto.budgetId` names and
does not store the id (`finance/finance.service.ts:46`), which `SpentIsTotal` names
as one of its exceptions; `withIdempotentTransaction` returns the in-flight sentinel
where its comment says it throws (`libs/database/src/transaction.ts:55`);
`IdempotencyGuard` goes on answering 202 "processing" for a day after the first
attempt failed; the seed's weekly habit has a streak of four and one log, and its
second "Monthly salary" is never saved, because the first is found; the "Deadline for each
call (default 2 s)" of `apps/api-worker/src/lib/auth-rpc.ts:73` ends at the headers of the
answer (`:113`) and does not cover its body; `postCredit` and `postTransfer` take amounts
below zero; `updateTransaction` links to, and changes the total of, a budget of any user
(`finance/finance.service.ts:136`, `:158`).


## Limits

Abstractions, and why they lose nothing the properties tell apart: amounts are
whole numbers (`Prisma.Decimal` is exact; in Budget `Number()` and the rounding to
cents are the identity on them); ids, tokens, secrets and transfer ids are fresh;
`createdAt` stamps differ; SHA-256 is ideal; a TOTP code is right or wrong for a
secret, its 30-second window is not modelled; a budget's limit, period, dates and
notification are left out, since `spent` does not depend on them; the empty
category behaves as none. Account, Session and Edge have one account's row, and none of
their operations writes two users' rows; updateTransaction does, and Budget has the
transactions and budgets of several users.

In Rbac the catalog has the seven permissions that matter to these operations,
the guard's read of Redis does not fail (a failing read falls back to the query,
as a miss does), and stamps, names and the audit entries (AuditChain) are left out.

In Platform texts, priorities, e-mail and sockets are left out; one row stands for
a table where rows of a table do not meet. `Desk` requires an account for each
step that JwtStrategy guards at the start of a request only, as the code does;
the cached profile that lets a deleted user go on for a while is Account's. In
Edge passwords, codes and links are right, stale or wrong; one person's row is
modelled, so addresses are not told apart.


## Not modelled

- Adapters for jobs, webhooks, API keys, WebAuthn, push and storage: they hand a record
  to an external service, and no other service of the application calls them but
  storage, for one file.
- Stub controllers (wallets, transfers, payroll, kyc): they answer with constants.
- The gRPC services: they forward to the services that are modelled.
- The database's audit triggers: they copy changes into a table nobody reads.
- The event bus, the queue publisher, the domain events and the queue messages of
  `libs`: type definitions and helpers without a caller.
- Statistics, trends, exports, lists and reports: they only read.
- Signup of klenzo (one new row; auth-worker's `register` is modelled) and the
  in-memory list of devices, which decides nothing.
- HTTP plumbing, validation schemas, formatting, logging, metrics, configuration.

`PROJECT.json` has them by component, with the files.


## Plan

What moves money and what guards an account was modelled first, then the services that
share accounts and the cache, then the Cloudflare front. What is left, in order:

1. An abstract operation that happens at most once, and `Delivery` shown to implement it
   where none of the faults that `KeyedOnce` names occurs.
2. What `SerialLedger` promises of sums: a transfer keeps the total of the wallets.
3. Larger instances: two services of Platform in one behaviour (`MaxDesks = 2`), two
   budgets of one user.
