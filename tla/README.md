# A verification project for Keychute

Keychute is a secret broker: a client asks for access to a named secret, a
policy or an operator decides, and a *grant* lets the client read the secret (or
use it through a proxy) a bounded number of times. The server keeps all durable
state in PostgreSQL; handlers are sequences of SQL statements and transactions
that run concurrently with each other and with a background sweeper.

This directory holds TLA+ models of that server and of its command line client,
TLC configurations that check them on small instances, and TLAPS proofs.
Definitions keep the source's names where they can; `PROJECT.json` maps each definition to the lines it models. All
paths below are under `src/server/src/` unless they say otherwise.

## 1. Inventory

| Component | State | Operations | Hard parts |
|---|---|---|---|
| Grants (`db/grants.rs`, `api/grants.rs`) | grant rows: use count, revoked, sealed payload; replay rows per key; audit log | `begin_grant_use`, read, revoke, purge, unpin | many reads of one grant, lost responses, rotation and sweep between snapshot and use, restart losing the ephemeral KEK |
| Brokered proxy (`proxy.rs`) | stream slots | judge the call, count a use, inject, send upstream, relay, stream | caller leaves or deadline fires after the use was counted; two URL parsers and two header filters must agree on what the call is |
| Stored secrets (`db/secrets.rs`, `db/ui_ext.rs`, `db/mod.rs`) | rows with id, version, vetted flag; advisory locks per name | deposit, create, rotate, review, update, delete | names are reused, pages are stale when submitted, deletion races minting |
| Access requests (`api/requests.rs`, `db/api_ext.rs`, `db/requests.rs`, `ui/mod.rs`) | request rows keyed by (client, idempotency key) | create, approve, deny, expire, purge | concurrent retries, pending cap, transaction time against wall time |
| Notifier and sweeper (`notify/mod.rs`) | outbox columns of the request row, `push_lock` | push on create, push on sweep, deduplicate | two senders for one row, sends that fail, time out or arrive unrecorded |
| Wait endpoint (`api/requests.rs`, `state.rs`) | in-memory waiters and per-client slots | wait, notify, take and drop slot | lost wake-ups, leaked slots |
| Policy engine (`policy/mod.rs`, `db/policies.rs`, `ui/policy_store.rs`) | policy rows | evaluate, overlap, subset, edit rows | precedence, scopes, tie-breaks, path prefixes, inputs read in several statements |
| Keyset (`crypto/mod.rs`, `db/mod.rs`) | keyset file, keyset of the process, wrapped keys in rows | seal, open, rewrap, check, retire | retirement racing a seal, commits of a dead process, order of the advisory and row locks |
| Provisioning (`db/provision.rs`, `config.rs`, `db/clients.rs`) | rows managed by configuration | reconcile at startup | adoption and removal of rows, crash halfway |
| Deposits API (`api/secrets.rs`) | deposit counts | deposit | rolling rate cap under concurrency |
| Authentication (`authn/`), CSRF (`ui/csrf.rs`), signing (`sigv4.rs`, `injection.rs`), server shell (`lib.rs`, `main.rs`, `api/mod.rs`), audit (`audit.rs`) | mostly none | verification and formatting | |
| Command line (`cli/src`) | options, retry counters, output file | curl, request, store | what is approved and what is sent, retries with one key, exit codes, files that must survive a failure |
| Shared types (`types/src`) | none | parse, canonicalise | |

How they meet. A create handler evaluates policy against the stored secrets and
inserts a request row, decided or pending, with its grant if one was decided; it
then pushes a notification. An operator's page decides a pending row and inserts
the grant. Reads and proxy calls use grants; deleting a secret revokes the
grants under its name. The sweeper expires requests, purges what grants and
requests no longer need, and pushes what the outbox still owes.

What makes each part correct, in one line each: a grant never gives more than
its budget, and one key has one answer; a grant only ever releases the row that
was decided about; one key creates one request, decided once; every request
reaches the operator, without needless repeats; nothing sensitive stays at rest
for ever; a server serves only what its configuration and its operators say; a
key is removed only when nothing needs it; a run of the client ends, says truly
what happened, and sends only the call that was approved. `PROJECT.json` lists
the hazards, each at its line, with the properties that would catch it.

## 2. Modules

Each model is parameterised by constants; `MC*` modules add only symmetry and
constant definitions for TLC. The database clock `now` is a number; SQL `now()`
inside a transaction is the value at its BEGIN (`txNow`), because that is what
PostgreSQL returns, and several properties depend on the difference.

**`Grants`** - one call per handler invocation (`calls`), each advancing
statement by statement: `ReadArrives`/`ProxyArrives` (snapshot of the grant and
of its payload source), `Revalidate`, `Resolve` (look up the version to release),
`Begin` (the transaction's `now()`), `UseRefused`/`UseReplay`/`UseFirst` (the
body of `begin_grant_use` under the row lock), `FetchPinned`, `Respond`,
`Abandon`. Around them: `Mint`, `Revoke`, `SweepPassthroughs`,
`UnpinStaleReads`, `StoreVersion`, `DeleteSecret`, `Restart` (new ephemeral KEK,
calls in flight lost), `Tick`. A payload is a version row's id, or `Passthrough`.
History: what left (`released`, `sends`) and what each key was first settled to
(`answer`).

**`GrantLedger`** - what a grant promises without handlers, clocks or crashes: a
budget, one settled answer per key, and death that stops spending. `Grants`
implements it (`ImplementsLedger`).

**`Secrets`** - a name stands for a succession of rows with distinct ids.
Deposits, creation, rotation, settings, review and its confirmation; approval
pages (`Render`, `ApproveStored`, `ApproveValue`) and automatic decisions
(`AutoDecide`) that mint grants through `LockSecret`, `CommitMint`,
`RollbackMint`; deletions through `ConfirmDelete`, `LockDelete`, `DeleteRow`,
`CommitDelete`, `RollbackDelete`. Advisory locks and the row locks of
uncommitted deletions are explicit guards. `Review` is the page about an unvetted
row. It carries the form that vets the version it is about (`forms`), whether or
not the operator had the bytes revealed on it. `typed` holds the versions that
operators typed themselves.

**`Requests`** - creation (`Arrive`, `Lookup`, `Evaluate`, `BeginInsert`,
`LockPending`, `Insert`, `Check`, `CommitInsert`, `Respond`), operators
(`StartApprove`, `StartDeny`, `BeginAct`, `Update`, `RollbackAct`), and the
sweeper (`ExpireStale`, `PurgeContext`). The policy's decision is an arbitrary
one. Locks of the secret are not repeated here; waiting for them is the time
that may pass between `BeginInsert`/`BeginAct` and the next step.

**`PushOutbox`** - each create handler and the sweeper are senders; a push is
`TakeLock`, `Dedup`, `Claim`, `SendOk`/`SendFails`/`SendArrivesLate`, `Mark`, or
`MarkCovered`. `StartSweep`, `SweepNext` and `SkipRest` are the push phase with
its budget. All requests are identical to deduplication, the case in which they
affect each other.

**`PolicyEngine`** - the pure part of policy: `evaluate` with its hard caps, deny
rows by overlap, other rows by subset, precedence and clamps, and the fail-closed
parsing in front of it (`policy_inputs`). Lists whose order does not matter are
sets, and an empty one is unconstrained, as in the code. A path is the sequence
of its canonical segments; case is a map on segments and methods, so that the
three places that treat it differently (a deny ignores it, a subset and the proxy
do not) stay different. What `canonicalize` refuses never reaches these
functions: it is an error in a request, and makes a stored row unreadable.

**`Policy`** - the engine at work. A create call is `Arrive`, `ReadSecret`,
`ReadTags`, `ListPolicies`, `Decide`, `Insert`: one action per statement, because
nothing holds the tables still in between. An operator approves with
`ApproveStored`, `ApproveValue`, or with another stored secret: `Substitute`, the
same reads, `DecideSubstitute`, `CommitSubstitute`. Meanwhile operators edit rows
(`CreatePolicy`, `UpdatePolicy`, `DeletePolicy`) and secrets (`AddSecret`,
`UpdateSettings`, `MarkVetted`), and a deployment replaces the client's settings
(`Restart`). `Forwards` is the proxy's decision on a call in the present state.
Each slot keeps the evaluations it rests on (`basis`) so that properties can
compare what is forwarded with what was decided on.

**`Provision`** - what a starting server does before it serves. `Start` loads a
configuration that validates (its value files are part of it),
`ReconcileClients` is one transaction of three statements, `FailToRead` stops at
a missing file, `ReconcileOneSecret` is one transaction per secret, `ListStale`
and `DeleteStale` remove managed rows that are no longer listed, and
`ReconcilePolicies` treats the managed rows as a bag. `Crash` may come between
any two. While the server is up, operators and clients write rows of their own
(`Create`, `Rotate`, `UpdateSettings`, `MarkVetted`, `DeleteSecret`,
`InsertPolicy`, `UpdatePolicy`, `DeletePolicy`). One server runs at a time, as
the chart's single replica and its Recreate strategy ensure, so a start is
sequential; what it must survive is its own crashes and every order of
configurations. The unique indexes on credentials are explicit (`Collides`), and
so is the order in which tags are compared (`TagsDiffer`): `Alike` holds the sets
of tags that the database's collation and Rust's byte order list alike.

**`Keyring`** - keys and the transactions that write under them. Each kind of
transaction is a plan (`DepositPlan`, `RotatePlan`, `ApproveStorePlan`, ...): the
advisory locks and row locks the function takes, in its order, with the count,
the seal or the check where they happen. `Begin`, `Acquire`, `Wait`, `Count`,
`Seal`, `Check`, `Commit` and `Abort` run the plans; a lock is granted as
PostgreSQL grants it, behind the conflicting requests that wait already. The
operator adds, rewraps and retires keys (`AddKey`, `Rewrap`, `Retire`), a process
reads the file once (`Restart`), and a transaction of a dead process keeps its
locks for a while and may still commit. A check is begun only for a key that is
active neither in the file nor in the running process, as the runbook has it
(`docs/DESIGN.md`: add, activate, rewrap, verify, retire). This is an assumption
on the operator (`Superseded`), not a guard of the code: `verify_no_references`
takes any id, and a key that is still active could pass it and then be removed.

**`Invocation`** - one command line of the client and the broker's judgement of the
same call, as functions: what the client accepts (`ParseTarget`,
`ValidGrantOptions`, `CurlUsage`, ...), the call it makes (`CallOf`), what its
idempotency key is bound to (`BoundCall`), what the proxy checks (`Judged`,
`Injectable`) and what leaves for upstream (`Outbound`), and the exit code of
every failure. URLs are records; a path is its segments and the way it is
spelled, because what the two parsers do differs only between classes of
spelling. Lists of headers are filtered by position (`Filtered`), without
recursion, so that two filters in a row can be reasoned about.

**`Cli`** - runs of `curl`, `request` and `store` against the server. The short
calls are single steps that may be lost on the way there or back: `Create` and
`ReadGrant` are made again with their key, `CheckGrant` and `Store` are not; the wait endpoint
(`WaitEnter`, `WaitCheck`, `Poll`, `WaitRead`) and the proxy (`ProxyEnter`,
`ProxyCount`, `ProxyForward`, `ProxyRelay`, `ProxyDeadline`) have handlers that go
step by step, hold their slot, and may lose their client at any point (`Lose`); a
handler whose client is gone may go on for a while (`Late`). `notify_waiters`
wakes only who is asleep. `Restart` may come at any time, any number of times.

**`GrantsProofs`**, **`PolicyProofs`**, **`ProvisionProofs`**, **`KeyringProofs`**,
**`SecretsProofs`**, **`RequestsProofs`**, **`PushOutboxProofs`**, **`CliProofs`** -
the theorems about the modules of these names; `PolicyProofs` also covers
`PolicyEngine`, and `CliProofs` covers `Invocation`.

## 3. Runs

| Run | Shows | Instance |
|---|---|---|
| `grants` | `TypeOK`, `UseBudget`, `OneAnswerPerKey`, `ReplayEntitlement`, `WriteAheadAudit`, `ImplementsLedger`, `NothingHeldForever` | 1 grant of 1, 2 or unlimited uses, 1 key, 2 concurrent calls, 2 versions, 1 restart, 4 instants with a window of 1, fair sweeper and clock |
| `secrets` | `NoOrphanGrant`, `AutoReleasesVetted`, `VettedAsReviewed`, `NamesNotTakenOver`, `DestroyedAsConfirmed` | 2 names (the operator may substitute another secret), 2 rows, 2 versions, 1 request, 2 deletions |
| `secrets_shown` | counterexample to `ApprovedAsShown` | see findings |
| `requests` | `OneRequestPerKey`, `GrantCapped`, `DecidedOnce` | 1 key, 2 payloads, 2 creations, 1 operator |
| `requests_settled` | `PendingCapHolds`, `SettledAndForgotten` | 2 keys, 2 creations, cap 1, fair sweeper and clock |
| `requests_born` | counterexample to `NotBornExpired` | see findings |
| `push` | `NoRepeatedPush`, `SomeoneTold`, `EventuallyPushed` | 2 identical requests, 2 faults, fair senders and sweeps |
| `push_suppress` | counterexample to `OnlyRealPushesSuppress` | 3 identical requests, 1 fault |
| `policy` | `AutoWithinScope`, `DenyRespected`, `LapsesWithRow`, `TieNeverWidens` | every table of up to 2 of 8 rows, 4 requests, 2 secrets, 5 paths in two cases, 1 edit during the call, 2 instants |
| `provision` | `Converged`, `CredentialsAsConfigured`, `NeverCollides`, `QuietRestart`, `OperatorRowsKept` | 5 configurations in any order, 2 clients, 2 credentials, 2 secrets, 2 rules of up to 2 copies, crashes and edits without bound |
| `keyring` | `RowsOpenable`, `ReportStaysTrue`, `NoCyclicWait`, `DepositCap` | 3 transactions of 7 kinds on one name, one client and one request, 2 KEKs, cap 1, 2 instants |
| `cli` | `SlotsAccounted`, `ExitHonest`, `ApprovalServesCall`, `ApprovedCallSent`, `OutputKept`, `EveryRunEnds` | 2 runs from 20 pairs of command lines, 2 attempts, 2 wait errors, caps of 1, a late handler, restarts without bound |

Every property of a passing run has a mutant in `PROJECT.json`: a plausible bug
(an operator marked `Fault` in the module) that makes TLC find it violated.

*Bounds.* Grants do not interact except through the secret, so one is enough;
two calls give every race between a first use, a replay and a proxy call, and two
proxy calls race for the last use. Two keys that race on one grant are left to the
proofs, which hold for any number of keys: with them the temporal properties no
longer fit. Clocks run past the replay window or the expiry so that the windows
open and close. Two rows of one name are needed for reuse, and two versions for a
stale page. A cap of one with two keys is the smallest cap that can be exceeded.
Three identical requests are the smallest chain of deduplication. Policy rows
interact in pairs (a deny against a release, or two in a tie), so tables of two
suffice once the rows differ in every dimension; `Written` bounds what operators
write and one request is enough because requests do not affect each other. The bounds are
named constants (`MaxTime`, `MaxVersions`, `MaxId`, ...) and appear only in
guards. The configurations of `provision` are the five that differ in kind: a first
one, one in which credentials change hands and a file is rotated, one that drops
a client and reuses its credential, one that does not validate and one with a
missing file. In `keyring` three transactions are the smallest set with a holder,
a waiting exclusive request and a shared one queued behind it; the kinds left out
of the run (`provision`, `approve`, `auto_request`, `settings`) have plans that
are parts of the others', and the proofs cover them. In `cli` a pair of command
lines is chosen so that the two share what could confuse them: an idempotency key
with the same or another body, a grant with one use left, a name to deposit, an
output file, the token file; caps of one let them refuse each other. One late
handler is enough to fill a slot behind a client's back. The second run of a pair
may be any of eleven unusable command lines, which must end before anything is
sent. Deadlock checking is off where a model stops when its bounds are used up or
its runs are over, that is everywhere but in `provision`.

*Fairness.* Only what the code schedules by itself: the sweeper's phases
(`spawn_sweeper` ticks for ever, and one phase's failure does not skip another)
and the passing of time; in `PushOutbox` also the senders, whose sends are
bounded by `PUSH_SEND_TIMEOUT`. Clients and operators owe nothing. That a send
succeeds in the end is an assumption about the notification service, expressed
by the bound on faults, without which `EventuallyPushed` is false. In `Cli` a
step of some client or handler is taken as long as one can be (programs and
tokio tasks run on, a handler's next tick and deadline come), and the sweeper
expires what stays pending. This is weaker than fairness for each run. Nothing is
assumed of the operator, the upstream, the notification of waiters or the
client's own timeouts: `EveryRunEnds` holds through the ticks, the expiry, the
bounded attempts and the proxy's deadline alone.

## 4. Findings

1. *`secrets_shown`* - the approval form is bound to the secret's version number,
   not to its row. A secret deleted and re-created under its name, at the same
   version, is approved by a page that showed the old row.
2. *`requests_born`* - the recheck of a grant's deadline inside
   `approve_request` and `insert_access_request_with_id` compares with `now()`,
   which PostgreSQL fixes at BEGIN, before the lock waits that the recheck is
   meant to cover. A grant can be expired when it is committed.
3. *`push_suppress`* - `push_attempts > 0` is meant to say that a row really
   pushed. It counts claims, so a row whose own send failed and which was then
   covered by another one can suppress a third.

None of them breaks a safety property of the passing runs: in 2 the client gets
`grant-expired`, in 3 the operator has been told of an identical request
(`SomeoneTold`).

Two comments promise more than the code does. They follow from single lines, no
interleaving is needed, and no run is spent on them; the properties state what
does hold.

* `mark_secret_vetted` says that `reviewed_version` is "the version whose plaintext
  the operator was actually shown" (`db/secrets.rs:293`; likewise `ui/mod.rs:3715`
  and `3731`). `review_secret` shows the bytes only on an explicit `reveal=1`
  (`ui/mod.rs:3498`), but gives out the "Mark reviewed" form in either case
  (`ui/mod.rs:3551`), so a deposit that nobody looked at can be vetted.
  `docs/DESIGN.md:169` and `docs/IMPLEMENTATION.md:330` describe the reveal as
  optional. `VettedAsReviewed` therefore says that the row and version vetted are
  those of a page that was opened, and nothing about the bytes.
* `db/provision.rs:10` says that "a restart that changes nothing writes nothing".
  `reconcile_one_secret` compares tags as a list in the database's collation with a
  list sorted by bytes (lines 126 and 131). Where the orders differ (under
  `en_US.utf8` the tag `db` comes before `Prod`, by bytes after it) every start
  rewrites and audits the secret. `QuietRestart` therefore has the proviso that the
  tags sort alike.

Two limits that no document contradicts:

* A create call reads the secret, its tags and the policies in separate
  statements. While deny rows stand on both tags `old` and `new`, an operator
  moves a secret from `old` to `new` and then deletes the row on `old`; a handler
  that read the tags before and the rows after approves a request that the tables
  denied at every moment. `DenyRespected` is about the rows the handler read.
* `injection_header` explains that only failures which depend on the stored bytes
  come after a use is counted. Under `aws-sigv4` an `x-amz-*` header of the caller
  that is not ASCII is refused (`invalid-request`) after the count as well, so
  such a call costs a use (`Injectable`).

## 5. Proofs

`GrantsProofs` proves, for any sets of grants, keys and calls and any values of
the bounds (`ConstantsAssumption` asks only that keys and calls are finite, that
numbers are numbers and that the null values are distinct):

* `TypeCorrect` - `Spec => []TypeOK`;
* `Invariance` - `Spec => []IInv`;
* `BudgetHolds`, `AnswersAgree`, `AuditedAhead`, `ReplaysHonoured` - the four
  safety invariants of run `grants`;
* `Refinement` - `Spec => ImplementsLedger`.

None of the safety invariants is inductive, because each is about what left the
server while the decision is in rows and in calls on their way. `IInv` adds the
links: `Counted` (keys burned, plus proxy calls past their use, plus requests
sent, never exceed `use_count`: a call in flight holds a use that nothing else
shows), `Capped` (`use_count` under `max_uses`), `Settled` (replay row, history
and audit agree on each burned key), `Sources` and `CallsInv` (what a call in
flight holds is what its key is settled to), and for replays `PinsHeld`,
`OwnAnswers` and `CallsEntitled` (on a live grant the version that a call has
resolved, or a window still open entitles to, exists). The budget follows
because every released key is burned, by cardinality of finite sets. The
refinement maps each step to `Open`, `Spend`, `Out`, `Kill` or a stutter of the
ledger, using `Settled` and `CallsInv` for `Respond`.

`PolicyProofs` proves, for any policy table, secrets, tags, paths, methods and
requests (`EngineAssumption` asks that case folding maps methods to methods and
segments to segments and that ids and times are numbers; `PolicyAssumption` types
the inputs):

* `SubsetSound` and `OverlapSound` - what `request_is_subset` and `scopes_overlap`
  mean: a call that a fitting request lets through lies in the scope of the row,
  and a call that a row covers, in any case, makes the scopes overlap. They rest
  on three lemmas on prefixes of sequences (prefixes are transitive; two
  prefixes of one path are comparable; folding keeps prefixes);
* `TypeCorrect`, `Invariance` - `Spec => []TypeOK` and `Spec => []IInv`;
* `AutoWithinScopeHolds`, `DenyRespectedHolds`, `LapsesWithRowHolds`,
  `TieNeverWidensHolds` - the four invariants of run `policy`.

Here `IInv` says of each slot what connects the grant to the engine: each
evaluation in `basis` is `Evaluate` of inputs with the request's own mechanism and
scope (`BasisSound`, `InputsSound`: a substitution narrows uses and lifetime, never
the scope that the proxy enforces), it did not deny (`NotDenied`, also while a
substitution is under way), and the request's cap is the expiry of its row until
it is granted (`CapSound`), which bounds the deadline (`Lapses`). The invariants
then follow from the two soundness theorems and from `WinnerNeverWidens`. That a
matching row always yields a winner is not proved (it needs a finite table) and
not needed: without one, a person decides.

`ProvisionProofs` proves, for any configurations, clients, secrets, tags and
policies (`ProvisionAssumption` and `RowAssumption` type the configurations and
keep `Null` apart), `TypeCorrect`, `Invariance` and the five properties of
run `provision`: `ConvergedHolds`, `NeverCollidesHolds`, `CredentialsHold`,
`QuietRestartHolds`, `OperatorRowsKeptHolds`. The invariant records how far a
start has come: `ClientsDone` (every client holds what the configuration gives
it), `LoopsDone` (what each loop over secrets has visited is as configured, and
what it has still to delete is managed and unlisted), and `HistorySound` (the
tables stay as the last complete start left them until another configuration is
started; this is what makes a repeated start quiet, and what edits by hand must
not disturb). `NoCollision` rests on `FreedRows`: after the two releases nobody
holds a credential, so only the configuration itself could be ambiguous, and
`Validate` excludes that.

`KeyringProofs` proves, for any number of transactions, keys, clients, names and
requests, any cap and window, and all eleven kinds of transaction
(`KeyringAssumption` asks that there are finitely many transactions and at least
one key, client, name and request), `TypeCorrect`, `Invariance`,
`RowsOpenableHolds`, `ReportStaysTrueHolds`, `NoCyclicWaitHolds` and
`DepositCapHolds`. The proof starts
from what the plans have in common: each takes its locks in the order secret,
deposit, KEK, pending, request, row (`PlansOrdered`), and a writer seals after it
has taken the KEK lock (`WritersSeal`). `LockInv` says that queues are strict
orders of transactions waiting for one lock (`Queues`) and that no conflicting
locks are held together (`LockSafe`). A circle of waiting transactions would have
a member with the highest lock and, among those, the smallest queue; whoever
keeps it waiting is still higher or before it (`BlockerOrder`), by well-founded
inclusion of finite sets. `KeyInv` is on top: a writer that has sealed carries a
key that file and process have (`WrapsSound`); a key being checked or reported is
active nowhere (`Old`) and nothing refers to it or will (`Clean`), because the
check excludes every sealed writer (`CheckAlone`). For the cap, what a deposit has
counted is still so at its commit, since its lock keeps others of its client out
(`OneDepositor`), and one more fits into every window (`OneMore`).

`SecretsProofs` proves, for any names, requests and operators and any bounds
(`AskedAssumption` types the requests, `NullAssumption` keeps `Null` apart),
`TypeCorrect`, `Invariance`, `NoOrphanGrantHolds`, `AutoReleasesVettedHolds`,
`VettedAsReviewedHolds` and the two action properties `NamesNotTakenOverHolds` and
`DestroyedAsConfirmedHolds`. What the code decides in one transaction and uses in
another is tied together by the locks: `LocksExclude` (the exclusive side of a
name's lock excludes both sides), `RowsPinned` (a minting transaction that holds
the shared side still has before it the row it checked), `DeletesSound` (an
uncommitted deletion is as its page showed it and has found every live grant on
the name), `IdsFresh` (a row that comes back under a name has a new id, so what
was decided about the old one never applies to it), and `AutoSound` (the row an
automatic decision pinned stays vetted for as long as it exists; no
operation takes the mark away, and a rotation is typed by an operator).

`PushOutboxProofs` proves, for any number of requests and faults
(`ConstantsAssumption` asks that the sweeper is no request and that the bounds are
numbers), `TypeCorrect`, `Invariance`, `NoRepeatedPushHolds` and
`SomeoneToldHolds`. `NoRepeatedPush` counts messages, while the code looks at
columns that are written after the message: `JobsSound` says who holds
`push_lock`, `SendsSound` that a message on its way is about a row not yet
delivered, `SentSound` that until the delivery is recorded all earlier messages
were lost, and `MarksSound` that whoever is about to record a delivery, its own or
as covered by another, has evidence of one; so chains of deduplication of any
length end at a message.

`RequestsProofs` proves, for any keys, payloads, creations and operators, any cap
and any lifetimes (`ConstantsAssumption` asks that there are finitely many keys
and that the bounds are numbers), `TypeCorrect`, `Invariance`,
`OneRequestPerKeyHolds`, `GrantCappedHolds`, `PendingCapHoldsAlways` and the action
property `DecidedOnceHolds`. The cap is the hard one: a creation counts at the
`now()` of its own transaction, which may be older than another's, and inserts
before it counts. `OneHolder` (one creation of the client holds the pending lock)
and `OneInserter` (the unique index) give `CountSound`: what passed the check
still passes it until the commit, because others can only decide or expire rows
meanwhile, and an older `now()` counts more rows as undecided and not fewer.
`ToldSound` and `ActsSound` keep answers and decisions on their way in agreement
with the rows.

`CliProofs` proves, for any number of runs, any command lines and any caps,
`TypeCorrect`, `Invariance` and all five safety properties of run `cli`:
`SlotsAccountedHolds`, `ExitHonestHolds`, `ApprovalServesCallHolds`,
`ApprovedCallSentHolds`, `OutputKeptHolds`. The assumptions are that there are
finitely many runs, that command lines have their shape (`CommandLinesAssumption`),
that upper-casing a method twice is upper-casing it once (`UpperAssumption`), that
`connection` is on the strip list (`StripListAssumption`, as in `STRIP_LIST`), and
that the id of a grant is no idempotency key (`KeysAssumption`: the model keeps
rows in one table under either). The invariant follows a run through its steps:
`RunsSound` (how far it has come says which checks its command line passed, and
that the row behind its key was asked for what the run asks), `HandlersSound`
(where each handler is and what its run does meanwhile), `SentSound` (a run has
one brokered call: a handler that went on after its client left belongs to a run
that no longer waits for it and will not claim that nothing was sent), `EndsSound`
and `AnswersSound` (the same for the end of a run, and for an answer that is not
read yet), and `CallsBound` (a key is made from the call it is used for, a row was
made by a run with its key, and a reused grant is for the URL's origin). For
`ApprovedCallSent` the two sides filter headers one after the other; the proof
ranks the positions that are kept and shows that filtering what was filtered is
filtering once, by injections between finite sets. `SlotsAccounted` compares a
counter with the cardinality of the handlers at work, step by step.

With these, every safety invariant and every action property that a passing run
checks is also a theorem. Only model-checked are the four liveness properties
`NothingHeldForever`, `SettledAndForgotten`, `EventuallyPushed` and `EveryRunEnds`,
because the prover has no reasoning about fairness or ENABLED. The counterexamples
of the findings are runs by nature.

## 6. Plan

Done: all modules of section 2, their runs, and the proofs of every safety
property. Left, in order:

1. Proofs of further facts about operators: that `Evaluate` always finds a winner
   in a finite table, and that `ParseTarget` accepts only what the next parser
   spells alike.
2. Settings in `Grants`, for the secret that is disabled between revalidation and
   use (section 7).

## 7. Not modelled

Ciphers, MACs and additional data (a sealed payload is a fact, not bytes);
authentication, CSRF tokens, TLS and routing, which are stateless per call; the
bytes of injected headers and of signatures; percent decoding byte by byte (paths
are classes of spelling); page layout and messages; in the client the `status`
command, the wording of output, the parsing of options by `clap` and
`pipeline.rs`, which describes the surrounding pipeline to the operator;
the deadline of a stream once it has begun, beyond that it may break. A secret
disabled between revalidation and use is released once more: revalidation is per
call by design, and settings are not part of `Grants`. `PROJECT.json` gives the
reason for each component.
