------------------------------ MODULE Keyring ------------------------------
(***************************************************************************)
(* The keyset and the transactions that write under it.  Every row with a  *)
(* wrapped data key (secret_versions, access_requests.context) names the   *)
(* key-encryption key (KEK) that wraps it, and the operator removes a KEK  *)
(* from the keyset file once verify_no_references finds no such row.  The  *)
(* writers hold the KEK advisory lock shared, the check holds it           *)
(* exclusive (db/mod.rs); deposits are counted under a per-client lock.    *)
(*                                                                         *)
(* A transaction follows the plan of its kind: the locks the function      *)
(* takes, in its order, and the reads and seals between them.  Locks are   *)
(* kept to the end of the transaction.  Postgres queues a request behind   *)
(* the conflicting ones that already wait.  Any statement may fail and     *)
(* every early return rolls back, so Abort is possible at every step; a    *)
(* check of the code is a guard on going on.                               *)
(*                                                                         *)
(* A process reads the keyset file once, when it starts.  The connection   *)
(* of a dead process is noticed late: its transactions keep their locks    *)
(* for a while, and one whose COMMIT was already sent may still commit.    *)
(***************************************************************************)
EXTENDS Naturals, FiniteSets, Sequences

CONSTANTS
    Txn,       \* transactions
    Kek,       \* KEK ids
    Client, Name, Request,
    MayStore,  \* the clients whose may_store_secrets is set
    Cap,       \* limits.max_deposits_per_hour_per_client
    Window,    \* DEPOSIT_RATE_WINDOW_HOURS
    Kinds,     \* the kinds of transaction that run
    MaxTime,   \* bound: last instant of the clock
    Null

ASSUME KeyringAssumption ==
    /\ IsFiniteSet(Txn)
    /\ Kek # {} /\ Client # {} /\ Name # {} /\ Request # {}
    /\ MayStore \subseteq Client
    /\ Cap \in Nat \ {0} /\ Window \in Nat \ {0} /\ MaxTime \in Nat
    /\ Null \notin Kek \cup Txn

VARIABLES
    clock,     \* the database clock
    file,      \* the keyset file
    keyset,    \* the keyset the running process loaded
    kind,      \* what each transaction is: a kind, "idle" or "done"
    arg,       \* its arguments
    start,     \* its now(): the time it began
    pc,        \* the step of its plan it is at
    waits,     \* it waits for the lock of that step
    ahead,     \* the transactions queued for that lock before it
    wrap,      \* the KEK it sealed under, or found without references
    orphan,    \* its process is gone
    stored,    \* secrets: names taken
    rows,      \* wrapped data keys, committed
    deposits,  \* audit_log: committed client deposits
    verified,  \* KEKs that verify_no_references reported unreferenced
    retired    \* KEKs removed from the file

vars == <<clock, file, keyset, kind, arg, start, pc, waits, ahead, wrap, orphan,
          stored, rows, deposits, verified, retired>>

-----------------------------------------------------------------------------
\* The steps of a plan.
Shared(c)    == [op |-> "lock", class |-> c, mode |-> "S"]
Exclusive(c) == [op |-> "lock", class |-> c, mode |-> "X"]
Do(op)       == [op |-> op, class |-> "none", mode |-> "none"]

\* INSERT ... ON CONFLICT (name): waits for an uncommitted row of the name,
\* and then decides.
Insert == [op |-> "insert", class |-> "row", mode |-> "X"]

\* UPDATE, DELETE or SELECT FOR UPDATE of the secrets row.
Update == [op |-> "update", class |-> "row", mode |-> "X"]

\* Fault: the deposits of one client are counted without their lock.
MutUnlockedDeposit == <<Do("count"), Shared("kek"), Insert, Do("seal")>>
DepositPlan == <<Exclusive("deposit"), Do("count"), Shared("kek"), Insert, Do("seal")>>
CreatePlan == <<Shared("kek"), Do("seal"), Insert>>
\* Faults: a rotation seals without the KEK lock, or takes it after the row.
MutUnlockedRotate == <<Update, Do("seal")>>
MutRowFirst == <<Update, Shared("kek"), Do("seal")>>
RotatePlan == <<Shared("kek"), Update, Do("seal")>>
ProvisionPlan == <<Shared("kek"), Insert, Do("seal")>>
ApprovePlan == <<Shared("secret"), Exclusive("request")>>
ApproveStorePlan ==
    <<Shared("secret"), Shared("kek"), Exclusive("request"), Do("seal"), Insert>>
RequestPlan == <<Shared("kek"), Do("seal"), Exclusive("pending"), Exclusive("request")>>
AutoRequestPlan ==
    <<Shared("secret"), Shared("kek"), Do("seal"), Exclusive("request")>>
DeletePlan == <<Exclusive("secret"), Update>>
SettingsPlan == <<Update>>
\* Fault: the check counts references without excluding the writers.
MutUnlockedVerify == <<Do("check")>>
VerifyPlan == <<Exclusive("kek"), Do("check")>>

Plan == [deposit |-> DepositPlan, create |-> CreatePlan, rotate |-> RotatePlan,
         provision |-> ProvisionPlan, approve |-> ApprovePlan,
         approve_store |-> ApproveStorePlan, request |-> RequestPlan,
         auto_request |-> AutoRequestPlan, delete |-> DeletePlan,
         settings |-> SettingsPlan, verify |-> VerifyPlan]

Kind == DOMAIN Plan

Writer == Kind \ {"approve", "delete", "settings", "verify"}
Creator == {"deposit", "create", "provision", "approve_store"}
Context == {"request", "auto_request"}

Running(t) == kind[t] \in Kind

\* Step i of t's plan, and the lock it takes: a class and the object locked.
StepAt(t, i) == Plan[kind[t]][i]
Locks(t, i) == StepAt(t, i).class # "none"
LockAt(t, i) ==
    LET c == StepAt(t, i).class
    IN  [class |-> c,
         of    |-> CASE c \in {"secret", "row"}      -> arg[t].name
                     [] c \in {"deposit", "pending"} -> arg[t].client
                     [] c = "request"                -> arg[t].request
                     [] OTHER                        -> Null]

Ended(t) == pc[t] = Len(Plan[kind[t]]) + 1

Same(t, i, u, j) == Locks(t, i) /\ Locks(u, j) /\ LockAt(t, i) = LockAt(u, j)
Conflict(t, i, u, j) ==
    Same(t, i, u, j) /\ "X" \in {StepAt(t, i).mode, StepAt(u, j).mode}

\* Transactions that wait for the lock t is at: all of them for a new
\* request, those before it for one that waits already.
Queued(t) == {u \in Txn \ {t} : /\ Running(u) /\ waits[u]
                                /\ Same(t, pc[t], u, pc[u])}
Before(t) == IF waits[t] THEN ahead[t] ELSE Queued(t)

\* u keeps t from the lock it is at.
Blocks(u, t) ==
    /\ u # t /\ Running(u)
    /\ \/ \E i \in 1..(pc[u] - 1) : Conflict(t, pc[t], u, i)
       \/ u \in Before(t) /\ Conflict(t, pc[t], u, pc[u])

-----------------------------------------------------------------------------
Args == [name : Name, client : Client, request : Request, kek : Kek]
NoArgs == CHOOSE a \in Args : TRUE
Keyset == [keys : SUBSET Kek, active : Kek]
RowOf == [by : Txn \cup {Null}, table : {"secret_versions", "access_requests"},
          name : Name, kek : Kek]
Deposited == [by : Txn, client : Client, at : Nat]

\* Keyset::from_file: the active key is one of the keys.
Loadable(f) == f.keys # {} /\ f.active \in f.keys

\* Types; the file and the process always have a key to seal under.
TypeOK ==
    /\ clock \in Nat
    /\ file \in Keyset /\ Loadable(file)
    /\ keyset \in Keyset /\ Loadable(keyset)
    /\ kind \in [Txn -> Kind \cup {"idle", "done"}]
    /\ arg \in [Txn -> Args] /\ start \in [Txn -> Nat]
    /\ pc \in [Txn -> Nat \ {0}] /\ \A t \in Txn : Running(t) => pc[t] <= Len(Plan[kind[t]]) + 1
    /\ waits \in [Txn -> BOOLEAN] /\ ahead \in [Txn -> SUBSET Txn]
    /\ wrap \in [Txn -> Kek \cup {Null}] /\ orphan \in [Txn -> BOOLEAN]
    /\ stored \in SUBSET Name /\ rows \in SUBSET RowOf
    /\ deposits \in SUBSET Deposited
    /\ verified \in SUBSET Kek /\ retired \in SUBSET Kek

\* Some secrets exist, sealed under the one key of the first keyset.
Init ==
    /\ clock = 0
    /\ \E k \in Kek : file = [keys |-> {k}, active |-> k]
    /\ keyset = file
    /\ kind = [t \in Txn |-> "idle"]
    /\ arg = [t \in Txn |-> NoArgs]
    /\ start = [t \in Txn |-> 0]
    /\ pc = [t \in Txn |-> 1]
    /\ waits = [t \in Txn |-> FALSE] /\ ahead = [t \in Txn |-> {}]
    /\ wrap = [t \in Txn |-> Null] /\ orphan = [t \in Txn |-> FALSE]
    /\ stored \in SUBSET Name
    /\ rows = {[by |-> Null, table |-> "secret_versions", name |-> n,
                kek |-> file.active] : n \in stored}
    /\ deposits = {} /\ verified = {} /\ retired = {}

-----------------------------------------------------------------------------
\* POST /v1/secrets checks the client and the body before it begins.
AcceptsDeposit(c) == c \in MayStore

\* The runbook's order, not a guard of the code (verify_no_references takes any
\* id): the operator checks a KEK after the process that sealed under it has been
\* replaced (DESIGN.md: add the new key, mark it active, rewrap, retire).
Superseded(k) == k \in file.keys \ {file.active, keyset.active}

\* The arguments a kind of transaction has.
ArgsOf(k) ==
    IF k = "verify" THEN {[NoArgs EXCEPT !.kek = x] : x \in Kek}
    ELSE {a \in Args : a.kek = NoArgs.kek}

\* Only a deposit reads its now().
Begin(t, k, a) ==
    /\ kind[t] = "idle"
    /\ a \in ArgsOf(k)
    /\ k = "deposit" => AcceptsDeposit(a.client)
    /\ k = "verify" => Superseded(a.kek)
    /\ kind' = [kind EXCEPT ![t] = k]
    /\ arg' = [arg EXCEPT ![t] = a]
    /\ start' = [start EXCEPT ![t] = IF k = "deposit" THEN clock ELSE 0]
    /\ UNCHANGED <<clock, file, keyset, pc, waits, ahead, wrap, orphan,
                   stored, rows, deposits, verified, retired>>

AtStep(t) == Running(t) /\ ~orphan[t] /\ ~Ended(t)

\* What an INSERT or an UPDATE needs of the row once it has the lock.
RowAllows(t) ==
    /\ StepAt(t, pc[t]).op = "insert" => arg[t].name \notin stored
    /\ StepAt(t, pc[t]).op = "update" => arg[t].name \in stored

Leave(t) == [u \in Txn |-> IF u = t THEN {} ELSE ahead[u] \ {t}]

Acquire(t) ==
    /\ AtStep(t) /\ Locks(t, pc[t])
    /\ \A u \in Txn : ~Blocks(u, t)
    /\ RowAllows(t)
    /\ pc' = [pc EXCEPT ![t] = @ + 1]
    /\ waits' = [waits EXCEPT ![t] = FALSE]
    /\ ahead' = Leave(t)
    /\ UNCHANGED <<clock, file, keyset, kind, arg, start, wrap, orphan,
                   stored, rows, deposits, verified, retired>>

Wait(t) ==
    /\ AtStep(t) /\ Locks(t, pc[t]) /\ ~waits[t]
    /\ \E u \in Txn : Blocks(u, t)
    /\ waits' = [waits EXCEPT ![t] = TRUE]
    /\ ahead' = [ahead EXCEPT ![t] = Queued(t)]
    /\ UNCHANGED <<clock, file, keyset, kind, arg, start, pc, wrap, orphan,
                   stored, rows, deposits, verified, retired>>

\* SELECT count(*) FROM audit_log ... AND at > now() - window.
Recent(t) == {d \in deposits : d.client = arg[t].client /\ d.at + Window > start[t]}

Count(t) ==
    /\ AtStep(t) /\ StepAt(t, pc[t]).op = "count"
    /\ Cardinality(Recent(t)) < Cap
    /\ pc' = [pc EXCEPT ![t] = @ + 1]
    /\ UNCHANGED <<clock, file, keyset, kind, arg, start, waits, ahead, wrap, orphan,
                   stored, rows, deposits, verified, retired>>

\* The SealFn closure: Keyset::seal picks the active key of this process.
Seal(t) ==
    /\ AtStep(t) /\ StepAt(t, pc[t]).op = "seal"
    /\ wrap' = [wrap EXCEPT ![t] = keyset.active]
    /\ pc' = [pc EXCEPT ![t] = @ + 1]
    /\ UNCHANGED <<clock, file, keyset, kind, arg, start, waits, ahead, orphan,
                   stored, rows, deposits, verified, retired>>

\* Rows of either table that a KEK wraps.
References(k) == {r \in rows : r.kek = k}

Check(t) ==
    /\ AtStep(t) /\ StepAt(t, pc[t]).op = "check"
    /\ wrap' = [wrap EXCEPT ![t] = IF References(arg[t].kek) = {} THEN arg[t].kek ELSE Null]
    /\ pc' = [pc EXCEPT ![t] = @ + 1]
    /\ UNCHANGED <<clock, file, keyset, kind, arg, start, waits, ahead, orphan,
                   stored, rows, deposits, verified, retired>>

-----------------------------------------------------------------------------
\* The end of a transaction: its locks are released.
End(t) ==
    /\ kind' = [kind EXCEPT ![t] = "done"]
    /\ wrap' = [wrap EXCEPT ![t] = Null]
    /\ orphan' = [orphan EXCEPT ![t] = FALSE]
    /\ waits' = [waits EXCEPT ![t] = FALSE]
    /\ ahead' = Leave(t)
    /\ pc' = [pc EXCEPT ![t] = 1]
    /\ arg' = [arg EXCEPT ![t] = NoArgs]
    /\ start' = [start EXCEPT ![t] = 0]
    /\ UNCHANGED <<clock, file, keyset, retired>>

Written(t) ==
    {[by    |-> t,
      table |-> IF kind[t] \in Context THEN "access_requests" ELSE "secret_versions",
      name  |-> arg[t].name,
      kek   |-> wrap[t]] : k \in {kind[t]} \cap Writer}

\* ON DELETE CASCADE removes the versions of a deleted secret.
Cascaded(t) ==
    {r \in rows : /\ kind[t] = "delete" /\ r.table = "secret_versions"
                  /\ r.name = arg[t].name}

Commit(t) ==
    /\ Running(t) /\ Ended(t)
    /\ stored' = CASE kind[t] \in Creator  -> stored \cup {arg[t].name}
                   [] kind[t] = "delete"   -> stored \ {arg[t].name}
                   [] OTHER                -> stored
    /\ rows' = (rows \ Cascaded(t)) \cup Written(t)
    /\ deposits' = deposits \cup {[by |-> t, client |-> arg[t].client, at |-> start[t]] :
                                     k \in {kind[t]} \cap {"deposit"}}
    /\ verified' = verified \cup {k \in Kek : kind[t] = "verify" /\ ~orphan[t] /\ k = wrap[t]}
    /\ End(t)

Abort(t) ==
    /\ Running(t)
    /\ End(t)
    /\ UNCHANGED <<stored, rows, deposits, verified>>

-----------------------------------------------------------------------------
\* The retention sweep drops the context of a resolved request.
PurgeContext(r) ==
    /\ r.table = "access_requests"
    /\ rows' = rows \ {r}
    /\ UNCHANGED <<clock, file, keyset, kind, arg, start, pc, waits, ahead, wrap,
                   orphan, stored, deposits, verified, retired>>

\* Keyset::open and Keyset::rewrap find the wrapping key, or UnknownKek.
Opens(ks, r) == r.kek \in ks.keys

\* The running keyset wraps the row's data key again, under its active key.
Rewrap(r) ==
    /\ Opens(keyset, r)
    /\ rows' = (rows \ {r}) \cup {[r EXCEPT !.kek = keyset.active]}
    /\ UNCHANGED <<clock, file, keyset, kind, arg, start, pc, waits, ahead, wrap,
                   orphan, stored, deposits, verified, retired>>

\* The process is replaced and reads the file (one replica, Recreate).
Restart ==
    /\ Loadable(file)
    /\ keyset' = file
    /\ orphan' = [t \in Txn |-> Running(t)]
    /\ UNCHANGED <<clock, file, kind, arg, start, pc, waits, ahead, wrap,
                   stored, rows, deposits, verified, retired>>

\* The operator adds a key and makes it active; an id is never used twice.
AddKey(k) ==
    /\ k \notin file.keys \cup retired
    /\ file' = [keys |-> file.keys \cup {k}, active |-> k]
    /\ UNCHANGED <<clock, keyset, kind, arg, start, pc, waits, ahead, wrap, orphan,
                   stored, rows, deposits, verified, retired>>

\* The operator removes a key that was reported unreferenced.
Retire(k) ==
    /\ k \in verified \cap file.keys
    /\ file' = [file EXCEPT !.keys = @ \ {k}]
    /\ retired' = retired \cup {k}
    /\ UNCHANGED <<clock, keyset, kind, arg, start, pc, waits, ahead, wrap, orphan,
                   stored, rows, deposits, verified>>

Tick ==
    /\ clock < MaxTime
    /\ clock' = clock + 1
    /\ UNCHANGED <<file, keyset, kind, arg, start, pc, waits, ahead, wrap, orphan,
                   stored, rows, deposits, verified, retired>>

Next ==
    \/ \E t \in Txn :
          \/ \E k \in Kind \cap Kinds, a \in Args : Begin(t, k, a)
          \/ Acquire(t) \/ Wait(t) \/ Count(t) \/ Seal(t) \/ Check(t)
          \/ Commit(t) \/ Abort(t)
    \/ \E r \in rows : PurgeContext(r) \/ Rewrap(r)
    \/ \E k \in Kek : AddKey(k) \/ Retire(k)
    \/ Restart \/ Tick

Spec == Init /\ [][Next]_vars

-----------------------------------------------------------------------------
\* Safety.

\* Removing a KEK after verify_no_references never strands a row: every wrapped
\* data key names a KEK that the file and the running process still have, also
\* when a write of a replaced process commits late.
RowsOpenable == \A r \in rows : Opens(file, r) /\ Opens(keyset, r)

\* The report of verify_no_references stays true, however long the operator takes
\* to act on it: no writer that sealed before the check commits a reference to
\* the KEK after it, not even one whose process has been replaced since.
ReportStaysTrue == \A k \in verified : References(k) = {}

\* No set of transactions all wait for one another: some member either does not
\* wait or is kept by nobody in the set.  The advisory locks, the row locks and
\* the queue behind a waiting exclusive request are all counted (db/mod.rs:
\* "Nothing may take it after those, or the two orders could deadlock").
NoCyclicWait ==
    \A S \in (SUBSET Txn) \ {{}} :
        \E t \in S : waits[t] => \A u \in S : ~Blocks(u, t)

\* In no window of that length does a client commit more deposits than its cap,
\* whatever its concurrent deposits counted and whatever was deleted since.
DepositCap ==
    \A c \in Client, x \in 0..MaxTime :
        Cardinality({d \in deposits : /\ d.client = c
                                      /\ d.at <= x /\ x < d.at + Window}) <= Cap
=============================================================================
