---------------------------- MODULE KeyringProofs ---------------------------
(***************************************************************************)
(* Theorems about the keyset, the locks and the deposit cap, for any number *)
(* of transactions, keys, clients, names and requests.  First what the     *)
(* plans have in common, then the queues and the locks, then retirement    *)
(* and the cap on top of them.                                             *)
(***************************************************************************)
EXTENDS Keyring, FiniteSetTheorems, WellFoundedInduction, TLAPS

USE KeyringAssumption

-----------------------------------------------------------------------------
(* The inductive invariant.                                                *)

\* A transaction that does not run holds nothing.
AtRest ==
    \A t \in Txn : ~Running(t) => pc[t] = 1 /\ ~waits[t] /\ wrap[t] = Null

\* A queue is a strict order of transactions that wait for one lock.
Queues ==
    \A t \in Txn :
        /\ waits[t] => Running(t) /\ ~Ended(t) /\ Locks(t, pc[t])
        /\ ahead[t] # {} => waits[t]
        /\ \A u \in ahead[t] : /\ u # t /\ waits[u] /\ Same(t, pc[t], u, pc[u])
                               /\ ahead[u] \subseteq ahead[t]

\* No two transactions hold conflicting locks.
LockSafe ==
    \A t, u \in Txn : t # u /\ Running(t) /\ Running(u) =>
        \A i \in 1..(pc[t] - 1), j \in 1..(pc[u] - 1) : ~Conflict(t, i, u, j)

\* Where a writer takes the KEK lock, and where it seals.
KekAt == [deposit |-> 3, create |-> 1, rotate |-> 1, provision |-> 1, approve_store |-> 2,
          request |-> 1, auto_request |-> 2]
SealAt == [deposit |-> 5, create |-> 2, rotate |-> 3, provision |-> 3, approve_store |-> 4,
           request |-> 2, auto_request |-> 3]

\* A writer carries a key it may still write under exactly once it has sealed.
WrapsSound ==
    \A t \in Txn : kind[t] \in Writer =>
        /\ wrap[t] # Null <=> pc[t] > SealAt[kind[t]]
        /\ wrap[t] # Null => wrap[t] \in file.keys \cap keyset.keys

\* A key nobody seals under any more, and one that nothing refers to or will.
Old(k) == k \in file.keys \cup retired /\ k \notin {file.active, keyset.active}
Clean(k) == (\A r \in rows : r.kek # k) /\ (\A u \in Txn : kind[u] \in Writer => wrap[u] # k)

\* What a check under way, and one that has reported, have established.
ChecksSound ==
    /\ \A t \in Txn : kind[t] = "verify" =>
         /\ Old(arg[t].kek)
         /\ wrap[t] # Null => pc[t] = 3 /\ wrap[t] = arg[t].kek /\ Clean(wrap[t])
    /\ \A k \in verified : Old(k) /\ Clean(k)

\* What a deposit has counted is still so when it commits.
CountsSound ==
    /\ IsFiniteSet(deposits)
    /\ \A t \in Txn : kind[t] = "deposit" /\ pc[t] > 2 => Cardinality(Recent(t)) < Cap

LockInv == AtRest /\ Queues /\ LockSafe
KeyInv == keyset.active \in file.keys /\ RowsOpenable /\ WrapsSound /\ ChecksSound
CapInv == CountsSound /\ DepositCap

IInv == TypeOK /\ LockInv /\ KeyInv /\ CapInv

-----------------------------------------------------------------------------
(* What the plans have in common.                                          *)

\* The order of the locks: the secret first (db/mod.rs), rows last.
Rank == [secret |-> 1, deposit |-> 2, kek |-> 3, pending |-> 4, request |-> 5, row |-> 6]

Class == {"secret", "deposit", "kek", "pending", "request", "row"}

\* A step is a lock or does its work under the locks taken so far, and the
\* locks of a plan are taken in the order of Rank.
WellOrdered(plan) ==
    /\ Len(plan) \in Nat \ {0}
    /\ \A i \in 1..Len(plan) :
         /\ plan[i].mode \in {"S", "X", "none"}
         /\ \/ plan[i].class \in Class /\ plan[i].op \in {"lock", "insert", "update"}
            \/ plan[i].class = "none" /\ plan[i].op \in {"count", "seal", "check"}
         /\ \A j \in 1..(i - 1) :
              plan[i].class # "none" /\ plan[j].class # "none" =>
                  Rank[plan[j].class] < Rank[plan[i].class]

LEMMA KindNames ==
    Kind = {"deposit", "create", "rotate", "provision", "approve", "approve_store",
            "request", "auto_request", "delete", "settings", "verify"}
BY DEF Kind, Plan

\* Every plan takes its locks in one order.
LEMMA PlansOrdered == \A k \in Kind : WellOrdered(Plan[k])
<1>1. WellOrdered(DepositPlan)
  BY DEF DepositPlan, Shared, Exclusive, Do, Insert, Update, WellOrdered, Class, Rank
<1>2. WellOrdered(CreatePlan)
  BY DEF CreatePlan, Shared, Exclusive, Do, Insert, Update, WellOrdered, Class, Rank
<1>3. WellOrdered(RotatePlan)
  BY DEF RotatePlan, Shared, Exclusive, Do, Insert, Update, WellOrdered, Class, Rank
<1>4. WellOrdered(ProvisionPlan)
  BY DEF ProvisionPlan, Shared, Exclusive, Do, Insert, Update, WellOrdered, Class, Rank
<1>5. WellOrdered(ApprovePlan)
  BY DEF ApprovePlan, Shared, Exclusive, Do, Insert, Update, WellOrdered, Class, Rank
<1>6. WellOrdered(ApproveStorePlan)
  BY DEF ApproveStorePlan, Shared, Exclusive, Do, Insert, Update, WellOrdered, Class, Rank
<1>7. WellOrdered(RequestPlan)
  BY DEF RequestPlan, Shared, Exclusive, Do, Insert, Update, WellOrdered, Class, Rank
<1>8. WellOrdered(AutoRequestPlan)
  BY DEF AutoRequestPlan, Shared, Exclusive, Do, Insert, Update, WellOrdered, Class, Rank
<1>9. WellOrdered(DeletePlan)
  BY DEF DeletePlan, Shared, Exclusive, Do, Insert, Update, WellOrdered, Class, Rank
<1>10. WellOrdered(SettingsPlan)
  BY DEF SettingsPlan, Shared, Exclusive, Do, Insert, Update, WellOrdered, Class, Rank
<1>11. WellOrdered(VerifyPlan)
  BY DEF VerifyPlan, Shared, Exclusive, Do, Insert, Update, WellOrdered, Class, Rank
<1> QED
  BY <1>1, <1>2, <1>3, <1>4, <1>5, <1>6, <1>7, <1>8, <1>9, <1>10, <1>11, KindNames DEF Plan

\* A plan that seals once, at j, after it has taken the KEK lock shared, at i.
Seals(plan, i, j) ==
    /\ i \in Nat /\ j \in Nat /\ 1 <= i /\ i < j /\ j <= Len(plan)
    /\ plan[i] = Shared("kek")
    /\ \A n \in 1..Len(plan) : plan[n].op = "seal" <=> n = j

LEMMA WritersSeal == \A k \in Writer : k \in Kind /\ Seals(Plan[k], KekAt[k], SealAt[k])
<1>1. Seals(DepositPlan, 3, 5)
  BY DEF Seals, DepositPlan, Shared, Exclusive, Do, Insert, Update
<1>2. Seals(CreatePlan, 1, 2)
  BY DEF Seals, CreatePlan, Shared, Exclusive, Do, Insert, Update
<1>3. Seals(RotatePlan, 1, 3)
  BY DEF Seals, RotatePlan, Shared, Exclusive, Do, Insert, Update
<1>4. Seals(ProvisionPlan, 1, 3)
  BY DEF Seals, ProvisionPlan, Shared, Exclusive, Do, Insert, Update
<1>5. Seals(ApproveStorePlan, 2, 4)
  BY DEF Seals, ApproveStorePlan, Shared, Exclusive, Do, Insert, Update
<1>6. Seals(RequestPlan, 1, 2)
  BY DEF Seals, RequestPlan, Shared, Exclusive, Do, Insert, Update
<1>7. Seals(AutoRequestPlan, 2, 3)
  BY DEF Seals, AutoRequestPlan, Shared, Exclusive, Do, Insert, Update
<1>8. Writer = {"deposit", "create", "rotate", "provision", "approve_store", "request", "auto_request"}
  BY KindNames DEF Writer
<1> QED
  BY <1>1, <1>2, <1>3, <1>4, <1>5, <1>6, <1>7, <1>8, KindNames DEF Plan, KekAt, SealAt

\* Nothing else seals; only a check checks, only a deposit counts.
LEMMA OthersDoNot ==
    \A k \in Kind : \A i \in 1..Len(Plan[k]) :
        /\ Plan[k][i].op = "seal" => k \in Writer
        /\ Plan[k][i].op = "check" <=> k = "verify" /\ i = 2
        /\ Plan[k][i].op = "count" <=> k = "deposit" /\ i = 2
<1>1. \A i \in 1..Len(DepositPlan) :
         /\ DepositPlan[i].op = "seal" => "deposit" \in Writer
         /\ DepositPlan[i].op = "check" <=> "deposit" = "verify" /\ i = 2
         /\ DepositPlan[i].op = "count" <=> "deposit" = "deposit" /\ i = 2
  BY KindNames DEF DepositPlan, Shared, Exclusive, Do, Insert, Update, Writer
<1>2. \A i \in 1..Len(CreatePlan) :
         /\ CreatePlan[i].op = "seal" => "create" \in Writer
         /\ CreatePlan[i].op = "check" <=> "create" = "verify" /\ i = 2
         /\ CreatePlan[i].op = "count" <=> "create" = "deposit" /\ i = 2
  BY KindNames DEF CreatePlan, Shared, Exclusive, Do, Insert, Update, Writer
<1>3. \A i \in 1..Len(RotatePlan) :
         /\ RotatePlan[i].op = "seal" => "rotate" \in Writer
         /\ RotatePlan[i].op = "check" <=> "rotate" = "verify" /\ i = 2
         /\ RotatePlan[i].op = "count" <=> "rotate" = "deposit" /\ i = 2
  BY KindNames DEF RotatePlan, Shared, Exclusive, Do, Insert, Update, Writer
<1>4. \A i \in 1..Len(ProvisionPlan) :
         /\ ProvisionPlan[i].op = "seal" => "provision" \in Writer
         /\ ProvisionPlan[i].op = "check" <=> "provision" = "verify" /\ i = 2
         /\ ProvisionPlan[i].op = "count" <=> "provision" = "deposit" /\ i = 2
  BY KindNames DEF ProvisionPlan, Shared, Exclusive, Do, Insert, Update, Writer
<1>5. \A i \in 1..Len(ApprovePlan) :
         /\ ApprovePlan[i].op = "seal" => "approve" \in Writer
         /\ ApprovePlan[i].op = "check" <=> "approve" = "verify" /\ i = 2
         /\ ApprovePlan[i].op = "count" <=> "approve" = "deposit" /\ i = 2
  BY KindNames DEF ApprovePlan, Shared, Exclusive, Do, Insert, Update, Writer
<1>6. \A i \in 1..Len(ApproveStorePlan) :
         /\ ApproveStorePlan[i].op = "seal" => "approve_store" \in Writer
         /\ ApproveStorePlan[i].op = "check" <=> "approve_store" = "verify" /\ i = 2
         /\ ApproveStorePlan[i].op = "count" <=> "approve_store" = "deposit" /\ i = 2
  BY KindNames DEF ApproveStorePlan, Shared, Exclusive, Do, Insert, Update, Writer
<1>7. \A i \in 1..Len(RequestPlan) :
         /\ RequestPlan[i].op = "seal" => "request" \in Writer
         /\ RequestPlan[i].op = "check" <=> "request" = "verify" /\ i = 2
         /\ RequestPlan[i].op = "count" <=> "request" = "deposit" /\ i = 2
  BY KindNames DEF RequestPlan, Shared, Exclusive, Do, Insert, Update, Writer
<1>8. \A i \in 1..Len(AutoRequestPlan) :
         /\ AutoRequestPlan[i].op = "seal" => "auto_request" \in Writer
         /\ AutoRequestPlan[i].op = "check" <=> "auto_request" = "verify" /\ i = 2
         /\ AutoRequestPlan[i].op = "count" <=> "auto_request" = "deposit" /\ i = 2
  BY KindNames DEF AutoRequestPlan, Shared, Exclusive, Do, Insert, Update, Writer
<1>9. \A i \in 1..Len(DeletePlan) :
         /\ DeletePlan[i].op = "seal" => "delete" \in Writer
         /\ DeletePlan[i].op = "check" <=> "delete" = "verify" /\ i = 2
         /\ DeletePlan[i].op = "count" <=> "delete" = "deposit" /\ i = 2
  BY KindNames DEF DeletePlan, Shared, Exclusive, Do, Insert, Update, Writer
<1>10. \A i \in 1..Len(SettingsPlan) :
         /\ SettingsPlan[i].op = "seal" => "settings" \in Writer
         /\ SettingsPlan[i].op = "check" <=> "settings" = "verify" /\ i = 2
         /\ SettingsPlan[i].op = "count" <=> "settings" = "deposit" /\ i = 2
  BY KindNames DEF SettingsPlan, Shared, Exclusive, Do, Insert, Update, Writer
<1>11. \A i \in 1..Len(VerifyPlan) :
         /\ VerifyPlan[i].op = "seal" => "verify" \in Writer
         /\ VerifyPlan[i].op = "check" <=> "verify" = "verify" /\ i = 2
         /\ VerifyPlan[i].op = "count" <=> "verify" = "deposit" /\ i = 2
  BY KindNames DEF VerifyPlan, Shared, Exclusive, Do, Insert, Update, Writer
<1> QED
  BY <1>1, <1>2, <1>3, <1>4, <1>5, <1>6, <1>7, <1>8, <1>9, <1>10, <1>11, KindNames DEF Plan

\* The check and the deposit hold their lock exclusive from their first step.
LEMMA ExclusiveFirst ==
    /\ "verify" \in Kind /\ Len(Plan["verify"]) = 2 /\ Plan["verify"][1] = Exclusive("kek")
    /\ "deposit" \in Kind /\ Len(Plan["deposit"]) = 5 /\ Plan["deposit"][1] = Exclusive("deposit")
    /\ "deposit" \in Writer /\ "verify" \notin Writer /\ "idle" \notin Kind /\ "done" \notin Kind
BY KindNames DEF Plan, VerifyPlan, DepositPlan, Exclusive, Shared, Do, Insert, Writer

-----------------------------------------------------------------------------
(* Types.                                                                  *)

LEMMA NoArgsType == NoArgs \in Args
<1>1. \E a \in Args : TRUE
  <2>1. PICK n \in Name, c \in Client, r \in Request, k \in Kek : TRUE
    OBVIOUS
  <2>2. [name |-> n, client |-> c, request |-> r, kek |-> k] \in Args
    BY <2>1 DEF Args
  <2> QED BY <2>2
<1> QED BY <1>1 DEF NoArgs

\* A lock of a running transaction is of a step that its plan has.
LEMMA StepOfPlan ==
    ASSUME TypeOK, NEW t \in Txn, Running(t)
    PROVE  /\ kind[t] \in Kind /\ WellOrdered(Plan[kind[t]])
           /\ Len(Plan[kind[t]]) \in Nat \ {0}
           /\ pc[t] \in Nat /\ 1 <= pc[t] /\ pc[t] <= Len(Plan[kind[t]]) + 1
           /\ AtStep(t) => pc[t] \in 1..Len(Plan[kind[t]])
BY PlansOrdered DEF TypeOK, Running, AtStep, Ended, WellOrdered

LEMMA EndType ==
    ASSUME TypeOK, NEW t \in Txn, End(t), stored' \in SUBSET Name, rows' \in SUBSET RowOf,
           deposits' \in SUBSET Deposited, verified' \in SUBSET Kek
    PROVE  TypeOK'
<1> USE NoArgsType, ExclusiveFirst
<1>1. /\ kind' \in [Txn -> Kind \cup {"idle", "done"}] /\ arg' \in [Txn -> Args]
      /\ start' \in [Txn -> Nat] /\ pc' \in [Txn -> Nat \ {0}]
      /\ waits' \in [Txn -> BOOLEAN] /\ orphan' \in [Txn -> BOOLEAN]
      /\ wrap' \in [Txn -> Kek \cup {Null}]
  BY DEF TypeOK, End
<1>2. ahead' \in [Txn -> SUBSET Txn]
  BY DEF TypeOK, End, Leave
<1>3. \A u \in Txn : Running(u)' => pc'[u] <= Len(Plan[kind'[u]]) + 1
  BY DEF TypeOK, End, Running
<1> QED BY <1>1, <1>2, <1>3 DEF TypeOK, End

LEMMA AdvanceType ==
    ASSUME TypeOK, NEW t \in Txn, AtStep(t), pc' = [pc EXCEPT ![t] = @ + 1],
           UNCHANGED <<clock, file, keyset, kind, arg, start, orphan, stored, rows, deposits,
                       verified, retired>>,
           waits' \in [Txn -> BOOLEAN], ahead' \in [Txn -> SUBSET Txn],
           wrap' \in [Txn -> Kek \cup {Null}]
    PROVE  TypeOK'
<1>1. Running(t)
  BY DEF AtStep
<1>2. pc' \in [Txn -> Nat \ {0}]
  BY DEF TypeOK
<1>3. \A u \in Txn : Running(u)' => pc'[u] <= Len(Plan[kind'[u]]) + 1
  BY <1>1, StepOfPlan DEF TypeOK, Running
<1> QED BY <1>2, <1>3 DEF TypeOK

LEMMA TypeInit == Init => TypeOK
<1> USE NoArgsType, ExclusiveFirst
<1> SUFFICES ASSUME Init PROVE TypeOK
  OBVIOUS
<1>1. file \in Keyset /\ Loadable(file) /\ keyset \in Keyset /\ Loadable(keyset)
  BY DEF Init, Keyset, Loadable
<1>2. stored \in SUBSET Name /\ rows \in SUBSET RowOf
  BY <1>1 DEF Init, RowOf, Keyset
<1> QED BY <1>1, <1>2 DEF Init, TypeOK, Running

\* What a writer commits is wrapped: this is why the type needs WrapsSound.
LEMMA CommitType ==
    ASSUME TypeOK, WrapsSound, NEW t \in Txn, Commit(t)
    PROVE  TypeOK'
<1>1. Running(t) /\ arg[t] \in Args /\ start[t] \in Nat /\ wrap[t] \in Kek \cup {Null}
  BY DEF Commit, TypeOK
<1>2. kind[t] \in Writer => wrap[t] \in Kek
  <2> SUFFICES ASSUME kind[t] \in Writer PROVE wrap[t] # Null
    BY <1>1
  <2>1. SealAt[kind[t]] \in Nat /\ SealAt[kind[t]] <= Len(Plan[kind[t]])
    BY WritersSeal DEF Seals
  <2>2. pc[t] = Len(Plan[kind[t]]) + 1 /\ Len(Plan[kind[t]]) \in Nat
    BY <1>1, StepOfPlan DEF Commit, Ended
  <2> QED BY <2>1, <2>2 DEF WrapsSound
<1>3. stored' \in SUBSET Name
  BY <1>1 DEF Commit, TypeOK, Args
<1>4. rows' \in SUBSET RowOf
  BY <1>1, <1>2 DEF Commit, Written, TypeOK, Args, RowOf
<1>5. deposits' \in SUBSET Deposited
  BY <1>1 DEF Commit, TypeOK, Args, Deposited
<1>6. verified' \in SUBSET Kek
  BY DEF Commit, TypeOK
<1> QED BY <1>3, <1>4, <1>5, <1>6, EndType DEF Commit

LEMMA TypeStep == TypeOK /\ AtRest /\ WrapsSound /\ ChecksSound /\ [Next]_vars => TypeOK'
<1> SUFFICES ASSUME TypeOK, AtRest, WrapsSound, ChecksSound, [Next]_vars
             PROVE  TypeOK'
  OBVIOUS
<1>1. ASSUME NEW t \in Txn, NEW k \in Kind \cap Kinds, NEW a \in Args, Begin(t, k, a)
      PROVE  TypeOK'
  <2>1. pc[t] = 1 /\ WellOrdered(Plan[k])
    BY <1>1, PlansOrdered, ExclusiveFirst DEF AtRest, Begin, Running
  <2>2. kind' \in [Txn -> Kind \cup {"idle", "done"}] /\ arg' \in [Txn -> Args]
        /\ start' \in [Txn -> Nat]
    BY <1>1 DEF Begin, TypeOK
  <2>3. \A u \in Txn : Running(u)' => pc'[u] <= Len(Plan[kind'[u]]) + 1
    BY <1>1, <2>1 DEF Begin, TypeOK, Running, WellOrdered
  <2> QED BY <1>1, <2>2, <2>3 DEF Begin, TypeOK
<1>2. ASSUME NEW t \in Txn, Acquire(t)
      PROVE  TypeOK'
  BY <1>2, AdvanceType DEF Acquire, Leave, TypeOK
<1>3. ASSUME NEW t \in Txn, Wait(t)
      PROVE  TypeOK'
  BY <1>3 DEF Wait, TypeOK, Queued, Running
<1>4. ASSUME NEW t \in Txn, Count(t) \/ Seal(t) \/ Check(t)
      PROVE  TypeOK'
  <2>1. arg[t].kek \in Kek /\ keyset.active \in Kek
    BY DEF TypeOK, Args, Keyset
  <2>2. wrap' \in [Txn -> Kek \cup {Null}]
    BY <1>4, <2>1 DEF Count, Seal, Check, TypeOK
  <2> QED BY <1>4, <2>2, AdvanceType DEF Count, Seal, Check, TypeOK
<1>5. ASSUME NEW t \in Txn, Commit(t)
      PROVE  TypeOK'
  BY <1>5, CommitType
<1>6. ASSUME NEW t \in Txn, Abort(t)
      PROVE  TypeOK'
  BY <1>6, EndType DEF Abort, TypeOK
<1>7. ASSUME NEW r \in rows, PurgeContext(r) \/ Rewrap(r)
      PROVE  TypeOK'
  <2>1. r \in RowOf /\ keyset.active \in Kek
    BY DEF TypeOK, Keyset
  <2>2. [r EXCEPT !.kek = keyset.active] \in RowOf
    BY <2>1 DEF RowOf
  <2>3. rows' \in SUBSET RowOf
    BY <1>7, <2>2 DEF PurgeContext, Rewrap, TypeOK
  <2> QED BY <1>7, <2>3 DEF PurgeContext, Rewrap, TypeOK, Running
<1>8. ASSUME NEW k \in Kek, AddKey(k)
      PROVE  TypeOK'
  BY <1>8 DEF AddKey, TypeOK, Keyset, Loadable, Running
<1>9. ASSUME NEW k \in Kek, Retire(k)
      PROVE  TypeOK'
  <2>1. file.active # k
    BY <1>9 DEF Retire, ChecksSound, Old
  <2>2. file' \in Keyset /\ Loadable(file')
    BY <1>9, <2>1 DEF Retire, TypeOK, Keyset, Loadable
  <2> QED BY <1>9, <2>2 DEF Retire, TypeOK, Running
<1>10. CASE Restart
  BY <1>10 DEF Restart, TypeOK, Running
<1>11. CASE Tick
  BY <1>11 DEF Tick, TypeOK, Running
<1>12. CASE UNCHANGED vars
  BY <1>12 DEF vars, TypeOK, Running
<1> QED
  BY <1>1, <1>2, <1>3, <1>4, <1>5, <1>6, <1>7, <1>8, <1>9, <1>10, <1>11, <1>12 DEF Next

-----------------------------------------------------------------------------
(* Locks and their queues.                                                 *)

\* What a step is, for a transaction whose kind and arguments stay.
LEMMA SameStays ==
    ASSUME NEW t \in Txn, NEW u \in Txn,
           kind'[t] = kind[t], kind'[u] = kind[u], arg'[t] = arg[t], arg'[u] = arg[u]
    PROVE  \A i, j \in Nat : /\ Same(t, i, u, j)' <=> Same(t, i, u, j)
                             /\ Conflict(t, i, u, j)' <=> Conflict(t, i, u, j)
BY DEF Same, Conflict, Locks, LockAt, StepAt

LEMMA SameSymmetric ==
    ASSUME NEW t \in Txn, NEW u \in Txn, NEW i \in Nat, NEW j \in Nat
    PROVE  /\ Same(t, i, u, j) <=> Same(u, j, t, i)
           /\ Conflict(t, i, u, j) <=> Conflict(u, j, t, i)
BY DEF Same, Conflict

LEMMA LockInit == TypeOK /\ Init => LockInv
BY ExclusiveFirst DEF TypeOK, Init, LockInv, AtRest, Queues, LockSafe, Running

LEMMA LockFrame ==
    ASSUME TypeOK, LockInv, UNCHANGED <<kind, arg, pc, waits, ahead, wrap>>
    PROVE  LockInv'
<1>1. AtRest'
  BY DEF LockInv, AtRest, Running
<1>2. Queues'
  <2>1. \A t \in Txn : /\ Running(t)' <=> Running(t)
                       /\ Ended(t)' <=> Ended(t)
                       /\ Locks(t, pc[t])' <=> Locks(t, pc[t])
    BY DEF Running, Ended, Locks, StepAt
  <2>2. \A t, u \in Txn : Same(t, pc[t], u, pc[u])' <=> Same(t, pc[t], u, pc[u])
    BY DEF Same, Locks, StepAt, LockAt
  <2>3. \A t \in Txn : ahead[t] \subseteq Txn
    BY DEF TypeOK
  <2> QED BY <2>1, <2>2, <2>3 DEF LockInv, Queues
<1>3. LockSafe'
  BY DEF LockInv, LockSafe, Running, Conflict, Same, Locks, StepAt, LockAt
<1> QED BY <1>1, <1>2, <1>3 DEF LockInv

LEMMA LockBegin ==
    ASSUME TypeOK, LockInv, NEW t \in Txn, NEW k \in Kind, NEW a \in Args, Begin(t, k, a)
    PROVE  LockInv'
<1>1. /\ ~Running(t) /\ pc[t] = 1 /\ ~waits[t] /\ wrap[t] = Null /\ ahead[t] = {}
      /\ \A u \in Txn : t \notin ahead[u]
  BY ExclusiveFirst DEF Begin, Running, LockInv, AtRest, Queues
<1>2. \A u \in Txn \ {t} : kind'[u] = kind[u] /\ arg'[u] = arg[u]
  BY DEF Begin, TypeOK
<1>3. UNCHANGED <<pc, waits, ahead, wrap>>
  BY DEF Begin
<1>4. AtRest'
  BY <1>1, <1>2, <1>3 DEF LockInv, AtRest, Running
<1>5. Queues'
  <2> SUFFICES ASSUME NEW u \in Txn
               PROVE  /\ waits'[u] => Running(u)' /\ ~Ended(u)' /\ Locks(u, pc[u])'
                      /\ ahead'[u] # {} => waits'[u]
                      /\ \A w \in ahead'[u] : /\ w # u /\ waits'[w] /\ Same(u, pc[u], w, pc[w])'
                                              /\ ahead'[w] \subseteq ahead'[u]
    BY DEF Queues
  <2>1. CASE u = t
    BY <2>1, <1>1, <1>3
  <2>2. CASE u # t
    <3>1. waits[u] => Running(u)' /\ ~Ended(u)' /\ Locks(u, pc[u])'
      BY <2>2, <1>2, <1>3 DEF LockInv, Queues, Running, Ended, Locks, StepAt
    <3>2. ASSUME NEW w \in ahead[u] PROVE Same(u, pc[u], w, pc[w])' /\ w \in Txn
      <4>1. w # t /\ w \in Txn
        BY <1>1, <3>2 DEF TypeOK
      <4>2. Same(u, pc[u], w, pc[w])
        BY <3>2 DEF LockInv, Queues
      <4>3. pc[u] \in Nat /\ pc[w] \in Nat
        BY <4>1 DEF TypeOK
      <4> QED BY <4>1, <4>2, <4>3, <2>2, <1>2, <1>3, SameStays
    <3> QED BY <3>1, <3>2, <1>3 DEF LockInv, Queues
  <2> QED BY <2>1, <2>2
<1>6. LockSafe'
  <2> SUFFICES ASSUME NEW u \in Txn, NEW w \in Txn, u # w, Running(u)', Running(w)',
                      NEW i \in 1..(pc'[u] - 1), NEW j \in 1..(pc'[w] - 1)
               PROVE  ~Conflict(u, i, w, j)'
    BY DEF LockSafe
  <2>1. u # t /\ w # t /\ i \in Nat /\ j \in Nat
    BY <1>1, <1>3 DEF TypeOK
  <2>2. ~Conflict(u, i, w, j)
    BY <2>1, <1>2, <1>3 DEF LockInv, LockSafe, Running
  <2> QED BY <2>1, <2>2, <1>2, SameStays
<1> QED BY <1>4, <1>5, <1>6 DEF LockInv

\* A lock is granted only when nobody holds or is queued for a conflicting one.
LEMMA LockAcquire ==
    ASSUME TypeOK, LockInv, NEW t \in Txn, Acquire(t)
    PROVE  LockInv'
<1>1. Running(t) /\ UNCHANGED <<kind, arg, wrap>>
  BY DEF Acquire, AtStep
<1>2. /\ pc' = [pc EXCEPT ![t] = pc[t] + 1] /\ waits' = [waits EXCEPT ![t] = FALSE]
      /\ ahead' = [u \in Txn |-> IF u = t THEN {} ELSE ahead[u] \ {t}]
  BY DEF Acquire, Leave
<1>3. \A u \in Txn : pc[u] \in Nat /\ 1 <= pc[u]
  BY DEF TypeOK
<1>4. AtRest'
  BY <1>1, <1>2 DEF LockInv, AtRest, Running, TypeOK
<1>5. Queues'
  <2> SUFFICES ASSUME NEW u \in Txn
               PROVE  /\ waits'[u] => Running(u)' /\ ~Ended(u)' /\ Locks(u, pc[u])'
                      /\ ahead'[u] # {} => waits'[u]
                      /\ \A w \in ahead'[u] : /\ w # u /\ waits'[w] /\ Same(u, pc[u], w, pc[w])'
                                              /\ ahead'[w] \subseteq ahead'[u]
    BY DEF Queues
  <2>1. CASE u = t
    BY <2>1, <1>2 DEF TypeOK
  <2>2. CASE u # t
    <3>1. pc'[u] = pc[u] /\ waits'[u] = waits[u] /\ ahead'[u] = ahead[u] \ {t}
      BY <2>2, <1>2 DEF TypeOK
    <3>2. waits[u] => Running(u)' /\ ~Ended(u)' /\ Locks(u, pc[u])'
      BY <3>1, <1>1 DEF LockInv, Queues, Running, Ended, Locks, StepAt
    <3>3. ASSUME NEW w \in ahead'[u]
          PROVE  w # u /\ waits'[w] /\ Same(u, pc[u], w, pc[w])' /\ ahead'[w] \subseteq ahead'[u]
      <4>1. w \in ahead[u] /\ w # t /\ w \in Txn
        BY <3>1, <3>3 DEF TypeOK
      <4>2. pc'[w] = pc[w] /\ waits'[w] = waits[w] /\ ahead'[w] = ahead[w] \ {t}
        BY <4>1, <1>2 DEF TypeOK
      <4>3. w # u /\ waits[w] /\ Same(u, pc[u], w, pc[w]) /\ ahead[w] \subseteq ahead[u]
        BY <4>1 DEF LockInv, Queues
      <4>4. Same(u, pc[u], w, pc[w])'
        BY <4>1, <4>2, <4>3, <3>1, <1>1, <1>3, SameStays
      <4> QED BY <4>2, <4>3, <4>4, <3>1
    <3>4. ahead[u] # {} => waits[u]
      BY DEF LockInv, Queues
    <3> QED BY <3>1, <3>2, <3>3, <3>4
  <2> QED BY <2>1, <2>2
<1>6. LockSafe'
  <2>1. ASSUME NEW u \in Txn, u # t, Running(u), NEW j \in 1..(pc[u] - 1)
        PROVE  ~Conflict(t, pc[t], u, j)
    BY <2>1 DEF Acquire, Blocks
  <2>2. ASSUME NEW u \in Txn, u # t, Running(u), NEW i \in 1..pc[t], NEW j \in 1..(pc[u] - 1)
        PROVE  ~Conflict(t, i, u, j)
    <3>1. CASE i = pc[t]
      BY <2>2, <3>1, <2>1
    <3>2. CASE i # pc[t]
      <4>1. i \in 1..(pc[t] - 1)
        BY <1>3, <3>2
      <4> QED BY <4>1, <2>2, <1>1 DEF LockInv, LockSafe
    <3> QED BY <3>1, <3>2
  <2> SUFFICES ASSUME NEW u \in Txn, NEW w \in Txn, u # w, Running(u)', Running(w)',
                      NEW i \in 1..(pc'[u] - 1), NEW j \in 1..(pc'[w] - 1)
               PROVE  ~Conflict(u, i, w, j)'
    BY DEF LockSafe
  <2>3. i \in Nat /\ j \in Nat /\ Running(u) /\ Running(w)
    BY <1>1, <1>2, <1>3 DEF Running
  <2>4. ~Conflict(u, i, w, j)
    <3>1. CASE u = t
      <4>1. i \in 1..pc[t] /\ j \in 1..(pc[w] - 1)
        BY <3>1, <1>2, <1>3 DEF TypeOK
      <4> QED BY <3>1, <4>1, <2>2, <2>3
    <3>2. CASE w = t
      <4>1. j \in 1..pc[t] /\ i \in 1..(pc[u] - 1)
        BY <3>2, <1>2, <1>3 DEF TypeOK
      <4> QED BY <3>2, <4>1, <2>2, <2>3, SameSymmetric
    <3>3. CASE u # t /\ w # t
      <4>1. i \in 1..(pc[u] - 1) /\ j \in 1..(pc[w] - 1)
        BY <3>3, <1>2 DEF TypeOK
      <4> QED BY <4>1, <2>3 DEF LockInv, LockSafe
    <3> QED BY <3>1, <3>2, <3>3
  <2> QED BY <2>3, <2>4, <1>1, SameStays
<1> QED BY <1>4, <1>5, <1>6 DEF LockInv

\* A transaction that starts to wait goes behind all that wait already.
LEMMA LockWait ==
    ASSUME TypeOK, LockInv, NEW t \in Txn, Wait(t)
    PROVE  LockInv'
<1>1. Running(t) /\ ~Ended(t) /\ Locks(t, pc[t]) /\ ~waits[t] /\ UNCHANGED <<kind, arg, pc, wrap>>
  BY DEF Wait, AtStep
<1>2. /\ waits' = [waits EXCEPT ![t] = TRUE] /\ ahead' = [ahead EXCEPT ![t] = Queued(t)]
      /\ Queued(t) \in SUBSET Txn
  BY DEF Wait, Queued
<1>3. \A u \in Txn : t \notin ahead[u]
  BY <1>1 DEF LockInv, Queues
<1>4. AtRest'
  BY <1>1, <1>2 DEF LockInv, AtRest, Running, TypeOK
<1>5. LockSafe'
  BY <1>1 DEF LockInv, LockSafe, Running, Conflict, Same, Locks, StepAt, LockAt
<1>6. \A u, w \in Txn : Same(u, pc[u], w, pc[w])' <=> Same(u, pc[u], w, pc[w])
  BY <1>1 DEF Same, Locks, StepAt, LockAt
<1>7. Queues'
  <2> SUFFICES ASSUME NEW u \in Txn
               PROVE  /\ waits'[u] => Running(u)' /\ ~Ended(u)' /\ Locks(u, pc[u])'
                      /\ ahead'[u] # {} => waits'[u]
                      /\ \A w \in ahead'[u] : /\ w # u /\ waits'[w] /\ Same(u, pc[u], w, pc[w])'
                                              /\ ahead'[w] \subseteq ahead'[u]
    BY DEF Queues
  <2>1. CASE u = t
    <3>1. Running(u)' /\ ~Ended(u)' /\ Locks(u, pc[u])' /\ waits'[u] /\ ahead'[u] = Queued(t)
      BY <2>1, <1>1, <1>2 DEF Running, Ended, Locks, StepAt, TypeOK
    <3>2. ASSUME NEW w \in Queued(t)
          PROVE  w # u /\ waits'[w] /\ Same(u, pc[u], w, pc[w])' /\ ahead'[w] \subseteq Queued(t)
      <4>1. w \in Txn /\ w # t /\ waits[w] /\ Same(t, pc[t], w, pc[w])
        BY <3>2 DEF Queued
      <4>2. waits'[w] /\ ahead'[w] = ahead[w]
        BY <4>1, <1>2 DEF TypeOK
      <4>3. ASSUME NEW x \in ahead[w] PROVE x \in Queued(t)
        <5>1. x \in Txn /\ x # t /\ waits[x] /\ Same(w, pc[w], x, pc[x])
          BY <4>1, <4>3, <1>3 DEF LockInv, Queues, TypeOK
        <5>2. Running(x)
          BY <5>1 DEF LockInv, Queues
        <5>3. Same(t, pc[t], x, pc[x])
          BY <5>1, <4>1 DEF Same
        <5> QED BY <5>1, <5>2, <5>3 DEF Queued
      <4> QED BY <4>1, <4>2, <4>3, <2>1, <1>6
    <3> QED BY <3>1, <3>2
  <2>2. CASE u # t
    <3>1. waits'[u] = waits[u] /\ ahead'[u] = ahead[u]
      BY <2>2, <1>2 DEF TypeOK
    <3>2. waits[u] => Running(u)' /\ ~Ended(u)' /\ Locks(u, pc[u])'
      BY <1>1 DEF LockInv, Queues, Running, Ended, Locks, StepAt
    <3>3. ASSUME NEW w \in ahead[u]
          PROVE  w # u /\ waits'[w] /\ Same(u, pc[u], w, pc[w])' /\ ahead'[w] \subseteq ahead[u]
      <4>1. w \in Txn /\ w # t
        BY <3>3, <1>3 DEF TypeOK
      <4>2. waits'[w] = waits[w] /\ ahead'[w] = ahead[w]
        BY <4>1, <1>2 DEF TypeOK
      <4> QED BY <3>3, <4>1, <4>2, <1>6 DEF LockInv, Queues
    <3>4. ahead[u] # {} => waits[u]
      BY DEF LockInv, Queues
    <3> QED BY <3>1, <3>2, <3>3, <3>4
  <2> QED BY <2>1, <2>2
<1> QED BY <1>4, <1>5, <1>7 DEF LockInv

\* Work under the locks takes and frees none.
LEMMA LockWork ==
    ASSUME TypeOK, LockInv, NEW t \in Txn, Count(t) \/ Seal(t) \/ Check(t)
    PROVE  LockInv'
<1>1. /\ AtStep(t) /\ Running(t) /\ UNCHANGED <<kind, arg, waits, ahead>>
      /\ pc' = [pc EXCEPT ![t] = pc[t] + 1] /\ \A u \in Txn \ {t} : wrap'[u] = wrap[u]
      /\ StepAt(t, pc[t]).op \in {"count", "seal", "check"}
  BY DEF Count, Seal, Check, AtStep, TypeOK
<1>2. ~Locks(t, pc[t])
  BY <1>1, StepOfPlan DEF WellOrdered, StepAt, Locks
<1>3. ~waits[t] /\ ahead[t] = {} /\ \A u \in Txn : t \notin ahead[u]
  BY <1>2 DEF LockInv, Queues
<1>4. \A u \in Txn \ {t} : pc'[u] = pc[u]
  BY <1>1 DEF TypeOK
<1>5. AtRest'
  BY <1>1, <1>4 DEF LockInv, AtRest, Running
<1>6. Queues'
  <2> SUFFICES ASSUME NEW u \in Txn
               PROVE  /\ waits'[u] => Running(u)' /\ ~Ended(u)' /\ Locks(u, pc[u])'
                      /\ ahead'[u] # {} => waits'[u]
                      /\ \A w \in ahead'[u] : /\ w # u /\ waits'[w] /\ Same(u, pc[u], w, pc[w])'
                                              /\ ahead'[w] \subseteq ahead'[u]
    BY DEF Queues
  <2>1. CASE u = t
    BY <2>1, <1>1, <1>3
  <2>2. CASE u # t
    <3>1. waits[u] => Running(u)' /\ ~Ended(u)' /\ Locks(u, pc[u])'
      BY <2>2, <1>1, <1>4 DEF LockInv, Queues, Running, Ended, Locks, StepAt
    <3>2. ASSUME NEW w \in ahead[u] PROVE Same(u, pc[u], w, pc[w])'
      <4>1. w # t /\ w \in Txn
        BY <1>3, <3>2 DEF TypeOK
      <4>2. pc'[u] = pc[u] /\ pc'[w] = pc[w] /\ Same(u, pc[u], w, pc[w])
        BY <2>2, <3>2, <4>1, <1>4 DEF LockInv, Queues
      <4> QED BY <4>2, <1>1 DEF Same, Locks, StepAt, LockAt
    <3> QED BY <3>1, <3>2, <1>1 DEF LockInv, Queues
  <2> QED BY <2>1, <2>2
<1>7. LockSafe'
  <2>1. \A u \in Txn, j \in Nat : ~Conflict(t, pc[t], u, j) /\ ~Conflict(u, j, t, pc[t])
    BY <1>2 DEF Conflict, Same
  <2> SUFFICES ASSUME NEW u \in Txn, NEW w \in Txn, u # w, Running(u)', Running(w)',
                      NEW i \in 1..(pc'[u] - 1), NEW j \in 1..(pc'[w] - 1)
               PROVE  ~Conflict(u, i, w, j)'
    BY DEF LockSafe
  <2>2. /\ i \in Nat /\ j \in Nat /\ Running(u) /\ Running(w)
        /\ i \in 1..(pc[u] - 1) \/ (u = t /\ i = pc[t])
        /\ j \in 1..(pc[w] - 1) \/ (w = t /\ j = pc[t])
    BY <1>1, <1>4 DEF Running, TypeOK
  <2>3. ~Conflict(u, i, w, j)
    BY <2>1, <2>2 DEF LockInv, LockSafe
  <2> QED BY <2>2, <2>3, <1>1, SameStays
<1> QED BY <1>5, <1>6, <1>7 DEF LockInv

\* The end of a transaction frees its locks and its place in the queues.
LEMMA LockEnd ==
    ASSUME TypeOK, LockInv, NEW t \in Txn, End(t)
    PROVE  LockInv'
<1>1. /\ kind'[t] = "done" /\ pc'[t] = 1 /\ ~waits'[t] /\ wrap'[t] = Null /\ ahead'[t] = {}
      /\ ~Running(t)'
  BY ExclusiveFirst DEF End, Leave, TypeOK, Running
<1>2. \A u \in Txn \ {t} : /\ kind'[u] = kind[u] /\ arg'[u] = arg[u] /\ pc'[u] = pc[u]
                           /\ waits'[u] = waits[u] /\ wrap'[u] = wrap[u]
                           /\ ahead'[u] = ahead[u] \ {t}
  BY DEF End, Leave, TypeOK
<1>3. AtRest'
  BY <1>1, <1>2 DEF LockInv, AtRest, Running
<1>4. Queues'
  <2> SUFFICES ASSUME NEW u \in Txn
               PROVE  /\ waits'[u] => Running(u)' /\ ~Ended(u)' /\ Locks(u, pc[u])'
                      /\ ahead'[u] # {} => waits'[u]
                      /\ \A w \in ahead'[u] : /\ w # u /\ waits'[w] /\ Same(u, pc[u], w, pc[w])'
                                              /\ ahead'[w] \subseteq ahead'[u]
    BY DEF Queues
  <2>1. CASE u = t
    BY <2>1, <1>1
  <2>2. CASE u # t
    <3>1. waits[u] => Running(u)' /\ ~Ended(u)' /\ Locks(u, pc[u])'
      BY <2>2, <1>2 DEF LockInv, Queues, Running, Ended, Locks, StepAt
    <3>2. ASSUME NEW w \in ahead'[u]
          PROVE  w # u /\ waits'[w] /\ Same(u, pc[u], w, pc[w])' /\ ahead'[w] \subseteq ahead'[u]
      <4>1. w \in ahead[u] /\ w # t /\ w \in Txn
        BY <2>2, <1>2, <3>2 DEF TypeOK
      <4>2. w # u /\ waits[w] /\ Same(u, pc[u], w, pc[w]) /\ ahead[w] \subseteq ahead[u]
        BY <4>1 DEF LockInv, Queues
      <4>3. pc[u] \in Nat /\ pc[w] \in Nat
        BY <4>1 DEF TypeOK
      <4>4. Same(u, pc[u], w, pc[w])'
        BY <2>2, <4>1, <4>2, <4>3, <1>2, SameStays
      <4> QED BY <2>2, <4>1, <4>2, <4>4, <1>2
    <3>3. ahead[u] # {} => waits[u]
      BY DEF LockInv, Queues
    <3> QED BY <2>2, <3>1, <3>2, <3>3, <1>2
  <2> QED BY <2>1, <2>2
<1>5. LockSafe'
  <2> SUFFICES ASSUME NEW u \in Txn, NEW w \in Txn, u # w, Running(u)', Running(w)',
                      NEW i \in 1..(pc'[u] - 1), NEW j \in 1..(pc'[w] - 1)
               PROVE  ~Conflict(u, i, w, j)'
    BY DEF LockSafe
  <2>1. /\ u # t /\ w # t /\ Running(u) /\ Running(w)
        /\ i \in 1..(pc[u] - 1) /\ j \in 1..(pc[w] - 1) /\ i \in Nat /\ j \in Nat
    BY <1>1, <1>2 DEF Running, TypeOK
  <2>2. ~Conflict(u, i, w, j)
    BY <2>1 DEF LockInv, LockSafe
  <2> QED BY <2>1, <2>2, <1>2, SameStays
<1> QED BY <1>3, <1>4, <1>5 DEF LockInv

LEMMA LockStep == TypeOK /\ LockInv /\ [Next]_vars => LockInv'
<1> SUFFICES ASSUME TypeOK, LockInv, [Next]_vars PROVE LockInv'
  OBVIOUS
<1>1. ASSUME NEW t \in Txn, NEW k \in Kind \cap Kinds, NEW a \in Args, Begin(t, k, a)
      PROVE  LockInv'
  BY <1>1, LockBegin
<1>2. ASSUME NEW t \in Txn, Acquire(t) PROVE LockInv'
  BY <1>2, LockAcquire
<1>3. ASSUME NEW t \in Txn, Wait(t) PROVE LockInv'
  BY <1>3, LockWait
<1>4. ASSUME NEW t \in Txn, Count(t) \/ Seal(t) \/ Check(t) PROVE LockInv'
  BY <1>4, LockWork
<1>5. ASSUME NEW t \in Txn, Commit(t) \/ Abort(t) PROVE LockInv'
  BY <1>5, LockEnd DEF Commit, Abort
<1>6. ASSUME NEW r \in rows, PurgeContext(r) \/ Rewrap(r) PROVE LockInv'
  BY <1>6, LockFrame DEF PurgeContext, Rewrap
<1>7. ASSUME NEW k \in Kek, AddKey(k) \/ Retire(k) PROVE LockInv'
  BY <1>7, LockFrame DEF AddKey, Retire
<1>8. CASE Restart \/ Tick \/ UNCHANGED vars
  BY <1>8, LockFrame DEF Restart, Tick, vars
<1> QED BY <1>1, <1>2, <1>3, <1>4, <1>5, <1>6, <1>7, <1>8 DEF Next

-----------------------------------------------------------------------------
(* Nobody waits in a circle.                                               *)

\* Among finitely many sets of transactions one has no other strictly inside.
LEMMA SmallestQueue ==
    ASSUME TypeOK, NEW S \in SUBSET Txn, S # {}
    PROVE  \E t \in S : \A u \in S : ~(ahead[u] \subseteq ahead[t] /\ ahead[u] # ahead[t])
<1> DEFINE T == {ahead[t] : t \in S}
<1>1. T \subseteq FiniteSubsetsOf(Txn) /\ T # {}
  BY FS_Subset DEF TypeOK, FiniteSubsetsOf
<1>2. \E x \in T : \A y \in T : <<y, x>> \notin StrictSubsetOrdering(Txn)
  BY <1>1, FS_StrictSubsetOrderingWellFounded, WFMin
<1>3. PICK x \in T : \A y \in T : <<y, x>> \notin StrictSubsetOrdering(Txn)
  BY <1>2
<1>4. PICK t \in S : x = ahead[t]
  BY <1>3
<1>5. ASSUME NEW u \in S PROVE ~(ahead[u] \subseteq ahead[t] /\ ahead[u] # ahead[t])
  <2>1. ahead[u] \in SUBSET Txn /\ ahead[t] \in SUBSET Txn
    BY DEF TypeOK
  <2>2. <<ahead[u], ahead[t]>> \notin StrictSubsetOrdering(Txn)
    BY <1>3, <1>4
  <2> QED BY <2>1, <2>2 DEF StrictSubsetOrdering
<1> QED BY <1>5

\* The rank of the lock that a waiting transaction waits for.
WaitRank(t) == Rank[StepAt(t, pc[t]).class]

LEMMA WaitRankType ==
    ASSUME TypeOK, Queues, NEW t \in Txn, waits[t]
    PROVE  WaitRank(t) \in 1..6
<1>1. Running(t) /\ ~Ended(t) /\ Locks(t, pc[t])
  BY DEF Queues
<1>2. StepAt(t, pc[t]).class \in Class
  BY <1>1, StepOfPlan DEF WellOrdered, StepAt, Locks, Ended, AtStep
<1> QED BY <1>2 DEF WaitRank, Rank, Class

\* Whoever keeps a waiting transaction from its lock and waits too is further
\* on in the order of the locks, or before it in the same queue.
LEMMA BlockerOrder ==
    ASSUME TypeOK, Queues, NEW t \in Txn, NEW u \in Txn, waits[t], waits[u], Blocks(u, t)
    PROVE  \/ WaitRank(t) < WaitRank(u)
           \/ /\ WaitRank(t) = WaitRank(u)
              /\ ahead[u] \subseteq ahead[t] /\ ahead[u] # ahead[t]
<1>1. Running(t) /\ Running(u) /\ ~Ended(t) /\ ~Ended(u) /\ Locks(t, pc[t]) /\ Locks(u, pc[u])
  BY DEF Queues
<1>2. CASE \E i \in 1..(pc[u] - 1) : Conflict(t, pc[t], u, i)
  <2>1. PICK i \in 1..(pc[u] - 1) : Conflict(t, pc[t], u, i)
    BY <1>2
  <2>2. Locks(u, i) /\ StepAt(u, i).class = StepAt(t, pc[t]).class
    BY <2>1 DEF Conflict, Same, LockAt
  <2>3. pc[u] \in 1..Len(Plan[kind[u]]) /\ WellOrdered(Plan[kind[u]])
    BY <1>1, StepOfPlan DEF Ended
  <2>4. Rank[StepAt(u, i).class] < Rank[StepAt(u, pc[u]).class]
    BY <1>1, <2>2, <2>3 DEF WellOrdered, StepAt, Locks
  <2> QED BY <2>2, <2>4 DEF WaitRank
<1>3. CASE u \in ahead[t]
  <2>1. Same(t, pc[t], u, pc[u]) /\ ahead[u] \subseteq ahead[t] /\ u \notin ahead[u]
    BY <1>3 DEF Queues
  <2>2. WaitRank(t) = WaitRank(u)
    BY <2>1 DEF Same, LockAt, WaitRank
  <2> QED BY <1>3, <2>1, <2>2
<1> QED BY <1>2, <1>3 DEF Blocks, Before

\* Of finitely many ranks one is the highest.
LEMMA HighestRank ==
    ASSUME NEW S, S # {}, NEW f \in [S -> 1..6]
    PROVE  \E t \in S : \A u \in S : f[u] <= f[t]
OBVIOUS

\* Safety of the lock order in every state of the invariant.
LEMMA NoCycle == TypeOK /\ Queues => NoCyclicWait
<1> SUFFICES ASSUME TypeOK, Queues, NEW S \in SUBSET Txn, S # {},
                    \A t \in S : waits[t] /\ \E u \in S : Blocks(u, t)
             PROVE  FALSE
  BY DEF NoCyclicWait
<1> DEFINE f == [t \in S |-> WaitRank(t)]
<1>1. f \in [S -> 1..6]
  BY WaitRankType
<1>2. PICK h \in S : \A u \in S : f[u] <= f[h]
  <2> HIDE DEF f
  <2> QED BY <1>1, HighestRank
<1> DEFINE M == {t \in S : WaitRank(t) = WaitRank(h)}
<1>3. PICK t \in M : \A u \in M : ~(ahead[u] \subseteq ahead[t] /\ ahead[u] # ahead[t])
  <2>1. M \in SUBSET Txn /\ M # {}
    OBVIOUS
  <2> HIDE DEF M
  <2> QED BY <2>1, SmallestQueue
<1>4. PICK u \in S : Blocks(u, t)
  BY <1>3
<1>5. WaitRank(t) = WaitRank(h) /\ WaitRank(u) <= WaitRank(h) /\ WaitRank(u) \in 1..6
      /\ WaitRank(t) \in 1..6
  BY <1>1, <1>2, <1>3, WaitRankType
<1>6. \/ WaitRank(t) < WaitRank(u)
      \/ WaitRank(t) = WaitRank(u) /\ ahead[u] \subseteq ahead[t] /\ ahead[u] # ahead[t]
  BY <1>3, <1>4, BlockerOrder
<1> QED BY <1>3, <1>5, <1>6

-----------------------------------------------------------------------------
(* Retirement of a key.                                                    *)

\* While a check holds the KEK lock no writer has got past it.
LEMMA CheckAlone ==
    ASSUME TypeOK, LockSafe, NEW t \in Txn, kind[t] = "verify", pc[t] > 1,
           NEW u \in Txn, kind[u] \in Writer
    PROVE  pc[u] <= KekAt[kind[u]]
<1> SUFFICES ASSUME pc[u] > KekAt[kind[u]] PROVE FALSE
  <2>1. pc[u] \in Nat /\ KekAt[kind[u]] \in Nat
    BY WritersSeal DEF TypeOK, Seals
  <2> QED BY <2>1
<1> DEFINE j == KekAt[kind[u]]
<1>1. /\ Running(t) /\ Running(u) /\ t # u
      /\ pc[t] \in Nat /\ pc[u] \in Nat /\ j \in Nat /\ 1 <= j
      /\ StepAt(t, 1) = Exclusive("kek") /\ StepAt(u, j) = Shared("kek")
  BY WritersSeal, ExclusiveFirst DEF Running, TypeOK, Seals, StepAt
<1>2. Conflict(t, 1, u, j)
  BY <1>1 DEF Conflict, Same, Locks, LockAt, Exclusive, Shared
<1>3. 1 \in 1..(pc[t] - 1) /\ j \in 1..(pc[u] - 1)
  BY <1>1
<1> QED BY <1>1, <1>2, <1>3 DEF LockSafe

LEMMA KeyInit == TypeOK /\ Init => KeyInv
<1> SUFFICES ASSUME TypeOK, Init PROVE KeyInv
  OBVIOUS
<1>1. "idle" \notin Writer
  BY ExclusiveFirst, WritersSeal
<1>2. keyset.active \in file.keys /\ RowsOpenable
  BY DEF Init, RowsOpenable, Opens
<1> QED BY <1>1, <1>2 DEF Init, KeyInv, WrapsSound, ChecksSound

\* Steps that change neither the keys, nor the rows, nor what is sealed or
\* has been checked.
LEMMA KeyFrame ==
    ASSUME KeyInv, UNCHANGED <<file, keyset, kind, arg, pc, wrap, rows, verified, retired>>
    PROVE  KeyInv'
BY DEF KeyInv, RowsOpenable, Opens, WrapsSound, ChecksSound, Old, Clean

LEMMA KeyBegin ==
    ASSUME TypeOK, LockInv, KeyInv, NEW t \in Txn, NEW k \in Kind, NEW a \in Args, Begin(t, k, a)
    PROVE  KeyInv'
<1>1. kind' = [kind EXCEPT ![t] = k] /\ arg' = [arg EXCEPT ![t] = a] /\ wrap[t] = Null /\ pc[t] = 1
  BY ExclusiveFirst DEF Begin, Running, LockInv, AtRest
<1>2. UNCHANGED <<file, keyset, pc, wrap, rows, verified, retired>>
  BY DEF Begin
<1>3. RowsOpenable' /\ keyset'.active \in file'.keys
  BY <1>2 DEF KeyInv, RowsOpenable, Opens
<1>4. WrapsSound'
  <2>1. k \in Writer => SealAt[k] \in Nat /\ 1 < SealAt[k]
    BY WritersSeal DEF Seals
  <2> QED BY <1>1, <1>2, <2>1 DEF KeyInv, WrapsSound, TypeOK
<1>5. \A x \in Kek : Clean(x) => Clean(x)'
  BY <1>1, <1>2 DEF Clean, TypeOK
<1>6. \A x \in Kek : Old(x) => Old(x)'
  BY <1>2 DEF Old
<1>7. ChecksSound'
  <2>1. \A x \in verified : Old(x)' /\ Clean(x)'
    BY <1>5, <1>6 DEF KeyInv, ChecksSound, TypeOK
  <2>2. k = "verify" => Old(a.kek)'
    BY <1>6 DEF Begin, Superseded, Old, Args
  <2>3. ASSUME NEW u \in Txn, kind'[u] = "verify"
        PROVE  (/\ Old(arg[u].kek)
                /\ wrap[u] # Null => pc[u] = 3 /\ wrap[u] = arg[u].kek /\ Clean(wrap[u]))'
    <3>1. CASE u = t
      <4>1. arg'[u] = a /\ wrap'[u] = Null /\ k = "verify"
        BY <3>1, <2>3, <1>1, <1>2 DEF TypeOK
      <4> QED BY <4>1, <2>2 DEF Old
    <3>2. CASE u # t
      <4>1. kind[u] = "verify" /\ arg'[u] = arg[u] /\ arg[u].kek \in Kek
        BY <2>3, <3>2, <1>1 DEF TypeOK, Args
      <4>2. Old(arg[u].kek) /\ (wrap[u] # Null => pc[u] = 3 /\ wrap[u] = arg[u].kek /\ Clean(wrap[u]))
        BY <4>1 DEF KeyInv, ChecksSound
      <4>3. (Old(arg[u].kek))'
        BY <4>1, <4>2, <1>2 DEF Old
      <4>4. wrap[u] # Null => (Clean(wrap[u]))'
        BY <4>1, <4>2, <1>1, <1>2 DEF Clean, TypeOK
      <4> QED BY <4>1, <4>2, <4>3, <4>4, <1>2
    <3> QED BY <3>1, <3>2
  <2> QED BY <1>2, <2>1, <2>3 DEF ChecksSound, Old, Clean
<1> QED BY <1>3, <1>4, <1>7 DEF KeyInv

\* A lock taken, or a count made, is not a seal.
LEMMA KeyAdvance ==
    ASSUME TypeOK, KeyInv, NEW t \in Txn, Acquire(t) \/ Count(t)
    PROVE  KeyInv'
<1>1. /\ AtStep(t) /\ Running(t) /\ pc' = [pc EXCEPT ![t] = pc[t] + 1]
      /\ UNCHANGED <<file, keyset, kind, arg, wrap, rows, verified, retired>>
      /\ StepAt(t, pc[t]).op \notin {"seal", "check"}
  <2>1. Acquire(t) => StepAt(t, pc[t]).op \notin {"seal", "check"}
    BY StepOfPlan DEF Acquire, AtStep, WellOrdered, StepAt, Locks, Class
  <2> QED BY <2>1 DEF Acquire, Count, AtStep
<1>2. pc[t] \in 1..Len(Plan[kind[t]]) /\ kind[t] \in Kind
  BY <1>1, StepOfPlan
<1>3. WrapsSound'
  <2>1. kind[t] \in Writer => SealAt[kind[t]] \in Nat /\ pc[t] # SealAt[kind[t]]
    BY <1>1, <1>2, WritersSeal DEF Seals, StepAt
  <2> QED BY <1>1, <1>2, <2>1 DEF KeyInv, WrapsSound, TypeOK
<1>4. ChecksSound'
  <2>1. kind[t] = "verify" => pc[t] = 1
    BY <1>1, <1>2, ExclusiveFirst, OthersDoNot DEF StepAt
  <2> QED BY <1>1, <2>1 DEF KeyInv, ChecksSound, Old, Clean, TypeOK
<1> QED BY <1>1, <1>3, <1>4 DEF KeyInv, RowsOpenable, Opens

\* A writer seals under the key the process is using, which is never an old one.
LEMMA KeySeal ==
    ASSUME TypeOK, KeyInv, NEW t \in Txn, Seal(t)
    PROVE  KeyInv'
<1>1. /\ AtStep(t) /\ Running(t) /\ pc' = [pc EXCEPT ![t] = pc[t] + 1]
      /\ wrap' = [wrap EXCEPT ![t] = keyset.active]
      /\ UNCHANGED <<file, keyset, kind, arg, rows, verified, retired>>
  BY DEF Seal, AtStep
<1>2. pc[t] \in 1..Len(Plan[kind[t]]) /\ kind[t] \in Kind
  BY <1>1, StepOfPlan
<1>3. kind[t] \in Writer /\ SealAt[kind[t]] = pc[t] /\ kind[t] # "verify"
  BY <1>2, OthersDoNot, WritersSeal, ExclusiveFirst DEF Seal, StepAt, Seals
<1>4. keyset.active \in file.keys \cap keyset.keys /\ keyset.active # Null
  BY DEF KeyInv, TypeOK, Loadable, Keyset
<1>5. WrapsSound'
  BY <1>1, <1>2, <1>3, <1>4 DEF KeyInv, WrapsSound, TypeOK
<1>6. \A x \in Kek : Old(x) /\ Clean(x) => Old(x)' /\ Clean(x)'
  BY <1>1, <1>3 DEF Old, Clean, TypeOK
<1>7. ChecksSound'
  <2>1. \A x \in verified : Old(x)' /\ Clean(x)'
    BY <1>6 DEF KeyInv, ChecksSound, TypeOK
  <2>2. ASSUME NEW u \in Txn, kind[u] = "verify"
        PROVE  /\ Old(arg[u].kek)'
               /\ wrap'[u] # Null => pc'[u] = 3 /\ wrap'[u] = arg[u].kek /\ Clean(wrap[u])'
    <3>1. u # t /\ arg[u].kek \in Kek /\ wrap'[u] = wrap[u] /\ pc'[u] = pc[u]
      BY <2>2, <1>1, <1>3 DEF TypeOK, Args
    <3>2. Old(arg[u].kek)'
      BY <2>2, <1>1 DEF KeyInv, ChecksSound, Old
    <3> QED BY <2>2, <3>1, <3>2, <1>6 DEF KeyInv, ChecksSound
  <2>3. \A u \in Txn : kind[u] = "verify" => wrap'[u] = wrap[u]
    BY <1>1, <1>3 DEF TypeOK
  <2> QED BY <1>1, <2>1, <2>2, <2>3 DEF ChecksSound, Old, Clean
<1> QED BY <1>1, <1>5, <1>7 DEF KeyInv, RowsOpenable, Opens

\* The check sees every row that can refer to the key: no writer is under way.
LEMMA KeyCheck ==
    ASSUME TypeOK, LockInv, KeyInv, NEW t \in Txn, Check(t)
    PROVE  KeyInv'
<1>1. /\ AtStep(t) /\ Running(t) /\ pc' = [pc EXCEPT ![t] = pc[t] + 1]
      /\ wrap' = [wrap EXCEPT ![t] = IF References(arg[t].kek) = {} THEN arg[t].kek ELSE Null]
      /\ UNCHANGED <<file, keyset, kind, arg, rows, verified, retired>>
  BY DEF Check, AtStep
<1>2. pc[t] \in 1..Len(Plan[kind[t]]) /\ kind[t] \in Kind
  BY <1>1, StepOfPlan
<1>3. kind[t] = "verify" /\ pc[t] = 2 /\ kind[t] \notin Writer /\ arg[t].kek \in Kek
  BY <1>2, OthersDoNot, ExclusiveFirst DEF Check, StepAt, TypeOK, Args
<1>4. \A u \in Txn : kind[u] \in Writer => wrap[u] = Null
  <2> SUFFICES ASSUME NEW u \in Txn, kind[u] \in Writer PROVE wrap[u] = Null
    OBVIOUS
  <2>1. pc[u] <= KekAt[kind[u]]
    BY <1>3, CheckAlone DEF LockInv
  <2>2. KekAt[kind[u]] \in Nat /\ SealAt[kind[u]] \in Nat /\ KekAt[kind[u]] < SealAt[kind[u]]
    BY WritersSeal DEF Seals
  <2> QED BY <2>1, <2>2 DEF KeyInv, WrapsSound, TypeOK
<1>5. WrapsSound'
  BY <1>1, <1>3 DEF KeyInv, WrapsSound, TypeOK
<1>6. References(arg[t].kek) = {} => Clean(arg[t].kek)
  BY <1>3, <1>4 DEF References, Clean
<1>7. \A x \in Kek : (Old(x) => Old(x)') /\ (Clean(x) => Clean(x)')
  BY <1>1, <1>3 DEF Old, Clean, TypeOK
<1>8. ChecksSound'
  <2>1. \A x \in verified : Old(x)' /\ Clean(x)'
    BY <1>7 DEF KeyInv, ChecksSound, TypeOK
  <2>2. ASSUME NEW u \in Txn, kind[u] = "verify"
        PROVE  /\ Old(arg[u].kek)'
               /\ wrap'[u] # Null => pc'[u] = 3 /\ wrap'[u] = arg[u].kek /\ Clean(arg[u].kek)'
    <3>1. arg[u].kek \in Kek /\ Old(arg[u].kek)
      BY <2>2 DEF TypeOK, Args, KeyInv, ChecksSound
    <3>2. CASE u = t
      BY <3>1, <3>2, <1>1, <1>3, <1>6, <1>7 DEF TypeOK
    <3>3. CASE u # t
      BY <2>2, <3>1, <3>3, <1>1, <1>7 DEF KeyInv, ChecksSound, TypeOK
    <3> QED BY <3>2, <3>3
  <2> QED BY <1>1, <2>1, <2>2 DEF ChecksSound, Old, Clean
<1> QED BY <1>1, <1>5, <1>8 DEF KeyInv, RowsOpenable, Opens

\* A transaction that ends: what it leaves behind is wrapped under keys that
\* stay, and a report it makes is a sound one.
LEMMA KeyEnd ==
    ASSUME TypeOK, KeyInv, NEW t \in Txn, Running(t), Commit(t) \/ Abort(t)
    PROVE  KeyInv'
<1>1. /\ kind' = [kind EXCEPT ![t] = "done"] /\ wrap' = [wrap EXCEPT ![t] = Null]
      /\ UNCHANGED <<file, keyset, retired>>
      /\ \A u \in Txn \ {t} : arg'[u] = arg[u] /\ pc'[u] = pc[u] /\ wrap'[u] = wrap[u]
  BY DEF Commit, Abort, End, TypeOK
<1>2. "done" \notin Writer /\ "done" # "verify"
  BY ExclusiveFirst, WritersSeal
<1>3. kind[t] \in Writer /\ Commit(t) => wrap[t] \in file.keys \cap keyset.keys /\ wrap[t] # Null
  <2> SUFFICES ASSUME kind[t] \in Writer, Commit(t) PROVE wrap[t] # Null
    BY DEF KeyInv, WrapsSound
  <2>1. SealAt[kind[t]] \in Nat /\ SealAt[kind[t]] <= Len(Plan[kind[t]])
    BY WritersSeal DEF Seals
  <2>2. pc[t] = Len(Plan[kind[t]]) + 1 /\ Len(Plan[kind[t]]) \in Nat
    BY StepOfPlan DEF Commit, Ended
  <2> QED BY <2>1, <2>2 DEF KeyInv, WrapsSound
<1>4. \A r \in rows' : r \in rows \/ (kind[t] \in Writer /\ Commit(t) /\ r.kek = wrap[t])
  BY DEF Commit, Abort, Written
<1>5. RowsOpenable'
  BY <1>1, <1>3, <1>4 DEF KeyInv, RowsOpenable, Opens
<1>6. WrapsSound'
  BY <1>1, <1>2 DEF KeyInv, WrapsSound, TypeOK
<1>7. \A x \in Kek : (Old(x) => Old(x)') /\ (Clean(x) => Clean(x)')
  BY <1>1, <1>2, <1>3, <1>4 DEF Old, Clean, TypeOK
<1>8. \A x \in verified' : Old(x)' /\ Clean(x)'
  <2> SUFFICES ASSUME NEW x \in verified' PROVE x \in Kek /\ Old(x) /\ Clean(x)
    BY <1>7
  <2>1. CASE x \in verified
    BY <2>1 DEF KeyInv, ChecksSound, TypeOK
  <2>2. CASE x \notin verified
    <3>1. x \in Kek /\ kind[t] = "verify" /\ x = wrap[t]
      BY <2>2 DEF Commit, Abort
    <3> QED BY <3>1 DEF KeyInv, ChecksSound
  <2> QED BY <2>1, <2>2
<1>9. ASSUME NEW u \in Txn, kind'[u] = "verify"
      PROVE  (/\ Old(arg[u].kek)
              /\ wrap[u] # Null => pc[u] = 3 /\ wrap[u] = arg[u].kek /\ Clean(wrap[u]))'
  <2>1. u # t /\ kind[u] = "verify" /\ arg[u].kek \in Kek
    BY <1>9, <1>1, <1>2 DEF TypeOK, Args
  <2>2. arg'[u] = arg[u] /\ pc'[u] = pc[u] /\ wrap'[u] = wrap[u]
    BY <2>1, <1>1
  <2>3. Old(arg[u].kek) /\ (wrap[u] # Null => pc[u] = 3 /\ wrap[u] = arg[u].kek /\ Clean(wrap[u]))
    BY <2>1 DEF KeyInv, ChecksSound
  <2>4. (Old(arg[u].kek))'
    BY <2>2, <2>3, <1>1 DEF Old
  <2>5. wrap[u] # Null => (Clean(wrap[u]))'
    <3> SUFFICES ASSUME wrap[u] # Null PROVE (Clean(wrap[u]))'
      OBVIOUS
    <3>1. wrap[u] \in Kek /\ Clean(wrap[u])
      BY <2>1, <2>3
    <3> QED BY <3>1, <2>2, <1>1, <1>2, <1>3, <1>4 DEF Clean, TypeOK
  <2> QED BY <2>2, <2>3, <2>4, <2>5
<1>10. ChecksSound'
  BY <1>8, <1>9 DEF ChecksSound
<1> QED BY <1>1, <1>5, <1>6, <1>10 DEF KeyInv

\* The sweep removes rows, and a rewrap moves one to the key in use.
LEMMA KeyRows ==
    ASSUME TypeOK, KeyInv, NEW r \in rows, PurgeContext(r) \/ Rewrap(r)
    PROVE  KeyInv'
<1>1. UNCHANGED <<file, keyset, kind, arg, pc, wrap, verified, retired>>
  BY DEF PurgeContext, Rewrap
<1>2. keyset.active \in file.keys \cap keyset.keys
  BY DEF KeyInv, TypeOK, Loadable
<1>3. \A x \in rows' : x \in rows \/ x.kek = keyset.active
  <2>1. r \in RowOf
    BY DEF TypeOK
  <2>2. [r EXCEPT !.kek = keyset.active].kek = keyset.active
    BY <2>1 DEF RowOf
  <2> QED BY <2>2 DEF PurgeContext, Rewrap
<1>4. RowsOpenable'
  BY <1>1, <1>2, <1>3 DEF KeyInv, RowsOpenable, Opens
<1>5. ChecksSound'
  BY <1>1, <1>3 DEF KeyInv, ChecksSound, Old, Clean
<1> QED BY <1>1, <1>2, <1>4, <1>5 DEF KeyInv, WrapsSound

\* A new key is nobody's old one; a retired key is one nothing refers to.
LEMMA KeyFile ==
    ASSUME TypeOK, KeyInv, NEW k \in Kek, AddKey(k) \/ Retire(k)
    PROVE  KeyInv'
<1>1. UNCHANGED <<keyset, kind, arg, pc, wrap, rows, verified>>
  BY DEF AddKey, Retire
<1>2. CASE AddKey(k)
  <2>1. /\ k \notin file.keys \cup retired /\ file'.keys = file.keys \cup {k} /\ file'.active = k
        /\ retired' = retired
    BY <1>2 DEF AddKey
  <2> QED BY <1>1, <2>1 DEF KeyInv, RowsOpenable, Opens, WrapsSound, ChecksSound, Old, Clean
<1>3. CASE Retire(k)
  <2>1. /\ k \in verified /\ file'.keys = file.keys \ {k} /\ file'.active = file.active
        /\ retired' = retired \cup {k}
    BY <1>3 DEF Retire, TypeOK, Keyset
  <2>2. k # keyset.active /\ Clean(k)
    BY <2>1 DEF KeyInv, ChecksSound, Old
  <2> QED BY <1>1, <2>1, <2>2 DEF KeyInv, RowsOpenable, Opens, WrapsSound, ChecksSound, Old, Clean
<1> QED BY <1>2, <1>3

LEMMA KeyRestart ==
    ASSUME TypeOK, KeyInv, Restart
    PROVE  KeyInv'
<1>1. keyset' = file /\ UNCHANGED <<file, kind, arg, pc, wrap, rows, verified, retired>>
  BY DEF Restart
<1> QED
  BY <1>1 DEF TypeOK, Loadable, KeyInv, RowsOpenable, Opens, WrapsSound, ChecksSound, Old, Clean

LEMMA KeyStep == TypeOK /\ LockInv /\ KeyInv /\ [Next]_vars => KeyInv'
<1> SUFFICES ASSUME TypeOK, LockInv, KeyInv, [Next]_vars PROVE KeyInv'
  OBVIOUS
<1>1. ASSUME NEW t \in Txn, NEW k \in Kind \cap Kinds, NEW a \in Args, Begin(t, k, a)
      PROVE  KeyInv'
  BY <1>1, KeyBegin
<1>2. ASSUME NEW t \in Txn, Acquire(t) \/ Count(t) PROVE KeyInv'
  BY <1>2, KeyAdvance
<1>3. ASSUME NEW t \in Txn, Seal(t) PROVE KeyInv'
  BY <1>3, KeySeal
<1>4. ASSUME NEW t \in Txn, Check(t) PROVE KeyInv'
  BY <1>4, KeyCheck
<1>5. ASSUME NEW t \in Txn, Commit(t) \/ Abort(t) PROVE KeyInv'
  BY <1>5, KeyEnd DEF Commit, Abort
<1>6. ASSUME NEW r \in rows, PurgeContext(r) \/ Rewrap(r) PROVE KeyInv'
  BY <1>6, KeyRows
<1>7. ASSUME NEW k \in Kek, AddKey(k) \/ Retire(k) PROVE KeyInv'
  BY <1>7, KeyFile
<1>8. CASE Restart
  BY <1>8, KeyRestart
<1>9. ASSUME NEW t \in Txn, Wait(t) PROVE KeyInv'
  BY <1>9, KeyFrame DEF Wait
<1>10. CASE Tick \/ UNCHANGED vars
  BY <1>10, KeyFrame DEF Tick, vars
<1> QED BY <1>1, <1>2, <1>3, <1>4, <1>5, <1>6, <1>7, <1>8, <1>9, <1>10 DEF Next

-----------------------------------------------------------------------------
(* The deposit cap.                                                        *)

\* Two deposits of one client are not past their first step together.
LEMMA OneDepositor ==
    ASSUME TypeOK, LockSafe, NEW t \in Txn, NEW u \in Txn, t # u,
           kind[t] = "deposit", kind[u] = "deposit", pc[t] > 1, pc[u] > 1
    PROVE  arg[t].client # arg[u].client
<1>1. /\ Running(t) /\ Running(u) /\ 1 \in 1..(pc[t] - 1) /\ 1 \in 1..(pc[u] - 1)
      /\ StepAt(t, 1) = Exclusive("deposit") /\ StepAt(u, 1) = Exclusive("deposit")
  BY ExclusiveFirst DEF Running, StepAt, TypeOK
<1>2. arg[t].client = arg[u].client => Conflict(t, 1, u, 1)
  BY <1>1 DEF Conflict, Same, Locks, LockAt, Exclusive
<1> QED BY <1>1, <1>2 DEF LockSafe

\* A deposit that has counted fewer than the cap may be added.
LEMMA OneMore ==
    ASSUME TypeOK, IsFiniteSet(deposits), DepositCap, NEW t \in Txn,
           Cardinality(Recent(t)) < Cap,
           deposits' = deposits \cup {[by |-> t, client |-> arg[t].client, at |-> start[t]]}
    PROVE  IsFiniteSet(deposits') /\ DepositCap'
<1> DEFINE d == [by |-> t, client |-> arg[t].client, at |-> start[t]]
           In(D, c, x) == {e \in D : e.client = c /\ e.at <= x /\ x < e.at + Window}
<1>1. IsFiniteSet(deposits')
  BY FS_AddElement
<1>2. ASSUME NEW c \in Client, NEW x \in 0..MaxTime
      PROVE  Cardinality(In(deposits', c, x)) <= Cap
  <2>1. Cardinality(In(deposits, c, x)) <= Cap
    BY DEF DepositCap
  <2>2. CASE In(deposits', c, x) = In(deposits, c, x)
    BY <2>1, <2>2
  <2>3. CASE In(deposits', c, x) # In(deposits, c, x)
    <3>1. d.client = c /\ d.at <= x /\ x < d.at + Window /\ c = arg[t].client /\ start[t] <= x
      BY <2>3
    <3>2. In(deposits', c, x) \subseteq Recent(t) \cup {d}
      <4> SUFFICES ASSUME NEW e \in deposits, e.client = c, x < e.at + Window
                   PROVE  e \in Recent(t)
        OBVIOUS
      <4>1. e.at \in Nat /\ start[t] \in Nat
        BY DEF TypeOK, Deposited
      <4> QED BY <3>1, <4>1 DEF Recent
    <3>3. IsFiniteSet(Recent(t)) /\ Cardinality(Recent(t)) \in Nat
      BY FS_Subset, FS_CardinalityType DEF Recent
    <3>4. /\ IsFiniteSet(Recent(t) \cup {d})
          /\ Cardinality(Recent(t) \cup {d}) <= Cardinality(Recent(t)) + 1
      <4> HIDE DEF d
      <4>1. /\ IsFiniteSet(Recent(t) \cup {d})
            /\ Cardinality(Recent(t) \cup {d}) =
                 IF d \in Recent(t) THEN Cardinality(Recent(t)) ELSE Cardinality(Recent(t)) + 1
        BY <3>3, FS_AddElement
      <4> QED BY <3>3, <4>1
    <3>5. /\ Cardinality(In(deposits', c, x)) <= Cardinality(Recent(t) \cup {d})
          /\ IsFiniteSet(In(deposits', c, x))
      <4> HIDE DEF In, d
      <4> QED BY <3>2, <3>4, FS_Subset
    <3>6. Cardinality(In(deposits', c, x)) \in Nat /\ Cardinality(Recent(t) \cup {d}) \in Nat
      <4> HIDE DEF In, d
      <4> QED BY <3>4, <3>5, FS_CardinalityType
    <3> HIDE DEF In, d
    <3> QED BY <3>3, <3>4, <3>5, <3>6
  <2> QED BY <2>2, <2>3
<1> QED BY <1>1, <1>2 DEF DepositCap

LEMMA CapInit == Init => CapInv
<1> SUFFICES ASSUME Init PROVE CapInv
  OBVIOUS
<1>1. \A c \in Client, x \in 0..MaxTime :
        {d \in deposits : d.client = c /\ d.at <= x /\ x < d.at + Window} = {}
  BY DEF Init
<1> QED BY <1>1, FS_EmptySet DEF Init, CapInv, CountsSound, DepositCap

\* A deposit goes past its count only under the cap.
LEMMA CapAdvance ==
    ASSUME TypeOK, CapInv, NEW t \in Txn, AtStep(t), pc' = [pc EXCEPT ![t] = pc[t] + 1],
           UNCHANGED <<kind, arg, start, deposits>>,
           StepAt(t, pc[t]).op = "count" => Cardinality(Recent(t)) < Cap
    PROVE  CapInv'
<1>1. \A u \in Txn : Recent(u)' = Recent(u)
  BY DEF Recent
<1>2. Running(t) /\ kind[t] \in Kind /\ pc[t] \in 1..Len(Plan[kind[t]])
  BY StepOfPlan DEF AtStep
<1>3. kind[t] = "deposit" /\ pc[t] = 2 => Cardinality(Recent(t)) < Cap
  BY <1>2, OthersDoNot DEF StepAt
<1>4. ASSUME NEW u \in Txn, kind[u] = "deposit", pc'[u] > 2
      PROVE  Cardinality(Recent(u)) < Cap
  BY <1>2, <1>3, <1>4 DEF TypeOK, CapInv, CountsSound
<1> QED BY <1>1, <1>4 DEF CapInv, CountsSound, DepositCap

LEMMA CapBegin ==
    ASSUME TypeOK, AtRest, CapInv, NEW t \in Txn, NEW k \in Kind, NEW a \in Args, Begin(t, k, a)
    PROVE  CapInv'
<1>1. /\ pc[t] = 1 /\ UNCHANGED <<pc, deposits>>
      /\ \A u \in Txn \ {t} : kind'[u] = kind[u] /\ arg'[u] = arg[u] /\ start'[u] = start[u]
  BY ExclusiveFirst DEF Begin, Running, AtRest, TypeOK
<1>2. ASSUME NEW u \in Txn, kind'[u] = "deposit", pc'[u] > 2
      PROVE  Cardinality(Recent(u)') < Cap
  <2>1. u # t
    BY <1>1, <1>2
  <2>2. Recent(u)' = Recent(u)
    BY <1>1, <2>1 DEF Recent
  <2> QED BY <1>1, <1>2, <2>1, <2>2 DEF CapInv, CountsSound
<1> QED BY <1>1, <1>2 DEF CapInv, CountsSound, DepositCap

\* A commit adds the one deposit that was counted for; that of another client
\* is not among those that a deposit under way has counted.
LEMMA CapEnd ==
    ASSUME TypeOK, LockInv, CapInv, NEW t \in Txn, Commit(t) \/ Abort(t)
    PROVE  CapInv'
<1>1. /\ Running(t) /\ kind'[t] = "done"
      /\ \A u \in Txn \ {t} : /\ kind'[u] = kind[u] /\ arg'[u] = arg[u]
                              /\ start'[u] = start[u] /\ pc'[u] = pc[u]
  BY DEF Commit, Abort, End, TypeOK
<1>2. CASE Commit(t) /\ kind[t] = "deposit"
  <2>1. deposits' = deposits \cup {[by |-> t, client |-> arg[t].client, at |-> start[t]]}
    BY <1>2 DEF Commit
  <2>2. pc[t] = 6
    BY <1>1, <1>2, ExclusiveFirst DEF Commit, Ended
  <2>3. IsFiniteSet(deposits') /\ DepositCap'
    BY <1>2, <2>1, <2>2, OneMore DEF CapInv, CountsSound
  <2>4. ASSUME NEW u \in Txn, kind'[u] = "deposit", pc'[u] > 2
        PROVE  Cardinality(Recent(u)') < Cap
    <3>1. u # t /\ kind[u] = "deposit" /\ pc[u] > 2
      BY <1>1, <2>4
    <3>2. arg[t].client # arg[u].client
      <4>1. pc[t] > 1 /\ pc[u] > 1
        BY <2>2, <3>1 DEF TypeOK
      <4> QED BY <3>1, <4>1, <1>2, OneDepositor DEF LockInv
    <3>3. Recent(u)' = Recent(u)
      BY <1>1, <2>1, <3>1, <3>2 DEF Recent
    <3> QED BY <3>1, <3>3 DEF CapInv, CountsSound
  <2> QED BY <2>3, <2>4 DEF CapInv, CountsSound
<1>3. CASE ~(Commit(t) /\ kind[t] = "deposit")
  <2>1. deposits' = deposits
    BY <1>3 DEF Commit, Abort
  <2>2. ASSUME NEW u \in Txn, kind'[u] = "deposit", pc'[u] > 2
        PROVE  Cardinality(Recent(u)') < Cap
    <3>1. u # t /\ kind[u] = "deposit" /\ pc[u] > 2
      BY <1>1, <2>2
    <3>2. Recent(u)' = Recent(u)
      BY <1>1, <2>1, <3>1 DEF Recent
    <3> QED BY <3>1, <3>2 DEF CapInv, CountsSound
  <2> QED BY <2>1, <2>2 DEF CapInv, CountsSound, DepositCap
<1> QED BY <1>2, <1>3

LEMMA CapFrame ==
    ASSUME CapInv, UNCHANGED <<kind, arg, start, pc, deposits>>
    PROVE  CapInv'
BY DEF CapInv, CountsSound, DepositCap, Recent

LEMMA CapStep == TypeOK /\ LockInv /\ CapInv /\ [Next]_vars => CapInv'
<1> SUFFICES ASSUME TypeOK, LockInv, CapInv, [Next]_vars PROVE CapInv'
  OBVIOUS
<1>1. ASSUME NEW t \in Txn, NEW k \in Kind \cap Kinds, NEW a \in Args, Begin(t, k, a)
      PROVE  CapInv'
  BY <1>1, CapBegin DEF LockInv
<1>2. ASSUME NEW t \in Txn, Acquire(t) \/ Count(t) \/ Seal(t) \/ Check(t)
      PROVE  CapInv'
  <2>1. /\ AtStep(t) /\ pc' = [pc EXCEPT ![t] = pc[t] + 1]
        /\ UNCHANGED <<kind, arg, start, deposits>>
    BY <1>2 DEF Acquire, Count, Seal, Check
  <2>2. StepAt(t, pc[t]).op = "count" => Cardinality(Recent(t)) < Cap
    <3>1. Acquire(t) => StepAt(t, pc[t]).op # "count"
      BY <2>1, StepOfPlan DEF Acquire, AtStep, WellOrdered, StepAt, Locks, Class
    <3> QED BY <1>2, <3>1 DEF Count, Seal, Check
  <2> QED BY <2>1, <2>2, CapAdvance
<1>3. ASSUME NEW t \in Txn, Commit(t) \/ Abort(t) PROVE CapInv'
  BY <1>3, CapEnd
<1>4. ASSUME NEW t \in Txn, Wait(t) PROVE CapInv'
  BY <1>4, CapFrame DEF Wait
<1>5. ASSUME NEW r \in rows, PurgeContext(r) \/ Rewrap(r) PROVE CapInv'
  BY <1>5, CapFrame DEF PurgeContext, Rewrap
<1>6. ASSUME NEW k \in Kek, AddKey(k) \/ Retire(k) PROVE CapInv'
  BY <1>6, CapFrame DEF AddKey, Retire
<1>7. CASE Restart \/ Tick \/ UNCHANGED vars
  BY <1>7, CapFrame DEF Restart, Tick, vars
<1> QED BY <1>1, <1>2, <1>3, <1>4, <1>5, <1>6, <1>7 DEF Next

-----------------------------------------------------------------------------
(* The theorems.                                                           *)

\* The inductive invariant of the keyset, the locks and the deposits
\* (db/mod.rs, db/secrets.rs, db/ui_ext.rs).
THEOREM Invariance == Spec => []IInv
<1>1. Init => IInv
  BY TypeInit, LockInit, KeyInit, CapInit DEF IInv
<1>2. IInv /\ [Next]_vars => IInv'
  BY TypeStep, LockStep, KeyStep, CapStep DEF IInv, LockInv, KeyInv
<1> QED BY <1>1, <1>2, PTL DEF Spec

\* Every state is well typed, and the file and the process always have a key to
\* seal under (Keyset::from_file).
THEOREM TypeCorrect == Spec => []TypeOK
<1>1. IInv => TypeOK
  BY DEF IInv
<1> QED BY <1>1, Invariance, PTL

\* No retirement strands a row, for any number of writers, checks and keys
\* (verify_no_references under the exclusive KEK lock).
THEOREM RowsOpenableHolds == Spec => []RowsOpenable
<1>1. IInv => RowsOpenable
  BY DEF IInv, KeyInv
<1> QED BY <1>1, Invariance, PTL

\* What a check reported of a KEK stays true for ever, for any number of writers
\* that were sealing when it ran and for writes that commit after their process
\* is gone (verify_no_references, take_kek_shared_lock).
THEOREM ReportStaysTrueHolds == Spec => []ReportStaysTrue
<1>1. IInv => ReportStaysTrue
  BY DEF IInv, KeyInv, ChecksSound, Clean, ReportStaysTrue, References
<1> QED BY <1>1, Invariance, PTL

\* The transactions of this server never deadlock on their locks, however many
\* there are (the lock order of db/mod.rs).
THEOREM NoCyclicWaitHolds == Spec => []NoCyclicWait
<1>1. IInv => NoCyclicWait
  BY NoCycle DEF IInv, LockInv
<1> QED BY <1>1, Invariance, PTL

\* The deposit cap holds for any cap, window and number of concurrent deposits
\* (create_secret_from_client).
THEOREM DepositCapHolds == Spec => []DepositCap
<1>1. IInv => DepositCap
  BY DEF IInv, CapInv
<1> QED BY <1>1, Invariance, PTL
=============================================================================
