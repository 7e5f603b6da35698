---------------------------- MODULE SecretsProofs ---------------------------
(***************************************************************************)
(* Theorems about stored secrets and the grants minted against them, for   *)
(* any number of names, requests, deletions, rows and versions.  First     *)
(* what a step can do to each table, then the invariant from that.         *)
(***************************************************************************)
EXTENDS Secrets, TLAPS

USE AskedAssumption, NullAssumption

-----------------------------------------------------------------------------
(* The inductive invariant.                                                *)

\* A transaction that holds one side of the name's advisory lock.
Minting(r) == mints[r] # Null /\ mints[r].at = "locked" /\ mints[r].kind # "passthrough"
Holds(d) == deletes[d] # Null /\ deletes[d].at \in {"locked", "deleted"}
Destroys(d) == deletes[d] # Null /\ deletes[d].at = "deleted"

\* The exclusive side excludes both sides.
LocksExclude ==
    /\ \A r \in Request, d \in Operator :
         Minting(r) /\ Holds(d) => mints[r].name # deletes[d].name
    /\ \A c, d \in Operator : Holds(c) /\ Holds(d) /\ c # d => deletes[c].name # deletes[d].name

\* Ids are never reused.
IdsFresh ==
    /\ \A n \in Name : secrets[n] # Null => secrets[n].id <= lastId
    /\ \A r \in Request : mints[r] # Null /\ mints[r].kind = "stored"
                            => mints[r].id \in Nat /\ mints[r].id <= lastId

\* What was checked under the shared lock stays true while it is held.
RowsPinned ==
    \A r \in Request : Minting(r) /\ mints[r].kind = "stored" => SameRow(mints[r])

\* An uncommitted deletion has its row still before it, as it was shown, and
\* has found every grant that would lose its row.
DeletesSound ==
    \A d \in Operator : Destroys(d) =>
        /\ StillAsShown(deletes[d])
        /\ \A r \in deletes[d].revoke : grants[r] # Null
        /\ \A r \in Request : LiveStored(r) /\ grants[r].name = deletes[d].name
                                => r \in deletes[d].revoke

\* A row that an automatic decision pinned is vetted as long as it exists.
AutoSound ==
    /\ \A r \in Request : mints[r] # Null /\ mints[r].auto =>
         mints[r].kind = "stored" /\ (SameRow(mints[r]) => secrets[mints[r].name].vetted)
    /\ AutoReleasesVetted

IInv ==
    /\ TypeOK /\ LocksExclude /\ IdsFresh /\ RowsPinned /\ DeletesSound
    /\ NoOrphanGrant /\ AutoSound /\ VettedAsReviewed

-----------------------------------------------------------------------------
(* Type correctness.                                                       *)

LEMMA InsertType ==
    ASSUME TypeOK, NEW n \in Name, NEW vetted \in BOOLEAN, Insert(n, vetted)
    PROVE  /\ secrets' \in [Name -> Row \cup {Null}]
           /\ lastId' \in Nat
           /\ NewRow(vetted) \in Row
           /\ <<lastId + 1, 1>> \in Nat \X Nat
BY DEF TypeOK, Insert, NewRow, Row

LEMMA RotatedRow ==
    ASSUME TypeOK, NEW n \in Name, Rotate(n)
    PROVE  /\ secrets[n] \in Row /\ secrets'[n] \in Row
           /\ secrets'[n].id = secrets[n].id
           /\ secrets'[n].version = secrets[n].version + 1
           /\ secrets'[n].vetted
           /\ \A m \in Name \ {n} : secrets'[m] = secrets[m]
           /\ secrets' = [m \in Name |-> secrets'[m]]
<1>1. secrets[n] \in Row
  BY DEF Rotate, Writable, TypeOK
<1>2. /\ secrets'[n] = [secrets[n] EXCEPT !.version = @ + 1, !.vetted = TRUE]
      /\ \A m \in Name \ {n} : secrets'[m] = secrets[m]
      /\ secrets' = [m \in Name |-> secrets'[m]]
  BY <1>1 DEF Rotate, TypeOK, Row
<1>3. [secrets[n] EXCEPT !.version = @ + 1] \in Row
  BY <1>1 DEF Row
<1>4. [secrets[n] EXCEPT !.version = @ + 1, !.vetted = TRUE]
        = [[secrets[n] EXCEPT !.version = @ + 1] EXCEPT !.vetted = TRUE]
  OBVIOUS
<1>5. secrets'[n] \in Row
  BY <1>2, <1>3, <1>4 DEF Row
<1> QED BY <1>1, <1>2, <1>5 DEF Row

LEMMA StoreType == ASSUME TypeOK, NEW n \in Name, StoreStep(n) PROVE TypeOK'
<1>1. CASE Deposit(n)
  BY <1>1, InsertType DEF Deposit, TypeOK
<1>2. CASE Create(n)
  BY <1>2, InsertType DEF Create, TypeOK
<1>3. CASE Rotate(n)
  <2>1. secrets' \in [Name -> Row \cup {Null}]
    BY <1>3, RotatedRow DEF TypeOK
  <2>2. <<secrets[n].id, secrets[n].version + 1>> \in Nat \X Nat
    BY <1>3, RotatedRow DEF Row
  <2> QED BY <1>3, <2>1, <2>2 DEF Rotate, TypeOK
<1>4. CASE UpdateSettings(n)
  <2>1. secrets[n] \in Row
    BY <1>4 DEF UpdateSettings, Writable, TypeOK
  <2>2. [secrets[n] EXCEPT !.enabled = ~@] \in Row
    BY <2>1 DEF Row
  <2> QED BY <1>4, <2>2 DEF UpdateSettings, TypeOK
<1>5. CASE Review(n)
  <2>1. secrets[n] \in Row
    BY <1>5 DEF Review, TypeOK
  <2>2. <<secrets[n].id, secrets[n].version>> \in Nat \X Nat
    BY <2>1 DEF Row
  <2> QED BY <1>5, <2>2 DEF Review, TypeOK
<1>6. CASE MarkReviewed(n)
  <2>1. secrets[n] \in Row
    BY <1>6 DEF MarkReviewed, Writable, TypeOK
  <2>2. [secrets[n] EXCEPT !.vetted = TRUE] \in Row
    BY <2>1 DEF Row
  <2> QED BY <1>6, <2>2 DEF MarkReviewed, TypeOK
<1> QED BY <1>1, <1>2, <1>3, <1>4, <1>5, <1>6 DEF StoreStep

LEMMA RequestType == ASSUME TypeOK, NEW r \in Request, RequestStep(r) PROVE TypeOK'
<1>1. CASE SubmitPending(r)
  BY <1>1 DEF SubmitPending, TypeOK
<1>2. CASE AutoDecide(r)
  <2>1. Asked[r] \in Name /\ secrets[Asked[r]] \in Row
    BY <1>2 DEF AutoDecide, TypeOK
  <2>2. Decided("stored", TRUE, Asked[r], secrets[Asked[r]].id, secrets[Asked[r]].id) \in Mint
    BY <2>1 DEF Decided, Mint, Kind, Row
  <2> QED BY <1>2, <2>2 DEF AutoDecide, TypeOK
<1>3. CASE Render(r)
  <2>1. Page(r) \in [Name -> Shown \cup {Null}]
    <3>1. \A n \in Name : secrets[n] # Null
            => [id |-> secrets[n].id, version |-> secrets[n].version] \in Shown
      BY DEF TypeOK, Row, Shown
    <3> QED BY <3>1 DEF Page
  <2> QED BY <1>3, <2>1 DEF Render, TypeOK
<1>4. ASSUME NEW n \in Name, ApproveStored(r, n) PROVE TypeOK'
  <2>1. secrets[n] \in Row /\ pages[r][n] \in Shown
    BY <1>4 DEF ApproveStored, Submittable, MarkerMatches, TypeOK
  <2>2. Decided("stored", FALSE, n, secrets[n].id, pages[r][n].id) \in Mint
    BY <2>1 DEF Decided, Mint, Kind, Row, Shown
  <2> QED BY <1>4, <2>2 DEF ApproveStored, Approve, TypeOK
<1>5. ASSUME NEW kind \in {"store", "passthrough"}, ApproveValue(r, kind) PROVE TypeOK'
  <2>1. Decided(kind, FALSE, Asked[r], Null, Null) \in Mint
    BY DEF Decided, Mint, Kind
  <2> QED BY <1>5, <2>1 DEF ApproveValue, Approve, TypeOK
<1>6. CASE LockSecret(r)
  <2>1. mints[r] \in Mint
    BY <1>6 DEF LockSecret, TypeOK
  <2>2. [mints[r] EXCEPT !.at = "locked"] \in Mint
    BY <2>1 DEF Mint
  <2> QED BY <1>6, <2>2 DEF LockSecret, EndMint, TypeOK
<1>7. CASE CommitMint(r)
  <2>1. mints[r] \in Mint
    BY <1>7 DEF CommitMint, TypeOK
  <2>2. \A id \in Nat \cup {Null} :
          [kind |-> mints[r].kind, auto |-> mints[r].auto, name |-> mints[r].name,
           id |-> id, shown |-> mints[r].shown, dead |-> FALSE] \in GrantRow
    BY <2>1 DEF Mint, GrantRow
  <2>3. \A id \in Nat \cup {Null} : MintGrant(r, id) =>
          /\ requests' \in [Request -> {"new", "pending", "approved", "denied"}]
          /\ grants' \in [Request -> GrantRow \cup {Null}]
          /\ pages' \in [Request -> [Name -> Shown \cup {Null}] \cup {Null}]
    BY <2>2 DEF MintGrant, TypeOK
  <2>4. mints[r].name \in Name /\ mints[r].id \in Nat \cup {Null} /\ lastId + 1 \in Nat
    BY <2>1 DEF Mint, TypeOK
  <2>5. mints' \in [Request -> Mint \cup {Null}] /\ deletes' = deletes
    BY <1>7 DEF CommitMint, EndMint, TypeOK
  <2>6. CASE mints[r].kind = "store"
    BY <1>7, <2>3, <2>4, <2>5, <2>6, InsertType DEF CommitMint, TypeOK
  <2>7. CASE mints[r].kind # "store"
    BY <1>7, <2>3, <2>4, <2>5, <2>7 DEF CommitMint, TypeOK
  <2> QED BY <2>6, <2>7
<1>8. CASE RollbackMint(r)
  BY <1>8 DEF RollbackMint, EndMint, TypeOK
<1>9. CASE Deny(r)
  BY <1>9 DEF Deny, TypeOK
<1>10. CASE Revoke(r)
  <2>1. grants[r] \in GrantRow
    BY <1>10 DEF Revoke, TypeOK
  <2>2. [grants[r] EXCEPT !.dead = TRUE] \in GrantRow
    BY <2>1 DEF GrantRow
  <2> QED BY <1>10, <2>2 DEF Revoke, TypeOK
<1> QED
  BY <1>1, <1>2, <1>3, <1>4, <1>5, <1>6, <1>7, <1>8, <1>9, <1>10 DEF RequestStep

LEMMA DeleteType ==
    ASSUME TypeOK, DeletesSound, NEW d \in Operator, DeleteStep(d)
    PROVE  TypeOK'
<1>1. ASSUME NEW n \in Name, ConfirmDelete(d, n) PROVE TypeOK'
  <2>1. secrets[n] \in Row
    BY <1>1 DEF ConfirmDelete, TypeOK
  <2>2. [at |-> "confirm", name |-> n, id |-> secrets[n].id,
         version |-> secrets[n].version, revoke |-> {}] \in Delete
    BY <2>1 DEF Row, Delete
  <2> QED BY <1>1, <2>2 DEF ConfirmDelete, TypeOK
<1>2. CASE LockDelete(d)
  <2>1. deletes[d] \in Delete
    BY <1>2 DEF LockDelete, TypeOK
  <2>2. [deletes[d] EXCEPT !.at = "locked"] \in Delete
    BY <2>1 DEF Delete
  <2> QED BY <1>2, <2>2 DEF LockDelete, TypeOK
<1>3. CASE DeleteRow(d)
  <2>1. deletes[d] \in Delete
    BY <1>3 DEF DeleteRow, TypeOK
  <2>2. RevokedWith(deletes[d].name) \in SUBSET Request
    BY DEF RevokedWith
  <2>3. [deletes[d] EXCEPT !.at = "deleted", !.revoke = RevokedWith(deletes[d].name)] \in Delete
    BY <2>1, <2>2 DEF Delete
  <2> QED BY <1>3, <2>3 DEF DeleteRow, TypeOK
<1>4. CASE CommitDelete(d)
  <2>1. deletes[d] \in Delete /\ Destroys(d)
    BY <1>4 DEF CommitDelete, Destroys, TypeOK
  <2>2. \A r \in deletes[d].revoke : r \in Request /\ grants[r] \in GrantRow
    BY <2>1 DEF DeletesSound, Delete, TypeOK
  <2>3. \A r \in deletes[d].revoke : [grants[r] EXCEPT !.dead = TRUE] \in GrantRow
    BY <2>2 DEF GrantRow
  <2>4. grants' \in [Request -> GrantRow \cup {Null}]
    BY <1>4, <2>3 DEF CommitDelete, TypeOK
  <2> QED BY <1>4, <2>1, <2>4 DEF CommitDelete, TypeOK
<1>5. CASE RollbackDelete(d)
  BY <1>5 DEF RollbackDelete, TypeOK
<1> QED BY <1>1, <1>2, <1>3, <1>4, <1>5 DEF DeleteStep

LEMMA TypeStep == TypeOK /\ DeletesSound /\ [Next]_vars => TypeOK'
<1> SUFFICES ASSUME TypeOK, DeletesSound, [Next]_vars PROVE TypeOK'
  OBVIOUS
<1>1. CASE UNCHANGED vars
  BY <1>1 DEF vars, TypeOK
<1> QED BY <1>1, StoreType, RequestType, DeleteType DEF Next

-----------------------------------------------------------------------------
(* What a step can do to the row of a name.                                *)

\* The versions an operator typed or had a review page of.
Known == typed \cup forms

SeenNow(n) == <<secrets[n].id, secrets[n].version>> \in Known

RowBorn(n) ==
    /\ secrets[n] = Null /\ ~RowLocked(n)
    /\ secrets'[n] # Null /\ secrets'[n].id = lastId + 1 /\ lastId' = lastId + 1
    /\ secrets'[n].vetted => SeenNow(n)'

RowEdited(n) ==
    /\ secrets[n] # Null /\ ~RowLocked(n)
    /\ secrets'[n] # Null
    /\ secrets'[n].id = secrets[n].id
    /\ secrets'[n].version >= secrets[n].version
    /\ secrets[n].vetted => secrets'[n].vetted
    /\ secrets'[n].vetted =>
         SeenNow(n)' \/ (secrets[n].vetted /\ secrets'[n].version = secrets[n].version)

\* Only a deletion that has revoked its grants takes a row away.
RowGone(n) ==
    /\ secrets[n] # Null /\ secrets'[n] = Null
    /\ \E d \in Operator :
         /\ Destroys(d) /\ deletes[d].name = n
         /\ \A r \in deletes[d].revoke : grants'[r].dead
         /\ deletes' = [deletes EXCEPT ![d] = Null] /\ mints' = mints

RowChange(n) == secrets'[n] = secrets[n] \/ RowBorn(n) \/ RowEdited(n) \/ RowGone(n)

LEMMA InsertChange ==
    ASSUME TypeOK, NEW n \in Name, NEW vetted \in BOOLEAN, Insert(n, vetted),
           vetted => <<lastId + 1, 1>> \in Known'
    PROVE  \A m \in Name : RowChange(m)
<1>1. NewRow(vetted) \in Row /\ lastId \in Nat
  BY InsertType DEF TypeOK
<1>2. secrets'[n] = NewRow(vetted) /\ \A m \in Name \ {n} : secrets'[m] = secrets[m]
  BY DEF Insert, TypeOK
<1>3. /\ secrets'[n].id = lastId + 1 /\ secrets'[n].version = 1
      /\ secrets'[n].vetted = vetted /\ secrets'[n] # Null
  <2>1. secrets'[n] # Null
    BY <1>1, <1>2
  <2>2. secrets'[n].id = lastId + 1 /\ secrets'[n].version = 1
    BY <1>2 DEF NewRow
  <2>3. secrets'[n].vetted = vetted
    BY <1>2 DEF NewRow
  <2> QED BY <2>1, <2>2, <2>3
<1>4. secrets'[n].vetted => SeenNow(n)'
  BY <1>3, Zenon DEF SeenNow
<1>5. RowBorn(n)
  BY <1>3, <1>4 DEF Insert, Free, RowBorn
<1> QED BY <1>2, <1>5 DEF RowChange

\* A row that an UPDATE found.
LEMMA EditChange ==
    ASSUME TypeOK, NEW n \in Name, Writable(n),
           \A m \in Name \ {n} : secrets'[m] = secrets[m],
           secrets'[n] \in Row,
           secrets'[n].id = secrets[n].id,
           secrets'[n].version >= secrets[n].version,
           secrets[n].vetted => secrets'[n].vetted,
           secrets'[n].vetted =>
             SeenNow(n)' \/ (secrets[n].vetted /\ secrets'[n].version = secrets[n].version)
    PROVE  \A m \in Name : RowChange(m)
BY DEF RowChange, RowEdited, Writable

LEMMA RowChanges ==
    ASSUME TypeOK, DeletesSound, [Next]_vars
    PROVE  /\ \A n \in Name : RowChange(n)
           /\ Known \subseteq Known'
           /\ lastId' \in Nat /\ lastId <= lastId'
<1>1. ASSUME NEW n \in Name, Deposit(n)
      PROVE  (\A m \in Name : RowChange(m)) /\ Known \subseteq Known' /\ lastId' = lastId + 1
  BY <1>1, InsertChange DEF Deposit, Insert, Known
<1>2. ASSUME NEW n \in Name, Create(n)
      PROVE  (\A m \in Name : RowChange(m)) /\ Known \subseteq Known' /\ lastId' = lastId + 1
  BY <1>2, InsertChange DEF Create, Insert, Known
<1>3. ASSUME NEW n \in Name, Rotate(n)
      PROVE  (\A m \in Name : RowChange(m)) /\ Known \subseteq Known' /\ lastId' = lastId
  <2>1. SeenNow(n)'
    <3>1. <<secrets[n].id, secrets[n].version + 1>> \in Known'
      BY <1>3 DEF Rotate, Known
    <3>2. secrets'[n].id = secrets[n].id /\ secrets'[n].version = secrets[n].version + 1
      BY <1>3, RotatedRow
    <3> QED BY <3>1, <3>2 DEF SeenNow
  <2>2. /\ secrets[n] \in Row /\ secrets'[n] \in Row
        /\ secrets'[n].id = secrets[n].id
        /\ secrets'[n].version = secrets[n].version + 1
        /\ secrets'[n].vetted
        /\ \A m \in Name \ {n} : secrets'[m] = secrets[m]
    BY <1>3, RotatedRow
  <2>3. secrets'[n].version >= secrets[n].version
    <3>1. secrets[n].version \in Nat
      BY <2>2 DEF Row
    <3> QED BY <2>2, <3>1
  <2>4. \A m \in Name : RowChange(m)
    BY <1>3, <2>1, <2>2, <2>3, EditChange DEF Rotate
  <2> QED BY <1>3, <2>4 DEF Rotate, Known
<1>4. ASSUME NEW n \in Name, UpdateSettings(n)
      PROVE  (\A m \in Name : RowChange(m)) /\ Known \subseteq Known' /\ lastId' = lastId
  <2>1. secrets[n] \in Row
    BY <1>4 DEF UpdateSettings, Writable, TypeOK
  <2>2. /\ secrets'[n] = [secrets[n] EXCEPT !.enabled = ~@]
        /\ \A m \in Name \ {n} : secrets'[m] = secrets[m]
    BY <1>4 DEF UpdateSettings, TypeOK
  <2>3. /\ secrets'[n] \in Row
        /\ secrets'[n].id = secrets[n].id
        /\ secrets'[n].version = secrets[n].version /\ secrets[n].version \in Nat
        /\ secrets'[n].vetted = secrets[n].vetted
    BY <2>1, <2>2 DEF Row
  <2> QED BY <1>4, <2>2, <2>3, EditChange DEF UpdateSettings, Known
<1>5. ASSUME NEW n \in Name, Review(n)
      PROVE  (\A m \in Name : RowChange(m)) /\ Known \subseteq Known' /\ lastId' = lastId
  BY <1>5 DEF Review, RowChange, Known
<1>6. ASSUME NEW n \in Name, MarkReviewed(n)
      PROVE  (\A m \in Name : RowChange(m)) /\ Known \subseteq Known' /\ lastId' = lastId
  <2>1. secrets[n] \in Row
    BY <1>6 DEF MarkReviewed, Writable, TypeOK
  <2>2. /\ secrets'[n] = [secrets[n] EXCEPT !.vetted = TRUE]
        /\ \A m \in Name \ {n} : secrets'[m] = secrets[m]
    BY <1>6 DEF MarkReviewed, TypeOK
  <2>3. /\ secrets'[n] \in Row
        /\ secrets'[n].id = secrets[n].id
        /\ secrets'[n].version = secrets[n].version /\ secrets[n].version \in Nat
        /\ secrets'[n].vetted
    BY <2>1, <2>2 DEF Row
  <2>4. SeenNow(n)'
    BY <1>6, <2>3 DEF MarkReviewed, Reviewed, SeenNow, Known
  <2>5. Writable(n) /\ UNCHANGED <<Known, lastId>>
    BY <1>6 DEF MarkReviewed, Known
  <2>6. secrets'[n].version >= secrets[n].version
    BY <2>3
  <2>7. \A m \in Name : RowChange(m)
    BY <2>2, <2>3, <2>4, <2>5, <2>6, EditChange
  <2> QED BY <2>5, <2>7
<1>7. ASSUME NEW r \in Request, CommitMint(r)
      PROVE  (\A m \in Name : RowChange(m)) /\ Known \subseteq Known' /\ lastId' \in {lastId, lastId + 1}
  <2>1. mints[r].name \in Name
    BY <1>7 DEF CommitMint, TypeOK, Mint
  <2>2. CASE mints[r].kind = "store"
    <3>1. /\ Insert(mints[r].name, TRUE)
          /\ Known \subseteq Known' /\ <<lastId + 1, 1>> \in Known'
      BY <1>7, <2>2 DEF CommitMint, Known
    <3> QED BY <2>1, <3>1, InsertChange DEF Insert
  <2>3. CASE mints[r].kind # "store"
    BY <1>7, <2>3 DEF CommitMint, RowChange, Known
  <2> QED BY <2>2, <2>3
<1>8. ASSUME NEW d \in Operator, CommitDelete(d)
      PROVE  (\A m \in Name : RowChange(m)) /\ Known \subseteq Known' /\ lastId' = lastId
  <2>1. Destroys(d) /\ deletes[d] \in Delete
    BY <1>8 DEF CommitDelete, Destroys, TypeOK
  <2>2. deletes[d].name \in Name /\ secrets[deletes[d].name] # Null
    BY <2>1 DEF DeletesSound, StillAsShown, Delete
  <2>3. /\ secrets'[deletes[d].name] = Null
        /\ \A m \in Name \ {deletes[d].name} : secrets'[m] = secrets[m]
    BY <1>8, <2>2 DEF CommitDelete, TypeOK
  <2>4. \A r \in deletes[d].revoke : r \in Request /\ grants[r] \in GrantRow
    BY <2>1 DEF DeletesSound, Delete, TypeOK
  <2>5. \A r \in deletes[d].revoke : grants'[r].dead
    BY <1>8, <2>4 DEF CommitDelete, GrantRow
  <2>6. RowGone(deletes[d].name)
    BY <1>8, <2>1, <2>2, <2>3, <2>5 DEF CommitDelete, RowGone
  <2> QED BY <1>8, <2>3, <2>6 DEF CommitDelete, RowChange, Known
<1>9. ASSUME UNCHANGED <<secrets, lastId, typed, forms>>
      PROVE  (\A m \in Name : RowChange(m)) /\ Known \subseteq Known' /\ lastId' = lastId
  BY <1>9 DEF RowChange, Known
<1>10. \/ \E n \in Name : \/ Deposit(n) \/ Create(n) \/ Rotate(n) \/ UpdateSettings(n)
                          \/ Review(n) \/ MarkReviewed(n)
       \/ \E r \in Request : CommitMint(r)
       \/ \E d \in Operator : CommitDelete(d)
       \/ UNCHANGED <<secrets, lastId, typed, forms>>
  BY DEF Next, StoreStep, RequestStep, DeleteStep, vars, SubmitPending, AutoDecide, Render,
         ApproveStored, ApproveValue, Approve, LockSecret, RollbackMint, Deny, Revoke,
         ConfirmDelete, LockDelete, DeleteRow, RollbackDelete
<1> QED
  BY <1>1, <1>2, <1>3, <1>4, <1>5, <1>6, <1>7, <1>8, <1>9, <1>10 DEF TypeOK

-----------------------------------------------------------------------------
(* What a step can do to a transaction that mints.                         *)

\* Decided on the row that is there, which an automatic decision found vetted.
MintBegun(r) ==
    /\ mints'[r] # Null /\ mints'[r].at = "begin"
    /\ mints'[r].kind = "stored" => SameRow(mints'[r]) /\ mints'[r].name \in Name
    /\ mints'[r].auto => mints'[r].kind = "stored" /\ secrets[mints'[r].name].vetted
    /\ UNCHANGED <<secrets, lastId, grants, deletes>>

\* The shared lock is taken and the row looked up.
MintLocked(r) ==
    /\ mints[r] # Null /\ mints[r].at = "begin"
    /\ mints'[r] = [mints[r] EXCEPT !.at = "locked"]
    /\ mints[r].kind # "passthrough" => ~ExclusiveHeld(mints[r].name)
    /\ mints[r].kind = "stored" => SameRow(mints[r])
    /\ UNCHANGED <<secrets, lastId, grants, deletes>>

MintChange(r) == mints'[r] = mints[r] \/ mints'[r] = Null \/ MintBegun(r) \/ MintLocked(r)

LEMMA MintChanges == ASSUME TypeOK, [Next]_vars PROVE \A r \in Request : MintChange(r)
<1>1. ASSUME NEW r \in Request, AutoDecide(r)
      PROVE  \A q \in Request : MintChange(q)
  <2> DEFINE m == Decided("stored", TRUE, Asked[r], secrets[Asked[r]].id, secrets[Asked[r]].id)
  <2>1. /\ Asked[r] \in Name /\ secrets[Asked[r]] \in Row /\ secrets[Asked[r]].vetted
        /\ mints'[r] = m /\ \A q \in Request \ {r} : mints'[q] = mints[q]
    BY <1>1 DEF AutoDecide, AutoApprovable, TypeOK
  <2>2. m \in Mint
    BY <2>1 DEF Decided, Mint, Kind, Row
  <2>3. MintBegun(r)
    <3>1. mints'[r] # Null
      BY <2>1, <2>2
    <3>2. /\ mints'[r].at = "begin" /\ mints'[r].kind = "stored" /\ mints'[r].name = Asked[r]
          /\ mints'[r].id = secrets[Asked[r]].id
      BY <2>1 DEF Decided
    <3> QED BY <1>1, <2>1, <3>1, <3>2 DEF AutoDecide, MintBegun, SameRow
  <2> QED BY <2>1, <2>3 DEF MintChange
<1>2. ASSUME NEW r \in Request, NEW n \in Name, ApproveStored(r, n)
      PROVE  \A q \in Request : MintChange(q)
  <2> DEFINE m == Decided("stored", FALSE, n, secrets[n].id, pages[r][n].id)
  <2>1. /\ secrets[n] \in Row /\ pages[r][n] \in Shown
        /\ mints'[r] = m /\ \A q \in Request \ {r} : mints'[q] = mints[q]
    BY <1>2 DEF ApproveStored, Approve, Submittable, MarkerMatches, TypeOK
  <2>2. m \in Mint
    BY <2>1 DEF Decided, Mint, Kind, Row, Shown
  <2>3. MintBegun(r)
    <3>1. mints'[r] # Null /\ secrets[n] # Null
      BY <2>1, <2>2
    <3>2. /\ mints'[r].at = "begin" /\ mints'[r].kind = "stored" /\ mints'[r].name = n
          /\ mints'[r].id = secrets[n].id
      BY <2>1 DEF Decided
    <3>3. ~mints'[r].auto
      BY <2>1 DEF Decided
    <3> QED BY <1>2, <3>1, <3>2, <3>3 DEF ApproveStored, Approve, MintBegun, SameRow
  <2> QED BY <2>1, <2>3 DEF MintChange
<1>3. ASSUME NEW r \in Request, NEW kind \in {"store", "passthrough"}, ApproveValue(r, kind)
      PROVE  \A q \in Request : MintChange(q)
  <2> DEFINE m == Decided(kind, FALSE, Asked[r], Null, Null)
  <2>1. mints'[r] = m /\ \A q \in Request \ {r} : mints'[q] = mints[q]
    BY <1>3 DEF ApproveValue, Approve, TypeOK
  <2>2. m \in Mint
    BY DEF Decided, Mint, Kind
  <2>3. MintBegun(r)
    <3>1. mints'[r] # Null
      BY <2>1, <2>2
    <3>2. mints'[r].at = "begin" /\ mints'[r].kind = kind
      BY <2>1 DEF Decided
    <3>3. ~mints'[r].auto
      BY <2>1 DEF Decided
    <3> QED BY <1>3, <3>1, <3>2, <3>3 DEF ApproveValue, Approve, MintBegun
  <2> QED BY <2>1, <2>3 DEF MintChange
<1>4. ASSUME NEW r \in Request, LockSecret(r)
      PROVE  \A q \in Request : MintChange(q)
  BY <1>4 DEF LockSecret, EndMint, MintChange, MintLocked, TypeOK
<1>5. ASSUME NEW r \in Request, CommitMint(r) \/ RollbackMint(r)
      PROVE  \A q \in Request : MintChange(q)
  BY <1>5 DEF CommitMint, RollbackMint, EndMint, MintChange, TypeOK
<1>6. ASSUME UNCHANGED mints
      PROVE  \A q \in Request : MintChange(q)
  BY <1>6 DEF MintChange
<1>7. \/ \E r \in Request : \/ AutoDecide(r) \/ (\E n \in Name : ApproveStored(r, n))
                            \/ (\E kind \in {"store", "passthrough"} : ApproveValue(r, kind))
                            \/ LockSecret(r) \/ CommitMint(r) \/ RollbackMint(r)
      \/ UNCHANGED mints
  BY DEF Next, StoreStep, RequestStep, DeleteStep, vars, SubmitPending, Render, Deny, Revoke,
         Deposit, Create, Rotate, UpdateSettings, Review, MarkReviewed,
         ConfirmDelete, LockDelete, DeleteRow, CommitDelete, RollbackDelete
<1> QED BY <1>1, <1>2, <1>3, <1>4, <1>5, <1>6, <1>7

-----------------------------------------------------------------------------
(* What a step can do to a grant.                                          *)

GrantDies(r) == grants[r] # Null /\ grants'[r] = [grants[r] EXCEPT !.dead = TRUE]

\* Minted under the lock, on the pinned row or on one inserted with it.
GrantBorn(r) ==
    /\ mints[r] # Null /\ mints[r].at = "locked"
    /\ grants'[r] # Null
    /\ grants'[r].kind = mints[r].kind
    /\ grants'[r].auto = mints[r].auto
    /\ grants'[r].name = mints[r].name
    /\ deletes' = deletes
    /\ \/ /\ mints[r].kind = "store"
          /\ secrets'[mints[r].name] # Null
          /\ secrets'[mints[r].name].id = grants'[r].id
       \/ /\ mints[r].kind # "store"
          /\ grants'[r].id = mints[r].id
          /\ secrets' = secrets

GrantChange(r) == grants'[r] = grants[r] \/ GrantDies(r) \/ GrantBorn(r)

LEMMA MintedGrant ==
    ASSUME TypeOK, NEW r \in Request, mints[r] \in Mint, NEW id \in Nat \cup {Null},
           MintGrant(r, id)
    PROVE  /\ grants'[r] # Null
           /\ grants'[r].kind = mints[r].kind /\ grants'[r].auto = mints[r].auto
           /\ grants'[r].name = mints[r].name /\ grants'[r].id = id
<1>1. grants'[r] = [kind |-> mints[r].kind, auto |-> mints[r].auto, name |-> mints[r].name,
                    id |-> id, shown |-> mints[r].shown, dead |-> FALSE]
  BY DEF MintGrant, TypeOK
<1>2. grants'[r] \in GrantRow
  BY <1>1 DEF Mint, GrantRow
<1>3. grants'[r] # Null
  BY <1>2
<1> QED BY <1>1, <1>3

LEMMA GrantChanges ==
    ASSUME TypeOK, DeletesSound, [Next]_vars
    PROVE  \A r \in Request : GrantChange(r)
<1>1. ASSUME NEW r \in Request, CommitMint(r)
      PROVE  \A q \in Request : GrantChange(q)
  <2>1. /\ mints[r] \in Mint /\ mints[r].name \in Name
        /\ mints[r].id \in Nat \cup {Null} /\ lastId + 1 \in Nat \cup {Null}
    BY <1>1 DEF CommitMint, TypeOK, Mint
  <2>2. \A q \in Request \ {r} : grants'[q] = grants[q]
    BY <1>1 DEF CommitMint, MintGrant, TypeOK
  <2>3. CASE mints[r].kind = "store"
    <3>1. Insert(mints[r].name, TRUE) /\ MintGrant(r, lastId + 1)
      BY <1>1, <2>3 DEF CommitMint
    <3>2. NewRow(TRUE) \in Row /\ secrets'[mints[r].name] = NewRow(TRUE)
      BY <2>1, <3>1, InsertType DEF Insert, TypeOK
    <3>3. secrets'[mints[r].name] # Null
      BY <3>2
    <3>4. secrets'[mints[r].name].id = lastId + 1
      BY <3>2 DEF NewRow
    <3>5. GrantBorn(r)
      BY <1>1, <2>1, <2>3, <3>1, <3>3, <3>4, MintedGrant DEF CommitMint, GrantBorn
    <3> QED BY <2>2, <3>5 DEF GrantChange
  <2>4. CASE mints[r].kind # "store"
    <3>1. GrantBorn(r)
      BY <1>1, <2>1, <2>4, MintedGrant DEF CommitMint, GrantBorn
    <3> QED BY <2>2, <3>1 DEF GrantChange
  <2> QED BY <2>3, <2>4
<1>2. ASSUME NEW r \in Request, Revoke(r)
      PROVE  \A q \in Request : GrantChange(q)
  BY <1>2 DEF Revoke, GrantChange, GrantDies, TypeOK
<1>3. ASSUME NEW d \in Operator, CommitDelete(d)
      PROVE  \A q \in Request : GrantChange(q)
  <2>1. \A q \in deletes[d].revoke : grants[q] # Null
    BY <1>3 DEF CommitDelete, DeletesSound, Destroys
  <2> QED BY <1>3, <2>1 DEF CommitDelete, GrantChange, GrantDies
<1>4. ASSUME UNCHANGED grants
      PROVE  \A q \in Request : GrantChange(q)
  BY <1>4 DEF GrantChange
<1>5. \/ \E r \in Request : CommitMint(r) \/ Revoke(r)
      \/ \E d \in Operator : CommitDelete(d)
      \/ UNCHANGED grants
  BY DEF Next, StoreStep, RequestStep, DeleteStep, vars, SubmitPending, AutoDecide, Render,
         ApproveStored, ApproveValue, Approve, LockSecret, RollbackMint, Deny,
         Deposit, Create, Rotate, UpdateSettings, Review, MarkReviewed,
         ConfirmDelete, LockDelete, DeleteRow, RollbackDelete
<1> QED BY <1>1, <1>2, <1>3, <1>4, <1>5

-----------------------------------------------------------------------------
(* What a step can do to a deletion.                                       *)

DeleteConfirmed(d) == deletes'[d] # Null /\ deletes'[d].at = "confirm"

DeleteLocked(d) ==
    /\ deletes[d] # Null /\ deletes'[d] # Null
    /\ deletes'[d].at = "locked" /\ deletes'[d].name = deletes[d].name
    /\ ~SharedHeld(deletes[d].name) /\ ~ExclusiveHeld(deletes[d].name)
    /\ mints' = mints
    /\ \A e \in Operator \ {d} : deletes'[e] = deletes[e]

DeleteDone(d) ==
    /\ Holds(d)
    /\ StillAsShown(deletes[d])
    /\ deletes'[d] = [deletes[d] EXCEPT !.at = "deleted", !.revoke = RevokedWith(deletes[d].name)]
    /\ UNCHANGED <<secrets, mints, grants>>

DeleteChange(d) ==
    \/ deletes'[d] = deletes[d] \/ deletes'[d] = Null
    \/ DeleteConfirmed(d) \/ DeleteLocked(d) \/ DeleteDone(d)

LEMMA DeleteChanges == ASSUME TypeOK, [Next]_vars PROVE \A d \in Operator : DeleteChange(d)
<1>1. ASSUME NEW d \in Operator, NEW n \in Name, ConfirmDelete(d, n)
      PROVE  \A e \in Operator : DeleteChange(e)
  <2> DEFINE del == [at |-> "confirm", name |-> n, id |-> secrets[n].id,
                     version |-> secrets[n].version, revoke |-> {}]
  <2>1. deletes'[d] = del /\ \A e \in Operator \ {d} : deletes'[e] = deletes[e]
    BY <1>1 DEF ConfirmDelete, TypeOK
  <2>2. del \in Delete
    <3>1. secrets[n] \in Row
      BY <1>1 DEF ConfirmDelete, TypeOK
    <3> QED BY <3>1 DEF Row, Delete
  <2>3. DeleteConfirmed(d)
    BY <2>1, <2>2 DEF DeleteConfirmed
  <2> QED BY <2>1, <2>3 DEF DeleteChange
<1>2. ASSUME NEW d \in Operator, LockDelete(d)
      PROVE  \A e \in Operator : DeleteChange(e)
  <2>1. deletes[d] \in Delete
    BY <1>2 DEF LockDelete, TypeOK
  <2>2. /\ deletes'[d] = [deletes[d] EXCEPT !.at = "locked"]
        /\ \A e \in Operator \ {d} : deletes'[e] = deletes[e]
    BY <1>2 DEF LockDelete, TypeOK
  <2>3. deletes'[d] \in Delete /\ deletes'[d].at = "locked" /\ deletes'[d].name = deletes[d].name
    BY <2>1, <2>2 DEF Delete
  <2>4. DeleteLocked(d)
    BY <1>2, <2>2, <2>3 DEF LockDelete, DeleteLocked
  <2> QED BY <2>2, <2>4 DEF DeleteChange
<1>3. ASSUME NEW d \in Operator, DeleteRow(d)
      PROVE  \A e \in Operator : DeleteChange(e)
  BY <1>3 DEF DeleteRow, DeleteChange, DeleteDone, Holds, TypeOK
<1>4. ASSUME NEW d \in Operator, CommitDelete(d) \/ RollbackDelete(d)
      PROVE  \A e \in Operator : DeleteChange(e)
  BY <1>4 DEF CommitDelete, RollbackDelete, DeleteChange, TypeOK
<1>5. ASSUME UNCHANGED deletes
      PROVE  \A e \in Operator : DeleteChange(e)
  BY <1>5 DEF DeleteChange
<1>6. \/ \E d \in Operator : \/ (\E n \in Name : ConfirmDelete(d, n)) \/ LockDelete(d)
                             \/ DeleteRow(d) \/ CommitDelete(d) \/ RollbackDelete(d)
      \/ UNCHANGED deletes
  BY DEF Next, StoreStep, RequestStep, DeleteStep, vars, SubmitPending, AutoDecide, Render,
         ApproveStored, ApproveValue, Approve, LockSecret, CommitMint, RollbackMint, Deny, Revoke,
         Deposit, Create, Rotate, UpdateSettings, Review, MarkReviewed
<1> QED BY <1>1, <1>2, <1>3, <1>4, <1>5, <1>6

-----------------------------------------------------------------------------
(* The parts of the invariant.                                             *)

\* Where a row comes from and where it goes.
LEMMA RowKept ==
    ASSUME NEW n \in Name, RowChange(n), secrets[n] # Null, secrets'[n] # Null
    PROVE  secrets'[n].id = secrets[n].id /\ (secrets[n].vetted => secrets'[n].vetted)
BY DEF RowChange, RowBorn, RowEdited, RowGone

LEMMA FreshStep == ASSUME IInv, [Next]_vars PROVE IdsFresh'
<1> USE DEF IInv
<1>1. lastId \in Nat /\ lastId' \in Nat /\ lastId <= lastId' /\ \A n \in Name : RowChange(n)
  BY RowChanges DEF TypeOK
<1>2. \A n \in Name : secrets[n] # Null => secrets[n].id \in Nat
  BY DEF TypeOK, Row
<1>3. ASSUME NEW n \in Name, secrets'[n] # Null
      PROVE  secrets'[n].id <= lastId'
  BY <1>1, <1>2, <1>3 DEF RowChange, RowBorn, RowEdited, RowGone, IdsFresh
<1>4. ASSUME NEW r \in Request, mints'[r] # Null, mints'[r].kind = "stored"
      PROVE  mints'[r].id \in Nat /\ mints'[r].id <= lastId'
  <2>1. CASE mints'[r] = mints[r]
    BY <1>1, <1>4, <2>1 DEF IdsFresh
  <2>2. CASE MintBegun(r)
    BY <1>1, <1>2, <1>4, <2>2 DEF MintBegun, SameRow, IdsFresh
  <2>3. CASE MintLocked(r)
    <3>1. mints[r] \in Mint
      BY <2>3 DEF MintLocked, TypeOK
    <3>2. mints'[r].kind = mints[r].kind /\ mints'[r].id = mints[r].id
      BY <2>3, <3>1 DEF MintLocked, Mint
    <3> QED BY <1>1, <1>4, <2>3, <3>2 DEF MintLocked, IdsFresh
  <2> QED BY <1>4, <2>1, <2>2, <2>3, MintChanges DEF MintChange
<1> QED BY <1>3, <1>4 DEF IdsFresh

\* A transaction that mints under the lock is new to it only by LockSecret.
LEMMA MintingStep ==
    ASSUME TypeOK, [Next]_vars, NEW r \in Request, Minting(r)'
    PROVE  \/ mints'[r] = mints[r] /\ Minting(r)
           \/ /\ mints[r] # Null /\ mints'[r].name = mints[r].name
              /\ mints'[r].kind = mints[r].kind /\ mints'[r].id = mints[r].id
              /\ ~ExclusiveHeld(mints[r].name)
              /\ mints[r].kind = "stored" => SameRow(mints[r])
              /\ UNCHANGED <<secrets, grants, deletes>>
<1>1. CASE mints'[r] = mints[r]
  BY <1>1 DEF Minting
<1>2. CASE MintBegun(r)
  BY <1>2 DEF MintBegun, Minting
<1>3. CASE MintLocked(r)
  <2>1. mints[r] \in Mint
    BY <1>3 DEF MintLocked, TypeOK
  <2>2. /\ mints'[r].kind = mints[r].kind /\ mints'[r].id = mints[r].id
        /\ mints'[r].name = mints[r].name
    BY <1>3, <2>1 DEF MintLocked, Mint
  <2> QED BY <1>3, <2>2 DEF MintLocked, Minting
<1> QED BY <1>1, <1>2, <1>3, MintChanges DEF MintChange, Minting

\* A deletion holds the lock as before, or LockDelete has just taken it.
LEMMA HoldsStep ==
    ASSUME TypeOK, [Next]_vars, NEW d \in Operator, Holds(d)'
    PROVE  \/ Holds(d) /\ deletes'[d].name = deletes[d].name
           \/ DeleteLocked(d)
<1>1. CASE deletes'[d] = deletes[d]
  BY <1>1 DEF Holds
<1>2. CASE DeleteConfirmed(d)
  BY <1>2 DEF DeleteConfirmed, Holds
<1>3. CASE DeleteDone(d)
  <2>1. deletes[d] \in Delete
    BY <1>3 DEF DeleteDone, Holds, TypeOK
  <2> QED BY <1>3, <2>1 DEF DeleteDone, Delete
<1> QED BY <1>1, <1>2, <1>3, DeleteChanges DEF DeleteChange, Holds

LEMMA LocksStep == ASSUME IInv, [Next]_vars PROVE LocksExclude'
<1> USE DEF IInv
<1>1. ASSUME NEW r \in Request, NEW d \in Operator, Minting(r)', Holds(d)'
      PROVE  mints'[r].name # deletes'[d].name
  <2>1. CASE DeleteLocked(d)
    <3>1. Minting(r) /\ mints'[r] = mints[r] /\ ~SharedHeld(deletes[d].name)
      BY <1>1, <2>1 DEF DeleteLocked, Minting
    <3> QED BY <2>1, <3>1 DEF DeleteLocked, SharedHeld, Minting
  <2>2. CASE Holds(d) /\ deletes'[d].name = deletes[d].name
    <3>1. CASE mints'[r] = mints[r] /\ Minting(r)
      BY <2>2, <3>1 DEF LocksExclude
    <3>2. CASE mints'[r].name = mints[r].name /\ ~ExclusiveHeld(mints[r].name)
      BY <2>2, <3>2 DEF ExclusiveHeld, Deleting, Holds
    <3> QED BY <1>1, <3>1, <3>2, MintingStep
  <2> QED BY <1>1, <2>1, <2>2, HoldsStep
<1>2. ASSUME NEW c \in Operator, NEW d \in Operator, Holds(c)', Holds(d)', c # d
      PROVE  deletes'[c].name # deletes'[d].name
  <2>1. ASSUME NEW x \in Operator, NEW y \in Operator, x # y, DeleteLocked(x), Holds(y)'
        PROVE  deletes'[x].name # deletes'[y].name
    BY <2>1 DEF DeleteLocked, Holds, ExclusiveHeld, Deleting
  <2>2. CASE /\ Holds(c) /\ deletes'[c].name = deletes[c].name
             /\ Holds(d) /\ deletes'[d].name = deletes[d].name
    BY <1>2, <2>2 DEF LocksExclude
  <2> QED BY <1>2, <2>1, <2>2, HoldsStep
<1> QED BY <1>1, <1>2 DEF LocksExclude

LEMMA PinnedStep == ASSUME IInv, [Next]_vars PROVE RowsPinned'
<1> USE DEF IInv
<1> SUFFICES ASSUME NEW r \in Request, Minting(r)', mints'[r].kind = "stored"
             PROVE  SameRow(mints[r])'
  BY DEF RowsPinned
<1>1. CASE mints'[r] = mints[r] /\ Minting(r)
  <2>1. SameRow(mints[r]) /\ mints[r].name \in Name
    BY <1>1 DEF RowsPinned, Minting, TypeOK, Mint
  <2>2. ~RowGone(mints[r].name)
    BY <1>1 DEF RowGone, LocksExclude, Destroys, Holds
  <2> QED BY <1>1, <2>1, <2>2, RowChanges DEF SameRow, RowChange, RowBorn, RowEdited
<1>2. CASE /\ mints'[r].name = mints[r].name /\ mints'[r].id = mints[r].id
           /\ SameRow(mints[r]) /\ secrets' = secrets
  BY <1>2 DEF SameRow
<1> QED BY <1>1, <1>2, MintingStep

LEMMA DeletesStep == ASSUME IInv, [Next]_vars PROVE DeletesSound'
<1> USE DEF IInv
<1> SUFFICES ASSUME NEW d \in Operator, Destroys(d)'
             PROVE  /\ StillAsShown(deletes[d])'
                    /\ \A r \in deletes'[d].revoke : grants'[r] # Null
                    /\ \A r \in Request : LiveStored(r)' /\ grants'[r].name = deletes'[d].name
                                            => r \in deletes'[d].revoke
  BY DEF DeletesSound
<1>1. CASE deletes'[d] = deletes[d]
  <2>1. /\ Destroys(d) /\ Holds(d) /\ deletes[d] \in Delete /\ StillAsShown(deletes[d])
        /\ deletes[d].name \in Name /\ deletes[d].revoke \subseteq Request
    BY <1>1 DEF Destroys, Holds, DeletesSound, TypeOK, Delete
  <2>2. RowLocked(deletes[d].name)
    BY <2>1 DEF RowLocked, Deleting, Destroys
  <2>3. ~RowGone(deletes[d].name)
    <3> SUFFICES ASSUME RowGone(deletes[d].name)
                 PROVE  FALSE
      OBVIOUS
    <3>1. PICK e \in Operator : /\ Destroys(e) /\ deletes[e].name = deletes[d].name
                                /\ deletes' = [deletes EXCEPT ![e] = Null]
      BY DEF RowGone
    <3>2. e = d
      BY <2>1, <3>1 DEF LocksExclude, Destroys, Holds
    <3> QED BY <1>1, <2>1, <3>1, <3>2 DEF Destroys, TypeOK
  <2>4. secrets'[deletes[d].name] = secrets[deletes[d].name]
    BY <2>1, <2>2, <2>3, RowChanges DEF RowChange, RowBorn, RowEdited
  <2>5. ASSUME NEW r \in deletes[d].revoke PROVE grants'[r] # Null
    <3>1. r \in Request /\ grants[r] \in GrantRow
      BY <2>1 DEF DeletesSound, TypeOK
    <3>2. CASE GrantBorn(r)
      BY <3>2 DEF GrantBorn
    <3>3. CASE GrantDies(r)
      <4>1. grants'[r] \in GrantRow
        BY <3>1, <3>3 DEF GrantDies, GrantRow
      <4> QED BY <4>1
    <3> QED BY <3>1, <3>2, <3>3, GrantChanges DEF GrantChange
  <2>6. ASSUME NEW r \in Request, LiveStored(r)', grants'[r].name = deletes[d].name
        PROVE  r \in deletes[d].revoke
    <3>1. CASE grants'[r] = grants[r]
      BY <2>1, <2>6, <3>1 DEF LiveStored, DeletesSound
    <3>2. CASE GrantDies(r)
      <4>1. grants[r] \in GrantRow
        BY <3>2 DEF GrantDies, TypeOK
      <4> QED BY <2>6, <3>2, <4>1 DEF GrantDies, LiveStored, GrantRow
    <3>3. CASE GrantBorn(r)
      <4>1. Minting(r) /\ mints[r].name = deletes[d].name
        BY <2>6, <3>3 DEF GrantBorn, LiveStored, Minting
      <4> QED BY <2>1, <4>1 DEF LocksExclude
    <3> QED BY <3>1, <3>2, <3>3, GrantChanges DEF GrantChange
  <2> QED BY <1>1, <2>1, <2>4, <2>5, <2>6 DEF StillAsShown
<1>2. CASE DeleteDone(d)
  <2>1. deletes[d] \in Delete
    BY <1>2 DEF DeleteDone, Holds, TypeOK
  <2>2. /\ deletes'[d].name = deletes[d].name /\ deletes'[d].id = deletes[d].id
        /\ deletes'[d].version = deletes[d].version
        /\ deletes'[d].revoke = RevokedWith(deletes[d].name)
    BY <1>2, <2>1 DEF DeleteDone, Delete
  <2> QED BY <1>2, <2>2 DEF DeleteDone, StillAsShown, RevokedWith, LiveStored
<1> QED
  BY <1>1, <1>2, DeleteChanges DEF DeleteChange, Destroys, DeleteConfirmed, DeleteLocked

LEMMA OrphanStep == ASSUME IInv, [Next]_vars PROVE NoOrphanGrant'
<1> USE DEF IInv
<1> SUFFICES ASSUME NEW r \in Request, LiveStored(r)'
             PROVE  /\ secrets'[grants'[r].name] # Null
                    /\ secrets'[grants'[r].name].id = grants'[r].id
  BY DEF NoOrphanGrant
<1>1. CASE grants'[r] = grants[r]
  <2>1. LiveStored(r) /\ grants[r].name \in Name
    BY <1>1 DEF LiveStored, TypeOK, GrantRow
  <2>2. secrets[grants[r].name] # Null /\ secrets[grants[r].name].id = grants[r].id
    BY <2>1 DEF NoOrphanGrant
  <2>3. ~RowGone(grants[r].name)
    BY <1>1, <2>1 DEF RowGone, DeletesSound, LiveStored
  <2> QED BY <1>1, <2>1, <2>2, <2>3, RowChanges DEF RowChange, RowBorn, RowEdited
<1>2. CASE GrantDies(r)
  <2>1. grants[r] \in GrantRow
    BY <1>2 DEF GrantDies, TypeOK
  <2> QED BY <1>2, <2>1 DEF GrantDies, LiveStored, GrantRow
<1>3. CASE GrantBorn(r)
  <2>1. mints[r] \in Mint
    BY <1>3 DEF GrantBorn, TypeOK
  <2>2. CASE mints[r].kind = "store"
    BY <1>3, <2>2 DEF GrantBorn
  <2>3. CASE mints[r].kind # "store"
    <3>1. mints[r].kind = "stored" /\ Minting(r)
      BY <1>3, <2>1, <2>3 DEF GrantBorn, LiveStored, Mint, Kind, Minting
    <3>2. SameRow(mints[r])
      BY <3>1 DEF RowsPinned
    <3> QED BY <1>3, <2>3, <3>2 DEF GrantBorn, SameRow
  <2> QED BY <2>2, <2>3
<1> QED BY <1>1, <1>2, <1>3, GrantChanges DEF GrantChange

LEMMA AutoStep == ASSUME IInv, [Next]_vars PROVE AutoSound'
<1> USE DEF IInv
<1>1. ASSUME NEW r \in Request, mints'[r] # Null, mints'[r].auto
      PROVE  /\ mints'[r].kind = "stored"
             /\ SameRow(mints[r])' => secrets'[mints'[r].name].vetted
  <2>1. CASE MintBegun(r)
    BY <1>1, <2>1 DEF MintBegun
  <2>2. CASE /\ mints[r] # Null /\ mints'[r].auto = mints[r].auto
             /\ mints'[r].kind = mints[r].kind
             /\ mints'[r].name = mints[r].name /\ mints'[r].id = mints[r].id
    <3>1. /\ mints[r].kind = "stored" /\ mints[r].name \in Name
          /\ SameRow(mints[r]) => secrets[mints[r].name].vetted
      BY <1>1, <2>2 DEF AutoSound, TypeOK, Mint
    <3> SUFFICES ASSUME SameRow(mints[r])'
                 PROVE  secrets'[mints[r].name].vetted
      BY <2>2, <3>1
    <3>2. ~RowBorn(mints[r].name)
      <4>1. lastId \in Nat /\ mints[r].id \in Nat /\ mints[r].id <= lastId
        BY <2>2, <3>1 DEF IdsFresh, TypeOK
      <4> QED BY <2>2, <4>1 DEF RowBorn, SameRow
    <3>3. SameRow(mints[r]) /\ secrets'[mints[r].name] # Null
      BY <2>2, <3>1, <3>2, RowChanges DEF SameRow, RowChange, RowEdited, RowGone
    <3> QED BY <3>1, <3>3, RowChanges, RowKept DEF SameRow
  <2>3. CASE MintLocked(r)
    <3>1. mints[r] \in Mint
      BY <2>3 DEF MintLocked, TypeOK
    <3>2. /\ mints'[r].auto = mints[r].auto /\ mints'[r].kind = mints[r].kind
          /\ mints'[r].name = mints[r].name /\ mints'[r].id = mints[r].id
      BY <2>3, <3>1 DEF MintLocked, Mint
    <3> QED BY <2>2, <2>3, <3>2 DEF MintLocked
  <2> QED BY <1>1, <2>1, <2>2, <2>3, MintChanges DEF MintChange
<1>2. AutoReleasesVetted'
  <2> SUFFICES ASSUME NEW r \in Request, LiveStored(r)', grants'[r].auto
               PROVE  secrets'[grants'[r].name].vetted
    BY DEF AutoReleasesVetted
  <2>1. CASE grants'[r] = grants[r]
    <3>1. LiveStored(r) /\ grants[r].auto /\ grants[r].name \in Name
      BY <2>1 DEF LiveStored, TypeOK, GrantRow
    <3>2. secrets[grants[r].name] # Null /\ secrets'[grants[r].name] # Null
      BY <2>1, <3>1, OrphanStep DEF NoOrphanGrant
    <3>3. secrets[grants[r].name].vetted
      BY <3>1 DEF AutoSound, AutoReleasesVetted
    <3> QED BY <2>1, <3>1, <3>2, <3>3, RowChanges, RowKept
  <2>2. CASE GrantDies(r)
    <3>1. grants[r] \in GrantRow
      BY <2>2 DEF GrantDies, TypeOK
    <3> QED BY <2>2, <3>1 DEF GrantDies, LiveStored, GrantRow
  <2>3. CASE GrantBorn(r)
    <3>1. mints[r].auto /\ mints[r].kind = "stored" /\ Minting(r)
      BY <2>3 DEF GrantBorn, AutoSound, Minting
    <3>2. SameRow(mints[r])
      BY <3>1 DEF RowsPinned
    <3>3. secrets[mints[r].name].vetted
      BY <3>1, <3>2 DEF AutoSound, Minting
    <3> QED BY <2>3, <3>1, <3>3 DEF GrantBorn
  <2> QED BY <2>1, <2>2, <2>3, GrantChanges DEF GrantChange
<1> QED BY <1>1, <1>2 DEF AutoSound

LEMMA SeenStep == ASSUME IInv, [Next]_vars PROVE VettedAsReviewed'
<1> USE DEF IInv
<1> SUFFICES ASSUME NEW n \in Name, secrets'[n] # Null, secrets'[n].vetted
             PROVE  SeenNow(n)'
  BY DEF VettedAsReviewed, SeenNow, Known
<1>1. Known \subseteq Known' /\ RowChange(n)
  BY RowChanges
<1>2. secrets[n] # Null /\ secrets[n].vetted => SeenNow(n)
  BY DEF VettedAsReviewed, SeenNow, Known
<1>3. CASE secrets'[n] = secrets[n]
  BY <1>1, <1>2, <1>3 DEF SeenNow
<1>4. CASE RowBorn(n)
  BY <1>4 DEF RowBorn
<1>5. CASE RowEdited(n)
  BY <1>1, <1>2, <1>5 DEF RowEdited, SeenNow
<1> QED BY <1>1, <1>3, <1>4, <1>5 DEF RowChange, RowGone

-----------------------------------------------------------------------------
(* The theorems.                                                           *)

\* Every part of the invariant holds at the start and is kept by every step of
\* the store, of the transactions that mint, and of the deletions.
THEOREM Invariance == Spec => []IInv
<1>1. Init => IInv
  BY DEF Init, IInv, TypeOK, LocksExclude, Minting, Holds, IdsFresh, RowsPinned, DeletesSound,
         Destroys, NoOrphanGrant, LiveStored, AutoSound, AutoReleasesVetted, VettedAsReviewed
<1>2. IInv /\ [Next]_vars => IInv'
  BY TypeStep, LocksStep, FreshStep, PinnedStep, DeletesStep, OrphanStep, AutoStep, SeenStep
     DEF IInv
<1> QED BY <1>1, <1>2, PTL DEF Spec

\* Every table keeps the shape of its columns, although rows, grants and forms
\* refer to each other by names that are reused.
THEOREM TypeCorrect == Spec => []TypeOK
BY Invariance, PTL DEF IInv

\* A live stored grant is never left without the row it was minted against, for
\* any interleaving of approvals, automatic decisions and deletions of any
\* number of names (take_secret_shared_lock, secret_incarnation_exists,
\* delete_secret_audited).
THEOREM NoOrphanGrantHolds == Spec => []NoOrphanGrant
BY Invariance, PTL DEF IInv

\* What an automatically approved grant would release is vetted, however the
\* name changes hands between evaluate and the insert of the grant.
THEOREM AutoReleasesVettedHolds == Spec => []AutoReleasesVetted
<1>1. IInv => AutoReleasesVetted
  BY DEF IInv, AutoSound
<1> QED BY <1>1, Invariance, PTL

\* A version counts as vetted only if an operator typed it or a review page of
\* that very row and version was served (mark_secret_vetted against rotation,
\* deletion and reuse of the name).  That the page showed the bytes is not claimed:
\* review_secret shows them only on request.
THEOREM VettedAsReviewedHolds == Spec => []VettedAsReviewed
BY Invariance, PTL DEF IInv

\* A name passes from row to row only through a deletion, and versions never go
\* back (ON CONFLICT DO NOTHING in deposit, creation and approval).
THEOREM NamesNotTakenOverHolds == Spec => NamesNotTakenOver
<1> DEFINE Kept == \A n \in Name : secrets[n] # Null /\ secrets'[n] # Null
                     => /\ secrets'[n].id = secrets[n].id
                        /\ secrets'[n].version >= secrets[n].version
<1>1. IInv /\ [Next]_vars => Kept
  <2> SUFFICES ASSUME IInv, [Next]_vars, NEW n \in Name, secrets[n] # Null, secrets'[n] # Null
               PROVE  /\ secrets'[n].id = secrets[n].id
                      /\ secrets'[n].version >= secrets[n].version
    OBVIOUS
  <2>1. secrets[n].version \in Nat
    BY DEF IInv, TypeOK, Row
  <2> QED BY <2>1, RowChanges DEF IInv, RowChange, RowBorn, RowEdited, RowGone
<1> QED BY <1>1, Invariance, PTL DEF Spec, NamesNotTakenOver

\* A row disappears only at the id and version its confirmation page showed
\* (DELETE ... WHERE id = $1 AND current_version = $2 under the exclusive lock,
\* and the row lock until it commits).
THEOREM DestroyedAsConfirmedHolds == Spec => DestroyedAsConfirmed
<1> DEFINE Confirmed ==
      \A n \in Name : secrets[n] # Null /\ secrets'[n] = Null
         => \E d \in Operator : /\ deletes[d] # Null
                                /\ deletes[d].id = secrets[n].id
                                /\ deletes[d].version = secrets[n].version
<1>1. IInv /\ [Next]_vars => Confirmed
  <2> SUFFICES ASSUME IInv, [Next]_vars, NEW n \in Name, secrets[n] # Null, secrets'[n] = Null
               PROVE  \E d \in Operator : /\ deletes[d] # Null
                                         /\ deletes[d].id = secrets[n].id
                                         /\ deletes[d].version = secrets[n].version
    OBVIOUS
  <2>1. PICK d \in Operator : Destroys(d) /\ deletes[d].name = n
    BY RowChanges DEF IInv, RowChange, RowBorn, RowEdited, RowGone
  <2> QED BY <2>1 DEF IInv, DeletesSound, StillAsShown, Destroys
<1> QED BY <1>1, Invariance, PTL DEF Spec, DestroyedAsConfirmed
=============================================================================
