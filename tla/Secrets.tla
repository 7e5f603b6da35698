------------------------------ MODULE Secrets -------------------------------
(***************************************************************************)
(* Stored secrets and the grants minted against them: deposits, rotation,  *)
(* vetting and deletion (server/src/db/secrets.rs, db/ui_ext.rs) racing    *)
(* the two ways a grant comes to exist, an operator's approval of a page   *)
(* rendered earlier (ui/mod.rs) and an automatic one (api/requests.rs).    *)
(*                                                                         *)
(* Names are reusable, so a name stands for a succession of rows, each     *)
(* with an id of its own.  A grant carries only the name; the transaction  *)
(* that inserts it holds the shared side of the name's advisory lock and   *)
(* verifies the id it decided about, and a deletion holds the exclusive    *)
(* side.  Both are modelled statement by statement under READ COMMITTED: a *)
(* deletion's effects are invisible, and its row locked, until it commits. *)
(*                                                                         *)
(* Left out: bytes (a version is named by its row id and number), tiers    *)
(* and injection settings (enabled stands for "may serve the mechanism"),  *)
(* expiry of grants (Revoke stands for every way a grant dies), rows       *)
(* managed by configuration, the idempotency of request creation, and more *)
(* than one submission of the same approval page in flight (they serialise *)
(* on the request row, and the second finds it resolved).                  *)
(***************************************************************************)
EXTENDS Integers

CONSTANTS
    Name,        \* secret names
    Request,     \* access requests
    Operator,    \* deletions that can be in flight together
    Asked,       \* the name each request asks for
    MaxId,       \* bound: secret rows ever inserted
    MaxVersion,  \* bound: versions of one row
    Null

ASSUME AskedAssumption == Asked \in [Request -> Name]

VARIABLES
    secrets,   \* secrets: the row of each name, or Null
    lastId,    \* last secret id handed out
    typed,     \* history: <<id, version>> whose bytes an operator typed
    forms,     \* <<id, version>> for which a review page carried a confirmation form
    requests,  \* access_requests.state; "denied" stands for expired too
    pages,     \* approval page open in the operator's browser: what it showed
    mints,     \* transactions that insert a grant, from decision to commit
    grants,    \* grants: the grant of each request, or Null
    deletes    \* deletions, from confirmation page to commit

vars == <<secrets, lastId, typed, forms, requests, pages, mints, grants, deletes>>

-----------------------------------------------------------------------------
Row == [id : Nat, version : Nat, vetted : BOOLEAN, enabled : BOOLEAN]

\* What a page shows of a row.  The form carries the version only.
Shown == [id : Nat, version : Nat]

Kind == {"stored", "store", "passthrough"}

\* The grant being minted: the row id the decision pinned (secret_id), and, as
\* history, the id of the row that was on the page.
Mint == [at : {"begin", "locked"}, kind : Kind, auto : BOOLEAN, name : Name,
         id : Nat \cup {Null}, shown : Nat \cup {Null}]

GrantRow == [kind : Kind, auto : BOOLEAN, name : Name, id : Nat \cup {Null},
             shown : Nat \cup {Null}, dead : BOOLEAN]

Delete == [at : {"confirm", "locked", "deleted"}, name : Name, id : Nat,
           version : Nat, revoke : SUBSET Request]

ASSUME NullAssumption == Null \notin Row \cup Mint \cup GrantRow \cup Delete

TypeOK ==
    /\ secrets \in [Name -> Row \cup {Null}]
    /\ lastId \in Nat
    /\ typed \in SUBSET (Nat \X Nat)
    /\ forms \in SUBSET (Nat \X Nat)
    /\ requests \in [Request -> {"new", "pending", "approved", "denied"}]
    /\ pages \in [Request -> [Name -> Shown \cup {Null}] \cup {Null}]
    /\ mints \in [Request -> Mint \cup {Null}]
    /\ grants \in [Request -> GrantRow \cup {Null}]
    /\ deletes \in [Operator -> Delete \cup {Null}]

Init ==
    /\ secrets = [n \in Name |-> Null]
    /\ lastId = 0
    /\ typed = {}
    /\ forms = {}
    /\ requests = [r \in Request |-> "new"]
    /\ pages = [r \in Request |-> Null]
    /\ mints = [r \in Request |-> Null]
    /\ grants = [r \in Request |-> Null]
    /\ deletes = [d \in Operator |-> Null]

-----------------------------------------------------------------------------
(* Locks.                                                                  *)

Deleting(n, stages) ==
    \E d \in Operator : deletes[d] # Null /\ deletes[d].name = n /\ deletes[d].at \in stages

\* Fault: the deletion forgets take_secret_exclusive_lock.
NeverHeld(n) == FALSE

\* The exclusive side of the name's advisory lock.
ExclusiveHeld(n) == Deleting(n, {"locked", "deleted"})

\* The shared side, held by every transaction minting a grant on a stored row.
SharedHeld(n) ==
    \E r \in Request : /\ mints[r] # Null
                       /\ mints[r].at = "locked"
                       /\ mints[r].kind # "passthrough"
                       /\ mints[r].name = n

\* An uncommitted DELETE blocks every other writer of the row and of its name.
RowLocked(n) == Deleting(n, {"deleted"})

-----------------------------------------------------------------------------
(* The secret store.                                                       *)

Writable(n) == secrets[n] # Null /\ ~RowLocked(n)

\* Fault: an upsert, the name is taken over from whoever holds it.
UpsertFree(n) == ~RowLocked(n)

\* INSERT ... ON CONFLICT (name) DO NOTHING inserts.
Free(n) == secrets[n] = Null /\ ~RowLocked(n)

NewRow(vetted) == [id |-> lastId + 1, version |-> 1, vetted |-> vetted, enabled |-> TRUE]

Insert(n, vetted) ==
    /\ lastId < MaxId
    /\ Free(n)
    /\ secrets' = [secrets EXCEPT ![n] = NewRow(vetted)]
    /\ lastId' = lastId + 1

\* Fault: operator_vetted is left at its column default, true.
DepositDefault(n) ==
    /\ Insert(n, TRUE)
    /\ UNCHANGED <<typed, forms, requests, pages, mints, grants, deletes>>

\* create_secret_from_client: nobody has looked at these bytes.
Deposit(n) ==
    /\ Insert(n, FALSE)
    /\ UNCHANGED <<typed, forms, requests, pages, mints, grants, deletes>>

\* create_secret_with_version: the operator typed them.
Create(n) ==
    /\ Insert(n, TRUE)
    /\ typed' = typed \cup {<<lastId + 1, 1>>}
    /\ UNCHANGED <<forms, requests, pages, mints, grants, deletes>>

\* rotate_secret_version.
Rotate(n) ==
    /\ Writable(n)
    /\ secrets[n].version < MaxVersion
    /\ secrets' = [secrets EXCEPT ![n].version = @ + 1, ![n].vetted = TRUE]
    /\ typed' = typed \cup {<<secrets[n].id, secrets[n].version + 1>>}
    /\ UNCHANGED <<forms, lastId, requests, pages, mints, grants, deletes>>

\* update_secret_settings_audited: the vetting flag is left alone.
UpdateSettings(n) ==
    /\ Writable(n)
    /\ secrets' = [secrets EXCEPT ![n].enabled = ~@]
    /\ UNCHANGED <<lastId, typed, forms, requests, pages, mints, grants, deletes>>

\* review_secret: the page of an unvetted secret carries the form that vets the
\* version it is about, whether or not the operator had the bytes revealed on it.
Review(n) ==
    LET page == <<secrets[n].id, secrets[n].version>> IN
    /\ secrets[n] # Null
    /\ ~secrets[n].vetted
    /\ forms' = forms \cup {page}
    /\ UNCHANGED <<secrets, lastId, typed, requests, pages, mints, grants, deletes>>

\* Fault: the confirmation names the secret instead of the row.
ReviewedByName(n, page) == page[2] = secrets[n].version

\* WHERE id = $1 AND current_version = $2, from the review page's form.
Reviewed(n, page) == page = <<secrets[n].id, secrets[n].version>>

\* mark_secret_vetted, with the form of any review page opened before.
MarkReviewed(n) ==
    /\ Writable(n)
    /\ ~secrets[n].vetted
    /\ \E page \in forms : Reviewed(n, page)
    /\ secrets' = [secrets EXCEPT ![n].vetted = TRUE]
    /\ UNCHANGED <<lastId, typed, forms, requests, pages, mints, grants, deletes>>

-----------------------------------------------------------------------------
(* Decisions to mint.                                                      *)

\* create, when policy asks for a decision or the clamp on unknown and
\* unvetted secrets forces one.
SubmitPending(r) ==
    /\ requests[r] = "new"
    /\ mints[r] = Null
    /\ requests' = [requests EXCEPT ![r] = "pending"]
    /\ UNCHANGED <<secrets, lastId, typed, forms, pages, mints, grants, deletes>>

Decided(kind, auto, name, id, shown) ==
    [at |-> "begin", kind |-> kind, auto |-> auto, name |-> name, id |-> id, shown |-> shown]

\* Fault: an unvetted secret satisfies a standing policy.
AutoApprovableUnvetted(row) == row.enabled

\* evaluate: auto approval needs a vetted row that may serve the mechanism.
AutoApprovable(row) == row.enabled /\ row.vetted

\* create, when a standing policy approves: the row policy was evaluated
\* against is pinned, and the transaction follows.
AutoDecide(r) ==
    LET n == Asked[r] IN
    /\ requests[r] = "new"
    /\ mints[r] = Null
    /\ secrets[n] # Null
    /\ AutoApprovable(secrets[n])
    /\ mints' = [mints EXCEPT ![r] = Decided("stored", TRUE, n, secrets[n].id, secrets[n].id)]
    /\ UNCHANGED <<secrets, lastId, typed, forms, requests, pages, grants, deletes>>

\* The approval page shows the asked-for row, or else the enabled rows that
\* could be released in its place.
Page(r) ==
    [n \in Name |->
        IF secrets[n] # Null
           /\ (n = Asked[r] \/ (secrets[Asked[r]] = Null /\ secrets[n].enabled))
        THEN [id |-> secrets[n].id, version |-> secrets[n].version] ELSE Null]

Render(r) ==
    /\ requests[r] = "pending"
    /\ pages[r] # Page(r)
    /\ pages' = [pages EXCEPT ![r] = Page(r)]
    /\ UNCHANGED <<secrets, lastId, typed, forms, requests, mints, grants, deletes>>

\* approve: pending, a page was rendered, and no other submission of it.
Submittable(r) == requests[r] = "pending" /\ pages[r] # Null /\ mints[r] = Null

\* The submitted marker names the version shown, and the live row has it.
MarkerMatches(r, n) ==
    /\ pages[r][n] # Null
    /\ secrets[n] # Null
    /\ pages[r][n].version = secrets[n].version

Approve(r, mint) ==
    /\ mints' = [mints EXCEPT ![r] = mint]
    /\ UNCHANGED <<secrets, lastId, typed, forms, requests, pages, grants, deletes>>

\* approve, stored form (n is the asked name) or substitution (n another one,
\* possible only while the asked name stays absent).
ApproveStored(r, n) ==
    /\ Submittable(r)
    /\ n # Asked[r] => pages[r][Asked[r]] = Null /\ secrets[Asked[r]] = Null
    /\ MarkerMatches(r, n)
    /\ secrets[n].enabled
    /\ Approve(r, Decided("stored", FALSE, n, secrets[n].id, pages[r][n].id))

\* approve, value form: marker "0", and the value is typed in; either stored
\* along with the approval or carried by the grant.
ApproveValue(r, kind) ==
    /\ Submittable(r)
    /\ pages[r][Asked[r]] = Null
    /\ secrets[Asked[r]] = Null
    /\ Approve(r, Decided(kind, FALSE, Asked[r], Null, Null))

-----------------------------------------------------------------------------
(* approve_request and the auto-approval leg of insert_access_request_with_id. *)

EndMint(r) == mints' = [mints EXCEPT ![r] = Null]

\* Fault: some secret of that name exists.
SameName(m) == secrets[m.name] # Null

\* secret_incarnation_exists.
SameRow(m) == secrets[m.name] # Null /\ secrets[m.name].id = m.id

\* take_secret_shared_lock, then the incarnation check for a stored row.
LockSecret(r) ==
    /\ mints[r] # Null
    /\ mints[r].at = "begin"
    /\ mints[r].kind # "passthrough" => ~ExclusiveHeld(mints[r].name)
    /\ \/ /\ mints[r].kind = "stored" => SameRow(mints[r])
          /\ mints' = [mints EXCEPT ![r].at = "locked"]
       \/ /\ mints[r].kind = "stored" /\ ~SameRow(mints[r])
          /\ EndMint(r)
    /\ UNCHANGED <<secrets, lastId, typed, forms, requests, pages, grants, deletes>>

\* The request is resolved by this transaction (an auto approval creates it).
Resolvable(r) == requests[r] = IF mints[r].auto THEN "new" ELSE "pending"

MintGrant(r, id) ==
    LET m == mints[r] IN
    /\ requests' = [requests EXCEPT ![r] = "approved"]
    /\ grants' = [grants EXCEPT ![r] =
                    [kind |-> m.kind, auto |-> m.auto, name |-> m.name,
                     id |-> id, shown |-> m.shown, dead |-> FALSE]]
    /\ pages' = [pages EXCEPT ![r] = Null]

\* Resolve the request, insert the secret if it is to be stored, insert the
\* grant and commit, releasing the locks.
CommitMint(r) ==
    /\ mints[r] # Null
    /\ mints[r].at = "locked"
    /\ Resolvable(r)
    /\ \/ /\ mints[r].kind = "store"
          /\ Insert(mints[r].name, TRUE)
          /\ typed' = typed \cup {<<lastId + 1, 1>>}
          /\ MintGrant(r, lastId + 1)
       \/ /\ mints[r].kind # "store"
          /\ MintGrant(r, mints[r].id)
          /\ UNCHANGED <<secrets, lastId, typed>>
    /\ EndMint(r)
    /\ UNCHANGED <<forms, deletes>>

\* NotApprovable, SecretNameTaken, an error or a crash: nothing is written.
RollbackMint(r) ==
    /\ mints[r] # Null
    /\ EndMint(r)
    /\ UNCHANGED <<secrets, lastId, typed, forms, requests, pages, grants, deletes>>

\* resolve_deny, expire_stale.
Deny(r) ==
    /\ requests[r] = "pending"
    /\ requests' = [requests EXCEPT ![r] = "denied"]
    /\ pages' = [pages EXCEPT ![r] = Null]
    /\ UNCHANGED <<secrets, lastId, typed, forms, mints, grants, deletes>>

\* revoke_grant, expiry.
Revoke(r) ==
    /\ grants[r] # Null
    /\ ~grants[r].dead
    /\ grants' = [grants EXCEPT ![r].dead = TRUE]
    /\ UNCHANGED <<secrets, lastId, typed, forms, requests, pages, mints, deletes>>

-----------------------------------------------------------------------------
(* delete_secret_audited.                                                  *)

\* delete_secret_page: the confirmation form is bound to the row and version.
ConfirmDelete(d, n) ==
    /\ deletes[d] = Null
    /\ secrets[n] # Null
    /\ deletes' = [deletes EXCEPT ![d] =
                    [at |-> "confirm", name |-> n, id |-> secrets[n].id,
                     version |-> secrets[n].version, revoke |-> {}]]
    /\ UNCHANGED <<secrets, lastId, typed, forms, requests, pages, mints, grants>>

\* take_secret_exclusive_lock on the name that the row has.
LockDelete(d) ==
    /\ deletes[d] # Null
    /\ deletes[d].at = "confirm"
    /\ secrets[deletes[d].name] # Null
    /\ secrets[deletes[d].name].id = deletes[d].id
    /\ ~SharedHeld(deletes[d].name)
    /\ ~ExclusiveHeld(deletes[d].name)
    /\ deletes' = [deletes EXCEPT ![d].at = "locked"]
    /\ UNCHANGED <<secrets, lastId, typed, forms, requests, pages, mints, grants>>

\* Fault: the version on the confirmation page is not compared.
StillThere(del) == secrets[del.name] # Null /\ secrets[del.name].id = del.id

\* DELETE ... WHERE id = $1 AND current_version = $2.
StillAsShown(del) ==
    /\ secrets[del.name] # Null
    /\ secrets[del.name].id = del.id
    /\ secrets[del.name].version = del.version

\* The grants that the bulk revocation finds.
RevokedWith(n) ==
    {r \in Request : /\ grants[r] # Null
                     /\ grants[r].name = n
                     /\ ~grants[r].dead
                     /\ grants[r].kind # "passthrough"}

\* The two statements, uncommitted; without a match nothing is written.
DeleteRow(d) ==
    LET del == deletes[d] IN
    /\ del # Null
    /\ del.at = "locked"
    /\ deletes' = [deletes EXCEPT ![d] =
                    IF StillAsShown(del)
                    THEN [del EXCEPT !.at = "deleted", !.revoke = RevokedWith(del.name)]
                    ELSE Null]
    /\ UNCHANGED <<secrets, lastId, typed, forms, requests, pages, mints, grants>>

CommitDelete(d) ==
    /\ deletes[d] # Null
    /\ deletes[d].at = "deleted"
    /\ secrets' = [secrets EXCEPT ![deletes[d].name] = Null]
    /\ grants' = [r \in Request |-> IF r \in deletes[d].revoke
                                    THEN [grants[r] EXCEPT !.dead = TRUE] ELSE grants[r]]
    /\ deletes' = [deletes EXCEPT ![d] = Null]
    /\ UNCHANGED <<lastId, typed, forms, requests, pages, mints>>

\* Stale, an error, a crash, or a page that is never confirmed.
RollbackDelete(d) ==
    /\ deletes[d] # Null
    /\ deletes' = [deletes EXCEPT ![d] = Null]
    /\ UNCHANGED <<secrets, lastId, typed, forms, requests, pages, mints, grants>>

-----------------------------------------------------------------------------
StoreStep(n) ==
    \/ Deposit(n) \/ Create(n) \/ Rotate(n) \/ UpdateSettings(n)
    \/ Review(n) \/ MarkReviewed(n)

RequestStep(r) ==
    \/ SubmitPending(r) \/ AutoDecide(r) \/ Render(r)
    \/ \E n \in Name : ApproveStored(r, n)
    \/ \E kind \in {"store", "passthrough"} : ApproveValue(r, kind)
    \/ LockSecret(r) \/ CommitMint(r) \/ RollbackMint(r) \/ Deny(r) \/ Revoke(r)

DeleteStep(d) ==
    \/ \E n \in Name : ConfirmDelete(d, n)
    \/ LockDelete(d) \/ DeleteRow(d) \/ CommitDelete(d) \/ RollbackDelete(d)

Next ==
    \/ \E n \in Name : StoreStep(n)
    \/ \E r \in Request : RequestStep(r)
    \/ \E d \in Operator : DeleteStep(d)

Spec == Init /\ [][Next]_vars

-----------------------------------------------------------------------------
(* Properties.                                                             *)

LiveStored(r) == grants[r] # Null /\ ~grants[r].dead /\ grants[r].kind # "passthrough"

(***************************************************************************)
(* NoOrphanGrant: the row a live stored grant was minted against is still  *)
(* the row under the grant's name.  Deletion and minting cannot pass each  *)
(* other, and a name that was reused in between is refused                 *)
(* (take_secret_shared_lock, secret_incarnation_exists,                    *)
(* delete_secret_audited).                                                 *)
(***************************************************************************)
NoOrphanGrant ==
    \A r \in Request :
        LiveStored(r) => /\ secrets[grants[r].name] # Null
                         /\ secrets[grants[r].name].id = grants[r].id

(***************************************************************************)
(* AutoReleasesVetted: what an automatically approved grant would release  *)
(* now is a row an operator has vetted, even when the name changed hands   *)
(* between the policy decision and the insert.                             *)
(***************************************************************************)
AutoReleasesVetted ==
    \A r \in Request :
        LiveStored(r) /\ grants[r].auto => secrets[grants[r].name].vetted

(***************************************************************************)
(* VettedAsReviewed: a row counts as vetted only at a version that an      *)
(* operator typed, or that a review page of this very row was about, with  *)
(* the depositor, the settings and the policies it would activate: a       *)
(* confirmation carries over neither to a rotated version nor to another   *)
(* row under a reused name (mark_secret_vetted).                           *)
(***************************************************************************)
VettedAsReviewed ==
    \A n \in Name : secrets[n] # Null /\ secrets[n].vetted
        => <<secrets[n].id, secrets[n].version>> \in typed \cup forms

(***************************************************************************)
(* NamesNotTakenOver: a name passes to another row only through a          *)
(* deletion; no deposit, creation or approval that stores its secret       *)
(* replaces bytes, and versions never go back ("a client can never replace *)
(* credential bytes an operator already reviewed").                        *)
(***************************************************************************)
NamesNotTakenOver ==
    [][\A n \in Name : secrets[n] # Null /\ secrets'[n] # Null
           => /\ secrets'[n].id = secrets[n].id
              /\ secrets'[n].version >= secrets[n].version]_vars

(***************************************************************************)
(* DestroyedAsConfirmed: a row disappears only at the version that its     *)
(* confirmation page displayed, however the row was rotated, deleted or    *)
(* re-created between page, lock and commit.                               *)
(***************************************************************************)
DestroyedAsConfirmed ==
    [][\A n \in Name : secrets[n] # Null /\ secrets'[n] = Null
           => \E d \in Operator : /\ deletes[d] # Null
                                  /\ deletes[d].id = secrets[n].id
                                  /\ deletes[d].version = secrets[n].version]_vars

(***************************************************************************)
(* ApprovedAsShown: an operator's approval of a stored secret is a grant   *)
(* on the very row the approval page displayed ("GrantParams carries       *)
(* secret_id, the row the decision was actually taken about").             *)
(***************************************************************************)
ApprovedAsShown ==
    \A r \in Request :
        grants[r] # Null /\ grants[r].kind = "stored" => grants[r].id = grants[r].shown
=============================================================================
