------------------------------ MODULE Requests ------------------------------
(***************************************************************************)
(* The life of an access request: idempotent creation under a pending cap  *)
(* (server/src/api/requests.rs, db/api_ext.rs), approval and denial by an  *)
(* operator (ui/mod.rs, db/ui_ext.rs, db/requests.rs), and the sweeper's   *)
(* expiry and purge phases (notify/mod.rs).                                *)
(*                                                                         *)
(* All requests are those of one client: keys, cap and lock are per        *)
(* client.  (idem_client, idem_key) is unique and rows are never deleted,  *)
(* so a row is named by its key; its id tells apart the attempts to create *)
(* it.  Creation is one transaction, modelled by the statements that other *)
(* transactions can tell apart; BEGIN fixes its now().                     *)
(*                                                                         *)
(* Left out: what policy looks at (its decision and expiry are arbitrary,  *)
(* see Secrets and the policy engine), the secret a grant is minted for    *)
(* (its locks only delay or roll back a transaction here), notifications,  *)
(* and waiting clients.                                                    *)
(***************************************************************************)
EXTENDS Integers, FiniteSets

CONSTANTS
    Key,         \* idempotency keys
    Mac,         \* idem_mac values: one per distinct request payload
    Create,      \* create handlers in flight together
    Operator,    \* approve and deny handlers in flight together
    Cap,         \* limits.max_pending_per_client
    Expiry,      \* limits.request_expiry_seconds
    Ttl,         \* ttl_seconds of every request
    Retention,   \* CONTEXT_RETENTION_HOURS
    Lifetimes,   \* remaining lifetimes of the policy row that may match
    MaxTime,     \* bound: the clock runs past it only to let rows age
    MaxId,       \* bound: attempts to create a request
    Null

ASSUME ConstantsAssumption ==
    /\ IsFiniteSet(Key)
    /\ Cap \in Nat
    /\ Expiry \in Nat
    /\ Ttl \in Nat
    /\ Retention \in Nat
    /\ Lifetimes \subseteq Nat
    /\ MaxTime \in Nat
    /\ MaxId \in Nat
    /\ Null \notin Nat

VARIABLES
    now,     \* the database clock
    rows,    \* access_requests: the committed row of each key, or Null
    lastId,  \* last request id generated
    calls,   \* create handlers in flight
    acts,    \* approve and deny handlers in flight
    told     \* history: the requests that clients were answered about

vars == <<now, rows, lastId, calls, acts, told>>

-----------------------------------------------------------------------------
State == {"pending", "approved", "denied", "expired"}

\* grant is the deadline of the request's grant; context stands for the
\* encrypted context columns.
Row == [id : Nat, mac : Mac, state : State, expires : Nat,
        cap : Nat \cup {Null}, grant : Nat \cup {Null},
        resolved : Nat \cup {Null}, context : BOOLEAN]

Decision == {"pending", "denied", "approved"}

CallState == [at : {"lookup", "evaluate", "begin", "lock", "insert", "check", "commit", "respond"},
              key : Key, mac : Mac, decision : Decision, id : Nat,
              expires : Nat, cap : Nat \cup {Null}, txNow : Nat]

ActState == [at : {"begin", "update"}, key : Key, kind : {"approved", "denied"},
             grant : Nat \cup {Null}, txNow : Nat]

ASSUME NullAssumption == Null \notin Row \cup CallState \cup ActState

TypeOK ==
    /\ now \in Nat
    /\ rows \in [Key -> Row \cup {Null}]
    /\ lastId \in Nat
    /\ calls \in [Create -> CallState \cup {Null}]
    /\ acts \in [Operator -> ActState \cup {Null}]
    /\ told \in SUBSET [key : Key, mac : Mac, id : Nat]

Init ==
    /\ now = 0
    /\ rows = [k \in Key |-> Null]
    /\ lastId = 0
    /\ calls = [c \in Create |-> Null]
    /\ acts = [o \in Operator |-> Null]
    /\ told = {}

-----------------------------------------------------------------------------
\* Fault: the grant outlives the policy row it was issued under.
DeadlineUncapped(t, cap) == t + Ttl

\* not_after of a grant decided at t: min(t + ttl, policy_not_after).
Deadline(t, cap) == IF cap # Null /\ cap < t + Ttl THEN cap ELSE t + Ttl

Pending(k) == rows[k] # Null /\ rows[k].state = "pending"

EndCall(c) == calls' = [calls EXCEPT ![c] = Null]

In(c, step) == calls[c] # Null /\ calls[c].at = step

-----------------------------------------------------------------------------
(* create.                                                                 *)

Arrive(c, k, m) ==
    /\ calls[c] = Null
    /\ calls' = [calls EXCEPT ![c] =
                    [at |-> "lookup", key |-> k, mac |-> m, decision |-> "pending",
                     id |-> 0, expires |-> 0, cap |-> Null, txNow |-> 0]]
    /\ UNCHANGED <<now, rows, lastId, acts, told>>

\* Fault: whatever was stored under the key answers the retry.
AnyPayload(c) == TRUE

\* ct_eq(row.idem_mac, idem_mac): anything else is IdempotencyKeyReuse.
SamePayload(c) == rows[calls[c].key].mac = calls[c].mac

\* The committed row under the key answers the call.
AnswerExisting(c) ==
    LET k == calls[c].key IN
    /\ told' = IF SamePayload(c)
               THEN told \cup {[key |-> k, mac |-> calls[c].mac, id |-> rows[k].id]}
               ELSE told
    /\ EndCall(c)

\* get_request_by_idem, before validation and policy.
Lookup(c) ==
    /\ In(c, "lookup")
    /\ \/ rows[calls[c].key] # Null /\ AnswerExisting(c)
       \/ /\ rows[calls[c].key] = Null
          /\ calls' = [calls EXCEPT ![c].at = "evaluate"]
          /\ UNCHANGED told
    /\ UNCHANGED <<now, rows, lastId, acts>>

\* Policy is evaluated at eval_now, from which the deadlines are computed; a
\* matching row has not expired.
Evaluate(c) ==
    /\ In(c, "evaluate")
    /\ lastId < MaxId
    /\ lastId' = lastId + 1
    /\ \E decision \in Decision, left \in Lifetimes \cup {Null} :
        calls' = [calls EXCEPT
                    ![c].at = "begin", ![c].decision = decision, ![c].id = lastId + 1,
                    ![c].expires = now + Expiry,
                    ![c].cap = IF left = Null THEN Null ELSE now + left]
    /\ UNCHANGED <<now, rows, acts, told>>

\* insert_access_request_with_id: BEGIN, then the secret and KEK locks.
BeginInsert(c) ==
    /\ In(c, "begin")
    /\ calls' = [calls EXCEPT ![c].at = "lock", ![c].txNow = now]
    /\ UNCHANGED <<now, rows, lastId, acts, told>>

\* Fault: creations of one client are not serialised.
NeverLocked(c) == TRUE

\* keychute-pending-<client>: held until commit by creations that stay pending.
PendingLockFree(c) ==
    \A d \in Create \ {c} :
        ~(calls[d] # Null /\ calls[d].decision = "pending" /\ calls[d].at \in {"insert", "check", "commit"})

LockPending(c) ==
    /\ In(c, "lock")
    /\ calls[c].decision = "pending" => PendingLockFree(c)
    /\ calls' = [calls EXCEPT ![c].at = "insert"]
    /\ UNCHANGED <<now, rows, lastId, acts, told>>

\* The row of this transaction is inserted, and visible to no other one yet.
Uncommitted(c) == In(c, "check") \/ In(c, "commit")

\* INSERT ... ON CONFLICT DO NOTHING waits for another uncommitted insert of
\* the key; a committed one answers the call (Existing).
Insert(c) ==
    /\ In(c, "insert")
    /\ ~\E d \in Create \ {c} : Uncommitted(d) /\ calls[d].key = calls[c].key
    /\ \/ rows[calls[c].key] # Null /\ AnswerExisting(c)
       \/ /\ rows[calls[c].key] = Null
          /\ calls' = [calls EXCEPT ![c].at = "check"]
          /\ UNCHANGED told
    /\ UNCHANGED <<now, rows, lastId, acts>>

\* Rows the cap counts: pending AND now() < expires_at, the transaction's now()
\* and what is committed, the new row included.
Counted(c) ==
    Cardinality({k \in Key : Pending(k) /\ calls[c].txNow < rows[k].expires})
        + (IF calls[c].txNow < calls[c].expires THEN 1 ELSE 0)

\* The pending cap, or for an automatic approval the recheck of its deadline.
Admitted(c) ==
    CASE calls[c].decision = "pending"  -> Counted(c) <= Cap
      [] calls[c].decision = "approved" ->
            calls[c].txNow < Deadline(calls[c].expires - Expiry, calls[c].cap)
      [] OTHER -> TRUE

NewRow(p) ==
    [id |-> p.id, mac |-> p.mac, state |-> p.decision, expires |-> p.expires, cap |-> p.cap,
     grant |-> IF p.decision = "approved" THEN Deadline(p.expires - Expiry, p.cap) ELSE Null,
     resolved |-> IF p.decision = "pending" THEN Null ELSE p.txNow,
     context |-> TRUE]

\* PendingCapExceeded, or the deadline elapsed: nothing is written.
Check(c) ==
    /\ In(c, "check")
    /\ \/ Admitted(c) /\ calls' = [calls EXCEPT ![c].at = "commit"]
       \/ ~Admitted(c) /\ EndCall(c)
    /\ UNCHANGED <<now, rows, lastId, acts, told>>

\* Creation and the decision policy already took commit together.
CommitInsert(c) ==
    /\ In(c, "commit")
    /\ rows' = [rows EXCEPT ![calls[c].key] = NewRow(calls[c])]
    /\ calls' = [calls EXCEPT ![c].at = "respond", ![c].expires = 0, ![c].cap = Null, ![c].txNow = 0]
    /\ UNCHANGED <<now, lastId, acts, told>>

\* The answer names the request created, whatever happened to the row since;
\* PolicyDenied names none.
Respond(c) ==
    LET p == calls[c] IN
    /\ In(c, "respond")
    /\ told' = IF p.decision = "denied" THEN told
               ELSE told \cup {[key |-> p.key, mac |-> p.mac, id |-> p.id]}
    /\ EndCall(c)
    /\ UNCHANGED <<now, rows, lastId, acts>>

\* Validation or a database error, the caller gone, or the secret changed
\* identity: an open transaction rolls back.
Abandon(c) ==
    /\ calls[c] # Null
    /\ EndCall(c)
    /\ UNCHANGED <<now, rows, lastId, acts, told>>

-----------------------------------------------------------------------------
(* The operator.                                                           *)

\* approve: pending, unexpired, and the policy cap not elapsed; the deadline
\* is computed here, with a ttl the operator may have narrowed.
StartApprove(o, k) ==
    /\ acts[o] = Null
    /\ Pending(k)
    /\ now < rows[k].expires
    /\ rows[k].cap # Null => now < rows[k].cap
    /\ \E narrowed \in 0..(Ttl - 1) :
        acts' = [acts EXCEPT ![o] =
                    [at |-> "begin", key |-> k, kind |-> "approved",
                     grant |-> Deadline(now - narrowed, rows[k].cap), txNow |-> 0]]
    /\ UNCHANGED <<now, rows, lastId, calls, told>>

\* deny: nothing is looked up first, the page may be stale.
StartDeny(o, k) ==
    /\ acts[o] = Null
    /\ rows[k] # Null
    /\ acts' = [acts EXCEPT ![o] =
                    [at |-> "begin", key |-> k, kind |-> "denied", grant |-> Null, txNow |-> 0]]
    /\ UNCHANGED <<now, rows, lastId, calls, told>>

\* BEGIN; in approve_request the secret and KEK locks come next.
BeginAct(o) ==
    /\ acts[o] # Null
    /\ acts[o].at = "begin"
    /\ acts' = [acts EXCEPT ![o].at = "update", ![o].txNow = now]
    /\ UNCHANGED <<now, rows, lastId, calls, told>>

\* Fault: a request that was decided already is decided again.
ResolvableTwice(a) ==
    /\ a.txNow < rows[a.key].expires
    /\ a.kind = "approved" => a.txNow < a.grant

\* state = 'pending' AND now() < expires_at, and for an approval also
\* now() < not_after: the transaction's now().
Resolvable(a) ==
    /\ Pending(a.key)
    /\ a.txNow < rows[a.key].expires
    /\ a.kind = "approved" => a.txNow < a.grant

\* approve_request and resolve_deny; without a match nothing is written.
Update(o) ==
    LET a == acts[o] IN
    /\ a # Null
    /\ a.at = "update"
    /\ rows' = IF Resolvable(a)
               THEN [rows EXCEPT ![a.key].state = a.kind, ![a.key].grant = a.grant,
                                 ![a.key].resolved = a.txNow]
               ELSE rows
    /\ acts' = [acts EXCEPT ![o] = Null]
    /\ UNCHANGED <<now, lastId, calls, told>>

\* SecretGone, SecretNameTaken, an error: the transaction rolls back.
RollbackAct(o) ==
    /\ acts[o] # Null
    /\ acts' = [acts EXCEPT ![o] = Null]
    /\ UNCHANGED <<now, rows, lastId, calls, told>>

-----------------------------------------------------------------------------
(* The sweeper, restarts and time.                                         *)

Stale(k) == Pending(k) /\ rows[k].expires < now

\* Fault: an expired row does not record when it was resolved.
ExpiredUndated(row) == [row EXCEPT !.state = "expired"]

Expired(row) == [row EXCEPT !.state = "expired", !.resolved = now]

\* expire_stale, one UPDATE over all rows.
ExpireStale ==
    /\ \E k \in Key : Stale(k)
    /\ rows' = [k \in Key |-> IF Stale(k) THEN Expired(rows[k]) ELSE rows[k]]
    /\ UNCHANGED <<now, lastId, calls, acts, told>>

Purgeable(k) ==
    /\ rows[k] # Null
    /\ rows[k].context
    /\ rows[k].state # "pending"
    /\ rows[k].resolved # Null
    /\ rows[k].resolved < now - Retention

\* purge_request_context.
PurgeContext ==
    /\ \E k \in Key : Purgeable(k)
    /\ rows' = [k \in Key |-> IF Purgeable(k) THEN [rows[k] EXCEPT !.context = FALSE] ELSE rows[k]]
    /\ UNCHANGED <<now, lastId, calls, acts, told>>

\* The process dies: handlers in flight and their open transactions are gone.
Restart ==
    /\ (\E c \in Create : calls[c] # Null) \/ (\E o \in Operator : acts[o] # Null)
    /\ calls' = [c \in Create |-> Null]
    /\ acts' = [o \in Operator |-> Null]
    /\ UNCHANGED <<now, rows, lastId, told>>

\* Something still waits for the clock.
Aging(k) ==
    /\ rows[k] # Null
    /\ rows[k].context
    /\ IF rows[k].state = "pending" THEN now <= rows[k].expires
       ELSE rows[k].resolved # Null /\ now <= rows[k].resolved + Retention

Tick ==
    /\ now < MaxTime \/ \E k \in Key : Aging(k)
    /\ now' = now + 1
    /\ UNCHANGED <<rows, lastId, calls, acts, told>>

CreateStep(c) ==
    \/ \E k \in Key, m \in Mac : Arrive(c, k, m)
    \/ Lookup(c) \/ Evaluate(c) \/ BeginInsert(c) \/ LockPending(c) \/ Insert(c)
    \/ Check(c) \/ CommitInsert(c) \/ Respond(c) \/ Abandon(c)

OperatorStep(o) ==
    \/ \E k \in Key : StartApprove(o, k) \/ StartDeny(o, k)
    \/ BeginAct(o) \/ Update(o) \/ RollbackAct(o)

Next ==
    \/ \E c \in Create : CreateStep(c)
    \/ \E o \in Operator : OperatorStep(o)
    \/ ExpireStale \/ PurgeContext \/ Restart \/ Tick

Spec == Init /\ [][Next]_vars

\* The sweeper runs for the life of the process and time passes; clients and
\* operators owe nothing.
FairSpec == Spec /\ WF_vars(ExpireStale) /\ WF_vars(PurgeContext) /\ WF_vars(Tick)

-----------------------------------------------------------------------------
(* Properties.                                                             *)

(***************************************************************************)
(* PendingCapHolds: a client never has more than max_pending_per_client    *)
(* requests that an operator could still decide, however its creations     *)
(* interleave and although each counts at its own transaction's now()      *)
(* (insert_access_request_with_id).                                        *)
(***************************************************************************)
PendingCapHolds ==
    Cardinality({k \in Key : Pending(k) /\ now < rows[k].expires}) <= Cap

(***************************************************************************)
(* OneRequestPerKey: every status a client is answered with under one      *)
(* idempotency key is about one payload and one request, whether the       *)
(* handler created it, found it, or lost the race to create it.            *)
(***************************************************************************)
OneRequestPerKey ==
    \A s, t \in told : s.key = t.key => s.mac = t.mac /\ s.id = t.id

(***************************************************************************)
(* DecidedOnce: the first decision about a request is the only one: a      *)
(* terminal state and its grant never change, so no status that reported   *)
(* one is ever contradicted (approve_request, resolve_deny and             *)
(* expire_stale racing each other).                                        *)
(***************************************************************************)
DecidedOnce ==
    [][\A k \in Key : rows[k] # Null /\ rows[k].state # "pending"
           => rows'[k] \in {rows[k], [rows[k] EXCEPT !.context = FALSE]}]_vars

(***************************************************************************)
(* GrantCapped: a grant ends no later than the policy row its request      *)
(* matched, and no later than ttl after the request could be approved,     *)
(* whether policy or an operator approved it.                              *)
(***************************************************************************)
GrantCapped ==
    \A k \in Key :
        rows[k] # Null /\ rows[k].grant # Null
            => /\ rows[k].state = "approved"
               /\ rows[k].cap # Null => rows[k].grant <= rows[k].cap
               /\ rows[k].grant <= rows[k].expires + Ttl

(***************************************************************************)
(* SettledAndForgotten: every request is eventually decided or expired,    *)
(* and its context is eventually purged, restarts included (expire_phase,  *)
(* purge_phase).                                                           *)
(***************************************************************************)
SettledAndForgotten ==
    \A k \in Key :
        rows[k] # Null ~> rows[k] # Null /\ rows[k].state # "pending" /\ ~rows[k].context

(***************************************************************************)
(* NotBornExpired: the recheck of a grant's deadline, in approve_request   *)
(* and in the automatic approval, passes only while the grant can still be *)
(* used (the handler "computed it before waiting on the KEK advisory lock  *)
(* and sealing, and approving past it would hand the client an approved    *)
(* status whose grant can only ever return grant-expired").                *)
(***************************************************************************)
NotBornExpired ==
    [][/\ \A k \in Key :
            Pending(k) /\ rows'[k].state = "approved" => now < rows'[k].grant
       /\ \A c \in Create :
            In(c, "check") /\ calls'[c] # Null /\ calls[c].decision = "approved"
                => now < Deadline(calls[c].expires - Expiry, calls[c].cap)]_vars
=============================================================================
