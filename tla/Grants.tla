------------------------------- MODULE Grants -------------------------------
(***************************************************************************)
(* Grants: durable capabilities with atomic use accounting and idempotent  *)
(* replay (server/src/db/grants.rs), as the two handlers that use them     *)
(* drive it: POST /v1/grants/{id}/read (server/src/api/grants.rs) and the  *)
(* brokered proxy (server/src/proxy.rs).                                   *)
(*                                                                         *)
(* A handler is a sequence of separate database statements, so each call   *)
(* in flight keeps the row snapshots it has taken so far.  begin_grant_use *)
(* is one transaction that holds the grant row's lock: Begin fixes the     *)
(* transaction's now() (in Postgres, the time of BEGIN) and Use is the     *)
(* part under the lock, which may run at a later instant.                  *)
(*                                                                         *)
(* Left out: the bytes of payloads (a payload is named by its version row, *)
(* or by Passthrough when the grant carries its own), authentication and   *)
(* ownership of the grant (a call arrives only for its owner), and the     *)
(* proxy's checks of method, path and body, which only end the call.       *)
(***************************************************************************)
EXTENDS Integers, FiniteSets

CONSTANTS
    Grant,          \* grant ids
    Key,            \* idempotency keys of read calls
    Call,           \* handler invocations that can be in flight together
    ReleaseLimits,  \* max_uses values of releasing grants ({1} since v1)
    ProxyLimits,    \* max_uses values of brokered grants, Unlimited included
    ReplayWindow,   \* limits.replay_window_seconds
    MaxTime,        \* bound: last instant of the database clock
    MaxVersions,    \* bound: version rows ever written for the secret
    MaxEpochs,      \* bound: process starts
    MaxSends,       \* bound: uses of an unlimited brokered grant
    Unlimited,      \* SQL NULL in grants.max_uses
    Null,           \* SQL NULL in any other column
    Passthrough     \* payload name: the grant's own sealed payload

ASSUME ConstantsAssumption ==
    /\ IsFiniteSet(Key)
    /\ IsFiniteSet(Call)
    /\ ReplayWindow \in Nat
    /\ MaxTime \in Nat
    /\ MaxVersions \in Nat
    /\ MaxEpochs \in Nat
    /\ MaxSends \in Nat
    /\ ReleaseLimits \subseteq Nat
    /\ ProxyLimits \subseteq Nat \cup {Unlimited}
    /\ Unlimited \notin Nat
    /\ Null \notin Nat
    /\ Passthrough \notin Nat
    /\ Null # Passthrough
    /\ Null # Unlimited
    /\ Null \notin Key

VARIABLES
    now,        \* the database clock
    grant,      \* grants: the columns fixed when the row is inserted, or Null
    use_count,  \* grants.use_count
    revoked,    \* grants.revoked
    sealed,     \* grants.passthrough_ciphertext: epoch of its KEK, or Null
    reads,      \* grant_reads: replay state of each (grant, key), or Null
    current,    \* secrets row of the grants' secret name: current version row
    versions,   \* secret_versions: version rows that exist
    minted,     \* last version row id handed out
    epoch,      \* process starts so far: identifies the ephemeral KEK
    calls,      \* handler invocations in flight
    audit,      \* audit_log: write-ahead rows, as <<grant, payload>>
    released,   \* history: responses that carried a payload <<grant, key, payload>>
    sends,      \* history: upstream requests sent with the credential injected
    answer      \* history: the payload each burned key was first resolved to

rowVars    == <<grant, use_count, revoked, sealed, reads>>
secretVars == <<current, versions, minted>>
ghostVars  == <<released, sends, answer>>
vars == <<now, rowVars, secretVars, epoch, calls, audit, ghostVars>>

-----------------------------------------------------------------------------
GrantRow == [releasing : BOOLEAN, notAfter : Nat,
             maxUses : Nat \cup {Unlimited}, ephemeral : BOOLEAN]

Payload == Nat \cup {Passthrough}

ReadRow == [version : Payload \cup {Null}, passthrough : BOOLEAN, at : Nat]

\* What a call in flight holds: where it is, its arguments, the source it
\* resolved (Passthrough, PassthroughGone or Stored in the code), the payload
\* id and its transaction's now().
Step == {"revalidate", "resolve", "begin", "use", "fetch", "respond"}
CallState == [at : Step, grant : Grant, key : Key \cup {Null},
              source : {"own", "gone", "stored"},
              payload : Payload \cup {Null}, txNow : Nat]

\* NULL is not a row.
ASSUME NullAssumption == Null \notin GrantRow \cup ReadRow \cup CallState

TypeOK ==
    /\ now \in Nat
    /\ grant \in [Grant -> GrantRow \cup {Null}]
    /\ use_count \in [Grant -> Nat]
    /\ revoked \in [Grant -> BOOLEAN]
    /\ sealed \in [Grant -> Nat \cup {Null}]
    /\ reads \in [Grant -> [Key -> ReadRow \cup {Null}]]
    /\ current \in Nat \cup {Null}
    /\ versions \in SUBSET Nat
    /\ minted \in Nat
    /\ epoch \in Nat
    /\ calls \in [Call -> CallState \cup {Null}]
    /\ audit \in SUBSET (Grant \X (Payload \cup {Null}))
    /\ released \in SUBSET (Grant \X Key \X (Payload \cup {Null}))
    /\ sends \in [Grant -> Nat]
    /\ answer \in [Grant -> [Key -> Payload \cup {Null}]]

Init ==
    /\ now = 0
    /\ grant = [g \in Grant |-> Null]
    /\ use_count = [g \in Grant |-> 0]
    /\ revoked = [g \in Grant |-> FALSE]
    /\ sealed = [g \in Grant |-> Null]
    /\ reads = [g \in Grant |-> [k \in Key |-> Null]]
    /\ current = Null
    /\ versions = {}
    /\ minted = 0
    /\ epoch = 0
    /\ calls = [c \in Call |-> Null]
    /\ audit = {}
    /\ released = {}
    /\ sends = [g \in Grant |-> 0]
    /\ answer = [g \in Grant |-> [k \in Key |-> Null]]

-----------------------------------------------------------------------------
(* Predicates of the SQL statements.                                       *)

Exists(g) == grant[g] # Null

\* Fault: a liveness check that forgets revocation.
LiveUnlessExpired(g, t) == t < grant[g].notAfter

\* NOT revoked AND now() < not_after, with the reader's now().
Live(g, t) == ~revoked[g] /\ t < grant[g].notAfter

\* first_read_at > now() - window: the key may still be replayed.
InWindow(r, t) == r.at > t - ReplayWindow

\* first_read_at < now() - window: the version pin may be dropped.
Stale(r) == r.at < now - ReplayWindow

\* Fault: off by one, a use more than max_uses.
UsesLeftOffByOne(g) == grant[g].maxUses # Unlimited => use_count[g] <= grant[g].maxUses

\* max_uses IS NULL OR use_count < max_uses.
UsesLeft(g) == grant[g].maxUses # Unlimited => use_count[g] < grant[g].maxUses

\* Fault: a consumed payload is purged although a replay is still open.
PurgeableOnceConsumed(g) ==
    /\ Exists(g)
    /\ sealed[g] # Null
    /\ revoked[g] \/ grant[g].notAfter < now \/ ~UsesLeft(g)

\* Fault: payloads of expired grants are forgotten.
PurgeableUnlessExpired(g) ==
    /\ Exists(g)
    /\ sealed[g] # Null
    /\ revoked[g] \/ ~UsesLeft(g)

\* What sweep_purge_passthroughs may null out.
Purgeable(g) ==
    /\ Exists(g)
    /\ sealed[g] # Null
    /\ \/ revoked[g]
       \/ grant[g].notAfter < now
       \/ /\ ~UsesLeft(g)
          /\ ~\E k \in Key : reads[g][k] # Null /\ InWindow(reads[g][k], now)

-----------------------------------------------------------------------------
(* The read handler and the proxy handler.                                 *)

End(c) == calls' = [calls EXCEPT ![c] = Null]

Goto(c, step) == calls' = [calls EXCEPT ![c].at = step]

\* read: owned_grant and the mechanism check.  The source is decided later but
\* from this snapshot of the row.
ReadArrives(c, g, k) ==
    /\ calls[c] = Null
    /\ Exists(g)
    /\ grant[g].releasing
    /\ calls' = [calls EXCEPT ![c] =
                    [at |-> "revalidate", grant |-> g, key |-> k,
                     source |-> IF sealed[g] # Null THEN "own"
                                ELSE IF grant[g].ephemeral THEN "gone"
                                ELSE "stored",
                     payload |-> Null, txNow |-> 0]]
    /\ UNCHANGED <<now, rowVars, secretVars, epoch, audit, ghostVars>>

\* handle_inner: the same for a brokered grant; there is no key to replay.
ProxyArrives(c, g) ==
    /\ calls[c] = Null
    /\ Exists(g)
    /\ ~grant[g].releasing
    /\ calls' = [calls EXCEPT ![c] =
                    [at |-> "revalidate", grant |-> g, key |-> Null,
                     source |-> "stored", payload |-> Null, txNow |-> 0]]
    /\ UNCHANGED <<now, rowVars, secretVars, epoch, audit, ghostVars>>

\* revalidate_grant: reads the secret row by name; a refusal is Abandon.
Revalidate(c) ==
    /\ calls[c] # Null
    /\ calls[c].at = "revalidate"
    /\ calls' = [calls EXCEPT
                    ![c].at = "resolve",
                    ![c].payload = IF calls[c].source = "stored"
                                   THEN current ELSE Passthrough]
    /\ UNCHANGED <<now, rowVars, secretVars, epoch, audit, ghostVars>>

\* The dead check of the read handler, then get_secret_version for the version
\* the secret row named.  The call goes on only if both succeed.
Resolved(c) ==
    LET p == calls[c] IN
    /\ p.key # Null => Live(p.grant, now)
    /\ p.source = "stored" => p.payload \in versions

Resolve(c) ==
    /\ calls[c] # Null
    /\ calls[c].at = "resolve"
    /\ \/ Resolved(c) /\ Goto(c, "begin")
       \/ ~Resolved(c) /\ End(c)
    /\ UNCHANGED <<now, rowVars, secretVars, epoch, audit, ghostVars>>

\* begin_grant_use: BEGIN fixes now() for the whole transaction.
Begin(c) ==
    /\ calls[c] # Null
    /\ calls[c].at = "begin"
    /\ calls' = [calls EXCEPT ![c].at = "use", ![c].txNow = now]
    /\ UNCHANGED <<now, rowVars, secretVars, epoch, audit, ghostVars>>

InUse(c) == calls[c] # Null /\ calls[c].at = "use"

\* The replay row the key already has, or Null.
Prior(c) == LET p == calls[c] IN IF p.key = Null THEN Null ELSE reads[p.grant][p.key]

\* Fault: a replay answers with what was resolved now, not what was pinned.
CommittedUnpinned(c, step, payload) ==
    calls' = [calls EXCEPT ![c].at = step, ![c].txNow = 0]

\* The transaction committed: the call goes on with the payload it settled.
Committed(c, step, payload) ==
    calls' = [calls EXCEPT ![c].at = step, ![c].payload = payload, ![c].txNow = 0]

\* Fault: the attempt is not audited ahead of the release.
NoWriteAhead(g, payload) == UNCHANGED audit

\* insert_audit of the attempt, in the transaction that counts the use.
WriteAhead(g, payload) == audit' = audit \cup {<<g, payload>>}

\* Fault: a refused use is handed back to the budget.
UseRefusedRefunds(c) ==
    /\ InUse(c)
    /\ ~Live(calls[c].grant, calls[c].txNow)
    /\ use_count' = [use_count EXCEPT ![calls[c].grant] = @ - 1]
    /\ End(c)
    /\ UNCHANGED <<now, grant, revoked, sealed, reads, secretVars, epoch, audit, ghostVars>>

\* ExpiredOrRevoked, an exhausted grant and a key whose window has closed all
\* roll back and end the call.
UseRefused(c) ==
    /\ InUse(c)
    /\ LET p == calls[c] IN
       \/ ~Live(p.grant, p.txNow)
       \/ Prior(c) # Null /\ ~InWindow(Prior(c), p.txNow)
       \/ Prior(c) = Null /\ ~UsesLeft(p.grant)
    /\ End(c)
    /\ UNCHANGED <<now, rowVars, secretVars, epoch, audit, ghostVars>>

\* Replay: audited, nothing counted.  A passthrough payload comes from the
\* locked row and opens only under the KEK of this process.
UseReplay(c) ==
    LET p == calls[c]  r == Prior(c) IN
    /\ InUse(c)
    /\ Live(p.grant, p.txNow)
    /\ r # Null
    /\ InWindow(r, p.txNow)
    /\ WriteAhead(p.grant, r.version)
    /\ \/ /\ r.passthrough /\ sealed[p.grant] = epoch
          /\ Committed(c, "respond", Passthrough)
       \/ /\ ~r.passthrough /\ r.version # Null
          /\ Committed(c, "fetch", r.version)
       \/ /\ \/ r.passthrough /\ sealed[p.grant] # epoch
             \/ ~r.passthrough /\ r.version = Null
          /\ End(c)
    /\ UNCHANGED <<now, rowVars, secretVars, epoch, ghostVars>>

\* FirstUse: count it, record the replay row and the write-ahead audit row in
\* one transaction, then open the payload resolved before it.
UseFirst(c) ==
    LET p == calls[c]  g == p.grant IN
    /\ InUse(c)
    /\ Live(g, p.txNow)
    /\ Prior(c) = Null
    /\ UsesLeft(g)
    /\ grant[g].maxUses = Unlimited => use_count[g] < MaxSends
    /\ use_count' = [use_count EXCEPT ![g] = @ + 1]
    /\ reads' = IF p.key = Null THEN reads
                ELSE [reads EXCEPT ![g][p.key] =
                        [version |-> p.payload, passthrough |-> sealed[g] # Null,
                         at |-> p.txNow]]
    /\ answer' = IF p.key = Null THEN answer
                 ELSE [answer EXCEPT ![g][p.key] = p.payload]
    /\ WriteAhead(g, p.payload)
    /\ \/ /\ p.source = "stored" \/ (p.source = "own" /\ sealed[g] = epoch)
          /\ Committed(c, "respond", p.payload)
       \/ /\ p.source = "gone" \/ (p.source = "own" /\ sealed[g] # epoch)
          /\ End(c)
    /\ UNCHANGED <<now, grant, revoked, sealed, secretVars, epoch, released, sends>>

Use(c) == UseRefused(c) \/ UseReplay(c) \/ UseFirst(c)

\* Replay of a stored payload: get_secret_version_by_id of the pinned row.
FetchPinned(c) ==
    /\ calls[c] # Null
    /\ calls[c].at = "fetch"
    /\ \/ calls[c].payload \in versions /\ Goto(c, "respond")
       \/ calls[c].payload \notin versions /\ End(c)
    /\ UNCHANGED <<now, rowVars, secretVars, epoch, audit, ghostVars>>

\* The response (read) or the upstream request (proxy) leaves the process.
Respond(c) ==
    LET p == calls[c] IN
    /\ calls[c] # Null
    /\ p.at = "respond"
    /\ \/ /\ p.key # Null
          /\ released' = released \cup {<<p.grant, p.key, p.payload>>}
          /\ UNCHANGED sends
       \/ /\ p.key = Null
          /\ sends' = [sends EXCEPT ![p.grant] = @ + 1]
          /\ UNCHANGED released
    /\ End(c)
    /\ UNCHANGED <<now, rowVars, secretVars, epoch, audit, answer>>

\* The handler's future is dropped or returns an error between two statements:
\* revalidation refused, database error, caller gone, deadline, unusable bytes.
Abandon(c) ==
    /\ calls[c] # Null
    /\ End(c)
    /\ UNCHANGED <<now, rowVars, secretVars, epoch, audit, ghostVars>>

-----------------------------------------------------------------------------
(* The rest of the system, as far as it touches these rows.                *)

\* The transactions that insert a grant (approve_request, auto approval).  A
\* grant backed by a stored secret needs the secret row; a passthrough payload
\* is sealed under this process's KEK and only for a releasing mechanism.
Mint(g) ==
    /\ grant[g] = Null
    /\ \E releasing, ephemeral \in BOOLEAN, notAfter \in (now + 1)..(MaxTime - 1) :
        \E maxUses \in IF releasing THEN ReleaseLimits ELSE ProxyLimits :
            /\ ephemeral => releasing
            /\ ~ephemeral => current # Null
            /\ grant' = [grant EXCEPT ![g] =
                            [releasing |-> releasing, notAfter |-> notAfter,
                             maxUses |-> maxUses, ephemeral |-> ephemeral]]
            /\ sealed' = [sealed EXCEPT ![g] = IF ephemeral THEN epoch ELSE Null]
    /\ UNCHANGED <<now, use_count, revoked, reads, secretVars, epoch, calls, audit, ghostVars>>

\* revoke_grant: also purges the passthrough payload.
Revoke(g) ==
    /\ Exists(g)
    /\ ~revoked[g]
    /\ revoked' = [revoked EXCEPT ![g] = TRUE]
    /\ sealed' = [sealed EXCEPT ![g] = Null]
    /\ UNCHANGED <<now, grant, use_count, reads, secretVars, epoch, calls, audit, ghostVars>>

\* sweep_purge_passthroughs, one UPDATE over all grants.
SweepPassthroughs ==
    /\ \E g \in Grant : Purgeable(g)
    /\ sealed' = [g \in Grant |-> IF Purgeable(g) THEN Null ELSE sealed[g]]
    /\ UNCHANGED <<now, grant, use_count, revoked, reads, secretVars, epoch, calls, audit, ghostVars>>

\* Fault: stale replay rows are deleted, so a burned key looks fresh again.
DeletedWhenStale(r) == IF r # Null /\ Stale(r) THEN Null ELSE r

\* unpin_stale_grant_reads: the row stays as a tombstone, its pin goes.
Unpinned(r) == IF r # Null /\ Stale(r) THEN [r EXCEPT !.version = Null] ELSE r

UnpinStaleReads ==
    /\ \E g \in Grant, k \in Key :
          reads[g][k] # Null /\ Stale(reads[g][k]) /\ reads[g][k].version # Null
    /\ reads' = [g \in Grant |-> [k \in Key |-> Unpinned(reads[g][k])]]
    /\ UNCHANGED <<now, grant, use_count, revoked, sealed, secretVars, epoch, calls, audit, ghostVars>>

\* rotate_secret_version, or any of the ways to create the secret: a new
\* version row becomes the current one.
StoreVersion ==
    /\ minted < MaxVersions
    /\ minted' = minted + 1
    /\ current' = minted + 1
    /\ versions' = versions \cup {minted + 1}
    /\ UNCHANGED <<now, rowVars, epoch, calls, audit, ghostVars>>

\* Live grants that delete_secret_audited revokes with the secret.
RevokedByDelete(g) == Exists(g) /\ Live(g, now) /\ ~grant[g].ephemeral

\* delete_secret_audited: versions cascade, dependent grants are revoked.
DeleteSecret ==
    /\ current # Null
    /\ current' = Null
    /\ versions' = {}
    /\ revoked' = [g \in Grant |-> revoked[g] \/ RevokedByDelete(g)]
    /\ sealed' = [g \in Grant |-> IF RevokedByDelete(g) THEN Null ELSE sealed[g]]
    /\ UNCHANGED <<now, grant, use_count, reads, minted, epoch, calls, audit, ghostVars>>

\* A crash or a redeploy: calls in flight die, and so does the ephemeral KEK.
Restart ==
    /\ epoch < MaxEpochs
    /\ epoch' = epoch + 1
    /\ calls' = [c \in Call |-> Null]
    /\ UNCHANGED <<now, rowVars, secretVars, audit, ghostVars>>

Tick ==
    /\ now < MaxTime
    /\ now' = now + 1
    /\ UNCHANGED <<rowVars, secretVars, epoch, calls, audit, ghostVars>>

CallStep(c) ==
    \/ \E g \in Grant, k \in Key : ReadArrives(c, g, k)
    \/ \E g \in Grant : ProxyArrives(c, g)
    \/ Revalidate(c) \/ Resolve(c) \/ Begin(c) \/ Use(c)
    \/ FetchPinned(c) \/ Respond(c) \/ Abandon(c)

OtherStep ==
    \/ \E g \in Grant : Mint(g) \/ Revoke(g)
    \/ SweepPassthroughs \/ UnpinStaleReads
    \/ StoreVersion \/ DeleteSecret \/ Restart \/ Tick

Next == OtherStep \/ \E c \in Call : CallStep(c)

Spec == Init /\ [][Next]_vars

\* The sweeper runs every 30 seconds for the life of the process, and time
\* passes; nothing else is guaranteed to happen.
FairSpec == Spec /\ WF_vars(SweepPassthroughs) /\ WF_vars(UnpinStaleReads) /\ WF_vars(Tick)

-----------------------------------------------------------------------------
(* Properties.                                                             *)

Ledger == INSTANCE GrantLedger WITH
    limit <- [g \in Grant |-> IF grant[g] = Null THEN Null ELSE grant[g].maxUses],
    spent <- use_count,
    dead  <- revoked,
    out   <- released,
    sent  <- sends

(***************************************************************************)
(* ImplementsLedger: rows, sweeps, replays, crashes and handlers together  *)
(* implement the abstract grant: spending is bounded and stops at          *)
(* revocation, and a key's answer is settled once.                         *)
(***************************************************************************)
ImplementsLedger == Ledger!Spec

ReleasedKeys(g) == {k \in Key : \E t \in released : t[1] = g /\ t[2] = k}

(***************************************************************************)
(* UseBudget: over its whole life a grant never lets more than max_uses    *)
(* logical uses out: distinct keys answered with a payload plus upstream   *)
(* requests sent, however calls, replays, crashes and sweeps interleave    *)
(* (begin_grant_use, the single conditional increment).                    *)
(***************************************************************************)
UseBudget ==
    \A g \in Grant :
        Exists(g) /\ grant[g].maxUses # Unlimited
            => Cardinality(ReleasedKeys(g)) + sends[g] <= grant[g].maxUses

(***************************************************************************)
(* OneAnswerPerKey: every response to one (grant, key) carries the same    *)
(* payload, across rotations of the secret between the first response and  *)
(* its replays ("replays release exactly that version").                   *)
(***************************************************************************)
OneAnswerPerKey ==
    \A s, t \in released : s[1] = t[1] /\ s[2] = t[2] => s[3] = t[3]

(***************************************************************************)
(* ReplayEntitlement: a key that was answered can be answered again until  *)
(* its replay window closes: while the grant is live the sweeper has       *)
(* neither dropped the pin nor purged the payload, and the pinned version  *)
(* row still exists (sweep_purge_passthroughs, unpin_stale_grant_reads and *)
(* delete_secret_audited all keep what begin_grant_use would still grant). *)
(***************************************************************************)
ReplayEntitlement ==
    \A t \in released :
        LET g == t[1]  r == reads[t[1]][t[2]]  v == t[3] IN
        Live(g, now) /\ InWindow(r, now)
            => /\ r.version = v
               /\ IF v = Passthrough THEN r.passthrough /\ sealed[g] # Null
                  ELSE ~r.passthrough /\ v \in versions

(***************************************************************************)
(* WriteAheadAudit: no payload leaves on a grant without a write-ahead     *)
(* audit row naming that grant and that payload, committed before          *)
(* (release-attempt in begin_grant_use); upstream sends never outnumber    *)
(* counted uses.                                                           *)
(***************************************************************************)
WriteAheadAudit ==
    /\ \A t \in released : <<t[1], t[3]>> \in audit
    /\ \A g \in Grant : sends[g] <= use_count[g]

(***************************************************************************)
(* NothingHeldForever: no passthrough payload and no version pin stays at  *)
(* rest for ever.  Every grant expires and every replay window closes, so  *)
(* the sweeper gets to each of them, restarts included (purge_phase).      *)
(***************************************************************************)
NothingHeldForever ==
    /\ \A g \in Grant : sealed[g] # Null ~> sealed[g] = Null
    /\ \A g \in Grant, k \in Key :
          reads[g][k] # Null ~> reads[g][k] # Null /\ reads[g][k].version = Null

-----------------------------------------------------------------------------
(* The inductive invariant behind them.                                    *)

Burned(g) == {k \in Key : reads[g][k] # Null}

\* Proxy calls between the counted use and the upstream request.
Sending(g) ==
    {c \in Call : /\ calls[c] # Null
                  /\ calls[c].at = "respond"
                  /\ calls[c].grant = g
                  /\ calls[c].key = Null}

\* Every key burned and every request sent, or about to be, was counted.
Counted ==
    \A g \in Grant :
        Cardinality(Burned(g)) + Cardinality(Sending(g)) + sends[g] <= use_count[g]

Capped ==
    \A g \in Grant :
        IF grant[g] = Null THEN use_count[g] = 0
        ELSE grant[g].maxUses # Unlimited => use_count[g] <= grant[g].maxUses

\* Only a passthrough grant ever holds a payload of its own.
Sources ==
    \A g \in Grant :
        /\ sealed[g] # Null => grant[g] # Null /\ grant[g].ephemeral
        /\ grant[g] # Null /\ grant[g].ephemeral => grant[g].releasing

\* A burned key is settled: replay row, history and audit agree on it.
Settled ==
    /\ \A g \in Grant, k \in Key :
        /\ answer[g][k] = Null <=> reads[g][k] = Null
        /\ reads[g][k] # Null =>
             /\ <<g, answer[g][k]>> \in audit
             /\ reads[g][k].version \in {Null, answer[g][k]}
             /\ reads[g][k].passthrough => answer[g][k] = Passthrough
             /\ grant[g] # Null
             /\ grant[g].ephemeral => answer[g][k] = Passthrough
    /\ \A t \in released : t[3] # Null /\ answer[t[1]][t[2]] = t[3]

\* What a call in flight may rely on.
CallInv(c) ==
    LET p == calls[c] IN
    /\ grant[p.grant] # Null
    /\ p.source = "stored" <=> ~grant[p.grant].ephemeral
    /\ p.at \in {"resolve", "begin", "use"} /\ p.source # "stored" => p.payload = Passthrough
    /\ p.at \in {"begin", "use"} => p.payload # Null
    /\ p.at = "fetch" => p.key # Null
    /\ p.at \in {"fetch", "respond"} /\ p.key # Null
         => answer[p.grant][p.key] # Null /\ answer[p.grant][p.key] = p.payload

CallsInv == \A c \in Call : calls[c] # Null => CallInv(c)

\* What a replay in its window is entitled to is still there.
PinsHeld ==
    \A g \in Grant, k \in Key :
        reads[g][k] # Null /\ Live(g, now) /\ InWindow(reads[g][k], now) =>
            /\ reads[g][k].version = answer[g][k]
            /\ reads[g][k].passthrough => sealed[g] # Null
            /\ answer[g][k] \in Nat => answer[g][k] \in versions

\* A payload of the grant's own is only ever handed out for such a row.
OwnAnswers ==
    \A t \in released : t[3] = Passthrough => reads[t[1]][t[2]].passthrough

\* What a call resolved is still there when it uses it, on a live grant.
CallEntitled(c) ==
    LET p == calls[c] IN
    /\ p.at = "respond" /\ p.key # Null /\ p.payload = Passthrough
         => reads[p.grant][p.key].passthrough
    /\ p.at \in {"begin", "use"} /\ p.source = "stored"
         => p.payload \in Nat /\ (Live(p.grant, now) => p.payload \in versions)

CallsEntitled == \A c \in Call : calls[c] # Null => CallEntitled(c)

IInv == TypeOK /\ Counted /\ Capped /\ Sources /\ Settled /\ CallsInv
        /\ PinsHeld /\ OwnAnswers /\ CallsEntitled
=============================================================================
