------------------------------- MODULE Policy -------------------------------
(***************************************************************************)
(* Policy at work: the reads a create handler takes its decision on        *)
(* (server/src/api/requests.rs), an operator who approves a request with   *)
(* the secret it names, with a new value or with another stored secret     *)
(* (ui/mod.rs), the edits of the policy table and of secrets that go on    *)
(* meanwhile (ui/mod.rs, ui/policy_store.rs), and what the proxy then      *)
(* forwards on the grant (proxy.rs).                                       *)
(*                                                                         *)
(* The requests are those of one client.  Left out: keys, caps and expiry  *)
(* of requests (see Requests), the budget of a grant (see Grants), and the *)
(* deletion and the versions of secrets (see Secrets), so a stored secret  *)
(* keeps its identity here.                                                *)
(***************************************************************************)
EXTENDS PolicyEngine

CONSTANTS
    Request,   \* requests in flight together
    Written,   \* bound: the policy rows that operators write
    Asks,      \* what the client may ask for
    Ttls,      \* lifetimes and
    Uses,      \* uses that an operator may grant
    Tiers,     \* tiers that secrets are given
    Clients,   \* settings of the client in the configurations that are deployed
    Tables,    \* policy tables to start from
    Calls,     \* paths of the calls that clients make through the proxy
    MaxEdits,  \* bound: edits of policies and secrets, and restarts
    MaxTime    \* bound on the clock

Ask == [name : Name, mech : Mechanism, cons : Constraints]

ASSUME PolicyAssumption ==
    /\ Written \subseteq Rule
    /\ Asks \subseteq Ask
    /\ Ttls \subseteq Nat
    /\ Uses \subseteq Nat \cup {Null}
    /\ Tiers \subseteq 0 .. 3
    /\ Clients \subseteq ClientRow
    /\ Tables \subseteq [Id -> Rule \cup {Null}]
    /\ Calls \subseteq Path
    /\ MaxEdits \in Nat
    /\ MaxTime \in Nat
    /\ Null \notin Rule
    /\ Null \notin SecretRow
    /\ Null \notin Name

VARIABLES
    now,       \* the database clock
    client,    \* the client's row
    secrets,   \* the stored secrets, Null where there is none
    tags,      \* their tags
    policies,  \* the policy table
    reqs,      \* each request: a handler at work, or what came of it
    edits      \* edits so far

vars == <<now, client, secrets, tags, policies, reqs, edits>>

world == <<client, secrets, tags, policies, edits>>

-----------------------------------------------------------------------------
Evaluation == [decision : Outcome, by : Rule \cup {Null}]

\* What a grant rests on: an evaluation and its inputs.
Basis == [in : Inputs, ev : Evaluation]

Reading == {"secret", "tags", "policies", "evaluate"}

\* sub: the handler at work is an approval that substitutes another secret.
\* cap is the request's policy_not_after; notAfter, released and auto are the
\* grant's deadline, its secret and whether policy issued it.
Slot == [at : Reading \cup {"insert", "commit", "pending", "denied", "approved"},
         sub : BOOLEAN, ask : Ask, in : Inputs, ev : Evaluation,
         basis : SUBSET Basis, cap : Nat \cup {Null}, notAfter : Nat,
         released : Name, auto : BOOLEAN]

TypeOK ==
    /\ now \in Nat
    /\ client \in Clients
    /\ secrets \in [Name -> SecretRow \cup {Null}]
    /\ tags \in [Name -> SUBSET Tag]
    /\ policies \in [Id -> Rule \cup {Null}]
    /\ reqs \in [Request -> Slot \cup {Null}]
    /\ edits \in 0 .. MaxEdits

\* A stored secret to start with may have been deposited or reviewed.
Init ==
    /\ now = 0
    /\ client \in Clients
    /\ \E stored \in SUBSET Name, vetted \in BOOLEAN, tier \in Tiers :
          secrets = [n \in Name |-> IF n \in stored
                                    THEN [enabled |-> TRUE, maxTier |-> tier, vetted |-> vetted]
                                    ELSE Null]
    /\ \E T \in SUBSET Tag :
          tags = [n \in Name |-> IF secrets[n] = Null THEN {} ELSE T]
    /\ policies \in Tables
    /\ reqs = [r \in Request |-> Null]
    /\ edits = 0

-----------------------------------------------------------------------------
At(r, step) == reqs[r] # Null /\ reqs[r].at = step

Set(r, slot) == reqs' = [reqs EXCEPT ![r] = slot]

NoEvaluation == [decision |-> "require-approval", by |-> Null]

\* validate_request: what it refuses, and what it stores.
ValidAsk(a) ==
    /\ a.cons.ttl >= 1
    /\ IF a.mech = "brokered"
       THEN (\E o \in a.cons.origins : a.cons.origins = {o}) /\ a.cons.methods # {} /\ a.cons.uses # 0
       ELSE a.cons.uses \in {1, Null}

Normalized(a) ==
    [a EXCEPT !.cons.methods = {Upper[m] : m \in @},
              !.cons.uses = IF a.mech = "brokered" THEN @ ELSE 1]

\* The deadline of a grant issued at t.
Deadline(t, ttl, cap) == IF cap # Null /\ cap < t + ttl THEN cap ELSE t + ttl

-----------------------------------------------------------------------------
(* create.                                                                 *)

\* authenticate_client reads the client's row, which must be enabled.
Arrive(r, a) ==
    /\ reqs[r] = Null
    /\ client.enabled
    /\ ValidAsk(a)
    /\ LET q == Normalized(a) IN
       Set(r, [at |-> "secret", sub |-> FALSE, ask |-> q,
               in |-> [client |-> client, secret |-> Null, name |-> q.name, tags |-> {},
                       mech |-> q.mech, cons |-> q.cons,
                       rows |-> [i \in Id |-> Null], now |-> 0],
               ev |-> NoEvaluation, basis |-> {}, cap |-> Null, notAfter |-> 0,
               released |-> q.name, auto |-> FALSE])
    /\ UNCHANGED <<now, world>>

ReadSecret(r) ==
    /\ At(r, "secret")
    /\ Set(r, [reqs[r] EXCEPT !.at = "tags", !.in.secret = secrets[reqs[r].in.name]])
    /\ UNCHANGED <<now, world>>

\* get_tags_for_secret, of the secret that was read.
ReadTags(r) ==
    /\ At(r, "tags")
    /\ LET read == IF reqs[r].in.secret = Null THEN {} ELSE tags[reqs[r].in.name] IN
       Set(r, [reqs[r] EXCEPT !.at = "policies", !.in.tags = read])
    /\ UNCHANGED <<now, world>>

ListPolicies(r) ==
    /\ At(r, "policies")
    /\ Set(r, [reqs[r] EXCEPT !.at = "evaluate", !.in.rows = policies])
    /\ UNCHANGED <<now, world>>

\* eval_now, policy_inputs and evaluate.  A rule that cannot be read ends the
\* call with no request created.
Decide(r) ==
    /\ At(r, "evaluate") /\ ~reqs[r].sub
    /\ LET e == [reqs[r].in EXCEPT !.now = now]
           ev == Evaluate(e)
       IN Set(r, IF ~PolicyInputs(e)
                 THEN Null
                 ELSE [reqs[r] EXCEPT !.at = "insert", !.in = e, !.ev = ev,
                                      !.basis = {[in |-> e, ev |-> ev]}, !.cap = Cap(ev)])
    /\ UNCHANGED <<now, world>>

\* The request is created resolved, with its grant if policy approved it; the
\* transaction is rolled back when the grant's deadline has passed.
Insert(r) ==
    /\ At(r, "insert")
    /\ LET s == reqs[r]
           deadline == Deadline(s.in.now, s.ask.cons.ttl, s.cap)
       IN Set(r, CASE s.ev.decision = "deny" -> [s EXCEPT !.at = "denied"]
                   [] s.ev.decision = "require-approval" -> [s EXCEPT !.at = "pending"]
                   [] OTHER -> IF now < deadline
                               THEN [s EXCEPT !.at = "approved", !.auto = TRUE,
                                              !.notAfter = deadline]
                               ELSE Null)
    /\ UNCHANGED <<now, world>>

-----------------------------------------------------------------------------
(* approve.                                                                *)

\* The request can be approved: its policy cap has not elapsed.
Approvable(r) == At(r, "pending") /\ (reqs[r].cap # Null => now < reqs[r].cap)

Approved(r, ttl) ==
    [reqs[r] EXCEPT !.at = "approved", !.notAfter = Deadline(now, ttl, reqs[r].cap)]

\* The stored secret that the request names.
ApproveStored(r, ttl) ==
    LET s == secrets[reqs[r].ask.name] IN
    /\ Approvable(r)
    /\ ttl \in 1 .. reqs[r].ask.cons.ttl
    /\ s # Null
    /\ s.enabled
    /\ Tier(reqs[r].ask.mech) <= s.maxTier
    /\ Set(r, Approved(r, ttl))
    /\ UNCHANGED <<now, world>>

\* A value the operator enters, stored under the name or for this grant only.
\* A stored value is vetted and gets the tier of the mechanism; a brokered
\* grant needs it stored.
ApproveValue(r, ttl, store) ==
    LET n == reqs[r].ask.name IN
    /\ Approvable(r)
    /\ ttl \in 1 .. reqs[r].ask.cons.ttl
    /\ secrets[n] = Null
    /\ store \/ reqs[r].ask.mech # "brokered"
    /\ secrets' = IF store
                  THEN [secrets EXCEPT ![n] = [enabled |-> TRUE, vetted |-> TRUE,
                                               maxTier |-> Tier(reqs[r].ask.mech)]]
                  ELSE secrets
    /\ Set(r, Approved(r, ttl))
    /\ UNCHANGED <<now, client, tags, policies, edits>>

\* Narrowed uses: no more than were asked for; a releasing grant has one.
NarrowUses(q) == IF q.cons.uses = Null THEN (Nat \ {0}) \cup {Null} ELSE 1 .. q.cons.uses

\* Another stored secret, n, in place of an unknown one: evaluated anew, for n
\* and for the constraints as narrowed.
Substitute(r, n, ttl, uses) ==
    LET q == reqs[r].ask IN
    /\ Approvable(r)
    /\ secrets[q.name] = Null
    /\ secrets[n] # Null
    /\ secrets[n].enabled
    /\ Tier(q.mech) <= secrets[n].maxTier
    /\ ttl \in 1 .. q.cons.ttl
    /\ uses \in NarrowUses(q)
    /\ Set(r, [reqs[r] EXCEPT
                  !.at = "tags", !.sub = TRUE,
                  !.in = [@ EXCEPT !.client = client, !.secret = secrets[n], !.name = n,
                                   !.cons = [q.cons EXCEPT !.ttl = ttl, !.uses = uses],
                                   !.now = now]])
    /\ UNCHANGED <<now, world>>

\* Fault: the rules of the substituted secret are not consulted.
SubstitutionUnchecked(ev) == TRUE

\* Decision::Deny refuses the substitution.
SubstitutionAllowed(ev) == ev.decision # "deny"

\* An approval that is refused leaves the request pending.
Refused(r) == [reqs[r] EXCEPT !.at = "pending", !.sub = FALSE]

DecideSubstitute(r) ==
    /\ At(r, "evaluate") /\ reqs[r].sub
    /\ LET e == reqs[r].in
           ev == Evaluate(e)
       IN Set(r, IF PolicyInputs(e) /\ SubstitutionAllowed(ev)
                    /\ (Cap(ev) = Null \/ e.now < Cap(ev))
                 THEN [reqs[r] EXCEPT !.at = "commit", !.ev = ev]
                 ELSE Refused(r))
    /\ UNCHANGED <<now, world>>

\* Fault: only the request's own cap bounds the grant.
SubstituteDeadlineOwn(s) == Deadline(s.in.now, s.in.cons.ttl, s.cap)

\* The grant outlives neither the row that matched the request nor the one
\* that governs the substituted secret.
SubstituteDeadline(s) ==
    LET own == Deadline(s.in.now, s.in.cons.ttl, s.cap) IN
    IF Cap(s.ev) # Null /\ Cap(s.ev) < own THEN Cap(s.ev) ELSE own

CommitSubstitute(r) ==
    /\ At(r, "commit")
    /\ LET s == reqs[r] IN
       Set(r, IF now < SubstituteDeadline(s)
              THEN [s EXCEPT !.at = "approved", !.released = s.in.name,
                             !.notAfter = SubstituteDeadline(s),
                             !.basis = @ \cup {[in |-> s.in, ev |-> s.ev]}]
              ELSE Refused(r))
    /\ UNCHANGED <<now, world>>

-----------------------------------------------------------------------------
(* The world around the handlers.                                          *)

Edit == edits < MaxEdits /\ edits' = edits + 1

\* parse_policy_form: what the form accepts.
FormAccepts(p) ==
    /\ p.readable /\ ~p.managed
    /\ p.secret = Null \/ p.tag = Null
    /\ ~(p.mech = "brokered" /\ p.origins = {} /\ p.outcome \in {"auto-approve", "notify-only"})

\* parse_methods_field stores methods in upper case.
FormRow(p) == [p EXCEPT !.methods = {Upper[m] : m \in @}]

\* insert_policy_audited.
CreatePolicy(i, p) ==
    /\ Edit
    /\ policies[i] = Null
    /\ FormAccepts(p)
    /\ policies' = [policies EXCEPT ![i] = FormRow(p)]
    /\ UNCHANGED <<now, client, secrets, tags, reqs>>

\* update_policy_audited: no row that config owns.
UpdatePolicy(i, p) ==
    /\ Edit
    /\ policies[i] # Null /\ ~policies[i].managed
    /\ FormAccepts(p)
    /\ policies' = [policies EXCEPT ![i] = FormRow(p)]
    /\ UNCHANGED <<now, client, secrets, tags, reqs>>

\* delete_policy_audited.
DeletePolicy(i) ==
    /\ Edit
    /\ policies[i] # Null /\ ~policies[i].managed
    /\ policies' = [policies EXCEPT ![i] = Null]
    /\ UNCHANGED <<now, client, secrets, tags, reqs>>

\* save_secret by an operator, or create_secret_from_client, which is not vetted.
AddSecret(n, tier, vetted) ==
    /\ Edit
    /\ secrets[n] = Null
    /\ secrets' = [secrets EXCEPT ![n] = [enabled |-> TRUE, maxTier |-> tier, vetted |-> vetted]]
    /\ UNCHANGED <<now, client, tags, policies, reqs>>

\* update_secret_settings_audited: the settings and the tags in one transaction.
UpdateSettings(n, enabled, tier, T) ==
    /\ Edit
    /\ secrets[n] # Null
    /\ secrets' = [secrets EXCEPT ![n].enabled = enabled, ![n].maxTier = tier]
    /\ tags' = [tags EXCEPT ![n] = T]
    /\ UNCHANGED <<now, client, policies, reqs>>

\* mark_secret_vetted.
MarkVetted(n) ==
    /\ Edit
    /\ secrets[n] # Null /\ ~secrets[n].vetted
    /\ secrets' = [secrets EXCEPT ![n].vetted = TRUE]
    /\ UNCHANGED <<now, client, tags, policies, reqs>>

\* A new configuration is deployed: reconcile_clients, with no handler left.
Restart(c) ==
    /\ Edit
    /\ client' = c
    /\ reqs' = [r \in Request |->
                   IF reqs[r] = Null \/ reqs[r].at \in {"pending", "denied", "approved"}
                   THEN reqs[r]
                   ELSE IF reqs[r].sub THEN Refused(r) ELSE Null]
    /\ UNCHANGED <<now, secrets, tags, policies>>

Tick ==
    /\ now < MaxTime
    /\ now' = now + 1
    /\ UNCHANGED <<world, reqs>>

-----------------------------------------------------------------------------
CreateStep(r) ==
    \/ \E a \in Asks : Arrive(r, a)
    \/ ReadSecret(r) \/ ReadTags(r) \/ ListPolicies(r)
    \/ Decide(r) \/ Insert(r)

ApproveStep(r) ==
    \/ \E ttl \in Ttls : ApproveStored(r, ttl)
    \/ \E ttl \in Ttls, store \in BOOLEAN : ApproveValue(r, ttl, store)
    \/ \E n \in Name, ttl \in Ttls, uses \in Uses : Substitute(r, n, ttl, uses)
    \/ DecideSubstitute(r) \/ CommitSubstitute(r)

PolicyEdit ==
    \E i \in Id : \/ DeletePolicy(i)
                  \/ \E p \in Written : CreatePolicy(i, p) \/ UpdatePolicy(i, p)

SecretEdit ==
    \E n \in Name :
        \/ MarkVetted(n)
        \/ \E tier \in Tiers, vetted \in BOOLEAN : AddSecret(n, tier, vetted)
        \/ \E tier \in Tiers, T \in SUBSET Tag, enabled \in BOOLEAN :
              UpdateSettings(n, enabled, tier, T)

Next ==
    \/ \E r \in Request : CreateStep(r) \/ ApproveStep(r)
    \/ PolicyEdit
    \/ SecretEdit
    \/ \E c \in Clients : Restart(c)
    \/ Tick

Spec == Init /\ [][Next]_vars

-----------------------------------------------------------------------------
(* What the proxy forwards.                                                *)

\* revalidate_grant, for a grant that releases a stored secret.
Revalidated(r) ==
    LET s == secrets[reqs[r].released]
        m == reqs[r].ask.mech
    IN /\ client.enabled
       /\ m \in client.mechanisms
       /\ Tier(m) <= client.maxTier
       /\ s # Null
       /\ s.enabled
       /\ Tier(m) <= s.maxTier

\* Fault: the path is compared without regard to its segments' case.
PathAllowedFolded(c, path) ==
    c.prefixes = {} \/ \E pp \in c.prefixes : PrefixMatches(LowerPath(pp), LowerPath(path))

PathAllowed(c, path) == c.prefixes = {} \/ \E pp \in c.prefixes : PrefixMatches(pp, path)

\* handle_inner: a call with this method and path is sent to the grant's
\* origin, with the credential.
Forwards(r, method, path) ==
    LET c == reqs[r].ask.cons IN
    /\ At(r, "approved")
    /\ reqs[r].ask.mech = "brokered"
    /\ now < reqs[r].notAfter
    /\ Revalidated(r)
    /\ Upper[method] # "TRACE"
    /\ c.methods = {} \/ \E m \in c.methods : SameMethod(m, method)
    /\ PathAllowed(c, path)
    /\ \E o \in c.origins : c.origins = {o}

-----------------------------------------------------------------------------
(* Properties.                                                             *)

\* A call to an origin, with a method and a path, lies in the scope of a row.
Covers(p, o, method, path) ==
    /\ p.origins = {} \/ \E po \in p.origins : SameTarget(po, o)
    /\ p.methods = {} \/ \E pm \in p.methods : SameMethod(pm, method)
    /\ p.prefixes = {} \/ \E pp \in p.prefixes : PrefixMatches(pp, path)

\* The same without regard to the case of the path.
CoversAnyCase(p, o, method, path) ==
    /\ p.origins = {} \/ \E po \in p.origins : SameTarget(po, o)
    /\ p.methods = {} \/ \E pm \in p.methods : SameMethod(pm, method)
    /\ p.prefixes = {} \/ \E pp \in p.prefixes : PrefixMatches(LowerPath(pp), LowerPath(path))

\* Every call forwarded on a grant that no person approved is one that the
\* row behind the grant allows: that row releases, names the origin, covers
\* the method and the path and has not expired, and the value it releases had
\* been vetted.  Nothing between evaluate, request_is_subset and the checks of
\* the proxy widens it.
AutoWithinScope ==
    \A r \in Request, method \in Method, path \in Calls :
        Forwards(r, method, path) /\ reqs[r].auto =>
            \A b \in reqs[r].basis :
                LET p == b.ev.by IN
                /\ p # Null
                /\ p.outcome \in {"auto-approve", "notify-only"}
                /\ b.in.secret # Null /\ b.in.secret.vetted
                /\ p.notAfter = Null \/ now < p.notAfter
                /\ p.origins # {}
                /\ \A o \in reqs[r].ask.cons.origins : Covers(p, o, method, path)

\* No call is forwarded, on a grant of whichever kind, that a deny row covers,
\* in any case of the path, which applied to the released secret when policy
\* was consulted; nor on a grant that an unreadable row might have denied.
DenyRespected ==
    \A r \in Request, method \in Method, path \in Calls :
        Forwards(r, method, path) =>
            \A b \in reqs[r].basis : \A i \in Applicable(b.in) :
                /\ b.in.rows[i].readable
                /\ b.in.rows[i].outcome = "deny" =>
                      \A o \in reqs[r].ask.cons.origins :
                          ~CoversAnyCase(b.in.rows[i], o, method, path)

\* A grant lapses no later than each policy row it was issued under, whoever
\* approved it and whichever secret it releases.
LapsesWithRow ==
    \A r \in Request :
        At(r, "approved") =>
            \A b \in reqs[r].basis :
                Cap(b.ev) # Null => reqs[r].notAfter <= Cap(b.ev)

\* Among rows that match a request equally specifically and with the same
\* priority, the one that releases is not less restrictive than another, and
\* the grant lapses no later than an equally restrictive one that expires: a
\* tie, and the order of the rows, never widens what policy releases.
TieNeverWidens ==
    \A r \in Request :
        At(r, "approved") /\ reqs[r].auto =>
            \A b \in reqs[r].basis : \A i \in Matching(b.in) :
                LET p == b.ev.by
                    q == b.in.rows[i]
                IN /\ (p.client # Null) = (q.client # Null)
                   /\ SecretSpec(p) = SecretSpec(q)
                   /\ p.priority = q.priority
                   => /\ Restrictiveness(q.outcome) <= Restrictiveness(p.outcome)
                      /\ q.outcome = p.outcome /\ Expiry(q) < Forever =>
                            reqs[r].notAfter <= Expiry(q)
=============================================================================
