---------------------------- MODULE PolicyEngine ----------------------------
(***************************************************************************)
(* The policy engine: the pure functions of server/src/policy/mod.rs with  *)
(* the row parsing in front of them (policy_inputs in api/requests.rs) and *)
(* the path matching of types/src/paths.rs.                                *)
(*                                                                         *)
(* Lists of the code whose order does not matter (origins, methods,        *)
(* prefixes, tags) are sets; an empty one is unconstrained.  A path is the *)
(* sequence of its canonical segments; "/" is the empty one.  A trailing   *)
(* slash is not kept: prefix_matches strips it from the prefix and accepts *)
(* it in the path.  Spellings that canonicalize refuses never get here: in *)
(* a request they are an error, in a stored row they make it unreadable.   *)
(***************************************************************************)
EXTENDS Integers, SequencesExt

CONSTANTS
    ClientName,  \* the client whose requests are decided
    Name,        \* secret names
    Tag,
    Host,
    Method,      \* method tokens, in any case
    Segment,     \* path segments, in any case
    Upper,       \* to_ascii_uppercase on methods
    Lower,       \* to_ascii_lowercase on segments
    Id,          \* ids of policy rows, in the order of their uuids
    Forever,     \* DateTime::MAX_UTC
    Null

ASSUME EngineAssumption ==
    /\ Upper \in [Method -> Method]
    /\ \A m \in Method : Upper[Upper[m]] = Upper[m]
    /\ Lower \in [Segment -> Segment]
    /\ Id \subseteq Nat
    /\ Forever \in Nat
    /\ Null \notin Nat

-----------------------------------------------------------------------------
Mechanism == {"brokered", "autofill", "cli-read", "direct-read"}

\* Mechanism::tier.
Tier(m) == CASE m = "brokered" -> 0
             [] m = "autofill" -> 1
             [] m = "cli-read" -> 2
             [] m = "direct-read" -> 3

Outcome == {"auto-approve", "notify-only", "require-approval", "deny"}

\* Outcome::restrictiveness.
Restrictiveness(o) == CASE o = "auto-approve" -> 0
                        [] o = "notify-only" -> 1
                        [] o = "require-approval" -> 2
                        [] o = "deny" -> 3

Path == Seq(Segment)

Origin == [host : Host, port : Nat \cup {Null}]

\* types::Constraints.
Constraints == [origins : SUBSET Origin, methods : SUBSET Method,
                prefixes : SUBSET Path, ttl : Nat, uses : Nat \cup {Null}]

\* A row of policies without its id.  readable: every typed column parses.
\* client and the two selectors are Null in a row for any client or secret.
Rule == [client : {ClientName, Null}, secret : Name \cup {Null}, tag : Tag \cup {Null},
         mech : Mechanism, outcome : Outcome, priority : Int,
         origins : SUBSET Origin, methods : SUBSET Method, prefixes : SUBSET Path,
         maxTtl : Nat \cup {Null}, maxUses : Nat \cup {Null},
         notAfter : (0 .. Forever) \cup {Null},
         readable : BOOLEAN, managed : BOOLEAN]

\* policy::ClientRow and policy::SecretRow.
ClientRow == [enabled : BOOLEAN, maxTier : 0 .. 3, mechanisms : SUBSET Mechanism]

SecretRow == [enabled : BOOLEAN, maxTier : 0 .. 3, vetted : BOOLEAN]

\* What a decision is taken on: the caller's copies of the client, the secret
\* (Null: no such secret), its tags and the policy table, and the time.
Inputs == [client : ClientRow, secret : SecretRow \cup {Null}, name : Name,
           tags : SUBSET Tag, mech : Mechanism, cons : Constraints,
           rows : [Id -> Rule \cup {Null}], now : Nat]

-----------------------------------------------------------------------------
(* Scopes.                                                                 *)

EffectivePort(o) == IF o.port = Null THEN 443 ELSE o.port

SameTarget(a, b) == a.host = b.host /\ EffectivePort(a) = EffectivePort(b)

\* eq_ignore_ascii_case.
SameMethod(a, b) == Upper[a] = Upper[b]

PrefixMatches(prefix, path) == IsPrefix(prefix, path)

LowerPath(path) == [i \in DOMAIN path |-> Lower[path[i]]]

\* Fault: a deny on /admin says nothing of /Admin.
PrefixesOverlapExact(a, b) == PrefixMatches(a, b) \/ PrefixMatches(b, a)

PrefixesOverlap(a, b) == \/ PrefixMatches(LowerPath(a), LowerPath(b))
                         \/ PrefixMatches(LowerPath(b), LowerPath(a))

\* scopes_overlap: every dimension intersects.
ScopesOverlap(p, c) ==
    /\ \/ p.origins = {} \/ c.origins = {}
       \/ \E po \in p.origins, ro \in c.origins : SameTarget(po, ro)
    /\ \/ p.methods = {} \/ c.methods = {}
       \/ \E pm \in p.methods, rm \in c.methods : SameMethod(pm, rm)
    /\ \/ p.prefixes = {} \/ c.prefixes = {}
       \/ \E pp \in p.prefixes, rp \in c.prefixes : PrefixesOverlap(pp, rp)

\* Fault: an unconstrained request fits a row that is constrained.
PrefixesWithinLoose(p, c) ==
    p.prefixes = {} \/ \A rp \in c.prefixes : \E pp \in p.prefixes : PrefixMatches(pp, rp)

PrefixesWithin(p, c) ==
    \/ p.prefixes = {}
    \/ /\ c.prefixes # {}
       /\ \A rp \in c.prefixes : \E pp \in p.prefixes : PrefixMatches(pp, rp)

\* request_is_subset: the request fits the row in every dimension.
RequestIsSubset(p, c) ==
    /\ \/ p.origins = {}
       \/ /\ c.origins # {}
          /\ \A ro \in c.origins : \E po \in p.origins : SameTarget(po, ro)
    /\ \/ p.methods = {}
       \/ /\ c.methods # {}
          /\ \A rm \in c.methods : \E pm \in p.methods : SameMethod(pm, rm)
    /\ PrefixesWithin(p, c)
    /\ p.maxTtl = Null \/ c.ttl <= p.maxTtl
    /\ p.maxUses = Null \/ (c.uses # Null /\ c.uses <= p.maxUses)

-----------------------------------------------------------------------------
(* Decisions.  e is a record of Inputs.                                    *)

\* is_applicable, and row_is_applicable_raw on the stored columns.
IsApplicable(p, e) ==
    /\ p.mech = e.mech
    /\ p.notAfter = Null \/ e.now < p.notAfter
    /\ p.client = Null \/ p.client = ClientName
    /\ \/ p.secret # Null /\ p.secret = e.name
       \/ p.secret = Null /\ p.tag # Null /\ p.tag \in e.tags
       \/ p.secret = Null /\ p.tag = Null

Applicable(e) == {i \in Id : e.rows[i] # Null /\ IsApplicable(e.rows[i], e)}

\* Fault: a row that does not parse is skipped.
SkipUnreadable(e) == TRUE

\* policy_inputs fails closed on a row that applies and does not parse.
PolicyInputs(e) == \A i \in Applicable(e) : e.rows[i].readable

\* The checks that deny whatever the rows say.
HardCapped(e) ==
    \/ ~e.client.enabled
    \/ e.mech \notin e.client.mechanisms
    \/ Tier(e.mech) > e.client.maxTier
    \/ /\ e.secret # Null
       /\ ~e.secret.enabled \/ Tier(e.mech) > e.secret.maxTier

\* Fault: deny rows match like the others, only when they contain the request.
DenySubset(e) == {i \in Applicable(e) : e.rows[i].readable /\ e.rows[i].outcome = "deny"
                                         /\ RequestIsSubset(e.rows[i], e.cons)}

Denying(e) == {i \in Applicable(e) : e.rows[i].readable /\ e.rows[i].outcome = "deny"
                                      /\ ScopesOverlap(e.rows[i], e.cons)}

Matching(e) == {i \in Applicable(e) : e.rows[i].readable /\ e.rows[i].outcome # "deny"
                                       /\ RequestIsSubset(e.rows[i], e.cons)}

Expiry(p) == IF p.notAfter = Null THEN Forever ELSE p.notAfter

SecretSpec(p) == IF p.secret # Null THEN 2 ELSE IF p.tag # Null THEN 1 ELSE 0

\* Fault: equally ranked rows are told apart by their age alone.
PrecedenceKeyById(i, p) ==
    <<IF p.client # Null THEN 1 ELSE 0, SecretSpec(p), p.priority,
      Restrictiveness(p.outcome), i, i>>

\* precedence_key; the expiry is reversed: the earlier wins.
PrecedenceKey(i, p) ==
    <<IF p.client # Null THEN 1 ELSE 0, SecretSpec(p), p.priority,
      Restrictiveness(p.outcome), -Expiry(p), i>>

\* The order of the tuples.
Above(k, l) == \E n \in 1 .. 6 : k[n] > l[n] /\ \A m \in 1 .. (n - 1) : k[m] = l[m]

\* max_by_key: the row above all others, none when no row matches.
Winner(e) ==
    {i \in Matching(e) :
        \A j \in Matching(e) \ {i} :
            Above(PrecedenceKey(i, e.rows[i]), PrecedenceKey(j, e.rows[j]))}

\* Fault: a row that names no origin releases to any host.
ClampedVetted(e, p) == e.secret = Null \/ ~e.secret.vetted

\* A row never releases, without a person, a value that no person has seen or
\* to a host that the row does not name.
Clamped(e, p) ==
    \/ e.secret = Null \/ ~e.secret.vetted
    \/ e.mech = "brokered" /\ p.origins = {}

\* evaluate.  by is the row that produced the decision; when several deny, the
\* first one listed does, which changes nothing but the wording.
Evaluate(e) ==
    LET row == e.rows[CHOOSE i \in Winner(e) : TRUE] IN
    CASE HardCapped(e) -> [decision |-> "deny", by |-> Null]
      [] ~HardCapped(e) /\ Denying(e) # {} ->
             [decision |-> "deny", by |-> e.rows[CHOOSE i \in Denying(e) : TRUE]]
      [] ~HardCapped(e) /\ Denying(e) = {} /\ Winner(e) # {} ->
             [decision |-> IF Clamped(e, row) THEN "require-approval" ELSE row.outcome,
              by |-> row]
      [] OTHER -> [decision |-> "require-approval", by |-> Null]

\* Evaluation::policy_not_after.
Cap(ev) == IF ev.by = Null THEN Null ELSE ev.by.notAfter
=============================================================================
