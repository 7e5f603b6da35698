---------------------------- MODULE PolicyProofs ----------------------------
(***************************************************************************)
(* Theorems about the policy engine and about policy at work.  What the    *)
(* relations on scopes mean comes first, then what evaluate returns, the   *)
(* inductive invariant with one lemma per action, and the invariants that  *)
(* follow from all three.                                                  *)
(***************************************************************************)
EXTENDS Policy, TLAPS

\* One sequence is a prefix of another: no longer, and equal where it is defined.
LEMMA PrefixIsPointwise ==
    ASSUME NEW S, NEW s \in Seq(S), NEW t \in Seq(S)
    PROVE  IsPrefix(s, t) <=> Len(s) <= Len(t) /\ \A i \in 1 .. Len(s) : s[i] = t[i]
PROOF
<1>1. ASSUME IsPrefix(s, t) PROVE Len(s) <= Len(t) /\ \A i \in 1 .. Len(s) : s[i] = t[i]
  BY <1>1 DEF IsPrefix
<1>2. ASSUME Len(s) <= Len(t), \A i \in 1 .. Len(s) : s[i] = t[i] PROVE IsPrefix(s, t)
  BY <1>2 DEF IsPrefix
<1> QED BY <1>1, <1>2

\* A prefix of a prefix is a prefix.
LEMMA PrefixTransitive ==
    ASSUME NEW S, NEW a \in Seq(S), NEW b \in Seq(S), NEW c \in Seq(S),
           IsPrefix(a, b), IsPrefix(b, c)
    PROVE  IsPrefix(a, c)
PROOF
<1>1. Len(a) <= Len(b) /\ \A i \in 1 .. Len(a) : a[i] = b[i]
  BY PrefixIsPointwise
<1>2. Len(b) <= Len(c) /\ \A i \in 1 .. Len(b) : b[i] = c[i]
  BY PrefixIsPointwise
<1>3. Len(a) <= Len(c) /\ \A i \in 1 .. Len(a) : a[i] = c[i]
  BY <1>1, <1>2
<1> QED BY <1>3, PrefixIsPointwise

\* Two prefixes of one sequence are comparable.
LEMMA PrefixesComparable ==
    ASSUME NEW S, NEW a \in Seq(S), NEW b \in Seq(S), NEW c \in Seq(S),
           IsPrefix(a, c), IsPrefix(b, c)
    PROVE  IsPrefix(a, b) \/ IsPrefix(b, a)
PROOF
<1>1. Len(a) <= Len(c) /\ \A i \in 1 .. Len(a) : a[i] = c[i]
  BY PrefixIsPointwise
<1>2. Len(b) <= Len(c) /\ \A i \in 1 .. Len(b) : b[i] = c[i]
  BY PrefixIsPointwise
<1>3. CASE Len(a) <= Len(b)
  <2>1. \A i \in 1 .. Len(a) : a[i] = b[i]
    BY <1>1, <1>2, <1>3
  <2> QED BY <2>1, <1>3, PrefixIsPointwise
<1>4. CASE Len(b) <= Len(a)
  <2>1. \A i \in 1 .. Len(b) : b[i] = a[i]
    BY <1>1, <1>2, <1>4
  <2> QED BY <2>1, <1>4, PrefixIsPointwise
<1> QED BY <1>3, <1>4

\* Folding the case of a path keeps it a path, and keeps its prefixes.
LEMMA LowerPathType ==
    ASSUME NEW a \in Path
    PROVE  LowerPath(a) \in Path
PROOF
<1>1. /\ Len(a) \in Nat
      /\ DOMAIN a = 1 .. Len(a)
      /\ \A i \in 1 .. Len(a) : a[i] \in Segment
  BY DEF Path
<1>2. LowerPath(a) \in [1 .. Len(a) -> Segment]
  BY <1>1, EngineAssumption DEF LowerPath
<1> QED BY <1>1, <1>2 DEF Path

\* A prefix stays one when both paths are folded (to_ascii_lowercase in
\* scopes_overlap).
LEMMA LowerPathPrefix ==
    ASSUME NEW a \in Path, NEW b \in Path, IsPrefix(a, b)
    PROVE  IsPrefix(LowerPath(a), LowerPath(b))
PROOF
<1>1. Len(a) <= Len(b) /\ \A i \in 1 .. Len(a) : a[i] = b[i]
  BY PrefixIsPointwise DEF Path
<1>2. DOMAIN a = 1 .. Len(a) /\ DOMAIN b = 1 .. Len(b) /\ Len(a) \in Nat /\ Len(b) \in Nat
  BY DEF Path
<1>3. LowerPath(a) \in Path /\ LowerPath(b) \in Path
  BY LowerPathType
<1>4. DOMAIN LowerPath(a) = 1 .. Len(a) /\ DOMAIN LowerPath(b) = 1 .. Len(b)
  BY <1>2 DEF LowerPath
<1>5. Len(LowerPath(a)) = Len(a) /\ Len(LowerPath(b)) = Len(b)
  BY <1>2, <1>3, <1>4 DEF Path
<1>6. \A i \in 1 .. Len(a) : LowerPath(a)[i] = LowerPath(b)[i]
  BY <1>1, <1>2 DEF LowerPath
<1> QED BY <1>1, <1>3, <1>5, <1>6, PrefixIsPointwise DEF Path

-----------------------------------------------------------------------------
\* A call that a grant's constraints let through.
Lets(c, o, method, path) ==
    /\ o \in c.origins
    /\ c.methods = {} \/ \E m \in c.methods : SameMethod(m, method)
    /\ PathAllowed(c, path)

\* request_is_subset is sound: what a request that fits a row lets through
\* lies in the scope of the row.
THEOREM SubsetSound ==
    ASSUME NEW p \in Rule, NEW c \in Constraints, NEW o, NEW method, NEW path \in Path,
           RequestIsSubset(p, c), Lets(c, o, method, path)
    PROVE  Covers(p, o, method, path)
PROOF
<1>1. p.origins = {} \/ \E po \in p.origins : SameTarget(po, o)
  BY Zenon DEF RequestIsSubset, Lets
<1>2. p.methods = {} \/ \E pm \in p.methods : SameMethod(pm, method)
  <2>1. ASSUME p.methods # {} PROVE \E pm \in p.methods : SameMethod(pm, method)
    <3>1. c.methods # {} /\ \A rm \in c.methods : \E pm \in p.methods : SameMethod(pm, rm)
      BY <2>1, Zenon DEF RequestIsSubset
    <3>2. PICK rm \in c.methods : SameMethod(rm, method)
      BY <3>1, Zenon DEF Lets
    <3>3. PICK pm \in p.methods : SameMethod(pm, rm)
      BY <3>1, Zenon
    <3> QED BY <3>2, <3>3 DEF SameMethod
  <2> QED BY <2>1
<1>3. p.prefixes = {} \/ \E pp \in p.prefixes : PrefixMatches(pp, path)
  <2>1. ASSUME p.prefixes # {} PROVE \E pp \in p.prefixes : PrefixMatches(pp, path)
    <3>1. c.prefixes # {} /\ \A rp \in c.prefixes : \E pp \in p.prefixes : PrefixMatches(pp, rp)
      BY <2>1, Zenon DEF RequestIsSubset, PrefixesWithin
    <3>2. PICK rp \in c.prefixes : PrefixMatches(rp, path)
      BY <3>1, Zenon DEF Lets, PathAllowed
    <3>3. PICK pp \in p.prefixes : PrefixMatches(pp, rp)
      BY <3>1, Zenon
    <3>4. pp \in Seq(Segment) /\ rp \in Seq(Segment) /\ path \in Seq(Segment)
      BY DEF Rule, Constraints, Path
    <3>5. IsPrefix(pp, path)
      BY <3>2, <3>3, <3>4, PrefixTransitive DEF PrefixMatches
    <3> QED BY <3>5 DEF PrefixMatches
  <2> QED BY <2>1
<1> QED BY <1>1, <1>2, <1>3 DEF Covers

\* scopes_overlap is sound: a request that lets a call through, which a row
\* covers in some case of its path, overlaps the row.
THEOREM OverlapSound ==
    ASSUME NEW p \in Rule, NEW c \in Constraints, NEW o, NEW method, NEW path \in Path,
           CoversAnyCase(p, o, method, path), Lets(c, o, method, path)
    PROVE  ScopesOverlap(p, c)
PROOF
<1>1. \/ p.origins = {} \/ c.origins = {}
      \/ \E po \in p.origins, ro \in c.origins : SameTarget(po, ro)
  BY Zenon DEF CoversAnyCase, Lets
<1>2. \/ p.methods = {} \/ c.methods = {}
      \/ \E pm \in p.methods, rm \in c.methods : SameMethod(pm, rm)
  <2>1. ASSUME p.methods # {}, c.methods # {}
        PROVE  \E pm \in p.methods, rm \in c.methods : SameMethod(pm, rm)
    <3>1. PICK pm \in p.methods : SameMethod(pm, method)
      BY <2>1, Zenon DEF CoversAnyCase
    <3>2. PICK rm \in c.methods : SameMethod(rm, method)
      BY <2>1, Zenon DEF Lets
    <3>3. SameMethod(pm, rm)
      BY <3>1, <3>2 DEF SameMethod
    <3> QED BY <3>3
  <2> QED BY <2>1
<1>3. \/ p.prefixes = {} \/ c.prefixes = {}
      \/ \E pp \in p.prefixes, rp \in c.prefixes : PrefixesOverlap(pp, rp)
  <2>1. ASSUME p.prefixes # {}, c.prefixes # {}
        PROVE  \E pp \in p.prefixes, rp \in c.prefixes : PrefixesOverlap(pp, rp)
    <3>1. PICK pp \in p.prefixes : PrefixMatches(LowerPath(pp), LowerPath(path))
      BY <2>1, Zenon DEF CoversAnyCase
    <3>2. PICK rp \in c.prefixes : PrefixMatches(rp, path)
      BY <2>1, Zenon DEF Lets, PathAllowed
    <3>3. pp \in Path /\ rp \in Path
      BY DEF Rule, Constraints
    <3>4. /\ LowerPath(pp) \in Seq(Segment)
          /\ LowerPath(rp) \in Seq(Segment)
          /\ LowerPath(path) \in Seq(Segment)
      BY <3>3, LowerPathType DEF Path
    <3>5. IsPrefix(LowerPath(pp), LowerPath(path)) /\ IsPrefix(LowerPath(rp), LowerPath(path))
      BY <3>1, <3>2, <3>3, LowerPathPrefix DEF PrefixMatches
    <3>6. PrefixesOverlap(pp, rp)
      BY <3>4, <3>5, PrefixesComparable DEF PrefixesOverlap, PrefixMatches
    <3> QED BY <3>6
  <2> QED BY <2>1
<1> QED BY <1>1, <1>2, <1>3 DEF ScopesOverlap

-----------------------------------------------------------------------------
(* What evaluate returns.                                                  *)

\* What is stored under an id in the inputs of evaluate is a policy row.
LEMMA RowType ==
    ASSUME NEW e \in Inputs, NEW i \in Id, e.rows[i] # Null
    PROVE  e.rows[i] \in Rule
PROOF
<1>1. e.rows \in [Id -> Rule \cup {Null}]
  BY DEF Inputs
<1> QED BY <1>1, Zenon

\* A matching row applies, contains the request and does not deny.
LEMMA RowOfMatching ==
    ASSUME NEW e \in Inputs, NEW i \in Matching(e)
    PROVE  /\ i \in Id
           /\ e.rows[i] \in Rule
           /\ IsApplicable(e.rows[i], e)
           /\ RequestIsSubset(e.rows[i], e.cons)
           /\ e.rows[i].outcome # "deny"
PROOF
<1>1. i \in Applicable(e) /\ RequestIsSubset(e.rows[i], e.cons) /\ e.rows[i].outcome # "deny"
  BY DEF Matching
<1>2. i \in Id /\ e.rows[i] # Null /\ IsApplicable(e.rows[i], e)
  BY <1>1 DEF Applicable
<1> QED BY <1>1, <1>2, RowType

\* A denying row is a row of the table.
LEMMA RowOfDenying ==
    ASSUME NEW e \in Inputs, NEW i \in Denying(e)
    PROVE  e.rows[i] \in Rule
PROOF
<1>1. i \in Id /\ e.rows[i] # Null
  BY DEF Denying, Applicable
<1> QED BY <1>1, RowType

\* The four ways evaluate can end.
LEMMA EvaluateCases ==
    ASSUME NEW e \in Inputs
    PROVE  \/ Evaluate(e) = [decision |-> "deny", by |-> Null]
           \/ \E i \in Denying(e) : Evaluate(e) = [decision |-> "deny", by |-> e.rows[i]]
           \/ /\ Denying(e) = {}
              /\ \E i \in Winner(e) :
                    Evaluate(e) = [decision |-> IF Clamped(e, e.rows[i]) THEN "require-approval"
                                                ELSE e.rows[i].outcome,
                                   by |-> e.rows[i]]
           \/ Denying(e) = {} /\ Evaluate(e) = [decision |-> "require-approval", by |-> Null]
PROOF
<1>1. CASE HardCapped(e)
  BY <1>1 DEF Evaluate
<1>2. CASE ~HardCapped(e) /\ Denying(e) # {}
  <2>1. (CHOOSE i \in Denying(e) : TRUE) \in Denying(e)
    BY <1>2
  <2>2. Evaluate(e) = [decision |-> "deny", by |-> e.rows[CHOOSE i \in Denying(e) : TRUE]]
    BY <1>2 DEF Evaluate
  <2> QED BY <2>1, <2>2
<1>3. CASE ~HardCapped(e) /\ Denying(e) = {} /\ Winner(e) # {}
  <2> DEFINE w == CHOOSE i \in Winner(e) : TRUE
  <2>1. w \in Winner(e)
    BY <1>3
  <2>2. Evaluate(e) = [decision |-> IF Clamped(e, e.rows[w]) THEN "require-approval"
                                    ELSE e.rows[w].outcome,
                       by |-> e.rows[w]]
    BY <1>3 DEF Evaluate
  <2> QED BY <2>1, <2>2, <1>3
<1>4. CASE ~HardCapped(e) /\ Denying(e) = {} /\ Winner(e) = {}
  BY <1>4 DEF Evaluate
<1> QED BY <1>1, <1>2, <1>3, <1>4

\* A decision is an outcome, produced by no row or by one of the table.
LEMMA EvaluateType ==
    ASSUME NEW e \in Inputs
    PROVE  /\ Evaluate(e) \in Evaluation
           /\ Cap(Evaluate(e)) \in Nat \cup {Null}
PROOF
<1>1. CASE \E i \in Denying(e) : Evaluate(e) = [decision |-> "deny", by |-> e.rows[i]]
  <2>1. PICK i \in Denying(e) : Evaluate(e) = [decision |-> "deny", by |-> e.rows[i]]
    BY <1>1
  <2>2. e.rows[i] \in Rule
    BY RowOfDenying
  <2>3. Evaluate(e) \in Evaluation
    BY <2>1, <2>2 DEF Evaluation, Outcome
  <2>4. e.rows[i].notAfter \in Nat \cup {Null}
    BY <2>2, EngineAssumption DEF Rule
  <2> QED BY <2>1, <2>2, <2>3, <2>4 DEF Cap
<1>2. CASE \E i \in Winner(e) :
              Evaluate(e) = [decision |-> IF Clamped(e, e.rows[i]) THEN "require-approval"
                                          ELSE e.rows[i].outcome,
                             by |-> e.rows[i]]
  <2>1. PICK i \in Winner(e) :
              Evaluate(e) = [decision |-> IF Clamped(e, e.rows[i]) THEN "require-approval"
                                          ELSE e.rows[i].outcome,
                             by |-> e.rows[i]]
    BY <1>2
  <2>2. e.rows[i] \in Rule
    BY RowOfMatching DEF Winner
  <2>3. e.rows[i].outcome \in Outcome
    BY <2>2 DEF Rule
  <2>4. Evaluate(e) \in Evaluation
    BY <2>1, <2>2, <2>3 DEF Evaluation, Outcome
  <2>5. e.rows[i].notAfter \in Nat \cup {Null}
    BY <2>2, EngineAssumption DEF Rule
  <2> QED BY <2>1, <2>2, <2>4, <2>5 DEF Cap
<1>3. CASE Evaluate(e).by = Null /\ Evaluate(e) \in Evaluation
  BY <1>3 DEF Cap
<1>4. [decision |-> "deny", by |-> Null] \in Evaluation
      /\ [decision |-> "require-approval", by |-> Null] \in Evaluation
  BY DEF Evaluation, Outcome
<1> QED BY <1>1, <1>2, <1>3, <1>4, EvaluateCases

\* When policy releases, the row that wins does, unclamped.
LEMMA ReleaseHasWinner ==
    ASSUME NEW e \in Inputs, Evaluate(e).decision \in {"auto-approve", "notify-only"}
    PROVE  \E i \in Winner(e) : /\ Evaluate(e).by = e.rows[i]
                                /\ ~Clamped(e, e.rows[i])
                                /\ e.rows[i].outcome \in {"auto-approve", "notify-only"}
PROOF
<1>1. PICK i \in Winner(e) :
              Evaluate(e) = [decision |-> IF Clamped(e, e.rows[i]) THEN "require-approval"
                                          ELSE e.rows[i].outcome,
                             by |-> e.rows[i]]
  BY EvaluateCases
<1>2. Evaluate(e).decision = IF Clamped(e, e.rows[i]) THEN "require-approval" ELSE e.rows[i].outcome
  BY <1>1
<1>3. ~Clamped(e, e.rows[i]) /\ e.rows[i].outcome = Evaluate(e).decision
  BY <1>2
<1> QED BY <1>1, <1>3

\* When policy does not deny, no deny row overlaps.
LEMMA NoDenyOverlaps ==
    ASSUME NEW e \in Inputs, Evaluate(e).decision # "deny"
    PROVE  Denying(e) = {}
PROOF BY EvaluateCases

-----------------------------------------------------------------------------
(* The inductive invariant.                                                *)

\* The scope that the proxy enforces; an approval may narrow the rest.
SameScope(c, d) == c.origins = d.origins /\ c.methods = d.methods /\ c.prefixes = d.prefixes

Decided == {"pending", "commit", "approved"}

\* Every evaluation a slot rests on is one of policy, for the same mechanism
\* and scope.
BasisSound(s) ==
    \A b \in s.basis : /\ b.ev = Evaluate(b.in)
                       /\ PolicyInputs(b.in)
                       /\ b.in.mech = s.ask.mech
                       /\ SameScope(b.in.cons, s.ask.cons)

\* The inputs being gathered are for that mechanism and scope too.
InputsSound(s) == s.in.mech = s.ask.mech /\ SameScope(s.in.cons, s.ask.cons)

\* A request that is still to be granted was not denied.
NotDenied(s) == s.at \in Decided \/ s.sub => \A b \in s.basis : b.ev.decision # "deny"

\* The request's cap is that of the row that matched it.
CapSound(s) == s.at # "approved" => \A b \in s.basis : Cap(b.ev) = s.cap

InsertSound(s) == s.at = "insert" => s.basis = {[in |-> s.in, ev |-> s.ev]}

CommitSound(s) ==
    s.at = "commit" => /\ s.ev = Evaluate(s.in)
                       /\ PolicyInputs(s.in)
                       /\ s.ev.decision # "deny"

\* Only an approval by policy is automatic, and it rests on a row that releases.
AutoSound(s) ==
    s.auto => /\ s.at = "approved"
              /\ \A b \in s.basis : b.ev.decision \in {"auto-approve", "notify-only"}

Lapses(s) ==
    s.at = "approved" => \A b \in s.basis : Cap(b.ev) # Null => s.notAfter <= Cap(b.ev)

SlotInv(s) ==
    /\ BasisSound(s) /\ InputsSound(s) /\ NotDenied(s) /\ CapSound(s)
    /\ InsertSound(s) /\ CommitSound(s) /\ AutoSound(s) /\ Lapses(s)

SlotsSound == \A r \in Request : reqs[r] # Null => SlotInv(reqs[r])

IInv == TypeOK /\ SlotsSound

\* A request's new slot is sound if it is empty or satisfies the invariant.
Sound(x) == x = Null \/ (x \in Slot /\ SlotInv(x))

\* Under the invariant, a request that has a slot has a sound one.
LEMMA SlotOf ==
    ASSUME IInv, NEW r \in Request, reqs[r] # Null
    PROVE  reqs[r] \in Slot /\ SlotInv(reqs[r])
PROOF
<1>1. reqs \in [Request -> Slot \cup {Null}]
  BY DEF IInv, TypeOK
<1> QED BY <1>1 DEF IInv, SlotsSound

\* A step that gives one request a sound slot keeps all slots sound.
LEMMA SetSound ==
    ASSUME IInv, NEW r \in Request, NEW x, Sound(x), Set(r, x)
    PROVE  reqs' \in [Request -> Slot \cup {Null}] /\ SlotsSound'
PROOF
<1>1. reqs \in [Request -> Slot \cup {Null}]
  BY DEF IInv, TypeOK
<1>2. reqs' = [reqs EXCEPT ![r] = x] /\ x \in Slot \cup {Null}
  BY DEF Set, Sound
<1>3. reqs' \in [Request -> Slot \cup {Null}]
  BY <1>1, <1>2
<1>4. ASSUME NEW q \in Request, reqs'[q] # Null PROVE SlotInv(reqs'[q])
  <2>1. CASE q = r
    BY <2>1, <1>1, <1>2, <1>4 DEF Sound
  <2>2. CASE q # r
    <3>1. reqs'[q] = reqs[q]
      BY <2>2, <1>1, <1>2
    <3> QED BY <3>1, <1>4 DEF IInv, SlotsSound
  <2> QED BY <2>1, <2>2
<1>5. SlotsSound'
  BY <1>4 DEF SlotsSound
<1> QED BY <1>3, <1>5

-----------------------------------------------------------------------------
(* Each step of a handler leaves a sound slot.                             *)

\* What validate_request stores is a request.
LEMMA NormalizedType ==
    ASSUME NEW a \in Ask, ValidAsk(a)
    PROVE  Normalized(a) \in Ask
PROOF
<1>1. a.cons \in Constraints /\ a.name \in Name /\ a.mech \in Mechanism
  BY DEF Ask
<1> DEFINE M == {Upper[m] : m \in a.cons.methods}
           u == IF a.mech = "brokered" THEN a.cons.uses ELSE 1
           c == [a.cons EXCEPT !.methods = M, !.uses = u]
<1>2. M \subseteq Method
  BY <1>1, EngineAssumption DEF Constraints
<1>3. u \in Nat \cup {Null}
  BY <1>1 DEF Constraints
<1> HIDE DEF M, u
<1>4. c \in Constraints
  BY <1>1, <1>2, <1>3 DEF Constraints
<1>5. Normalized(a) = [a EXCEPT !.cons = c]
  BY <1>1 DEF Normalized, Ask, Constraints, M, u
<1> HIDE DEF c
<1> QED BY <1>1, <1>4, <1>5 DEF Ask

\* The handler starts with a sound slot: its scope is the one that was asked for.
LEMMA ArriveSound ==
    ASSUME IInv, NEW r \in Request, NEW a \in Asks, Arrive(r, a)
    PROVE  reqs' \in [Request -> Slot \cup {Null}] /\ SlotsSound'
PROOF
<1> DEFINE q == Normalized(a)
           i == [client |-> client, secret |-> Null, name |-> q.name, tags |-> {},
                 mech |-> q.mech, cons |-> q.cons,
                 rows |-> [j \in Id |-> Null], now |-> 0]
           x == [at |-> "secret", sub |-> FALSE, ask |-> q, in |-> i,
                 ev |-> NoEvaluation, basis |-> {}, cap |-> Null, notAfter |-> 0,
                 released |-> q.name, auto |-> FALSE]
<1>1. q \in Ask
  BY NormalizedType, PolicyAssumption DEF Arrive
<1>2. q.name \in Name /\ q.mech \in Mechanism /\ q.cons \in Constraints
  BY <1>1 DEF Ask
<1>3. client \in ClientRow
  BY PolicyAssumption DEF IInv, TypeOK
<1>4. Set(r, x)
  BY DEF Arrive
<1> HIDE DEF q
<1>5. i \in Inputs
  BY <1>2, <1>3 DEF Inputs
<1>6. i.mech = q.mech /\ i.cons = q.cons
  OBVIOUS
<1> HIDE DEF i
<1>7. NoEvaluation \in Evaluation
  BY DEF NoEvaluation, Evaluation, Outcome
<1>8. x \in Slot
  BY <1>1, <1>2, <1>5, <1>7 DEF Slot, Reading
<1>9. SlotInv(x)
  BY <1>6 DEF SlotInv, BasisSound, InputsSound, SameScope, NotDenied, CapSound, InsertSound,
              CommitSound, AutoSound, Lapses
<1> HIDE DEF x
<1> QED BY <1>4, <1>8, <1>9, SetSound DEF Sound

\* The inputs of a slot that is being read may change in anything but the
\* mechanism and the scope.
LEMMA ReadingSound ==
    ASSUME NEW s \in Slot, SlotInv(s), s.at \in Reading,
           NEW i \in Inputs, i.mech = s.in.mech, i.cons = s.in.cons,
           NEW step \in Reading,
           NEW x, x = [s EXCEPT !.at = step, !.in = i]
    PROVE  Sound(x)
PROOF
<1>1. x \in Slot
  BY DEF Slot
<1>2. /\ x.at = step /\ x.in = i /\ x.sub = s.sub /\ x.ask = s.ask
      /\ x.basis = s.basis /\ x.cap = s.cap /\ x.auto = s.auto
  BY DEF Slot
<1>3. step # "insert" /\ step # "commit" /\ step # "approved" /\ step \notin Decided
      /\ s.at # "approved"
  BY DEF Reading, Decided
<1>4. BasisSound(x) /\ InputsSound(x)
  BY <1>2 DEF SlotInv, BasisSound, InputsSound
<1>5. NotDenied(x) /\ CapSound(x)
  BY <1>2, <1>3 DEF SlotInv, NotDenied, CapSound
<1>6. InsertSound(x) /\ CommitSound(x) /\ Lapses(x)
  BY <1>2, <1>3 DEF InsertSound, CommitSound, Lapses
<1>7. AutoSound(x)
  BY <1>2, <1>3 DEF SlotInv, AutoSound
<1> QED BY <1>1, <1>4, <1>5, <1>6, <1>7 DEF Sound, SlotInv

\* get_secret_by_name changes neither mechanism nor scope.
LEMMA ReadSecretSound ==
    ASSUME IInv, NEW r \in Request, ReadSecret(r)
    PROVE  reqs' \in [Request -> Slot \cup {Null}] /\ SlotsSound'
PROOF
<1> DEFINE s == reqs[r]
           v == secrets[s.in.name]
           i == [s.in EXCEPT !.secret = v]
           x == [s EXCEPT !.at = "tags", !.in.secret = v]
<1>1. s \in Slot /\ SlotInv(s) /\ s.at \in Reading
  BY SlotOf DEF ReadSecret, At, Reading
<1>2. s.in \in Inputs
  BY <1>1 DEF Slot
<1>3. v \in SecretRow \cup {Null}
  <2>1. s.in.name \in Name
    BY <1>2 DEF Inputs
  <2> QED BY <2>1 DEF IInv, TypeOK
<1>4. Set(r, x)
  BY DEF ReadSecret
<1> HIDE DEF v
<1>5. i \in Inputs /\ i.mech = s.in.mech /\ i.cons = s.in.cons
  BY <1>2, <1>3 DEF Inputs
<1> HIDE DEF s
<1>6. x = [s EXCEPT !.at = "tags", !.in = i]
  BY <1>1 DEF Slot
<1> HIDE DEF x, i
<1>7. "tags" \in Reading
  BY DEF Reading
<1>8. Sound(x)
  BY <1>1, <1>5, <1>6, <1>7, ReadingSound
<1> QED BY <1>4, <1>8, SetSound

\* get_tags_for_secret changes neither mechanism nor scope.
LEMMA ReadTagsSound ==
    ASSUME IInv, NEW r \in Request, ReadTags(r)
    PROVE  reqs' \in [Request -> Slot \cup {Null}] /\ SlotsSound'
PROOF
<1> DEFINE s == reqs[r]
           v == IF s.in.secret = Null THEN {} ELSE tags[s.in.name]
           i == [s.in EXCEPT !.tags = v]
           x == [s EXCEPT !.at = "policies", !.in.tags = v]
<1>1. s \in Slot /\ SlotInv(s) /\ s.at \in Reading
  BY SlotOf DEF ReadTags, At, Reading
<1>2. s.in \in Inputs
  BY <1>1 DEF Slot
<1>3. v \in SUBSET Tag
  <2>1. s.in.name \in Name
    BY <1>2 DEF Inputs
  <2>2. tags[s.in.name] \in SUBSET Tag
    BY <2>1 DEF IInv, TypeOK
  <2> QED BY <2>2
<1>4. Set(r, x)
  BY DEF ReadTags
<1> HIDE DEF v
<1>5. i \in Inputs /\ i.mech = s.in.mech /\ i.cons = s.in.cons
  BY <1>2, <1>3 DEF Inputs
<1> HIDE DEF s
<1>6. x = [s EXCEPT !.at = "policies", !.in = i]
  BY <1>1 DEF Slot
<1> HIDE DEF x, i
<1>7. "policies" \in Reading
  BY DEF Reading
<1>8. Sound(x)
  BY <1>1, <1>5, <1>6, <1>7, ReadingSound
<1> QED BY <1>4, <1>8, SetSound

\* list_policies changes neither mechanism nor scope.
LEMMA ListPoliciesSound ==
    ASSUME IInv, NEW r \in Request, ListPolicies(r)
    PROVE  reqs' \in [Request -> Slot \cup {Null}] /\ SlotsSound'
PROOF
<1> DEFINE s == reqs[r]
           i == [s.in EXCEPT !.rows = policies]
           x == [s EXCEPT !.at = "evaluate", !.in.rows = policies]
<1>1. s \in Slot /\ SlotInv(s) /\ s.at \in Reading
  BY SlotOf DEF ListPolicies, At, Reading
<1>2. s.in \in Inputs
  BY <1>1 DEF Slot
<1>3. policies \in [Id -> Rule \cup {Null}]
  BY PolicyAssumption DEF IInv, TypeOK
<1>4. Set(r, x)
  BY DEF ListPolicies
<1>5. i \in Inputs /\ i.mech = s.in.mech /\ i.cons = s.in.cons
  BY <1>2, <1>3 DEF Inputs
<1> HIDE DEF s
<1>6. x = [s EXCEPT !.at = "evaluate", !.in = i]
  BY <1>1 DEF Slot
<1> HIDE DEF x, i
<1>7. "evaluate" \in Reading
  BY DEF Reading
<1>8. Sound(x)
  BY <1>1, <1>5, <1>6, <1>7, ReadingSound
<1> QED BY <1>4, <1>8, SetSound

\* After policy_inputs and evaluate, the request rests on that evaluation alone.
LEMMA DecideSound ==
    ASSUME IInv, NEW r \in Request, Decide(r)
    PROVE  reqs' \in [Request -> Slot \cup {Null}] /\ SlotsSound'
PROOF
<1> DEFINE s == reqs[r]
           e == [s.in EXCEPT !.now = now]
           ev == Evaluate(e)
           x == [s EXCEPT !.at = "insert", !.in = e, !.ev = ev,
                          !.basis = {[in |-> e, ev |-> ev]}, !.cap = Cap(ev)]
<1>1. s \in Slot /\ SlotInv(s) /\ s.at = "evaluate" /\ ~s.sub
  BY SlotOf DEF Decide, At
<1>2. s.in \in Inputs
  BY <1>1 DEF Slot
<1>3. e \in Inputs /\ e.mech = s.in.mech /\ e.cons = s.in.cons
  <2>1. now \in Nat
    BY DEF IInv, TypeOK
  <2> QED BY <2>1, <1>2 DEF Inputs
<1>4. Set(r, IF ~PolicyInputs(e) THEN Null ELSE x)
  BY DEF Decide
<1> HIDE DEF e
<1>5. ev \in Evaluation /\ Cap(ev) \in Nat \cup {Null}
  BY <1>3, EvaluateType
<1>6. ev = Evaluate(e)
  OBVIOUS
<1> HIDE DEF s, ev
<1>7. [in |-> e, ev |-> ev] \in Basis
  BY <1>3, <1>5 DEF Basis
<1>8. x \in Slot
  BY <1>1, <1>3, <1>5, <1>7 DEF Slot
<1>9. /\ x.at = "insert" /\ x.in = e /\ x.ev = ev /\ x.basis = {[in |-> e, ev |-> ev]}
      /\ x.cap = Cap(ev) /\ x.sub = s.sub /\ x.ask = s.ask /\ x.auto = s.auto
  BY <1>1 DEF Slot
<1> HIDE DEF x
<1>10. ASSUME PolicyInputs(e) PROVE Sound(x)
  <2>1. e.mech = s.ask.mech /\ SameScope(e.cons, s.ask.cons)
    BY <1>1, <1>3 DEF SlotInv, InputsSound
  <2>2. BasisSound(x) /\ InputsSound(x)
    BY <2>1, <1>6, <1>9, <1>10 DEF BasisSound, InputsSound
  <2>3. NotDenied(x)
    BY <1>1, <1>9 DEF NotDenied, Decided
  <2>4. CapSound(x) /\ InsertSound(x)
    BY <1>9 DEF CapSound, InsertSound
  <2>5. CommitSound(x) /\ Lapses(x)
    BY <1>9 DEF CommitSound, Lapses
  <2>6. AutoSound(x)
    BY <1>1, <1>9 DEF SlotInv, AutoSound
  <2> QED BY <1>8, <2>2, <2>3, <2>4, <2>5, <2>6 DEF Sound, SlotInv
<1>11. Sound(IF ~PolicyInputs(e) THEN Null ELSE x)
  BY <1>10 DEF Sound
<1> QED BY <1>4, <1>11, SetSound

\* The deadline of a grant is a time no later than the cap.
LEMMA DeadlineCapped ==
    ASSUME NEW t \in Nat, NEW ttl \in Nat, NEW cap \in Nat \cup {Null}
    PROVE  /\ Deadline(t, ttl, cap) \in Nat
           /\ cap # Null => Deadline(t, ttl, cap) <= cap
PROOF
<1>1. CASE cap = Null
  BY <1>1 DEF Deadline
<1>2. CASE cap \in Nat
  BY <1>2 DEF Deadline
<1> QED BY <1>1, <1>2

\* A request that was not denied may be granted until its cap.
LEMMA GrantSound ==
    ASSUME NEW s \in Slot, SlotInv(s), s.at # "approved",
           \A b \in s.basis : b.ev.decision # "deny",
           NEW d \in Nat, s.cap # Null => d <= s.cap,
           NEW auto \in BOOLEAN,
           auto => \A b \in s.basis : b.ev.decision \in {"auto-approve", "notify-only"},
           NEW x \in Slot,
           x.at = "approved", x.notAfter = d, x.auto = auto, x.in = s.in,
           x.ask = s.ask, x.basis = s.basis
    PROVE  Sound(x)
PROOF
<1>1. BasisSound(x) /\ InputsSound(x)
  BY DEF SlotInv, BasisSound, InputsSound
<1>2. NotDenied(x) /\ CapSound(x) /\ InsertSound(x) /\ CommitSound(x)
  BY DEF NotDenied, CapSound, InsertSound, CommitSound
<1>3. AutoSound(x)
  BY DEF AutoSound
<1>4. Lapses(x)
  BY DEF SlotInv, CapSound, Lapses
<1> QED BY <1>1, <1>2, <1>3, <1>4 DEF Sound, SlotInv

\* The insert denies, leaves pending or grants as the evaluation says, and a
\* grant lapses with its row.
LEMMA InsertStepSound ==
    ASSUME IInv, NEW r \in Request, Insert(r)
    PROVE  reqs' \in [Request -> Slot \cup {Null}] /\ SlotsSound'
PROOF
<1> DEFINE s == reqs[r]
           d == Deadline(s.in.now, s.ask.cons.ttl, s.cap)
           x == [s EXCEPT !.at = "approved", !.auto = TRUE, !.notAfter = d]
           y == CASE s.ev.decision = "deny" -> [s EXCEPT !.at = "denied"]
                  [] s.ev.decision = "require-approval" -> [s EXCEPT !.at = "pending"]
                  [] OTHER -> IF now < d THEN x ELSE Null
<1>1. s \in Slot /\ SlotInv(s) /\ s.at = "insert"
  BY SlotOf DEF Insert, At
<1>2. Set(r, y)
  BY DEF Insert
<1>3. s.in.now \in Nat /\ s.ask.cons.ttl \in Nat /\ s.cap \in Nat \cup {Null}
  BY <1>1 DEF Slot, Inputs, Ask, Constraints
<1>4. d \in Nat /\ (s.cap # Null => d <= s.cap)
  BY <1>3, DeadlineCapped
<1>5. s.ev.decision \in Outcome
  BY <1>1 DEF Slot, Evaluation
<1>6. s.basis = {[in |-> s.in, ev |-> s.ev]}
  BY <1>1 DEF SlotInv, InsertSound
<1> HIDE DEF s, d
<1>7. CASE s.ev.decision = "deny"
  <2> DEFINE z == [s EXCEPT !.at = "denied"]
  <2>1. z \in Slot
    BY <1>1 DEF Slot
  <2>2. /\ z.at = "denied" /\ z.in = s.in /\ z.ask = s.ask /\ z.basis = s.basis
        /\ z.sub = s.sub /\ z.cap = s.cap /\ z.auto = s.auto
    BY <1>1 DEF Slot
  <2>3. y = z
    BY <1>7
  <2> HIDE DEF z, y
  <2>4. BasisSound(z) /\ InputsSound(z)
    BY <2>2, <1>1 DEF SlotInv, BasisSound, InputsSound
  <2>5. NotDenied(z) /\ CapSound(z)
    BY <2>2, <1>1 DEF SlotInv, NotDenied, CapSound, Decided
  <2>6. InsertSound(z) /\ CommitSound(z) /\ Lapses(z)
    BY <2>2 DEF InsertSound, CommitSound, Lapses
  <2>7. AutoSound(z)
    BY <2>2, <1>1 DEF SlotInv, AutoSound
  <2>8. Sound(y)
    BY <2>1, <2>3, <2>4, <2>5, <2>6, <2>7 DEF Sound, SlotInv
  <2> QED BY <2>8, <1>2, SetSound
<1>8. CASE s.ev.decision = "require-approval"
  <2> DEFINE z == [s EXCEPT !.at = "pending"]
  <2>1. z \in Slot
    BY <1>1 DEF Slot
  <2>2. /\ z.at = "pending" /\ z.in = s.in /\ z.ask = s.ask /\ z.basis = s.basis
        /\ z.sub = s.sub /\ z.cap = s.cap /\ z.auto = s.auto
    BY <1>1 DEF Slot
  <2>3. y = z
    BY <1>8
  <2> HIDE DEF z, y
  <2>4. BasisSound(z) /\ InputsSound(z)
    BY <2>2, <1>1 DEF SlotInv, BasisSound, InputsSound
  <2>5. NotDenied(z) /\ CapSound(z)
    BY <2>2, <1>1, <1>6, <1>8 DEF SlotInv, NotDenied, CapSound
  <2>6. InsertSound(z) /\ CommitSound(z) /\ Lapses(z)
    BY <2>2 DEF InsertSound, CommitSound, Lapses
  <2>7. AutoSound(z)
    BY <2>2, <1>1 DEF SlotInv, AutoSound
  <2>8. Sound(y)
    BY <2>1, <2>3, <2>4, <2>5, <2>6, <2>7 DEF Sound, SlotInv
  <2> QED BY <2>8, <1>2, SetSound
<1>9. CASE s.ev.decision \in {"auto-approve", "notify-only"}
  <2>1. x \in Slot
    BY <1>1, <1>4 DEF Slot
  <2>2. /\ x.at = "approved" /\ x.notAfter = d /\ x.auto = TRUE /\ x.in = s.in
        /\ x.ask = s.ask /\ x.basis = s.basis
    BY <1>1 DEF Slot
  <2>3. y = x \/ y = Null
    BY <1>9
  <2> HIDE DEF x, y
  <2>4. \A b \in s.basis : b.ev.decision \in {"auto-approve", "notify-only"}
    BY <1>6, <1>9
  <2>5. Sound(x)
    BY <2>1, <2>2, <2>4, <1>1, <1>4, GrantSound
  <2>6. Sound(y)
    BY <2>3, <2>5 DEF Sound
  <2> QED BY <2>6, <1>2, SetSound
<1> QED BY <1>5, <1>7, <1>8, <1>9 DEF Outcome

\* An approval of a pending request, as it was evaluated when created.
LEMMA ApprovedSound ==
    ASSUME IInv, NEW r \in Request, At(r, "pending"), NEW ttl \in 1 .. reqs[r].ask.cons.ttl,
           Set(r, Approved(r, ttl))
    PROVE  reqs' \in [Request -> Slot \cup {Null}] /\ SlotsSound'
PROOF
<1> DEFINE s == reqs[r]
           d == Deadline(now, ttl, s.cap)
           x == [s EXCEPT !.at = "approved", !.notAfter = d]
<1>1. s \in Slot /\ SlotInv(s) /\ s.at = "pending"
  BY SlotOf DEF At
<1>2. Set(r, x)
  BY DEF Approved
<1>3. now \in Nat /\ s.cap \in Nat \cup {Null} /\ s.ask.cons.ttl \in Nat
  BY <1>1 DEF IInv, TypeOK, Slot, Ask, Constraints
<1>4. ttl \in Nat
  BY <1>3
<1>5. d \in Nat /\ (s.cap # Null => d <= s.cap)
  BY <1>3, <1>4, DeadlineCapped
<1> HIDE DEF s, d
<1>6. x \in Slot
  BY <1>1, <1>5 DEF Slot
<1>7. /\ x.at = "approved" /\ x.notAfter = d /\ x.auto = s.auto /\ x.in = s.in
      /\ x.ask = s.ask /\ x.basis = s.basis
  BY <1>1 DEF Slot
<1> HIDE DEF x
<1>8. s.auto = FALSE
  BY <1>1 DEF SlotInv, AutoSound, Slot
<1>9. \A b \in s.basis : b.ev.decision # "deny"
  BY <1>1 DEF SlotInv, NotDenied, Decided
<1>10. Sound(x)
  BY <1>1, <1>5, <1>6, <1>7, <1>8, <1>9, GrantSound
<1> QED BY <1>2, <1>10, SetSound

\* The inputs of a substitution are for the scope that was asked for.
LEMMA SubstituteSound ==
    ASSUME IInv, NEW r \in Request, NEW n \in Name, NEW ttl, NEW uses,
           Substitute(r, n, ttl, uses)
    PROVE  reqs' \in [Request -> Slot \cup {Null}] /\ SlotsSound'
PROOF
<1> DEFINE s == reqs[r]
           c == [s.ask.cons EXCEPT !.ttl = ttl, !.uses = uses]
           i == [s.in EXCEPT !.client = client, !.secret = secrets[n], !.name = n,
                             !.cons = c, !.now = now]
           x == [s EXCEPT !.at = "tags", !.sub = TRUE, !.in = i]
<1>1. s \in Slot /\ SlotInv(s) /\ s.at = "pending"
  BY SlotOf DEF Substitute, Approvable, At
<1>2. Set(r, x)
  BY DEF Substitute
<1>3. s.in \in Inputs /\ s.ask \in Ask /\ s.ask.cons \in Constraints
  BY <1>1 DEF Slot, Ask
<1>4. client \in ClientRow /\ secrets[n] \in SecretRow \cup {Null} /\ now \in Nat
  BY PolicyAssumption DEF IInv, TypeOK
<1>5. ttl \in Nat /\ uses \in Nat \cup {Null}
  <2>1. s.ask.cons.ttl \in Nat /\ s.ask.cons.uses \in Nat \cup {Null}
    BY <1>3 DEF Constraints
  <2>2. ttl \in 1 .. s.ask.cons.ttl /\ uses \in NarrowUses(s.ask)
    BY DEF Substitute
  <2> QED BY <2>1, <2>2 DEF NarrowUses
<1> HIDE DEF s
<1>6. c \in Constraints /\ SameScope(c, s.ask.cons)
  BY <1>3, <1>5 DEF Constraints, SameScope
<1> HIDE DEF c
<1>7. i \in Inputs /\ i.mech = s.in.mech /\ i.cons = c
  BY <1>3, <1>4, <1>6 DEF Inputs
<1> HIDE DEF i
<1>8. x \in Slot
  BY <1>1, <1>7 DEF Slot, Reading
<1>9. /\ x.at = "tags" /\ x.in = i /\ x.ask = s.ask /\ x.basis = s.basis
      /\ x.cap = s.cap /\ x.auto = s.auto
  BY <1>1 DEF Slot
<1> HIDE DEF x
<1>10. BasisSound(x) /\ InputsSound(x)
  BY <1>1, <1>6, <1>7, <1>9 DEF SlotInv, BasisSound, InputsSound
<1>11. NotDenied(x) /\ CapSound(x)
  BY <1>1, <1>9 DEF SlotInv, NotDenied, CapSound, Decided
<1>12. InsertSound(x) /\ CommitSound(x) /\ Lapses(x)
  BY <1>9 DEF InsertSound, CommitSound, Lapses
<1>13. AutoSound(x)
  BY <1>1, <1>9 DEF SlotInv, AutoSound
<1>14. Sound(x)
  BY <1>8, <1>10, <1>11, <1>12, <1>13 DEF Sound, SlotInv
<1> QED BY <1>2, <1>14, SetSound

\* A substitution that is refused leaves a request as it was before.
LEMMA RefusedSound ==
    ASSUME IInv, NEW r \in Request, reqs[r] # Null, reqs[r].at # "approved",
           reqs[r].sub \/ reqs[r].at \in Decided
    PROVE  Sound(Refused(r))
PROOF
<1> DEFINE s == reqs[r]
           x == [s EXCEPT !.at = "pending", !.sub = FALSE]
<1>1. s \in Slot /\ SlotInv(s)
  BY SlotOf
<1>2. Refused(r) = x
  BY DEF Refused
<1>3. s.at # "approved" /\ (s.sub \/ s.at \in Decided)
  OBVIOUS
<1> HIDE DEF s
<1>4. x \in Slot
  BY <1>1 DEF Slot
<1>5. /\ x.at = "pending" /\ x.in = s.in /\ x.ask = s.ask /\ x.basis = s.basis
      /\ x.cap = s.cap /\ x.auto = s.auto
  BY <1>1 DEF Slot
<1> HIDE DEF x
<1>6. BasisSound(x) /\ InputsSound(x)
  BY <1>1, <1>5 DEF SlotInv, BasisSound, InputsSound
<1>7. NotDenied(x)
  BY <1>1, <1>3, <1>5 DEF SlotInv, NotDenied
<1>8. CapSound(x) /\ InsertSound(x) /\ CommitSound(x) /\ Lapses(x)
  BY <1>1, <1>3, <1>5 DEF SlotInv, CapSound, InsertSound, CommitSound, Lapses
<1>9. AutoSound(x)
  BY <1>1, <1>3, <1>5 DEF SlotInv, AutoSound
<1> QED BY <1>2, <1>4, <1>6, <1>7, <1>8, <1>9 DEF Sound, SlotInv

\* A substitution goes on only with an evaluation that does not deny it.
LEMMA DecideSubstituteSound ==
    ASSUME IInv, NEW r \in Request, DecideSubstitute(r)
    PROVE  reqs' \in [Request -> Slot \cup {Null}] /\ SlotsSound'
PROOF
<1> DEFINE s == reqs[r]
           ev == Evaluate(s.in)
           ok == PolicyInputs(s.in) /\ SubstitutionAllowed(ev)
                 /\ (Cap(ev) = Null \/ s.in.now < Cap(ev))
           x == [s EXCEPT !.at = "commit", !.ev = ev]
<1>1. s \in Slot /\ SlotInv(s) /\ s.at = "evaluate" /\ s.sub
  BY SlotOf DEF DecideSubstitute, At
<1>2. Set(r, IF ok THEN x ELSE Refused(r))
  BY DEF DecideSubstitute
<1>3. s.in \in Inputs
  BY <1>1 DEF Slot
<1>4. ev \in Evaluation /\ ev = Evaluate(s.in)
  BY <1>3, EvaluateType
<1>5. Sound(Refused(r))
  BY <1>1, RefusedSound DEF DecideSubstitute, At
<1>6. ok => PolicyInputs(s.in) /\ ev.decision # "deny"
  BY DEF SubstitutionAllowed
<1> HIDE DEF s, ev, ok
<1>7. x \in Slot
  BY <1>1, <1>4 DEF Slot
<1>8. /\ x.at = "commit" /\ x.in = s.in /\ x.ev = ev /\ x.ask = s.ask
      /\ x.basis = s.basis /\ x.cap = s.cap /\ x.auto = s.auto
  BY <1>1 DEF Slot
<1> HIDE DEF x
<1>9. ASSUME ok PROVE Sound(x)
  <2>1. BasisSound(x) /\ InputsSound(x)
    BY <1>1, <1>8 DEF SlotInv, BasisSound, InputsSound
  <2>2. NotDenied(x) /\ CapSound(x)
    BY <1>1, <1>8 DEF SlotInv, NotDenied, CapSound
  <2>3. CommitSound(x)
    BY <1>4, <1>6, <1>8, <1>9 DEF CommitSound
  <2>4. InsertSound(x) /\ Lapses(x)
    BY <1>8 DEF InsertSound, Lapses
  <2>5. AutoSound(x)
    BY <1>1, <1>8 DEF SlotInv, AutoSound
  <2> QED BY <1>7, <2>1, <2>2, <2>3, <2>4, <2>5 DEF Sound, SlotInv
<1>10. Sound(IF ok THEN x ELSE Refused(r))
  BY <1>5, <1>9
<1> QED BY <1>2, <1>10, SetSound

\* The deadline of a substitution is no later than either row's expiry.
LEMMA SubstituteDeadlineCapped ==
    ASSUME NEW s \in Slot
    PROVE  /\ SubstituteDeadline(s) \in Nat
           /\ s.cap # Null => SubstituteDeadline(s) <= s.cap
           /\ Cap(s.ev) # Null => SubstituteDeadline(s) <= Cap(s.ev)
PROOF
<1> DEFINE own == Deadline(s.in.now, s.in.cons.ttl, s.cap)
           k == Cap(s.ev)
<1>1. s.in.now \in Nat /\ s.in.cons.ttl \in Nat /\ s.cap \in Nat \cup {Null}
  BY DEF Slot, Inputs, Constraints
<1>2. own \in Nat /\ (s.cap # Null => own <= s.cap)
  BY <1>1, DeadlineCapped
<1>3. k \in Nat \cup {Null}
  <2>1. s.ev.by \in Rule \cup {Null}
    BY DEF Slot, Evaluation
  <2>2. CASE s.ev.by = Null
    BY <2>2 DEF Cap
  <2>3. CASE s.ev.by # Null
    <3>1. s.ev.by.notAfter \in Nat \cup {Null}
      BY <2>1, <2>3, EngineAssumption DEF Rule
    <3> QED BY <2>3, <3>1 DEF Cap
  <2> QED BY <2>2, <2>3
<1>4. SubstituteDeadline(s) = IF k # Null /\ k < own THEN k ELSE own
  BY DEF SubstituteDeadline
<1> HIDE DEF own, k
<1>5. CASE k = Null
  BY <1>1, <1>2, <1>4, <1>5 DEF k
<1>6. CASE k # Null
  <2>1. k \in Nat
    BY <1>3, <1>6
  <2>2. SubstituteDeadline(s) \in Nat /\ SubstituteDeadline(s) <= k /\ SubstituteDeadline(s) <= own
    BY <1>2, <1>4, <1>6, <2>1
  <2>3. s.cap # Null => SubstituteDeadline(s) <= s.cap
    BY <1>1, <1>2, <2>2
  <2> QED BY <2>2, <2>3 DEF k
<1> QED BY <1>5, <1>6

\* A substituted grant rests on both evaluations and lapses with both rows.
LEMMA CommitSubstituteSound ==
    ASSUME IInv, NEW r \in Request, CommitSubstitute(r)
    PROVE  reqs' \in [Request -> Slot \cup {Null}] /\ SlotsSound'
PROOF
<1> DEFINE s == reqs[r]
           d == SubstituteDeadline(s)
           new == [in |-> s.in, ev |-> s.ev]
           B == s.basis \cup {new}
           x == [s EXCEPT !.at = "approved", !.released = s.in.name, !.notAfter = d, !.basis = B]
<1>1. s \in Slot /\ SlotInv(s) /\ s.at = "commit"
  BY SlotOf DEF CommitSubstitute, At
<1>2. Set(r, IF now < d THEN x ELSE Refused(r))
  BY DEF CommitSubstitute
<1>3. Sound(Refused(r))
  BY <1>1, RefusedSound DEF CommitSubstitute, At, Decided
<1>4. s.in \in Inputs /\ s.ev \in Evaluation /\ s.basis \in SUBSET Basis
  BY <1>1 DEF Slot
<1> HIDE DEF s
<1>5. new \in Basis /\ new.in = s.in /\ new.ev = s.ev
  BY <1>4 DEF Basis
<1>6. /\ d \in Nat
      /\ s.cap # Null => d <= s.cap
      /\ Cap(s.ev) # Null => d <= Cap(s.ev)
  BY <1>1, SubstituteDeadlineCapped
<1> HIDE DEF d, new
<1>7. B \in SUBSET Basis
  BY <1>4, <1>5
<1>8. \A b \in B : b \in s.basis \/ b = new
  OBVIOUS
<1> HIDE DEF B
<1>9. s.in.name \in Name
  BY <1>4 DEF Inputs
<1>10. x \in Slot
  BY <1>1, <1>6, <1>7, <1>9 DEF Slot
<1>11. /\ x.at = "approved" /\ x.in = s.in /\ x.ask = s.ask /\ x.basis = B
       /\ x.notAfter = d /\ x.auto = s.auto
  BY <1>1 DEF Slot
<1> HIDE DEF x
<1>12. s.ev = Evaluate(s.in) /\ PolicyInputs(s.in) /\ s.ev.decision # "deny"
  BY <1>1 DEF SlotInv, CommitSound
<1>13. s.in.mech = s.ask.mech /\ SameScope(s.in.cons, s.ask.cons)
  BY <1>1 DEF SlotInv, InputsSound
<1>14. BasisSound(x) /\ InputsSound(x)
  <2>1. BasisSound(s)
    BY <1>1 DEF SlotInv
  <2>2. ASSUME NEW b \in B
        PROVE  /\ b.ev = Evaluate(b.in)
               /\ PolicyInputs(b.in)
               /\ b.in.mech = s.ask.mech
               /\ SameScope(b.in.cons, s.ask.cons)
    <3>1. CASE b \in s.basis
      BY <2>1, <3>1 DEF BasisSound
    <3>2. CASE b = new
      BY <3>2, <1>5, <1>12, <1>13
    <3> QED BY <3>1, <3>2, <1>8
  <2> QED BY <2>2, <1>11, <1>13 DEF BasisSound, InputsSound
<1>15. NotDenied(x)
  <2>1. \A b \in s.basis : b.ev.decision # "deny"
    BY <1>1 DEF SlotInv, NotDenied, Decided
  <2>2. \A b \in B : b.ev.decision # "deny"
    BY <2>1, <1>5, <1>8, <1>12
  <2> QED BY <2>2, <1>11 DEF NotDenied
<1>16. CapSound(x) /\ InsertSound(x) /\ CommitSound(x)
  BY <1>11 DEF CapSound, InsertSound, CommitSound
<1>17. AutoSound(x)
  BY <1>1, <1>11 DEF SlotInv, AutoSound
<1>18. Lapses(x)
  <2>1. \A b \in s.basis : Cap(b.ev) = s.cap
    BY <1>1 DEF SlotInv, CapSound
  <2>2. \A b \in B : Cap(b.ev) # Null => d <= Cap(b.ev)
    BY <2>1, <1>5, <1>6, <1>8
  <2> QED BY <2>2, <1>11 DEF Lapses
<1>19. Sound(x)
  BY <1>10, <1>14, <1>15, <1>16, <1>17, <1>18 DEF Sound, SlotInv
<1>20. Sound(IF now < d THEN x ELSE Refused(r))
  BY <1>3, <1>19
<1> QED BY <1>2, <1>20, SetSound

\* A restart drops handlers at work and leaves what is stored.
LEMMA RestartSound ==
    ASSUME IInv, NEW c \in Clients, Restart(c)
    PROVE  reqs' \in [Request -> Slot \cup {Null}] /\ SlotsSound'
PROOF
<1>1. ASSUME NEW r \in Request PROVE Sound(reqs'[r])
  <2>1. reqs'[r] = IF reqs[r] = Null \/ reqs[r].at \in {"pending", "denied", "approved"}
                   THEN reqs[r]
                   ELSE IF reqs[r].sub THEN Refused(r) ELSE Null
    BY DEF Restart
  <2>2. Sound(reqs[r])
    BY SlotOf DEF Sound
  <2>3. ASSUME reqs[r] # Null, reqs[r].at # "approved", reqs[r].sub PROVE Sound(Refused(r))
    BY <2>3, RefusedSound
  <2>4. Sound(Null)
    BY DEF Sound
  <2> QED BY <2>1, <2>2, <2>3, <2>4
<1>2. \A r \in Request : reqs'[r] \in Slot \cup {Null} /\ (reqs'[r] # Null => SlotInv(reqs'[r]))
  BY <1>1 DEF Sound
<1>3. reqs' = [r \in Request |-> reqs'[r]]
  BY DEF Restart
<1> QED BY <1>2, <1>3 DEF SlotsSound

-----------------------------------------------------------------------------
(* The invariant holds.                                                    *)

\* What a step of a handler leaves alone keeps its type.
World ==
    /\ now \in Nat
    /\ client \in Clients
    /\ secrets \in [Name -> SecretRow \cup {Null}]
    /\ tags \in [Name -> SUBSET Tag]
    /\ policies \in [Id -> Rule \cup {Null}]
    /\ edits \in 0 .. MaxEdits

Slots == reqs \in [Request -> Slot \cup {Null}] /\ SlotsSound

\* A step that touches no request keeps the slots sound.
LEMMA SlotsKept ==
    ASSUME IInv, UNCHANGED reqs
    PROVE  Slots'
PROOF BY DEF IInv, TypeOK, Slots, SlotsSound

\* Mechanism::tier is a tier.
LEMMA TierType ==
    ASSUME NEW m \in Mechanism
    PROVE  Tier(m) \in 0 .. 3
PROOF BY DEF Mechanism, Tier

\* The invariant holds of every initial table.
LEMMA InitIInv == Init => IInv
PROOF
<1> SUFFICES ASSUME Init PROVE IInv
  OBVIOUS
<1>1. now \in Nat /\ client \in Clients /\ policies \in [Id -> Rule \cup {Null}]
  BY PolicyAssumption DEF Init
<1>2. secrets \in [Name -> SecretRow \cup {Null}]
  <2>1. PICK stored \in SUBSET Name, vetted \in BOOLEAN, tier \in Tiers :
          secrets = [n \in Name |-> IF n \in stored
                                    THEN [enabled |-> TRUE, maxTier |-> tier, vetted |-> vetted]
                                    ELSE Null]
    BY DEF Init
  <2>2. [enabled |-> TRUE, maxTier |-> tier, vetted |-> vetted] \in SecretRow
    BY PolicyAssumption DEF SecretRow
  <2> QED BY <2>1, <2>2
<1>3. tags \in [Name -> SUBSET Tag]
  BY DEF Init
<1>4. edits \in 0 .. MaxEdits
  BY PolicyAssumption DEF Init
<1>5. reqs \in [Request -> Slot \cup {Null}] /\ SlotsSound
  BY DEF Init, SlotsSound
<1> QED BY <1>1, <1>2, <1>3, <1>4, <1>5 DEF IInv, TypeOK

\* A step of create.
LEMMA CreateStepSound ==
    ASSUME IInv, NEW r \in Request, CreateStep(r)
    PROVE  World' /\ Slots'
PROOF
<1>1. UNCHANGED <<now, world>>
  BY DEF CreateStep, Arrive, ReadSecret, ReadTags, ListPolicies, Decide, Insert
<1>2. World'
  BY <1>1 DEF IInv, TypeOK, World, world
<1>3. Slots'
  BY ArriveSound, ReadSecretSound, ReadTagsSound, ListPoliciesSound, DecideSound,
     InsertStepSound DEF CreateStep, Slots
<1> QED BY <1>2, <1>3

\* A step of approve.
LEMMA ApproveStepSound ==
    ASSUME IInv, NEW r \in Request, ApproveStep(r)
    PROVE  World' /\ Slots'
PROOF
<1>1. ASSUME NEW ttl \in Ttls, ApproveStored(r, ttl) PROVE World' /\ Slots'
  <2>1. /\ UNCHANGED <<now, world>> /\ Set(r, Approved(r, ttl))
        /\ At(r, "pending") /\ ttl \in 1 .. reqs[r].ask.cons.ttl
    BY <1>1 DEF ApproveStored, Approvable
  <2>2. World'
    BY <2>1 DEF IInv, TypeOK, World, world
  <2> QED BY <2>1, <2>2, ApprovedSound DEF Slots
<1>2. ASSUME NEW ttl \in Ttls, NEW store \in BOOLEAN, ApproveValue(r, ttl, store)
      PROVE  World' /\ Slots'
  <2> DEFINE n == reqs[r].ask.name
             row == [enabled |-> TRUE, vetted |-> TRUE, maxTier |-> Tier(reqs[r].ask.mech)]
  <2>1. /\ UNCHANGED <<now, client, tags, policies, edits>> /\ Set(r, Approved(r, ttl))
        /\ At(r, "pending") /\ ttl \in 1 .. reqs[r].ask.cons.ttl
    BY <1>2 DEF ApproveValue, Approvable
  <2>2. secrets' = IF store THEN [secrets EXCEPT ![n] = row] ELSE secrets
    BY <1>2 DEF ApproveValue
  <2>3. reqs[r].ask.mech \in Mechanism
    <3>1. reqs[r] \in Slot
      BY <2>1, SlotOf DEF At
    <3> QED BY <3>1 DEF Slot, Ask
  <2>4. row \in SecretRow
    BY <2>3, TierType DEF SecretRow
  <2> HIDE DEF row, n
  <2>5. secrets \in [Name -> SecretRow \cup {Null}]
    BY DEF IInv, TypeOK
  <2>6. secrets' \in [Name -> SecretRow \cup {Null}]
    BY <2>2, <2>4, <2>5
  <2>7. World'
    BY <2>1, <2>6 DEF IInv, TypeOK, World
  <2> QED BY <2>1, <2>7, ApprovedSound DEF Slots
<1>3. ASSUME NEW n \in Name, NEW ttl \in Ttls, NEW uses \in Uses, Substitute(r, n, ttl, uses)
      PROVE  World' /\ Slots'
  <2>1. UNCHANGED <<now, world>>
    BY <1>3 DEF Substitute
  <2>2. World'
    BY <2>1 DEF IInv, TypeOK, World, world
  <2> QED BY <2>2, <1>3, SubstituteSound DEF Slots
<1>4. ASSUME DecideSubstitute(r) \/ CommitSubstitute(r) PROVE World' /\ Slots'
  <2>1. UNCHANGED <<now, world>>
    BY <1>4 DEF DecideSubstitute, CommitSubstitute
  <2>2. World'
    BY <2>1 DEF IInv, TypeOK, World, world
  <2> QED BY <2>2, <1>4, DecideSubstituteSound, CommitSubstituteSound DEF Slots
<1> QED BY <1>1, <1>2, <1>3, <1>4 DEF ApproveStep

\* An edit of the policy table.
LEMMA PolicyEditSound ==
    ASSUME IInv, PolicyEdit
    PROVE  World' /\ Slots'
PROOF
<1>1. PICK i \in Id : \/ DeletePolicy(i)
                     \/ \E p \in Written : CreatePolicy(i, p) \/ UpdatePolicy(i, p)
  BY DEF PolicyEdit
<1>2. UNCHANGED <<now, client, secrets, tags, reqs>> /\ Edit
  BY <1>1 DEF DeletePolicy, CreatePolicy, UpdatePolicy
<1>3. policies' \in [Id -> Rule \cup {Null}]
  <2>1. policies \in [Id -> Rule \cup {Null}]
    BY DEF IInv, TypeOK
  <2>2. ASSUME NEW p \in Written PROVE FormRow(p) \in Rule
    <3>1. p \in Rule
      BY PolicyAssumption
    <3>2. {Upper[m] : m \in p.methods} \subseteq Method
      BY <3>1, EngineAssumption DEF Rule
    <3> QED BY <3>1, <3>2 DEF FormRow, Rule
  <2> QED BY <1>1, <2>1, <2>2 DEF DeletePolicy, CreatePolicy, UpdatePolicy
<1>4. edits' \in 0 .. MaxEdits
  BY <1>2, PolicyAssumption DEF Edit, IInv, TypeOK
<1>5. World'
  BY <1>2, <1>3, <1>4 DEF IInv, TypeOK, World
<1> QED BY <1>2, <1>5, SlotsKept

\* An edit of a secret.
LEMMA SecretEditSound ==
    ASSUME IInv, SecretEdit
    PROVE  World' /\ Slots'
PROOF
<1>1. PICK n \in Name :
        \/ MarkVetted(n)
        \/ \E tier \in Tiers, vetted \in BOOLEAN : AddSecret(n, tier, vetted)
        \/ \E tier \in Tiers, T \in SUBSET Tag, enabled \in BOOLEAN :
              UpdateSettings(n, enabled, tier, T)
  BY DEF SecretEdit
<1>2. UNCHANGED <<now, client, policies, reqs>> /\ Edit
  BY <1>1 DEF MarkVetted, AddSecret, UpdateSettings
<1>3. edits' \in 0 .. MaxEdits
  BY <1>2, PolicyAssumption DEF Edit, IInv, TypeOK
<1>4. secrets \in [Name -> SecretRow \cup {Null}] /\ tags \in [Name -> SUBSET Tag]
  BY DEF IInv, TypeOK
<1>5. secrets' \in [Name -> SecretRow \cup {Null}] /\ tags' \in [Name -> SUBSET Tag]
  <2>1. CASE MarkVetted(n)
    <3>1. secrets[n] \in SecretRow
      BY <1>4, <2>1 DEF MarkVetted
    <3>2. [secrets[n] EXCEPT !.vetted = TRUE] \in SecretRow
      BY <3>1 DEF SecretRow
    <3>3. secrets' = [secrets EXCEPT ![n] = [secrets[n] EXCEPT !.vetted = TRUE]]
      BY <1>4, <2>1 DEF MarkVetted
    <3> QED BY <2>1, <3>2, <3>3, <1>4 DEF MarkVetted
  <2>2. ASSUME NEW tier \in Tiers, NEW vetted \in BOOLEAN, AddSecret(n, tier, vetted)
        PROVE  secrets' \in [Name -> SecretRow \cup {Null}] /\ tags' \in [Name -> SUBSET Tag]
    <3>1. [enabled |-> TRUE, maxTier |-> tier, vetted |-> vetted] \in SecretRow
      BY PolicyAssumption DEF SecretRow
    <3> QED BY <2>2, <3>1, <1>4 DEF AddSecret
  <2>3. ASSUME NEW tier \in Tiers, NEW T \in SUBSET Tag, NEW enabled \in BOOLEAN,
               UpdateSettings(n, enabled, tier, T)
        PROVE  secrets' \in [Name -> SecretRow \cup {Null}] /\ tags' \in [Name -> SUBSET Tag]
    <3> DEFINE row == [secrets[n] EXCEPT !.enabled = enabled, !.maxTier = tier]
    <3>1. secrets[n] \in SecretRow
      BY <1>4, <2>3 DEF UpdateSettings
    <3>2. row \in SecretRow
      BY <3>1, PolicyAssumption DEF SecretRow
    <3>3. secrets' = [secrets EXCEPT ![n] = row]
      BY <1>4, <2>3, <3>1 DEF UpdateSettings, SecretRow
    <3> HIDE DEF row
    <3> QED BY <2>3, <3>2, <3>3, <1>4 DEF UpdateSettings
  <2> QED BY <1>1, <2>1, <2>2, <2>3
<1>6. World'
  BY <1>2, <1>3, <1>5 DEF IInv, TypeOK, World
<1> QED BY <1>2, <1>6, SlotsKept

\* Every step keeps the types and the slots.
LEMMA NextSound ==
    ASSUME IInv, Next
    PROVE  World' /\ Slots'
PROOF
<1>1. ASSUME NEW r \in Request, CreateStep(r) \/ ApproveStep(r) PROVE World' /\ Slots'
  BY <1>1, CreateStepSound, ApproveStepSound
<1>2. ASSUME NEW c \in Clients, Restart(c) PROVE World' /\ Slots'
  <2>1. UNCHANGED <<now, secrets, tags, policies>> /\ client' = c /\ Edit
    BY <1>2 DEF Restart
  <2>2. World'
    BY <2>1, PolicyAssumption DEF Edit, IInv, TypeOK, World
  <2> QED BY <2>2, <1>2, RestartSound DEF Slots
<1>3. CASE Tick
  <2>1. UNCHANGED <<world, reqs>> /\ now' = now + 1
    BY <1>3 DEF Tick
  <2>2. World'
    BY <2>1 DEF IInv, TypeOK, World, world
  <2> QED BY <2>1, <2>2, SlotsKept
<1> QED BY <1>1, <1>2, <1>3, PolicyEditSound, SecretEditSound DEF Next

\* The inductive invariant: whatever the steps of handlers, operators and
\* deployments, every request rests on evaluations of policy for its own
\* mechanism and scope, and no grant on one that denied it.
THEOREM Invariance == Spec => []IInv
PROOF
<1>1. IInv /\ [Next]_vars => IInv'
  <2> SUFFICES ASSUME IInv, [Next]_vars PROVE IInv'
    OBVIOUS
  <2>1. CASE Next
    <3>1. World' /\ Slots'
      BY <2>1, NextSound
    <3> QED BY <3>1 DEF IInv, TypeOK, World, Slots
  <2>2. CASE UNCHANGED vars
    BY <2>2 DEF vars, IInv, TypeOK, SlotsSound
  <2> QED BY <2>1, <2>2
<1> QED BY <1>1, InitIInv, PTL DEF Spec

-----------------------------------------------------------------------------
(* What follows from it.                                                   *)

\* The type invariant.
THEOREM TypeCorrect == Spec => []TypeOK
PROOF
<1>1. IInv => TypeOK
  BY DEF IInv
<1> QED BY <1>1, Invariance, PTL

\* What a call that is forwarded says of the grant it is made on.
LEMMA ForwardedLets ==
    ASSUME IInv, NEW r \in Request, NEW method, NEW path, Forwards(r, method, path),
           NEW o \in reqs[r].ask.cons.origins,
           NEW b \in reqs[r].basis
    PROVE  /\ b.in \in Inputs /\ b.in.cons \in Constraints
           /\ b.ev = Evaluate(b.in) /\ PolicyInputs(b.in)
           /\ b.in.mech = "brokered"
           /\ Lets(b.in.cons, o, method, path)
PROOF
<1>1. reqs[r] \in Slot /\ SlotInv(reqs[r])
  BY SlotOf DEF Forwards, At
<1>2. b \in Basis
  BY <1>1 DEF Slot
<1>3. b.in \in Inputs /\ b.in.cons \in Constraints
  BY <1>2 DEF Basis, Inputs
<1>4. /\ b.ev = Evaluate(b.in) /\ PolicyInputs(b.in)
      /\ b.in.mech = reqs[r].ask.mech /\ SameScope(b.in.cons, reqs[r].ask.cons)
  BY <1>1 DEF SlotInv, BasisSound
<1>5. Lets(b.in.cons, o, method, path)
  BY <1>4 DEF Forwards, Lets, SameScope, PathAllowed
<1>6. b.in.mech = "brokered"
  BY <1>4 DEF Forwards
<1> QED BY <1>3, <1>4, <1>5, <1>6

\* AutoWithinScope, for any table of policies: every call forwarded on a grant
\* that no person approved lies in the scope of the row behind the grant.
THEOREM AutoWithinScopeHolds == Spec => []AutoWithinScope
PROOF
<1>1. IInv => AutoWithinScope
  <2> SUFFICES ASSUME IInv, NEW r \in Request, NEW method \in Method, NEW path \in Calls,
                      Forwards(r, method, path), reqs[r].auto,
                      NEW b \in reqs[r].basis
               PROVE  /\ b.ev.by # Null
                      /\ b.ev.by.outcome \in {"auto-approve", "notify-only"}
                      /\ b.in.secret # Null /\ b.in.secret.vetted
                      /\ b.ev.by.notAfter = Null \/ now < b.ev.by.notAfter
                      /\ b.ev.by.origins # {}
                      /\ \A o \in reqs[r].ask.cons.origins : Covers(b.ev.by, o, method, path)
    BY DEF AutoWithinScope
  <2>1. reqs[r] \in Slot /\ SlotInv(reqs[r]) /\ reqs[r].at = "approved"
    BY SlotOf DEF Forwards, At
  <2>2. PICK o \in reqs[r].ask.cons.origins : TRUE
    BY DEF Forwards
  <2>3. /\ b.in \in Inputs /\ b.in.cons \in Constraints
        /\ b.ev = Evaluate(b.in) /\ b.in.mech = "brokered"
    BY ForwardedLets
  <2>4. b.ev.decision \in {"auto-approve", "notify-only"}
    BY <2>1 DEF SlotInv, AutoSound
  <2>5. PICK i \in Winner(b.in) :
          /\ b.ev.by = b.in.rows[i]
          /\ ~Clamped(b.in, b.in.rows[i])
          /\ b.in.rows[i].outcome \in {"auto-approve", "notify-only"}
    BY <2>3, <2>4, ReleaseHasWinner
  <2>6. i \in Matching(b.in)
    BY DEF Winner
  <2>7. b.in.rows[i] \in Rule /\ RequestIsSubset(b.in.rows[i], b.in.cons)
    BY <2>3, <2>6, RowOfMatching
  <2>8. b.ev.by # Null
    BY <2>5, <2>7, PolicyAssumption
  <2>9. b.in.secret # Null /\ b.in.secret.vetted /\ b.ev.by.origins # {}
    BY <2>3, <2>5 DEF Clamped
  <2>10. b.ev.by.notAfter = Null \/ now < b.ev.by.notAfter
    <3>1. Cap(b.ev) = b.ev.by.notAfter
      BY <2>8 DEF Cap
    <3>2. Cap(b.ev) # Null => reqs[r].notAfter <= Cap(b.ev)
      BY <2>1 DEF SlotInv, Lapses
    <3>3. b.ev.by.notAfter \in Nat \cup {Null}
      BY <2>5, <2>7, EngineAssumption DEF Rule
    <3>4. now \in Nat /\ reqs[r].notAfter \in Nat /\ now < reqs[r].notAfter
      BY <2>1 DEF Slot, IInv, TypeOK, Forwards
    <3> QED BY <3>1, <3>2, <3>3, <3>4
  <2>11. ASSUME NEW oo \in reqs[r].ask.cons.origins PROVE Covers(b.ev.by, oo, method, path)
    <3>1. Lets(b.in.cons, oo, method, path)
      BY ForwardedLets
    <3>2. path \in Path
      BY PolicyAssumption
    <3> QED BY <2>3, <2>5, <2>7, <3>1, <3>2, SubsetSound
  <2> QED BY <2>5, <2>8, <2>9, <2>10, <2>11
<1> QED BY <1>1, Invariance, PTL

\* DenyRespected, for any table of policies: no call is forwarded that a deny
\* row covers, in any case of its path, which applied when policy was
\* consulted.
THEOREM DenyRespectedHolds == Spec => []DenyRespected
PROOF
<1>1. IInv => DenyRespected
  <2> SUFFICES ASSUME IInv, NEW r \in Request, NEW method \in Method, NEW path \in Calls,
                      Forwards(r, method, path),
                      NEW b \in reqs[r].basis, NEW i \in Applicable(b.in)
               PROVE  /\ b.in.rows[i].readable
                      /\ b.in.rows[i].outcome = "deny" =>
                            \A o \in reqs[r].ask.cons.origins :
                                ~CoversAnyCase(b.in.rows[i], o, method, path)
    BY DEF DenyRespected
  <2>1. reqs[r] \in Slot /\ SlotInv(reqs[r]) /\ reqs[r].at = "approved"
    BY SlotOf DEF Forwards, At
  <2>2. PICK o \in reqs[r].ask.cons.origins : TRUE
    BY DEF Forwards
  <2>3. /\ b.in \in Inputs /\ b.in.cons \in Constraints
        /\ b.ev = Evaluate(b.in) /\ PolicyInputs(b.in)
    BY ForwardedLets
  <2>4. b.in.rows[i].readable
    BY <2>3 DEF PolicyInputs
  <2>5. b.ev.decision # "deny"
    BY <2>1 DEF SlotInv, NotDenied, Decided
  <2>6. Denying(b.in) = {}
    BY <2>3, <2>5, NoDenyOverlaps
  <2>7. b.in.rows[i] \in Rule
    <3>1. i \in Id /\ b.in.rows[i] # Null
      BY DEF Applicable
    <3> QED BY <3>1, <2>3, RowType
  <2>8. ASSUME b.in.rows[i].outcome = "deny",
               NEW oo \in reqs[r].ask.cons.origins,
               CoversAnyCase(b.in.rows[i], oo, method, path)
        PROVE  FALSE
    <3>1. Lets(b.in.cons, oo, method, path)
      BY ForwardedLets
    <3>2. path \in Path
      BY PolicyAssumption
    <3>3. ScopesOverlap(b.in.rows[i], b.in.cons)
      BY <2>3, <2>7, <2>8, <3>1, <3>2, OverlapSound
    <3>4. i \in Denying(b.in)
      BY <2>4, <2>8, <3>3 DEF Denying
    <3> QED BY <2>6, <3>4
  <2> QED BY <2>4, <2>8
<1> QED BY <1>1, Invariance, PTL

\* LapsesWithRow, for any table of policies: a grant lapses no later than each
\* row it was issued under.
THEOREM LapsesWithRowHolds == Spec => []LapsesWithRow
PROOF
<1>1. IInv => LapsesWithRow
  <2> SUFFICES ASSUME IInv, NEW r \in Request, At(r, "approved"), NEW b \in reqs[r].basis,
                      Cap(b.ev) # Null
               PROVE  reqs[r].notAfter <= Cap(b.ev)
    BY DEF LapsesWithRow
  <2>1. SlotInv(reqs[r])
    BY SlotOf DEF At
  <2> QED BY <2>1 DEF SlotInv, Lapses, At
<1> QED BY <1>1, Invariance, PTL

\* Of two rows of one rank, the winner is the more restrictive, and of equally
\* restrictive ones the first to expire.
LEMMA WinnerNeverWidens ==
    ASSUME NEW e \in Inputs, NEW i \in Winner(e), NEW j \in Matching(e),
           (e.rows[i].client # Null) = (e.rows[j].client # Null),
           SecretSpec(e.rows[i]) = SecretSpec(e.rows[j]),
           e.rows[i].priority = e.rows[j].priority
    PROVE  /\ Restrictiveness(e.rows[j].outcome) <= Restrictiveness(e.rows[i].outcome)
           /\ e.rows[j].outcome = e.rows[i].outcome => Expiry(e.rows[i]) <= Expiry(e.rows[j])
PROOF
<1> DEFINE p == e.rows[i]
           q == e.rows[j]
           k == PrecedenceKey(i, p)
           l == PrecedenceKey(j, q)
<1>1. i \in Matching(e)
  BY DEF Winner
<1>2. p \in Rule /\ q \in Rule
  BY <1>1, RowOfMatching
<1>3. Restrictiveness(p.outcome) \in 0 .. 3 /\ Restrictiveness(q.outcome) \in 0 .. 3
  <2>1. p.outcome \in Outcome /\ q.outcome \in Outcome
    BY <1>2 DEF Rule
  <2> QED BY <2>1 DEF Outcome, Restrictiveness
<1>4. Expiry(p) \in Nat /\ Expiry(q) \in Nat
  <2>1. p.notAfter \in Nat \cup {Null} /\ q.notAfter \in Nat \cup {Null}
    BY <1>2, EngineAssumption DEF Rule
  <2> QED BY <2>1, EngineAssumption DEF Expiry
<1>5. CASE i = j
  BY <1>5, <1>3, <1>4
<1>6. CASE i # j
  <2>1. Above(k, l)
    BY <1>6 DEF Winner
  <2>2. /\ k[1] = l[1] /\ k[2] = l[2] /\ k[3] = l[3]
        /\ k[4] = Restrictiveness(p.outcome) /\ l[4] = Restrictiveness(q.outcome)
        /\ k[5] = -Expiry(p) /\ l[5] = -Expiry(q)
    BY DEF PrecedenceKey
  <2>3. k[1] \in Int /\ k[2] \in Int /\ k[3] \in Int
    BY <1>2 DEF PrecedenceKey, SecretSpec, Rule
  <2> HIDE DEF k, l
  <2>4. PICK n \in 1 .. 6 : k[n] > l[n] /\ \A m \in 1 .. (n - 1) : k[m] = l[m]
    BY <2>1 DEF Above
  <2>5. n \in {4, 5, 6}
    BY <2>2, <2>3, <2>4
  <2>6. k[4] >= l[4] /\ (k[4] = l[4] => k[5] >= l[5])
    BY <1>3, <1>4, <2>2, <2>4, <2>5
  <2> QED BY <1>3, <1>4, <2>2, <2>6
<1> QED BY <1>5, <1>6

\* TieNeverWidens, for any table of policies: neither a tie nor the order of the
\* rows widens what policy releases without a person.
THEOREM TieNeverWidensHolds == Spec => []TieNeverWidens
PROOF
<1>1. IInv => TieNeverWidens
  <2> SUFFICES ASSUME IInv, NEW r \in Request, At(r, "approved"), reqs[r].auto,
                      NEW b \in reqs[r].basis, NEW j \in Matching(b.in),
                      (b.ev.by.client # Null) = (b.in.rows[j].client # Null),
                      SecretSpec(b.ev.by) = SecretSpec(b.in.rows[j]),
                      b.ev.by.priority = b.in.rows[j].priority
               PROVE  /\ Restrictiveness(b.in.rows[j].outcome) <= Restrictiveness(b.ev.by.outcome)
                      /\ b.in.rows[j].outcome = b.ev.by.outcome /\ Expiry(b.in.rows[j]) < Forever
                            => reqs[r].notAfter <= Expiry(b.in.rows[j])
    BY DEF TieNeverWidens
  <2>1. reqs[r] \in Slot /\ SlotInv(reqs[r]) /\ reqs[r].at = "approved"
    BY SlotOf DEF At
  <2>2. b.in \in Inputs
    BY <2>1 DEF Slot, Basis
  <2>3. b.ev = Evaluate(b.in)
    BY <2>1 DEF SlotInv, BasisSound
  <2>4. b.ev.decision \in {"auto-approve", "notify-only"}
    BY <2>1 DEF SlotInv, AutoSound
  <2>5. PICK i \in Winner(b.in) : b.ev.by = b.in.rows[i]
    BY <2>2, <2>3, <2>4, ReleaseHasWinner
  <2>6. /\ Restrictiveness(b.in.rows[j].outcome) <= Restrictiveness(b.ev.by.outcome)
        /\ b.in.rows[j].outcome = b.ev.by.outcome => Expiry(b.ev.by) <= Expiry(b.in.rows[j])
    BY <2>2, <2>5, WinnerNeverWidens
  <2>7. b.ev.by \in Rule
    BY <2>2, <2>5, RowOfMatching DEF Winner
  <2>8. b.in.rows[j] \in Rule
    BY <2>2, RowOfMatching
  <2>9. ASSUME b.in.rows[j].outcome = b.ev.by.outcome, Expiry(b.in.rows[j]) < Forever
        PROVE  reqs[r].notAfter <= Expiry(b.in.rows[j])
    <3>1. b.ev.by.notAfter \in Nat \cup {Null} /\ b.in.rows[j].notAfter \in Nat \cup {Null}
      BY <2>7, <2>8, EngineAssumption DEF Rule
    <3>2. Expiry(b.in.rows[j]) \in Nat /\ Expiry(b.ev.by) \in Nat
      BY <3>1, EngineAssumption DEF Expiry
    <3>3. b.ev.by.notAfter # Null
      BY <2>6, <2>9, <3>2, EngineAssumption DEF Expiry
    <3>4. Cap(b.ev) = b.ev.by.notAfter
      BY <2>7, PolicyAssumption DEF Cap
    <3>5. reqs[r].notAfter <= Expiry(b.ev.by)
      BY <2>1, <3>3, <3>4 DEF SlotInv, Lapses, Expiry
    <3>6. reqs[r].notAfter \in Nat
      BY <2>1 DEF Slot
    <3> QED BY <2>6, <2>9, <3>2, <3>5, <3>6
  <2> QED BY <2>6, <2>9
<1> QED BY <1>1, Invariance, PTL
=============================================================================
