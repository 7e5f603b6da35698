--------------------------- MODULE RequestsProofs ---------------------------
(***************************************************************************)
(* Theorems about the life of an access request, for any number of keys,   *)
(* payloads, concurrent creations and operators, and any limits.           *)
(***************************************************************************)
EXTENDS Requests, FiniteSetTheorems, TLAPS

USE ConstantsAssumption, NullAssumption

-----------------------------------------------------------------------------
(* The inductive invariant.                                                *)

\* A call that has been evaluated and not committed knows its deadline, no
\* transaction began in the future, and none has a row before its commit.
CallsSound ==
    \A c \in Create : calls[c] # Null =>
        /\ calls[c].at \in {"begin", "lock", "insert", "check", "commit"}
             => Expiry <= calls[c].expires
        /\ calls[c].txNow <= now
        /\ Uncommitted(c) => rows[calls[c].key] = Null

\* The unique index on the key.
OneInserter ==
    \A c, d \in Create :
        Uncommitted(c) /\ Uncommitted(d) /\ calls[c].key = calls[d].key => c = d

HoldsPending(c) ==
    /\ calls[c] # Null
    /\ calls[c].decision = "pending"
    /\ calls[c].at \in {"insert", "check", "commit"}

\* The advisory lock of the client.
OneHolder == \A c, d \in Create : HoldsPending(c) /\ HoldsPending(d) => c = d

Names(k, m, i) == rows[k] # Null /\ rows[k].mac = m /\ rows[k].id = i

\* Whoever was told of a request, or is about to be, was told of the row.
ToldSound ==
    /\ \A t \in told : Names(t.key, t.mac, t.id)
    /\ \A c \in Create :
         In(c, "respond") => Names(calls[c].key, calls[c].mac, calls[c].id)

Within(grant, expires, cap) ==
    /\ cap # Null => grant <= cap
    /\ grant <= expires + Ttl

\* What an operator is about to decide fits the row, whatever became of it.
ActsSound ==
    \A o \in Operator : acts[o] # Null =>
        /\ rows[acts[o].key] # Null
        /\ acts[o].kind = "denied" => acts[o].grant = Null
        /\ acts[o].grant # Null
             => Within(acts[o].grant, rows[acts[o].key].expires, rows[acts[o].key].cap)

\* A call that passed the check of the cap still passes it: nobody else can
\* add a pending row before it commits.
CountSound ==
    \A c \in Create :
        In(c, "commit") /\ calls[c].decision = "pending" => Counted(c) <= Cap

IInv ==
    /\ TypeOK /\ CallsSound /\ OneInserter /\ OneHolder
    /\ ToldSound /\ ActsSound /\ GrantCapped
    /\ CountSound /\ PendingCapHolds

-----------------------------------------------------------------------------
(* What a step can do to a call.                                           *)

Steps == {"lookup", "evaluate", "begin", "lock", "insert", "check", "commit", "respond"}

OpenSteps == {"begin", "lock", "insert", "check", "commit"}

LEMMA CallFields ==
    ASSUME TypeOK, NEW c \in Create, calls[c] # Null
    PROVE  /\ calls[c] \in CallState
           /\ calls[c].at \in Steps /\ calls[c].key \in Key /\ calls[c].mac \in Mac
           /\ calls[c].decision \in Decision /\ calls[c].id \in Nat /\ calls[c].expires \in Nat
           /\ calls[c].cap \in Nat \cup {Null} /\ calls[c].txNow \in Nat
<1>1. calls[c] \in CallState
  BY DEF TypeOK
<1> QED BY <1>1 DEF CallState, Steps

LEMMA RowFields ==
    ASSUME TypeOK, NEW k \in Key, rows[k] # Null
    PROVE  /\ rows[k] \in Row
           /\ rows[k].id \in Nat /\ rows[k].mac \in Mac /\ rows[k].state \in State
           /\ rows[k].expires \in Nat /\ rows[k].cap \in Nat \cup {Null}
           /\ rows[k].grant \in Nat \cup {Null} /\ rows[k].resolved \in Nat \cup {Null}
           /\ rows[k].context \in BOOLEAN
<1>1. rows[k] \in Row
  BY DEF TypeOK
<1> QED BY <1>1 DEF Row

LEMMA ActFields ==
    ASSUME TypeOK, NEW o \in Operator, acts[o] # Null
    PROVE  /\ acts[o] \in ActState
           /\ acts[o].key \in Key /\ acts[o].kind \in {"approved", "denied"}
           /\ acts[o].grant \in Nat \cup {Null} /\ acts[o].txNow \in Nat
<1>1. acts[o] \in ActState
  BY DEF TypeOK
<1> QED BY <1>1 DEF ActState

\* One call becomes x, the others stay.
LEMMA SetCall ==
    ASSUME TypeOK, NEW c \in Create, NEW x \in CallState \cup {Null},
           calls' = [calls EXCEPT ![c] = x]
    PROVE  /\ calls' \in [Create -> CallState \cup {Null}]
           /\ calls'[c] = x
           /\ \A d \in Create \ {c} : calls'[d] = calls[d]
BY DEF TypeOK

\* Key and payload never change.
Same(c) == calls'[c].key = calls[c].key /\ calls'[c].mac = calls[c].mac

\* Nor do the decision and what follows from it, once they are known.
Kept(c) ==
    /\ Same(c)
    /\ calls'[c].decision = calls[c].decision
    /\ calls'[c].id = calls[c].id
    /\ calls'[c].expires = calls[c].expires
    /\ calls'[c].cap = calls[c].cap

Moves(c, from, to) == In(c, from) /\ calls'[c] # Null /\ calls'[c].at = to

NobodyInserts(c) == ~\E d \in Create \ {c} : Uncommitted(d) /\ calls[d].key = calls[c].key

Advance(c) ==
    \/ calls'[c].at = "lookup" /\ calls'[c].txNow = 0
    \/ Moves(c, "lookup", "evaluate") /\ Kept(c) /\ calls'[c].txNow = calls[c].txNow
    \/ /\ Moves(c, "evaluate", "begin") /\ Same(c)
       /\ calls'[c].expires = now + Expiry /\ calls'[c].txNow = calls[c].txNow
    \/ Moves(c, "begin", "lock") /\ Kept(c) /\ calls'[c].txNow = now
    \/ /\ Moves(c, "lock", "insert") /\ Kept(c) /\ calls'[c].txNow = calls[c].txNow
       /\ calls[c].decision = "pending" => PendingLockFree(c)
    \/ /\ Moves(c, "insert", "check") /\ Kept(c) /\ calls'[c].txNow = calls[c].txNow
       /\ NobodyInserts(c) /\ rows[calls[c].key] = Null
    \/ /\ Moves(c, "check", "commit") /\ Kept(c) /\ calls'[c].txNow = calls[c].txNow
       /\ Admitted(c)
    \/ /\ Moves(c, "commit", "respond") /\ Same(c) /\ calls'[c].id = calls[c].id
       /\ calls'[c].txNow = 0
       /\ rows' = [rows EXCEPT ![calls[c].key] = NewRow(calls[c])]

\* A step changes one call and leaves the others, the clock and the operators
\* alone; or it drops calls; or it touches none.
CallChange(c) ==
    \/ calls'[c] = calls[c]
    \/ calls'[c] = Null
    \/ /\ calls'[c] # Null
       /\ Advance(c)
       /\ \A d \in Create \ {c} : calls'[d] = calls[d]
       /\ now' = now /\ acts' = acts /\ told' = told
       /\ ~In(c, "commit") => rows' = rows

\* A field of a call is written.
LEMMA Goto ==
    ASSUME TypeOK, NEW c \in Create, calls[c] # Null, NEW step \in Steps,
           calls' = [calls EXCEPT ![c].at = step]
    PROVE  /\ calls' \in [Create -> CallState \cup {Null}]
           /\ calls'[c] # Null /\ calls'[c].at = step /\ Kept(c)
           /\ calls'[c].txNow = calls[c].txNow
           /\ \A d \in Create \ {c} : calls'[d] = calls[d]
<1> DEFINE x == [calls[c] EXCEPT !.at = step]
<1>1. x \in CallState
  BY CallFields DEF CallState, Steps
<1>2. x \in CallState \cup {Null} /\ x # Null
  BY <1>1
<1>3. calls' = [calls EXCEPT ![c] = x]
  OBVIOUS
<1> HIDE DEF x
<1>4. /\ calls' \in [Create -> CallState \cup {Null}]
      /\ calls'[c] = x
      /\ \A d \in Create \ {c} : calls'[d] = calls[d]
  BY <1>2, <1>3, SetCall
<1>5. x.at = step /\ x.txNow = calls[c].txNow /\ x.key = calls[c].key /\ x.mac = calls[c].mac
      /\ x.decision = calls[c].decision /\ x.id = calls[c].id /\ x.expires = calls[c].expires
      /\ x.cap = calls[c].cap
  BY CallFields DEF CallState, x
<1> QED BY <1>2, <1>4, <1>5 DEF Kept, Same

CallTypes == calls' \in [Create -> CallState \cup {Null}]

LEMMA EndedCall ==
    ASSUME TypeOK, NEW c \in Create, EndCall(c)
    PROVE  CallTypes /\ \A d \in Create : CallChange(d)
BY DEF TypeOK, EndCall, CallTypes, CallChange

\* A call that advances is the only thing that changes, but for its row.
LEMMA OneCall ==
    ASSUME TypeOK, NEW c \in Create, calls'[c] # Null, Advance(c),
           \A d \in Create \ {c} : calls'[d] = calls[d],
           now' = now, acts' = acts, told' = told, ~In(c, "commit") => rows' = rows
    PROVE  \A d \in Create : CallChange(d)
BY DEF CallChange

LEMMA ArriveCall ==
    ASSUME TypeOK, NEW c \in Create, NEW k \in Key, NEW m \in Mac, Arrive(c, k, m)
    PROVE  CallTypes /\ \A d \in Create : CallChange(d)
<1> DEFINE x == [at |-> "lookup", key |-> k, mac |-> m, decision |-> "pending",
                 id |-> 0, expires |-> 0, cap |-> Null, txNow |-> 0]
<1>1. x \in CallState
  BY DEF CallState, Decision
<1>2. x \in CallState \cup {Null} /\ x # Null
  BY <1>1
<1>3. x.at = "lookup" /\ x.txNow = 0
  OBVIOUS
<1>4. calls' = [calls EXCEPT ![c] = x]
  BY DEF Arrive
<1> HIDE DEF x
<1>5. CallTypes /\ calls'[c] = x /\ \A d \in Create \ {c} : calls'[d] = calls[d]
  BY <1>2, <1>4, SetCall DEF CallTypes
<1>6. calls'[c] # Null /\ Advance(c)
  BY <1>2, <1>3, <1>5 DEF Advance
<1>7. now' = now /\ acts' = acts /\ told' = told /\ rows' = rows
  BY DEF Arrive
<1> QED BY <1>5, <1>6, <1>7, OneCall

LEMMA EvaluateCall ==
    ASSUME TypeOK, NEW c \in Create, Evaluate(c)
    PROVE  CallTypes /\ \A d \in Create : CallChange(d)
<1>1. calls[c] # Null /\ In(c, "evaluate") /\ now \in Nat /\ lastId \in Nat
  BY DEF Evaluate, In, TypeOK
<1>2. PICK decision \in Decision, left \in Lifetimes \cup {Null} :
        calls' = [calls EXCEPT
                    ![c].at = "begin", ![c].decision = decision, ![c].id = lastId + 1,
                    ![c].expires = now + Expiry,
                    ![c].cap = IF left = Null THEN Null ELSE now + left]
  BY DEF Evaluate
<1>3. PICK cap \in Nat \cup {Null} : cap = IF left = Null THEN Null ELSE now + left
  BY <1>1
<1> DEFINE x == [calls[c] EXCEPT !.at = "begin", !.decision = decision, !.id = lastId + 1,
                                 !.expires = now + Expiry, !.cap = cap]
<1>4. x \in CallState
  <2>1. PICK id \in Nat, expires \in Nat : id = lastId + 1 /\ expires = now + Expiry
    BY <1>1
  <2>2. [calls[c] EXCEPT !.at = "begin", !.decision = decision, !.id = id,
                         !.expires = expires, !.cap = cap] \in CallState
    BY <1>1, CallFields DEF CallState
  <2> QED BY <2>1, <2>2
<1>5. x \in CallState \cup {Null} /\ x # Null
  BY <1>4
<1>6. calls' = [calls EXCEPT ![c] = x]
  BY <1>1, <1>2, <1>3 DEF TypeOK
<1>7. x.at = "begin" /\ x.expires = now + Expiry /\ x.txNow = calls[c].txNow
      /\ x.key = calls[c].key /\ x.mac = calls[c].mac
  BY <1>1, CallFields DEF CallState
<1> HIDE DEF x
<1>8. CallTypes /\ calls'[c] = x /\ \A d \in Create \ {c} : calls'[d] = calls[d]
  BY <1>5, <1>6, SetCall DEF CallTypes
<1>9. calls'[c] # Null /\ Advance(c)
  BY <1>1, <1>5, <1>7, <1>8 DEF Advance, Moves, Same
<1>10. now' = now /\ acts' = acts /\ told' = told /\ rows' = rows
  BY DEF Evaluate
<1> QED BY <1>8, <1>9, <1>10, OneCall

LEMMA BeginCall ==
    ASSUME TypeOK, NEW c \in Create, BeginInsert(c)
    PROVE  CallTypes /\ \A d \in Create : CallChange(d)
<1>1. calls[c] # Null /\ In(c, "begin") /\ now \in Nat
  BY DEF BeginInsert, In, TypeOK
<1> DEFINE x == [calls[c] EXCEPT !.at = "lock", !.txNow = now]
<1>2. x \in CallState
  BY <1>1, CallFields DEF CallState
<1>3. x \in CallState \cup {Null} /\ x # Null
  BY <1>2
<1>4. calls' = [calls EXCEPT ![c] = x]
  BY <1>1 DEF TypeOK, BeginInsert
<1>5. x.at = "lock" /\ x.txNow = now /\ x.key = calls[c].key /\ x.mac = calls[c].mac
      /\ x.decision = calls[c].decision /\ x.id = calls[c].id /\ x.expires = calls[c].expires
      /\ x.cap = calls[c].cap
  BY <1>1, CallFields DEF CallState
<1> HIDE DEF x
<1>6. CallTypes /\ calls'[c] = x /\ \A d \in Create \ {c} : calls'[d] = calls[d]
  BY <1>3, <1>4, SetCall DEF CallTypes
<1>7. calls'[c] # Null /\ Advance(c)
  BY <1>1, <1>3, <1>5, <1>6 DEF Advance, Moves, Kept, Same
<1>8. now' = now /\ acts' = acts /\ told' = told /\ rows' = rows
  BY DEF BeginInsert
<1> QED BY <1>6, <1>7, <1>8, OneCall

LEMMA CommitCall ==
    ASSUME TypeOK, NEW c \in Create, CommitInsert(c)
    PROVE  CallTypes /\ \A d \in Create : CallChange(d)
<1>1. calls[c] # Null /\ In(c, "commit")
  BY DEF CommitInsert, In
<1> DEFINE x == [calls[c] EXCEPT !.at = "respond", !.expires = 0, !.cap = Null, !.txNow = 0]
<1>2. x \in CallState
  BY <1>1, CallFields DEF CallState
<1>3. x \in CallState \cup {Null} /\ x # Null
  BY <1>2
<1>4. calls' = [calls EXCEPT ![c] = x]
  BY <1>1 DEF TypeOK, CommitInsert
<1>5. x.at = "respond" /\ x.txNow = 0 /\ x.key = calls[c].key /\ x.mac = calls[c].mac
      /\ x.id = calls[c].id
  BY <1>1, CallFields DEF CallState
<1> HIDE DEF x
<1>6. CallTypes /\ calls'[c] = x /\ \A d \in Create \ {c} : calls'[d] = calls[d]
  BY <1>3, <1>4, SetCall DEF CallTypes
<1>7. calls'[c] # Null /\ Advance(c)
  BY <1>1, <1>3, <1>5, <1>6 DEF Advance, Moves, Same, CommitInsert
<1>8. now' = now /\ acts' = acts /\ told' = told
  BY DEF CommitInsert
<1> QED BY <1>1, <1>6, <1>7, <1>8, OneCall

LEMMA CreateCall ==
    ASSUME TypeOK, NEW c \in Create, CreateStep(c)
    PROVE  CallTypes /\ \A d \in Create : CallChange(d)
<1>1. ASSUME NEW k \in Key, NEW m \in Mac, Arrive(c, k, m)
      PROVE  CallTypes /\ \A d \in Create : CallChange(d)
  BY <1>1, ArriveCall
<1>2. CASE Lookup(c)
  <2>1. CASE EndCall(c)
    BY <2>1, EndedCall
  <2>2. CASE calls' = [calls EXCEPT ![c].at = "evaluate"] /\ UNCHANGED told
    <3>1. calls[c] # Null /\ In(c, "lookup") /\ "evaluate" \in Steps
          /\ now' = now /\ acts' = acts /\ rows' = rows
      BY <1>2 DEF Lookup, In, Steps
    <3>2. Advance(c)
      BY <2>2, <3>1, Goto DEF Advance, Moves
    <3>3. CallTypes /\ calls'[c] # Null /\ \A d \in Create \ {c} : calls'[d] = calls[d]
      BY <2>2, <3>1, Goto DEF CallTypes
    <3> QED BY <2>2, <3>1, <3>2, <3>3, OneCall
  <2> QED BY <1>2, <2>1, <2>2 DEF Lookup, AnswerExisting
<1>3. CASE Evaluate(c)
  BY <1>3, EvaluateCall
<1>4. CASE BeginInsert(c)
  BY <1>4, BeginCall
<1>5. CASE LockPending(c)
  <2>1. calls[c] # Null /\ In(c, "lock") /\ "insert" \in Steps
        /\ now' = now /\ acts' = acts /\ rows' = rows /\ told' = told
        /\ calls' = [calls EXCEPT ![c].at = "insert"]
        /\ (calls[c].decision = "pending" => PendingLockFree(c))
    BY <1>5 DEF LockPending, In, Steps
  <2>2. Advance(c)
    BY <2>1, Goto DEF Advance, Moves
  <2>3. CallTypes /\ calls'[c] # Null /\ \A d \in Create \ {c} : calls'[d] = calls[d]
    BY <2>1, Goto DEF CallTypes
  <2> QED BY <2>1, <2>2, <2>3, OneCall
<1>6. CASE Insert(c)
  <2>1. CASE EndCall(c)
    BY <2>1, EndedCall
  <2>2. CASE calls' = [calls EXCEPT ![c].at = "check"] /\ UNCHANGED told
             /\ rows[calls[c].key] = Null
    <3>1. calls[c] # Null /\ In(c, "insert") /\ "check" \in Steps
          /\ now' = now /\ acts' = acts /\ rows' = rows /\ NobodyInserts(c)
      BY <1>6 DEF Insert, In, Steps, NobodyInserts
    <3>2. Advance(c)
      BY <2>2, <3>1, Goto DEF Advance, Moves
    <3>3. CallTypes /\ calls'[c] # Null /\ \A d \in Create \ {c} : calls'[d] = calls[d]
      BY <2>2, <3>1, Goto DEF CallTypes
    <3> QED BY <2>2, <3>1, <3>2, <3>3, OneCall
  <2> QED BY <1>6, <2>1, <2>2 DEF Insert, AnswerExisting
<1>7. CASE Check(c)
  <2>1. CASE EndCall(c)
    BY <2>1, EndedCall
  <2>2. CASE calls' = [calls EXCEPT ![c].at = "commit"] /\ Admitted(c)
    <3>1. calls[c] # Null /\ In(c, "check") /\ "commit" \in Steps
          /\ now' = now /\ acts' = acts /\ rows' = rows /\ told' = told
      BY <1>7 DEF Check, In, Steps
    <3>2. Advance(c)
      BY <2>2, <3>1, Goto DEF Advance, Moves
    <3>3. CallTypes /\ calls'[c] # Null /\ \A d \in Create \ {c} : calls'[d] = calls[d]
      BY <2>2, <3>1, Goto DEF CallTypes
    <3> QED BY <2>2, <3>1, <3>2, <3>3, OneCall
  <2> QED BY <1>7, <2>1, <2>2 DEF Check
<1>8. CASE CommitInsert(c)
  BY <1>8, CommitCall
<1>9. CASE Respond(c)
  BY <1>9, EndedCall DEF Respond
<1>10. CASE Abandon(c)
  BY <1>10, EndedCall DEF Abandon
<1> QED BY <1>1, <1>2, <1>3, <1>4, <1>5, <1>6, <1>7, <1>8, <1>9, <1>10 DEF CreateStep

LEMMA CallChanges ==
    ASSUME TypeOK, [Next]_vars
    PROVE  CallTypes /\ \A c \in Create : CallChange(c)
<1>1. CASE \E c \in Create : CreateStep(c)
  BY <1>1, CreateCall
<1>2. CASE UNCHANGED calls
  BY <1>2 DEF TypeOK, CallTypes, CallChange
<1>3. CASE Restart
  BY <1>3 DEF Restart, CallTypes, CallChange
<1> QED BY <1>1, <1>2, <1>3 DEF Next, vars, OperatorStep, StartApprove, StartDeny, BeginAct,
           Update, RollbackAct, ExpireStale, PurgeContext, Tick

-----------------------------------------------------------------------------
(* What a step can do to a row.                                            *)

LEMMA DeadlineBound ==
    ASSUME NEW t \in Int, NEW cap \in Nat \cup {Null}, 0 <= t + Ttl
    PROVE  /\ Deadline(t, cap) \in Nat
           /\ Deadline(t, cap) <= t + Ttl
           /\ cap # Null => Deadline(t, cap) <= cap
<1>1. CASE cap # Null /\ cap < t + Ttl
  BY <1>1 DEF Deadline
<1>2. CASE cap = Null
  BY <1>2 DEF Deadline
<1>3. CASE cap # Null /\ ~(cap < t + Ttl)
  BY <1>3 DEF Deadline
<1> QED BY <1>1, <1>2, <1>3

\* The row that a call commits.
Born(k, p) ==
    /\ rows'[k] # Null
    /\ rows'[k].id = p.id /\ rows'[k].mac = p.mac /\ rows'[k].state = p.decision
    /\ rows'[k].expires = p.expires /\ rows'[k].cap = p.cap
    /\ rows'[k].grant # Null =>
         p.decision = "approved" /\ Within(rows'[k].grant, p.expires, p.cap)

\* What never changes in a row.
SameRow(k) ==
    /\ rows[k] # Null /\ rows'[k] # Null
    /\ rows'[k].id = rows[k].id /\ rows'[k].mac = rows[k].mac
    /\ rows'[k].expires = rows[k].expires /\ rows'[k].cap = rows[k].cap

Decides(k) ==
    /\ Pending(k)
    /\ rows'[k].state # "pending"
    /\ \/ rows'[k].grant = rows[k].grant
       \/ \E o \in Operator : /\ acts[o] # Null /\ acts[o].key = k
                              /\ rows'[k].state = acts[o].kind
                              /\ rows'[k].grant = acts[o].grant

RowChange(k) ==
    \/ rows'[k] = rows[k]
    \/ \E c \in Create : /\ In(c, "commit") /\ calls[c].key = k
                         /\ ~Uncommitted(c)' /\ Born(k, calls[c])
    \/ SameRow(k) /\ Decides(k)
    \/ /\ SameRow(k) /\ rows[k].state # "pending"
       /\ rows'[k] = [rows[k] EXCEPT !.context = FALSE]
       /\ rows'[k].state = rows[k].state /\ rows'[k].grant = rows[k].grant

RowTypes == rows' \in [Key -> Row \cup {Null}]

LEMMA BornRow ==
    ASSUME TypeOK, CallsSound, NEW c \in Create, In(c, "commit")
    PROVE  /\ NewRow(calls[c]) \in Row
           /\ NewRow(calls[c]).grant # Null =>
                /\ calls[c].decision = "approved"
                /\ Within(NewRow(calls[c]).grant, calls[c].expires, calls[c].cap)
<1>1. calls[c] # Null /\ calls[c].at = "commit"
  BY DEF In
<1>2. calls[c].expires \in Nat /\ Expiry <= calls[c].expires /\ calls[c].cap \in Nat \cup {Null}
  BY <1>1, CallFields DEF CallsSound
<1>3. PICK t \in Int, cap \in Nat \cup {Null} :
        t = calls[c].expires - Expiry /\ cap = calls[c].cap /\ 0 <= t + Ttl
  <2>1. calls[c].expires - Expiry \in Int /\ 0 <= calls[c].expires - Expiry + Ttl
    BY <1>2
  <2> QED BY <1>2, <2>1
<1>4. PICK grant \in Nat : grant = Deadline(t, cap)
  BY <1>3, DeadlineBound
<1>5. Within(grant, calls[c].expires, calls[c].cap)
  <2>1. grant <= t + Ttl /\ (cap # Null => grant <= cap)
    BY <1>3, <1>4, DeadlineBound
  <2>2. grant <= calls[c].expires + Ttl
    BY <1>2, <1>3, <2>1
  <2> QED BY <1>3, <2>1, <2>2 DEF Within
<1>6. NewRow(calls[c]) \in Row
  <2>1. calls[c].decision \in State /\ TRUE \in BOOLEAN
    BY <1>1, CallFields DEF Decision, State
  <2>2. (IF calls[c].decision = "approved" THEN grant ELSE Null) \in Nat \cup {Null}
    OBVIOUS
  <2>3. (IF calls[c].decision = "pending" THEN Null ELSE calls[c].txNow) \in Nat \cup {Null}
    BY <1>1, CallFields
  <2> QED BY <1>1, <1>3, <1>4, <2>1, <2>2, <2>3, CallFields DEF NewRow, Row
<1>7. NewRow(calls[c]).grant # Null => calls[c].decision = "approved" /\ NewRow(calls[c]).grant = grant
  BY <1>3, <1>4 DEF NewRow
<1> QED BY <1>5, <1>6, <1>7

LEMMA CommitRow ==
    ASSUME TypeOK, CallsSound, NEW c \in Create, CommitInsert(c)
    PROVE  RowTypes /\ \A k \in Key : RowChange(k)
<1>1. In(c, "commit") /\ calls[c] # Null /\ calls[c].key \in Key
  BY CallFields DEF CommitInsert, In
<1>2. PICK x \in Row : x = NewRow(calls[c])
  BY <1>1, BornRow
<1>3. rows' = [rows EXCEPT ![calls[c].key] = x]
  BY <1>2 DEF CommitInsert
<1>4. RowTypes /\ rows'[calls[c].key] = x /\ \A k \in Key \ {calls[c].key} : rows'[k] = rows[k]
  BY <1>1, <1>3 DEF TypeOK, RowTypes
<1>5. x # Null
  OBVIOUS
<1>6. x.id = calls[c].id /\ x.mac = calls[c].mac /\ x.state = calls[c].decision
      /\ x.expires = calls[c].expires /\ x.cap = calls[c].cap
  BY <1>2 DEF NewRow
<1>7. x.grant # Null =>
        calls[c].decision = "approved" /\ Within(x.grant, calls[c].expires, calls[c].cap)
  BY <1>1, <1>2, BornRow
<1>8. Born(calls[c].key, calls[c])
  BY <1>4, <1>5, <1>6, <1>7 DEF Born
<1>9. ~Uncommitted(c)'
  <2>1. calls'[c] = [calls[c] EXCEPT !.at = "respond", !.expires = 0, !.cap = Null, !.txNow = 0]
    BY <1>1 DEF CommitInsert, TypeOK
  <2>2. calls'[c].at = "respond"
    BY <1>1, <2>1, CallFields DEF CallState
  <2> QED BY <2>2 DEF Uncommitted, In
<1> QED BY <1>1, <1>4, <1>8, <1>9 DEF RowChange

LEMMA UpdateRow ==
    ASSUME TypeOK, NEW o \in Operator, Update(o)
    PROVE  RowTypes /\ \A k \in Key : RowChange(k)
<1>1. CASE ~Resolvable(acts[o])
  BY <1>1 DEF TypeOK, RowTypes, RowChange, Update
<1>2. CASE Resolvable(acts[o])
  <2>1. PICK k \in Key : k = acts[o].key
    BY ActFields DEF Update
  <2>2. acts[o] # Null /\ Pending(k) /\ rows[k] # Null /\ acts[o].kind \in State
        /\ acts[o].kind # "pending" /\ acts[o].grant \in Nat \cup {Null} /\ acts[o].txNow \in Nat
    BY <1>2, <2>1, ActFields DEF Update, Resolvable, Pending, State
  <2>3. PICK kind \in State, grant \in Nat \cup {Null}, t \in Nat :
          kind = acts[o].kind /\ grant = acts[o].grant /\ t = acts[o].txNow
    BY <2>2
  <2>4. PICK x \in Row :
          /\ x = [rows[k] EXCEPT !.state = kind, !.grant = grant, !.resolved = t]
          /\ x.id = rows[k].id /\ x.mac = rows[k].mac /\ x.expires = rows[k].expires
          /\ x.cap = rows[k].cap /\ x.state = kind /\ x.grant = grant
    <3> DEFINE x == [rows[k] EXCEPT !.state = kind, !.grant = grant, !.resolved = t]
    <3>1. x \in Row
      BY <2>2, RowFields DEF Row
    <3>2. /\ x.id = rows[k].id /\ x.mac = rows[k].mac /\ x.expires = rows[k].expires
          /\ x.cap = rows[k].cap /\ x.state = kind /\ x.grant = grant
      BY <2>2, RowFields DEF Row
    <3>3. PICK y \in Row : y = x
      BY <3>1
    <3> QED BY <3>2, <3>3
  <2>5. rows' = [rows EXCEPT ![k] = x]
    BY <1>2, <2>1, <2>2, <2>3, <2>4 DEF Update, TypeOK
  <2>6. RowTypes /\ rows'[k] = x /\ \A j \in Key \ {k} : rows'[j] = rows[j]
    BY <2>4, <2>5 DEF TypeOK, RowTypes
  <2>7. x # Null
    BY <2>4
  <2>8. SameRow(k) /\ Decides(k)
    BY <2>1, <2>2, <2>3, <2>4, <2>6, <2>7 DEF SameRow, Decides
  <2> QED BY <2>6, <2>8 DEF RowChange
<1> QED BY <1>1, <1>2

LEMMA ExpireRow ==
    ASSUME TypeOK, ExpireStale
    PROVE  RowTypes /\ \A k \in Key : RowChange(k)
<1>1. ASSUME NEW k \in Key
      PROVE  RowChange(k) /\ rows'[k] \in Row \cup {Null}
  <2>1. CASE ~Stale(k)
    BY <2>1 DEF ExpireStale, TypeOK, RowChange
  <2>2. CASE Stale(k)
    <3>1. rows[k] # Null /\ now \in Nat /\ Pending(k) /\ rows'[k] = Expired(rows[k])
      BY <2>2 DEF ExpireStale, TypeOK, Stale, Pending
    <3>2. /\ rows'[k] \in Row /\ rows'[k].id = rows[k].id /\ rows'[k].mac = rows[k].mac
          /\ rows'[k].expires = rows[k].expires /\ rows'[k].cap = rows[k].cap
          /\ rows'[k].state = "expired" /\ rows'[k].grant = rows[k].grant
      BY <3>1, RowFields DEF Row, Expired, State
    <3>3. rows'[k] # Null
      BY <3>2
    <3>4. SameRow(k) /\ Decides(k)
      BY <3>1, <3>2, <3>3 DEF SameRow, Decides
    <3> QED BY <3>2, <3>4 DEF RowChange
  <2> QED BY <2>1, <2>2
<1>2. RowTypes
  BY <1>1 DEF ExpireStale, RowTypes
<1> QED BY <1>1, <1>2

LEMMA PurgeRow ==
    ASSUME TypeOK, PurgeContext
    PROVE  RowTypes /\ \A k \in Key : RowChange(k)
<1>1. ASSUME NEW k \in Key
      PROVE  RowChange(k) /\ rows'[k] \in Row \cup {Null}
  <2>1. CASE ~Purgeable(k)
    BY <2>1 DEF PurgeContext, TypeOK, RowChange
  <2>2. CASE Purgeable(k)
    <3>1. rows[k] # Null /\ rows[k].state # "pending"
          /\ rows'[k] = [rows[k] EXCEPT !.context = FALSE]
      BY <2>2 DEF PurgeContext, Purgeable
    <3>2. /\ rows'[k] \in Row /\ rows'[k].id = rows[k].id /\ rows'[k].mac = rows[k].mac
          /\ rows'[k].expires = rows[k].expires /\ rows'[k].cap = rows[k].cap
          /\ rows'[k].state = rows[k].state /\ rows'[k].grant = rows[k].grant
      BY <3>1, RowFields DEF Row
    <3>3. rows'[k] # Null
      BY <3>2
    <3>4. SameRow(k)
      BY <3>1, <3>2, <3>3 DEF SameRow
    <3> QED BY <3>1, <3>2, <3>4 DEF RowChange
  <2> QED BY <2>1, <2>2
<1>2. RowTypes
  BY <1>1 DEF PurgeContext, RowTypes
<1> QED BY <1>1, <1>2

LEMMA RowChanges ==
    ASSUME TypeOK, CallsSound, [Next]_vars
    PROVE  RowTypes /\ \A k \in Key : RowChange(k)
<1>1. CASE UNCHANGED rows
  BY <1>1 DEF TypeOK, RowTypes, RowChange
<1>2. ASSUME NEW c \in Create, CreateStep(c)
      PROVE  RowTypes /\ \A k \in Key : RowChange(k)
  BY <1>1, <1>2, CommitRow DEF CreateStep, Arrive, Lookup, Evaluate, BeginInsert, LockPending,
     Insert, Check, Respond, Abandon
<1>3. ASSUME NEW o \in Operator, OperatorStep(o)
      PROVE  RowTypes /\ \A k \in Key : RowChange(k)
  BY <1>1, <1>3, UpdateRow DEF OperatorStep, StartApprove, StartDeny, BeginAct, RollbackAct
<1> QED BY <1>1, <1>2, <1>3, ExpireRow, PurgeRow DEF Next, vars, Restart, Tick

-----------------------------------------------------------------------------
(* What a step can do to an operator's action, and what is told.           *)

\* An action keeps what it will decide, and a new one decides within the row's
\* bounds.
ActChange(o) ==
    \/ acts'[o] = acts[o]
    \/ acts'[o] = Null
    \/ /\ acts[o] # Null /\ acts'[o] # Null /\ rows' = rows
       /\ acts'[o].key = acts[o].key /\ acts'[o].kind = acts[o].kind
       /\ acts'[o].grant = acts[o].grant
    \/ /\ acts'[o] # Null /\ rows' = rows
       /\ rows[acts'[o].key] # Null
       /\ acts'[o].kind = "denied" => acts'[o].grant = Null
       /\ acts'[o].grant # Null =>
            Within(acts'[o].grant, rows[acts'[o].key].expires, rows[acts'[o].key].cap)

ActTypes == acts' \in [Operator -> ActState \cup {Null}]

LEMMA SetAct ==
    ASSUME TypeOK, NEW o \in Operator, NEW x \in ActState, acts' = [acts EXCEPT ![o] = x]
    PROVE  ActTypes /\ acts'[o] = x /\ acts'[o] # Null /\ \A p \in Operator \ {o} : acts'[p] = acts[p]
<1>1. ActTypes /\ acts'[o] = x /\ \A p \in Operator \ {o} : acts'[p] = acts[p]
  BY DEF TypeOK, ActTypes
<1>2. x # Null
  OBVIOUS
<1> QED BY <1>1, <1>2

LEMMA ApproveAct ==
    ASSUME TypeOK, NEW o \in Operator, NEW k \in Key, StartApprove(o, k)
    PROVE  ActTypes /\ \A p \in Operator : ActChange(p)
<1>1. now \in Nat /\ rows[k] # Null /\ rows[k].expires \in Nat /\ now < rows[k].expires
      /\ rows[k].cap \in Nat \cup {Null} /\ rows' = rows
  BY RowFields DEF TypeOK, StartApprove, Pending
<1>2. PICK narrowed \in 0..(Ttl - 1) :
        acts' = [acts EXCEPT ![o] =
                    [at |-> "begin", key |-> k, kind |-> "approved",
                     grant |-> Deadline(now - narrowed, rows[k].cap), txNow |-> 0]]
  BY DEF StartApprove
<1>3. PICK t \in Int : t = now - narrowed /\ 0 <= t + Ttl /\ t <= rows[k].expires
  BY <1>1
<1>4. PICK grant \in Nat : grant = Deadline(t, rows[k].cap)
  BY <1>1, <1>3, DeadlineBound
<1>5. grant <= t + Ttl /\ (rows[k].cap # Null => grant <= rows[k].cap)
  BY <1>1, <1>3, <1>4, DeadlineBound
<1>6. Within(grant, rows[k].expires, rows[k].cap)
  BY <1>1, <1>3, <1>5 DEF Within
<1>7. PICK x \in ActState :
        x = [at |-> "begin", key |-> k, kind |-> "approved", grant |-> grant, txNow |-> 0]
  BY DEF ActState
<1>8. acts' = [acts EXCEPT ![o] = x] /\ x.key = k /\ x.kind = "approved" /\ x.grant = grant
  BY <1>2, <1>3, <1>4, <1>7
<1>9. ActTypes /\ acts'[o] = x /\ acts'[o] # Null /\ \A p \in Operator \ {o} : acts'[p] = acts[p]
  BY <1>8, SetAct
<1> QED BY <1>1, <1>6, <1>8, <1>9 DEF ActChange

LEMMA DenyAct ==
    ASSUME TypeOK, NEW o \in Operator, NEW k \in Key, StartDeny(o, k)
    PROVE  ActTypes /\ \A p \in Operator : ActChange(p)
<1>1. PICK x \in ActState :
        x = [at |-> "begin", key |-> k, kind |-> "denied", grant |-> Null, txNow |-> 0]
  BY DEF ActState
<1>2. acts' = [acts EXCEPT ![o] = x] /\ x.key = k /\ x.grant = Null /\ rows[k] # Null /\ rows' = rows
  BY <1>1 DEF StartDeny
<1>3. ActTypes /\ acts'[o] = x /\ acts'[o] # Null /\ \A p \in Operator \ {o} : acts'[p] = acts[p]
  BY <1>2, SetAct
<1> QED BY <1>2, <1>3 DEF ActChange

LEMMA BeginsAct ==
    ASSUME TypeOK, NEW o \in Operator, BeginAct(o)
    PROVE  ActTypes /\ \A p \in Operator : ActChange(p)
<1>1. acts[o] # Null /\ acts[o] \in ActState /\ now \in Nat /\ rows' = rows
  BY ActFields DEF BeginAct, TypeOK
<1>2. PICK x \in ActState : x = [acts[o] EXCEPT !.at = "update", !.txNow = now]
  BY <1>1 DEF ActState
<1>3. acts' = [acts EXCEPT ![o] = x]
  BY <1>2 DEF BeginAct, TypeOK
<1>4. x.key = acts[o].key /\ x.kind = acts[o].kind /\ x.grant = acts[o].grant
  BY <1>1, <1>2 DEF ActState
<1>5. ActTypes /\ acts'[o] = x /\ acts'[o] # Null /\ \A p \in Operator \ {o} : acts'[p] = acts[p]
  BY <1>3, SetAct
<1> QED BY <1>1, <1>4, <1>5 DEF ActChange

LEMMA ActChanges ==
    ASSUME TypeOK, [Next]_vars
    PROVE  ActTypes /\ \A o \in Operator : ActChange(o)
<1>1. CASE UNCHANGED acts
  BY <1>1 DEF TypeOK, ActTypes, ActChange
<1>2. ASSUME NEW c \in Create, CreateStep(c) PROVE UNCHANGED acts
  BY <1>2 DEF CreateStep, Arrive, Lookup, Evaluate, BeginInsert, LockPending, Insert, Check,
     CommitInsert, Respond, Abandon
<1>3. ASSUME NEW o \in Operator, acts' = [acts EXCEPT ![o] = Null]
      PROVE  ActTypes /\ \A p \in Operator : ActChange(p)
  BY <1>3 DEF TypeOK, ActTypes, ActChange
<1>4. ASSUME NEW o \in Operator, OperatorStep(o)
      PROVE  ActTypes /\ \A p \in Operator : ActChange(p)
  BY <1>3, <1>4, ApproveAct, DenyAct, BeginsAct DEF OperatorStep, Update, RollbackAct
<1>5. CASE Restart
  BY <1>5 DEF Restart, ActTypes, ActChange
<1> QED BY <1>1, <1>2, <1>4, <1>5 DEF Next, vars, ExpireStale, PurgeContext, Tick

LEMMA ToldChanges ==
    ASSUME TypeOK, [Next]_vars, NEW t \in told', t \notin told
    PROVE  /\ rows' = rows
           /\ t.key \in Key /\ t.mac \in Mac /\ t.id \in Nat
           /\ t \in [key : Key, mac : Mac, id : Nat]
           /\ \/ Names(t.key, t.mac, t.id)
              \/ \E c \in Create : /\ In(c, "respond")
                                   /\ t.key = calls[c].key /\ t.mac = calls[c].mac
                                   /\ t.id = calls[c].id
<1>1. PICK c \in Create : CreateStep(c)
  BY DEF Next, vars, OperatorStep, StartApprove, StartDeny, BeginAct, Update, RollbackAct,
     ExpireStale, PurgeContext, Restart, Tick
<1>2. CASE /\ calls[c] # Null /\ rows[calls[c].key] # Null /\ AnswerExisting(c) /\ rows' = rows
  <2>1. SamePayload(c)
        /\ t = [key |-> calls[c].key, mac |-> calls[c].mac, id |-> rows[calls[c].key].id]
    BY <1>2 DEF AnswerExisting
  <2>2. t.key = calls[c].key /\ t.mac = calls[c].mac /\ t.id = rows[calls[c].key].id
    BY <2>1
  <2>3. calls[c].key \in Key /\ calls[c].mac \in Mac
    BY <1>2, CallFields
  <2>4. rows[calls[c].key].id \in Nat
    BY <1>2, <2>3, RowFields
  <2>5. t \in [key : Key, mac : Mac, id : Nat]
    BY <2>1, <2>3, <2>4
  <2>6. Names(t.key, t.mac, t.id)
    BY <1>2, <2>1, <2>2 DEF Names, SamePayload
  <2> QED BY <1>2, <2>2, <2>3, <2>4, <2>5, <2>6
<1>3. CASE Respond(c)
  <2>1. In(c, "respond") /\ calls[c] # Null /\ rows' = rows
        /\ t = [key |-> calls[c].key, mac |-> calls[c].mac, id |-> calls[c].id]
    BY <1>3 DEF Respond, In
  <2>2. calls[c].key \in Key /\ calls[c].mac \in Mac /\ calls[c].id \in Nat
    BY <2>1, CallFields
  <2>3. t \in [key : Key, mac : Mac, id : Nat]
    BY <2>1, <2>2
  <2> QED BY <2>1, <2>2, <2>3
<1>4. CASE Lookup(c) \/ Insert(c)
  BY <1>2, <1>4 DEF Lookup, Insert, In
<1> QED BY <1>1, <1>3, <1>4 DEF CreateStep, Arrive, Evaluate, BeginInsert, LockPending, Check,
           CommitInsert, Abandon

-----------------------------------------------------------------------------
(* The parts of the invariant.                                             *)

LEMMA ClockStep ==
    ASSUME TypeOK, [Next]_vars
    PROVE  now' \in Nat /\ now <= now' /\ lastId' \in Nat
<1>1. now \in Nat /\ lastId \in Nat
  BY DEF TypeOK
<1>2. CASE Tick
  BY <1>1, <1>2 DEF Tick
<1>3. ASSUME NEW c \in Create, CreateStep(c)
      PROVE  now' = now /\ lastId' \in {lastId, lastId + 1}
  BY <1>3 DEF CreateStep, Arrive, Lookup, Evaluate, BeginInsert, LockPending, Insert, Check,
     CommitInsert, Respond, Abandon
<1>4. (now' = now /\ lastId' \in {lastId, lastId + 1}) \/ Tick
  BY <1>3 DEF Next, vars, OperatorStep, StartApprove, StartDeny, BeginAct, Update, RollbackAct,
     ExpireStale, PurgeContext, Restart
<1> QED BY <1>1, <1>2, <1>4

LEMMA TypeStep == ASSUME TypeOK, CallsSound, [Next]_vars PROVE TypeOK'
<1>1. now' \in Nat /\ lastId' \in Nat
  BY ClockStep
<1>2. rows' \in [Key -> Row \cup {Null}]
  BY RowChanges DEF RowTypes
<1>3. calls' \in [Create -> CallState \cup {Null}]
  BY CallChanges DEF CallTypes
<1>4. acts' \in [Operator -> ActState \cup {Null}]
  BY ActChanges DEF ActTypes
<1>5. told' \in SUBSET [key : Key, mac : Mac, id : Nat]
  BY ToldChanges DEF TypeOK
<1> QED BY <1>1, <1>2, <1>3, <1>4, <1>5 DEF TypeOK

\* A row stays, with what identifies it.
LEMMA RowKept ==
    ASSUME IInv, [Next]_vars, NEW k \in Key, rows[k] # Null
    PROVE  SameRow(k)
<1>1. RowChange(k)
  BY RowChanges DEF IInv
<1>2. ~\E c \in Create : In(c, "commit") /\ calls[c].key = k
  BY DEF IInv, CallsSound, In, Uncommitted
<1> QED BY <1>1, <1>2 DEF RowChange, SameRow

LEMMA CallsStep == ASSUME IInv, [Next]_vars PROVE CallsSound'
<1> SUFFICES ASSUME NEW c \in Create, calls'[c] # Null
             PROVE  /\ calls'[c].at \in OpenSteps => Expiry <= calls'[c].expires
                    /\ calls'[c].txNow <= now'
                    /\ Uncommitted(c)' => rows'[calls'[c].key] = Null
  BY DEF CallsSound, OpenSteps
<1>1. TypeOK /\ CallsSound /\ now \in Nat /\ now' \in Nat /\ now <= now'
  BY ClockStep DEF IInv, TypeOK
<1>2. CallChange(c)
  BY <1>1, CallChanges
<1>3. CASE calls'[c] = calls[c]
  <2>1. calls[c] # Null /\ calls[c].txNow \in Nat /\ calls[c].key \in Key
        /\ calls[c].txNow <= now
    BY <1>1, <1>3, CallFields DEF CallsSound
  <2>2. calls'[c].at \in OpenSteps => Expiry <= calls'[c].expires
    BY <1>1, <1>3 DEF CallsSound, OpenSteps
  <2>3. calls'[c].txNow <= now'
    BY <1>1, <1>3, <2>1
  <2>4. ASSUME Uncommitted(c)' PROVE rows'[calls'[c].key] = Null
    <3>1. Uncommitted(c) /\ rows[calls[c].key] = Null
      BY <1>1, <1>3, <2>1, <2>4 DEF Uncommitted, In, CallsSound
    <3>2. RowChange(calls[c].key)
      BY <1>1, <2>1, RowChanges
    <3>3. ASSUME NEW d \in Create, In(d, "commit"), calls[d].key = calls[c].key, ~Uncommitted(d)'
          PROVE  FALSE
      <4>1. Uncommitted(d)
        BY <3>3 DEF Uncommitted
      <4>2. d = c
        BY <3>1, <3>3, <4>1 DEF IInv, OneInserter
      <4> QED BY <2>4, <3>3, <4>2
    <3> QED BY <1>3, <3>1, <3>2, <3>3 DEF RowChange, SameRow
  <2> QED BY <2>2, <2>3, <2>4
<1>4. CASE Advance(c) /\ now' = now /\ (~In(c, "commit") => rows' = rows)
  <2>1. calls[c] # Null => /\ calls[c].txNow <= now /\ calls[c].expires \in Nat
                           /\ calls[c].txNow \in Nat
    BY <1>1, CallFields DEF CallsSound
  <2>2. calls'[c].txNow <= now'
    <3>1. calls'[c].txNow \in {0, now} \/ (calls[c] # Null /\ calls'[c].txNow = calls[c].txNow)
      BY <1>4 DEF Advance, Moves, In
    <3> QED BY <1>1, <1>4, <2>1, <3>1
  <2>3. ASSUME calls'[c].at \in OpenSteps PROVE Expiry <= calls'[c].expires
    <3>1. \/ calls'[c].expires = now + Expiry
          \/ /\ calls[c] # Null /\ calls'[c].expires = calls[c].expires
             /\ calls[c].at \in OpenSteps
      BY <1>4, <2>3 DEF Advance, Moves, In, Kept, OpenSteps
    <3>2. now + Expiry >= Expiry
      BY <1>1
    <3> QED BY <1>1, <3>1, <3>2 DEF CallsSound, OpenSteps
  <2>4. ASSUME Uncommitted(c)' PROVE rows'[calls'[c].key] = Null
    <3>1. calls'[c].at \in {"check", "commit"}
      BY <2>4 DEF Uncommitted, In
    <3>2. \/ Moves(c, "insert", "check") /\ rows[calls[c].key] = Null /\ Kept(c)
          \/ Moves(c, "check", "commit") /\ Kept(c)
      BY <1>4, <3>1 DEF Advance, Moves
    <3>3. calls[c] # Null /\ ~In(c, "commit") /\ calls'[c].key = calls[c].key
          /\ rows[calls[c].key] = Null
      BY <1>1, <3>2 DEF Moves, In, Kept, Same, CallsSound, Uncommitted
    <3> QED BY <1>4, <3>3
  <2> QED BY <2>2, <2>3, <2>4
<1> QED BY <1>2, <1>3, <1>4 DEF CallChange

LEMMA InserterStep == ASSUME IInv, [Next]_vars PROVE OneInserter'
<1> SUFFICES ASSUME NEW c \in Create, NEW d \in Create, Uncommitted(c)', Uncommitted(d)',
                    calls'[c].key = calls'[d].key, c # d
             PROVE  FALSE
  BY DEF OneInserter
<1>1. TypeOK /\ OneInserter /\ CallChange(c) /\ CallChange(d)
  BY CallChanges DEF IInv
\* Of two, at most one advances, and only while the other is not there.
<1>2. ASSUME NEW a \in Create, NEW b \in Create, a # b, Uncommitted(a)', Uncommitted(b)',
             calls'[a].key = calls'[b].key, CallChange(a), calls'[a] # calls[a]
      PROVE  FALSE
  <2>1. calls'[a] # Null /\ calls'[a].at \in {"check", "commit"}
    BY <1>2 DEF Uncommitted, In
  <2>2. Advance(a) /\ calls'[b] = calls[b]
    BY <1>2, <2>1 DEF CallChange
  <2>3. Uncommitted(b)
    BY <1>2, <2>2 DEF Uncommitted, In
  <2>4. CASE Moves(a, "insert", "check") /\ Kept(a) /\ NobodyInserts(a)
    BY <1>2, <2>2, <2>3, <2>4 DEF NobodyInserts, Kept, Same
  <2>5. CASE Moves(a, "check", "commit") /\ Kept(a)
    BY <1>1, <1>2, <2>2, <2>3, <2>5 DEF OneInserter, Moves, Uncommitted, Kept, Same
  <2> QED BY <2>1, <2>2, <2>4, <2>5 DEF Advance, Moves
<1>3. calls'[c] = calls[c] /\ calls'[d] = calls[d]
  BY <1>1, <1>2
<1>4. Uncommitted(c) /\ Uncommitted(d)
  BY <1>3 DEF Uncommitted, In
<1> QED BY <1>1, <1>3, <1>4 DEF OneInserter

LEMMA HolderStep == ASSUME IInv, [Next]_vars PROVE OneHolder'
<1> SUFFICES ASSUME NEW c \in Create, NEW d \in Create, HoldsPending(c)', HoldsPending(d)', c # d
             PROVE  FALSE
  BY DEF OneHolder
<1>1. TypeOK /\ OneHolder /\ CallChange(c) /\ CallChange(d)
  BY CallChanges DEF IInv
<1>2. ASSUME NEW a \in Create, NEW b \in Create, a # b, HoldsPending(a)', HoldsPending(b)',
             CallChange(a), calls'[a] # calls[a]
      PROVE  FALSE
  <2>1. calls'[a] # Null /\ calls'[a].at \in {"insert", "check", "commit"}
        /\ calls'[a].decision = "pending"
    BY <1>2 DEF HoldsPending
  <2>2. Advance(a) /\ calls'[b] = calls[b]
    BY <1>2, <2>1 DEF CallChange
  <2>3. HoldsPending(b)
    BY <1>2, <2>2 DEF HoldsPending
  <2>4. CASE Moves(a, "lock", "insert") /\ Kept(a) /\ (calls[a].decision = "pending" => PendingLockFree(a))
    <3>1. PendingLockFree(a)
      BY <2>1, <2>4 DEF Kept
    <3> QED BY <1>2, <2>3, <3>1 DEF PendingLockFree, HoldsPending
  <2>5. CASE (Moves(a, "insert", "check") \/ Moves(a, "check", "commit")) /\ Kept(a)
    <3>1. HoldsPending(a)
      BY <2>1, <2>5 DEF HoldsPending, Moves, In, Kept
    <3> QED BY <1>1, <1>2, <2>3, <3>1 DEF OneHolder
  <2> QED BY <2>1, <2>2, <2>4, <2>5 DEF Advance, Moves
<1>3. calls'[c] = calls[c] /\ calls'[d] = calls[d]
  BY <1>1, <1>2
<1>4. HoldsPending(c) /\ HoldsPending(d)
  BY <1>3 DEF HoldsPending
<1> QED BY <1>1, <1>4 DEF OneHolder

LEMMA NamesKept ==
    ASSUME IInv, [Next]_vars, NEW k \in Key, NEW m, NEW i, Names(k, m, i)
    PROVE  rows'[k] # Null /\ rows'[k].mac = m /\ rows'[k].id = i
BY RowKept DEF Names, SameRow

LEMMA ToldStep == ASSUME IInv, [Next]_vars PROVE ToldSound'
<1>1. TypeOK /\ CallsSound /\ ToldSound
  BY DEF IInv
<1>2. ASSUME NEW t \in told'
      PROVE  rows'[t.key] # Null /\ rows'[t.key].mac = t.mac /\ rows'[t.key].id = t.id
  <2>1. CASE t \in told
    <3>1. Names(t.key, t.mac, t.id) /\ t.key \in Key
      BY <1>1, <2>1 DEF ToldSound, TypeOK
    <3> QED BY <3>1, NamesKept
  <2>2. CASE t \notin told
    <3>1. Names(t.key, t.mac, t.id) /\ rows' = rows
      BY <1>1, <1>2, <2>2, ToldChanges DEF ToldSound
    <3> QED BY <3>1 DEF Names
  <2> QED BY <2>1, <2>2
<1>3. ASSUME NEW c \in Create, In(c, "respond")'
      PROVE  /\ rows'[calls'[c].key] # Null
             /\ rows'[calls'[c].key].mac = calls'[c].mac /\ rows'[calls'[c].key].id = calls'[c].id
  <2>1. calls'[c] # Null /\ calls'[c].at = "respond" /\ CallChange(c)
    BY <1>1, <1>3, CallChanges DEF In
  <2>2. CASE calls'[c] = calls[c]
    <3>1. In(c, "respond") /\ calls[c].key \in Key
      BY <1>1, <2>1, <2>2, CallFields DEF In
    <3>2. Names(calls[c].key, calls[c].mac, calls[c].id)
      BY <1>1, <3>1 DEF ToldSound
    <3> QED BY <2>2, <3>1, <3>2, NamesKept
  <2>3. CASE calls'[c] # calls[c]
    <3>1. Advance(c)
      BY <2>1, <2>3 DEF CallChange
    <3>2. /\ In(c, "commit") /\ Same(c) /\ calls'[c].id = calls[c].id
          /\ rows' = [rows EXCEPT ![calls[c].key] = NewRow(calls[c])]
      BY <2>1, <3>1 DEF Advance, Moves
    <3>3. calls[c].key \in Key
      BY <1>1, <3>2, CallFields DEF In
    <3>4. rows'[calls[c].key] = NewRow(calls[c])
      BY <1>1, <3>2, <3>3 DEF TypeOK
    <3>5. NewRow(calls[c]) # Null
      BY <1>1, <3>2, BornRow
    <3>6. NewRow(calls[c]).mac = calls[c].mac /\ NewRow(calls[c]).id = calls[c].id
      BY DEF NewRow
    <3> QED BY <3>2, <3>4, <3>5, <3>6 DEF Same
  <2> QED BY <2>2, <2>3
<1> QED BY <1>2, <1>3 DEF ToldSound, Names

LEMMA ActsStep == ASSUME IInv, [Next]_vars PROVE ActsSound'
<1> SUFFICES ASSUME NEW o \in Operator, acts'[o] # Null
             PROVE  /\ rows'[acts'[o].key] # Null
                    /\ acts'[o].kind = "denied" => acts'[o].grant = Null
                    /\ acts'[o].grant # Null =>
                         Within(acts'[o].grant, rows'[acts'[o].key].expires, rows'[acts'[o].key].cap)
  BY DEF ActsSound, Within
<1>1. TypeOK /\ ActsSound /\ ActChange(o)
  BY ActChanges DEF IInv
<1>2. CASE acts'[o] = acts[o]
  <2>1. acts[o] # Null /\ acts[o].key \in Key /\ rows[acts[o].key] # Null
    BY <1>1, <1>2, ActFields DEF ActsSound
  <2>2. SameRow(acts[o].key)
    BY <2>1, RowKept
  <2> QED BY <1>1, <1>2, <2>1, <2>2 DEF ActsSound, SameRow
<1>3. CASE acts[o] # Null /\ rows' = rows /\ acts'[o].key = acts[o].key
           /\ acts'[o].kind = acts[o].kind /\ acts'[o].grant = acts[o].grant
  BY <1>1, <1>3 DEF ActsSound
<1> QED BY <1>1, <1>2, <1>3 DEF ActChange

LEMMA GrantStep == ASSUME IInv, [Next]_vars PROVE GrantCapped'
<1> SUFFICES ASSUME NEW k \in Key, rows'[k] # Null, rows'[k].grant # Null
             PROVE  /\ rows'[k].state = "approved"
                    /\ Within(rows'[k].grant, rows'[k].expires, rows'[k].cap)
  BY DEF GrantCapped, Within
<1>1. TypeOK /\ ActsSound /\ GrantCapped /\ RowChange(k)
  BY RowChanges DEF IInv
<1>2. rows[k] # Null /\ rows[k].grant # Null
        => rows[k].state = "approved" /\ Within(rows[k].grant, rows[k].expires, rows[k].cap)
  BY <1>1 DEF GrantCapped, Within
<1>3. ASSUME NEW c \in Create, Born(k, calls[c])
      PROVE  rows'[k].state = "approved" /\ Within(rows'[k].grant, rows'[k].expires, rows'[k].cap)
  BY <1>3 DEF Born
<1>4. CASE SameRow(k) /\ Decides(k)
  <2>1. rows[k] # Null /\ rows[k].state = "pending" /\ rows[k].grant = Null
    BY <1>2, <1>4 DEF Decides, Pending
  <2>2. PICK o \in Operator : /\ acts[o] # Null /\ acts[o].key = k
                              /\ rows'[k].state = acts[o].kind /\ rows'[k].grant = acts[o].grant
    BY <1>4, <2>1 DEF Decides
  <2>3. acts[o].kind # "denied" /\ Within(acts[o].grant, rows[k].expires, rows[k].cap)
    BY <1>1, <2>2 DEF ActsSound
  <2>4. acts[o].kind = "approved"
    BY <1>1, <2>2, <2>3, ActFields
  <2> QED BY <1>4, <2>2, <2>3, <2>4 DEF SameRow
<1>5. CASE SameRow(k) /\ rows'[k].state = rows[k].state /\ rows'[k].grant = rows[k].grant
  BY <1>2, <1>5 DEF SameRow
<1>6. CASE rows'[k] = rows[k]
  BY <1>2, <1>6
<1> QED BY <1>1, <1>3, <1>4, <1>5, <1>6 DEF RowChange

-----------------------------------------------------------------------------
(* The pending cap.                                                        *)

LEMMA KeysCounted ==
    ASSUME NEW S \in SUBSET Key
    PROVE  /\ IsFiniteSet(S) /\ Cardinality(S) \in Nat
           /\ \A T \in SUBSET S : Cardinality(T) <= Cardinality(S)
           /\ \A k \in Key : \A T \in SUBSET (S \cup {k}) : Cardinality(T) <= Cardinality(S) + 1
<1>1. IsFiniteSet(S)
  BY FS_Subset
<1>2. Cardinality(S) \in Nat
  BY <1>1, FS_CardinalityType
<1>3. ASSUME NEW T \in SUBSET S PROVE Cardinality(T) <= Cardinality(S)
  BY <1>1, FS_Subset
<1>4. ASSUME NEW k \in Key, NEW T \in SUBSET (S \cup {k})
      PROVE  Cardinality(T) <= Cardinality(S) + 1
  <2>1. /\ IsFiniteSet(S \cup {k})
        /\ Cardinality(S \cup {k}) = Cardinality(S) \/ Cardinality(S \cup {k}) = Cardinality(S) + 1
    BY <1>1, FS_AddElement
  <2>2. Cardinality(T) <= Cardinality(S \cup {k}) /\ Cardinality(T) \in Nat
    BY <2>1, FS_Subset, FS_CardinalityType
  <2> QED BY <1>2, <2>1, <2>2
<1> QED BY <1>1, <1>2, <1>3, <1>4

\* A row that is pending was so before, or the holder of the lock commits it.
LEMMA PendingAfter ==
    ASSUME IInv, [Next]_vars, NEW k \in Key, rows'[k] # Null, rows'[k].state = "pending"
    PROVE  \/ Pending(k) /\ rows'[k].expires = rows[k].expires
           \/ \E c \in Create : /\ In(c, "commit") /\ HoldsPending(c) /\ ~Uncommitted(c)'
                                /\ calls[c].key = k /\ rows'[k].expires = calls[c].expires
<1>1. RowChange(k)
  BY RowChanges DEF IInv
<1>2. ASSUME NEW c \in Create, In(c, "commit"), calls[c].key = k, ~Uncommitted(c)',
             Born(k, calls[c])
      PROVE  HoldsPending(c) /\ rows'[k].expires = calls[c].expires
  BY <1>2 DEF Born, HoldsPending, In
<1> QED BY <1>1, <1>2 DEF RowChange, SameRow, Decides, Pending


LEMMA CountStep == ASSUME IInv, [Next]_vars PROVE CountSound'
<1> SUFFICES ASSUME NEW c \in Create, In(c, "commit")', calls'[c].decision = "pending"
             PROVE  Counted(c)' <= Cap
  BY DEF CountSound
<1>1. TypeOK /\ CountSound /\ OneHolder /\ CallChange(c) /\ calls'[c] # Null
      /\ calls'[c].at = "commit"
  BY CallChanges DEF IInv, In
<1>2. CASE calls'[c] = calls[c]
  <2>1. In(c, "commit") /\ HoldsPending(c) /\ Uncommitted(c)'
    BY <1>1, <1>2 DEF In, HoldsPending, Uncommitted
  <2> DEFINE S == {k \in Key : Pending(k) /\ calls[c].txNow < rows[k].expires}
  <2> DEFINE T == {k \in Key : /\ rows'[k] # Null /\ rows'[k].state = "pending"
                               /\ calls[c].txNow < rows'[k].expires}
  <2> DEFINE own == IF calls[c].txNow < calls[c].expires THEN 1 ELSE 0
  <2>2. T \subseteq S
    <3> SUFFICES ASSUME NEW k \in T PROVE Pending(k) /\ rows'[k].expires = rows[k].expires
      OBVIOUS
    <3>1. ~\E d \in Create : In(d, "commit") /\ HoldsPending(d) /\ ~Uncommitted(d)'
      BY <1>1, <2>1 DEF OneHolder
    <3> QED BY <3>1, PendingAfter
  <2>3. Counted(c) = Cardinality(S) + own /\ Counted(c)' = Cardinality(T) + own
    BY <1>2 DEF Counted, Pending
  <2>4. Counted(c) <= Cap
    BY <1>1, <1>2, <2>1 DEF CountSound
  <2>5. S \in SUBSET Key /\ T \in SUBSET Key /\ T \in SUBSET S
    BY <2>2
  <2>6. own \in Nat
    OBVIOUS
  <2> HIDE DEF S, T, own
  <2>7. Cardinality(T) <= Cardinality(S) /\ Cardinality(S) \in Nat /\ Cardinality(T) \in Nat
    BY <2>5, KeysCounted
  <2> QED BY <2>3, <2>4, <2>6, <2>7
<1>3. CASE calls'[c] # calls[c]
  <2>1. Advance(c) /\ (~In(c, "commit") => rows' = rows)
    BY <1>1, <1>3 DEF CallChange
  <2>2. Moves(c, "check", "commit") /\ Kept(c) /\ calls'[c].txNow = calls[c].txNow /\ Admitted(c)
    BY <1>1, <2>1 DEF Advance, Moves
  <2>3. rows' = rows /\ calls'[c].expires = calls[c].expires /\ calls[c].decision = "pending"
    BY <2>1, <2>2 DEF Moves, In, Kept
  <2>4. Counted(c)' = Counted(c)
    BY <2>2, <2>3 DEF Counted, Pending
  <2>5. Counted(c) <= Cap
    BY <2>2, <2>3 DEF Admitted
  <2> QED BY <2>4, <2>5
<1> QED BY <1>2, <1>3

LEMMA CapStep == ASSUME IInv, [Next]_vars PROVE PendingCapHolds'
<1> DEFINE L == {k \in Key : Pending(k) /\ now < rows[k].expires}
<1> DEFINE N == {k \in Key : /\ rows'[k] # Null /\ rows'[k].state = "pending"
                             /\ now' < rows'[k].expires}
<1> SUFFICES Cardinality(N) <= Cap
  BY DEF PendingCapHolds, Pending
<1>1. TypeOK /\ CallsSound /\ OneHolder /\ now \in Nat /\ now' \in Nat /\ now <= now'
  BY ClockStep DEF IInv, TypeOK
<1>2. CASE ~\E c \in Create : In(c, "commit") /\ HoldsPending(c) /\ ~Uncommitted(c)'
  <2>1. N \subseteq L
    <3> SUFFICES ASSUME NEW k \in N PROVE Pending(k) /\ now < rows[k].expires
      OBVIOUS
    <3>1. Pending(k) /\ rows'[k].expires = rows[k].expires /\ now' < rows'[k].expires
      BY <1>2, PendingAfter
    <3>2. rows[k].expires \in Nat
      BY <1>1, <3>1, RowFields DEF Pending
    <3> QED BY <1>1, <3>1, <3>2
  <2>2. Cardinality(L) <= Cap
    BY DEF IInv, PendingCapHolds
  <2>3. L \in SUBSET Key /\ N \in SUBSET Key /\ N \in SUBSET L
    BY <2>1
  <2> HIDE DEF L, N
  <2>4. Cardinality(N) <= Cardinality(L) /\ Cardinality(L) \in Nat /\ Cardinality(N) \in Nat
    BY <2>3, KeysCounted
  <2> QED BY <2>2, <2>4
<1>3. ASSUME NEW c \in Create, In(c, "commit"), HoldsPending(c) PROVE Cardinality(N) <= Cap
  <2>1. /\ calls[c] # Null /\ calls[c].txNow \in Nat /\ calls[c].expires \in Nat
        /\ calls[c].key \in Key /\ calls[c].txNow <= now /\ calls[c].decision = "pending"
    BY <1>1, <1>3, CallFields DEF In, CallsSound, HoldsPending
  <2> DEFINE S == {k \in Key : Pending(k) /\ calls[c].txNow < rows[k].expires}
  <2> DEFINE own == IF calls[c].txNow < calls[c].expires THEN 1 ELSE 0
  <2>2. Counted(c) = Cardinality(S) + own /\ Counted(c) <= Cap
    BY <1>3, <2>1 DEF Counted, IInv, CountSound
  <2>3. ASSUME NEW k \in N
        PROVE  k \in S \/ (k = calls[c].key /\ calls[c].txNow < calls[c].expires)
    <3>1. CASE Pending(k) /\ rows'[k].expires = rows[k].expires
      <4>1. rows[k].expires \in Nat /\ now' < rows[k].expires
        BY <1>1, <3>1, RowFields DEF Pending
      <4> QED BY <1>1, <2>1, <3>1, <4>1
    <3>2. ASSUME NEW d \in Create, HoldsPending(d), calls[d].key = k,
                 rows'[k].expires = calls[d].expires
          PROVE  k = calls[c].key /\ calls[c].txNow < calls[c].expires
      <4>1. d = c
        BY <1>1, <1>3, <3>2 DEF OneHolder
      <4>2. now' < calls[c].expires
        BY <3>2, <4>1
      <4> QED BY <1>1, <2>1, <3>2, <4>1, <4>2
    <3> QED BY <3>1, <3>2, PendingAfter
  <2>4. S \in SUBSET Key /\ N \in SUBSET Key
    OBVIOUS
  <2>5. own = 1 => N \in SUBSET (S \cup {calls[c].key})
    BY <2>3
  <2>6. own # 1 => N \in SUBSET S /\ own = 0
    BY <2>3
  <2>7. own \in {0, 1}
    OBVIOUS
  <2> HIDE DEF S, N, own
  <2>8. Cardinality(S) \in Nat /\ Cardinality(N) \in Nat
    BY <2>4, KeysCounted
  <2>9. CASE own = 1
    <3>1. Cardinality(N) <= Cardinality(S) + 1
      BY <2>1, <2>4, <2>5, <2>9, KeysCounted
    <3> QED BY <2>2, <2>8, <2>9, <3>1
  <2>10. CASE own # 1
    <3>1. Cardinality(N) <= Cardinality(S)
      BY <2>4, <2>6, <2>10, KeysCounted
    <3> QED BY <2>2, <2>6, <2>8, <2>10, <3>1
  <2> QED BY <2>9, <2>10
<1> QED BY <1>2, <1>3

-----------------------------------------------------------------------------
(* The theorems.                                                           *)

LEMMA IInvInit == Init => IInv
<1> SUFFICES ASSUME Init PROVE IInv
  OBVIOUS
<1>1. TypeOK
  BY DEF Init, TypeOK
<1>2. CallsSound /\ OneInserter /\ OneHolder /\ ToldSound /\ ActsSound /\ GrantCapped /\ CountSound
  BY DEF Init, CallsSound, OneInserter, OneHolder, ToldSound, ActsSound, GrantCapped, CountSound,
     In, Uncommitted, HoldsPending
<1>3. PendingCapHolds
  <2>1. {k \in Key : Pending(k) /\ now < rows[k].expires} = {}
    BY DEF Init, Pending
  <2>2. Cardinality({k \in Key : Pending(k) /\ now < rows[k].expires}) = 0
    BY <2>1, FS_EmptySet
  <2> QED BY <2>2 DEF PendingCapHolds
<1> QED BY <1>1, <1>2, <1>3 DEF IInv

LEMMA IInvStep == IInv /\ [Next]_vars => IInv'
<1> SUFFICES ASSUME IInv, [Next]_vars PROVE IInv'
  OBVIOUS
<1>1. TypeOK'
  BY TypeStep DEF IInv
<1> QED BY <1>1, CallsStep, InserterStep, HolderStep, ToldStep, ActsStep, GrantStep, CountStep,
           CapStep DEF IInv

(***************************************************************************)
(* IInv is an invariant of the creations, decisions and sweeps.            *)
(***************************************************************************)
THEOREM Invariance == Spec => []IInv
BY IInvInit, IInvStep, PTL DEF Spec

(***************************************************************************)
(* Every request, call and operator action keeps its type.                 *)
(***************************************************************************)
THEOREM TypeCorrect == Spec => []TypeOK
<1>1. IInv => TypeOK
  BY DEF IInv
<1> QED BY <1>1, Invariance, PTL

(***************************************************************************)
(* Everything a client is answered under one idempotency key is about one  *)
(* payload and one request, however many handlers create, find or lose the *)
(* race for it (create, insert_access_request_with_id).                    *)
(***************************************************************************)
THEOREM OneRequestPerKeyHolds == Spec => []OneRequestPerKey
<1>1. IInv => OneRequestPerKey
  BY DEF IInv, ToldSound, Names, OneRequestPerKey
<1> QED BY <1>1, Invariance, PTL

(***************************************************************************)
(* A grant never outlives the policy row its request matched, nor the      *)
(* request's own expiry by more than its ttl, whoever approved it and      *)
(* however the approvals interleave (approve, approve_request, create).    *)
(***************************************************************************)
THEOREM GrantCappedHolds == Spec => []GrantCapped
<1>1. IInv => GrantCapped
  BY DEF IInv
<1> QED BY <1>1, Invariance, PTL

(***************************************************************************)
(* However many creations of a client run at once, and although each       *)
(* counts at its own transaction's now(), the client never has more than   *)
(* max_pending_per_client requests that can still be decided.              *)
(***************************************************************************)
THEOREM PendingCapHoldsAlways == Spec => []PendingCapHolds
<1>1. IInv => PendingCapHolds
  BY DEF IInv
<1> QED BY <1>1, Invariance, PTL

(***************************************************************************)
(* The first decision about a request is the only one: approvals, denials, *)
(* expiry and automatic decisions race, and none overwrites another        *)
(* (approve_request, resolve_deny, expire_stale).                          *)
(***************************************************************************)
THEOREM DecidedOnceHolds == Spec => DecidedOnce
<1> DEFINE Once == \A k \in Key : rows[k] # Null /\ rows[k].state # "pending"
                     => rows'[k] \in {rows[k], [rows[k] EXCEPT !.context = FALSE]}
<1>1. IInv /\ [Next]_vars => Once
  <2> SUFFICES ASSUME IInv, [Next]_vars, NEW k \in Key, rows[k] # Null, rows[k].state # "pending"
               PROVE  rows'[k] \in {rows[k], [rows[k] EXCEPT !.context = FALSE]}
    OBVIOUS
  <2>1. RowChange(k)
    BY RowChanges DEF IInv
  <2>2. ~\E c \in Create : In(c, "commit") /\ calls[c].key = k
    BY DEF IInv, CallsSound, In, Uncommitted
  <2> QED BY <2>1, <2>2 DEF RowChange, Decides, Pending
<1> QED BY <1>1, Invariance, PTL DEF Spec, DecidedOnce
=============================================================================
