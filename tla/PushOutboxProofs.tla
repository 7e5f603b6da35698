-------------------------- MODULE PushOutboxProofs --------------------------
(***************************************************************************)
(* Theorems about the notifications to the operator, for any number of     *)
(* identical requests, any windows and any number of faults.               *)
(***************************************************************************)
EXTENDS PushOutbox, TLAPS

USE ConstantsAssumption, NullAssumption

-----------------------------------------------------------------------------
(* The inductive invariant.                                                *)

\* Every push is about a row, a create handler's about its own, and past its
\* first step it holds push_lock.
JobsSound ==
    /\ \A s \in Sender : jobs[s] # Null =>
         /\ rows[jobs[s].req] # Null
         /\ s \in Request => jobs[s].req = s
         /\ jobs[s].at # "lock" => lock = s
    /\ \A r \in queue : rows[r] # Null

Undelivered(r) == rows[r] = Null \/ rows[r].delivered = Null

\* A message on its way, or one that has just arrived, is not recorded yet.
SendsSound ==
    \A s \in Sender : At(s, "send") \/ At(s, "mark") => Undelivered(jobs[s].req)

Unmarked(r) == ~\E s \in Sender : At(s, "mark") /\ jobs[s].req = r

\* Until the one message is recorded, or about to be, all others were lost.
SentSound ==
    \A r \in Request : /\ sent[r] <= 1 + lost[r]
                       /\ Undelivered(r) /\ Unmarked(r) => sent[r] <= lost[r]

Told == \E q \in Request : sent[q] > 0

\* Whoever is about to record a delivery has evidence of one.
MarksSound == \A s \in Sender : At(s, "mark") \/ At(s, "covered") => Told

IInv == TypeOK /\ JobsSound /\ SendsSound /\ SentSound /\ MarksSound /\ SomeoneTold

-----------------------------------------------------------------------------
(* What a step can do to a row and to a sender's job.                      *)

Step == {"lock", "dedup", "covered", "claim", "send", "mark"}

LEMMA JobFields ==
    ASSUME TypeOK, NEW s \in Sender, jobs[s] # Null
    PROVE  jobs[s] \in Job /\ jobs[s].req \in Request /\ jobs[s].at \in Step
BY DEF TypeOK, Job, Step

LEMMA GotoJob ==
    ASSUME TypeOK, NEW s \in Sender, jobs[s] # Null, NEW step \in Step, Goto(s, step)
    PROVE  /\ jobs' \in [Sender -> Job \cup {Null}]
           /\ jobs'[s] # Null /\ jobs'[s].at = step /\ jobs'[s].req = jobs[s].req
           /\ \A t \in Sender \ {s} : jobs'[t] = jobs[t]
<1>1. jobs'[s] = [jobs[s] EXCEPT !.at = step] /\ \A t \in Sender \ {s} : jobs'[t] = jobs[t]
  BY DEF Goto, TypeOK
<1>2. jobs'[s] \in Job /\ jobs'[s].at = step /\ jobs'[s].req = jobs[s].req
  BY <1>1, JobFields DEF Job, Step
<1>3. jobs' \in [Sender -> Job \cup {Null}]
  BY <1>1, <1>2 DEF Goto, TypeOK
<1>4. jobs'[s] # Null
  BY <1>2
<1> QED BY <1>1, <1>2, <1>3, <1>4

LEMMA DoneJob ==
    ASSUME TypeOK, NEW s \in Sender, Done(s)
    PROVE  /\ jobs' \in [Sender -> Job \cup {Null}]
           /\ lock' \in Sender \cup {Null}
           /\ jobs'[s] = Null
           /\ \A t \in Sender \ {s} : jobs'[t] = jobs[t]
           /\ lock # s => lock' = lock
BY DEF Done, TypeOK

\* A push that starts.
LEMMA NewJob ==
    ASSUME TypeOK, NEW s \in Sender, NEW r \in Request,
           jobs' = [jobs EXCEPT ![s] = [at |-> "lock", req |-> r]]
    PROVE  /\ jobs' \in [Sender -> Job \cup {Null}]
           /\ jobs'[s] # Null /\ jobs'[s].at = "lock" /\ jobs'[s].req = r
           /\ \A t \in Sender \ {s} : jobs'[t] = jobs[t]
<1>1. jobs'[s] = [at |-> "lock", req |-> r] /\ \A t \in Sender \ {s} : jobs'[t] = jobs[t]
  BY DEF TypeOK
<1>2. [at |-> "lock", req |-> r] \in Job
  BY DEF Job
<1>3. jobs' \in [Sender -> Job \cup {Null}]
  BY <1>2 DEF TypeOK
<1>4. jobs'[s] # Null
  BY <1>1, <1>2
<1>5. jobs'[s].at = "lock" /\ jobs'[s].req = r
  BY <1>1
<1> QED BY <1>1, <1>3, <1>4, <1>5

\* A row that was written, in a column other than push_delivered_at or in it.
LEMMA WrittenRow ==
    ASSUME TypeOK, NEW r \in Request, rows[r] # Null,
           NEW state \in {"pending", "lapsed", "resolved"}
    PROVE  /\ [rows[r] EXCEPT !.state = state] \in Row
           /\ [rows[r] EXCEPT !.state = state].delivered = rows[r].delivered
           /\ [rows[r] EXCEPT !.delivered = now] \in Row
           /\ Counted(rows[r]) \in Row
           /\ Counted(rows[r]).delivered = rows[r].delivered
<1>1. rows[r] \in Row /\ rows[r].attempts \in 0..MaxAttempts /\ now \in Nat
  BY DEF TypeOK, Row
<1>2. (IF rows[r].attempts < MaxAttempts THEN rows[r].attempts + 1 ELSE rows[r].attempts)
        \in 0..MaxAttempts
  BY <1>1
<1>3. Counted(rows[r]) \in Row /\ Counted(rows[r]).delivered = rows[r].delivered
  BY <1>1, <1>2 DEF Row, Counted
<1> QED BY <1>1, <1>3 DEF Row

LEMMA SubmittedRow ==
    ASSUME TypeOK, NEW r \in Request, NEW fyi \in BOOLEAN, Submit(r, fyi)
    PROVE  /\ rows' \in [Request -> Row \cup {Null}]
           /\ rows'[r] # Null /\ rows'[r].delivered = Null
           /\ \A q \in Request \ {r} : rows'[q] = rows[q]
<1> DEFINE row == [state |-> IF fyi THEN "resolved" ELSE "pending", fyi |-> fyi,
                   created |-> now, delivered |-> Null, attempts |-> 0]
<1>1. row \in Row
  BY DEF Row, TypeOK
<1>2. rows'[r] = row /\ \A q \in Request \ {r} : rows'[q] = rows[q]
  BY DEF Submit, TypeOK
<1>3. rows' \in [Request -> Row \cup {Null}]
  BY <1>1 DEF Submit, TypeOK
<1>4. rows'[r] # Null
  BY <1>1, <1>2
<1>5. rows'[r].delivered = Null
  BY <1>2
<1> QED BY <1>2, <1>3, <1>4, <1>5

-----------------------------------------------------------------------------
(* Type correctness.                                                       *)

LEMMA LoseType ==
    ASSUME TypeOK, NEW S, Lose(S)
    PROVE  /\ lost' \in [Request -> Nat]
           /\ \A r \in Request : lost[r] <= lost'[r]
BY DEF TypeOK, Lose

LEMMA PushType == ASSUME TypeOK, JobsSound, NEW s \in Sender, Push(s) PROVE TypeOK'
<1>0. jobs[s] # Null /\ jobs[s].req \in Request /\ RowOf(s) # Null
  BY JobFields DEF Push, TakeLock, Dedup, MarkCovered, Claim, SendOk, Mark, At, RowOf, JobsSound
<1>1. CASE TakeLock(s)
  BY <1>0, <1>1, GotoJob DEF TakeLock, TypeOK, Step
<1>2. CASE Dedup(s)
  BY <1>0, <1>2, GotoJob DEF Dedup, TypeOK, Step
<1>3. CASE MarkCovered(s) \/ Mark(s)
  <2>1. [rows[jobs[s].req] EXCEPT !.delivered = now] \in Row
    BY <1>0, WrittenRow DEF RowOf
  <2>2. rows' = [rows EXCEPT ![jobs[s].req] = [rows[jobs[s].req] EXCEPT !.delivered = now]]
    BY <1>3 DEF MarkCovered, Mark, MarkDelivered
  <2>3. rows' \in [Request -> Row \cup {Null}]
    BY <2>1, <2>2 DEF TypeOK
  <2> QED BY <1>3, <2>3, DoneJob DEF MarkCovered, Mark, TypeOK
<1>4. CASE Claim(s)
  <2>1. CASE Goto(s, "send") /\ UNCHANGED lock /\ rows' = [rows EXCEPT ![jobs[s].req] = Counted(@)]
    <3>1. rows' \in [Request -> Row \cup {Null}]
      BY <1>0, <2>1, WrittenRow DEF RowOf, TypeOK
    <3> QED BY <1>0, <1>4, <2>1, <3>1, GotoJob DEF Claim, TypeOK, Step
  <2>2. CASE Done(s) /\ UNCHANGED rows
    BY <1>4, <2>2, DoneJob DEF Claim, TypeOK
  <2> QED BY <1>4, <2>1, <2>2 DEF Claim
<1>5. CASE SendOk(s)
  BY <1>0, <1>5, GotoJob DEF SendOk, TypeOK, Step
<1> QED BY <1>1, <1>2, <1>3, <1>4, <1>5 DEF Push

LEMMA TypeStep == ASSUME TypeOK, JobsSound, [Next]_vars PROVE TypeOK'
<1>1. ASSUME NEW r \in Request, NEW fyi \in BOOLEAN, Submit(r, fyi) PROVE TypeOK'
  <2>1. r \in Sender
    BY DEF Sender
  <2>2. jobs' \in [Sender -> Job \cup {Null}]
    BY <1>1, <2>1, NewJob DEF Submit
  <2> QED BY <1>1, <2>2, SubmittedRow DEF Submit, TypeOK
<1>2. ASSUME NEW r \in Request, Lapse(r) \/ Resolve(r) PROVE TypeOK'
  <2>1. PICK state \in {"lapsed", "resolved"} :
            rows[r] # Null /\ rows' = [rows EXCEPT ![r] = [rows[r] EXCEPT !.state = state]]
    BY <1>2 DEF Lapse, Resolve
  <2>2. [rows[r] EXCEPT !.state = state] \in Row
    BY <2>1, WrittenRow
  <2>3. rows' \in [Request -> Row \cup {Null}]
    BY <2>1, <2>2 DEF TypeOK
  <2> QED BY <1>2, <2>3 DEF Lapse, Resolve, TypeOK
<1>3. ASSUME NEW s \in Sender, Push(s) PROVE TypeOK'
  BY <1>3, PushType
<1>4. ASSUME NEW s \in Sender, SendFails(s) \/ SendArrivesLate(s) PROVE TypeOK'
  <2>1. jobs[s].req \in Request
    BY <1>4, JobFields DEF SendFails, SendArrivesLate, At
  <2>2. sent' \in [Request -> Nat] /\ lost' \in [Request -> Nat] /\ faults' \in Nat
    BY <1>4, <2>1 DEF SendFails, SendArrivesLate, Fault, TypeOK
  <2> QED BY <1>4, <2>2, DoneJob DEF SendFails, SendArrivesLate, TypeOK
<1>5. ASSUME NEW s \in Sender, Abandon(s) PROVE TypeOK'
  BY <1>5, LoseType, DoneJob DEF Abandon, Fault, TypeOK
<1>6. CASE StartSweep \/ SkipRest \/ Tick
  BY <1>6 DEF StartSweep, SkipRest, Tick, TypeOK
<1>7. ASSUME NEW r \in Request, SweepNext(r) PROVE TypeOK'
  <2>1. Sweeper \in Sender
    BY DEF Sender
  <2> QED BY <1>7, <2>1, NewJob DEF SweepNext, TypeOK
<1>8. CASE Restart
  BY <1>8, LoseType DEF Restart, Fault, TypeOK
<1>9. CASE UNCHANGED vars
  BY <1>9 DEF vars, TypeOK
<1> QED
  BY <1>1, <1>2, <1>3, <1>4, <1>5, <1>6, <1>7, <1>8, <1>9 DEF Next, Sweep

-----------------------------------------------------------------------------
(* The steps, by what they do to the invariant.                            *)

Rest == JobsSound /\ SendsSound /\ SentSound /\ MarksSound /\ SomeoneTold

\* Rows stay, and so does what they record of a delivery; a new one has none.
RowsKeep ==
    \A r \in Request : IF rows[r] = Null THEN Undelivered(r)'
                       ELSE rows'[r] # Null /\ rows'[r].delivered = rows[r].delivered

\* A sender stays where it is, starts, or goes on to a step it is entitled to.
JobKeeps(s) ==
    \/ jobs'[s] = jobs[s] /\ (lock = s => lock' = s)
    \/ /\ jobs'[s].at = "lock" /\ rows'[jobs'[s].req] # Null
       /\ s \in Request => jobs'[s].req = s
    \/ /\ jobs[s] # Null /\ jobs'[s].req = jobs[s].req /\ lock' = s
       /\ \/ jobs'[s].at \in {"dedup", "claim"}
          \/ jobs'[s].at = "covered" /\ Told
          \/ jobs'[s].at = "send" /\ Undelivered(jobs[s].req)

\* Steps that send nothing and record nothing.
LEMMA QuietStep ==
    ASSUME IInv, TypeOK', RowsKeep, UNCHANGED <<sent, lost>>,
           \A r \in queue' : r \in queue \/ rows[r] # Null,
           \A s \in Sender : jobs'[s] # Null => JobKeeps(s),
           \A s \in Sender : At(s, "mark") => jobs'[s] = jobs[s]
    PROVE  Rest'
<1> USE DEF IInv
<1>1. \A s \in Sender : jobs[s] # Null => jobs[s].req \in Request
  BY JobFields
<1>2. JobsSound'
  <2>1. queue' \subseteq Request
    BY DEF TypeOK
  <2> QED BY <1>1, <2>1 DEF JobsSound, JobKeeps, RowsKeep
<1>3. \A r \in Request : Undelivered(r) => Undelivered(r)'
  BY DEF RowsKeep, Undelivered
<1>4. SendsSound'
  BY <1>1, <1>3 DEF SendsSound, JobKeeps, At
<1>5. SentSound'
  <2>1. \A r \in Request : Undelivered(r)' => Undelivered(r)
    BY DEF RowsKeep, Undelivered
  <2>2. \A r \in Request : Unmarked(r)' => Unmarked(r)
    BY DEF Unmarked, At
  <2> QED BY <2>1, <2>2 DEF SentSound
<1>6. Told' <=> Told
  BY DEF Told
<1>7. MarksSound'
  BY <1>6 DEF MarksSound, JobKeeps, At
<1>8. SomeoneTold'
  BY DEF SomeoneTold, RowsKeep, Undelivered
<1> QED BY <1>2, <1>4, <1>5, <1>7, <1>8 DEF Rest

\* At most one sender is past its first step.
LEMMA OneHolder ==
    ASSUME JobsSound, NEW s \in Sender, NEW t \in Sender, jobs[s] # Null, jobs[t] # Null,
           jobs[s].at # "lock", jobs[t].at # "lock"
    PROVE  s = t
BY DEF JobsSound

LEMMA SubmitStep ==
    ASSUME IInv, TypeOK', NEW r \in Request, NEW fyi \in BOOLEAN, Submit(r, fyi)
    PROVE  Rest'
<1>1. r \in Sender /\ jobs[r] = Null
  BY DEF Submit, Sender, IInv, JobsSound
<1>2. RowsKeep /\ rows'[r] # Null
  BY SubmittedRow DEF Submit, RowsKeep, Undelivered, IInv
<1>3. /\ jobs'[r].at = "lock" /\ jobs'[r].req = r
      /\ \A s \in Sender \ {r} : jobs'[s] = jobs[s]
  BY <1>1, NewJob DEF Submit, IInv
<1>4. \A s \in Sender : jobs'[s] # Null => JobKeeps(s)
  BY <1>2, <1>3 DEF Submit, JobKeeps
<1>5. \A s \in Sender : At(s, "mark") => jobs'[s] = jobs[s]
  BY <1>1, <1>3 DEF At
<1> QED BY <1>2, <1>4, <1>5, QuietStep DEF Submit

LEMMA ResolveStep ==
    ASSUME IInv, TypeOK', NEW r \in Request, Lapse(r) \/ Resolve(r)
    PROVE  Rest'
<1>1. PICK state \in {"lapsed", "resolved"} :
          rows[r] # Null /\ rows' = [rows EXCEPT ![r] = [rows[r] EXCEPT !.state = state]]
  BY DEF Lapse, Resolve
<1>2. /\ [rows[r] EXCEPT !.state = state] \in Row
      /\ [rows[r] EXCEPT !.state = state].delivered = rows[r].delivered
  BY <1>1, WrittenRow DEF IInv
<1>3. RowsKeep
  BY <1>1, <1>2 DEF RowsKeep, Undelivered, IInv, TypeOK
<1> QED BY <1>3, QuietStep DEF Lapse, Resolve, JobKeeps

LEMMA TakeLockStep == ASSUME IInv, TypeOK', NEW s \in Sender, TakeLock(s) PROVE Rest'
<1>1. /\ jobs[s] # Null /\ jobs[s].at = "lock"
      /\ \A t \in Sender : jobs[t] # Null => jobs[t].at = "lock"
  BY DEF TakeLock, At, LockFree, IInv, JobsSound, Sender
<1>2. PICK step \in {"claim", "dedup"} : Goto(s, step)
  BY DEF TakeLock
<1>3. /\ jobs'[s].at \in {"claim", "dedup"} /\ jobs'[s].req = jobs[s].req
      /\ \A t \in Sender \ {s} : jobs'[t] = jobs[t]
  BY <1>1, <1>2, GotoJob DEF IInv, Step
<1>4. lock = Null /\ lock' = s /\ UNCHANGED <<rows, queue, sent, lost>>
  BY DEF TakeLock, LockFree
<1>5. RowsKeep
  BY <1>4 DEF RowsKeep, Undelivered
<1>6. \A t \in Sender : jobs'[t] # Null => JobKeeps(t)
  BY <1>1, <1>3, <1>4 DEF JobKeeps, Sender
<1>7. \A t \in Sender : At(t, "mark") => jobs'[t] = jobs[t]
  BY <1>1 DEF At
<1> QED BY <1>4, <1>5, <1>6, <1>7, QuietStep

LEMMA DedupStep == ASSUME IInv, TypeOK', NEW s \in Sender, Dedup(s) PROVE Rest'
<1>1. jobs[s] # Null /\ jobs[s].at = "dedup" /\ lock = s
  BY DEF Dedup, At, IInv, JobsSound
<1>2. Covered(jobs[s].req) => Told
  BY DEF Covered, IInv, SomeoneTold, Told
<1>3. PICK step \in {"claim", "covered"} : Goto(s, step) /\ (step = "covered" => Told)
  BY <1>2 DEF Dedup
<1>4. /\ jobs'[s].at = step /\ jobs'[s].req = jobs[s].req
      /\ \A t \in Sender \ {s} : jobs'[t] = jobs[t]
  BY <1>1, <1>3, GotoJob DEF IInv, Step
<1>5. UNCHANGED <<rows, lock, queue, sent, lost>>
  BY DEF Dedup
<1>6. RowsKeep
  BY <1>5 DEF RowsKeep, Undelivered
<1>7. \A t \in Sender : jobs'[t] # Null => JobKeeps(t)
  BY <1>1, <1>3, <1>4, <1>5 DEF JobKeeps
<1>8. \A t \in Sender : At(t, "mark") => jobs'[t] = jobs[t]
  BY <1>1, <1>4 DEF At
<1> QED BY <1>5, <1>6, <1>7, <1>8, QuietStep

\* A sender that gives up before its message arrived.
LEMMA DoneStep ==
    ASSUME IInv, TypeOK', NEW s \in Sender, jobs[s] # Null, ~At(s, "mark"), Done(s),
           UNCHANGED <<rows, queue, sent, lost>>
    PROVE  Rest'
<1>1. jobs'[s] = Null /\ (\A t \in Sender \ {s} : jobs'[t] = jobs[t]) /\ (lock # s => lock' = lock)
  BY DoneJob DEF IInv
<1>2. RowsKeep
  BY DEF RowsKeep, Undelivered
<1>3. \A t \in Sender : jobs'[t] # Null => JobKeeps(t)
  BY <1>1 DEF JobKeeps
<1> QED BY <1>1, <1>2, <1>3, QuietStep DEF At

LEMMA ClaimStep == ASSUME IInv, TypeOK', NEW s \in Sender, Claim(s) PROVE Rest'
<1>1. /\ jobs[s] # Null /\ jobs[s].at = "claim" /\ lock = s
      /\ jobs[s].req \in Request /\ rows[jobs[s].req] # Null
  BY JobFields DEF Claim, At, IInv, JobsSound
<1>2. CASE /\ Claimable(RowOf(s)) /\ Goto(s, "send") /\ UNCHANGED lock
           /\ rows' = [rows EXCEPT ![jobs[s].req] = Counted(@)]
  <2>1. /\ jobs'[s].at = "send" /\ jobs'[s].req = jobs[s].req
        /\ \A t \in Sender \ {s} : jobs'[t] = jobs[t]
    BY <1>1, <1>2, GotoJob DEF IInv, Step
  <2>2. RowsKeep
    <3>1. /\ rows'[jobs[s].req] = Counted(rows[jobs[s].req])
          /\ \A r \in Request \ {jobs[s].req} : rows'[r] = rows[r]
      BY <1>1, <1>2 DEF IInv, TypeOK
    <3>2. /\ rows'[jobs[s].req] \in Row
          /\ rows'[jobs[s].req].delivered = rows[jobs[s].req].delivered
      BY <1>1, <3>1, WrittenRow DEF IInv
    <3> QED BY <1>1, <3>1, <3>2 DEF RowsKeep, Undelivered
  <2>3. Undelivered(jobs[s].req)
    BY <1>2 DEF Claimable, RowOf, Undelivered
  <2>4. \A t \in Sender : jobs'[t] # Null => JobKeeps(t)
    BY <1>1, <1>2, <2>1, <2>3 DEF JobKeeps
  <2>5. \A t \in Sender : At(t, "mark") => jobs'[t] = jobs[t]
    BY <1>1, <2>1 DEF At
  <2>6. UNCHANGED <<queue, sent, lost>>
    BY DEF Claim
  <2> QED BY <2>2, <2>4, <2>5, <2>6, QuietStep
<1>3. CASE Done(s) /\ UNCHANGED rows
  BY <1>1, <1>3, DoneStep DEF Claim, At
<1> QED BY <1>2, <1>3 DEF Claim

LEMMA SendOkStep == ASSUME IInv, TypeOK', NEW s \in Sender, SendOk(s) PROVE Rest'
<1>0. PICK r \in Request : r = jobs[s].req
  BY JobFields DEF SendOk, At, IInv
<1>1. /\ jobs[s] # Null /\ jobs[s].at = "send" /\ lock = s
      /\ r \in Request /\ rows[r] # Null /\ Undelivered(r)
  BY <1>0 DEF SendOk, At, IInv, JobsSound, SendsSound
<1>2. /\ jobs'[s] # Null /\ jobs'[s].at = "mark" /\ jobs'[s].req = r
      /\ \A t \in Sender \ {s} : jobs'[t] = jobs[t]
  BY <1>0, <1>1, GotoJob DEF SendOk, IInv, Step
<1>3. \A t \in Sender \ {s} : jobs[t] # Null => jobs[t].at = "lock"
  BY <1>1, OneHolder DEF IInv
<1>4. UNCHANGED <<rows, lock, queue, lost>> /\ sent'[r] = sent[r] + 1
      /\ \A q \in Request \ {r} : sent'[q] = sent[q]
  BY <1>0 DEF SendOk, IInv, TypeOK
<1>5. sent[r] \in Nat /\ lost[r] \in Nat /\ sent[r] <= lost[r]
  BY <1>1, <1>3, OneHolder DEF IInv, SentSound, Unmarked, At, TypeOK
<1>6. JobsSound' /\ SendsSound'
  BY <1>0, <1>1, <1>2, <1>3, <1>4 DEF IInv, JobsSound, SendsSound, At, Undelivered
<1>7. SentSound'
  <2>1. ~Unmarked(r)'
    BY <1>2 DEF Unmarked, At
  <2>2. \A q \in Request \ {r} : Unmarked(q)' => Unmarked(q)
    BY <1>1, <1>2 DEF Unmarked, At
  <2> QED BY <1>1, <1>4, <1>5, <2>1, <2>2 DEF IInv, SentSound, Undelivered
<1>8. Told'
  BY <1>1, <1>4, <1>5 DEF Told
<1> QED BY <1>6, <1>7, <1>8 DEF Rest, MarksSound, SomeoneTold, Told

LEMMA SendArrivesLateStep ==
    ASSUME IInv, TypeOK', NEW s \in Sender, SendArrivesLate(s)
    PROVE  Rest'
<1>0. PICK r \in Request : r = jobs[s].req
  BY JobFields DEF SendArrivesLate, At, IInv
<1>1. jobs[s] # Null /\ jobs[s].at = "send" /\ lock = s /\ r \in Request
  BY <1>0 DEF SendArrivesLate, At, IInv, JobsSound
<1>2. jobs'[s] = Null /\ \A t \in Sender \ {s} : jobs'[t] = jobs[t]
  BY DoneJob DEF SendArrivesLate, IInv
<1>3. \A t \in Sender \ {s} : jobs[t] # Null => jobs[t].at = "lock"
  BY <1>1, OneHolder DEF IInv
<1>4. /\ UNCHANGED <<rows, queue>>
      /\ sent[r] \in Nat /\ lost[r] \in Nat
      /\ sent'[r] = sent[r] + 1 /\ \A q \in Request \ {r} : sent'[q] = sent[q]
      /\ lost'[r] = lost[r] + 1 /\ \A q \in Request \ {r} : lost'[q] = lost[q]
  BY <1>0 DEF SendArrivesLate, IInv, TypeOK
<1>5. JobsSound' /\ SendsSound'
  BY <1>2, <1>3, <1>4 DEF IInv, JobsSound, SendsSound, At
<1>6. SentSound'
  <2>1. \A q \in Request : Unmarked(q)
    BY <1>1, <1>3 DEF Unmarked, At
  <2>2. \A q \in Request : Undelivered(q)' <=> Undelivered(q)
    BY <1>4 DEF Undelivered
  <2>3. ASSUME NEW q \in Request
        PROVE  sent'[q] <= 1 + lost'[q] /\ (Undelivered(q) => sent'[q] <= lost'[q])
    <3>1. /\ sent[q] \in Nat /\ lost[q] \in Nat /\ sent[q] <= 1 + lost[q]
          /\ Undelivered(q) => sent[q] <= lost[q]
      BY <2>1 DEF IInv, SentSound, TypeOK
    <3>2. \/ sent'[q] = sent[q] /\ lost'[q] = lost[q]
          \/ sent'[q] = sent[q] + 1 /\ lost'[q] = lost[q] + 1
      BY <1>4
    <3> QED BY <3>1, <3>2
  <2> QED BY <2>2, <2>3 DEF SentSound
<1>7. Told'
  BY <1>1, <1>4 DEF Told
<1> QED BY <1>5, <1>6, <1>7 DEF Rest, MarksSound, SomeoneTold, Told

\* A delivery is recorded: the sender's own, or that of an identical request.
LEMMA MarkStep ==
    ASSUME IInv, TypeOK', NEW s \in Sender, Mark(s) \/ MarkCovered(s)
    PROVE  Rest'
<1>0. PICK r \in Request : r = jobs[s].req
  BY JobFields DEF Mark, MarkCovered, At, IInv
<1>1. /\ jobs[s] # Null /\ jobs[s].at \in {"mark", "covered"} /\ lock = s
      /\ r \in Request /\ rows[r] # Null /\ Told
  BY <1>0 DEF Mark, MarkCovered, At, IInv, JobsSound, MarksSound
<1>2. jobs'[s] = Null /\ \A t \in Sender \ {s} : jobs'[t] = jobs[t]
  BY DoneJob DEF Mark, MarkCovered, IInv
<1>3. \A t \in Sender \ {s} : jobs[t] # Null => jobs[t].at = "lock"
  BY <1>1, OneHolder DEF IInv
<1>4. /\ rows'[r] = [rows[r] EXCEPT !.delivered = now]
      /\ \A q \in Request \ {r} : rows'[q] = rows[q]
      /\ UNCHANGED <<queue, sent, lost>>
  BY <1>0 DEF Mark, MarkCovered, MarkDelivered, IInv, TypeOK
<1>5. rows'[r] # Null
  BY <1>1, <1>4, WrittenRow DEF IInv
<1>6. ~Undelivered(r)'
  <2>1. rows[r] \in Row /\ now \in Nat
    BY <1>1 DEF IInv, TypeOK
  <2>2. rows'[r].delivered = now
    BY <1>4, <2>1 DEF Row
  <2> QED BY <1>5, <2>1, <2>2 DEF Undelivered
<1>7. \A t \in Sender : jobs'[t] # Null => jobs'[t] = jobs[t] /\ jobs[t].at = "lock"
  BY <1>2, <1>3
<1>8. JobsSound' /\ SendsSound'
  <2>1. queue \subseteq Request
    BY DEF IInv, TypeOK
  <2>2. \A q \in Request : rows[q] # Null => rows'[q] # Null
    BY <1>4, <1>5
  <2>3. \A t \in Sender : jobs[t] # Null => jobs[t].req \in Request
    BY JobFields DEF IInv
  <2> QED BY <1>4, <1>7, <2>1, <2>2, <2>3 DEF IInv, JobsSound, SendsSound, At
<1>9. SentSound'
  <2>1. \A q \in Request \ {r} : Unmarked(q) /\ (Undelivered(q)' => Undelivered(q))
    BY <1>0, <1>1, <1>3, <1>4 DEF Unmarked, At, Undelivered
  <2> QED BY <1>1, <1>4, <1>6, <2>1 DEF IInv, SentSound
<1>10. Told'
  BY <1>1, <1>4 DEF Told
<1> QED BY <1>8, <1>9, <1>10 DEF Rest, MarksSound, SomeoneTold, Told

\* Senders that disappear with what they knew: their messages count as lost.
LEMMA LoseStep ==
    ASSUME IInv, TypeOK', NEW S \in SUBSET Sender, Lose(S), UNCHANGED <<rows, sent>>,
           queue' \subseteq queue,
           \A s \in S : jobs'[s] = Null,
           \A s \in Sender \ S : jobs'[s] = jobs[s] /\ (lock = s => lock' = s)
    PROVE  Rest'
<1>1. JobsSound' /\ SendsSound' /\ MarksSound' /\ SomeoneTold'
  BY DEF IInv, JobsSound, SendsSound, MarksSound, SomeoneTold, Told, At, Undelivered
<1>2. ASSUME NEW r \in Request
      PROVE  /\ sent'[r] <= 1 + lost'[r]
             /\ Undelivered(r)' /\ Unmarked(r)' => sent'[r] <= lost'[r]
  <2>1. /\ sent[r] \in Nat /\ lost[r] \in Nat /\ sent[r] <= 1 + lost[r]
        /\ Undelivered(r) /\ Unmarked(r) => sent[r] <= lost[r]
    BY DEF IInv, TypeOK, SentSound
  <2>2. CASE \E s \in S : At(s, "mark") /\ jobs[s].req = r
    <3>1. lost'[r] = lost[r] + 1
      BY <2>2 DEF Lose
    <3>2. sent'[r] <= lost'[r]
      BY <2>1, <3>1
    <3> QED BY <2>1, <3>1, <3>2
  <2>3. CASE ~\E s \in S : At(s, "mark") /\ jobs[s].req = r
    <3>1. lost'[r] = lost[r]
      BY <2>3 DEF Lose
    <3>2. Unmarked(r)' => Unmarked(r)
      BY <2>3 DEF Unmarked, At
    <3>3. Undelivered(r)' => Undelivered(r)
      BY DEF Undelivered
    <3> QED BY <2>1, <3>1, <3>2, <3>3
  <2> QED BY <2>2, <2>3
<1> QED BY <1>1, <1>2 DEF Rest, SentSound

-----------------------------------------------------------------------------
(* The theorems.                                                           *)

LEMMA RestStep == ASSUME IInv, TypeOK', [Next]_vars PROVE Rest'
<1>1. ASSUME NEW s \in Sender, SendFails(s) PROVE Rest'
  BY <1>1, DoneStep DEF SendFails, At
<1>2. ASSUME NEW s \in Sender, Abandon(s) PROVE Rest'
  <2>1. {s} \in SUBSET Sender /\ Lose({s}) /\ UNCHANGED <<rows, queue, sent>>
    BY <1>2 DEF Abandon
  <2>2. /\ jobs'[s] = Null
        /\ \A t \in Sender \ {s} : jobs'[t] = jobs[t] /\ (lock = t => lock' = t)
    BY <1>2, DoneJob DEF Abandon, IInv
  <2> QED BY <2>1, <2>2, LoseStep
<1>3. CASE StartSweep \/ SkipRest \/ Tick \/ UNCHANGED vars
  <2>1. \A r \in queue' : r \in queue \/ rows[r] # Null
    BY <1>3 DEF StartSweep, SkipRest, Tick, vars, Owed
  <2> QED
    BY <1>3, <2>1, QuietStep DEF StartSweep, SkipRest, Tick, vars, RowsKeep, Undelivered, JobKeeps
<1>4. ASSUME NEW r \in Request, SweepNext(r) PROVE Rest'
  <2>1. Sweeper \in Sender /\ jobs[Sweeper] = Null
    BY <1>4 DEF Sender, SweepNext
  <2>2. /\ jobs'[Sweeper].at = "lock" /\ jobs'[Sweeper].req = r
        /\ \A t \in Sender \ {Sweeper} : jobs'[t] = jobs[t]
    BY <1>4, <2>1, NewJob DEF SweepNext, IInv
  <2>3. RowsKeep
    BY <1>4 DEF SweepNext, RowsKeep, Undelivered
  <2>4. rows[r] # Null
    BY <1>4 DEF SweepNext, IInv, JobsSound
  <2>5. \A t \in Sender : jobs'[t] # Null => JobKeeps(t)
    BY <1>4, <2>2, <2>4 DEF SweepNext, JobKeeps
  <2>6. \A t \in Sender : At(t, "mark") => jobs'[t] = jobs[t]
    BY <2>1, <2>2 DEF At
  <2> QED BY <1>4, <2>3, <2>5, <2>6, QuietStep DEF SweepNext
<1>5. CASE Restart
  BY <1>5, LoseStep DEF Restart
<1> QED
  BY <1>1, <1>2, <1>3, <1>4, <1>5, SubmitStep, ResolveStep, TakeLockStep, DedupStep, ClaimStep,
     SendOkStep, SendArrivesLateStep, MarkStep DEF Next, Sweep, Push

\* The lock, the jobs, the history and the outbox columns stay in step with each
\* other, whatever fails.
THEOREM Invariance == Spec => []IInv
<1>1. Init => IInv
  BY DEF Init, IInv, TypeOK, JobsSound, SendsSound, SentSound, MarksSound, SomeoneTold, At
<1>2. IInv /\ [Next]_vars => IInv'
  BY TypeStep, RestStep DEF IInv, Rest
<1> QED BY <1>1, <1>2, PTL DEF Spec

\* The columns and the jobs keep their shape; push_attempts stays in its bound.
THEOREM TypeCorrect == Spec => []TypeOK
BY Invariance, PTL DEF IInv

\* The operator gets at most one message per request beyond those that arrived
\* unrecorded, for any number of create handlers racing the sweeper under
\* push_lock, failing, timing out and crashing (claim_for_push).
THEOREM NoRepeatedPushHolds == Spec => []NoRepeatedPush
<1>1. IInv => NoRepeatedPush
  BY DEF IInv, SentSound, NoRepeatedPush
<1> QED BY <1>1, Invariance, PTL

\* Nothing is recorded as delivered unless a message about an identical request
\* did arrive, through chains of deduplication of any length
\* (recent_duplicate_push, mark_push_delivered).
THEOREM SomeoneToldHolds == Spec => []SomeoneTold
BY Invariance, PTL DEF IInv
=============================================================================
