----------------------------- MODULE PushOutbox -----------------------------
(***************************************************************************)
(* Notifications to the operator.  The access request row is the outbox:   *)
(* push_delivered_at and push_attempts record what is owed.  A push is     *)
(* tried by the handler that created the request (api/requests.rs) and,    *)
(* until it is recorded, by every sweep (notify/mod.rs); both run under    *)
(* the process-wide push_lock.                                             *)
(*                                                                         *)
(* All requests here are identical in the columns that deduplication       *)
(* compares (client, secret, mechanism, constraints), which is the case    *)
(* where they affect each other.  The process clock that dates the         *)
(* deduplication window and the database clock are the same clock.         *)
(***************************************************************************)
EXTENDS Integers, FiniteSets

CONSTANTS
    Request,      \* access requests
    Sweeper,      \* the background task, a sender like each create handler
    Window,       \* PUSH_DEDUP_WINDOW_SECONDS
    FyiWindow,    \* FYI_RETRY_WINDOW_HOURS
    MaxTime,      \* bound: last instant of the clock
    MaxAttempts,  \* bound: push_attempts counts no further
    MaxFaults,    \* bound: failed sends, abandoned handlers and restarts
    Null

VARIABLES
    now,    \* the clock
    rows,   \* access_requests, or Null
    lock,   \* push_lock: the sender that holds it, or Null
    jobs,   \* what each sender is doing, or Null
    queue,  \* rows the current sweep has still to try
    swept,  \* rows the current sweep has tried, while it runs
    sent,   \* history: messages that reached the operator
    lost,   \* history: those of them that were not recorded as delivered
    faults  \* faults so far

vars == <<now, rows, lock, jobs, queue, swept, sent, lost, faults>>

Sender == Request \cup {Sweeper}

ASSUME ConstantsAssumption ==
    /\ Sweeper \notin Request
    /\ Null \notin Request \cup {Sweeper} \cup Nat
    /\ Window \in Nat /\ FyiWindow \in Nat
    /\ MaxTime \in Nat /\ MaxAttempts \in Nat \ {0} /\ MaxFaults \in Nat

-----------------------------------------------------------------------------
\* pending rows past expires_at are lapsed until expire_stale gets to them;
\* resolved stands for approved, denied and expired.
Row == [state : {"pending", "lapsed", "resolved"}, fyi : BOOLEAN, created : Nat,
        delivered : Nat \cup {Null}, attempts : 0..MaxAttempts]

Job == [at : {"lock", "dedup", "covered", "claim", "send", "mark"}, req : Request]

ASSUME NullAssumption == Null \notin Row \cup Job

TypeOK ==
    /\ now \in Nat
    /\ rows \in [Request -> Row \cup {Null}]
    /\ lock \in Sender \cup {Null}
    /\ jobs \in [Sender -> Job \cup {Null}]
    /\ queue \in SUBSET Request
    /\ swept \in SUBSET Request
    /\ sent \in [Request -> Nat]
    /\ lost \in [Request -> Nat]
    /\ faults \in Nat

Init ==
    /\ now = 0
    /\ rows = [r \in Request |-> Null]
    /\ lock = Null
    /\ jobs = [s \in Sender |-> Null]
    /\ queue = {}
    /\ swept = {}
    /\ sent = [r \in Request |-> 0]
    /\ lost = [r \in Request |-> 0]
    /\ faults = 0

-----------------------------------------------------------------------------
(* Requests come and go.                                                   *)

\* create: a pending row, or an approved one that owes a notification
\* (notify_only); the handler goes on to push it.
Submit(r, fyi) ==
    /\ rows[r] = Null
    /\ rows' = [rows EXCEPT ![r] =
                  [state |-> IF fyi THEN "resolved" ELSE "pending", fyi |-> fyi,
                   created |-> now, delivered |-> Null, attempts |-> 0]]
    /\ jobs' = [jobs EXCEPT ![r] = [at |-> "lock", req |-> r]]
    /\ UNCHANGED <<now, lock, queue, swept, sent, lost, faults>>

Lapse(r) ==
    /\ rows[r] # Null
    /\ rows[r].state = "pending"
    /\ rows' = [rows EXCEPT ![r].state = "lapsed"]
    /\ UNCHANGED <<now, lock, jobs, queue, swept, sent, lost, faults>>

\* approve_request, resolve_deny, expire_stale.
Resolve(r) ==
    /\ rows[r] # Null
    /\ rows[r].state \in {"pending", "lapsed"}
    /\ rows' = [rows EXCEPT ![r].state = "resolved"]
    /\ UNCHANGED <<now, lock, jobs, queue, swept, sent, lost, faults>>

-----------------------------------------------------------------------------
(* One push: create's push, push_one and push_one_fyi.                     *)

At(s, step) == jobs[s] # Null /\ jobs[s].at = step

RowOf(s) == rows[jobs[s].req]

Goto(s, step) == jobs' = [jobs EXCEPT ![s].at = step]

\* The sender is done with the row; the lock guard is dropped.
Done(s) ==
    /\ jobs' = [jobs EXCEPT ![s] = Null]
    /\ lock' = IF lock = s THEN Null ELSE lock

\* Fault: pushes are not serialised.
AlwaysFree == TRUE

LockFree == lock = Null

TakeLock(s) ==
    /\ At(s, "lock")
    /\ LockFree
    /\ lock' = s
    /\ Goto(s, IF RowOf(s).fyi THEN "claim" ELSE "dedup")
    /\ UNCHANGED <<now, rows, queue, swept, sent, lost, faults>>

\* Fault: an attempt counts as a push, delivered or not.
CoveredByAttempt(r) ==
    \E q \in Request \ {r} :
        /\ rows[q] # Null
        /\ rows[q].state \in {"pending", "lapsed"}
        /\ rows[q].attempts > 0

\* recent_duplicate_push: another identical row, pending, recorded as delivered
\* inside the window, with an attempt of its own.
Covered(r) ==
    \E q \in Request \ {r} :
        /\ rows[q] # Null
        /\ rows[q].state \in {"pending", "lapsed"}
        /\ rows[q].delivered # Null
        /\ rows[q].delivered > now - Window
        /\ rows[q].attempts > 0

Dedup(s) ==
    /\ At(s, "dedup")
    /\ Goto(s, IF Covered(jobs[s].req) THEN "covered" ELSE "claim")
    /\ UNCHANGED <<now, rows, lock, queue, swept, sent, lost, faults>>

\* mark_push_delivered.
MarkDelivered(s) == rows' = [rows EXCEPT ![jobs[s].req].delivered = now]

MarkCovered(s) ==
    /\ At(s, "covered")
    /\ MarkDelivered(s)
    /\ Done(s)
    /\ UNCHANGED <<now, queue, swept, sent, lost, faults>>

\* claim_for_push and claim_for_fyi_push.
Claimable(row) == row.delivered = Null /\ (row.fyi \/ row.state = "pending")

Counted(row) == [row EXCEPT !.attempts = IF @ < MaxAttempts THEN @ + 1 ELSE @]

Claim(s) ==
    /\ At(s, "claim")
    /\ \/ /\ Claimable(RowOf(s))
          /\ rows' = [rows EXCEPT ![jobs[s].req] = Counted(@)]
          /\ Goto(s, "send")
          /\ UNCHANGED lock
       \/ /\ ~Claimable(RowOf(s))
          /\ Done(s)
          /\ UNCHANGED rows
    /\ UNCHANGED <<now, queue, swept, sent, lost, faults>>

\* The notifier accepts the message.
SendOk(s) ==
    /\ At(s, "send")
    /\ sent' = [sent EXCEPT ![jobs[s].req] = @ + 1]
    /\ Goto(s, "mark")
    /\ UNCHANGED <<now, rows, lock, queue, swept, lost, faults>>

Fault == faults < MaxFaults /\ faults' = faults + 1

\* It fails or is given up on after PUSH_SEND_TIMEOUT.
SendFails(s) ==
    /\ At(s, "send")
    /\ Fault
    /\ Done(s)
    /\ UNCHANGED <<now, rows, queue, swept, sent, lost>>

\* It is given up on, yet the message arrives.
SendArrivesLate(s) ==
    /\ At(s, "send")
    /\ Fault
    /\ sent' = [sent EXCEPT ![jobs[s].req] = @ + 1]
    /\ lost' = [lost EXCEPT ![jobs[s].req] = @ + 1]
    /\ Done(s)
    /\ UNCHANGED <<now, rows, queue, swept>>

Mark(s) ==
    /\ At(s, "mark")
    /\ MarkDelivered(s)
    /\ Done(s)
    /\ UNCHANGED <<now, queue, swept, sent, lost, faults>>

\* A sent message that will not be recorded.
Lose(S) ==
    lost' = [r \in Request |-> IF \E s \in S : At(s, "mark") /\ jobs[s].req = r
                               THEN lost[r] + 1 ELSE lost[r]]

\* The create handler's caller goes away, or a statement fails.
Abandon(s) ==
    /\ jobs[s] # Null
    /\ Fault
    /\ Lose({s})
    /\ Done(s)
    /\ UNCHANGED <<now, rows, queue, swept, sent>>

-----------------------------------------------------------------------------
(* The push phase of a sweep.                                              *)

\* Fault: a request is pushed once, failed or not.
OwedOnce(r) ==
    /\ rows[r] # Null
    /\ rows[r].delivered = Null
    /\ rows[r].attempts = 0
    /\ rows[r].state = "pending" \/ (rows[r].fyi /\ rows[r].created > now - FyiWindow)

\* list_pending_needing_push, list_notify_only_needing_push.
Owed(r) ==
    /\ rows[r] # Null
    /\ rows[r].delivered = Null
    /\ rows[r].state = "pending" \/ (rows[r].fyi /\ rows[r].created > now - FyiWindow)

\* Rows are listed once, when the phase starts.
StartSweep ==
    /\ jobs[Sweeper] = Null
    /\ queue = {}
    /\ \E r \in Request : Owed(r)
    /\ queue' = {r \in Request : Owed(r)}
    /\ swept' = {}
    /\ UNCHANGED <<now, rows, lock, jobs, sent, lost, faults>>

\* Pending rows first, then notifications; the oldest of each first.
Before(q, r) ==
    \/ ~rows[q].fyi /\ rows[r].fyi
    \/ rows[q].fyi = rows[r].fyi /\ rows[q].created < rows[r].created

SweepNext(r) ==
    /\ jobs[Sweeper] = Null
    /\ r \in queue
    /\ ~\E q \in queue : Before(q, r)
    /\ queue' = queue \ {r}
    /\ swept' = swept \cup {r}
    /\ jobs' = [jobs EXCEPT ![Sweeper] = [at |-> "lock", req |-> r]]
    /\ UNCHANGED <<now, rows, lock, sent, lost, faults>>

\* PUSH_PHASE_BUDGET is spent, which takes at least one push: the remaining
\* rows are skipped until the next sweep.
SkipRest ==
    /\ jobs[Sweeper] = Null
    /\ queue # {}
    /\ swept # {}
    /\ queue' = {}
    /\ UNCHANGED <<now, rows, lock, jobs, swept, sent, lost, faults>>

\* The process dies and starts again.
Restart ==
    /\ \E s \in Sender : jobs[s] # Null
    /\ Fault
    /\ Lose(Sender)
    /\ jobs' = [s \in Sender |-> Null]
    /\ lock' = Null
    /\ queue' = {}
    /\ swept' = {}
    /\ UNCHANGED <<now, rows, sent>>

Tick ==
    /\ now < MaxTime
    /\ now' = now + 1
    /\ UNCHANGED <<rows, lock, jobs, queue, swept, sent, lost, faults>>

Push(s) == TakeLock(s) \/ Dedup(s) \/ MarkCovered(s) \/ Claim(s) \/ SendOk(s) \/ Mark(s)

Sweep == StartSweep \/ (\E r \in Request : SweepNext(r))

Next ==
    \/ \E r \in Request : (\E fyi \in BOOLEAN : Submit(r, fyi)) \/ Lapse(r) \/ Resolve(r)
    \/ \E s \in Sender : Push(s) \/ SendFails(s) \/ SendArrivesLate(s) \/ Abandon(s)
    \/ Sweep \/ SkipRest \/ Restart \/ Tick

Spec == Init /\ [][Next]_vars

\* Senders and sweeps make progress.  Faults are finitely many, so in the end
\* the notifier works: an assumption on the service, not on the code.
FairSpec == Spec /\ WF_vars(Sweep) /\ \A s \in Sender : WF_vars(Push(s))

-----------------------------------------------------------------------------
(* Properties.                                                             *)

(***************************************************************************)
(* NoRepeatedPush: the operator gets at most one message per request, plus *)
(* one for each that arrived without being recorded (a timeout that came   *)
(* too late, a crash before the mark), although the create handler and the *)
(* sweeper push the same row.                                              *)
(***************************************************************************)
NoRepeatedPush == \A r \in Request : sent[r] <= 1 + lost[r]

(***************************************************************************)
(* SomeoneTold: a request is recorded as delivered only when the operator  *)
(* did get a message about an identical request, however deduplication and *)
(* failed sends chained before.                                            *)
(***************************************************************************)
SomeoneTold ==
    \A r \in Request :
        rows[r] # Null /\ rows[r].delivered # Null => \E q \in Request : sent[q] > 0

(***************************************************************************)
(* EventuallyPushed: every request that stays pending is recorded as       *)
(* delivered, and every notification too unless its retry window closes    *)
(* first: failed sends, crashes, abandoned handlers and skipped sweeps are *)
(* made up for.                                                            *)
(***************************************************************************)
Settled(r) ==
    \/ rows[r].delivered # Null
    \/ ~rows[r].fyi /\ rows[r].state # "pending"
    \/ rows[r].fyi /\ rows[r].created <= now - FyiWindow

EventuallyPushed == \A r \in Request : rows[r] # Null ~> rows[r] # Null /\ Settled(r)

(***************************************************************************)
(* OnlyRealPushesSuppress: when recent_duplicate_push suppresses a request,*)
(* one of the pending identical rows that it finds delivered in the window *)
(* is a row whose own message was sent ("Only rows that really pushed can  *)
(* suppress").                                                             *)
(***************************************************************************)
Suppressor(q, r) ==
    /\ q # r
    /\ rows[q] # Null
    /\ rows[q].state \in {"pending", "lapsed"}
    /\ rows[q].delivered # Null
    /\ rows[q].delivered > now - Window
    /\ sent[q] > 0

OnlyRealPushesSuppress ==
    [][\A s \in Sender :
         At(s, "dedup") /\ At(s, "covered")'
            => \E q \in Request : Suppressor(q, jobs[s].req)]_vars
=============================================================================
