-------------------------------- MODULE Cli --------------------------------
(***************************************************************************)
(* The command line client against the server: keychute request, curl and  *)
(* store (cli/src), the wait endpoint and its slots (api/requests.rs,      *)
(* state.rs), the brokered proxy with its deadline (proxy.rs), restarts    *)
(* and lost, late and broken connections.                                  *)
(*                                                                         *)
(* A run is one invocation.  Creating a request, reading a grant, looking  *)
(* one up and depositing a secret are single steps of the server (Requests,*)
(* Grants and Keyring look inside them); the two long calls have handlers  *)
(* of their own.  A client that gives up on a call leaves its handler      *)
(* behind until the server notices: one such late handler at a time.       *)
(* All runs are of one client.  Timeouts are steps that may always happen. *)
(***************************************************************************)
EXTENDS Invocation

CONSTANTS
    Run,           \* invocations
    CommandLines,  \* the command lines the runs may be, together
    Late,          \* the handler of a call nobody waits for
    GrantId,       \* a brokered grant that exists already,
    Existing,      \*   and its constraints
    OutputBefore,  \* the output file: "absent" or "old"
    Injections,    \* how the secret behind a grant may be injected
    Attempts,      \* CREATE_ATTEMPTS, READ_ATTEMPTS
    MaxErrors,     \* MAX_WAIT_NETWORK_ERRORS
    MaxWaits, MaxStreams   \* per-client caps

VARIABLES
    run,       \* each invocation
    handler,   \* the long call of each run, and the late one
    requests,  \* access requests and their grants, by idempotency key
    slots,     \* wait_counts and proxy_counts of the client
    files,     \* the output file and the token file
    sent,      \* history: what left for upstream, by run
    stored     \* the run whose deposit took the name, or Null

vars == <<run, handler, requests, slots, files, sent, stored>>
server == <<handler, requests, slots, sent, stored>>

-----------------------------------------------------------------------------
Handler == Run \cup {Late}

IdleRun == [pc |-> "idle", args |-> Null, key |-> Null, tries |-> 0, errors |-> 0,
            fresh |-> FALSE, exit |-> Null, why |-> "none", response |-> Null,
            named |-> FALSE]

Init ==
    /\ run = [r \in Run |-> IdleRun]
    /\ handler = [h \in Handler |-> Null]
    /\ requests = [k \in {GrantId} |->
                      [by |-> Null, asked |-> [mechanism |-> "brokered", limits |-> Existing],
                       state |-> "approved", uses |-> Existing.uses, dead |-> FALSE,
                       lost |-> FALSE]]
    /\ slots = [wait |-> 0, proxy |-> 0]
    /\ files = [out |-> OutputBefore, token |-> "old"]
    /\ sent = [r \in Run |-> Null] /\ stored = Null

At(r, pc) == run[r].pc = pc

\* The end of a run.  A grant that was approved for it is named, unless the
\* call succeeded and was the only one asked for.
Ended(x, code, why) ==
    [x EXCEPT !.pc = IF x.fresh /\ (x.args.uses # 1 \/ code # 0) THEN "report" ELSE "done",
              !.exit = code, !.why = why, !.tries = 0, !.errors = 0]

Continue(r, x) == run' = [run EXCEPT ![r] = x]
Exit(r, code, why) == Continue(r, Ended(run[r], code, why))

\* Config::bearer, read again for every call: a token that the server knows.
Bearer(a) == a.override \/ files.token = "old"

\* A transient failure of an attempt that is made again with the same key.
Retry(r) ==
    IF run[r].tries + 1 >= Attempts THEN Exit(r, 1, "transport")
    ELSE Continue(r, [run[r] EXCEPT !.tries = @ + 1])

\* What a run does with the state of its request.
Learn(r, state) ==
    CASE state = "pending"  -> Continue(r, [run[r] EXCEPT !.pc = "wait", !.tries = 0, !.errors = 0])
      [] state = "approved" -> IF run[r].args.cmd = "curl"
                               THEN Continue(r, [run[r] EXCEPT !.pc = "proxy", !.fresh = TRUE,
                                                               !.tries = 0, !.errors = 0])
                               ELSE Continue(r, [run[r] EXCEPT !.pc = "read", !.tries = 0,
                                                               !.errors = 0])
      [] state = "denied"   -> Exit(r, 3, "denied")
      [] state = "expired"  -> Exit(r, 4, "expired")

-----------------------------------------------------------------------------
(* The start of a run: nothing has left the machine yet.                   *)

Usage(a) ==
    CASE a.cmd = "curl"    -> CurlUsage(a)
      [] a.cmd = "request" -> RequestUsage(a)
      [] a.cmd = "store"   -> StoreUsage(a)

\* A key nobody gave is a random one.
UserKey(r, a) == IF a.key = Null THEN r ELSE a.key.id

KeyOf(r, a) ==
    CASE a.cmd = "store"   -> Null
      [] a.cmd = "request" -> [user |-> UserKey(r, a), call |-> Null]
      [] a.grant # Null    -> a.grant
      [] OTHER             -> [user |-> UserKey(r, a), call |-> BoundCall(a)]

Start(r, a) ==
    LET x == [IdleRun EXCEPT !.args = a] IN
    /\ At(r, "idle")
    /\ \E f \in CommandLines : f[r] = a /\ \A q \in Run : run[q].args \in {Null, f[q]}
    /\ IF Usage(a) /\ (a.cmd = "curl" => Bearer(a))
       THEN Continue(r, [x EXCEPT !.key = KeyOf(r, a),
                                  !.pc = CASE a.cmd = "request" -> "create"
                                           [] a.cmd = "store"   -> "store"
                                           [] a.grant # Null    -> "check"
                                           [] OTHER             -> "prepare"])
       ELSE Continue(r, Ended(x, 2, "usage"))
    /\ UNCHANGED <<server, files>>

\* fetch_grant: the lookup fails, the id is no grant of this client (403, 404), or
\* the grant is looked over; a 401 is NoBearer.
CheckGrant(r) ==
    LET a == run[r].args
        g == requests[run[r].key]
    IN
    /\ At(r, "check") /\ Bearer(run[r].args)
    /\ \/ Exit(r, 1, "transport")
       \/ Exit(r, 2, "not-found")
       \/ IF g.dead THEN Exit(r, 4, "grant-expired")
          ELSE IF g.uses = 0 THEN Exit(r, 1, "grant-exhausted")
          ELSE IF ~GrantCovers(g.asked.limits, a) THEN Exit(r, 2, "not-covered")
          ELSE Continue(r, [run[r] EXCEPT !.pc = "prepare"])
    /\ UNCHANGED <<server, files>>

\* Fault: the output file is emptied when it is opened.
OpenedEmpty(f) == IF files[f] = "absent" THEN "created" ELSE "empty"

\* open_output: created if need be, never truncated.
Opened(f) == IF files[f] = "absent" THEN "created" ELSE files[f]

\* Inputs are opened before the output, and read after it.
Prepare(r) ==
    LET a == run[r].args IN
    /\ At(r, "prepare")
    /\ files' = IF SourcesOpen(a) /\ a.output # Null
                THEN [files EXCEPT ![a.output] = Opened(a.output)] ELSE files
    /\ IF SourcesOpen(a) /\ BodyFits(a)
       THEN Continue(r, [run[r] EXCEPT !.pc = IF a.grant = Null THEN "create" ELSE "proxy"])
       ELSE Exit(r, 2, "usage")
    /\ UNCHANGED server

\* The token file holds no token, or one that the server answers with 401.
NoBearer(r) ==
    /\ run[r].pc \in {"check", "create", "wait", "read", "proxy", "store"}
    /\ handler[r] = Null
    /\ ~Bearer(run[r].args)
    /\ Exit(r, 2, "unauthenticated")
    /\ UNCHANGED <<server, files>>

-----------------------------------------------------------------------------
(* The short calls.  One whose answer is lost, or that was lost itself, is  *)
(* made again.                                                             *)

\* The payload behind the idempotency MAC.
Asked(a) ==
    IF a.cmd = "curl"
    THEN [mechanism |-> "brokered", secret |-> a.secret,
          limits |-> ConstraintsFor(ParseTarget(a.url), Method(a), a)]
    ELSE [mechanism |-> "cli-read", secret |-> a.secret, limits |-> [uses |-> 1]]

NewRow(r, state) ==
    LET asked == Asked(run[r].args) IN
    [by |-> r, asked |-> asked, state |-> state, uses |-> asked.limits.uses,
     dead |-> FALSE, lost |-> FALSE]

\* POST /v1/access-requests: the table after it, and the answer.
Creations(r) ==
    LET k == run[r].key
        refused(code) == [rows |-> requests, answer |-> code]
        created(state, answer) ==
            [rows |-> [j \in DOMAIN requests \cup {k} |->
                          IF j = k THEN NewRow(r, state) ELSE requests[j]],
             answer |-> answer]
    IN  IF k \in DOMAIN requests
        THEN {refused(IF requests[k].asked = Asked(run[r].args) THEN requests[k].state
                      ELSE "idempotency-key-reuse")}
        ELSE IF run[r].args.cmd = "curl" /\ ~Storable(Asked(run[r].args).limits)
        THEN {refused("invalid-request")}
        ELSE {refused("too-many-pending"), created("pending", "pending"),
              created("approved", "approved"), created("denied", "policy-denied")}

Create(r) ==
    /\ At(r, "create") /\ Bearer(run[r].args)
    /\ \E o \in Creations(r) :
         /\ requests' = o.rows
         /\ \/ IF o.answer \in {"pending", "approved", "denied", "expired"}
               THEN Learn(r, o.answer) ELSE Exit(r, ExitFor(o.answer), o.answer)
            \/ Retry(r)
    /\ UNCHANGED <<handler, slots, files, sent, stored>>

\* POST /v1/grants/{id}/read: a replay under the same key is not a second use,
\* while its window lasts.
Reads(r) ==
    LET k == run[r].key
        g == requests[k]
        says(code) == [rows |-> requests, answer |-> code]
    IN  {says("revalidation-failed")} \cup
        IF g.dead THEN {says("grant-expired")}
        ELSE IF g.lost THEN {says("payload-lost")}
        ELSE IF g.uses = 0 THEN {says("value"), says("grant-exhausted")}
        ELSE {[rows |-> [requests EXCEPT ![k].uses = 0], answer |-> "value"]}

ReadGrant(r) ==
    /\ At(r, "read") /\ Bearer(run[r].args)
    /\ \E o \in Reads(r) :
         /\ requests' = o.rows
         /\ \/ IF o.answer = "value" THEN Exit(r, 0, "value")
               ELSE Exit(r, ExitFor(o.answer), o.answer)
            \/ Retry(r)
    /\ UNCHANGED <<handler, slots, files, sent, stored>>

\* POST /v1/secrets, one attempt.
Store(r) ==
    /\ At(r, "store") /\ Bearer(run[r].args)
    /\ \/ /\ stored = Null
          /\ stored' = r
          /\ Exit(r, 0, "stored") \/ Exit(r, 1, "transport")
       \/ /\ stored # Null
          /\ Exit(r, 1, "secret-exists") \/ Exit(r, 1, "transport")
          /\ UNCHANGED stored
       \/ /\ \E code \in {"policy-denied", "too-many-deposits", "transport"} :
               Exit(r, ExitFor(code), code)
          /\ UNCHANGED stored
    /\ UNCHANGED <<handler, requests, slots, files, sent>>

\* report_reuse_budget: whatever the lookup says, the grant's id is printed.
Report(r) ==
    /\ At(r, "report")
    /\ Continue(r, [run[r] EXCEPT !.pc = "done", !.named = TRUE])
    /\ UNCHANGED <<server, files>>

-----------------------------------------------------------------------------
(* Handlers and slots.                                                     *)

NewHandler(ep, r) == [ep |-> ep, run |-> r, at |-> "enter", seen |-> "none",
                      inject |-> Null, answer |-> "none", reply |-> Null, arrived |-> FALSE]

Is(h, ep, at) == handler[h] # Null /\ handler[h].ep = ep /\ handler[h].at = at

Row(h) == requests[run[handler[h].run].key]

\* The SlotGuard: from try_take_slot until the handler or its stream is gone.
Holding(x) == x # Null /\ x.at \notin {"enter", "answered", "lost"}

Taken(ep) == [slots EXCEPT ![ep] = @ + 1]
Freed(x) == IF Holding(x) THEN [slots EXCEPT ![x.ep] = @ - 1] ELSE slots

\* Fault: the slot is given back only when the handler returns.
FreedOnDropNot(x) == slots
FreedOnDrop(x) == Freed(x)

Reply(h, code) ==
    /\ handler' = [handler EXCEPT ![h] =
                      IF h = Late THEN Null
                      ELSE [@ EXCEPT !.at = "answered", !.answer = code, !.seen = "none",
                                     !.inject = Null, !.reply = Null]]
    /\ slots' = Freed(handler[h])

Step(h, x) == handler' = [handler EXCEPT ![h] = x]

Hang(r) == [NewHandler("none", r) EXCEPT !.at = "lost"]

\* What is left of a handler nobody waits for: a wait does no more than hold
\* its slot, and a proxied call too once it is sent.
Lingering(x) ==
    IF x.ep = "wait"
    THEN [x EXCEPT !.at = IF @ = "enter" THEN @ ELSE "check", !.seen = "none"]
    ELSE [x EXCEPT !.at = IF @ \in {"arrived", "stream"} THEN "sent" ELSE @, !.reply = Null,
                   !.arrived = FALSE]

\* The connection breaks, or the client's own timeout ends it: the handler is
\* dropped, now or when the server notices.
Lose(r) ==
    LET x == handler[r] IN
    /\ x # Null /\ x.at # "lost"
    /\ \/ /\ slots' = FreedOnDrop(x)
          /\ Step(r, Hang(r))
       \/ /\ handler[Late] = Null /\ x.at # "answered"
          /\ handler' = [handler EXCEPT ![r] = Hang(r), ![Late] = Lingering(x)]
          /\ UNCHANGED slots
    /\ UNCHANGED <<run, requests, files, sent, stored>>

DropLate ==
    /\ handler[Late] # Null
    /\ slots' = FreedOnDrop(handler[Late])
    /\ Step(Late, Null)
    /\ UNCHANGED <<run, requests, files, sent, stored>>

\* LazyTruncate: emptied when the response is one that will be written.
Written(a, content) ==
    IF a.output = Null THEN files ELSE [files EXCEPT ![a.output] = content]

-----------------------------------------------------------------------------
(* Waiting for the operator.                                               *)

SendWait(r) ==
    /\ At(r, "wait") /\ handler[r] = Null /\ Bearer(run[r].args)
    /\ Step(r, NewHandler("wait", r))
    /\ UNCHANGED <<run, requests, slots, files, sent, stored>>

\* --timeout, looked at between two polls.
GiveUpWaiting(r) ==
    /\ At(r, "wait") /\ handler[r] = Null
    /\ Exit(r, 4, "timeout")
    /\ UNCHANGED <<server, files>>

WaitEnter(h) ==
    /\ Is(h, "wait", "enter")
    /\ IF slots.wait >= MaxWaits THEN Reply(h, "too-many-waits")
       ELSE /\ slots' = Taken("wait")
            /\ Step(h, [handler[h] EXCEPT !.at = "check", !.seen = Row(h).state])
    /\ UNCHANGED <<run, requests, files, sent, stored>>

\* The loop's head: resolved, or out of time, or asleep until a notification
\* or the next tick.
WaitCheck(h) ==
    /\ Is(h, "wait", "check")
    /\ \/ Reply(h, handler[h].seen)
       \/ /\ handler[h].seen = "pending"
          /\ Step(h, [handler[h] EXCEPT !.at = "asleep"])
          /\ UNCHANGED slots
    /\ UNCHANGED <<run, requests, files, sent, stored>>

\* Fault: the sleep has no tick and relies on the notification.
PollNever(h) == FALSE /\ UNCHANGED vars

Poll(h) ==
    /\ Is(h, "wait", "asleep")
    /\ Step(h, [handler[h] EXCEPT !.at = "woken"])
    /\ UNCHANGED <<run, requests, slots, files, sent, stored>>

\* notify_waiters reaches those that are asleep and nobody else.
Woken == [h \in Handler |->
             IF Is(h, "wait", "asleep") THEN [handler[h] EXCEPT !.at = "woken"] ELSE handler[h]]

\* owned_request again; the row, or a database error.
WaitRead(h) ==
    /\ Is(h, "wait", "woken")
    /\ \/ /\ Step(h, [handler[h] EXCEPT !.at = "check", !.seen = Row(h).state])
          /\ UNCHANGED slots
       \/ Reply(h, "internal")
    /\ UNCHANGED <<run, requests, files, sent, stored>>

\* wait_for_resolution.  A definitive 4xx would end the run; of those a handler
\* gives only 401, which is NoBearer: request rows are never deleted.
WaitAnswered(r) ==
    LET x == handler[r] IN
    /\ At(r, "wait") /\ x # Null /\ x.at \in {"answered", "lost"}
    /\ Step(r, Null)
    /\ CASE x.answer \in {"pending", "approved", "denied", "expired"} -> Learn(r, x.answer)
         [] OTHER -> IF run[r].errors + 1 >= MaxErrors THEN Exit(r, 1, "transport")
                     ELSE Continue(r, [run[r] EXCEPT !.errors = @ + 1])
    /\ UNCHANGED <<requests, slots, files, sent, stored>>

-----------------------------------------------------------------------------
(* The brokered call: one attempt.                                         *)

SendProxy(r) ==
    /\ At(r, "proxy") /\ handler[r] = Null /\ Bearer(run[r].args)
    /\ Step(r, NewHandler("proxy", r))
    /\ UNCHANGED <<run, requests, slots, files, sent, stored>>

Call(h) == CallOf(run[handler[h].run].args)

\* Everything before a use is counted.
ProxyEnter(h) ==
    /\ Is(h, "proxy", "enter")
    /\ \/ \E code \in {"revalidation-failed", "payload-lost", "internal"} : Reply(h, code)
       \/ /\ slots.proxy >= MaxStreams
          /\ Reply(h, "too-many-streams")
       \/ /\ slots.proxy < MaxStreams
          /\ \E inject \in Injections :
               LET verdict == Judged(Row(h).asked.limits, Call(h), inject) IN
               IF verdict # "ok" THEN Reply(h, verdict)
               ELSE \/ /\ slots' = Taken("proxy")
                       /\ Step(h, [handler[h] EXCEPT !.at = "checked", !.inject = inject])
                    \/ Call(h).body # Null /\ Reply(h, "body-too-large")
    /\ UNCHANGED <<run, requests, files, sent, stored>>

\* begin_grant_use.
ProxyCount(h) ==
    LET k == run[handler[h].run].key
        g == requests[k]
    IN
    /\ Is(h, "proxy", "checked")
    /\ IF g.dead \/ g.uses = 0
       THEN /\ Reply(h, IF g.dead THEN "grant-expired" ELSE "grant-exhausted")
            /\ UNCHANGED requests
       ELSE /\ requests' = [requests EXCEPT ![k].uses = IF @ = Null THEN Null ELSE @ - 1]
            /\ Step(h, [handler[h] EXCEPT !.at = "counted"])
            /\ UNCHANGED slots
    /\ UNCHANGED <<run, files, sent, stored>>

\* The secret is decrypted and injected, and the call leaves.
ProxyForward(h) ==
    LET x == handler[h]
        verdict == Injectable(Call(h), x.inject)
    IN
    /\ Is(h, "proxy", "counted")
    /\ \/ /\ verdict = "ok"
          /\ sent' = [sent EXCEPT ![x.run] =
                         [call |-> Outbound(Row(h).asked.limits, Call(h), x.inject),
                          inject |-> x.inject]]
          /\ Step(h, [x EXCEPT !.at = "sent", !.inject = Null])
          /\ UNCHANGED slots
       \/ /\ Reply(h, IF verdict = "ok" THEN "internal" ELSE verdict)
          /\ UNCHANGED sent
    /\ UNCHANGED <<run, requests, files, stored>>

\* The upstream answers.  It may send the broker's own error marker.
UpstreamAnswers(h) ==
    /\ Is(h, "proxy", "sent")
    /\ \E status \in {200, 403}, marked \in BOOLEAN :
         Step(h, [handler[h] EXCEPT !.at = "arrived", !.arrived = TRUE,
                                    !.reply = [status |-> status, marked |-> marked]])
    /\ UNCHANGED <<run, requests, slots, files, sent, stored>>

UpstreamBreaks(h) ==
    /\ Is(h, "proxy", "sent")
    /\ Reply(h, "upstream-unreachable")
    /\ UNCHANGED <<run, requests, files, sent, stored>>

\* Fault: the upstream's headers are relayed as they are.
RelayedVerbatim(reply) == reply

\* build_response_headers: the marker is the broker's alone.
Relayed(reply) == [reply EXCEPT !.marked = FALSE]

ProxyRelay(h) ==
    /\ Is(h, "proxy", "arrived")
    /\ Step(h, [handler[h] EXCEPT !.at = "stream", !.reply = Relayed(@)])
    /\ UNCHANGED <<run, requests, slots, files, sent, stored>>

\* Fault: the deadline stays armed once the upstream has answered.
ArmedThroughout(x) == x # Null /\ x.ep = "proxy"
                      /\ x.at \in {"enter", "checked", "counted", "sent", "arrived"}

\* run_before_deadline: the response disarms it.
Armed(x) == x # Null /\ x.ep = "proxy" /\ x.at \in {"enter", "checked", "counted", "sent"}

ProxyDeadline(h) ==
    /\ Armed(handler[h])
    /\ Reply(h, "upstream-timeout")
    /\ UNCHANGED <<run, requests, files, sent, stored>>

\* What the client makes of the answer: the broker's own, or the upstream's.
ProxyAnswered(r) ==
    LET x == handler[r] IN
    /\ At(r, "proxy") /\ x # Null /\ x.at \in {"answered", "lost"}
    /\ Step(r, Null)
    /\ IF x.at = "lost" THEN Exit(r, 1, "transport") ELSE Exit(r, ProxyExitFor(x.answer), x.answer)
    /\ UNCHANGED <<requests, slots, files, sent, stored>>

ProxyResponds(r) ==
    LET x == handler[r]
        a == run[r].args
        got == [run[r] EXCEPT !.response = x.reply.status]
        closed == handler' = [handler EXCEPT ![r] = Null] /\ slots' = FreedOnDrop(x)
    IN
    /\ At(r, "proxy") /\ Is(r, "proxy", "stream")
    /\ CASE x.reply.marked ->
              /\ Continue(r, Ended(run[r], ProxyExit(x.reply.status, "upstream"), "upstream"))
              /\ closed
              /\ UNCHANGED files
         [] ~x.reply.marked /\ a.fail /\ x.reply.status >= 400 ->
              /\ Continue(r, Ended(got, 1, "failed-response"))
              /\ closed
              /\ files' = IF a.include THEN Written(a, "head") ELSE files
         [] OTHER ->
              /\ Continue(r, [got EXCEPT !.pc = "body"])
              /\ files' = Written(a, "empty")
              /\ UNCHANGED <<handler, slots>>
    /\ UNCHANGED <<requests, sent, stored>>

BodyEnds(r) ==
    /\ At(r, "body") /\ Is(r, "proxy", "stream")
    /\ files' = Written(run[r].args, "new")
    /\ Exit(r, 0, "response")
    /\ Step(r, Null) /\ slots' = Freed(handler[r])
    /\ UNCHANGED <<requests, sent, stored>>

\* The deadline, the size limit or the upstream ends the stream early.
BodyBreaks(r) ==
    /\ At(r, "body")
    /\ files' = Written(run[r].args, "part")
    /\ Exit(r, 1, "truncated")
    /\ Step(r, Null) /\ slots' = Freed(handler[r])
    /\ UNCHANGED <<requests, sent, stored>>

-----------------------------------------------------------------------------
(* The operator, the sweeper and the process.                              *)

\* The operator may grant fewer uses than were asked for.
Resolve(k, s) ==
    /\ requests[k].state = "pending"
    /\ \E n \in {requests[k].uses, 1} :
         requests' = [requests EXCEPT ![k].state = s, ![k].uses = n]
    /\ handler' = Woken
    /\ UNCHANGED <<run, slots, files, sent, stored>>

\* The sweeper.
Expire(k) ==
    /\ k \in DOMAIN requests /\ requests[k].state = "pending"
    /\ requests' = [requests EXCEPT ![k].state = "expired"]
    /\ handler' = Woken
    /\ UNCHANGED <<run, slots, files, sent, stored>>

\* The grant is revoked, or its time is over (one that a run knows of).
EndGrant(k) ==
    /\ \E r \in Run : run[r].key = k
    /\ requests[k].state = "approved" /\ ~requests[k].dead
    /\ requests' = [requests EXCEPT ![k].dead = TRUE]
    /\ UNCHANGED <<run, handler, slots, files, sent, stored>>

\* In-memory values and slots are gone, the database is not.
Restart ==
    /\ handler' = [h \in Handler |->
                      IF h = Late \/ handler[h] = Null THEN Null
                      ELSE IF handler[h].at = "answered" THEN handler[h] ELSE Hang(h)]
    /\ slots' = [wait |-> 0, proxy |-> 0]
    /\ \E gone \in SUBSET {k \in DOMAIN requests : /\ requests[k].state = "approved"
                                                   /\ requests[k].asked.mechanism = "cli-read"} :
         requests' = [k \in DOMAIN requests |-> [requests[k] EXCEPT !.lost = @ \/ k \in gone]]
    /\ UNCHANGED <<run, files, sent, stored>>

-----------------------------------------------------------------------------
ClientStep(r) ==
    \/ CheckGrant(r) \/ Prepare(r) \/ NoBearer(r)
    \/ Create(r) \/ ReadGrant(r) \/ Store(r) \/ Report(r)
    \/ SendWait(r) \/ WaitAnswered(r)
    \/ SendProxy(r) \/ ProxyAnswered(r) \/ ProxyResponds(r) \/ BodyEnds(r) \/ BodyBreaks(r)

ServerStep(h) ==
    \/ WaitEnter(h) \/ WaitCheck(h) \/ Poll(h) \/ WaitRead(h)
    \/ ProxyEnter(h) \/ ProxyCount(h) \/ ProxyForward(h) \/ ProxyRelay(h) \/ ProxyDeadline(h)

LateStep ==
    WaitEnter(Late) \/ ProxyEnter(Late) \/ ProxyCount(Late) \/ ProxyForward(Late) \/ DropLate

SweepRequests == \E k \in DOMAIN requests : Expire(k)

Next ==
    \/ \E r \in Run : \/ \E a \in {f[r] : f \in CommandLines} : Start(r, a)
                     \/ ClientStep(r) \/ GiveUpWaiting(r) \/ Lose(r)
                     \/ ServerStep(r) \/ UpstreamAnswers(r) \/ UpstreamBreaks(r)
    \/ LateStep
    \/ \E k \in DOMAIN requests : EndGrant(k) \/ \E s \in {"approved", "denied"} : Resolve(k, s)
    \/ SweepRequests \/ Restart

Spec == Init /\ [][Next]_vars

\* Programs run on, handlers are polled, their ticks and deadlines come, and the
\* sweeper expires what stays pending.  Operator, upstream, notification, the
\* waits' time limits and failures may never come.
FairSpec ==
    /\ Spec
    /\ WF_vars(\E r \in Run : ClientStep(r) \/ ServerStep(r))
    /\ WF_vars(SweepRequests)

-----------------------------------------------------------------------------
(* Types.                                                                  *)

Args == UNION {{f[r] : r \in Run} : f \in CommandLines}
Usable == {a \in Args : Usage(a)}

\* What the row behind a run's key was asked for.
Issued == [mechanism |-> "brokered", limits |-> Existing]
Expected(a) == IF a.cmd = "curl" /\ a.grant # Null THEN Issued ELSE Asked(a)
AskedFor == {Expected(a) : a \in {b \in Usable : b.cmd # "store"}} \cup {Issued}

PC == {"idle", "check", "prepare", "create", "wait", "read", "store", "proxy", "body", "report",
       "done"}
Keys == {KeyOf(r, a) : r \in Run, a \in Usable}
States == {"pending", "approved", "denied", "expired"}

\* The codes of ApiFailure that a usable command line can meet, and the other ways
\* in which a run ends.
Codes == {"unauthenticated", "invalid-request", "invalid-path", "policy-denied",
          "revalidation-failed", "not-found", "idempotency-key-reuse", "secret-exists",
          "too-many-pending", "too-many-waits", "too-many-streams", "too-many-deposits",
          "grant-exhausted", "grant-expired", "payload-lost", "body-too-large",
          "bad-credential-encoding", "upstream-unreachable", "upstream-timeout", "internal"}
Whys == Codes \cup {"none", "transport", "usage", "not-covered", "denied", "expired", "timeout",
                    "value", "stored", "failed-response", "response", "truncated"}

RunState == [pc : PC, args : Args \cup {Null}, key : Keys \cup {Null}, tries : Nat, errors : Nat,
             fresh : BOOLEAN, exit : Nat \cup {Null}, why : Whys, response : Nat \cup {Null},
             named : BOOLEAN]

UpstreamReply == [status : Nat, marked : BOOLEAN]

HandlerState == [ep : {"wait", "proxy", "none"}, run : Run,
                 at : {"enter", "check", "asleep", "woken", "checked", "counted", "sent",
                       "arrived", "stream", "answered", "lost"},
                 seen : States \cup {"none"}, inject : Injections \cup {Null},
                 answer : Codes \cup States \cup {"none"},
                 reply : UpstreamReply \cup {Null}, arrived : BOOLEAN]

RequestRow == [by : Run \cup {Null}, asked : AskedFor,
               state : States, uses : Nat \cup {Null}, dead : BOOLEAN, lost : BOOLEAN]

Contents == {"absent", "created", "old", "head", "empty", "part", "new"}

CallsOut == {[call |-> Outbound(g.limits, CallOf(a), i), inject |-> i] :
                g \in {x \in AskedFor : x.mechanism = "brokered"},
                a \in {b \in Usable : b.cmd = "curl"}, i \in Injections}

TypeOK ==
    /\ run \in [Run -> RunState]
    /\ handler \in [Handler -> HandlerState \cup {Null}]
    /\ requests \in [DOMAIN requests -> RequestRow]
    /\ slots \in [wait : Nat, proxy : Nat]
    /\ files \in [out : Contents, token : Contents]
    /\ sent \in [Run -> CallsOut \cup {Null}]
    /\ stored \in Run \cup {Null}

ASSUME ConstantsAssumption ==
    /\ IsFiniteSet(Run) /\ Late \notin Run
    /\ Attempts \in Nat /\ MaxErrors \in Nat /\ MaxWaits \in Nat /\ MaxStreams \in Nat
    /\ Existing.uses \in Nat \cup {Null}
    /\ OutputBefore \in {"absent", "old"}

ASSUME CommandLinesAssumption ==
    \A a \in Args :
        /\ a.cmd \in {"curl", "request", "store"}
        /\ a.grant \in {Null, GrantId} /\ (a.cmd # "curl" => a.grant = Null)
        /\ a.uses \in Nat
        /\ a.url.path.segs \in Seq(STRING)
        /\ a.headers \in Seq([name : STRING, form : STRING, value : STRING,
                              nominates : SUBSET STRING])

\* The id of a grant is no idempotency key.
ASSUME KeysAssumption ==
    \A r \in Run : \A a \in Usable : a.grant = Null => KeyOf(r, a) # GrantId

ASSUME NullAssumption ==
    Null \notin Run \cup Nat \cup HandlerState \cup UpstreamReply \cup CallsOut \cup Args

-----------------------------------------------------------------------------
(* Properties.                                                             *)

\* The wait and stream counters of a client are exactly its handlers that are
\* still at work, however those came to their end (returned, dropped with the
\* connection, noticed late, restarted), and never above the cap: no slot
\* leaks and none is given back twice (SlotGuard, state.rs).
SlotsAccounted ==
    \A ep \in {"wait", "proxy"} :
        /\ slots[ep] = Cardinality({h \in Handler : Holding(handler[h]) /\ handler[h].ep = ep})
        /\ slots[ep] <= (IF ep = "wait" THEN MaxWaits ELSE MaxStreams)

\* The exit code is honest about side effects: a run that ends as unusable,
\* denied, timed out or lost (2 to 5), or by a refusal of the broker, sent
\* nothing upstream; success is a delivered call or a stored secret; the
\* deadline never reports as timed out a call the upstream has answered; and
\* after a failure the approved grant is named (run_curl, run_store,
\* run_before_deadline).
ExitHonest ==
    /\ \A r \in Run : run[r].pc = "done" =>
         LET x == run[r] IN
         /\ x.exit \in 2..5 \/ Status(x.why) < 500 => sent[r] = Null
         /\ x.exit = 0 /\ x.args.cmd = "curl" => sent[r] # Null /\ x.response # Null
         /\ x.exit = 0 /\ x.args.cmd = "store" => stored = r
         /\ x.fresh /\ x.exit # 0 => x.named
    /\ \A h \in Handler : handler[h] # Null =>
         ~(handler[h].answer = "upstream-timeout" /\ handler[h].arrived)

\* An approval that was asked for one call serves that call: the broker never
\* refuses it for its method or its path (validate_grant_options and
\* constraints_for against handle_inner).
ApprovalServesCall ==
    \A r \in Run : run[r].fresh => run[r].why \notin {"policy-denied", "invalid-path"}

\* What goes upstream is the call of the command line, at the URL's own origin;
\* under a fresh approval it is the call the request was made for, by this run
\* or by an earlier one with the same key, whatever either of them changed in
\* the body, the query or the headers (call_bound_idempotency_key,
\* check_grant_covers, build_outbound_headers).
ApprovedCallSent ==
    \A r \in Run : sent[r] # Null =>
        /\ sent[r].call.origin = run[r].args.url.host
        /\ run[r].fresh =>
             sent[r].call = Shown(CallOf(run[requests[run[r].key].by].args), sent[r].inject)

\* An output file keeps its contents unless the upstream answered with a
\* response that the run prints: a denial, a timeout, a broker error or --fail
\* costs nothing.  The token file is lost only to a run that does not use it
\* (open_output, LazyTruncate, refuse_output_over_token_file).
OutputKept ==
    \A f \in DOMAIN files : files[f] \notin {"absent", "created", "old"} =>
        \E r \in Run :
            /\ run[r].args # Null /\ run[r].args.output = f
            /\ run[r].response # Null
            /\ run[r].args.include \/ ~(run[r].args.fail /\ run[r].response >= 400)
            /\ f = "token" => run[r].args.override

\* Every run ends (in the end each is over or was never started), although the
\* operator, the upstream and the notification of the waiters may all fail to
\* come: the expired request is seen at a waiter's next tick, and the deadline
\* ends a silent upstream (wait, wait_for_resolution, run_before_deadline).
EveryRunEnds == <>[](\A r \in Run : run[r].pc \in {"idle", "done"})
=============================================================================
