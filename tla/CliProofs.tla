----------------------------- MODULE CliProofs -----------------------------
(***************************************************************************)
(* Theorems about the command line client and the two long calls of the    *)
(* server, for any number of runs, any command lines and any caps.         *)
(***************************************************************************)
EXTENDS Cli, FiniteSetTheorems, TLAPS

-----------------------------------------------------------------------------
(* The inductive invariant.                                                *)

Working == {"check", "prepare", "create", "wait", "read", "store", "proxy", "body"}
Over == {"report", "done"}

\* The row behind the run's key is there, and was asked for what the run asks.
Backed(r) ==
    /\ run[r].key \in DOMAIN requests
    /\ requests[run[r].key].asked = Expected(run[r].args)

\* How far a run has come says what its command line is like.
RunSound(r) ==
    LET x == run[r]
        a == run[r].args
    IN
    /\ x.pc # "idle" => a # Null
    /\ x.pc \in Working \/ x.fresh \/ x.response # Null => a \in Usable
    /\ x.pc \in {"check", "prepare", "proxy", "body"} \/ x.fresh \/ x.response # Null
         => a.cmd = "curl"
    /\ x.pc \in {"create", "wait"} => a.cmd # "store" /\ (a.cmd = "curl" => a.grant = Null)
    /\ x.pc = "read" => a.cmd = "request"
    /\ x.pc = "store" => a.cmd = "store"
    /\ x.pc = "report" => x.fresh
    /\ x.fresh => x.pc \in {"proxy", "body"} \cup Over
    /\ x.fresh => a.grant = Null
    /\ x.response # Null => x.pc \in {"body"} \cup Over
    /\ x.pc \in Working => x.why = "none"
    /\ x.pc = "body" => x.response # Null /\ ~(a.fail /\ x.response >= 400)

Asking == {"check", "wait", "read", "proxy", "body"}

RunsSound ==
    \A r \in Run :
        /\ RunSound(r)
        /\ run[r].pc \in Asking \/ run[r].fresh => Backed(r)
        /\ run[r].pc = "prepare" /\ run[r].args.grant # Null => Backed(r)

\* Where a handler can be, and what its run is doing meanwhile.
HandlerSound(h) ==
    handler[h] # Null =>
       LET x == handler[h] IN
       /\ x.ep = "wait" => x.at \in {"enter", "check", "asleep", "woken", "answered"}
       /\ x.ep = "proxy" => x.at \in {"enter", "checked", "counted", "sent", "arrived", "stream",
                                      "answered"}
       /\ x.ep = "none" => x.at = "lost"
       /\ h = Late => x.ep # "none" /\ x.at # "answered"
       /\ h \in Run => x.run = h
       /\ h \in Run => run[h].pc \in {"wait", "proxy", "body"}
       /\ h \in Run /\ x.ep = "wait" => run[h].pc = "wait"
       /\ h \in Run /\ x.ep = "proxy" => run[h].pc \in {"proxy", "body"}
       /\ x.ep = "proxy" => run[x.run].args.cmd = "curl"
       /\ Backed(x.run) /\ run[x.run].pc # "idle" /\ run[x.run].args \in Usable
       /\ x.at \in {"arrived", "stream"} => x.reply # Null
       /\ x.at = "stream" => ~x.reply.marked
       /\ x.at \in {"checked", "counted"} => x.inject \in Injections
       /\ x.arrived => x.at \in {"arrived", "stream"}
       /\ x.at # "answered" => x.answer = "none"
       /\ x.at = "answered" /\ x.ep = "proxy" => x.answer \in Codes

BodyServed(r) ==
    run[r].pc = "body" => handler[r] # Null /\ handler[r].at \in {"stream", "lost"}

HandlersSound ==
    /\ requests[GrantId].asked = Issued /\ GrantId \in DOMAIN requests
    /\ \A h \in Handler : HandlerSound(h)
    /\ \A r \in Run : BodyServed(r)

Excuses(code) == ProxyExitFor(code) \in 2..5 \/ Status(code) < 500

\* A run has one brokered call: either its handler is there to send it, or it
\* was given up, and then the run ends without claiming that nothing was sent.
SentSound ==
    /\ \A r \in Run : sent[r] # Null => run[r].pc \in {"proxy", "body"} \cup Over
    /\ \A r \in Run : run[r].pc = "proxy" /\ handler[r] = Null => sent[r] = Null
    /\ \A r \in Run : run[r].pc = "body" => sent[r] # Null
    /\ \A h \in Handler : handler[h] # Null /\ handler[h].ep = "proxy" =>
         /\ handler[h].at \in {"enter", "checked", "counted"} => sent[handler[h].run] = Null
         /\ handler[h].at \in {"sent", "arrived", "stream"} => sent[handler[h].run] # Null
         /\ handler[h].at = "answered" /\ Excuses(handler[h].answer) => sent[handler[h].run] = Null
    /\ handler[Late] # Null /\ handler[Late].ep = "proxy" =>
         LET r == handler[Late].run IN
         \/ run[r].pc \in {"proxy", "body"} /\ handler[r] # Null /\ handler[r].at = "lost"
         \/ run[r].pc \in Over /\ run[r].exit = 1 /\ ~(Status(run[r].why) < 500)

\* A run that is over, whether its grant is named yet or not.
EndSound(r) ==
    run[r].pc \in Over =>
        LET x == run[r] IN
        /\ x.exit \in 2..5 \/ Status(x.why) < 500 => sent[r] = Null
        /\ x.exit = 0 /\ x.args.cmd = "curl" => sent[r] # Null /\ x.response # Null
        /\ x.exit = 0 /\ x.args.cmd = "store" => stored = r
        /\ x.pc = "done" /\ x.fresh /\ x.exit # 0 => x.named

EndsSound == \A r \in Run : EndSound(r)

Refusals == {"policy-denied", "invalid-path"}

\* The broker's answer to a run with a fresh approval, before the run has seen it.
AnswersSound ==
    /\ ApprovalServesCall
    /\ \A r \in Run : run[r].fresh /\ handler[r] # Null => handler[r].answer \notin Refusals

\* The run may send its call: a grant that it reuses is for the URL's origin.
Cleared(r) ==
    /\ run[r].args \in Usable /\ run[r].args.cmd = "curl" /\ run[r].pc # "idle"
    /\ run[r].args.grant # Null => Existing.origin = run[r].args.url.host

\* What a run sends: its call, at the origin of what its row was asked for.
Carried(a, out) == out.call = Outbound(Expected(a).limits, CallOf(a), out.inject)

\* A row was made by a run whose command line has the row's key.
RowMade(k) ==
    LET r == requests[k].by IN
    /\ r \in Run /\ run[r].pc # "idle" /\ run[r].args \in Usable /\ run[r].args.grant = Null
    /\ run[r].args.cmd # "store"
    /\ k = KeyOf(r, run[r].args) /\ requests[k].asked = Asked(run[r].args)

CallsBound ==
    /\ \A r \in Run : run[r].pc \in Working \/ run[r].fresh => run[r].key = KeyOf(r, run[r].args)
    /\ \A r \in Run : run[r].pc \in {"prepare", "proxy", "body"} => Cleared(r)
    /\ \A h \in Handler : handler[h] # Null /\ handler[h].ep = "proxy" => Cleared(handler[h].run)
    /\ \A r \in Run : sent[r] # Null => Cleared(r) /\ Carried(run[r].args, sent[r])
    /\ \A k \in DOMAIN requests \ {GrantId} : RowMade(k)

IInv ==
    /\ TypeOK /\ RunsSound /\ HandlersSound /\ SentSound /\ EndsSound /\ AnswersSound
    /\ CallsBound /\ OutputKept /\ SlotsAccounted

-----------------------------------------------------------------------------
(* Runs.                                                                   *)

LEMMA RunFields ==
    ASSUME TypeOK, NEW r \in Run
    PROVE  /\ run[r] \in RunState
           /\ run[r].pc \in PC /\ run[r].args \in Args \cup {Null}
           /\ run[r].tries \in Nat /\ run[r].errors \in Nat
           /\ run[r].fresh \in BOOLEAN /\ run[r].exit \in Nat \cup {Null}
           /\ run[r].why \in Whys /\ run[r].response \in Nat \cup {Null}
           /\ run[r].named \in BOOLEAN
<1>1. run[r] \in RunState
  BY DEF TypeOK
<1> QED BY <1>1 DEF RunState

LEMMA SetRun ==
    ASSUME TypeOK, NEW r \in Run, NEW x \in RunState, Continue(r, x)
    PROVE  /\ run' \in [Run -> RunState]
           /\ run'[r] = x
           /\ \A q \in Run \ {r} : run'[q] = run[q]
BY DEF TypeOK, Continue

\* y is x after it ended.
EndOf(x, y, code, why) ==
    /\ y.pc \in Over
    /\ y.pc = "report" => x.fresh
    /\ x.fresh /\ code # 0 => y.pc = "report"
    /\ y.exit = code /\ y.why = why
    /\ y.args = x.args /\ y.key = x.key /\ y.fresh = x.fresh /\ y.response = x.response
    /\ y.named = x.named

LEMMA EndedRun ==
    ASSUME NEW x \in RunState, NEW code \in Nat, NEW why \in Whys
    PROVE  /\ Ended(x, code, why) \in RunState
           /\ EndOf(x, Ended(x, code, why), code, why)
<1>1. PICK pc \in Over : pc = IF x.fresh /\ (x.args.uses # 1 \/ code # 0) THEN "report" ELSE "done"
  BY DEF Over
<1>2. Ended(x, code, why) = [x EXCEPT !.pc = pc, !.exit = code, !.why = why, !.tries = 0, !.errors = 0]
  BY <1>1 DEF Ended
<1>3. [x EXCEPT !.pc = pc, !.exit = code, !.why = why, !.tries = 0, !.errors = 0] \in RunState
  BY DEF RunState, Over, PC
<1>4. PICK y \in RunState : y = [x EXCEPT !.pc = pc, !.exit = code, !.why = why, !.tries = 0,
                                          !.errors = 0]
  BY <1>3
<1>5. /\ y.pc = pc /\ y.exit = code /\ y.why = why
      /\ y.args = x.args /\ y.key = x.key /\ y.fresh = x.fresh /\ y.response = x.response
      /\ y.named = x.named
  BY <1>4 DEF RunState
<1>6. EndOf(x, y, code, why)
  <2>1. pc = "report" => x.fresh
    BY <1>1
  <2>2. x.fresh /\ code # 0 => pc = "report"
    BY <1>1
  <2> QED BY <1>5, <2>1, <2>2 DEF EndOf
<1> QED BY <1>2, <1>4, <1>6

\* A run ends.
Ends(r, code, why) == EndOf(run[r], run'[r], code, why)

Alone(r) == run' \in [Run -> RunState] /\ \A q \in Run \ {r} : run'[q] = run[q]

LEMMA ExitRun ==
    ASSUME TypeOK, NEW r \in Run, NEW code \in Nat, NEW why \in Whys, Exit(r, code, why)
    PROVE  Alone(r) /\ Ends(r, code, why)
<1>1. PICK y \in RunState : y = Ended(run[r], code, why) /\ EndOf(run[r], y, code, why)
  BY RunFields, EndedRun
<1>2. Continue(r, y)
  BY <1>1 DEF Exit
<1> QED BY <1>1, <1>2, SetRun DEF Ends, Alone

\* A run goes on: only its step and its counters change.
Goes(r, pc) ==
    /\ run'[r].pc = pc
    /\ run'[r].args = run[r].args /\ run'[r].key = run[r].key
    /\ run'[r].fresh = run[r].fresh /\ run'[r].response = run[r].response
    /\ run'[r].exit = run[r].exit /\ run'[r].why = run[r].why /\ run'[r].named = run[r].named

LEMMA GoesRun ==
    ASSUME TypeOK, NEW r \in Run, NEW pc \in PC, NEW tries \in Nat, NEW errors \in Nat,
           Continue(r, [run[r] EXCEPT !.pc = pc, !.tries = tries, !.errors = errors])
    PROVE  Alone(r) /\ Goes(r, pc)
<1>1. [run[r] EXCEPT !.pc = pc, !.tries = tries, !.errors = errors] \in RunState
  BY RunFields DEF RunState
<1>2. PICK y \in RunState : y = [run[r] EXCEPT !.pc = pc, !.tries = tries, !.errors = errors]
  BY <1>1
<1>3. /\ y.pc = pc /\ y.exit = run[r].exit /\ y.why = run[r].why
      /\ y.args = run[r].args /\ y.key = run[r].key /\ y.fresh = run[r].fresh
      /\ y.response = run[r].response /\ y.named = run[r].named
  BY <1>2, RunFields DEF RunState
<1> QED BY <1>2, <1>3, SetRun DEF Goes, Alone

LEMMA PcRun ==
    ASSUME TypeOK, NEW r \in Run, NEW pc \in PC, Continue(r, [run[r] EXCEPT !.pc = pc])
    PROVE  Alone(r) /\ Goes(r, pc)
<1>1. [run[r] EXCEPT !.pc = pc]
        = [run[r] EXCEPT !.pc = pc, !.tries = run[r].tries, !.errors = run[r].errors]
  BY RunFields DEF RunState
<1> QED BY <1>1, RunFields, GoesRun

Freshens(r) ==
    /\ run'[r].pc = "proxy" /\ run'[r].fresh
    /\ run'[r].args = run[r].args /\ run'[r].key = run[r].key
    /\ run'[r].response = run[r].response
    /\ run'[r].exit = run[r].exit /\ run'[r].why = run[r].why /\ run'[r].named = run[r].named

\* An attempt that is made again, or was the last one.
LEMMA RetryRun ==
    ASSUME TypeOK, NEW r \in Run, Retry(r)
    PROVE  Alone(r) /\ (Ends(r, 1, "transport") \/ Goes(r, run[r].pc))
<1>1. CASE Exit(r, 1, "transport")
  BY <1>1, ExitRun DEF Whys
<1>2. CASE Continue(r, [run[r] EXCEPT !.tries = @ + 1])
  <2>1. PICK pc \in PC, tries \in Nat, errors \in Nat :
          pc = run[r].pc /\ tries = run[r].tries + 1 /\ errors = run[r].errors
    BY RunFields
  <2>2. [run[r] EXCEPT !.tries = @ + 1]
          = [run[r] EXCEPT !.pc = pc, !.tries = tries, !.errors = errors]
    BY <2>1, RunFields DEF RunState
  <2>3. Continue(r, [run[r] EXCEPT !.pc = pc, !.tries = tries, !.errors = errors])
    BY <1>2, <2>2
  <2>4. Alone(r) /\ Goes(r, pc)
    BY <2>3, GoesRun
  <2> QED BY <2>1, <2>4
<1> QED BY <1>1, <1>2 DEF Retry

LEMMA LearnRun ==
    ASSUME TypeOK, NEW r \in Run, NEW state \in States,
           Learn(r, state)
    PROVE  /\ Alone(r)
           /\ \/ state = "pending" /\ Goes(r, "wait")
              \/ state = "approved" /\ run[r].args.cmd = "curl" /\ Freshens(r)
              \/ state = "approved" /\ run[r].args.cmd # "curl" /\ Goes(r, "read")
              \/ Ends(r, 3, "denied") \/ Ends(r, 4, "expired")
<1>1. CASE state = "pending"
  <2>1. Continue(r, [run[r] EXCEPT !.pc = "wait", !.tries = 0, !.errors = 0])
    BY <1>1 DEF Learn
  <2> QED BY <1>1, <2>1, GoesRun DEF PC
<1>2. CASE state = "approved" /\ run[r].args.cmd = "curl"
  <2>1. Continue(r, [run[r] EXCEPT !.pc = "proxy", !.fresh = TRUE, !.tries = 0, !.errors = 0])
    BY <1>2 DEF Learn
  <2>2. [run[r] EXCEPT !.pc = "proxy", !.fresh = TRUE, !.tries = 0, !.errors = 0] \in RunState
    BY RunFields DEF RunState, PC
  <2>3. PICK y \in RunState :
          y = [run[r] EXCEPT !.pc = "proxy", !.fresh = TRUE, !.tries = 0, !.errors = 0]
    BY <2>2
  <2>4. /\ y.pc = "proxy" /\ y.exit = run[r].exit /\ y.why = run[r].why
        /\ y.args = run[r].args /\ y.key = run[r].key /\ y.fresh
        /\ y.response = run[r].response /\ y.named = run[r].named
    BY <2>3, RunFields DEF RunState
  <2> QED BY <1>2, <2>1, <2>3, <2>4, SetRun DEF Freshens, Alone
<1>3. CASE state = "approved" /\ run[r].args.cmd # "curl"
  <2>1. Continue(r, [run[r] EXCEPT !.pc = "read", !.tries = 0, !.errors = 0])
    BY <1>3 DEF Learn
  <2> QED BY <1>3, <2>1, GoesRun DEF PC
<1>4. CASE state = "denied"
  BY <1>4, ExitRun DEF Learn, Whys
<1>5. CASE state = "expired"
  BY <1>5, ExitRun DEF Learn, Whys
<1> QED BY <1>1, <1>2, <1>3, <1>4, <1>5 DEF States

-----------------------------------------------------------------------------
(* Exit codes.                                                             *)

LEMMA ExitCodes ==
    ASSUME NEW code
    PROVE  ExitFor(code) \in 1..5 /\ ProxyExitFor(code) \in 1..5
BY DEF ExitFor, ClassifyGone, Status, ProxyExitFor, ProxyExit

LEMMA Statuses ==
    /\ ~(Status("transport") < 500) /\ ~(Status("truncated") < 500)
    /\ ~(Status("failed-response") < 500) /\ ~(Status("response") < 500)
    /\ ~Excuses("upstream-unreachable") /\ ~Excuses("upstream-timeout") /\ ~Excuses("internal")
BY DEF Status, Excuses, ProxyExitFor, ProxyExit

-----------------------------------------------------------------------------
(* Requests: rows stay, and so does what they were asked for.              *)

RequestsKept ==
    /\ requests' \in [DOMAIN requests' -> RequestRow]
    /\ \A k \in DOMAIN requests : k \in DOMAIN requests' /\ requests'[k].asked = requests[k].asked

LEMMA RowFields ==
    ASSUME TypeOK, NEW k \in DOMAIN requests
    PROVE  /\ requests[k] \in RequestRow /\ requests[k].asked \in AskedFor
           /\ requests[k].state \in States /\ requests[k].uses \in Nat \cup {Null}
           /\ requests[k].dead \in BOOLEAN /\ requests[k].lost \in BOOLEAN
<1>1. requests[k] \in RequestRow
  BY DEF TypeOK
<1> QED BY <1>1 DEF RequestRow

LEMMA SetRow ==
    ASSUME TypeOK, NEW k \in DOMAIN requests, NEW x \in RequestRow, x.asked = requests[k].asked,
           requests' = [requests EXCEPT ![k] = x]
    PROVE  RequestsKept
BY DEF TypeOK, RequestsKept

LEMMA UsesRow ==
    ASSUME TypeOK, NEW k \in DOMAIN requests, NEW n \in Nat \cup {Null},
           requests' = [requests EXCEPT ![k].uses = n]
    PROVE  RequestsKept
<1>1. PICK x \in RequestRow : x = [requests[k] EXCEPT !.uses = n] /\ x.asked = requests[k].asked
  <2>1. [requests[k] EXCEPT !.uses = n] \in RequestRow
    BY RowFields DEF RequestRow
  <2>2. [requests[k] EXCEPT !.uses = n].asked = requests[k].asked
    BY RowFields DEF RequestRow
  <2> QED BY <2>1, <2>2
<1>2. requests' = [requests EXCEPT ![k] = x]
  BY <1>1
<1> QED BY <1>1, <1>2, SetRow

LEMMA StateRow ==
    ASSUME TypeOK, NEW k \in DOMAIN requests, NEW state \in States, NEW n \in Nat \cup {Null},
           requests' = [requests EXCEPT ![k].state = state, ![k].uses = n]
    PROVE  RequestsKept
<1>1. [requests[k] EXCEPT !.state = state, !.uses = n] \in RequestRow
  BY RowFields DEF RequestRow
<1>2. [requests[k] EXCEPT !.state = state, !.uses = n].asked = requests[k].asked
  BY RowFields DEF RequestRow
<1>3. PICK x \in RequestRow : x = [requests[k] EXCEPT !.state = state, !.uses = n]
                              /\ x.asked = requests[k].asked
  BY <1>1, <1>2
<1>4. requests' = [requests EXCEPT ![k] = x]
  BY <1>3
<1> QED BY <1>3, <1>4, SetRow

LEMMA AskedType ==
    ASSUME NEW a \in Usable, a.cmd # "store", a.cmd = "curl" => a.grant = Null
    PROVE  Asked(a) \in AskedFor /\ Asked(a).limits.uses \in Nat \cup {Null}
           /\ Asked(a) = Expected(a)
<1>1. Asked(a) = Expected(a)
  BY DEF Expected
<1>2. Asked(a) \in AskedFor
  BY <1>1 DEF AskedFor
<1>3. a.uses \in Nat
  BY CommandLinesAssumption DEF Usable
<1>4. CASE a.cmd = "curl"
  <2>1. Asked(a).limits = ConstraintsFor(ParseTarget(a.url), Method(a), a)
    BY <1>4 DEF Asked
  <2>2. ConstraintsFor(ParseTarget(a.url), Method(a), a).uses = IF a.uses = 0 THEN Null ELSE a.uses
    BY DEF ConstraintsFor
  <2> QED BY <1>1, <1>2, <1>3, <2>1, <2>2
<1>5. CASE a.cmd # "curl"
  <2>1. Asked(a).limits.uses = 1
    BY <1>5 DEF Asked
  <2> QED BY <1>1, <1>2, <2>1
<1> QED BY <1>4, <1>5

LEMMA NewRowType ==
    ASSUME NEW r \in Run, run[r].args \in Usable, run[r].args.cmd # "store",
           run[r].args.cmd = "curl" => run[r].args.grant = Null, NEW state \in States
    PROVE  NewRow(r, state) \in RequestRow /\ NewRow(r, state).asked = Asked(run[r].args)
<1>1. PICK asked \in AskedFor : asked = Asked(run[r].args) /\ asked.limits.uses \in Nat \cup {Null}
  BY AskedType
<1>2. NewRow(r, state) = [by |-> r, asked |-> asked, state |-> state, uses |-> asked.limits.uses,
                          dead |-> FALSE, lost |-> FALSE]
  BY <1>1 DEF NewRow
<1> QED BY <1>1, <1>2 DEF RequestRow

LEMMA CreatedRows ==
    ASSUME TypeOK, NEW r \in Run, run[r].args \in Usable, run[r].args.cmd # "store",
           run[r].args.cmd = "curl" => run[r].args.grant = Null,
           NEW o \in Creations(r), requests' = o.rows
    PROVE  /\ RequestsKept
           /\ o.answer \in States \cup Codes
           /\ o.answer \in States =>
                /\ run[r].key \in DOMAIN requests'
                /\ requests'[run[r].key].asked = Expected(run[r].args)
<1>1. PICK k, a : k = run[r].key /\ a = run[r].args
  OBVIOUS
<1>2. a \in Usable /\ Asked(a) = Expected(a)
  BY <1>1, AskedType
<1>3. CASE k \in DOMAIN requests
  <2>1. o = [rows |-> requests, answer |-> IF requests[k].asked = Asked(a) THEN requests[k].state
                                           ELSE "idempotency-key-reuse"]
    BY <1>1, <1>3 DEF Creations
  <2>2. o.rows = requests /\ o.answer = IF requests[k].asked = Asked(a) THEN requests[k].state
                                        ELSE "idempotency-key-reuse"
    BY <2>1
  <2>3. RequestsKept
    BY <2>2 DEF RequestsKept, TypeOK
  <2>4. o.answer \in States \cup Codes /\ (o.answer \in States => requests[k].asked = Asked(a))
    BY <1>3, <2>2, RowFields DEF States, Codes
  <2> QED BY <1>1, <1>2, <1>3, <2>2, <2>3, <2>4
<1>4. CASE k \notin DOMAIN requests
  <2> DEFINE rows(state) == [j \in DOMAIN requests \cup {k} |->
                               IF j = k THEN NewRow(r, state) ELSE requests[j]]
  <2>1. \/ o.rows = requests /\ o.answer \in {"invalid-request", "too-many-pending"}
        \/ o.rows = rows("pending") /\ o.answer = "pending"
        \/ o.rows = rows("approved") /\ o.answer = "approved"
        \/ o.rows = rows("denied") /\ o.answer = "policy-denied"
    BY <1>1, <1>4 DEF Creations
  <2>2. ASSUME NEW state \in States, o.rows = rows(state)
        PROVE  /\ RequestsKept /\ k \in DOMAIN requests'
               /\ requests'[k].asked = Expected(a)
    <3>1. NewRow(r, state) \in RequestRow /\ NewRow(r, state).asked = Asked(a)
      BY <1>1, NewRowType
    <3>2. requests' = rows(state)
      BY <2>2
    <3>3. requests' \in [DOMAIN requests' -> RequestRow]
      BY <3>1, <3>2 DEF TypeOK
    <3>4. \A j \in DOMAIN requests : j \in DOMAIN requests' /\ requests'[j] = requests[j]
      BY <1>4, <3>2
    <3>5. k \in DOMAIN requests' /\ requests'[k] = NewRow(r, state)
      BY <3>2
    <3> QED BY <1>2, <3>1, <3>3, <3>4, <3>5 DEF RequestsKept
  <2>3. CASE o.rows = requests /\ o.answer \in {"invalid-request", "too-many-pending"}
    BY <2>3 DEF RequestsKept, TypeOK, States, Codes
  <2>4. ASSUME NEW state \in States, o.rows = rows(state), o.answer \in {state, "policy-denied"}
        PROVE  /\ RequestsKept /\ o.answer \in States \cup Codes
               /\ k \in DOMAIN requests' /\ requests'[k].asked = Expected(a)
    <3>1. o.answer \in States \cup Codes
      BY <2>4 DEF Codes
    <3> QED BY <2>2, <2>4, <3>1
  <2>5. {"pending", "approved", "denied"} \subseteq States
    BY DEF States
  <2> HIDE DEF rows
  <2> QED BY <1>1, <2>1, <2>3, <2>4, <2>5
<1> QED BY <1>3, <1>4

LEMMA ReadRows ==
    ASSUME TypeOK, NEW r \in Run, run[r].key \in DOMAIN requests,
           NEW o \in Reads(r), requests' = o.rows
    PROVE  RequestsKept /\ (o.answer = "value" \/ o.answer \in Codes)
<1>1. PICK k \in DOMAIN requests : k = run[r].key
  OBVIOUS
<1>2. \/ o = [rows |-> requests, answer |-> "revalidation-failed"]
      \/ o = [rows |-> requests, answer |-> "grant-expired"]
      \/ o = [rows |-> requests, answer |-> "payload-lost"]
      \/ o = [rows |-> requests, answer |-> "value"]
      \/ o = [rows |-> requests, answer |-> "grant-exhausted"]
      \/ o = [rows |-> [requests EXCEPT ![k].uses = 0], answer |-> "value"]
  BY <1>1 DEF Reads
<1>3. /\ o.rows = requests \/ o.rows = [requests EXCEPT ![k].uses = 0]
      /\ o.answer = "value" \/ o.answer \in Codes
  BY <1>2 DEF Codes
<1>4. CASE o.rows = requests
  BY <1>3, <1>4 DEF RequestsKept, TypeOK
<1>5. CASE o.rows = [requests EXCEPT ![k].uses = 0]
  BY <1>3, <1>5, UsesRow
<1> QED BY <1>3, <1>4, <1>5

-----------------------------------------------------------------------------
(* What a client's own steps can do to its run.                            *)

Handlers == [Handler -> HandlerState \cup {Null}]

LEMMA SetHandler ==
    ASSUME TypeOK, NEW h \in Handler, NEW x \in HandlerState \cup {Null}, Step(h, x)
    PROVE  handler' \in Handlers /\ handler'[h] = x
           /\ \A g \in Handler \ {h} : handler'[g] = handler[g]
BY DEF TypeOK, Step, Handlers

Begins(r) ==
    LET y == run'[r] IN
    /\ run[r].pc = "idle" /\ y.args \in Args /\ ~y.fresh /\ y.response = Null /\ ~y.named
    /\ \/ y.pc = "done" /\ y.exit = 2 /\ y.why = "usage"
       \/ /\ y.args \in Usable /\ y.key = KeyOf(r, y.args) /\ y.why = "none"
          /\ \/ y.pc = "create" /\ y.args.cmd = "request"
             \/ y.pc = "store" /\ y.args.cmd = "store"
             \/ y.pc = "check" /\ y.args.cmd = "curl" /\ y.args.grant # Null
             \/ y.pc = "prepare" /\ y.args.cmd = "curl" /\ y.args.grant = Null

\* Before the brokered call.
Early == {"check", "prepare", "create", "wait", "read", "store"}

Proceeds(r) ==
    LET pc == run[r].pc
        a == run[r].args
    IN
    \/ pc = "check" /\ Goes(r, "prepare")
       /\ (a.grant # Null => Existing.origin = a.url.host)
    \/ pc = "prepare" /\ a.grant = Null /\ Goes(r, "create")
    \/ pc = "prepare" /\ a.grant # Null /\ Goes(r, "proxy")
    \/ pc \in {"create", "read", "wait"} /\ Goes(r, pc)
    \/ pc = "create" /\ Goes(r, "wait") /\ Backed(r)'
    \/ pc \in {"create", "wait"} /\ a.cmd # "curl" /\ Goes(r, "read") /\ Backed(r)'
    \/ pc \in {"create", "wait"} /\ a.cmd = "curl" /\ Freshens(r) /\ Backed(r)'

Fails(r) ==
    /\ run[r].pc = "proxy" /\ Is(r, "proxy", "stream")
    /\ EndOf([run[r] EXCEPT !.response = handler[r].reply.status], run'[r], 1, "failed-response")
    /\ run[r].args.fail /\ handler[r].reply.status >= 400

Stops(r) ==
    LET pc == run[r].pc IN
    \/ pc \in Early /\ \E code \in 1..5, why \in Whys : Ends(r, code, why)
    \/ pc = "read" /\ Ends(r, 0, "value")
    \/ pc = "store" /\ stored' = r /\ Ends(r, 0, "stored")
    \/ pc = "proxy" /\ handler[r] = Null /\ Ends(r, 2, "unauthenticated")
    \/ /\ pc = "proxy" /\ handler[r] # Null /\ handler[r].at = "answered" /\ handler[r].ep = "proxy"
       /\ Ends(r, ProxyExitFor(handler[r].answer), handler[r].answer)
    \/ pc = "proxy" /\ handler[r] # Null /\ handler[r].at = "lost" /\ Ends(r, 1, "transport")
    \/ Fails(r)
    \/ pc = "body" /\ Is(r, "proxy", "stream") /\ Ends(r, 0, "response")
    \/ pc = "body" /\ Ends(r, 1, "truncated")

Reports(r) ==
    /\ run[r].pc = "report" /\ run'[r].pc = "done" /\ run'[r].named
    /\ run'[r].args = run[r].args /\ run'[r].key = run[r].key /\ run'[r].fresh = run[r].fresh
    /\ run'[r].response = run[r].response /\ run'[r].exit = run[r].exit /\ run'[r].why = run[r].why

Streams(r) ==
    /\ run[r].pc = "proxy" /\ Is(r, "proxy", "stream")
    /\ run'[r].pc = "body" /\ run'[r].response = handler[r].reply.status
    /\ ~(run[r].args.fail /\ handler[r].reply.status >= 400)
    /\ run'[r].args = run[r].args /\ run'[r].key = run[r].key /\ run'[r].fresh = run[r].fresh
    /\ run'[r].exit = run[r].exit /\ run'[r].why = run[r].why /\ run'[r].named = run[r].named

\* The run advances and its call is over, or its response begins.
Progress(r) ==
    /\ Alone(r) /\ handler' \in Handlers /\ RequestsKept /\ sent' = sent
    /\ \A h \in Handler \ {r} : handler'[h] = handler[h]
    /\ \/ handler'[r] = Null /\ (Begins(r) \/ Proceeds(r) \/ Stops(r) \/ Reports(r))
       \/ handler'[r] = handler[r] /\ Streams(r)

Base == TypeOK /\ RunsSound /\ HandlersSound

\* A run without a long call.
Calm(r) == handler' = handler /\ handler[r] = Null

LEMMA NoCall ==
    ASSUME Base, NEW r \in Run, run[r].pc \notin {"wait", "proxy", "body"}
    PROVE  handler[r] = Null
BY DEF Base, HandlersSound, HandlerSound, Handler

LEMMA CalmProgress ==
    ASSUME Base, NEW r \in Run, Calm(r), Alone(r), RequestsKept, sent' = sent,
           Begins(r) \/ Proceeds(r) \/ Stops(r) \/ Reports(r)
    PROVE  Progress(r)
BY DEF Base, TypeOK, Calm, Progress, Handlers

LEMMA SameRequests == ASSUME TypeOK, requests' = requests PROVE RequestsKept
BY DEF TypeOK, RequestsKept

LEMMA EarlyExit ==
    ASSUME Base, NEW r \in Run, run[r].pc \in Early, NEW code \in 1..5, NEW why \in Whys,
           Exit(r, code, why)
    PROVE  Alone(r) /\ Stops(r)
<1>1. code \in Nat
  OBVIOUS
<1>2. Alone(r) /\ Ends(r, code, why)
  BY <1>1, ExitRun DEF Base
<1> QED BY <1>2 DEF Stops

LEMMA StartProgress ==
    ASSUME Base, NEW r \in Run, NEW a \in {f[r] : f \in CommandLines}, Start(r, a)
    PROVE  Progress(r)
<1>1. a \in Args /\ run[r].pc = "idle" /\ requests' = requests /\ handler' = handler /\ sent' = sent
  BY DEF Start, At, Args, server
<1>2. Calm(r)
  BY <1>1, NoCall DEF Calm
<1>3. PICK x \in RunState : x = [IdleRun EXCEPT !.args = a] /\ ~x.fresh /\ x.response = Null
                            /\ ~x.named /\ x.args = a /\ x.why = "none"
  <2>1. [IdleRun EXCEPT !.args = a] \in RunState
    BY <1>1 DEF IdleRun, RunState, PC, Whys
  <2>2. LET x == [IdleRun EXCEPT !.args = a] IN
        ~x.fresh /\ x.response = Null /\ ~x.named /\ x.args = a /\ x.why = "none"
    BY DEF IdleRun
  <2> QED BY <2>1, <2>2
<1>4. CASE Usage(a) /\ (a.cmd = "curl" => Bearer(a))
  <2>1. PICK pc \in PC, key \in Keys :
          /\ pc = CASE a.cmd = "request" -> "create"
                    [] a.cmd = "store"   -> "store"
                    [] a.grant # Null    -> "check"
                    [] OTHER             -> "prepare"
          /\ key = KeyOf(r, a)
    BY <1>1, <1>4 DEF PC, Keys, Usable
  <2>2. Continue(r, [x EXCEPT !.key = key, !.pc = pc])
    BY <1>3, <1>4, <2>1 DEF Start
  <2>3. [x EXCEPT !.key = key, !.pc = pc] \in RunState
    BY DEF RunState
  <2>4. PICK y \in RunState : y = [x EXCEPT !.key = key, !.pc = pc]
    BY <2>3
  <2>5. y.pc = pc /\ y.key = key /\ y.args = a /\ ~y.fresh /\ y.response = Null /\ ~y.named
        /\ y.why = "none"
    BY <1>3, <2>4 DEF RunState
  <2>6. Alone(r) /\ run'[r] = y
    BY <2>2, <2>4, SetRun DEF Alone, Base
  <2>7. a.cmd \in {"curl", "request", "store"} /\ a \in Usable /\ (a.cmd # "curl" => a.grant = Null)
    BY <1>1, <1>4, CommandLinesAssumption DEF Usable
  <2>8. \/ pc = "create" /\ a.cmd = "request"
        \/ pc = "store" /\ a.cmd = "store"
        \/ pc = "check" /\ a.cmd = "curl" /\ a.grant # Null
        \/ pc = "prepare" /\ a.cmd = "curl" /\ a.grant = Null
    <3>1. CASE a.cmd = "request"
      BY <2>1, <2>7, <3>1
    <3>2. CASE a.cmd = "store"
      BY <2>1, <2>7, <3>2
    <3>3. CASE a.cmd = "curl" /\ a.grant # Null
      BY <2>1, <2>7, <3>3
    <3>4. CASE a.cmd = "curl" /\ a.grant = Null
      BY <2>1, <3>4
    <3> QED BY <2>7, <3>1, <3>2, <3>3, <3>4
  <2>9. Begins(r)
    BY <1>1, <2>1, <2>5, <2>6, <2>7, <2>8 DEF Begins
  <2> QED BY <1>1, <1>2, <2>6, <2>9, CalmProgress, SameRequests DEF Base
<1>5. CASE ~(Usage(a) /\ (a.cmd = "curl" => Bearer(a)))
  <2>1. Continue(r, Ended(x, 2, "usage"))
    BY <1>3, <1>5 DEF Start
  <2>2. PICK y \in RunState : y = Ended(x, 2, "usage") /\ EndOf(x, y, 2, "usage")
    BY EndedRun DEF Whys
  <2>3. Alone(r) /\ run'[r] = y
    BY <2>1, <2>2, SetRun DEF Alone, Base
  <2>4. Begins(r)
    BY <1>1, <1>3, <2>2, <2>3 DEF Begins, EndOf, Over
  <2> QED BY <1>1, <1>2, <2>3, <2>4, CalmProgress, SameRequests DEF Base
<1> QED BY <1>4, <1>5

LEMMA TargetHost ==
    ASSUME NEW a \in Usable, a.cmd = "curl"
    PROVE  LET t == ParseTarget(a.url) IN
           /\ t # Null /\ t.origin = a.url.host /\ t.path = a.url.path /\ t.query = a.url.query
           /\ t.query # Null => ~t.query.odd
<1>1. CurlUsage(a)
  BY DEF Usable, Usage
<1> QED BY <1>1 DEF CurlUsage, ParseTarget

LEMMA CoversOrigin ==
    ASSUME NEW r \in Run, Backed(r), run[r].args \in Usable, run[r].args.cmd = "curl",
           run[r].args.grant # Null,
           GrantCovers(requests[run[r].key].asked.limits, run[r].args)
    PROVE  Existing.origin = run[r].args.url.host
<1>1. requests[run[r].key].asked.limits = Existing
  BY DEF Backed, Expected, Issued
<1>2. Existing.origin = ParseTarget(run[r].args.url).origin
  BY <1>1 DEF GrantCovers
<1> QED BY <1>2, TargetHost

LEMMA CheckProgress ==
    ASSUME Base, NEW r \in Run, CheckGrant(r)
    PROVE  Progress(r)
<1>1. TypeOK /\ run[r].pc = "check" /\ requests' = requests /\ handler' = handler /\ sent' = sent
  BY DEF CheckGrant, At, server, Base
<1>2. Calm(r)
  BY <1>1, NoCall DEF Calm
<1>3. \/ Exit(r, 1, "transport") \/ Exit(r, 4, "grant-expired") \/ Exit(r, 1, "grant-exhausted")
      \/ Exit(r, 2, "not-found") \/ Exit(r, 2, "not-covered")
      \/ /\ Continue(r, [run[r] EXCEPT !.pc = "prepare"])
         /\ GrantCovers(requests[run[r].key].asked.limits, run[r].args)
  BY DEF CheckGrant
<1>4. Alone(r) /\ (Stops(r) \/ Proceeds(r))
  <2>1. CASE /\ Continue(r, [run[r] EXCEPT !.pc = "prepare"])
             /\ GrantCovers(requests[run[r].key].asked.limits, run[r].args)
    <3>1. Alone(r) /\ Goes(r, "prepare")
      BY <1>1, <2>1, PcRun DEF PC
    <3>2. Backed(r) /\ run[r].args \in Usable /\ run[r].args.cmd = "curl"
      BY <1>1 DEF Base, RunsSound, RunSound, Asking, Working
    <3>3. run[r].args.grant # Null => Existing.origin = run[r].args.url.host
      BY <2>1, <3>2, CoversOrigin
    <3> QED BY <1>1, <3>1, <3>3 DEF Proceeds
  <2>2. {"transport", "not-found", "grant-expired", "grant-exhausted", "not-covered"} \subseteq Whys
    BY DEF Whys, Codes
  <2>3. run[r].pc \in Early
    BY <1>1 DEF Early
  <2> QED BY <1>3, <2>1, <2>2, <2>3, EarlyExit
<1> QED BY <1>1, <1>2, <1>4, CalmProgress, SameRequests

LEMMA PrepareProgress ==
    ASSUME Base, NEW r \in Run, Prepare(r)
    PROVE  Progress(r)
<1>1. TypeOK /\ run[r].pc = "prepare" /\ requests' = requests /\ handler' = handler /\ sent' = sent
  BY DEF Prepare, At, server, Base
<1>2. Calm(r)
  BY <1>1, NoCall DEF Calm
<1>3. Alone(r) /\ (Stops(r) \/ Proceeds(r))
  <2>1. CASE Exit(r, 2, "usage")
    <3>1. run[r].pc \in Early /\ "usage" \in Whys
      BY <1>1 DEF Early, Whys
    <3> QED BY <2>1, <3>1, EarlyExit
  <2>2. CASE run[r].args.grant = Null /\ Continue(r, [run[r] EXCEPT !.pc = "create"])
    BY <1>1, <2>2, PcRun DEF PC, Proceeds
  <2>3. CASE run[r].args.grant # Null /\ Continue(r, [run[r] EXCEPT !.pc = "proxy"])
    BY <1>1, <2>3, PcRun DEF PC, Proceeds
  <2>4. CASE Continue(r, [run[r] EXCEPT !.pc = IF run[r].args.grant = Null THEN "create" ELSE "proxy"])
    BY <2>2, <2>3, <2>4
  <2> QED BY <2>1, <2>4 DEF Prepare
<1> QED BY <1>1, <1>2, <1>3, CalmProgress, SameRequests

LEMMA NoBearerProgress ==
    ASSUME Base, NEW r \in Run, NoBearer(r)
    PROVE  Progress(r)
<1>1. TypeOK /\ requests' = requests /\ Calm(r) /\ sent' = sent
      /\ run[r].pc \in {"check", "create", "wait", "read", "proxy", "store"}
      /\ "unauthenticated" \in Whys
  BY DEF NoBearer, server, Base, Calm, Whys, Codes
<1>2. Alone(r) /\ Ends(r, 2, "unauthenticated")
  BY <1>1, ExitRun DEF NoBearer
<1>3. Stops(r)
  BY <1>1, <1>2 DEF Stops, Early, Calm
<1> QED BY <1>1, <1>2, <1>3, CalmProgress, SameRequests

LEMMA CreateProgress ==
    ASSUME Base, NEW r \in Run, Create(r)
    PROVE  Progress(r)
<1>1. TypeOK /\ run[r].pc = "create" /\ handler' = handler /\ sent' = sent
  BY DEF Create, At, Base
<1>2. Calm(r)
  BY <1>1, NoCall DEF Calm
<1>3. run[r].args \in Usable /\ run[r].args.cmd # "store"
      /\ (run[r].args.cmd = "curl" => run[r].args.grant = Null)
  BY <1>1 DEF Base, RunsSound, RunSound, Working
<1>4. PICK o \in Creations(r) :
        /\ requests' = o.rows
        /\ \/ IF o.answer \in {"pending", "approved", "denied", "expired"}
              THEN Learn(r, o.answer) ELSE Exit(r, ExitFor(o.answer), o.answer)
           \/ Retry(r)
  BY DEF Create
<1>5. /\ RequestsKept /\ o.answer \in States \cup Codes
      /\ o.answer \in States =>
           /\ run[r].key \in DOMAIN requests'
           /\ requests'[run[r].key].asked = Expected(run[r].args)
  BY <1>1, <1>3, <1>4, CreatedRows
<1>6. run[r].pc \in Early
  BY <1>1 DEF Early
<1>7. Alone(r) /\ (Stops(r) \/ Proceeds(r))
  <2>1. CASE o.answer \in States /\ Learn(r, o.answer)
    <3>1. /\ Alone(r)
          /\ \/ Goes(r, "wait")
             \/ run[r].args.cmd = "curl" /\ Freshens(r)
             \/ run[r].args.cmd # "curl" /\ Goes(r, "read")
             \/ Ends(r, 3, "denied") \/ Ends(r, 4, "expired")
      BY <1>1, <2>1, LearnRun
    <3>2. Goes(r, "wait") \/ Goes(r, "read") \/ Freshens(r) => Backed(r)'
      BY <1>5, <2>1 DEF Backed, Goes, Freshens
    <3>3. "denied" \in Whys /\ "expired" \in Whys /\ 3 \in 1..5 /\ 4 \in 1..5
      BY DEF Whys
    <3>4. Ends(r, 3, "denied") \/ Ends(r, 4, "expired") => Stops(r)
      BY <1>6, <3>3 DEF Stops
    <3> QED BY <1>1, <3>1, <3>2, <3>4 DEF Proceeds
  <2>2. CASE o.answer \in Codes /\ Exit(r, ExitFor(o.answer), o.answer)
    <3>1. o.answer \in Whys /\ ExitFor(o.answer) \in 1..5
      BY <2>2, ExitCodes DEF Whys
    <3> QED BY <1>6, <2>2, <3>1, EarlyExit
  <2>3. CASE Retry(r)
    <3>1. Alone(r) /\ (Ends(r, 1, "transport") \/ Goes(r, run[r].pc))
      BY <1>1, <2>3, RetryRun
    <3>2. "transport" \in Whys /\ 1 \in 1..5
      BY DEF Whys
    <3> QED BY <1>1, <1>6, <3>1, <3>2 DEF Stops, Proceeds
  <2> QED BY <1>4, <1>5, <2>1, <2>2, <2>3 DEF States
<1> QED BY <1>1, <1>2, <1>5, <1>7, CalmProgress

LEMMA ReadProgress ==
    ASSUME Base, NEW r \in Run, ReadGrant(r)
    PROVE  Progress(r)
<1>1. TypeOK /\ run[r].pc = "read" /\ handler' = handler /\ sent' = sent
      /\ run[r].key \in DOMAIN requests
  <2>1. TypeOK /\ RunsSound /\ run[r].pc = "read" /\ handler' = handler /\ sent' = sent
    BY DEF ReadGrant, At, Base
  <2>2. Backed(r)
    BY <2>1 DEF RunsSound, Asking
  <2> QED BY <2>1, <2>2 DEF Backed
<1>2. Calm(r)
  BY <1>1, NoCall DEF Calm
<1>3. PICK o \in Reads(r) :
        /\ requests' = o.rows
        /\ \/ IF o.answer = "value" THEN Exit(r, 0, "value") ELSE Exit(r, ExitFor(o.answer), o.answer)
           \/ Retry(r)
  BY DEF ReadGrant
<1>4. RequestsKept /\ (o.answer = "value" \/ o.answer \in Codes)
  BY <1>1, <1>3, ReadRows
<1>5. Alone(r) /\ (Stops(r) \/ Proceeds(r))
  <2>1. CASE Exit(r, 0, "value")
    BY <1>1, <2>1, ExitRun DEF Stops, Whys
  <2>2. CASE o.answer \in Codes /\ Exit(r, ExitFor(o.answer), o.answer)
    <3>1. o.answer \in Whys /\ ExitFor(o.answer) \in 1..5 /\ run[r].pc \in Early
      BY <1>1, <2>2, ExitCodes DEF Whys, Early
    <3> QED BY <2>2, <3>1, EarlyExit
  <2>3. CASE Retry(r)
    <3>1. Alone(r) /\ (Ends(r, 1, "transport") \/ Goes(r, run[r].pc))
      BY <1>1, <2>3, RetryRun
    <3>2. "transport" \in Whys /\ 1 \in 1..5 /\ run[r].pc \in Early
      BY <1>1 DEF Whys, Early
    <3> QED BY <1>1, <3>1, <3>2 DEF Stops, Proceeds
  <2> QED BY <1>3, <1>4, <2>1, <2>2, <2>3
<1> QED BY <1>1, <1>2, <1>4, <1>5, CalmProgress

LEMMA StoreProgress ==
    ASSUME Base, NEW r \in Run, Store(r)
    PROVE  Progress(r)
<1>1. TypeOK /\ run[r].pc = "store" /\ handler' = handler /\ sent' = sent /\ requests' = requests
  BY DEF Store, At, Base
<1>2. Calm(r)
  BY <1>1, NoCall DEF Calm
<1>3. Alone(r) /\ Stops(r)
  <2>1. CASE stored' = r /\ Exit(r, 0, "stored")
    BY <1>1, <2>1, ExitRun DEF Stops, Whys
  <2>2. run[r].pc \in Early
        /\ {"transport", "secret-exists", "policy-denied", "too-many-deposits"} \subseteq Whys
    BY <1>1 DEF Early, Whys, Codes
  <2>3. CASE Exit(r, 1, "transport") \/ Exit(r, 1, "secret-exists")
    BY <2>2, <2>3, EarlyExit
  <2>4. ASSUME NEW code \in {"policy-denied", "too-many-deposits", "transport"},
               Exit(r, ExitFor(code), code)
        PROVE  Alone(r) /\ Stops(r)
    BY <2>2, <2>4, ExitCodes, EarlyExit
  <2> QED BY <2>1, <2>3, <2>4 DEF Store
<1> QED BY <1>1, <1>2, <1>3, CalmProgress, SameRequests

LEMMA ReportProgress ==
    ASSUME Base, NEW r \in Run, Report(r)
    PROVE  Progress(r)
<1>1. TypeOK /\ run[r].pc = "report" /\ handler' = handler /\ sent' = sent /\ requests' = requests
  BY DEF Report, At, Base, server
<1>2. Calm(r)
  BY <1>1, NoCall DEF Calm
<1>3. [run[r] EXCEPT !.pc = "done", !.named = TRUE] \in RunState
  BY <1>1, RunFields DEF RunState, PC
<1>4. PICK y \in RunState : y = [run[r] EXCEPT !.pc = "done", !.named = TRUE]
  BY <1>3
<1>5. /\ y.pc = "done" /\ y.named /\ y.exit = run[r].exit /\ y.why = run[r].why
      /\ y.args = run[r].args /\ y.key = run[r].key /\ y.fresh = run[r].fresh
      /\ y.response = run[r].response
  BY <1>1, <1>4, RunFields DEF RunState
<1>6. Alone(r) /\ Reports(r)
  BY <1>1, <1>4, <1>5, SetRun DEF Report, Alone, Reports
<1> QED BY <1>1, <1>2, <1>6, CalmProgress, SameRequests

LEMMA HandlerFields ==
    ASSUME TypeOK, NEW h \in Handler, handler[h] # Null
    PROVE  /\ handler[h] \in HandlerState
           /\ handler[h].ep \in {"wait", "proxy", "none"} /\ handler[h].run \in Run
           /\ handler[h].at \in {"enter", "check", "asleep", "woken", "checked", "counted", "sent",
                                 "arrived", "stream", "answered", "lost"}
           /\ handler[h].seen \in States \cup {"none"} /\ handler[h].inject \in Injections \cup {Null}
           /\ handler[h].answer \in Codes \cup States \cup {"none"}
           /\ handler[h].reply \in UpstreamReply \cup {Null}
           /\ handler[h].arrived \in BOOLEAN
<1>1. handler[h] \in HandlerState
  BY DEF TypeOK
<1> QED BY <1>1 DEF HandlerState

\* The run's call is over.
LEMMA OverProgress ==
    ASSUME Base, NEW r \in Run, Step(r, Null), Alone(r), requests' = requests, sent' = sent,
           Begins(r) \/ Proceeds(r) \/ Stops(r) \/ Reports(r)
    PROVE  Progress(r)
<1>1. handler' \in Handlers /\ handler'[r] = Null
      /\ \A g \in Handler \ {r} : handler'[g] = handler[g]
  BY SetHandler DEF Base, Handler
<1>2. RequestsKept
  BY SameRequests DEF Base
<1> QED BY <1>1, <1>2 DEF Progress

LEMMA GiveUpProgress ==
    ASSUME Base, NEW r \in Run, GiveUpWaiting(r)
    PROVE  Progress(r)
<1>1. TypeOK /\ requests' = requests /\ Calm(r) /\ sent' = sent /\ run[r].pc \in Early
      /\ "timeout" \in Whys
  BY DEF GiveUpWaiting, server, Base, Calm, Whys, Early, At
<1>2. Alone(r) /\ Stops(r)
  BY <1>1, EarlyExit DEF GiveUpWaiting
<1> QED BY <1>1, <1>2, CalmProgress, SameRequests

LEMMA WaitProgress ==
    ASSUME Base, NEW r \in Run, WaitAnswered(r)
    PROVE  Progress(r)
<1>1. TypeOK /\ run[r].pc = "wait" /\ handler[r] # Null /\ requests' = requests /\ sent' = sent
      /\ Step(r, Null) /\ run[r].pc \in Early /\ Backed(r)
  BY DEF WaitAnswered, At, Base, Early, RunsSound, Asking
<1>2. CASE handler[r].answer \in States /\ Learn(r, handler[r].answer)
  <2>1. /\ Alone(r)
        /\ \/ Goes(r, "wait")
           \/ run[r].args.cmd = "curl" /\ Freshens(r)
           \/ run[r].args.cmd # "curl" /\ Goes(r, "read")
           \/ Ends(r, 3, "denied") \/ Ends(r, 4, "expired")
    BY <1>1, <1>2, LearnRun
  <2>2. Goes(r, "read") \/ Freshens(r) => Backed(r)'
    BY <1>1 DEF Backed, Goes, Freshens
  <2>3. "denied" \in Whys /\ "expired" \in Whys /\ 3 \in 1..5 /\ 4 \in 1..5
    BY DEF Whys
  <2>4. Ends(r, 3, "denied") \/ Ends(r, 4, "expired") => Stops(r)
    BY <1>1, <2>3 DEF Stops
  <2>5. Stops(r) \/ Proceeds(r)
    BY <1>1, <2>1, <2>2, <2>4 DEF Proceeds
  <2> QED BY <1>1, <2>1, <2>5, OverProgress
<1>3. CASE Exit(r, 1, "transport")
  <2>1. Alone(r) /\ Stops(r)
    BY <1>1, <1>3, EarlyExit DEF Whys
  <2> QED BY <1>1, <2>1, OverProgress
<1>4. CASE Continue(r, [run[r] EXCEPT !.errors = @ + 1])
  <2>1. PICK pc \in PC, tries \in Nat, errors \in Nat :
          pc = run[r].pc /\ tries = run[r].tries /\ errors = run[r].errors + 1
    BY <1>1, RunFields
  <2>2. [run[r] EXCEPT !.errors = @ + 1]
          = [run[r] EXCEPT !.pc = pc, !.tries = tries, !.errors = errors]
    BY <1>1, <2>1, RunFields DEF RunState
  <2>3. Continue(r, [run[r] EXCEPT !.pc = pc, !.tries = tries, !.errors = errors])
    BY <1>4, <2>2
  <2>4. Alone(r) /\ Goes(r, pc)
    BY <1>1, <2>3, GoesRun
  <2>5. Proceeds(r)
    BY <1>1, <2>1, <2>4 DEF Proceeds
  <2> QED BY <1>1, <2>4, <2>5, OverProgress
<1> QED BY <1>2, <1>3, <1>4 DEF WaitAnswered, States

LEMMA AnsweredProgress ==
    ASSUME Base, NEW r \in Run, ProxyAnswered(r)
    PROVE  Progress(r)
<1>1. TypeOK /\ HandlersSound /\ run[r].pc = "proxy" /\ handler[r] # Null /\ requests' = requests
      /\ sent' = sent /\ Step(r, Null) /\ r \in Handler /\ handler[r].at \in {"answered", "lost"}
  BY DEF ProxyAnswered, At, Base, Handler
<1>2. CASE handler[r].at = "lost" /\ Exit(r, 1, "transport")
  <2>1. Alone(r) /\ Ends(r, 1, "transport")
    BY <1>1, <1>2, ExitRun DEF Whys
  <2>2. Stops(r)
    BY <1>1, <1>2, <2>1 DEF Stops
  <2> QED BY <1>1, <2>1, <2>2, OverProgress
<1>3. CASE handler[r].at = "answered" /\ Exit(r, ProxyExitFor(handler[r].answer), handler[r].answer)
  <2>1. handler[r].ep = "proxy"
    BY <1>1, <1>3, HandlerFields DEF HandlersSound, HandlerSound
  <2>2. handler[r].answer \in Codes
    BY <1>1, <1>3, <2>1 DEF HandlersSound, HandlerSound
  <2>3. PICK code \in Nat, why \in Whys : code = ProxyExitFor(handler[r].answer) /\ why = handler[r].answer
    <3>1. ProxyExitFor(handler[r].answer) \in 1..5
      BY ExitCodes
    <3>2. handler[r].answer \in Whys /\ ProxyExitFor(handler[r].answer) \in Nat
      BY <2>2, <3>1 DEF Whys
    <3> QED BY <3>2
  <2>4. Alone(r) /\ Ends(r, code, why)
    BY <1>1, <1>3, <2>3, ExitRun
  <2>5. Stops(r)
    BY <1>1, <1>3, <2>1, <2>3, <2>4 DEF Stops
  <2> QED BY <1>1, <2>4, <2>5, OverProgress
<1> QED BY <1>1, <1>2, <1>3 DEF ProxyAnswered

LEMMA RespondsProgress ==
    ASSUME Base, NEW r \in Run, ProxyResponds(r)
    PROVE  Progress(r)
<1>1. TypeOK /\ HandlersSound /\ run[r].pc = "proxy" /\ Is(r, "proxy", "stream") /\ r \in Handler
      /\ handler[r] # Null /\ handler[r].at = "stream" /\ requests' = requests /\ sent' = sent
  BY DEF ProxyResponds, At, Base, Handler, Is
<1>2. PICK status \in Nat : status = handler[r].reply.status
  <2>1. handler[r].reply \in UpstreamReply
    BY <1>1, HandlerFields DEF HandlersSound, HandlerSound
  <2> QED BY <2>1 DEF UpstreamReply
<1>3. ~handler[r].reply.marked
  BY <1>1 DEF HandlersSound, HandlerSound
<1>4. PICK got \in RunState : got = [run[r] EXCEPT !.response = status]
  <2>1. [run[r] EXCEPT !.response = status] \in RunState
    BY <1>1, RunFields DEF RunState
  <2> QED BY <2>1
<1>5. CASE run[r].args.fail /\ handler[r].reply.status >= 400
  <2>1. Continue(r, Ended(got, 1, "failed-response")) /\ handler' = [handler EXCEPT ![r] = Null]
    BY <1>2, <1>3, <1>4, <1>5 DEF ProxyResponds
  <2>2. PICK y \in RunState : y = Ended(got, 1, "failed-response")
                              /\ EndOf(got, y, 1, "failed-response")
    BY EndedRun DEF Whys
  <2>3. Alone(r) /\ run'[r] = y
    BY <1>1, <2>1, <2>2, SetRun DEF Alone
  <2>4. EndOf([run[r] EXCEPT !.response = handler[r].reply.status], run'[r], 1, "failed-response")
    BY <1>2, <1>4, <2>2, <2>3
  <2>5. Stops(r)
    BY <1>1, <1>5, <2>4 DEF Stops, Fails
  <2> QED BY <1>1, <2>1, <2>3, <2>5, OverProgress DEF Step
<1>6. CASE ~(run[r].args.fail /\ handler[r].reply.status >= 400)
  <2>1. Continue(r, [got EXCEPT !.pc = "body"]) /\ handler' = handler
    BY <1>2, <1>3, <1>4, <1>6 DEF ProxyResponds
  <2>2. [got EXCEPT !.pc = "body"] \in RunState
    BY DEF RunState, PC
  <2>3. PICK y \in RunState : y = [got EXCEPT !.pc = "body"]
    BY <2>2
  <2>4. /\ y.pc = "body" /\ y.response = status
        /\ y.args = run[r].args /\ y.key = run[r].key /\ y.fresh = run[r].fresh
        /\ y.exit = run[r].exit /\ y.why = run[r].why /\ y.named = run[r].named
    <3>1. /\ y.pc = "body" /\ y.response = got.response
          /\ y.args = got.args /\ y.key = got.key /\ y.fresh = got.fresh
          /\ y.exit = got.exit /\ y.why = got.why /\ y.named = got.named
      BY <2>3 DEF RunState
    <3>2. /\ got.response = status
          /\ got.args = run[r].args /\ got.key = run[r].key /\ got.fresh = run[r].fresh
          /\ got.exit = run[r].exit /\ got.why = run[r].why /\ got.named = run[r].named
      BY <1>1, <1>4, RunFields DEF RunState
    <3> QED BY <3>1, <3>2
  <2>5. Alone(r) /\ run'[r] = y
    BY <1>1, <2>1, <2>3, SetRun DEF Alone
  <2>6. Streams(r)
    BY <1>1, <1>2, <1>6, <2>4, <2>5 DEF Streams
  <2>7. RequestsKept /\ handler' \in Handlers
    BY <1>1, <2>1, SameRequests DEF TypeOK, Handlers
  <2> QED BY <1>1, <2>1, <2>5, <2>6, <2>7 DEF Progress
<1> QED BY <1>5, <1>6

LEMMA BodyProgress ==
    ASSUME Base, NEW r \in Run, BodyEnds(r) \/ BodyBreaks(r)
    PROVE  Progress(r)
<1>1. TypeOK /\ run[r].pc = "body" /\ requests' = requests /\ sent' = sent /\ Step(r, Null)
  BY DEF BodyEnds, BodyBreaks, At, Base
<1>2. CASE BodyEnds(r)
  <2>1. Alone(r) /\ Ends(r, 0, "response")
    BY <1>1, <1>2, ExitRun DEF Whys, BodyEnds
  <2>2. Stops(r)
    BY <1>1, <1>2, <2>1 DEF Stops, BodyEnds
  <2> QED BY <1>1, <2>1, <2>2, OverProgress
<1>3. CASE BodyBreaks(r)
  <2>1. Alone(r) /\ Ends(r, 1, "truncated")
    BY <1>1, <1>3, ExitRun DEF Whys, BodyBreaks
  <2>2. Stops(r)
    BY <1>1, <2>1 DEF Stops
  <2> QED BY <1>1, <2>1, <2>2, OverProgress
<1> QED BY <1>2, <1>3

-----------------------------------------------------------------------------
(* What everything else can do to a handler.                               *)

Answers(h) ==
    LET x == handler[h]
        y == handler'[h]
    IN
    /\ h \in Run /\ x # Null /\ y # Null
    /\ x.ep \in {"wait", "proxy"} /\ x.at \notin {"answered", "arrived", "stream"}
    /\ y.ep = x.ep /\ y.run = x.run /\ y.at = "answered" /\ y.arrived = x.arrived
    /\ sent' = sent
    /\ x.ep = "proxy" =>
         /\ y.answer \in Codes
         /\ x.at = "sent" => y.answer \in {"upstream-unreachable", "upstream-timeout"}
         /\ y.answer \in Refusals =>
              \E inject \in Injections : y.answer = Judged(Row(h).asked.limits, Call(h), inject)

Advances(h) ==
    LET x == handler[h]
        y == handler'[h]
        moves(ep, from, to) == x.ep = ep /\ x.at = from /\ y.at = to /\ y.arrived = x.arrived
    IN
    /\ x # Null /\ y # Null
    /\ y.ep = x.ep /\ y.run = x.run /\ y.answer = x.answer
    /\ \/ moves("wait", "enter", "check") \/ moves("wait", "check", "asleep")
       \/ moves("wait", "asleep", "woken") \/ moves("wait", "woken", "check")
       \/ moves("proxy", "enter", "checked") /\ y.inject \in Injections
       \/ moves("proxy", "checked", "counted") /\ y.inject = x.inject
       \/ moves("proxy", "counted", "sent") /\ sent'[x.run] # Null
       \/ x.ep = "proxy" /\ x.at = "sent" /\ y.at = "arrived" /\ y.reply # Null
       \/ moves("proxy", "arrived", "stream") /\ y.reply # Null /\ ~y.reply.marked

\* The late handler takes over from r.
TakesOver(r) ==
    LET x == handler[r]
        y == handler'[Late]
    IN
    /\ handler[Late] = Null /\ x # Null /\ y # Null /\ x.at \notin {"lost", "answered"}
    /\ handler'[r] = Hang(r)
    /\ y.ep = x.ep /\ y.run = x.run /\ y.answer = x.answer /\ y.inject = x.inject
    /\ x.ep = "wait" => y.at \in {"enter", "check"} /\ y.arrived = x.arrived
    /\ x.ep = "proxy" => y.at = (IF x.at \in {"arrived", "stream"} THEN "sent" ELSE x.at) /\ ~y.arrived

HandlerChange(h) ==
    \/ handler'[h] = handler[h]
    \/ h = Late /\ handler'[h] = Null
    \/ h \in Run /\ handler[h] # Null /\ handler'[h] = Hang(h)
    \/ h = Late /\ \E r \in Run : TakesOver(r)
    \/ /\ h \in Run /\ handler[h] = Null
       /\ \E ep \in {"wait", "proxy"} : run[h].pc = ep /\ handler'[h] = NewHandler(ep, h)
    \/ Answers(h)
    \/ Advances(h)

\* A call that leaves, and the handler that sends it.
Leaves(r) ==
    \E h \in Handler :
        /\ Is(h, "proxy", "counted") /\ handler[h].run = r
        /\ handler'[h] # Null /\ handler'[h].at = "sent"
        /\ \A g \in Handler \ {h} : handler'[g] = handler[g]

Departs(r) == sent'[r] # Null /\ Leaves(r) /\ Carried(run[r].args, sent'[r])

SentChange ==
    /\ sent' \in [Run -> CallsOut \cup {Null}]
    /\ \A r \in Run : sent'[r] = sent[r] \/ Departs(r)

\* A step of the server, the operator or the network.
Served ==
    /\ run' = run /\ RequestsKept /\ handler' \in Handlers
    /\ \A h \in Handler : HandlerChange(h)
    /\ SentChange

LEMMA NewHandlerType ==
    ASSUME NEW r \in Run, NEW ep \in {"wait", "proxy", "none"}
    PROVE  LET x == NewHandler(ep, r) IN
           /\ x \in HandlerState
           /\ x.ep = ep /\ x.run = r /\ x.at = "enter" /\ x.answer = "none" /\ ~x.arrived
BY DEF NewHandler, HandlerState

LEMMA HangType ==
    ASSUME NEW r \in Run
    PROVE  /\ Hang(r) \in HandlerState
           /\ Hang(r).ep = "none" /\ Hang(r).run = r /\ Hang(r).at = "lost"
           /\ Hang(r).answer = "none" /\ ~Hang(r).arrived
BY DEF Hang, NewHandler, HandlerState

LEMMA NotNull == Null \notin HandlerState
BY NullAssumption

LEMMA ReplyNotNull == Null \notin UpstreamReply
BY NullAssumption

\* A step of one handler that sends nothing.
LEMMA OneServed ==
    ASSUME Base, NEW h \in Handler, NEW x \in HandlerState \cup {Null}, Step(h, x),
           handler'[h] = x => HandlerChange(h), run' = run, RequestsKept, sent' = sent
    PROVE  Served
<1>1. handler' \in Handlers /\ handler'[h] = x /\ \A g \in Handler \ {h} : handler'[g] = handler[g]
  BY SetHandler DEF Base
<1>2. \A g \in Handler : HandlerChange(g)
  BY <1>1 DEF HandlerChange
<1>3. SentChange
  BY DEF SentChange, Base, TypeOK
<1> QED BY <1>1, <1>2, <1>3 DEF Served

\* The handler answers: the late one is gone, another keeps the answer.
LEMMA ReplyServed ==
    ASSUME Base, NEW h \in Handler, handler[h] # Null,
           NEW code \in Codes \cup States \cup {"none"}, Reply(h, code),
           handler[h].ep \in {"wait", "proxy"}, handler[h].at \notin {"answered", "arrived", "stream"},
           handler[h].ep = "proxy" =>
             /\ code \in Codes
             /\ handler[h].at = "sent" => code \in {"upstream-unreachable", "upstream-timeout"}
             /\ code \in Refusals =>
                  \E inject \in Injections : code = Judged(Row(h).asked.limits, Call(h), inject),
           run' = run, RequestsKept, sent' = sent
    PROVE  Served
<1>1. TypeOK
  BY DEF Base
<1>2. CASE h = Late
  <2>1. Step(h, Null)
    BY <1>2 DEF Reply, Step
  <2>2. handler'[h] = Null => HandlerChange(h)
    BY <1>2 DEF HandlerChange
  <2> QED BY <2>1, <2>2, OneServed
<1>3. CASE h # Late
  <2>1. h \in Run
    BY <1>3 DEF Handler
  <2>2. [handler[h] EXCEPT !.at = "answered", !.answer = code, !.seen = "none", !.inject = Null,
                           !.reply = Null] \in HandlerState
    BY <1>1, HandlerFields DEF HandlerState
  <2>3. PICK y \in HandlerState :
          y = [handler[h] EXCEPT !.at = "answered", !.answer = code, !.seen = "none",
                                 !.inject = Null, !.reply = Null]
    BY <2>2
  <2>4. y.ep = handler[h].ep /\ y.run = handler[h].run /\ y.at = "answered"
        /\ y.arrived = handler[h].arrived /\ y.answer = code
    BY <1>1, <2>3, HandlerFields DEF HandlerState
  <2>5. Step(h, y)
    BY <1>3, <2>3 DEF Reply, Step
  <2>6. y # Null
    BY NotNull
  <2>7. handler'[h] = y => HandlerChange(h)
    BY <2>1, <2>4, <2>6 DEF HandlerChange, Answers
  <2> QED BY <2>5, <2>7, OneServed
<1> QED BY <1>2, <1>3

LEMMA HandlerBacked ==
    ASSUME Base, NEW h \in Handler, handler[h] # Null
    PROVE  /\ handler[h].run \in Run /\ Backed(handler[h].run)
           /\ run[handler[h].run].key \in DOMAIN requests
           /\ Row(h) \in RequestRow /\ Row(h).state \in States
           /\ Row(h).asked = Expected(run[handler[h].run].args)
           /\ run[handler[h].run].args \in Usable
<1>1. TypeOK /\ handler[h].run \in Run
  BY HandlerFields DEF Base
<1>2. Backed(handler[h].run) /\ run[handler[h].run].args \in Usable
  BY DEF Base, HandlersSound, HandlerSound
<1>3. run[handler[h].run].key \in DOMAIN requests
      /\ requests[run[handler[h].run].key].asked = Expected(run[handler[h].run].args)
  BY <1>2 DEF Backed
<1>4. Row(h) = requests[run[handler[h].run].key]
  BY DEF Row
<1> QED BY <1>1, <1>2, <1>3, <1>4, RowFields

\* A handler moves on by one field.
LEMMA AtHandler ==
    ASSUME TypeOK, NEW h \in Handler, handler[h] # Null,
           NEW at \in {"check", "asleep", "woken", "counted"}
    PROVE  LET y == [handler[h] EXCEPT !.at = at] IN
           /\ y \in HandlerState /\ y # Null
           /\ y.ep = handler[h].ep /\ y.run = handler[h].run /\ y.answer = handler[h].answer
           /\ y.at = at /\ y.arrived = handler[h].arrived /\ y.inject = handler[h].inject
<1>1. [handler[h] EXCEPT !.at = at] \in HandlerState
  BY HandlerFields DEF HandlerState
<1>2. PICK y \in HandlerState : y = [handler[h] EXCEPT !.at = at]
  BY <1>1
<1>3. /\ y.ep = handler[h].ep /\ y.run = handler[h].run /\ y.answer = handler[h].answer
      /\ y.at = at /\ y.arrived = handler[h].arrived /\ y.inject = handler[h].inject
  BY <1>2, HandlerFields DEF HandlerState
<1>4. y # Null
  BY NotNull
<1> QED BY <1>2, <1>3, <1>4

LEMMA SeenHandler ==
    ASSUME TypeOK, NEW h \in Handler, handler[h] # Null, NEW state \in States
    PROVE  LET y == [handler[h] EXCEPT !.at = "check", !.seen = state] IN
           /\ y \in HandlerState /\ y # Null
           /\ y.ep = handler[h].ep /\ y.run = handler[h].run /\ y.answer = handler[h].answer
           /\ y.at = "check" /\ y.arrived = handler[h].arrived
<1>1. [handler[h] EXCEPT !.at = "check", !.seen = state] \in HandlerState
  BY HandlerFields DEF HandlerState
<1>2. PICK y \in HandlerState : y = [handler[h] EXCEPT !.at = "check", !.seen = state]
  BY <1>1
<1>3. /\ y.ep = handler[h].ep /\ y.run = handler[h].run /\ y.answer = handler[h].answer
      /\ y.at = "check" /\ y.arrived = handler[h].arrived
  BY <1>2, HandlerFields DEF HandlerState
<1>4. y # Null
  BY NotNull
<1> QED BY <1>2, <1>3, <1>4

LEMMA CheckedHandler ==
    ASSUME TypeOK, NEW h \in Handler, handler[h] # Null, NEW inject \in Injections
    PROVE  LET y == [handler[h] EXCEPT !.at = "checked", !.inject = inject] IN
           /\ y \in HandlerState /\ y # Null
           /\ y.ep = handler[h].ep /\ y.run = handler[h].run /\ y.answer = handler[h].answer
           /\ y.at = "checked" /\ y.inject = inject /\ y.arrived = handler[h].arrived
<1>1. [handler[h] EXCEPT !.at = "checked", !.inject = inject] \in HandlerState
  BY HandlerFields DEF HandlerState
<1>2. PICK y \in HandlerState : y = [handler[h] EXCEPT !.at = "checked", !.inject = inject]
  BY <1>1
<1>3. /\ y.ep = handler[h].ep /\ y.run = handler[h].run /\ y.answer = handler[h].answer
      /\ y.at = "checked" /\ y.inject = inject /\ y.arrived = handler[h].arrived
  BY <1>2, HandlerFields DEF HandlerState
<1>4. y # Null
  BY NotNull
<1> QED BY <1>2, <1>3, <1>4

LEMMA SentHandler ==
    ASSUME TypeOK, NEW h \in Handler, handler[h] # Null
    PROVE  LET y == [handler[h] EXCEPT !.at = "sent", !.inject = Null] IN
           /\ y \in HandlerState /\ y # Null
           /\ y.ep = handler[h].ep /\ y.run = handler[h].run /\ y.answer = handler[h].answer
           /\ y.at = "sent" /\ y.arrived = handler[h].arrived
<1>1. [handler[h] EXCEPT !.at = "sent", !.inject = Null] \in HandlerState
  BY HandlerFields DEF HandlerState
<1>2. PICK y \in HandlerState : y = [handler[h] EXCEPT !.at = "sent", !.inject = Null]
  BY <1>1
<1>3. /\ y.ep = handler[h].ep /\ y.run = handler[h].run /\ y.answer = handler[h].answer
      /\ y.at = "sent" /\ y.arrived = handler[h].arrived
  BY <1>2, HandlerFields DEF HandlerState
<1>4. y # Null
  BY NotNull
<1> QED BY <1>2, <1>3, <1>4

LEMMA ArrivedType ==
    ASSUME NEW x \in HandlerState, NEW reply \in UpstreamReply
    PROVE  [x EXCEPT !.at = "arrived", !.arrived = TRUE, !.reply = reply] \in HandlerState
BY DEF HandlerState

LEMMA ArrivedHandler ==
    ASSUME TypeOK, NEW h \in Handler, UpstreamAnswers(h)
    PROVE  /\ handler[h] # Null /\ handler[h].ep = "proxy" /\ handler[h].at = "sent"
           /\ \E y \in HandlerState :
                /\ Step(h, y) /\ y # Null
                /\ y.ep = handler[h].ep /\ y.run = handler[h].run /\ y.answer = handler[h].answer
                /\ y.at = "arrived" /\ y.reply # Null
<1>1. handler[h] # Null /\ handler[h].ep = "proxy" /\ handler[h].at = "sent"
  BY DEF UpstreamAnswers, Is
<1>2. PICK status \in {200, 403}, marked \in BOOLEAN :
        Step(h, [handler[h] EXCEPT !.at = "arrived", !.arrived = TRUE,
                                   !.reply = [status |-> status, marked |-> marked]])
  BY DEF UpstreamAnswers
<1>3. PICK reply \in UpstreamReply : reply = [status |-> status, marked |-> marked]
  <2>1. [status |-> status, marked |-> marked] \in UpstreamReply
    BY DEF UpstreamReply
  <2> QED BY <2>1
<1>4. [handler[h] EXCEPT !.at = "arrived", !.arrived = TRUE, !.reply = reply] \in HandlerState
  BY <1>1, HandlerFields, ArrivedType
<1>5. PICK y \in HandlerState :
        y = [handler[h] EXCEPT !.at = "arrived", !.arrived = TRUE, !.reply = reply]
  BY <1>4
<1>6. /\ y.ep = handler[h].ep /\ y.run = handler[h].run /\ y.answer = handler[h].answer
      /\ y.at = "arrived" /\ y.reply = reply
  BY <1>1, <1>5, HandlerFields DEF HandlerState
<1>7. y # Null /\ reply # Null
  BY NotNull, ReplyNotNull
<1>8. Step(h, y)
  BY <1>2, <1>3, <1>5
<1> QED BY <1>1, <1>6, <1>7, <1>8

LEMMA StreamHandler ==
    ASSUME TypeOK, NEW h \in Handler, handler[h] # Null, NEW reply \in UpstreamReply
    PROVE  LET y == [handler[h] EXCEPT !.at = "stream", !.reply = reply] IN
           /\ y \in HandlerState /\ y # Null
           /\ y.ep = handler[h].ep /\ y.run = handler[h].run /\ y.answer = handler[h].answer
           /\ y.at = "stream" /\ y.reply = reply /\ y.arrived = handler[h].arrived
<1>1. [handler[h] EXCEPT !.at = "stream", !.reply = reply] \in HandlerState
  BY HandlerFields DEF HandlerState
<1>2. PICK y \in HandlerState : y = [handler[h] EXCEPT !.at = "stream", !.reply = reply]
  BY <1>1
<1>3. /\ y.ep = handler[h].ep /\ y.run = handler[h].run /\ y.answer = handler[h].answer
      /\ y.at = "stream" /\ y.reply = reply /\ y.arrived = handler[h].arrived
  BY <1>2, HandlerFields DEF HandlerState
<1>4. y # Null
  BY NotNull
<1> QED BY <1>2, <1>3, <1>4

LEMMA WaitServed ==
    ASSUME Base, NEW h \in Handler, WaitEnter(h) \/ WaitCheck(h) \/ Poll(h) \/ WaitRead(h)
    PROVE  Served
<1>1. /\ TypeOK /\ run' = run /\ sent' = sent /\ RequestsKept
      /\ handler[h] # Null /\ handler[h].ep = "wait"
      /\ handler[h].at \in {"enter", "check", "asleep", "woken"}
  BY SameRequests DEF Base, WaitEnter, WaitCheck, Poll, WaitRead, Is
<1>2. ASSUME NEW code \in Codes \cup States \cup {"none"}, Reply(h, code) PROVE Served
  BY <1>1, <1>2, ReplyServed
<1>3. ASSUME NEW at \in {"asleep", "woken"}, Step(h, [handler[h] EXCEPT !.at = at]),
             (handler[h].at = "check" /\ at = "asleep") \/ (handler[h].at = "asleep" /\ at = "woken")
      PROVE  Served
  <2>1. PICK y \in HandlerState :
          /\ y = [handler[h] EXCEPT !.at = at] /\ y # Null
          /\ y.ep = handler[h].ep /\ y.run = handler[h].run /\ y.answer = handler[h].answer
          /\ y.at = at /\ y.arrived = handler[h].arrived
    BY <1>1, AtHandler
  <2>2. Step(h, y)
    BY <1>3, <2>1
  <2>3. handler'[h] = y => HandlerChange(h)
    BY <1>1, <1>3, <2>1 DEF HandlerChange, Advances
  <2> QED BY <1>1, <2>2, <2>3, OneServed
<1>4. ASSUME Step(h, [handler[h] EXCEPT !.at = "check", !.seen = Row(h).state]),
             handler[h].at \in {"enter", "woken"}
      PROVE  Served
  <2>1. PICK state \in States : state = Row(h).state
    BY <1>1, HandlerBacked
  <2>2. PICK y \in HandlerState :
          /\ y = [handler[h] EXCEPT !.at = "check", !.seen = state] /\ y # Null
          /\ y.ep = handler[h].ep /\ y.run = handler[h].run /\ y.answer = handler[h].answer
          /\ y.at = "check" /\ y.arrived = handler[h].arrived
    BY <1>1, SeenHandler
  <2>3. Step(h, y)
    BY <1>4, <2>1, <2>2
  <2>4. handler'[h] = y => HandlerChange(h)
    BY <1>1, <1>4, <2>2 DEF HandlerChange, Advances
  <2> QED BY <1>1, <2>3, <2>4, OneServed
<1>5. {"too-many-waits", "internal"} \subseteq Codes
  BY DEF Codes
<1>6. handler[h].seen \in States \cup {"none"}
  BY <1>1, HandlerFields
<1> QED BY <1>2, <1>3, <1>4, <1>5, <1>6 DEF WaitEnter, WaitCheck, Poll, WaitRead, Is

LEMMA Verdicts ==
    ASSUME NEW c, NEW call, NEW inject
    PROVE  /\ Judged(c, call, inject) \in {"ok", "policy-denied", "invalid-path",
                                           "bad-credential-encoding", "invalid-request"}
           /\ Injectable(call, inject) \in {"ok", "bad-credential-encoding", "invalid-request"}
<1>1. Judged(c, call, inject) \in {"ok", "policy-denied", "invalid-path",
                                   "bad-credential-encoding", "invalid-request"}
  BY DEF Judged
<1>2. Injectable(call, inject) \in {"ok", "bad-credential-encoding", "invalid-request"}
  BY DEF Injectable
<1> QED BY <1>1, <1>2

LEMMA EnterServed ==
    ASSUME Base, NEW h \in Handler, ProxyEnter(h)
    PROVE  Served
<1>1. /\ TypeOK /\ run' = run /\ sent' = sent /\ RequestsKept
      /\ handler[h] # Null /\ handler[h].ep = "proxy" /\ handler[h].at = "enter"
  BY SameRequests DEF Base, ProxyEnter, Is
<1>2. ASSUME NEW code \in Codes, Reply(h, code),
             code \in Refusals =>
               \E inject \in Injections : code = Judged(Row(h).asked.limits, Call(h), inject)
      PROVE  Served
  BY <1>1, <1>2, ReplyServed
<1>3. ASSUME NEW code \in {"revalidation-failed", "payload-lost", "internal", "too-many-streams",
                           "body-too-large"}, Reply(h, code)
      PROVE  Served
  BY <1>2, <1>3 DEF Codes, Refusals
<1>4. ASSUME NEW inject \in Injections, Judged(Row(h).asked.limits, Call(h), inject) # "ok",
             Reply(h, Judged(Row(h).asked.limits, Call(h), inject))
      PROVE  Served
  <2>1. PICK code \in Codes : code = Judged(Row(h).asked.limits, Call(h), inject)
    BY <1>4, Verdicts DEF Codes
  <2> QED BY <1>2, <1>4, <2>1
<1>5. ASSUME NEW inject \in Injections,
             Step(h, [handler[h] EXCEPT !.at = "checked", !.inject = inject])
      PROVE  Served
  <2>1. PICK y \in HandlerState :
          /\ y = [handler[h] EXCEPT !.at = "checked", !.inject = inject] /\ y # Null
          /\ y.ep = handler[h].ep /\ y.run = handler[h].run /\ y.answer = handler[h].answer
          /\ y.at = "checked" /\ y.arrived = handler[h].arrived /\ y.inject = inject
    BY <1>1, CheckedHandler
  <2>2. Step(h, y)
    BY <1>5, <2>1
  <2>3. handler'[h] = y => HandlerChange(h)
    BY <1>1, <2>1 DEF HandlerChange, Advances
  <2> QED BY <1>1, <2>2, <2>3, OneServed
<1> QED BY <1>3, <1>4, <1>5 DEF ProxyEnter

LEMMA CountServed ==
    ASSUME Base, NEW h \in Handler, ProxyCount(h)
    PROVE  Served
<1>1. /\ TypeOK /\ run' = run /\ sent' = sent
      /\ handler[h] # Null /\ handler[h].ep = "proxy" /\ handler[h].at = "checked"
  BY DEF Base, ProxyCount, Is
<1>2. PICK k \in DOMAIN requests : k = run[handler[h].run].key
  BY <1>1, HandlerBacked
<1>3. ASSUME NEW code \in {"grant-expired", "grant-exhausted"}, Reply(h, code), requests' = requests
      PROVE  Served
  <2>1. RequestsKept
    BY <1>1, <1>3, SameRequests
  <2>2. code \in Codes /\ code \notin Refusals
    BY DEF Codes, Refusals
  <2> QED BY <1>1, <1>3, <2>1, <2>2, ReplyServed
<1>4. ASSUME ~(requests[k].dead \/ requests[k].uses = 0),
             requests' = [requests EXCEPT ![k].uses = IF @ = Null THEN Null ELSE @ - 1],
             Step(h, [handler[h] EXCEPT !.at = "counted"])
      PROVE  Served
  <2>1. PICK n \in Nat \cup {Null} :
          n = IF requests[k].uses = Null THEN Null ELSE requests[k].uses - 1
    BY <1>1, <1>4, RowFields
  <2>2. requests' = [requests EXCEPT ![k].uses = n]
    BY <1>4, <2>1
  <2>3. RequestsKept
    BY <1>1, <2>2, UsesRow
  <2>4. PICK y \in HandlerState :
          /\ y = [handler[h] EXCEPT !.at = "counted"] /\ y # Null
          /\ y.ep = handler[h].ep /\ y.run = handler[h].run /\ y.answer = handler[h].answer
          /\ y.at = "counted" /\ y.arrived = handler[h].arrived /\ y.inject = handler[h].inject
    BY <1>1, AtHandler
  <2>5. Step(h, y)
    BY <1>4, <2>4
  <2>6. handler'[h] = y => HandlerChange(h)
    BY <1>1, <2>4 DEF HandlerChange, Advances
  <2> QED BY <1>1, <2>3, <2>5, <2>6, OneServed
<1> QED BY <1>2, <1>3, <1>4 DEF ProxyCount

LEMMA OutType ==
    ASSUME Base, NEW h \in Handler, Is(h, "proxy", "counted")
    PROVE  [call |-> Outbound(Row(h).asked.limits, Call(h), handler[h].inject),
            inject |-> handler[h].inject] \in CallsOut
<1>1. PICK a \in Usable : a = run[handler[h].run].args /\ a.cmd = "curl"
  BY HandlerBacked DEF Is, Base, HandlersSound, HandlerSound
<1>2. PICK i \in Injections : i = handler[h].inject
  BY DEF Is, Base, HandlersSound, HandlerSound
<1>3. PICK g \in AskedFor : g = Row(h).asked /\ g = Expected(a)
  BY <1>1, HandlerBacked DEF Is, RequestRow
<1>4. g.mechanism = "brokered"
  BY <1>1, <1>3 DEF Expected, Issued, Asked
<1>5. [call |-> Outbound(g.limits, CallOf(a), i), inject |-> i] \in CallsOut
  BY <1>1, <1>4 DEF CallsOut
<1> QED BY <1>1, <1>2, <1>3, <1>5 DEF Call

LEMMA ForwardServed ==
    ASSUME Base, NEW h \in Handler, ProxyForward(h)
    PROVE  Served
<1>1. /\ TypeOK /\ run' = run /\ RequestsKept /\ Is(h, "proxy", "counted")
      /\ handler[h] # Null /\ handler[h].ep = "proxy" /\ handler[h].at = "counted"
  BY SameRequests DEF Base, ProxyForward, Is
<1>2. ASSUME NEW code \in {"internal", "bad-credential-encoding", "invalid-request"},
             Reply(h, code), sent' = sent
      PROVE  Served
  <2>1. code \in Codes /\ code \notin Refusals
    BY DEF Codes, Refusals
  <2> QED BY <1>1, <1>2, <2>1, ReplyServed
<1>3. ASSUME sent' = [sent EXCEPT ![handler[h].run] =
                         [call |-> Outbound(Row(h).asked.limits, Call(h), handler[h].inject),
                          inject |-> handler[h].inject]],
             Step(h, [handler[h] EXCEPT !.at = "sent", !.inject = Null])
      PROVE  Served
  <2>1. PICK out \in CallsOut :
          out = [call |-> Outbound(Row(h).asked.limits, Call(h), handler[h].inject),
                 inject |-> handler[h].inject]
    BY <1>1, OutType
  <2>2. out # Null
    BY NullAssumption
  <2>3. PICK r \in Run : r = handler[h].run
    BY <1>1, HandlerFields
  <2>4. sent' \in [Run -> CallsOut \cup {Null}] /\ sent'[r] = out
        /\ \A q \in Run \ {r} : sent'[q] = sent[q]
    BY <1>1, <1>3, <2>1, <2>3 DEF TypeOK
  <2>5. PICK y \in HandlerState :
          /\ y = [handler[h] EXCEPT !.at = "sent", !.inject = Null] /\ y # Null
          /\ y.ep = handler[h].ep /\ y.run = handler[h].run /\ y.answer = handler[h].answer
          /\ y.at = "sent" /\ y.arrived = handler[h].arrived
    BY <1>1, SentHandler
  <2>6. handler' \in Handlers /\ handler'[h] = y /\ \A g \in Handler \ {h} : handler'[g] = handler[g]
    BY <1>1, <1>3, <2>5, SetHandler
  <2>7. HandlerChange(h)
    BY <1>1, <2>2, <2>3, <2>4, <2>5, <2>6 DEF HandlerChange, Advances
  <2>8. \A g \in Handler : HandlerChange(g)
    BY <2>6, <2>7 DEF HandlerChange
  <2>9. Leaves(r)
    BY <1>1, <2>3, <2>5, <2>6 DEF Leaves
  <2>10. Carried(run[r].args, out)
    <3>1. Backed(r)
      BY <1>1, <2>3 DEF Base, HandlersSound, HandlerSound
    <3>2. out.call = Outbound(Row(h).asked.limits, Call(h), handler[h].inject)
          /\ out.inject = handler[h].inject
      BY <2>1
    <3>3. Row(h).asked = Expected(run[r].args) /\ Call(h) = CallOf(run[r].args)
      BY <2>3, <3>1 DEF Row, Call, Backed
    <3> QED BY <3>2, <3>3 DEF Carried
  <2>11. SentChange
    BY <2>2, <2>4, <2>9, <2>10 DEF SentChange, Departs
  <2> QED BY <1>1, <2>6, <2>8, <2>11 DEF Served
<1> QED BY <1>2, <1>3, Verdicts DEF ProxyForward

LEMMA UpstreamServed ==
    ASSUME Base, NEW h \in Handler,
           UpstreamAnswers(h) \/ UpstreamBreaks(h) \/ ProxyRelay(h) \/ ProxyDeadline(h)
    PROVE  Served
<1>1. /\ TypeOK /\ run' = run /\ sent' = sent /\ RequestsKept
      /\ handler[h] # Null /\ handler[h].ep = "proxy"
  BY SameRequests
     DEF Base, UpstreamAnswers, UpstreamBreaks, ProxyRelay, ProxyDeadline, Is, Armed
<1>2. CASE UpstreamBreaks(h) \/ ProxyDeadline(h)
  <2>1. handler[h].at \notin {"answered", "arrived", "stream"}
    BY <1>2 DEF UpstreamBreaks, ProxyDeadline, Is, Armed
  <2>2. PICK code \in {"upstream-unreachable", "upstream-timeout"} : Reply(h, code)
    BY <1>2 DEF UpstreamBreaks, ProxyDeadline
  <2>3. code \in Codes /\ code \notin Refusals
    BY DEF Codes, Refusals
  <2> QED BY <1>1, <2>1, <2>2, <2>3, ReplyServed
<1>3. CASE UpstreamAnswers(h)
  <2>1. PICK y \in HandlerState :
          /\ Step(h, y) /\ y # Null
          /\ y.ep = handler[h].ep /\ y.run = handler[h].run /\ y.answer = handler[h].answer
          /\ y.at = "arrived" /\ y.reply # Null
    BY <1>1, <1>3, ArrivedHandler
  <2>2. handler[h].at = "sent"
    BY <1>1, <1>3, ArrivedHandler
  <2>3. handler'[h] = y => HandlerChange(h)
    BY <1>1, <2>1, <2>2 DEF HandlerChange, Advances
  <2> QED BY <1>1, <2>1, <2>3, OneServed
<1>4. CASE ProxyRelay(h)
  <2>1. handler[h].at = "arrived" /\ handler[h].reply \in UpstreamReply
    BY <1>1, <1>4, HandlerFields DEF ProxyRelay, Is, Base, HandlersSound, HandlerSound
  <2>2. PICK reply \in UpstreamReply : reply = Relayed(handler[h].reply)
                                                          /\ ~reply.marked
    <3>1. Relayed(handler[h].reply) \in UpstreamReply /\ ~Relayed(handler[h].reply).marked
      BY <2>1 DEF Relayed, UpstreamReply
    <3> QED BY <3>1
  <2>3. PICK y \in HandlerState :
          /\ y = [handler[h] EXCEPT !.at = "stream", !.reply = reply] /\ y # Null
          /\ y.ep = handler[h].ep /\ y.run = handler[h].run /\ y.answer = handler[h].answer
          /\ y.at = "stream" /\ y.reply = reply /\ y.arrived = handler[h].arrived
    BY <1>1, StreamHandler
  <2>4. reply # Null
    BY ReplyNotNull
  <2>5. handler'[h] = y => HandlerChange(h)
    BY <1>1, <2>1, <2>2, <2>3, <2>4 DEF HandlerChange, Advances
  <2>6. Step(h, y)
    BY <1>4, <2>2, <2>3 DEF ProxyRelay
  <2> QED BY <1>1, <2>5, <2>6, OneServed
<1> QED BY <1>2, <1>3, <1>4

LEMMA LingeringType ==
    ASSUME NEW x \in HandlerState
    PROVE  LET y == Lingering(x) IN
           /\ y \in HandlerState
           /\ y.ep = x.ep /\ y.run = x.run /\ y.answer = x.answer /\ y.inject = x.inject
           /\ x.ep = "wait" => y.at = (IF x.at = "enter" THEN x.at ELSE "check")
                               /\ y.arrived = x.arrived
           /\ x.ep # "wait" => y.at = (IF x.at \in {"arrived", "stream"} THEN "sent" ELSE x.at)
                               /\ ~y.arrived
<1>1. CASE x.ep = "wait"
  <2>1. PICK at \in {"enter", "check"} : at = IF x.at = "enter" THEN x.at ELSE "check"
    OBVIOUS
  <2>2. [x EXCEPT !.at = at, !.seen = "none"] \in HandlerState
    BY DEF HandlerState
  <2>3. PICK y \in HandlerState : y = [x EXCEPT !.at = at, !.seen = "none"]
    BY <2>2
  <2>4. Lingering(x) = y
    BY <1>1, <2>1, <2>3 DEF Lingering
  <2>5. y.ep = x.ep /\ y.run = x.run /\ y.answer = x.answer /\ y.inject = x.inject /\ y.at = at
        /\ y.arrived = x.arrived
    BY <2>3 DEF HandlerState
  <2> QED BY <1>1, <2>1, <2>4, <2>5
<1>2. CASE x.ep # "wait"
  <2>1. PICK at : at = IF x.at \in {"arrived", "stream"} THEN "sent" ELSE x.at
    OBVIOUS
  <2>2. [x EXCEPT !.at = at, !.reply = Null, !.arrived = FALSE] \in HandlerState
    BY <2>1 DEF HandlerState
  <2>3. PICK y \in HandlerState : y = [x EXCEPT !.at = at, !.reply = Null, !.arrived = FALSE]
    BY <2>2
  <2>4. Lingering(x) = y
    BY <1>2, <2>1, <2>3 DEF Lingering
  <2>5. y.ep = x.ep /\ y.run = x.run /\ y.answer = x.answer /\ y.inject = x.inject /\ y.at = at
        /\ ~y.arrived
    BY <2>3 DEF HandlerState
  <2> QED BY <1>2, <2>1, <2>4, <2>5
<1> QED BY <1>1, <1>2

\* The late handler is the successor of r's.
Swaps(r) ==
    /\ handler[Late] = Null /\ handler[r] # Null /\ handler[r].at \notin {"lost", "answered"}
    /\ handler' = [handler EXCEPT ![r] = Hang(r), ![Late] = Lingering(handler[r])]

LEMMA SwapHandlers ==
    ASSUME TypeOK, NEW r \in Run, Swaps(r)
    PROVE  /\ handler' \in Handlers
           /\ handler'[r] = Hang(r) /\ handler'[Late] = Lingering(handler[r])
           /\ Lingering(handler[r]) \in HandlerState
           /\ \A h \in Handler \ {r, Late} : handler'[h] = handler[h]
<1>1. PICK x \in HandlerState, y \in HandlerState : x = Hang(r) /\ y = Lingering(handler[r])
  BY HandlerFields, LingeringType, HangType DEF Swaps, Handler
<1>2. r # Late /\ r \in Handler /\ Late \in Handler
  BY ConstantsAssumption DEF Handler
<1>3. handler' = [handler EXCEPT ![r] = x, ![Late] = y]
  BY <1>1 DEF Swaps
<1> QED BY <1>1, <1>2, <1>3 DEF TypeOK, Handlers

LEMMA LoseServed ==
    ASSUME Base, NEW r \in Run, Lose(r)
    PROVE  Served
<1>1. /\ TypeOK /\ run' = run /\ sent' = sent /\ RequestsKept /\ r \in Handler /\ Late \in Handler
      /\ handler[r] # Null /\ handler[r].at # "lost"
  BY SameRequests DEF Base, Lose, Handler
<1>2. CASE Step(r, Hang(r))
  <2>1. Hang(r) \in HandlerState
    BY HangType
  <2>2. handler'[r] = Hang(r) => HandlerChange(r)
    BY <1>1 DEF HandlerChange
  <2> QED BY <1>1, <1>2, <2>1, <2>2, OneServed
<1>3. CASE Swaps(r)
  <2>1. /\ handler' \in Handlers
        /\ handler'[r] = Hang(r) /\ handler'[Late] = Lingering(handler[r])
        /\ \A h \in Handler \ {r, Late} : handler'[h] = handler[h]
    BY <1>1, <1>3, SwapHandlers
  <2>2. PICK y \in HandlerState :
          /\ y = Lingering(handler[r]) /\ y.ep = handler[r].ep /\ y.run = handler[r].run
          /\ y.answer = handler[r].answer /\ y.inject = handler[r].inject
          /\ handler[r].ep = "wait" => y.at \in {"enter", "check"} /\ y.arrived = handler[r].arrived
          /\ handler[r].ep = "proxy" =>
               y.at = (IF handler[r].at \in {"arrived", "stream"} THEN "sent" ELSE handler[r].at)
               /\ ~y.arrived
    BY <1>1, HandlerFields, LingeringType
  <2>3. y # Null
    BY NotNull
  <2>4. TakesOver(r)
    BY <1>1, <1>3, <2>1, <2>2, <2>3 DEF TakesOver, Swaps
  <2>5. \A h \in Handler : HandlerChange(h)
    BY <1>1, <2>1, <2>4 DEF HandlerChange
  <2>6. SentChange
    BY <1>1 DEF SentChange, TypeOK
  <2> QED BY <1>1, <2>1, <2>5, <2>6 DEF Served
<1> QED BY <1>1, <1>2, <1>3 DEF Lose, Swaps

LEMMA SendServed ==
    ASSUME Base, NEW r \in Run, SendWait(r) \/ SendProxy(r)
    PROVE  Served
<1>1. /\ TypeOK /\ run' = run /\ sent' = sent /\ RequestsKept /\ r \in Handler /\ handler[r] = Null
  BY SameRequests DEF Base, SendWait, SendProxy, Handler
<1>2. PICK ep \in {"wait", "proxy"} : run[r].pc = ep /\ Step(r, NewHandler(ep, r))
  BY DEF SendWait, SendProxy, At
<1>3. NewHandler(ep, r) \in HandlerState
  BY NewHandlerType
<1>4. handler'[r] = NewHandler(ep, r) => HandlerChange(r)
  BY <1>1, <1>2 DEF HandlerChange
<1> QED BY <1>1, <1>2, <1>3, <1>4, OneServed

LEMMA DropServed ==
    ASSUME Base, DropLate
    PROVE  Served
<1>1. /\ TypeOK /\ run' = run /\ sent' = sent /\ RequestsKept /\ Late \in Handler /\ Step(Late, Null)
  BY SameRequests DEF Base, DropLate, Handler
<1>2. handler'[Late] = Null => HandlerChange(Late)
  BY DEF HandlerChange
<1> QED BY <1>1, <1>2, OneServed

\* Sleepers wake.
LEMMA WokenHandlers ==
    ASSUME TypeOK, handler' = Woken
    PROVE  /\ handler' \in Handlers
           /\ \A h \in Handler : handler'[h] = handler[h] \/ Advances(h)
<1>1. ASSUME NEW h \in Handler
      PROVE  handler'[h] \in HandlerState \cup {Null} /\ (handler'[h] = handler[h] \/ Advances(h))
  <2>1. CASE Is(h, "wait", "asleep")
    <3>1. handler[h] # Null /\ handler[h].ep = "wait" /\ handler[h].at = "asleep"
      BY <2>1 DEF Is
    <3>2. PICK y \in HandlerState :
            /\ y = [handler[h] EXCEPT !.at = "woken"] /\ y # Null
            /\ y.ep = handler[h].ep /\ y.run = handler[h].run /\ y.answer = handler[h].answer
            /\ y.at = "woken" /\ y.arrived = handler[h].arrived
      BY <3>1, AtHandler
    <3>3. handler'[h] = y
      BY <2>1, <3>2 DEF Woken
    <3> QED BY <3>1, <3>2, <3>3 DEF Advances
  <2>2. CASE ~Is(h, "wait", "asleep")
    BY <2>2 DEF Woken, TypeOK
  <2> QED BY <2>1, <2>2
<1>2. handler' = [h \in Handler |-> handler'[h]]
  BY DEF Woken
<1> QED BY <1>1, <1>2 DEF Handlers

LEMMA ResolvedServed ==
    ASSUME Base, NEW k \in DOMAIN requests,
           Expire(k) \/ \E s \in {"approved", "denied"} : Resolve(k, s)
    PROVE  Served
<1>1. TypeOK /\ run' = run /\ sent' = sent /\ handler' = Woken
  BY DEF Base, Expire, Resolve
<1>2. RequestsKept
  <2>1. CASE Expire(k)
    <3>1. PICK n \in Nat \cup {Null} : n = requests[k].uses
      BY <1>1, RowFields
    <3>2. [requests[k] EXCEPT !.state = "expired"] = [requests[k] EXCEPT !.state = "expired", !.uses = n]
      BY <1>1, <3>1, RowFields DEF RequestRow
    <3>3. requests' = [requests EXCEPT ![k].state = "expired", ![k].uses = n]
      BY <2>1, <3>2 DEF Expire
    <3> QED BY <1>1, <3>3, StateRow DEF States
  <2>2. ASSUME NEW s \in {"approved", "denied"}, Resolve(k, s) PROVE RequestsKept
    <3>1. PICK n \in Nat \cup {Null} : requests' = [requests EXCEPT ![k].state = s, ![k].uses = n]
      <4>1. PICK n \in {requests[k].uses, 1} :
              requests' = [requests EXCEPT ![k].state = s, ![k].uses = n]
        BY <2>2 DEF Resolve
      <4>2. n \in Nat \cup {Null}
        BY <1>1, RowFields
      <4> QED BY <4>1, <4>2
    <3> QED BY <1>1, <3>1, StateRow DEF States
  <2> QED BY <2>1, <2>2
<1>3. handler' \in Handlers /\ \A h \in Handler : HandlerChange(h)
  BY <1>1, WokenHandlers DEF HandlerChange
<1> QED BY <1>1, <1>2, <1>3 DEF Served, SentChange, TypeOK

LEMMA EndGrantServed ==
    ASSUME Base, NEW k \in DOMAIN requests, EndGrant(k)
    PROVE  Served
<1>1. TypeOK /\ run' = run /\ sent' = sent /\ handler' = handler
      /\ requests' = [requests EXCEPT ![k].dead = TRUE]
  BY DEF Base, EndGrant
<1>2. PICK x \in RequestRow : x = [requests[k] EXCEPT !.dead = TRUE] /\ x.asked = requests[k].asked
  <2>1. [requests[k] EXCEPT !.dead = TRUE] \in RequestRow
    BY <1>1, RowFields DEF RequestRow
  <2>2. [requests[k] EXCEPT !.dead = TRUE].asked = requests[k].asked
    BY <1>1, RowFields DEF RequestRow
  <2> QED BY <2>1, <2>2
<1>3. requests' = [requests EXCEPT ![k] = x]
  BY <1>1, <1>2
<1>4. RequestsKept
  BY <1>1, <1>2, <1>3, SetRow
<1> QED BY <1>1, <1>4 DEF Served, SentChange, TypeOK, Handlers, HandlerChange

LEMMA RestartServed ==
    ASSUME Base, Restart
    PROVE  Served
<1>1. TypeOK /\ run' = run /\ sent' = sent
  BY DEF Base, Restart
<1>2. RequestsKept
  <2>1. PICK gone : requests' = [k \in DOMAIN requests |->
                                    [requests[k] EXCEPT !.lost = @ \/ k \in gone]]
    BY DEF Restart
  <2>2. ASSUME NEW k \in DOMAIN requests
        PROVE  LET x == [requests[k] EXCEPT !.lost = requests[k].lost \/ k \in gone] IN
               x \in RequestRow /\ x.asked = requests[k].asked
    <3>1. PICK lost \in BOOLEAN : lost = (requests[k].lost \/ k \in gone)
      OBVIOUS
    <3>2. [requests[k] EXCEPT !.lost = lost] \in RequestRow
      BY <1>1, RowFields DEF RequestRow
    <3>3. [requests[k] EXCEPT !.lost = lost].asked = requests[k].asked
      BY <1>1, RowFields DEF RequestRow
    <3> QED BY <3>1, <3>2, <3>3
  <2> QED BY <2>1, <2>2 DEF RequestsKept
<1>3. ASSUME NEW h \in Handler
      PROVE  handler'[h] \in HandlerState \cup {Null} /\ HandlerChange(h)
  <2>1. CASE h = Late
    BY <2>1 DEF Restart, HandlerChange
  <2>2. CASE h # Late
    <3>1. h \in Run
      BY <2>2 DEF Handler
    <3>2. handler'[h] = handler[h] \/ (handler[h] # Null /\ handler'[h] = Hang(h))
      BY <2>2, <3>1 DEF Restart
    <3> QED BY <1>1, <3>1, <3>2, HangType DEF HandlerChange, TypeOK
  <2> QED BY <2>1, <2>2
<1>4. handler' = [h \in Handler |-> handler'[h]]
  BY DEF Restart
<1>5. handler' \in Handlers
  BY <1>3, <1>4 DEF Handlers
<1> QED BY <1>1, <1>2, <1>3, <1>5 DEF Served, SentChange, TypeOK

\* Every step is one of these.
LEMMA StepKinds ==
    ASSUME Base, Next
    PROVE  (\E r \in Run : Progress(r)) \/ Served
<1>1. Run \subseteq Handler /\ Late \in Handler
  BY DEF Handler
<1>2. ASSUME NEW r \in Run, NEW a \in {f[r] : f \in CommandLines}, Start(r, a)
      PROVE  Progress(r)
  BY <1>2, StartProgress
<1>3. ASSUME NEW r \in Run, ClientStep(r) \/ GiveUpWaiting(r)
      PROVE  Progress(r) \/ Served
  BY <1>3, CheckProgress, PrepareProgress, NoBearerProgress, CreateProgress, ReadProgress,
     StoreProgress, ReportProgress, SendServed, WaitProgress, AnsweredProgress, RespondsProgress,
     BodyProgress, GiveUpProgress DEF ClientStep
<1>4. ASSUME NEW h \in Handler, ServerStep(h) \/ UpstreamAnswers(h) \/ UpstreamBreaks(h)
      PROVE  Served
  BY <1>4, WaitServed, EnterServed, CountServed, ForwardServed, UpstreamServed DEF ServerStep
<1>5. LateStep => Served
  BY <1>1, WaitServed, EnterServed, CountServed, ForwardServed, DropServed DEF LateStep
<1>6. SweepRequests \/ Restart \/ (\E k \in DOMAIN requests :
         EndGrant(k) \/ \E s \in {"approved", "denied"} : Resolve(k, s)) => Served
  BY EndGrantServed, ResolvedServed, RestartServed DEF SweepRequests
<1>7. ASSUME NEW r \in Run, Lose(r) PROVE Served
  BY <1>7, LoseServed
<1> QED BY <1>1, <1>2, <1>3, <1>4, <1>5, <1>6, <1>7 DEF Next

-----------------------------------------------------------------------------
(* The runs stay sound.                                                    *)

\* A row that backs a run goes on backing it.
LEMMA StillBacked ==
    ASSUME NEW r \in Run, RequestsKept, Backed(r), run'[r].key = run[r].key,
           run'[r].args = run[r].args
    PROVE  Backed(r)'
BY DEF RequestsKept, Backed

LEMMA UsableArgs ==
    ASSUME NEW a \in Usable
    PROVE  /\ a \in Args /\ a # Null /\ a.cmd \in {"curl", "request", "store"}
           /\ a.grant \in {Null, GrantId} /\ (a.cmd # "curl" => a.grant = Null)
BY NullAssumption, CommandLinesAssumption DEF Usable

\* A run that is new is backed where it has to be: by the grant that exists.
LEMMA BeginsSound ==
    ASSUME Base, NEW r \in Run, Begins(r), RequestsKept
    PROVE  /\ RunSound(r)' /\ run'[r].pc \in {"done", "create", "store", "check", "prepare"}
           /\ ~run'[r].fresh
           /\ run'[r].pc = "check" => Backed(r)'
           /\ run'[r].pc = "prepare" => run'[r].args.grant = Null
<1>1. PICK y : y = run'[r]
  OBVIOUS
<1>2. y.args \in Args /\ y.args # Null /\ ~y.fresh /\ y.response = Null
  BY <1>1, NullAssumption DEF Begins
<1>3. CASE y.pc = "done"
  BY <1>1, <1>2, <1>3 DEF RunSound, Working, Over
<1>4. CASE y.pc # "done"
  <2>1. /\ y.args \in Usable /\ y.key = KeyOf(r, y.args)
        /\ \/ y.pc = "create" /\ y.args.cmd = "request"
           \/ y.pc = "store" /\ y.args.cmd = "store"
           \/ y.pc = "check" /\ y.args.cmd = "curl" /\ y.args.grant # Null
           \/ y.pc = "prepare" /\ y.args.cmd = "curl" /\ y.args.grant = Null
    BY <1>1, <1>4 DEF Begins
  <2>2. y.why = "none"
    BY <1>1, <1>4 DEF Begins
  <2>3. RunSound(r)'
    BY <1>1, <1>2, <2>1, <2>2 DEF RunSound, Working, Over
  <2>4. y.pc = "check" => Backed(r)'
    <3>1. SUFFICES ASSUME y.pc = "check" PROVE Backed(r)'
      OBVIOUS
    <3>2. y.args.cmd = "curl" /\ y.args.grant = GrantId /\ y.args.grant # Null
      BY <2>1, <3>1, UsableArgs
    <3>3. y.key = GrantId
      BY <2>1, <3>2 DEF KeyOf
    <3>4. GrantId \in DOMAIN requests' /\ requests'[GrantId].asked = Issued
      BY DEF Base, HandlersSound, HandlerSound, RequestsKept
    <3>5. Expected(y.args) = Issued
      BY <3>2 DEF Expected
    <3> QED BY <1>1, <3>3, <3>4, <3>5 DEF Backed
  <2> QED BY <1>1, <1>2, <2>1, <2>3, <2>4
<1> QED BY <1>1, <1>2, <1>3, <1>4

LEMMA ReplyStatus ==
    ASSUME TypeOK, HandlersSound, NEW r \in Run, Is(r, "proxy", "stream")
    PROVE  handler[r].reply.status \in Nat
<1>1. r \in Handler /\ handler[r] # Null /\ handler[r].at = "stream"
  BY DEF Is, Handler
<1>2. handler[r].reply \in UpstreamReply
  BY <1>1, HandlerFields DEF HandlersSound, HandlerSound
<1> QED BY <1>2 DEF UpstreamReply

\* What the ends of a run have in common.
StopShape(r) ==
    /\ run[r].pc \in Working /\ run'[r].pc \in Over
    /\ run'[r].pc = "report" => run[r].fresh
    /\ run'[r].args = run[r].args /\ run'[r].key = run[r].key /\ run'[r].fresh = run[r].fresh
    /\ run'[r].named = run[r].named
    /\ \/ run'[r].response = run[r].response
       \/ run[r].pc = "proxy"

LEMMA StopsShape ==
    ASSUME Base, NEW r \in Run, Stops(r)
    PROVE  StopShape(r)
<1>1. ASSUME NEW code, NEW why, Ends(r, code, why), run[r].pc \in Working
      PROVE  StopShape(r)
  BY <1>1 DEF Ends, EndOf, StopShape
<1>2. CASE Fails(r)
  <2>1. PICK got : got = [run[r] EXCEPT !.response = handler[r].reply.status]
    OBVIOUS
  <2>2. got.args = run[r].args /\ got.key = run[r].key /\ got.fresh = run[r].fresh
        /\ got.named = run[r].named
    BY <2>1, RunFields DEF Base, RunState
  <2>3. EndOf(got, run'[r], 1, "failed-response") /\ run[r].pc = "proxy"
    BY <1>2, <2>1 DEF Fails
  <2> QED BY <2>2, <2>3 DEF StopShape, EndOf, Working
<1> QED BY <1>1, <1>2 DEF Stops, Early, Working

LEMMA RunsSoundStep ==
    ASSUME Base, Next
    PROVE  RunsSound'
<1>1. TypeOK /\ RunsSound /\ HandlersSound
  BY DEF Base
<1>2. ASSUME NEW q \in Run, run'[q] = run[q], RequestsKept
      PROVE  /\ RunSound(q)'
             /\ run'[q].pc \in Asking \/ run'[q].fresh => Backed(q)'
             /\ run'[q].pc = "prepare" /\ run'[q].args.grant # Null => Backed(q)'
  <2>1. RunSound(q)'
    BY <1>1, <1>2 DEF RunsSound, RunSound
  <2>2. Backed(q) => Backed(q)'
    BY <1>2, StillBacked
  <2> QED BY <1>1, <1>2, <2>1, <2>2 DEF RunsSound
<1>3. CASE Served
  BY <1>2, <1>3 DEF Served, RunsSound
<1>4. ASSUME NEW r \in Run, Progress(r) PROVE RunsSound'
  <2>1. Alone(r) /\ RequestsKept
    BY <1>4 DEF Progress
  <2>2. SUFFICES /\ RunSound(r)'
                 /\ run'[r].pc \in Asking \/ run'[r].fresh => Backed(r)'
                 /\ run'[r].pc = "prepare" /\ run'[r].args.grant # Null => Backed(r)'
    BY <1>2, <2>1 DEF Alone, RunsSound
  <2>3. /\ RunSound(r)
        /\ run[r].pc \in Asking \/ run[r].fresh => Backed(r)
        /\ run[r].pc = "prepare" /\ run[r].args.grant # Null => Backed(r)
    BY <1>1 DEF RunsSound
  <2>4. CASE Begins(r)
    BY <2>1, <2>4, BeginsSound DEF Asking
  <2>5. CASE Proceeds(r)
    <3>1. run'[r].args = run[r].args /\ run'[r].key = run[r].key
          /\ run'[r].response = run[r].response
      BY <2>5 DEF Proceeds, Goes, Freshens
    <3>2. Backed(r) => Backed(r)'
      BY <2>1, <3>1, StillBacked
    <3>3. run[r].args \in Usable => run[r].args.cmd \in {"curl", "request", "store"}
      BY UsableArgs
    <3>4. RunSound(r)'
      BY <2>3, <2>5, <3>1, <3>3 DEF Proceeds, RunSound, Goes, Freshens, Working, Over
    <3> QED BY <2>3, <2>5, <3>2, <3>4 DEF Proceeds, RunSound, Goes, Freshens, Asking, Over
  <2>6. CASE Stops(r)
    <3>1. StopShape(r)
      BY <2>6, StopsShape
    <3>2. Backed(r) => Backed(r)'
      BY <2>1, <3>1, StillBacked DEF StopShape
    <3>3. RunSound(r)'
      BY <2>3, <3>1 DEF StopShape, RunSound, Working, Over
    <3> QED BY <2>3, <3>1, <3>2, <3>3 DEF StopShape, Asking, Over
  <2>7. CASE Reports(r)
    <3>1. Backed(r) => Backed(r)'
      BY <2>1, <2>7, StillBacked DEF Reports
    <3>2. RunSound(r)'
      BY <2>3, <2>7 DEF Reports, RunSound, Working, Over
    <3> QED BY <2>3, <2>7, <3>1, <3>2 DEF Reports, Asking
  <2>8. CASE Streams(r)
    <3>1. Backed(r) => Backed(r)'
      BY <2>1, <2>8, StillBacked DEF Streams
    <3>2. PICK status \in Nat : status = handler[r].reply.status
      BY <1>1, <2>8, ReplyStatus DEF Streams
    <3>3. status # Null
      BY NullAssumption
    <3>4. RunSound(r)'
      BY <2>3, <2>8, <3>2, <3>3 DEF Streams, RunSound, Working, Over
    <3> QED BY <2>3, <2>8, <3>1, <3>4 DEF Streams, Asking
  <2> QED BY <1>4, <2>4, <2>5, <2>6, <2>7, <2>8 DEF Progress
<1> QED BY <1>3, <1>4, StepKinds

-----------------------------------------------------------------------------
(* The handlers stay sound.                                                *)

\* A run keeps its command line and its key.
LEMMA SameCall ==
    ASSUME Base, NEW r \in Run, Progress(r), run[r].pc # "idle"
    PROVE  /\ run'[r].args = run[r].args /\ run'[r].key = run[r].key /\ run'[r].pc # "idle"
           /\ run[r].fresh => run'[r].fresh
<1>1. CASE Proceeds(r)
  BY <1>1 DEF Proceeds, Goes, Freshens
<1>2. CASE Stops(r)
  BY <1>2, StopsShape DEF StopShape, Over
<1>3. CASE Reports(r) \/ Streams(r)
  BY <1>3 DEF Reports, Streams
<1> QED BY <1>1, <1>2, <1>3 DEF Progress, Begins

LEMMA GrantKept ==
    ASSUME HandlersSound, RequestsKept
    PROVE  requests'[GrantId].asked = Issued /\ GrantId \in DOMAIN requests'
BY DEF HandlersSound, HandlerSound, RequestsKept

LEMMA ProgressHandlers ==
    ASSUME Base, NEW r \in Run, Progress(r)
    PROVE  HandlersSound'
<1>1. /\ TypeOK /\ Alone(r) /\ RequestsKept /\ \A h \in Handler \ {r} : handler'[h] = handler[h]
      /\ \A h \in Handler : HandlerSound(h)
      /\ \A q \in Run : BodyServed(q)
  BY DEF Base, Progress, HandlersSound, HandlerSound
<1>2. ASSUME NEW h \in Handler \ {r}, handler[h] # Null
      PROVE  LET q == handler[h].run IN
             /\ Backed(q)' /\ run'[q].pc # "idle" /\ run'[q].args = run[q].args
             /\ h \in Run => run'[h] = run[h]
  <2>1. PICK q \in Run : q = handler[h].run
    BY <1>1, <1>2, HandlerFields
  <2>2. Backed(q) /\ run[q].pc # "idle"
    BY <1>1, <1>2, <2>1 DEF HandlerSound
  <2>3. run'[q].args = run[q].args /\ run'[q].key = run[q].key /\ run'[q].pc # "idle"
    BY <1>1, <2>2, SameCall DEF Alone
  <2>4. Backed(q)'
    BY <1>1, <2>2, <2>3, StillBacked
  <2> QED BY <1>1, <2>1, <2>3, <2>4 DEF Alone
<1>3. ASSUME NEW h \in Handler \ {r} PROVE HandlerSound(h)'
  BY <1>1, <1>2 DEF HandlerSound
<1>4. HandlerSound(r)' /\ BodyServed(r)'
  <2>1. CASE handler'[r] = Null /\ run'[r].pc # "body"
    BY <2>1 DEF HandlerSound, BodyServed
  <2>2. CASE handler'[r] = handler[r] /\ Streams(r)
    <3>1. HandlerSound(r) /\ r \in Handler /\ handler[r] # Null /\ handler[r].at = "stream"
          /\ handler[r].ep = "proxy"
      BY <1>1, <2>2 DEF Handler, Streams, Is
    <3>2. handler[r].run = r /\ Backed(r)
      BY <3>1 DEF HandlerSound
    <3>3. run'[r].args = run[r].args /\ run'[r].key = run[r].key /\ run'[r].pc = "body"
      BY <2>2 DEF Streams
    <3>4. Backed(r)'
      BY <1>1, <3>2, <3>3, StillBacked
    <3>5. HandlerSound(r)'
      BY <2>2, <3>1, <3>2, <3>3, <3>4 DEF HandlerSound
    <3> QED BY <2>2, <3>1, <3>5 DEF BodyServed
  <2>3. Begins(r) \/ Proceeds(r) \/ Stops(r) \/ Reports(r) => run'[r].pc # "body"
    <3>1. Stops(r) => run'[r].pc # "body"
      BY StopsShape DEF StopShape, Over
    <3> QED BY <3>1 DEF Begins, Proceeds, Reports, Goes, Freshens
  <2> QED BY <2>1, <2>2, <2>3 DEF Progress
<1>5. ASSUME NEW q \in Run \ {r} PROVE BodyServed(q)'
  BY <1>1, <1>3 DEF BodyServed, Alone, Handler
<1> QED BY <1>1, <1>3, <1>4, <1>5, GrantKept DEF Base, HandlersSound, HandlerSound

LEMMA ServedHandlers ==
    ASSUME Base, Served
    PROVE  HandlersSound'
<1>1. /\ TypeOK /\ run' = run /\ RequestsKept
      /\ \A h \in Handler : HandlerSound(h) /\ HandlerChange(h)
      /\ \A q \in Run : BodyServed(q)
  BY DEF Base, Served, HandlersSound, HandlerSound
<1>2. ASSUME NEW q \in Run, Backed(q) PROVE Backed(q)'
  BY <1>1, <1>2, StillBacked
<1>3. ASSUME NEW h \in Handler PROVE HandlerSound(h)'
  <2>1. HandlerSound(h)
    BY <1>1
  <2>2. handler[h] # Null => \A q : q = handler[h].run => Backed(q)'
    BY <1>1, <1>2, <2>1, HandlerFields DEF HandlerSound
  <2>3. CASE handler'[h] = handler[h]
    BY <1>1, <2>1, <2>2, <2>3 DEF HandlerSound
  <2>4. CASE h = Late /\ handler'[h] = Null
    BY <2>4 DEF HandlerSound
  <2>5. CASE h \in Run /\ handler[h] # Null /\ handler'[h] = Hang(h)
    <3>1. PICK y \in HandlerState : y = Hang(h) /\ y.ep = "none" /\ y.run = h /\ y.at = "lost"
                                    /\ y.answer = "none" /\ ~y.arrived
      BY <2>5, HangType
    <3>2. h # Late
      BY <2>5, ConstantsAssumption
    <3> QED BY <1>1, <2>1, <2>2, <2>5, <3>1, <3>2 DEF HandlerSound
  <2>6. CASE h = Late /\ \E r \in Run : TakesOver(r)
    <3>1. PICK r \in Run : TakesOver(r)
      BY <2>6
    <3>2. r \in Handler /\ handler[r] # Null /\ handler[r].at # "answered" /\ h \notin Run
      BY <2>6, <3>1, ConstantsAssumption DEF TakesOver, Handler
    <3>3. HandlerSound(r) /\ handler[r].run = r /\ Backed(r)'
          /\ handler[r].ep \in {"wait", "proxy", "none"}
      BY <1>1, <1>2, <3>2, HandlerFields DEF HandlerSound
    <3>4. handler[r].ep # "none"
      BY <3>1, <3>2, <3>3 DEF HandlerSound, TakesOver
    <3> QED BY <1>1, <2>6, <3>1, <3>2, <3>3, <3>4 DEF HandlerSound, TakesOver
  <2>7. ASSUME h \in Run, handler[h] = Null, NEW ep \in {"wait", "proxy"}, run[h].pc = ep,
               handler'[h] = NewHandler(ep, h)
        PROVE  HandlerSound(h)'
    <3>1. PICK y \in HandlerState : y = NewHandler(ep, h) /\ y.ep = ep /\ y.run = h
                                    /\ y.at = "enter" /\ y.answer = "none" /\ ~y.arrived
      BY <2>7, NewHandlerType
    <3>2. h # Late
      BY <2>7, ConstantsAssumption
    <3>3. /\ Backed(h) /\ run[h].args \in Usable
          /\ ep = "proxy" => run[h].args.cmd = "curl"
      BY <2>7 DEF Base, RunsSound, RunSound, Asking, Working
    <3> QED BY <1>1, <1>2, <2>7, <3>1, <3>2, <3>3 DEF HandlerSound
  <2>8. CASE Answers(h)
    <3>1. h # Late
      BY <2>8, ConstantsAssumption DEF Answers
    <3> QED BY <1>1, <2>1, <2>2, <2>8, <3>1 DEF HandlerSound, Answers
  <2>9. CASE Advances(h)
    BY <1>1, <2>1, <2>2, <2>9 DEF HandlerSound, Advances
  <2> QED BY <1>1, <2>3, <2>4, <2>5, <2>6, <2>7, <2>8, <2>9 DEF HandlerChange
<1>4. ASSUME NEW q \in Run PROVE BodyServed(q)'
  <2>1. q \in Handler /\ HandlerSound(q) /\ BodyServed(q) /\ HandlerChange(q) /\ q # Late
    BY <1>1, ConstantsAssumption DEF Handler
  <2>2. SUFFICES ASSUME run[q].pc = "body"
                 PROVE  handler'[q] # Null /\ handler'[q].at \in {"stream", "lost"}
    BY <1>1 DEF BodyServed
  <2>3. handler[q] # Null /\ handler[q].at \in {"stream", "lost"}
    BY <2>1, <2>2 DEF BodyServed
  <2>4. CASE handler'[q] = Hang(q)
    BY <2>4, HangType, NotNull
  <2>5. ~Answers(q) /\ ~Advances(q)
    BY <2>1, <2>3 DEF HandlerSound, Answers, Advances
  <2> QED BY <2>1, <2>3, <2>4, <2>5 DEF HandlerChange
<1> QED BY <1>1, <1>3, <1>4, GrantKept DEF Base, HandlersSound, HandlerSound

LEMMA HandlersSoundStep ==
    ASSUME Base, Next
    PROVE  HandlersSound'
BY StepKinds, ProgressHandlers, ServedHandlers

-----------------------------------------------------------------------------
(* One brokered call for each run.                                         *)

LEMMA ProgressSent ==
    ASSUME Base, SentSound, NEW r \in Run, Progress(r)
    PROVE  SentSound'
<1>1. /\ TypeOK /\ HandlersSound /\ Alone(r) /\ sent' = sent /\ r \in Handler /\ Late \in Handler
      /\ r # Late /\ \A h \in Handler \ {r} : handler'[h] = handler[h]
  BY ConstantsAssumption DEF Base, Progress, Handler
<1>2. Stops(r) => run[r].pc \in Working /\ run'[r].pc \in Over
  BY StopsShape DEF StopShape
<1>3. \A q \in Run : sent'[q] # Null => run'[q].pc \in {"proxy", "body"} \cup Over
  <2>1. ASSUME sent[r] # Null PROVE run'[r].pc \in {"proxy", "body"} \cup Over
    <3>1. run[r].pc \in {"proxy", "body"} \cup Over
      BY <2>1 DEF SentSound
    <3> QED BY <1>2, <3>1 DEF Progress, Begins, Proceeds, Reports, Streams, Over
  <2> QED BY <1>1, <2>1 DEF SentSound, Alone
<1>4. \A q \in Run : run'[q].pc = "proxy" /\ handler'[q] = Null => sent'[q] = Null
  <2>1. ASSUME run'[r].pc = "proxy" PROVE sent[r] = Null
    <3>1. run[r].pc \in Early
      BY <1>2, <2>1 DEF Progress, Begins, Proceeds, Goes, Freshens, Reports, Streams, Over, Early
    <3> QED BY <3>1 DEF SentSound, Early, Over
  <2> QED BY <1>1, <2>1 DEF SentSound, Alone, Handler
<1>5. \A q \in Run : run'[q].pc = "body" => sent'[q] # Null
  <2>1. ASSUME run'[r].pc = "body" PROVE sent[r] # Null
    <3>1. Streams(r)
      BY <1>2, <2>1 DEF Progress, Begins, Proceeds, Goes, Freshens, Reports, Over
    <3>2. handler[r] # Null /\ handler[r].ep = "proxy" /\ handler[r].at = "stream"
      BY <3>1 DEF Streams, Is
    <3>3. handler[r].run = r
      BY <1>1, <3>2 DEF HandlersSound, HandlerSound
    <3> QED BY <1>1, <3>2, <3>3 DEF SentSound
  <2> QED BY <1>1, <2>1 DEF SentSound, Alone
<1>6. \A h \in Handler : handler'[h] # Null /\ handler'[h].ep = "proxy" =>
         /\ handler'[h].at \in {"enter", "checked", "counted"} => sent'[handler'[h].run] = Null
         /\ handler'[h].at \in {"sent", "arrived", "stream"} => sent'[handler'[h].run] # Null
         /\ handler'[h].at = "answered" /\ Excuses(handler'[h].answer) => sent'[handler'[h].run] = Null
  <2>1. \A h \in Handler : handler'[h] # Null => handler'[h] = handler[h]
    BY <1>1 DEF Progress
  <2> QED BY <1>1, <2>1 DEF SentSound
<1>7. handler'[Late] # Null /\ handler'[Late].ep = "proxy" =>
        LET q == handler'[Late].run IN
        \/ run'[q].pc \in {"proxy", "body"} /\ handler'[q] # Null /\ handler'[q].at = "lost"
        \/ run'[q].pc \in Over /\ run'[q].exit = 1 /\ ~(Status(run'[q].why) < 500)
  <2>1. SUFFICES ASSUME handler[Late] # Null, handler[Late].ep = "proxy"
                 PROVE  LET q == handler[Late].run IN
                        \/ run'[q].pc \in {"proxy", "body"} /\ handler'[q] # Null
                           /\ handler'[q].at = "lost"
                        \/ run'[q].pc \in Over /\ run'[q].exit = 1 /\ ~(Status(run'[q].why) < 500)
    BY <1>1
  <2>2. PICK q \in Run : q = handler[Late].run
    BY <1>1, <2>1, HandlerFields
  <2>3. \/ run[q].pc \in {"proxy", "body"} /\ handler[q] # Null /\ handler[q].at = "lost"
        \/ run[q].pc \in Over /\ run[q].exit = 1 /\ ~(Status(run[q].why) < 500)
    BY <2>1, <2>2 DEF SentSound
  <2>4. CASE q # r
    BY <1>1, <2>2, <2>3, <2>4 DEF Alone, Handler
  <2>5. CASE q = r /\ run[r].pc \in {"proxy", "body"} /\ handler[r] # Null /\ handler[r].at = "lost"
    <3>1. Stops(r)
      BY <2>5 DEF Progress, Begins, Proceeds, Reports, Streams, Is
    <3>2. Ends(r, 1, "transport") \/ Ends(r, 1, "truncated")
      BY <2>5, <3>1 DEF Stops, Fails, Is, Early
    <3> QED BY <2>2, <2>5, <3>2, Statuses DEF Ends, EndOf
  <2>6. CASE q = r /\ run[r].pc \in Over /\ run[r].exit = 1 /\ ~(Status(run[r].why) < 500)
    <3>1. Reports(r)
      BY <1>2, <2>6 DEF Progress, Begins, Proceeds, Streams, Over, Working
    <3> QED BY <2>2, <2>6, <3>1 DEF Reports, Over
  <2> QED BY <2>3, <2>4, <2>5, <2>6
<1> QED BY <1>3, <1>4, <1>5, <1>6, <1>7 DEF SentSound

\* A handler that hangs belongs to no endpoint, and stays as it is.
LEMMA Hanging ==
    ASSUME Base, NEW r \in Run, handler[r] # Null, handler[r].at = "lost"
    PROVE  /\ handler[r].ep = "none"
           /\ HandlerChange(r) => handler'[r] # Null /\ handler'[r].at = "lost"
<1>1. r \in Handler /\ r # Late /\ TypeOK
  BY ConstantsAssumption DEF Handler, Base
<1>2. handler[r].ep = "none"
  BY <1>1, HandlerFields DEF Base, HandlersSound, HandlerSound
<1>3. ~Answers(r) /\ ~Advances(r)
  BY <1>2 DEF Answers, Advances
<1> QED BY <1>1, <1>2, <1>3, HangType, NotNull DEF HandlerChange

\* No two handlers have the same call to make.
LEMMA OneSender ==
    ASSUME Base, SentSound, NEW g \in Handler, NEW h \in Handler,
           handler[g] # Null, handler[h] # Null, handler[g].ep = "proxy", handler[h].ep = "proxy",
           handler[g].run = handler[h].run
    PROVE  g = h
<1>1. ASSUME NEW r \in Run, handler[Late] # Null, handler[r] # Null, handler[r].ep = "proxy",
             handler[Late].ep = "proxy", handler[Late].run = handler[r].run
      PROVE  FALSE
  <2>1. r \in Handler /\ HandlerSound(r)
    BY DEF Base, HandlersSound, Handler
  <2>2. handler[r].run = r /\ run[r].pc \in {"proxy", "body"} /\ handler[r].at # "lost"
    BY <1>1, <2>1 DEF HandlerSound
  <2> QED BY <1>1, <2>2 DEF SentSound, Over
<1>2. \A r \in Run : handler[r] # Null => handler[r].run = r
  BY DEF Base, HandlersSound, HandlerSound, Handler
<1> QED BY <1>1, <1>2 DEF Handler

\* Who sends a call is the run's own handler or its late one.
LEMMA Sender ==
    ASSUME Base, SentSound, NEW r \in Run, Leaves(r)
    PROVE  /\ run[r].pc \in {"proxy", "body"} \cup Over
           /\ run[r].pc = "proxy" => handler[r] # Null
<1>1. PICK h \in Handler : Is(h, "proxy", "counted") /\ handler[h].run = r
  BY DEF Leaves
<1>2. handler[h] # Null /\ handler[h].ep = "proxy" /\ HandlerSound(h)
  BY <1>1 DEF Is, Base, HandlersSound
<1>3. CASE h = Late
  BY <1>1, <1>2, <1>3 DEF SentSound, Over
<1>4. CASE h \in Run
  BY <1>1, <1>2, <1>4 DEF HandlerSound
<1> QED BY <1>3, <1>4 DEF Handler

LEMMA SentStays ==
    ASSUME SentChange, NEW r \in Run, sent[r] # Null
    PROVE  sent'[r] # Null
<1>1. CASE sent'[r] = sent[r]
  BY <1>1
<1>2. CASE Departs(r)
  BY <1>2 DEF Departs
<1> QED BY <1>1, <1>2 DEF SentChange

\* While h has not sent its call nobody else does.
LEMMA NotSent ==
    ASSUME Base, SentSound, SentChange, NEW h \in Handler, handler[h] # Null,
           handler[h].ep = "proxy", handler'[h] # Null, handler'[h].at # "sent"
    PROVE  sent'[handler[h].run] = sent[handler[h].run]
<1>1. PICK r \in Run : r = handler[h].run
  BY HandlerFields DEF Base
<1>2. ASSUME Leaves(r) PROVE FALSE
  <2>1. PICK g \in Handler : Is(g, "proxy", "counted") /\ handler[g].run = r
                             /\ handler'[g] # Null /\ handler'[g].at = "sent"
    BY <1>2 DEF Leaves
  <2>2. g = h
    BY <1>1, <2>1, OneSender DEF Is
  <2> QED BY <2>1, <2>2
<1> QED BY <1>1, <1>2 DEF SentChange, Departs

LEMMA ServedSent ==
    ASSUME Base, SentSound, Served
    PROVE  SentSound'
<1>1. /\ TypeOK /\ run' = run /\ SentChange /\ Late \in Handler /\ Late \notin Run
      /\ \A h \in Handler : HandlerSound(h) /\ HandlerChange(h)
  BY ConstantsAssumption DEF Base, HandlersSound, Served, Handler
<1>2. \A q \in Run : sent'[q] # Null => run'[q].pc \in {"proxy", "body"} \cup Over
  BY <1>1, Sender DEF SentChange, Departs, SentSound
<1>3. ASSUME NEW q \in Run, handler'[q] = Null PROVE handler[q] = Null
  <2>1. q \in Handler /\ q # Late /\ ~Answers(q) /\ ~Advances(q)
    BY <1>1, <1>3 DEF Handler, Answers, Advances
  <2> QED BY <1>1, <1>3, <2>1, HangType, NotNull, NewHandlerType DEF HandlerChange
<1>4. \A q \in Run : run'[q].pc = "proxy" /\ handler'[q] = Null => sent'[q] = Null
  BY <1>1, <1>3, Sender DEF SentChange, Departs, SentSound
<1>5. \A q \in Run : run'[q].pc = "body" => sent'[q] # Null
  BY <1>1 DEF SentChange, Departs, SentSound
<1>6. ASSUME NEW h \in Handler, handler'[h] # Null, handler'[h].ep = "proxy"
      PROVE  /\ handler'[h].at \in {"enter", "checked", "counted"} => sent'[handler'[h].run] = Null
             /\ handler'[h].at \in {"sent", "arrived", "stream"} => sent'[handler'[h].run] # Null
             /\ handler'[h].at = "answered" /\ Excuses(handler'[h].answer)
                  => sent'[handler'[h].run] = Null
  <2>1. CASE handler'[h] = handler[h]
    <3>1. PICK r \in Run : r = handler[h].run
      BY <1>1, <1>6, <2>1, HandlerFields
    <3>2. sent[r] # Null => sent'[r] # Null
      BY <1>1, SentStays
    <3>3. handler[h].at # "sent" => sent'[r] = sent[r]
      BY <1>1, <1>6, <2>1, <3>1, NotSent
    <3> QED BY <1>6, <2>1, <3>1, <3>2, <3>3 DEF SentSound
  <2>2. CASE h \in Run /\ handler'[h] = Hang(h)
    BY <1>6, <2>2, HangType
  <2>3. ASSUME h = Late, NEW r \in Run, TakesOver(r) PROVE ~Leaves(r) /\ handler'[h].run = r
    <3>1. handler[r].run = r
      BY <1>1, <2>3 DEF TakesOver, HandlerSound, Handler
    <3> QED BY <1>1, <2>3, <3>1 DEF TakesOver, Leaves, Is
  <2>4. CASE h = Late /\ \E r \in Run : TakesOver(r)
    <3>1. PICK r \in Run : TakesOver(r)
      BY <2>4
    <3>2. sent'[r] = sent[r] /\ handler'[h].run = r /\ handler[r].run = r
      BY <1>1, <2>3, <2>4, <3>1 DEF SentChange, Departs, TakesOver
    <3>3. handler[r] # Null /\ handler[r].ep = "proxy" /\ r \in Handler
          /\ handler'[h].at = (IF handler[r].at \in {"arrived", "stream"} THEN "sent" ELSE handler[r].at)
          /\ handler[r].at # "answered"
      BY <1>6, <2>4, <3>1 DEF TakesOver, Handler
    <3> QED BY <3>2, <3>3 DEF SentSound
  <2>5. ASSUME h \in Run, handler[h] = Null, NEW ep \in {"wait", "proxy"}, run[h].pc = ep,
               handler'[h] = NewHandler(ep, h)
        PROVE  handler'[h].at = "enter" /\ handler'[h].run = h /\ sent'[h] = Null
    <3>1. NewHandler(ep, h).at = "enter" /\ NewHandler(ep, h).run = h /\ NewHandler(ep, h).ep = ep
      BY <2>5, NewHandlerType
    <3>2. ep = "proxy" /\ sent[h] = Null
      BY <1>6, <2>5, <3>1 DEF SentSound
    <3> QED BY <1>1, <2>5, <3>1, <3>2, Sender DEF SentChange, Departs
  <2>6. CASE Answers(h)
    <3>1. /\ sent' = sent /\ handler[h] # Null /\ handler[h].ep = "proxy"
          /\ handler'[h].run = handler[h].run /\ handler'[h].at = "answered"
          /\ handler[h].at \notin {"answered", "arrived", "stream"}
          /\ handler[h].at = "sent" => handler'[h].answer \in {"upstream-unreachable", "upstream-timeout"}
      BY <1>6, <2>6 DEF Answers
    <3>2. handler[h].at \in {"enter", "checked", "counted", "sent"}
      BY <1>1, <3>1 DEF HandlerSound
    <3> QED BY <3>1, <3>2, Statuses DEF SentSound
  <2>7. CASE Advances(h)
    <3>1. /\ handler[h] # Null /\ handler[h].ep = "proxy" /\ handler'[h].run = handler[h].run
          /\ \/ handler[h].at \in {"enter", "checked"} /\ handler'[h].at \in {"checked", "counted"}
             \/ handler'[h].at = "sent" /\ sent'[handler[h].run] # Null
             \/ handler[h].at \in {"sent", "arrived"} /\ handler'[h].at \in {"arrived", "stream"}
      BY <1>6, <2>7 DEF Advances
    <3>2. PICK r \in Run : r = handler[h].run
      BY <1>1, <3>1, HandlerFields
    <3>3. sent[r] # Null => sent'[r] # Null
      BY <1>1, SentStays
    <3>4. handler'[h].at # "sent" => sent'[r] = sent[r]
      BY <1>1, <1>6, <3>1, <3>2, NotSent
    <3> QED BY <3>1, <3>2, <3>3, <3>4 DEF SentSound
  <2> QED BY <1>1, <1>6, <2>1, <2>2, <2>4, <2>5, <2>6, <2>7 DEF HandlerChange
<1>7. ASSUME handler'[Late] # Null, handler'[Late].ep = "proxy"
      PROVE  LET q == handler'[Late].run IN
             \/ run'[q].pc \in {"proxy", "body"} /\ handler'[q] # Null /\ handler'[q].at = "lost"
             \/ run'[q].pc \in Over /\ run'[q].exit = 1 /\ ~(Status(run'[q].why) < 500)
  <2>1. CASE handler[Late] # Null /\ handler'[Late].run = handler[Late].run
             /\ handler[Late].ep = "proxy"
    <3>1. PICK q \in Run : q = handler[Late].run
      BY <1>1, <2>1, HandlerFields
    <3>2. \/ run[q].pc \in {"proxy", "body"} /\ handler[q] # Null /\ handler[q].at = "lost"
          \/ run[q].pc \in Over /\ run[q].exit = 1 /\ ~(Status(run[q].why) < 500)
      BY <2>1, <3>1 DEF SentSound
    <3>3. handler[q] # Null /\ handler[q].at = "lost" => handler'[q] # Null /\ handler'[q].at = "lost"
      BY <1>1, Hanging DEF Handler
    <3> QED BY <1>1, <2>1, <3>1, <3>2, <3>3
  <2>2. ASSUME NEW r \in Run, TakesOver(r)
        PROVE  LET q == handler'[Late].run IN
               run'[q].pc \in {"proxy", "body"} /\ handler'[q] # Null /\ handler'[q].at = "lost"
    <3>1. handler[r] # Null /\ handler[r].ep = "proxy" /\ handler'[r] = Hang(r)
          /\ handler'[Late].run = handler[r].run
      BY <1>7, <2>2 DEF TakesOver
    <3>2. handler[r].run = r /\ run[r].pc \in {"proxy", "body"}
      BY <1>1, <3>1 DEF HandlerSound, Handler
    <3> QED BY <1>1, <3>1, <3>2, HangType, NotNull
  <2>3. Advances(Late) \/ handler'[Late] = handler[Late] =>
          handler[Late] # Null /\ handler'[Late].run = handler[Late].run /\ handler[Late].ep = "proxy"
    BY <1>7 DEF Advances
  <2>4. HandlerChange(Late) /\ ~Answers(Late)
    BY <1>1 DEF Answers
  <2> QED BY <1>1, <1>7, <2>1, <2>2, <2>3, <2>4 DEF HandlerChange
<1> QED BY <1>2, <1>4, <1>5, <1>6, <1>7 DEF SentSound

LEMMA SentSoundStep ==
    ASSUME Base, SentSound, Next
    PROVE  SentSound'
BY StepKinds, ProgressSent, ServedSent

-----------------------------------------------------------------------------
(* How runs end.                                                           *)

LEMMA StoredKept ==
    ASSUME TypeOK, Next
    PROVE  /\ stored' \in Run \cup {Null}
           /\ stored # Null => stored' = stored
<1>1. stored \in Run \cup {Null}
  BY DEF TypeOK
<1>2. ASSUME NEW r \in Run, Store(r)
      PROVE  stored' \in Run \cup {Null} /\ (stored # Null => stored' = stored)
  BY <1>1, <1>2 DEF Store
<1>3. ASSUME NEW r \in Run, NEW a, Start(r, a) PROVE stored' = stored
  BY <1>3 DEF Start, server
<1>4. ASSUME NEW r \in Run, ClientStep(r) \/ GiveUpWaiting(r) \/ Lose(r), ~Store(r)
      PROVE  stored' = stored
  BY <1>4 DEF ClientStep, CheckGrant, Prepare, NoBearer, Create, ReadGrant, Report, SendWait,
     WaitAnswered, SendProxy, ProxyAnswered, ProxyResponds, BodyEnds, BodyBreaks, GiveUpWaiting,
     Lose, server
<1>5. ASSUME NEW h \in Handler,
             ServerStep(h) \/ UpstreamAnswers(h) \/ UpstreamBreaks(h) \/ LateStep
      PROVE  stored' = stored
  BY <1>5 DEF ServerStep, LateStep, UpstreamAnswers, UpstreamBreaks, WaitEnter, WaitCheck, Poll,
     WaitRead, ProxyEnter, ProxyCount, ProxyForward, ProxyRelay, ProxyDeadline, DropLate
<1>6. ASSUME NEW k, EndGrant(k) \/ Expire(k) \/ (\E s \in {"approved", "denied"} : Resolve(k, s))
      PROVE  stored' = stored
  BY <1>6 DEF EndGrant, Expire, Resolve
<1>7. Restart => stored' = stored
  BY DEF Restart
<1>8. Run \subseteq Handler /\ Late \in Handler
  BY DEF Handler
<1> QED BY <1>1, <1>2, <1>3, <1>4, <1>5, <1>6, <1>7, <1>8 DEF Next, SweepRequests

LEMMA StopsEnd ==
    ASSUME Base, SentSound, NEW r \in Run, Stops(r), sent' = sent
    PROVE  EndSound(r)'
<1>1. TypeOK /\ RunSound(r) /\ r \in Handler
  BY DEF Base, RunsSound, Handler
<1>2. ASSUME NEW code, NEW why, Ends(r, code, why),
             code \in 2..5 \/ Status(why) < 500 => sent[r] = Null,
             code = 0 /\ run[r].args.cmd = "curl" => sent[r] # Null /\ run[r].response # Null,
             code = 0 /\ run[r].args.cmd = "store" => stored' = r
      PROVE  EndSound(r)'
  BY <1>2 DEF Ends, EndOf, EndSound
<1>3. run[r].pc \in Early => sent[r] = Null
  BY DEF SentSound, Early, Over
<1>4. ASSUME run[r].pc \in Early, NEW code \in 1..5, NEW why \in Whys, Ends(r, code, why)
      PROVE  EndSound(r)'
  <2>1. code # 0
    OBVIOUS
  <2> QED BY <1>2, <1>3, <1>4, <2>1
<1>5. CASE run[r].pc = "read" /\ Ends(r, 0, "value")
  <2>1. run[r].args.cmd = "request" /\ run[r].pc \in Early
    BY <1>1, <1>5 DEF RunSound, Early
  <2> QED BY <1>2, <1>3, <1>5, <2>1
<1>6. CASE run[r].pc = "store" /\ stored' = r /\ Ends(r, 0, "stored")
  <2>1. run[r].args.cmd = "store" /\ run[r].pc \in Early
    BY <1>1, <1>6 DEF RunSound, Early
  <2> QED BY <1>2, <1>3, <1>6, <2>1
<1>7. CASE run[r].pc = "proxy" /\ handler[r] = Null /\ Ends(r, 2, "unauthenticated")
  <2>1. sent[r] = Null
    BY <1>7 DEF SentSound
  <2> QED BY <1>2, <1>7, <2>1
<1>8. CASE /\ run[r].pc = "proxy" /\ handler[r] # Null /\ handler[r].at = "answered"
           /\ handler[r].ep = "proxy" /\ Ends(r, ProxyExitFor(handler[r].answer), handler[r].answer)
  <2>1. PICK code \in 1..5, why \in {handler[r].answer} : code = ProxyExitFor(why)
    BY ExitCodes
  <2>2. Ends(r, code, why) /\ code # 0
    BY <1>8, <2>1
  <2>3. handler[r].run = r
    BY <1>1, <1>8 DEF Base, HandlersSound, HandlerSound
  <2>4. code \in 2..5 \/ Status(why) < 500 => sent[r] = Null
    BY <1>1, <1>8, <2>1, <2>3 DEF SentSound, Excuses
  <2> QED BY <1>2, <2>2, <2>4
<1>9. CASE Ends(r, 1, "transport") \/ Ends(r, 1, "truncated")
  BY <1>2, <1>9, Statuses
<1>10. CASE Fails(r)
  <2>1. PICK got : EndOf(got, run'[r], 1, "failed-response") /\ got.fresh = run[r].fresh
    BY <1>1, <1>10, RunFields DEF Fails, RunState
  <2> QED BY <2>1, Statuses DEF EndOf, EndSound
<1>11. CASE run[r].pc = "body" /\ Ends(r, 0, "response")
  <2>1. sent[r] # Null /\ run[r].response # Null /\ run[r].args.cmd = "curl"
    BY <1>1, <1>11 DEF SentSound, RunSound
  <2> QED BY <1>2, <1>11, <2>1, Statuses
<1> QED BY <1>4, <1>5, <1>6, <1>7, <1>8, <1>9, <1>10, <1>11 DEF Stops

LEMMA EndsSoundStep ==
    ASSUME Base, SentSound, EndsSound, Next
    PROVE  EndsSound'
<1>1. TypeOK /\ (stored # Null => stored' = stored) /\ \A r \in Run : EndSound(r) /\ r # Null
  BY StoredKept, NullAssumption DEF Base, EndsSound, EndSound
<1>2. ASSUME NEW q \in Run, run'[q] = run[q],
             sent'[q] = sent[q] \/ (sent'[q] # Null /\ Leaves(q))
      PROVE  EndSound(q)'
  <2>1. ASSUME run[q].pc \in Over, Leaves(q) PROVE run[q].exit = 1 /\ ~(Status(run[q].why) < 500)
    <3>1. PICK h \in Handler : Is(h, "proxy", "counted") /\ handler[h].run = q
      BY <2>1 DEF Leaves
    <3>2. handler[h] # Null /\ handler[h].ep = "proxy" /\ HandlerSound(h)
      BY <3>1 DEF Is, Base, HandlersSound
    <3>3. h \notin Run
      BY <2>1, <3>1, <3>2 DEF HandlerSound, Over
    <3>4. h = Late
      BY <3>3 DEF Handler
    <3> QED BY <2>1, <3>1, <3>2, <3>4 DEF SentSound, Over
  <2> QED BY <1>1, <1>2, <2>1 DEF EndSound
<1>3. CASE Served
  BY <1>2, <1>3 DEF Served, SentChange, Departs, EndsSound, EndSound
<1>4. ASSUME NEW r \in Run, Progress(r) PROVE EndsSound'
  <2>1. Alone(r) /\ sent' = sent
    BY <1>4 DEF Progress
  <2>2. \A q \in Run \ {r} : EndSound(q)'
    BY <1>2, <2>1 DEF Alone
  <2>3. EndSound(r)'
    <3>1. CASE Begins(r)
      <4>1. sent[r] = Null
        BY <3>1 DEF Begins, SentSound, Over
      <4> QED BY <2>1, <3>1, <4>1 DEF Begins, EndSound, Over
    <3>2. CASE Proceeds(r) \/ Streams(r)
      BY <3>2 DEF Proceeds, Goes, Freshens, Streams, EndSound, Over
    <3>3. CASE Stops(r)
      BY <2>1, <3>3, StopsEnd
    <3>4. CASE Reports(r)
      BY <1>1, <2>1, <3>4 DEF Reports, EndSound, Over
    <3> QED BY <1>4, <3>1, <3>2, <3>3, <3>4 DEF Progress
  <2> QED BY <2>2, <2>3 DEF EndsSound, EndSound
<1> QED BY <1>3, <1>4, StepKinds

-----------------------------------------------------------------------------
(* An approval serves the call it was asked for.                           *)

LEMMA OwnMethod ==
    ASSUME NEW a, Method(a) # Null
    PROVE  Upper(Method(a)) = Method(a) /\ Method(a) # "TRACE"
<1>1. CASE a.method # Null
  <2>1. Method(a) = NormalizeMethod(a.method)
    BY <1>1 DEF Method, BodyIsSupplied
  <2> QED BY <2>1, UpperAssumption DEF NormalizeMethod
<1>2. CASE a.method = Null
  <2>1. Method(a) \in {"POST", "GET"}
    BY <1>2 DEF Method
  <2> QED BY <2>1, UpperAssumption
<1> QED BY <1>1, <1>2

LEMMA OwnPath ==
    ASSUME NEW p, Canonical(p) # Null
    PROVE  Canonical(Wire(p)) = p.segs /\ Canonical(p) = p.segs
BY DEF Canonical, Wire

LEMMA CoversItself ==
    ASSUME NEW s \in Seq(STRING)
    PROVE  Covered(s, s)
<1>1. Len(s) \in Nat
  OBVIOUS
<1> QED BY <1>1 DEF Covered, IsPrefix

\* validate_grant_options and constraints_for against the checks of the broker.
LEMMA JudgedServed ==
    ASSUME NEW a \in Usable, a.cmd = "curl", a.grant = Null, NEW inject
    PROVE  Judged(Asked(a).limits, CallOf(a), inject) \notin Refusals
<1>1. CurlUsage(a)
  BY DEF Usable, Usage
<1>2. PICK t : t = ParseTarget(a.url) /\ t # Null
  BY <1>1 DEF CurlUsage
<1>3. t.path = a.url.path
  BY <1>2 DEF ParseTarget
<1>4. PICK m : m = Method(a) /\ m # Null /\ Upper(m) = m /\ m # "TRACE"
  BY <1>1, OwnMethod DEF CurlUsage
<1>5. Canonical(t.path) # Null /\ (a.prefixes # {} => PrefixesServe(a.prefixes, t.path))
  BY <1>1, <1>2, <1>4 DEF CurlUsage, ValidGrantOptions
<1>6. PICK s : s = t.path.segs /\ s = Canonical(t.path) /\ s = Canonical(Wire(t.path)) /\ s # Null
  BY <1>5, OwnPath
<1>7. s \in Seq(STRING)
  BY <1>3, <1>6, CommandLinesAssumption DEF Usable
<1>8. PICK c : c = ConstraintsFor(t, m, a) /\ c = Asked(a).limits
  BY <1>2, <1>4 DEF Asked
<1>9. m \in c.methods /\ c.prefixes = IF a.prefixes = {} THEN {t.path} ELSE a.prefixes
  BY <1>8 DEF ConstraintsFor
<1>10. \E p \in c.prefixes : Covered(Canonical(p), s)
  <2>1. CASE a.prefixes = {}
    BY <1>6, <1>7, <1>9, <2>1, CoversItself
  <2>2. CASE a.prefixes # {}
    BY <1>5, <1>6, <1>9, <2>2 DEF PrefixesServe
  <2> QED BY <2>1, <2>2
<1>11. PICK call : call = CallOf(a) /\ call.method = m /\ call.path = t.path
  <2>1. CallOf(a) = [method |-> m, origin |-> t.origin, path |-> t.path, query |-> t.query,
                     headers |-> SentHeaders(a), body |-> a.body, noAgent |-> SuppressUserAgent(a)]
    BY <1>2, <1>4 DEF CallOf
  <2> QED BY <2>1
<1>12. Judged(c, call, inject) \notin Refusals
  BY <1>4, <1>6, <1>9, <1>10, <1>11 DEF Judged, Refusals
<1> QED BY <1>8, <1>11, <1>12

LEMMA AnswersSoundStep ==
    ASSUME Base, AnswersSound, Next
    PROVE  AnswersSound'
<1>1. TypeOK /\ Late \notin Run /\ \A r \in Run : RunSound(r) /\ r \in Handler /\ HandlerSound(r)
  BY ConstantsAssumption DEF Base, RunsSound, HandlersSound, Handler
<1>2. ASSUME NEW q \in Run, run'[q] = run[q],
             run[q].fresh /\ handler'[q] # Null => handler'[q].answer \notin Refusals
      PROVE  /\ run'[q].fresh => run'[q].why \notin Refusals
             /\ run'[q].fresh /\ handler'[q] # Null => handler'[q].answer \notin Refusals
  BY <1>2 DEF AnswersSound, ApprovalServesCall, Refusals
<1>3. CASE Served
  <2>1. run' = run /\ \A h \in Handler : HandlerChange(h)
    BY <1>3 DEF Served
  <2>2. ASSUME NEW q \in Run, run[q].fresh, handler'[q] # Null
        PROVE  handler'[q].answer \notin Refusals
    <3>1. q # Late /\ HandlerChange(q)
      BY <1>1, <2>1
    <3>2. CASE handler'[q] = handler[q] \/ Advances(q)
      BY <2>2, <3>2 DEF AnswersSound, Advances
    <3>3. CASE handler'[q] = Hang(q) \/ \E ep \in {"wait", "proxy"} : handler'[q] = NewHandler(ep, q)
      BY <3>3, HangType, NewHandlerType DEF Refusals
    <3>4. CASE Answers(q)
      <4>1. handler[q] # Null /\ handler[q].ep = "proxy" /\ handler[q].run = q
        BY <1>1, <2>2, <3>4 DEF Answers, HandlerSound, RunSound, Over
      <4>2. PICK a \in Usable : a = run[q].args /\ a.cmd = "curl" /\ a.grant = Null
        BY <1>1, <2>2 DEF RunSound
      <4>3. Row(q).asked = Asked(a) /\ Call(q) = CallOf(a)
        <5>1. Row(q).asked = Expected(a)
          BY <1>1, <4>1, <4>2, HandlerBacked
        <5> QED BY <4>1, <4>2, <5>1 DEF Expected, Call
      <4> QED BY <3>4, <4>1, <4>2, <4>3, JudgedServed DEF Answers
    <3> QED BY <3>1, <3>2, <3>3, <3>4 DEF HandlerChange
  <2>3. \A q \in Run : /\ run'[q].fresh => run'[q].why \notin Refusals
                       /\ run'[q].fresh /\ handler'[q] # Null => handler'[q].answer \notin Refusals
    BY <1>2, <2>1, <2>2
  <2> QED BY <2>3 DEF AnswersSound, ApprovalServesCall, Refusals
<1>4. ASSUME NEW r \in Run, Progress(r) PROVE AnswersSound'
  <2>1. /\ \A q \in Run \ {r} : run'[q] = run[q] /\ handler'[q] = handler[q]
        /\ handler'[r] # Null => handler'[r] = handler[r]
    BY <1>1, <1>4 DEF Progress, Alone
  <2>2. \A q \in Run \ {r} :
          /\ run'[q].fresh => run'[q].why \notin Refusals
          /\ run'[q].fresh /\ handler'[q] # Null => handler'[q].answer \notin Refusals
    BY <1>2, <2>1 DEF AnswersSound
  <2>3. /\ run'[r].fresh => run'[r].why \notin Refusals
        /\ run'[r].fresh /\ handler'[r] # Null => handler'[r].answer \notin Refusals
    <3>1. /\ run[r].fresh => run[r].why \notin Refusals
          /\ run[r].fresh /\ handler[r] # Null => handler[r].answer \notin Refusals
          /\ run[r].pc \in Working => run[r].why = "none"
          /\ run[r].fresh => run[r].pc \in {"proxy", "body"} \cup Over
      BY <1>1 DEF AnswersSound, ApprovalServesCall, Refusals, RunSound
    <3>2. CASE handler'[r] = Null /\ (Begins(r) \/ Reports(r))
      BY <3>1, <3>2 DEF Begins, Reports
    <3>3. CASE handler'[r] = handler[r] /\ Streams(r)
      BY <3>1, <3>3 DEF Streams
    <3>4. CASE handler'[r] = Null /\ Proceeds(r)
      <4>1. run[r].why = "none" /\ run'[r].why = run[r].why
        BY <3>1, <3>4 DEF Proceeds, Goes, Freshens, Working
      <4> QED BY <3>4, <4>1 DEF Refusals
    <3>5. CASE handler'[r] = Null /\ Stops(r)
      <4>1. run'[r].fresh = run[r].fresh
        BY <3>5, StopsShape DEF StopShape
      <4>2. SUFFICES ASSUME run[r].fresh PROVE run'[r].why \notin Refusals
        BY <3>5, <4>1
      <4>3. run[r].pc \in {"proxy", "body"}
        BY <3>1, <3>5, <4>2, StopsShape DEF StopShape, Working, Over
      <4>4. \/ run'[r].why \in {"unauthenticated", "transport", "failed-response", "response",
                                "truncated"}
            \/ handler[r] # Null /\ run'[r].why = handler[r].answer
        BY <3>5, <4>3 DEF Stops, Early, Ends, EndOf, Fails
      <4> QED BY <3>1, <4>2, <4>4 DEF Refusals
    <3> QED BY <1>4, <3>2, <3>3, <3>4, <3>5 DEF Progress
  <2> QED BY <2>2, <2>3 DEF AnswersSound, ApprovalServesCall, Refusals
<1> QED BY <1>3, <1>4, StepKinds

-----------------------------------------------------------------------------
(* The output file.                                                        *)

\* A run that prints a response, and what it may write over.
Prints(r) ==
    /\ run[r].args \in Usable /\ run[r].args.cmd = "curl"
    /\ run'[r].args = run[r].args /\ run'[r].response # Null
    /\ run[r].args.include \/ ~(run[r].args.fail /\ run'[r].response >= 400)

Opens(a) == files' = [files EXCEPT ![a.output] = Opened(a.output)]
Writes(a, content) == files' = Written(a, content)

Printed == {"head", "empty", "part", "new"}

LEMMA RespondsPrints ==
    ASSUME Base, NEW r \in Run, ProxyResponds(r)
    PROVE  \/ files' = files
           \/ (\E content \in Printed : Writes(run[r].args, content)) /\ Prints(r)
<1>1. /\ TypeOK /\ HandlersSound /\ Is(r, "proxy", "stream") /\ run[r].pc = "proxy"
      /\ RunSound(r) /\ r \in Handler /\ handler[r] # Null /\ handler[r].at = "stream"
  BY DEF Base, ProxyResponds, At, RunsSound, Handler, Is
<1>2. PICK status \in Nat : status = handler[r].reply.status /\ status # Null
  BY <1>1, ReplyStatus, NullAssumption
<1>3. run[r].args \in Usable /\ run[r].args.cmd = "curl" /\ ~handler[r].reply.marked
  BY <1>1 DEF RunSound, HandlersSound, HandlerSound, Working
<1>4. Fails(r) \/ Streams(r)
  BY <1>1, RespondsProgress DEF Progress, Begins, Proceeds, Stops, Reports, Early
<1>5. CASE Fails(r)
  <2>1. PICK got : /\ got = [run[r] EXCEPT !.response = status]
                   /\ EndOf(got, run'[r], 1, "failed-response")
    BY <1>2, <1>5 DEF Fails
  <2>2. got.args = run[r].args /\ got.response = status
    BY <1>1, <2>1, RunFields DEF RunState
  <2>3. run'[r].args = run[r].args /\ run'[r].response = status
    BY <2>1, <2>2 DEF EndOf
  <2>4. files' = IF run[r].args.include THEN Written(run[r].args, "head") ELSE files
    BY <1>3, <1>5 DEF ProxyResponds, Fails
  <2>5. CASE run[r].args.include
    <3>1. Prints(r)
      BY <1>2, <1>3, <2>3, <2>5 DEF Prints
    <3>2. Writes(run[r].args, "head")
      BY <2>4, <2>5 DEF Writes
    <3> QED BY <3>1, <3>2 DEF Printed
  <2>6. CASE ~run[r].args.include
    BY <2>4, <2>6
  <2> QED BY <2>5, <2>6
<1>6. CASE Streams(r)
  <2>1. files' = Written(run[r].args, "empty")
    BY <1>3, <1>6 DEF ProxyResponds, Streams
  <2> QED BY <1>2, <1>3, <1>6, <2>1 DEF Prints, Printed, Writes, Streams
<1> QED BY <1>4, <1>5, <1>6

LEMMA BodyPrints ==
    ASSUME Base, NEW r \in Run, BodyEnds(r) \/ BodyBreaks(r)
    PROVE  (\E content \in Printed : Writes(run[r].args, content)) /\ Prints(r)
<1>1. TypeOK /\ RunSound(r) /\ run[r].pc = "body"
  BY DEF Base, RunsSound, BodyEnds, BodyBreaks, At
<1>2. /\ run[r].args \in Usable /\ run[r].args.cmd = "curl" /\ run[r].response # Null
      /\ ~(run[r].args.fail /\ run[r].response >= 400)
  BY <1>1 DEF RunSound, Working
<1>3. Stops(r)
  BY <1>1, BodyProgress DEF Progress, Begins, Proceeds, Reports, Streams
<1>4. run'[r].args = run[r].args /\ run'[r].response = run[r].response
  BY <1>1, <1>3, StopsShape DEF StopShape
<1>5. \E content \in Printed : Writes(run[r].args, content)
  BY DEF BodyEnds, BodyBreaks, Printed, Writes
<1> QED BY <1>2, <1>4, <1>5 DEF Prints

LEMMA FilesChange ==
    ASSUME Base, Next
    PROVE  \/ files' = files
           \/ \E r \in Run : Opens(run[r].args)
           \/ \E r \in Run : (\E content \in Printed : Writes(run[r].args, content)) /\ Prints(r)
<1>1. ASSUME NEW r \in Run, NEW a, Start(r, a) PROVE files' = files
  BY <1>1 DEF Start
<1>2. ASSUME NEW r \in Run, Prepare(r) PROVE files' = files \/ Opens(run[r].args)
  BY <1>2 DEF Prepare, Opens
<1>3. ASSUME NEW r \in Run, ClientStep(r) \/ GiveUpWaiting(r) \/ Lose(r), ~Prepare(r),
             ~ProxyResponds(r), ~BodyEnds(r), ~BodyBreaks(r)
      PROVE  files' = files
  BY <1>3 DEF ClientStep, CheckGrant, NoBearer, Create, ReadGrant, Store, Report, SendWait,
     WaitAnswered, SendProxy, ProxyAnswered, GiveUpWaiting, Lose
<1>4. ASSUME NEW h \in Handler,
             ServerStep(h) \/ UpstreamAnswers(h) \/ UpstreamBreaks(h) \/ LateStep
      PROVE  files' = files
  BY <1>4 DEF ServerStep, LateStep, UpstreamAnswers, UpstreamBreaks, WaitEnter, WaitCheck, Poll,
     WaitRead, ProxyEnter, ProxyCount, ProxyForward, ProxyRelay, ProxyDeadline, DropLate
<1>5. ASSUME NEW k, EndGrant(k) \/ Expire(k) \/ (\E s \in {"approved", "denied"} : Resolve(k, s))
      PROVE  files' = files
  BY <1>5 DEF EndGrant, Expire, Resolve
<1>6. Restart => files' = files
  BY DEF Restart
<1>7. Run \subseteq Handler /\ Late \in Handler
  BY DEF Handler
<1> QED BY <1>1, <1>2, <1>3, <1>4, <1>5, <1>6, <1>7, RespondsPrints, BodyPrints
        DEF Next, SweepRequests

LEMMA FilesType ==
    ASSUME TypeOK
    PROVE  /\ DOMAIN files = {"out", "token"}
           /\ \A f \in DOMAIN files : files[f] \in Contents
BY DEF TypeOK

\* One file is opened or written.
LEMMA SetFile ==
    ASSUME TypeOK, NEW f, NEW content \in Contents, files' = [files EXCEPT ![f] = content]
    PROVE  /\ files' \in [out : Contents, token : Contents]
           /\ DOMAIN files' = {"out", "token"}
           /\ \A g \in DOMAIN files : g # f => files'[g] = files[g]
           /\ f \in DOMAIN files => files'[f] = content
BY DEF TypeOK

LEMMA FilesTypeStep ==
    ASSUME Base, Next
    PROVE  files' \in [out : Contents, token : Contents]
<1>1. TypeOK
  BY DEF Base
<1>2. ASSUME NEW a, Opens(a) PROVE files' \in [out : Contents, token : Contents]
  <2>1. CASE a.output \in DOMAIN files
    <3>1. PICK content \in Contents : content = Opened(a.output)
      BY <1>1, <2>1, FilesType DEF Opened, Contents
    <3> QED BY <1>1, <1>2, <3>1, SetFile DEF Opens
  <2>2. CASE a.output \notin DOMAIN files
    <3>1. files' = files
      BY <1>1, <1>2, <2>2 DEF Opens, TypeOK
    <3> QED BY <1>1, <3>1 DEF TypeOK
  <2> QED BY <2>1, <2>2
<1>3. ASSUME NEW a, NEW content \in Printed, Writes(a, content)
      PROVE  files' \in [out : Contents, token : Contents]
  <2>1. content \in Contents
    BY DEF Printed, Contents
  <2> QED BY <1>1, <1>3, <2>1, SetFile DEF Writes, Written, TypeOK
<1> QED BY <1>1, <1>2, <1>3, FilesChange DEF TypeOK

\* A response that was printed is not forgotten.
LEMMA ResponseKept ==
    ASSUME Base, Next, NEW q \in Run, run[q].response # Null
    PROVE  run'[q].response = run[q].response /\ run'[q].args = run[q].args
<1>1. run[q].pc \in {"body"} \cup Over
  BY DEF Base, RunsSound, RunSound
<1>2. CASE Served
  BY <1>2 DEF Served
<1>3. ASSUME NEW r \in Run, Progress(r)
      PROVE  run'[q].response = run[q].response /\ run'[q].args = run[q].args
  <2>1. CASE q # r
    BY <1>3, <2>1 DEF Progress, Alone
  <2>2. CASE q = r /\ Stops(r)
    BY <1>1, <2>2, StopsShape DEF StopShape, Over
  <2>3. CASE q = r /\ Reports(r)
    BY <2>3 DEF Reports
  <2> QED BY <1>1, <1>3, <2>1, <2>2, <2>3 DEF Progress, Begins, Proceeds, Streams, Over
<1> QED BY <1>2, <1>3, StepKinds

LEMMA OutputKeptStep ==
    ASSUME Base, OutputKept, Next
    PROVE  OutputKept'
<1> DEFINE Kept == {"absent", "created", "old"}
           Owner(f, r) == /\ run[r].args # Null /\ run[r].args.output = f
                          /\ run[r].response # Null
                          /\ run[r].args.include \/ ~(run[r].args.fail /\ run[r].response >= 400)
                          /\ f = "token" => run[r].args.override
<1>1. TypeOK /\ DOMAIN files = {"out", "token"} /\ DOMAIN files' = {"out", "token"}
  BY FilesType, FilesTypeStep DEF Base
<1>2. SUFFICES ASSUME NEW f \in {"out", "token"}, files'[f] \notin Kept
               PROVE  \E r \in Run : Owner(f, r)'
  BY <1>1 DEF OutputKept
<1>3. ASSUME files'[f] = files[f] PROVE \E r \in Run : Owner(f, r)'
  <2>1. PICK r \in Run : Owner(f, r)
    BY <1>1, <1>2, <1>3 DEF OutputKept
  <2>2. run'[r].response = run[r].response /\ run'[r].args = run[r].args
    BY <2>1, ResponseKept
  <2> QED BY <2>1, <2>2
<1>4. ASSUME NEW a, Opens(a) PROVE files'[f] = files[f]
  BY <1>1, <1>2, <1>4 DEF Opens, Opened, TypeOK
<1>5. ASSUME NEW r \in Run, NEW content \in Printed, Writes(run[r].args, content), Prints(r),
             files'[f] # files[f]
      PROVE  Owner(f, r)'
  <2>1. run[r].args.output = f
    <3>1. content \in Contents
      BY DEF Printed, Contents
    <3> QED BY <1>1, <1>5, <3>1, SetFile DEF Writes, Written
  <2>2. CurlUsage(run[r].args)
    BY <1>5 DEF Prints, Usable, Usage
  <2>3. f = "token" => run[r].args.override
    BY <2>1, <2>2 DEF CurlUsage, OverTokenFile
  <2>4. run[r].args # Null
    BY <1>5, UsableArgs DEF Prints
  <2> QED BY <1>5, <2>1, <2>3, <2>4 DEF Prints
<1> QED BY <1>3, <1>4, <1>5, FilesChange

-----------------------------------------------------------------------------
(* The slots.                                                              *)

Held(ep) == {h \in Handler : Holding(handler[h]) /\ handler[h].ep = ep}
Limit(ep) == IF ep = "wait" THEN MaxWaits ELSE MaxStreams
Endpoint == {"wait", "proxy"}

LEMMA SlotsHeld ==
    SlotsAccounted <=> \A ep \in Endpoint : slots[ep] = Cardinality(Held(ep))
                                            /\ slots[ep] <= Limit(ep)
BY DEF SlotsAccounted, Held, Limit, Endpoint

LEMMA HeldFinite ==
    ASSUME NEW ep
    PROVE  IsFiniteSet(Held(ep)) /\ Cardinality(Held(ep)) \in Nat
<1>1. IsFiniteSet(Handler)
  BY ConstantsAssumption, FS_AddElement DEF Handler
<1>2. Held(ep) \in SUBSET Handler
  BY DEF Held
<1>3. IsFiniteSet(Held(ep))
  BY <1>1, <1>2, FS_Subset
<1> QED BY <1>3, FS_CardinalityType

\* The counters and what they count, after a step.
Accounted == slots' \in [wait : Nat, proxy : Nat] /\ SlotsAccounted'

LEMMA SlotValues ==
    ASSUME TypeOK, NEW ep \in Endpoint
    PROVE  slots[ep] \in Nat /\ slots \in [Endpoint -> Nat]
BY DEF TypeOK, Endpoint

LEMMA SetSlot ==
    ASSUME TypeOK, NEW ep \in Endpoint, NEW n \in Nat, slots' = [slots EXCEPT ![ep] = n]
    PROVE  slots' \in [wait : Nat, proxy : Nat]
<1>1. CASE ep = "wait"
  BY <1>1 DEF TypeOK
<1>2. CASE ep = "proxy"
  BY <1>2 DEF TypeOK
<1> QED BY <1>1, <1>2 DEF Endpoint

LEMMA SlotsSame ==
    ASSUME TypeOK, SlotsAccounted, slots' = slots,
           \A h \in Handler : (Holding(handler[h]) \/ Holding(handler'[h])) =>
               Holding(handler[h]) /\ Holding(handler'[h]) /\ handler'[h].ep = handler[h].ep
    PROVE  Accounted
<1>1. ASSUME NEW ep \in Endpoint PROVE Held(ep)' = Held(ep)
  BY DEF Held
<1>2. SlotsAccounted'
  BY <1>1 DEF SlotsAccounted, Held, Endpoint
<1> QED BY <1>2 DEF Accounted, TypeOK

\* h gives its slot back, if it has one.
LEMMA SlotsFreed ==
    ASSUME Base, SlotsAccounted, NEW h \in Handler, ~Holding(handler'[h]),
           \A g \in Handler \ {h} : handler'[g] = handler[g], slots' = Freed(handler[h])
    PROVE  Accounted
<1>1. TypeOK
  BY DEF Base
<1>2. CASE ~Holding(handler[h])
  BY <1>1, <1>2, SlotsSame DEF Freed
<1>3. CASE Holding(handler[h])
  <2>1. PICK at \in Endpoint : at = handler[h].ep
    BY <1>1, <1>3, HandlerFields DEF Holding, Base, HandlersSound, HandlerSound, Endpoint
  <2>2. slots' = [slots EXCEPT ![at] = @ - 1]
    BY <1>3, <2>1 DEF Freed
  <2>3. Held(at)' = Held(at) \ {h} /\ h \in Held(at)
    BY <1>3, <2>1 DEF Held
  <2>4. \A ep \in Endpoint \ {at} : Held(ep)' = Held(ep)
    BY <1>3, <2>1 DEF Held
  <2>5. PICK n \in Nat : n = Cardinality(Held(at)) /\ Cardinality(Held(at)') = n - 1
    <3>1. IsFiniteSet(Held(at)) /\ Cardinality(Held(at)) \in Nat
      BY HeldFinite
    <3>2. Cardinality(Held(at) \ {h}) = Cardinality(Held(at)) - 1
      BY <2>3, <3>1, FS_RemoveElement
    <3> QED BY <2>3, <3>1, <3>2
  <2>6. n # 0
    BY <2>3, <2>5, HeldFinite, FS_EmptySet
  <2>7. slots[at] = n /\ n <= Limit(at) /\ Limit(at) \in Nat
    BY <2>5, SlotsHeld, ConstantsAssumption DEF Limit
  <2>8. slots'[at] = n - 1 /\ n - 1 \in Nat /\ \A ep \in Endpoint \ {at} : slots'[ep] = slots[ep]
    BY <1>1, <2>2, <2>6, <2>7, SlotValues
  <2>9. n - 1 <= Limit(at)
    BY <2>7
  <2>10. slots' \in [wait : Nat, proxy : Nat]
    <3>1. PICK m \in Nat : m = n - 1
      BY <2>8
    <3>2. slots' = [slots EXCEPT ![at] = m]
      BY <2>2, <2>7, <3>1
    <3> QED BY <1>1, <3>2, SetSlot
  <2>11. \A ep \in Endpoint : slots'[ep] = Cardinality(Held(ep)') /\ slots'[ep] <= Limit(ep)
    BY <2>4, <2>5, <2>8, <2>9, SlotsHeld
  <2>12. SlotsAccounted'
    BY <2>11 DEF SlotsAccounted, Held, Limit, Endpoint
  <2> QED BY <2>10, <2>12 DEF Accounted
<1> QED BY <1>2, <1>3

\* h takes a slot below the limit.
LEMMA SlotsTaken ==
    ASSUME Base, SlotsAccounted, NEW h \in Handler, NEW at \in Endpoint,
           ~Holding(handler[h]), Holding(handler'[h]), handler'[h].ep = at,
           \A g \in Handler \ {h} : handler'[g] = handler[g],
           slots' = Taken(at), slots[at] < Limit(at)
    PROVE  Accounted
<1>1. TypeOK
  BY DEF Base
<1>2. slots' = [slots EXCEPT ![at] = @ + 1]
  BY DEF Taken
<1>3. Held(at)' = Held(at) \cup {h} /\ h \notin Held(at)
  BY DEF Held
<1>4. \A ep \in Endpoint \ {at} : Held(ep)' = Held(ep)
  BY DEF Held
<1>5. PICK n \in Nat : n = Cardinality(Held(at)) /\ Cardinality(Held(at)') = n + 1
  <2>1. IsFiniteSet(Held(at)) /\ Cardinality(Held(at)) \in Nat
    BY HeldFinite
  <2>2. Cardinality(Held(at) \cup {h}) = Cardinality(Held(at)) + 1
    BY <1>3, <2>1, FS_AddElement
  <2> QED BY <1>3, <2>1, <2>2
<1>6. slots[at] = n /\ Limit(at) \in Nat
  BY <1>5, SlotsHeld, ConstantsAssumption DEF Limit
<1>7. slots'[at] = n + 1 /\ \A ep \in Endpoint \ {at} : slots'[ep] = slots[ep]
  BY <1>1, <1>2, <1>6, SlotValues
<1>8. n + 1 <= Limit(at)
  BY <1>6
<1>9. slots' \in [wait : Nat, proxy : Nat]
  <2>1. PICK m \in Nat : m = n + 1
    OBVIOUS
  <2>2. slots' = [slots EXCEPT ![at] = m]
    BY <1>2, <1>6, <2>1
  <2> QED BY <1>1, <2>2, SetSlot
<1>10. \A ep \in Endpoint : slots'[ep] = Cardinality(Held(ep)') /\ slots'[ep] <= Limit(ep)
  BY <1>4, <1>5, <1>7, <1>8, SlotsHeld
<1>11. SlotsAccounted'
  BY <1>10 DEF SlotsAccounted, Held, Limit, Endpoint
<1> QED BY <1>9, <1>11 DEF Accounted

\* The late handler has the slot of the one it takes over from.
LEMMA SlotsSwapped ==
    ASSUME Base, SlotsAccounted, NEW r \in Run, Swaps(r), slots' = slots
    PROVE  Accounted
<1>1. TypeOK /\ r \in Handler /\ Late \in Handler /\ r # Late
  BY ConstantsAssumption DEF Base, Handler
<1>2. PICK x \in HandlerState, y \in HandlerState : x = handler[r] /\ y = Lingering(x)
  BY <1>1, HandlerFields, LingeringType DEF Swaps
<1>3. x # Null /\ y # Null
  BY NotNull
<1>4. /\ handler'[r] = Hang(r) /\ handler'[Late] = y
      /\ \A h \in Handler \ {r, Late} : handler'[h] = handler[h]
  BY <1>1, <1>2, SwapHandlers
<1>5. Hang(r).at = "lost" /\ handler[Late] = Null /\ x.at \notin {"lost", "answered"}
  BY <1>2, HangType DEF Swaps
<1>6. y.ep = x.ep /\ (Holding(y) <=> Holding(x))
  <2>1. x.ep = "wait" => y.at = (IF x.at = "enter" THEN x.at ELSE "check")
    BY <1>2, LingeringType
  <2>2. x.ep # "wait" => y.at = (IF x.at \in {"arrived", "stream"} THEN "sent" ELSE x.at)
    BY <1>2, LingeringType
  <2>3. y.ep = x.ep
    BY <1>2, LingeringType
  <2> QED BY <1>3, <1>5, <2>1, <2>2, <2>3 DEF Holding
<1>7. ~Holding(handler'[r]) /\ ~Holding(handler[Late])
  BY <1>4, <1>5 DEF Holding
<1>8. CASE ~Holding(x)
  BY <1>1, <1>2, <1>4, <1>6, <1>7, <1>8, SlotsSame
<1>9. CASE Holding(x)
  <2>1. \A ep \in Endpoint : x.ep # ep => Held(ep)' = Held(ep)
    BY <1>1, <1>2, <1>4, <1>6, <1>7, <1>9 DEF Held
  <2>2. ASSUME NEW ep \in Endpoint, x.ep = ep PROVE Cardinality(Held(ep)') = Cardinality(Held(ep))
    <3>1. PICK rest : rest = Held(ep) \ {r}
      OBVIOUS
    <3>2. r \in Held(ep) /\ Late \notin Held(ep) /\ Late \notin rest
      BY <1>1, <1>2, <1>7, <1>9, <2>2, <3>1 DEF Held
    <3>3. Held(ep)' = rest \cup {Late}
      BY <1>1, <1>2, <1>4, <1>6, <1>7, <1>9, <2>2, <3>1 DEF Held
    <3>4. IsFiniteSet(rest) /\ Cardinality(rest) = Cardinality(Held(ep)) - 1
      BY <3>1, <3>2, HeldFinite, FS_RemoveElement
    <3>5. Cardinality(rest \cup {Late}) = Cardinality(rest) + 1
      BY <3>2, <3>4, FS_AddElement
    <3>6. Cardinality(Held(ep)) \in Nat
      BY HeldFinite
    <3> QED BY <3>3, <3>4, <3>5, <3>6
  <2>3. \A ep \in Endpoint : Cardinality(Held(ep)') = Cardinality(Held(ep))
    BY <2>1, <2>2
  <2>4. SlotsAccounted'
    BY <2>3, SlotsHeld DEF SlotsAccounted, Held, Limit, Endpoint
  <2> QED BY <1>1, <2>4 DEF Accounted, TypeOK
<1> QED BY <1>8, <1>9

LEMMA ReplySlots ==
    ASSUME Base, SlotsAccounted, NEW h \in Handler, handler[h] # Null, NEW code, Reply(h, code)
    PROVE  Accounted
<1>1. TypeOK /\ h \in DOMAIN handler /\ slots' = Freed(handler[h])
      /\ \A g \in Handler \ {h} : handler'[g] = handler[g]
  BY DEF Base, TypeOK, Reply
<1>2. ~Holding(handler'[h])
  <2>1. CASE h = Late
    BY <1>1, <2>1 DEF Reply, Holding
  <2>2. CASE h # Late
    <3>1. PICK y : y = [handler[h] EXCEPT !.at = "answered", !.answer = code, !.seen = "none",
                                          !.inject = Null, !.reply = Null]
      OBVIOUS
    <3>2. handler'[h] = y
      BY <1>1, <2>2, <3>1 DEF Reply
    <3>3. y.at = "answered"
      BY <1>1, <3>1, HandlerFields DEF HandlerState
    <3> QED BY <3>2, <3>3 DEF Holding
  <2> QED BY <2>1, <2>2
<1> QED BY <1>1, <1>2, SlotsFreed

\* h moves on and keeps its slot.
LEMMA MoveSlots ==
    ASSUME Base, SlotsAccounted, NEW h \in Handler, Holding(handler[h]), NEW y \in HandlerState,
           Step(h, y), y.ep = handler[h].ep, y.at \notin {"enter", "answered", "lost"},
           slots' = slots
    PROVE  Accounted
<1>1. TypeOK
  BY DEF Base
<1>2. handler'[h] = y /\ \A g \in Handler \ {h} : handler'[g] = handler[g]
  BY <1>1, SetHandler
<1>3. Holding(y)
  BY NotNull DEF Holding
<1> QED BY <1>1, <1>2, <1>3, SlotsSame

\* h enters, below the limit.
LEMMA TakeSlots ==
    ASSUME Base, SlotsAccounted, NEW h \in Handler, NEW at \in Endpoint,
           handler[h].at = "enter", NEW y \in HandlerState, Step(h, y),
           y.ep = at, y.at \notin {"enter", "answered", "lost"},
           slots' = Taken(at), ~(slots[at] >= Limit(at))
    PROVE  Accounted
<1>1. TypeOK
  BY DEF Base
<1>2. handler'[h] = y /\ \A g \in Handler \ {h} : handler'[g] = handler[g]
  BY <1>1, SetHandler
<1>3. Holding(y) /\ ~Holding(handler[h])
  BY NotNull DEF Holding
<1>4. slots[at] < Limit(at)
  <2>1. slots[at] \in Nat /\ Limit(at) \in Nat
    BY <1>1, SlotValues, ConstantsAssumption DEF Limit
  <2> QED BY <2>1
<1> QED BY <1>2, <1>3, <1>4, SlotsTaken

LEMMA WaitSlots ==
    ASSUME Base, SlotsAccounted, NEW h \in Handler,
           WaitEnter(h) \/ WaitCheck(h) \/ Poll(h) \/ WaitRead(h)
    PROVE  Accounted
<1>1. TypeOK /\ handler[h] # Null /\ handler[h].ep = "wait"
  BY DEF Base, WaitEnter, WaitCheck, Poll, WaitRead, Is
<1>2. ASSUME NEW code, Reply(h, code) PROVE Accounted
  BY <1>1, <1>2, ReplySlots
<1>3. ASSUME NEW at \in {"asleep", "woken"}, Step(h, [handler[h] EXCEPT !.at = at]),
             handler[h].at \in {"check", "asleep"}, slots' = slots
      PROVE  Accounted
  <2>1. PICK y \in HandlerState : y = [handler[h] EXCEPT !.at = at] /\ y.at = at
                                  /\ y.ep = handler[h].ep
    BY <1>1, AtHandler
  <2>2. Step(h, y)
    BY <1>3, <2>1
  <2>3. Holding(handler[h])
    BY <1>1, <1>3 DEF Holding
  <2> QED BY <1>3, <2>1, <2>2, <2>3, MoveSlots
<1>4. ASSUME Step(h, [handler[h] EXCEPT !.at = "check", !.seen = Row(h).state])
      PROVE  \E y \in HandlerState : y.at = "check" /\ y.ep = "wait" /\ Step(h, y)
  <2>1. PICK state \in States : state = Row(h).state
    BY <1>1, HandlerBacked
  <2>2. PICK y \in HandlerState : /\ y = [handler[h] EXCEPT !.at = "check", !.seen = state]
                                  /\ y.at = "check" /\ y.ep = handler[h].ep
    BY <1>1, SeenHandler
  <2> QED BY <1>1, <1>4, <2>1, <2>2
<1>5. CASE WaitEnter(h)
  <2>1. CASE slots.wait >= MaxWaits
    BY <1>2, <1>5, <2>1 DEF WaitEnter
  <2>2. CASE ~(slots.wait >= MaxWaits)
    <3>1. slots' = Taken("wait") /\ handler[h].at = "enter"
      BY <1>5, <2>2 DEF WaitEnter, Is
    <3>2. PICK y \in HandlerState : y.at = "check" /\ y.ep = "wait" /\ Step(h, y)
      BY <1>4, <1>5, <2>2 DEF WaitEnter
    <3>3. ~(slots["wait"] >= Limit("wait")) /\ "wait" \in Endpoint
      BY <2>2 DEF Limit, Endpoint
    <3> QED BY <3>1, <3>2, <3>3, TakeSlots
  <2> QED BY <2>1, <2>2
<1>6. CASE WaitCheck(h) \/ Poll(h)
  BY <1>2, <1>3, <1>6 DEF WaitCheck, Poll, Is
<1>7. CASE WaitRead(h)
  <2>1. CASE Reply(h, "internal")
    BY <1>2, <2>1
  <2>2. CASE Step(h, [handler[h] EXCEPT !.at = "check", !.seen = Row(h).state]) /\ slots' = slots
    <3>1. PICK y \in HandlerState : y.at = "check" /\ y.ep = "wait" /\ Step(h, y)
      BY <1>4, <2>2
    <3>2. Holding(handler[h])
      BY <1>1, <1>7 DEF WaitRead, Is, Holding
    <3> QED BY <1>1, <2>2, <3>1, <3>2, MoveSlots
  <2> QED BY <1>7, <2>1, <2>2 DEF WaitRead
<1> QED BY <1>5, <1>6, <1>7

LEMMA EnterSlots ==
    ASSUME Base, SlotsAccounted, NEW h \in Handler, ProxyEnter(h)
    PROVE  Accounted
<1>1. TypeOK /\ handler[h] # Null /\ handler[h].ep = "proxy" /\ handler[h].at = "enter"
  BY DEF Base, ProxyEnter, Is
<1>2. ASSUME NEW code, Reply(h, code) PROVE Accounted
  BY <1>1, <1>2, ReplySlots
<1>3. ASSUME NEW inject \in Injections, slots.proxy < MaxStreams, slots' = Taken("proxy"),
             Step(h, [handler[h] EXCEPT !.at = "checked", !.inject = inject])
      PROVE  Accounted
  <2>1. PICK y \in HandlerState : /\ y = [handler[h] EXCEPT !.at = "checked", !.inject = inject]
                                  /\ y.at = "checked" /\ y.ep = handler[h].ep
    <3>1. PICK y : y = [handler[h] EXCEPT !.at = "checked", !.inject = inject]
      OBVIOUS
    <3>2. y \in HandlerState /\ y.at = "checked" /\ y.ep = handler[h].ep
      BY <1>1, <3>1, CheckedHandler
    <3> QED BY <3>1, <3>2
  <2>2. Step(h, y)
    BY <1>3, <2>1
  <2>3. "proxy" \in Endpoint /\ Limit("proxy") = MaxStreams
    BY DEF Limit, Endpoint
  <2>4. slots["proxy"] \in Nat /\ MaxStreams \in Nat
    BY <1>1, <2>3, SlotValues, ConstantsAssumption
  <2>5. ~(slots["proxy"] >= Limit("proxy"))
    BY <1>3, <2>3, <2>4
  <2> QED BY <1>1, <1>3, <2>1, <2>2, <2>3, <2>5, TakeSlots
<1> QED BY <1>2, <1>3 DEF ProxyEnter

LEMMA ProxySlots ==
    ASSUME Base, SlotsAccounted, NEW h \in Handler,
           \/ ProxyCount(h) \/ ProxyForward(h) \/ UpstreamAnswers(h) \/ UpstreamBreaks(h)
           \/ ProxyRelay(h) \/ ProxyDeadline(h)
    PROVE  Accounted
<1>1. TypeOK /\ handler[h] # Null /\ handler[h].ep = "proxy"
  BY DEF Base, ProxyCount, ProxyForward, UpstreamAnswers, UpstreamBreaks, ProxyRelay,
     ProxyDeadline, Is, Armed
<1>2. ASSUME NEW code, Reply(h, code) PROVE Accounted
  BY <1>1, <1>2, ReplySlots
<1>3. CASE ProxyCount(h) /\ Step(h, [handler[h] EXCEPT !.at = "counted"]) /\ slots' = slots
  <2>1. PICK y \in HandlerState : y = [handler[h] EXCEPT !.at = "counted"] /\ y.at = "counted"
                                  /\ y.ep = handler[h].ep
    BY <1>1, AtHandler
  <2>2. Step(h, y) /\ Holding(handler[h])
    BY <1>1, <1>3, <2>1 DEF ProxyCount, Is, Holding
  <2> QED BY <1>3, <2>1, <2>2, MoveSlots
<1>4. CASE ProxyForward(h) /\ Step(h, [handler[h] EXCEPT !.at = "sent", !.inject = Null])
           /\ slots' = slots
  <2>1. PICK y \in HandlerState : /\ y = [handler[h] EXCEPT !.at = "sent", !.inject = Null]
                                  /\ y.at = "sent" /\ y.ep = handler[h].ep
    BY <1>1, SentHandler
  <2>2. Step(h, y) /\ Holding(handler[h])
    BY <1>1, <1>4, <2>1 DEF ProxyForward, Is, Holding
  <2> QED BY <1>4, <2>1, <2>2, MoveSlots
<1>5. CASE UpstreamAnswers(h)
  <2>1. PICK y \in HandlerState : Step(h, y) /\ y.ep = handler[h].ep /\ y.at = "arrived"
    BY <1>1, <1>5, ArrivedHandler
  <2>2. Holding(handler[h]) /\ slots' = slots
    BY <1>1, <1>5 DEF UpstreamAnswers, Is, Holding
  <2> QED BY <2>1, <2>2, MoveSlots
<1>6. CASE ProxyRelay(h)
  <2>1. handler[h].at = "arrived" /\ handler[h].reply \in UpstreamReply
    BY <1>1, <1>6, HandlerFields DEF ProxyRelay, Is, Base, HandlersSound, HandlerSound
  <2>2. PICK reply \in UpstreamReply : reply = Relayed(handler[h].reply)
    <3>1. Relayed(handler[h].reply) \in UpstreamReply
      BY <2>1 DEF Relayed, UpstreamReply
    <3> QED BY <3>1
  <2>3. PICK y \in HandlerState : /\ y = [handler[h] EXCEPT !.at = "stream", !.reply = reply]
                                  /\ y.at = "stream" /\ y.ep = handler[h].ep
    BY <1>1, StreamHandler
  <2>4. Step(h, y) /\ Holding(handler[h]) /\ slots' = slots
    BY <1>1, <1>6, <2>1, <2>2, <2>3 DEF ProxyRelay, Holding
  <2> QED BY <2>3, <2>4, MoveSlots
<1> QED BY <1>2, <1>3, <1>4, <1>5, <1>6 DEF ProxyCount, ProxyForward, UpstreamBreaks, ProxyDeadline

\* A handler that goes away, dropped or done.
LEMMA GoneSlots ==
    ASSUME Base, SlotsAccounted, NEW h \in Handler, NEW x \in HandlerState \cup {Null},
           Step(h, x), ~Holding(x), slots' = Freed(handler[h])
    PROVE  Accounted
<1>1. handler'[h] = x /\ \A g \in Handler \ {h} : handler'[g] = handler[g]
  BY SetHandler DEF Base
<1> QED BY <1>1, SlotsFreed

LEMMA ClientSlots ==
    ASSUME Base, SlotsAccounted, NEW r \in Run,
           ClientStep(r) \/ GiveUpWaiting(r) \/ Lose(r) \/ \E a : Start(r, a)
    PROVE  Accounted
<1>1. TypeOK /\ r \in Handler /\ r # Late
  BY ConstantsAssumption DEF Base, Handler
<1>2. CASE handler' = handler /\ slots' = slots
  BY <1>1, <1>2, SlotsSame
<1>3. CASE SendWait(r) \/ SendProxy(r)
  <2>1. PICK ep \in {"wait", "proxy"} : Step(r, NewHandler(ep, r)) /\ handler[r] = Null
                                        /\ slots' = slots
    BY <1>3 DEF SendWait, SendProxy
  <2>2. NewHandler(ep, r) \in HandlerState /\ ~Holding(NewHandler(ep, r)) /\ slots' = Freed(handler[r])
    BY <2>1, NewHandlerType DEF Holding, Freed
  <2> QED BY <1>1, <2>1, <2>2, GoneSlots
<1>4. CASE WaitAnswered(r) \/ ProxyAnswered(r)
  <2>1. Step(r, Null) /\ slots' = slots /\ handler[r].at \in {"answered", "lost"}
    BY <1>4 DEF WaitAnswered, ProxyAnswered
  <2>2. slots' = Freed(handler[r]) /\ ~Holding(Null)
    BY <2>1 DEF Freed, Holding
  <2> QED BY <1>1, <2>1, <2>2, GoneSlots
<1>5. ASSUME Step(r, Null), slots' = Freed(handler[r]) PROVE Accounted
  <2>1. ~Holding(Null)
    BY DEF Holding
  <2> QED BY <1>1, <1>5, <2>1, GoneSlots
<1>6. CASE ProxyResponds(r)
  BY <1>2, <1>5, <1>6 DEF ProxyResponds, FreedOnDrop, Step
<1>7. CASE BodyEnds(r) \/ BodyBreaks(r)
  BY <1>5, <1>7 DEF BodyEnds, BodyBreaks
<1>8. CASE Lose(r)
  <2>1. CASE Step(r, Hang(r)) /\ slots' = FreedOnDrop(handler[r])
    <3>1. Hang(r) \in HandlerState /\ ~Holding(Hang(r))
      BY HangType DEF Holding
    <3> QED BY <1>1, <2>1, <3>1, GoneSlots DEF FreedOnDrop
  <2>2. CASE Swaps(r) /\ slots' = slots
    BY <2>2, SlotsSwapped
  <2> QED BY <1>8, <2>1, <2>2 DEF Lose, Swaps
<1>9. ASSUME NEW a, Start(r, a) PROVE Accounted
  BY <1>2, <1>9 DEF Start, server
<1> QED BY <1>2, <1>3, <1>4, <1>6, <1>7, <1>8, <1>9 DEF ClientStep, CheckGrant, Prepare, NoBearer,
        Create, ReadGrant, Store, Report, GiveUpWaiting, server

LEMMA WokenSlots ==
    ASSUME Base, SlotsAccounted, handler' = Woken, slots' = slots
    PROVE  Accounted
<1>1. TypeOK
  BY DEF Base
<1>2. ASSUME NEW h \in Handler, handler'[h] # handler[h]
      PROVE  Holding(handler[h]) /\ Holding(handler'[h]) /\ handler'[h].ep = handler[h].ep
  <2>1. Is(h, "wait", "asleep") /\ handler'[h] = [handler[h] EXCEPT !.at = "woken"]
    BY <1>2 DEF Woken
  <2>2. handler[h] # Null /\ handler[h].at = "asleep"
    BY <2>1 DEF Is
  <2>3. PICK y \in HandlerState : y = [handler[h] EXCEPT !.at = "woken"] /\ y.at = "woken"
                                  /\ y.ep = handler[h].ep /\ y # Null
    BY <1>1, <2>2, AtHandler
  <2> QED BY <2>1, <2>2, <2>3 DEF Holding
<1> QED BY <1>1, <1>2, SlotsSame

LEMMA RestartSlots ==
    ASSUME Base, Restart
    PROVE  Accounted
<1>1. ASSUME NEW h \in Handler PROVE ~Holding(handler'[h])
  <2>1. CASE h = Late \/ handler[h] = Null \/ handler[h].at = "answered"
    BY <2>1 DEF Restart, Holding
  <2>2. CASE ~(h = Late \/ handler[h] = Null \/ handler[h].at = "answered")
    <3>1. h \in Run /\ handler'[h] = Hang(h)
      BY <2>2 DEF Restart, Handler
    <3> QED BY <3>1, HangType DEF Holding
  <2> QED BY <2>1, <2>2
<1>2. \A ep \in Endpoint : Held(ep)' = {}
  BY <1>1 DEF Held
<1>3. slots' = [wait |-> 0, proxy |-> 0]
  BY DEF Restart
<1>4. \A ep \in Endpoint : slots'[ep] = 0 /\ Limit(ep) \in Nat
  BY <1>3, ConstantsAssumption DEF Endpoint, Limit
<1>5. \A ep \in Endpoint : slots'[ep] = Cardinality(Held(ep)') /\ slots'[ep] <= Limit(ep)
  BY <1>2, <1>4, FS_EmptySet
<1>6. SlotsAccounted'
  BY <1>5 DEF SlotsAccounted, Held, Limit, Endpoint
<1>7. slots' \in [wait : Nat, proxy : Nat]
  BY <1>3
<1> QED BY <1>6, <1>7 DEF Accounted

LEMMA SlotsAccountedStep ==
    ASSUME Base, SlotsAccounted, Next
    PROVE  Accounted
<1>1. TypeOK /\ Run \subseteq Handler /\ Late \in Handler
  BY DEF Base, Handler
<1>2. ASSUME NEW h \in Handler, ServerStep(h) \/ UpstreamAnswers(h) \/ UpstreamBreaks(h)
      PROVE  Accounted
  BY <1>2, WaitSlots, EnterSlots, ProxySlots DEF ServerStep
<1>3. CASE LateStep
  <2>1. CASE DropLate
    <3>1. Step(Late, Null) /\ slots' = Freed(handler[Late]) /\ ~Holding(Null)
      BY <2>1 DEF DropLate, FreedOnDrop, Holding
    <3> QED BY <1>1, <3>1, GoneSlots
  <2> QED BY <1>1, <1>3, <2>1, WaitSlots, EnterSlots, ProxySlots DEF LateStep
<1>4. ASSUME NEW k, EndGrant(k) PROVE Accounted
  <2>1. handler' = handler /\ slots' = slots
    BY <1>4 DEF EndGrant
  <2> QED BY <1>1, <2>1, SlotsSame
<1>5. ASSUME NEW k, Expire(k) \/ (\E s \in {"approved", "denied"} : Resolve(k, s)) PROVE Accounted
  BY <1>5, WokenSlots DEF Expire, Resolve
<1> QED BY <1>1, <1>2, <1>3, <1>4, <1>5, ClientSlots, RestartSlots DEF Next, SweepRequests

-----------------------------------------------------------------------------
(* What is sent is what was approved.                                      *)

\* Every position up to the size of I is that of one of its elements.
LEMMA Ranked ==
    ASSUME NEW I \in SUBSET Nat, IsFiniteSet(I), NEW k \in 1..Cardinality(I)
    PROVE  \E i \in I : Cardinality({j \in I : j <= i}) = k
<1> DEFINE Below(i) == {j \in I : j <= i}
           f == [i \in I |-> Cardinality(Below(i))]
<1>1. Cardinality(I) \in Nat
  BY FS_CardinalityType
<1>2. ASSUME NEW i \in I
      PROVE  /\ IsFiniteSet(Below(i)) /\ Cardinality(Below(i)) \in Nat
             /\ Cardinality(Below(i)) <= Cardinality(I) /\ Cardinality(Below(i)) # 0
  <2>1. Below(i) \in SUBSET I /\ i \in Below(i)
    OBVIOUS
  <2> HIDE DEF Below
  <2>2. IsFiniteSet(Below(i)) /\ Cardinality(Below(i)) <= Cardinality(I)
    BY <2>1, FS_Subset
  <2>3. Cardinality(Below(i)) \in Nat
    BY <2>2, FS_CardinalityType
  <2>4. Cardinality(Below(i)) # 0
    BY <2>1, <2>2, FS_EmptySet
  <2> QED BY <2>2, <2>3, <2>4
<1>3. ASSUME NEW i \in I, NEW m \in I, i < m
      PROVE  Cardinality(Below(i)) # Cardinality(Below(m))
  <2>1. Below(i) \in SUBSET Below(m) /\ m \in Below(m) /\ m \notin Below(i)
    <3>1. i \in Nat /\ m \in Nat /\ I \subseteq Nat
      OBVIOUS
    <3>2. \A j \in I : j <= i => j <= m
      BY <1>3, <3>1
    <3>3. ~(m <= i) /\ m <= m
      BY <1>3, <3>1
    <3> QED BY <3>2, <3>3
  <2> HIDE DEF Below
  <2> QED BY <1>2, <2>1, FS_Subset
<1>4. ASSUME NEW i \in I PROVE Cardinality(Below(i)) \in 1..Cardinality(I)
  BY <1>1, <1>2
<1> HIDE DEF Below
<1>5. f \in [I -> 1..Cardinality(I)]
  BY <1>4
<1>6. \A i, m \in I : f[i] = f[m] => i = m
  BY <1>3
<1>7. f \in Injection(I, 1..Cardinality(I))
  BY <1>5, <1>6 DEF Injection, IsInjective
<1>8. IsFiniteSet(1..Cardinality(I)) /\ Cardinality(1..Cardinality(I)) = Cardinality(I)
  <2>1. PICK n \in Nat : n = Cardinality(I)
    BY <1>1
  <2>2. IsFiniteSet(1..n) /\ Cardinality(1..n) = n
    BY FS_Interval
  <2> QED BY <2>1, <2>2
<1> HIDE DEF f
<1>9. f \in Surjection(I, 1..Cardinality(I))
  BY <1>7, <1>8, FS_Injection
<1>10. PICK i \in I : f[i] = k
  BY <1>9 DEF Surjection
<1> USE DEF f, Below
<1> QED BY <1>10

LEMMA FilteredRange ==
    ASSUME NEW s, NEW I \in SUBSET Nat, IsFiniteSet(I), NEW k \in DOMAIN Filtered(s, I)
    PROVE  \E i \in I : Filtered(s, I)[k] = s[i]
<1>1. k \in 1..Cardinality(I)
  BY DEF Filtered
<1>2. PICK i \in I : i = CHOOSE m \in I : Cardinality({j \in I : j <= m}) = k
  BY <1>1, Ranked
<1>3. Filtered(s, I)[k] = s[i]
  BY <1>1, <1>2 DEF Filtered
<1> QED BY <1>3

\* The broker has nothing left to strip, except what the injection owns.
LEMMA HeadersKept ==
    ASSUME NEW a \in Args, NEW inject
    PROVE  OutboundHeaders(SentHeaders(a), inject)
             = Filtered(SentHeaders(a), {i \in DOMAIN SentHeaders(a) :
                                            SentHeaders(a)[i].name \notin Owned(inject)})
<1>1. PICK I : I = {i \in ParsedHeaders(a) :
                      /\ ~IsStripped(a.headers[i].name)
                      /\ a.headers[i].name \notin Nominated(a.headers, ParsedHeaders(a))}
  OBVIOUS
<1>2. PICK hs : hs = Filtered(a.headers, I) /\ hs = SentHeaders(a)
  BY <1>1 DEF SentHeaders
<1>3. I \in SUBSET Nat /\ IsFiniteSet(I)
  <2>1. PICK n \in Nat : DOMAIN a.headers = 1..n
    BY CommandLinesAssumption
  <2>2. I \in SUBSET (1..n)
    BY <1>1, <2>1 DEF ParsedHeaders
  <2>3. IsFiniteSet(1..n)
    BY FS_Interval
  <2>4. IsFiniteSet(I)
    BY <2>2, <2>3, FS_Subset
  <2> QED BY <2>2, <2>4
<1>4. ASSUME NEW k \in DOMAIN hs PROVE ~IsStripped(hs[k].name)
  <2>1. PICK i \in I : hs[k] = a.headers[i]
    <3>1. PICK s : s = a.headers
      OBVIOUS
    <3>2. k \in DOMAIN Filtered(s, I)
      BY <1>2, <3>1
    <3>3. \E i \in I : Filtered(s, I)[k] = s[i]
      BY <1>3, <3>2, FilteredRange
    <3> QED BY <1>2, <3>1, <3>3
  <2> QED BY <1>1, <2>1
<1>5. \A k \in DOMAIN hs : hs[k].name # "connection"
  BY <1>4, StripListAssumption DEF IsStripped
<1>6. Nominated(hs, DOMAIN hs) = {}
  BY <1>5 DEF Nominated
<1>7. {i \in DOMAIN hs : /\ ~IsStripped(hs[i].name) /\ hs[i].name \notin Nominated(hs, DOMAIN hs)
                         /\ hs[i].name \notin Owned(inject)}
      = {i \in DOMAIN hs : hs[i].name \notin Owned(inject)}
  BY <1>4, <1>6
<1>8. OutboundHeaders(hs, inject) = Filtered(hs, {i \in DOMAIN hs : hs[i].name \notin Owned(inject)})
  BY <1>7 DEF OutboundHeaders
<1> QED BY <1>2, <1>8

\* build_outbound_headers and outbound_url change nothing in a call that is its own
\* approval: what leaves is what the operator was shown.
LEMMA OutboundShown ==
    ASSUME NEW a \in Usable, a.cmd = "curl", a.grant = Null, NEW inject
    PROVE  Outbound(Expected(a).limits, CallOf(a), inject) = Shown(CallOf(a), inject)
<1>1. CurlUsage(a) /\ a \in Args
  BY DEF Usable, Usage
<1>2. PICK t : /\ t = ParseTarget(a.url) /\ t # Null
               /\ t.query # Null => ~t.query.odd
  BY TargetHost
<1>3. PICK m : m = Method(a) /\ Upper(m) = m
  BY <1>1, OwnMethod DEF CurlUsage
<1>4. Canonical(Wire(t.path)) = Canonical(t.path)
  BY <1>1, <1>2, <1>3, OwnPath DEF CurlUsage, ValidGrantOptions
<1>5. WireQuery(t.query) = t.query
  BY <1>2 DEF WireQuery
<1>6. Expected(a).limits.origin = t.origin
  BY <1>2 DEF Expected, Asked, ConstraintsFor
<1>7. PICK hs : hs = SentHeaders(a)
  OBVIOUS
<1>8. OutboundHeaders(hs, inject) = Filtered(hs, {i \in DOMAIN hs : hs[i].name \notin Owned(inject)})
  BY <1>1, <1>7, HeadersKept
<1>9. PICK noAgent : noAgent = SuppressUserAgent(a)
  OBVIOUS
<1>10. PICK call : call = [method |-> m, origin |-> t.origin, path |-> t.path, query |-> t.query,
                           headers |-> hs, body |-> a.body, noAgent |-> noAgent]
  OBVIOUS
<1>11. CallOf(a) = call
  BY <1>2, <1>3, <1>7, <1>9, <1>10 DEF CallOf
<1>12. /\ call.method = m /\ call.origin = t.origin /\ call.path = t.path /\ call.query = t.query
       /\ call.headers = hs /\ call.body = a.body /\ call.noAgent = noAgent
  BY <1>10
<1>13. PICK c : c = Expected(a).limits /\ c.origin = t.origin
  BY <1>6
<1>14. Outbound(c, call, inject) = Shown(call, inject)
  BY <1>3, <1>4, <1>5, <1>8, <1>12, <1>13 DEF Outbound, Shown
<1> QED BY <1>11, <1>13, <1>14

\* A row keeps its maker, and a new one is made by a run that creates it.
Makes(r, k) ==
    /\ run[r].pc = "create" /\ k = run[r].key
    /\ requests'[k].by = r /\ requests'[k].asked = Asked(run[r].args)

RowsFrom ==
    \A k \in DOMAIN requests' :
        \/ k \in DOMAIN requests /\ requests'[k].by = requests[k].by
        \/ \E r \in Run : Makes(r, k)

LEMMA RowSteps ==
    ASSUME Next
    PROVE  \/ requests' = requests
           \/ \E r \in Run : Create(r) \/ ReadGrant(r)
           \/ \E h \in Handler : ProxyCount(h)
           \/ \E k \in DOMAIN requests : EndGrant(k) \/ Expire(k)
                                         \/ \E s \in {"approved", "denied"} : Resolve(k, s)
           \/ Restart
<1>1. Run \subseteq Handler /\ Late \in Handler
  BY DEF Handler
<1>2. ASSUME NEW r \in Run, ClientStep(r), ~Create(r), ~ReadGrant(r) PROVE requests' = requests
  BY <1>2 DEF ClientStep, CheckGrant, Prepare, NoBearer, Store, Report, SendWait, WaitAnswered,
     SendProxy, ProxyAnswered, ProxyResponds, BodyEnds, BodyBreaks, server
<1>3. ASSUME NEW h \in Handler, ServerStep(h) \/ UpstreamAnswers(h) \/ UpstreamBreaks(h),
             ~ProxyCount(h)
      PROVE  requests' = requests
  BY <1>3 DEF ServerStep, WaitEnter, WaitCheck, Poll, WaitRead, ProxyEnter, ProxyForward, ProxyRelay,
     ProxyDeadline, UpstreamAnswers, UpstreamBreaks
<1>4. LateStep => requests' = requests \/ ProxyCount(Late)
  BY DEF LateStep, WaitEnter, ProxyEnter, ProxyForward, DropLate
<1>5. ASSUME NEW r \in Run, (\E a \in {f[r] : f \in CommandLines} : Start(r, a)) \/ GiveUpWaiting(r)
                             \/ Lose(r)
      PROVE  requests' = requests
  BY <1>5 DEF Start, GiveUpWaiting, Lose, server
<1> QED BY <1>1, <1>2, <1>3, <1>4, <1>5 DEF Next, SweepRequests

LEMMA UsesBy ==
    ASSUME TypeOK, NEW k \in DOMAIN requests, NEW n \in Nat \cup {Null},
           requests' = [requests EXCEPT ![k].uses = n]
    PROVE  RowsFrom
<1>1. [requests[k] EXCEPT !.uses = n].by = requests[k].by
  BY RowFields DEF RequestRow
<1>2. DOMAIN requests' = DOMAIN requests /\ requests'[k].by = requests[k].by
  BY <1>1 DEF TypeOK
<1>3. \A j \in DOMAIN requests \ {k} : requests'[j] = requests[j]
  BY DEF TypeOK
<1> QED BY <1>2, <1>3 DEF RowsFrom

LEMMA StateBy ==
    ASSUME TypeOK, NEW k \in DOMAIN requests, NEW s, NEW n,
           \/ requests' = [requests EXCEPT ![k].state = s, ![k].uses = n]
           \/ requests' = [requests EXCEPT ![k].state = s]
           \/ requests' = [requests EXCEPT ![k].dead = TRUE]
    PROVE  RowsFrom
<1>1. /\ [requests[k] EXCEPT !.state = s, !.uses = n].by = requests[k].by
      /\ [requests[k] EXCEPT !.state = s].by = requests[k].by
      /\ [requests[k] EXCEPT !.dead = TRUE].by = requests[k].by
  BY RowFields DEF RequestRow
<1>2. DOMAIN requests' = DOMAIN requests /\ requests'[k].by = requests[k].by
  BY <1>1 DEF TypeOK
<1>3. \A j \in DOMAIN requests \ {k} : requests'[j] = requests[j]
  BY DEF TypeOK
<1> QED BY <1>2, <1>3 DEF RowsFrom

LEMMA RestartBy ==
    ASSUME TypeOK, Restart
    PROVE  RowsFrom
<1>1. PICK gone : requests' = [k \in DOMAIN requests |->
                                  [requests[k] EXCEPT !.lost = @ \/ k \in gone]]
  BY DEF Restart
<1>2. ASSUME NEW k \in DOMAIN requests
      PROVE  [requests[k] EXCEPT !.lost = requests[k].lost \/ k \in gone].by = requests[k].by
  <2>1. PICK lost \in BOOLEAN : lost = (requests[k].lost \/ k \in gone)
    OBVIOUS
  <2>2. [requests[k] EXCEPT !.lost = lost].by = requests[k].by
    BY RowFields DEF RequestRow
  <2> QED BY <2>1, <2>2
<1>3. DOMAIN requests' = DOMAIN requests
      /\ \A k \in DOMAIN requests : requests'[k].by = requests[k].by
  BY <1>1, <1>2
<1> QED BY <1>3 DEF RowsFrom

LEMMA CreateBy ==
    ASSUME TypeOK, NEW r \in Run, Create(r)
    PROVE  RowsFrom
<1>1. PICK k : k = run[r].key /\ run[r].pc = "create"
  BY DEF Create, At
<1>2. PICK o \in Creations(r) : requests' = o.rows
  BY DEF Create
<1> DEFINE rows(state) == [j \in DOMAIN requests \cup {k} |->
                             IF j = k THEN NewRow(r, state) ELSE requests[j]]
<1>3. \/ o.rows = requests
      \/ o.rows = rows("pending") \/ o.rows = rows("approved") \/ o.rows = rows("denied")
  BY <1>1 DEF Creations
<1>4. CASE o.rows = requests
  BY <1>2, <1>4 DEF RowsFrom
<1>5. ASSUME NEW state, o.rows = rows(state) PROVE RowsFrom
  <2>1. NewRow(r, state).by = r /\ NewRow(r, state).asked = Asked(run[r].args)
    BY DEF NewRow
  <2>2. PICK row : row = NewRow(r, state)
    OBVIOUS
  <2>3. DOMAIN requests' = DOMAIN requests \cup {k} /\ requests'[k] = row
        /\ \A j \in DOMAIN requests \ {k} : requests'[j] = requests[j]
    BY <1>2, <1>5, <2>2
  <2>4. Makes(r, k)
    BY <1>1, <2>1, <2>2, <2>3 DEF Makes
  <2> QED BY <2>3, <2>4 DEF RowsFrom
<1> HIDE DEF rows
<1> QED BY <1>3, <1>4, <1>5

LEMMA RowsFromStep ==
    ASSUME Base, Next
    PROVE  RowsFrom
<1>1. TypeOK
  BY DEF Base
<1>2. CASE requests' = requests
  BY <1>2 DEF RowsFrom
<1>3. ASSUME NEW r \in Run, ReadGrant(r) PROVE RowsFrom
  <2>1. Backed(r)
    BY <1>3 DEF Base, RunsSound, Asking, ReadGrant, At
  <2>2. PICK k \in DOMAIN requests : k = run[r].key
    BY <2>1 DEF Backed
  <2>3. PICK o \in Reads(r) : requests' = o.rows
    BY <1>3 DEF ReadGrant
  <2>4. o.rows = requests \/ o.rows = [requests EXCEPT ![k].uses = 0]
    BY <2>2 DEF Reads
  <2> QED BY <1>1, <1>2, <2>3, <2>4, UsesBy
<1>4. ASSUME NEW h \in Handler, ProxyCount(h) PROVE RowsFrom
  <2>1. handler[h] # Null
    BY <1>4 DEF ProxyCount, Is
  <2>2. PICK r \in Run : r = handler[h].run /\ Backed(r)
    BY <1>1, <2>1, HandlerFields DEF Base, HandlersSound, HandlerSound
  <2>3. PICK k \in DOMAIN requests : k = run[r].key
    BY <2>2 DEF Backed
  <2>4. PICK n : n = IF requests[k].uses = Null THEN Null ELSE requests[k].uses - 1
    OBVIOUS
  <2>5. \/ requests' = requests
        \/ requests[k].uses # 0 /\ requests' = [requests EXCEPT ![k].uses = n]
    BY <1>4, <2>2, <2>3, <2>4 DEF ProxyCount
  <2>6. requests[k].uses # 0 => n \in Nat \cup {Null}
    BY <1>1, <2>4, RowFields
  <2> QED BY <1>1, <1>2, <2>5, <2>6, UsesBy
<1>5. ASSUME NEW k \in DOMAIN requests, EndGrant(k) \/ Expire(k)
                                       \/ \E s \in {"approved", "denied"} : Resolve(k, s)
      PROVE  RowsFrom
  <2>1. CASE EndGrant(k)
    <3>1. requests' = [requests EXCEPT ![k].dead = TRUE]
      BY <2>1 DEF EndGrant
    <3> QED BY <1>1, <3>1, StateBy
  <2>2. CASE Expire(k)
    <3>1. requests' = [requests EXCEPT ![k].state = "expired"]
      BY <2>2 DEF Expire
    <3> QED BY <1>1, <3>1, StateBy
  <2>3. ASSUME NEW s \in {"approved", "denied"}, Resolve(k, s) PROVE RowsFrom
    <3>1. PICK n : requests' = [requests EXCEPT ![k].state = s, ![k].uses = n]
      BY <2>3 DEF Resolve
    <3> QED BY <1>1, <3>1, StateBy
  <2> QED BY <1>5, <2>1, <2>2, <2>3
<1> QED BY <1>1, <1>2, <1>3, <1>4, <1>5, CreateBy, RestartBy, RowSteps

LEMMA ArgsKept ==
    ASSUME Base, Next, NEW q \in Run, run[q].pc # "idle"
    PROVE  run'[q].args = run[q].args /\ run'[q].key = run[q].key /\ run'[q].pc # "idle"
<1>1. CASE Served
  BY <1>1 DEF Served
<1>2. ASSUME NEW r \in Run, Progress(r)
      PROVE  run'[q].args = run[q].args /\ run'[q].key = run[q].key /\ run'[q].pc # "idle"
  <2>1. CASE q = r
    BY <1>2, <2>1, SameCall
  <2>2. CASE q # r
    BY <1>2, <2>2 DEF Progress, Alone
  <2> QED BY <2>1, <2>2
<1> QED BY <1>1, <1>2, StepKinds

LEMMA ClearedKept ==
    ASSUME Base, Next, NEW q \in Run, Cleared(q)
    PROVE  Cleared(q)'
<1>1. run'[q].args = run[q].args /\ run'[q].pc # "idle"
  BY ArgsKept DEF Cleared
<1> QED BY <1>1 DEF Cleared

LEMMA KeysBound ==
    ASSUME Base, CallsBound, Next, NEW q \in Run, run'[q].pc \in Working \/ run'[q].fresh
    PROVE  run'[q].key = KeyOf(q, run'[q].args)
<1>1. run[q].pc \in Working \/ run[q].fresh => run[q].key = KeyOf(q, run[q].args)
  BY DEF CallsBound
<1>2. CASE run'[q] = run[q]
  BY <1>1, <1>2
<1>3. CASE Progress(q)
  <2>1. CASE Begins(q)
    BY <2>1 DEF Begins, Working
  <2>2. CASE Proceeds(q) \/ Stops(q) \/ Reports(q) \/ Streams(q)
    <3>1. run[q].pc # "idle" /\ (run[q].pc \in Working \/ (run[q].pc = "report" /\ Reports(q)))
      <4>1. Stops(q) => run[q].pc \in Working
        BY StopsShape DEF StopShape
      <4> QED BY <2>2, <4>1 DEF Proceeds, Reports, Streams, Working
    <3>2. run'[q].args = run[q].args /\ run'[q].key = run[q].key
      BY <3>1, ArgsKept
    <3>3. Reports(q) => run'[q].pc = "done" /\ run'[q].fresh = run[q].fresh
      BY DEF Reports
    <3>4. run[q].pc \in Working \/ run[q].fresh
      BY <3>1, <3>3 DEF Working
    <3> QED BY <1>1, <3>2, <3>4
  <2> QED BY <1>3, <2>1, <2>2 DEF Progress
<1>4. ASSUME NEW r \in Run \ {q}, Progress(r) PROVE run'[q] = run[q]
  BY <1>4 DEF Progress, Alone
<1>5. Served => run'[q] = run[q]
  BY DEF Served
<1> QED BY <1>2, <1>3, <1>4, <1>5, StepKinds

LEMMA RunsCleared ==
    ASSUME Base, CallsBound, Next, NEW q \in Run, run'[q].pc \in {"prepare", "proxy", "body"}
    PROVE  Cleared(q)'
<1>1. run[q].pc \in {"prepare", "proxy", "body"} => Cleared(q)
  BY DEF CallsBound
<1>2. RunSound(q)
  BY DEF Base, RunsSound
<1>3. CASE run'[q] = run[q]
  BY <1>1, <1>3, ClearedKept
<1>4. CASE Progress(q)
  <2>1. CASE Begins(q)
    <3>1. run'[q].pc = "prepare"
      BY <2>1 DEF Begins
    <3>2. run'[q].args \in Usable /\ run'[q].args.cmd = "curl" /\ run'[q].args.grant = Null
      BY <2>1, <3>1 DEF Begins
    <3> QED BY <3>1, <3>2 DEF Cleared
  <2>2. CASE Proceeds(q)
    <3>1. run[q].pc \in Working /\ run[q].pc # "idle"
      BY <2>2 DEF Proceeds, Working
    <3>2. run'[q].args = run[q].args /\ run'[q].pc # "idle" /\ run[q].args \in Usable
      BY <1>2, <3>1, ArgsKept DEF RunSound
    <3>3. \/ run[q].pc = "prepare"
          \/ run[q].pc = "check" /\ (run[q].args.grant # Null => Existing.origin = run[q].args.url.host)
          \/ run[q].pc \in {"create", "wait"} /\ run[q].args.cmd = "curl"
      BY <2>2 DEF Proceeds, Goes, Freshens
    <3>4. CASE run[q].pc = "prepare"
      BY <1>1, <3>4, ClearedKept
    <3>5. CASE run[q].pc # "prepare"
      <4>1. run[q].args.cmd = "curl"
            /\ (run[q].args.grant # Null => Existing.origin = run[q].args.url.host)
        BY <1>2, <3>3, <3>5 DEF RunSound
      <4> QED BY <3>2, <4>1 DEF Cleared
    <3> QED BY <3>4, <3>5
  <2>3. CASE Stops(q) \/ Reports(q)
    BY <2>3, StopsShape DEF StopShape, Over, Reports
  <2>4. CASE Streams(q)
    BY <1>1, <2>4, ClearedKept DEF Streams
  <2> QED BY <1>4, <2>1, <2>2, <2>3, <2>4 DEF Progress
<1>5. ASSUME NEW r \in Run \ {q}, Progress(r) PROVE run'[q] = run[q]
  BY <1>5 DEF Progress, Alone
<1>6. Served => run'[q] = run[q]
  BY DEF Served
<1> QED BY <1>3, <1>4, <1>5, <1>6, StepKinds

LEMMA HandlersCleared ==
    ASSUME Base, CallsBound, Next, NEW h \in Handler, handler'[h] # Null, handler'[h].ep = "proxy"
    PROVE  \E q \in Run : q = handler'[h].run /\ Cleared(q)
<1>1. TypeOK
  BY DEF Base
<1>2. ASSUME NEW g \in Handler, handler[g] # Null, handler[g].ep = "proxy",
             handler'[h].run = handler[g].run
      PROVE  \E q \in Run : q = handler'[h].run /\ Cleared(q)
  BY <1>1, <1>2, HandlerFields DEF CallsBound
<1>3. CASE handler'[h] = handler[h]
  BY <1>2, <1>3
<1>4. ASSUME NEW r \in Run, Progress(r) PROVE handler'[h] = handler[h]
  BY <1>4 DEF Progress
<1>5. CASE Served
  <2>1. HandlerChange(h)
    BY <1>5 DEF Served
  <2>2. CASE h \in Run /\ handler'[h] = Hang(h)
    BY <2>2, HangType
  <2>3. ASSUME NEW r \in Run, TakesOver(r), h = Late
        PROVE  \E q \in Run : q = handler'[h].run /\ Cleared(q)
    <3>1. r \in Handler /\ handler[r] # Null /\ handler[r].ep = "proxy" /\ handler'[h].run = handler[r].run
      BY <2>3 DEF TakesOver, Handler
    <3> QED BY <1>2, <3>1
  <2>4. ASSUME h \in Run, NEW ep \in {"wait", "proxy"}, run[h].pc = ep, handler'[h] = NewHandler(ep, h)
        PROVE  \E q \in Run : q = handler'[h].run /\ Cleared(q)
    <3>1. handler'[h].ep = ep /\ handler'[h].run = h
      BY <2>4, NewHandlerType
    <3> QED BY <2>4, <3>1 DEF CallsBound
  <2>5. CASE Answers(h)
    BY <1>2, <2>5 DEF Answers
  <2>6. CASE Advances(h)
    BY <1>2, <2>6 DEF Advances
  <2> QED BY <1>3, <2>1, <2>2, <2>3, <2>4, <2>5, <2>6 DEF HandlerChange
<1> QED BY <1>3, <1>4, <1>5, StepKinds

LEMMA SentBound ==
    ASSUME Base, CallsBound, Next, NEW q \in Run, sent'[q] # Null
    PROVE  Cleared(q) /\ Carried(run[q].args, sent'[q])
<1>1. CASE sent'[q] = sent[q]
  BY <1>1 DEF CallsBound
<1>2. CASE Departs(q)
  <2>1. Carried(run[q].args, sent'[q]) /\ Leaves(q)
    BY <1>2 DEF Departs
  <2>2. PICK h \in Handler : Is(h, "proxy", "counted") /\ handler[h].run = q
    BY <2>1 DEF Leaves
  <2>3. Cleared(q)
    BY <2>2 DEF CallsBound, Is
  <2> QED BY <2>1, <2>3
<1>3. ASSUME NEW r \in Run, Progress(r) PROVE sent'[q] = sent[q]
  BY <1>3 DEF Progress
<1>4. Served => sent'[q] = sent[q] \/ Departs(q)
  BY DEF Served, SentChange
<1> QED BY <1>1, <1>2, <1>3, <1>4, StepKinds

LEMMA RowsMade ==
    ASSUME Base, CallsBound, Next, NEW k \in DOMAIN requests', k # GrantId
    PROVE  RowMade(k)'
<1>1. ASSUME NEW r \in Run, requests'[k].by = r, run[r].pc # "idle", run[r].args \in Usable,
             run[r].args.grant = Null, run[r].args.cmd # "store", k = KeyOf(r, run[r].args),
             requests'[k].asked = Asked(run[r].args)
      PROVE  RowMade(k)'
  <2>1. run'[r].args = run[r].args /\ run'[r].pc # "idle"
    BY <1>1, ArgsKept
  <2> QED BY <1>1, <2>1 DEF RowMade
<1>2. CASE k \in DOMAIN requests /\ requests'[k].by = requests[k].by
  <2>1. RowMade(k)
    BY <1>2 DEF CallsBound
  <2>2. RequestsKept
    BY StepKinds DEF Progress, Served
  <2>3. requests'[k].asked = requests[k].asked
    BY <1>2, <2>2 DEF RequestsKept
  <2> QED BY <1>1, <1>2, <2>1, <2>3 DEF RowMade
<1>3. ASSUME NEW r \in Run, Makes(r, k) PROVE RowMade(k)'
  <2>1. run[r].pc = "create" /\ k = run[r].key /\ requests'[k].by = r
        /\ requests'[k].asked = Asked(run[r].args)
    BY <1>3 DEF Makes
  <2>2. RunSound(r) /\ run[r].key = KeyOf(r, run[r].args)
    BY <2>1 DEF Base, RunsSound, CallsBound, Working
  <2>3. run[r].args \in Usable /\ run[r].args.cmd # "store"
        /\ (run[r].args.cmd = "curl" => run[r].args.grant = Null)
    BY <2>1, <2>2 DEF RunSound, Working
  <2>4. run[r].args.grant = Null
    BY <2>3, UsableArgs
  <2> QED BY <1>1, <2>1, <2>2, <2>3, <2>4
<1> QED BY <1>2, <1>3, RowsFromStep DEF RowsFrom

LEMMA CallsBoundStep ==
    ASSUME Base, CallsBound, Next
    PROVE  CallsBound'
<1>1. \A r \in Run : run'[r].pc \in Working \/ run'[r].fresh => run'[r].key = KeyOf(r, run'[r].args)
  BY KeysBound
<1>2. \A r \in Run : run'[r].pc \in {"prepare", "proxy", "body"} => Cleared(r)'
  BY RunsCleared
<1>3. ASSUME NEW h \in Handler, handler'[h] # Null, handler'[h].ep = "proxy"
      PROVE  Cleared(handler[h].run)'
  <2>1. PICK q \in Run : q = handler'[h].run /\ Cleared(q)
    BY <1>3, HandlersCleared
  <2>2. Cleared(q)'
    BY <2>1, ClearedKept
  <2> QED BY <2>1, <2>2 DEF Cleared
<1>4. ASSUME NEW r \in Run, sent'[r] # Null
      PROVE  Cleared(r)' /\ Carried(run'[r].args, sent'[r])
  <2>1. Cleared(r) /\ Carried(run[r].args, sent'[r])
    BY <1>4, SentBound
  <2>2. run'[r].args = run[r].args
    BY <2>1, ArgsKept DEF Cleared
  <2>3. Cleared(r)'
    BY <2>1, ClearedKept
  <2> QED BY <2>1, <2>2, <2>3
<1>5. \A k \in DOMAIN requests' \ {GrantId} : RowMade(k)'
  BY RowsMade
<1> QED BY <1>1, <1>2, <1>3, <1>4, <1>5 DEF CallsBound

\* Two runs with one key have one call.
LEMMA OneCall ==
    ASSUME NEW r \in Run, NEW q \in Run, NEW a \in Usable, NEW b \in Usable,
           a.cmd = "curl", a.grant = Null, b.cmd = "curl", b.grant = Null, KeyOf(r, a) = KeyOf(q, b)
    PROVE  CallOf(a) = CallOf(b)
<1>1. ASSUME NEW s \in Run, NEW c \in Usable, c.cmd = "curl", c.grant = Null
      PROVE  KeyOf(s, c) = [user |-> UserKey(s, c), call |-> BoundCall(c)]
  BY <1>1 DEF KeyOf
<1>2. KeyOf(r, a).call = BoundCall(a) /\ KeyOf(q, b).call = BoundCall(b)
  BY <1>1
<1> QED BY <1>2 DEF BoundCall

LEMMA BoundApproved ==
    ASSUME Base, CallsBound
    PROVE  ApprovedCallSent
<1>1. ASSUME NEW r \in Run, sent[r] # Null
      PROVE  /\ sent[r].call.origin = run[r].args.url.host
             /\ run[r].fresh => sent[r].call
                  = Shown(CallOf(run[requests[run[r].key].by].args), sent[r].inject)
  <2>1. PICK a \in Usable : a = run[r].args /\ a.cmd = "curl"
                            /\ (a.grant # Null => Existing.origin = a.url.host)
    BY <1>1 DEF CallsBound, Cleared
  <2>2. PICK out : out = sent[r] /\ out.call = Outbound(Expected(a).limits, CallOf(a), out.inject)
    BY <1>1, <2>1 DEF CallsBound, Carried
  <2>3. out.call.origin = a.url.host
    <3>1. out.call.origin = Expected(a).limits.origin
      BY <2>2 DEF Outbound
    <3>2. CASE a.grant # Null
      BY <2>1, <3>1, <3>2 DEF Expected, Issued
    <3>3. CASE a.grant = Null
      <4>1. Expected(a).limits.origin = ParseTarget(a.url).origin
        BY <2>1, <3>3 DEF Expected, Asked, ConstraintsFor
      <4> QED BY <2>1, <3>1, <4>1, TargetHost
    <3> QED BY <3>2, <3>3
  <2>4. ASSUME run[r].fresh
        PROVE  out.call = Shown(CallOf(run[requests[run[r].key].by].args), out.inject)
    <3>1. a.grant = Null /\ Backed(r)
      BY <2>1, <2>4 DEF Base, RunsSound, RunSound
    <3>2. PICK k : k = run[r].key /\ k = KeyOf(r, a) /\ k \in DOMAIN requests
                   /\ requests[k].asked = Expected(a)
      BY <2>1, <2>4, <3>1 DEF CallsBound, Backed
    <3>3. k # GrantId
      BY <2>1, <3>1, <3>2, KeysAssumption
    <3>4. RowMade(k)
      BY <3>2, <3>3 DEF CallsBound
    <3>5. PICK q \in Run : q = requests[k].by
      BY <3>4 DEF RowMade
    <3>6. PICK b \in Usable : b = run[q].args /\ b.grant = Null /\ k = KeyOf(q, b)
                              /\ requests[k].asked = Asked(b)
      BY <3>4, <3>5 DEF RowMade
    <3>7. b.cmd = "curl"
      <4>1. Expected(a).mechanism = "brokered"
        BY <2>1, <3>1 DEF Expected, Asked
      <4>2. b.cmd # "curl" => Asked(b).mechanism = "cli-read"
        BY DEF Asked
      <4> QED BY <3>2, <3>6, <4>1, <4>2
    <3>8. CallOf(a) = CallOf(b)
      <4>1. KeyOf(r, a) = KeyOf(q, b)
        BY <3>2, <3>6
      <4>2. a.cmd = "curl" /\ a.grant = Null /\ b.cmd = "curl" /\ b.grant = Null
        BY <2>1, <3>1, <3>6, <3>7
      <4> QED BY <4>1, <4>2, OneCall
    <3>9. out.call = Shown(CallOf(a), out.inject)
      BY <2>1, <2>2, <3>1, OutboundShown
    <3> QED BY <3>2, <3>5, <3>6, <3>8, <3>9
  <2> QED BY <2>1, <2>2, <2>3, <2>4
<1> QED BY <1>1 DEF ApprovedCallSent

-----------------------------------------------------------------------------
(* The inductive invariant holds.                                          *)

LEMMA TypeOKStep ==
    ASSUME Base, SlotsAccounted, Next
    PROVE  TypeOK'
<1>1. run' \in [Run -> RunState] /\ handler' \in Handlers /\ RequestsKept
  BY StepKinds DEF Base, TypeOK, Progress, Served, Alone
<1>2. sent' \in [Run -> CallsOut \cup {Null}]
  BY StepKinds DEF Base, TypeOK, Progress, Served, SentChange
<1>3. slots' \in [wait : Nat, proxy : Nat]
  BY SlotsAccountedStep DEF Accounted
<1>4. files' \in [out : Contents, token : Contents]
  BY FilesTypeStep
<1>5. stored' \in Run \cup {Null}
  BY StoredKept DEF Base
<1> QED BY <1>1, <1>2, <1>3, <1>4, <1>5 DEF TypeOK, Handlers, RequestsKept

LEMMA IdleRunType == IdleRun \in RunState
BY DEF IdleRun, RunState, PC, Whys

LEMMA TypeOKInit ==
    ASSUME Init
    PROVE  /\ TypeOK
           /\ \A r \in Run : run[r] = IdleRun /\ sent[r] = Null
           /\ \A h \in Handler : handler[h] = Null
           /\ requests[GrantId].asked = Issued /\ GrantId \in DOMAIN requests
<1>1. run \in [Run -> RunState] /\ \A r \in Run : run[r] = IdleRun
  BY IdleRunType DEF Init
<1>2. handler \in [Handler -> HandlerState \cup {Null}] /\ \A h \in Handler : handler[h] = Null
  BY DEF Init
<1>3. PICK uses \in Nat \cup {Null} : uses = Existing.uses
  BY ConstantsAssumption
<1>4. Issued \in AskedFor
  BY DEF AskedFor
<1>5. PICK row : row = [by |-> Null, asked |-> Issued, state |-> "approved", uses |-> uses,
                        dead |-> FALSE, lost |-> FALSE]
  OBVIOUS
<1>6. row \in RequestRow /\ row.asked = Issued
  BY <1>4, <1>5 DEF RequestRow, States
<1>7. requests = [k \in {GrantId} |-> row]
  BY <1>3, <1>5 DEF Init, Issued
<1>8. DOMAIN requests = {GrantId} /\ requests[GrantId] = row
  BY <1>7
<1>9. requests \in [DOMAIN requests -> RequestRow]
  BY <1>6, <1>7
<1>10. slots \in [wait : Nat, proxy : Nat]
  BY DEF Init
<1>11. files \in [out : Contents, token : Contents]
  <2>1. OutputBefore \in Contents /\ "old" \in Contents
    BY ConstantsAssumption DEF Contents
  <2> QED BY <2>1 DEF Init
<1>12. sent \in [Run -> CallsOut \cup {Null}] /\ stored \in Run \cup {Null} /\ \A r \in Run : sent[r] = Null
  BY DEF Init
<1> QED BY <1>1, <1>2, <1>6, <1>8, <1>9, <1>10, <1>11, <1>12 DEF TypeOK

LEMMA IInvInit == Init => IInv
<1> SUFFICES ASSUME Init PROVE IInv
  OBVIOUS
<1>1. /\ TypeOK
      /\ \A r \in Run : run[r] = IdleRun /\ sent[r] = Null
      /\ \A h \in Handler : handler[h] = Null
      /\ requests[GrantId].asked = Issued /\ GrantId \in DOMAIN requests
  BY TypeOKInit
<1>2. \A r \in Run : /\ run[r].pc = "idle" /\ ~run[r].fresh /\ run[r].response = Null
                     /\ run[r].why = "none"
  BY <1>1 DEF IdleRun
<1>3. RunsSound
  BY <1>2 DEF RunsSound, RunSound, Working, Over, Asking
<1>4. HandlersSound
  BY <1>1, <1>2 DEF HandlersSound, HandlerSound, BodyServed
<1>5. Run \subseteq Handler /\ Late \in Handler
  BY DEF Handler
<1>6. SentSound
  BY <1>1, <1>2, <1>5 DEF SentSound
<1>7. EndsSound
  BY <1>2 DEF EndsSound, EndSound, Over
<1>8. AnswersSound
  BY <1>1, <1>2, <1>5 DEF AnswersSound, ApprovalServesCall
<1>9. OutputKept
  <2>1. DOMAIN files = {"out", "token"} /\ files["out"] = OutputBefore /\ files["token"] = "old"
    BY DEF Init
  <2> QED BY <2>1, ConstantsAssumption DEF OutputKept
<1>10. SlotsAccounted
  <2>1. ASSUME NEW ep \in {"wait", "proxy"}
        PROVE  {h \in Handler : Holding(handler[h]) /\ handler[h].ep = ep} = {}
    BY <1>1 DEF Holding
  <2>2. Cardinality({}) = 0
    BY FS_EmptySet
  <2>3. slots["wait"] = 0 /\ slots["proxy"] = 0
    BY DEF Init
  <2>4. ASSUME NEW ep \in {"wait", "proxy"}
        PROVE  slots[ep] = Cardinality({h \in Handler : Holding(handler[h]) /\ handler[h].ep = ep})
    BY <2>1, <2>2, <2>3
  <2>5. slots["wait"] <= MaxWaits /\ slots["proxy"] <= MaxStreams
    BY <2>3, ConstantsAssumption
  <2> QED BY <2>4, <2>5 DEF SlotsAccounted
<1>11. CallsBound
  <2>1. DOMAIN requests = {GrantId}
    BY DEF Init
  <2> QED BY <1>1, <1>2, <2>1 DEF CallsBound, Working
<1> QED BY <1>1, <1>3, <1>4, <1>6, <1>7, <1>8, <1>9, <1>10, <1>11 DEF IInv

LEMMA IInvStep == IInv /\ [Next]_vars => IInv'
<1> SUFFICES ASSUME IInv, [Next]_vars PROVE IInv'
  OBVIOUS
<1>1. /\ Base /\ SentSound /\ EndsSound /\ AnswersSound /\ CallsBound /\ OutputKept
      /\ SlotsAccounted
  BY DEF IInv, Base
<1>2. CASE Next
  <2>1. TypeOK' /\ RunsSound' /\ HandlersSound'
    BY <1>1, <1>2, TypeOKStep, RunsSoundStep, HandlersSoundStep
  <2>2. SentSound' /\ EndsSound' /\ AnswersSound' /\ CallsBound' /\ OutputKept'
    BY <1>1, <1>2, SentSoundStep, EndsSoundStep, AnswersSoundStep, CallsBoundStep, OutputKeptStep
  <2>3. SlotsAccounted'
    BY <1>1, <1>2, SlotsAccountedStep DEF Accounted
  <2> QED BY <2>1, <2>2, <2>3 DEF IInv
<1>3. CASE UNCHANGED vars
  <2>1. /\ run' = run /\ handler' = handler /\ requests' = requests /\ slots' = slots
        /\ files' = files /\ sent' = sent /\ stored' = stored
    BY <1>3 DEF vars
  <2>2. TypeOK' /\ SlotsAccounted' /\ OutputKept'
    BY <2>1 DEF IInv, TypeOK, SlotsAccounted, OutputKept
  <2>3. RunsSound' /\ HandlersSound'
    BY <2>1 DEF IInv, RunsSound, RunSound, HandlersSound, HandlerSound, BodyServed, Backed
  <2>4. SentSound' /\ EndsSound' /\ AnswersSound'
    BY <2>1 DEF IInv, SentSound, EndsSound, EndSound, AnswersSound, ApprovalServesCall
  <2>5. CallsBound'
    BY <2>1 DEF IInv, CallsBound, Cleared, RowMade
  <2> QED BY <2>2, <2>3, <2>4, <2>5 DEF IInv
<1> QED BY <1>2, <1>3

(***************************************************************************)
(* The inductive invariant: how far a run has come says what its command   *)
(* line is like, each long call is where its run's step says, a run has    *)
(* one brokered call, and the slots, the files and the ends of runs are    *)
(* what the properties below say (cli/src, proxy.rs, api/requests.rs).     *)
(***************************************************************************)
THEOREM Invariance == Spec => []IInv
BY IInvInit, IInvStep, PTL DEF Spec

(***************************************************************************)
(* Every run, long call, request, slot counter and file keeps its type.    *)
(***************************************************************************)
THEOREM TypeCorrect == Spec => []TypeOK
<1>1. IInv => TypeOK
  BY DEF IInv
<1> QED BY <1>1, Invariance, PTL

(***************************************************************************)
(* The wait and stream counters of the client are the number of its        *)
(* handlers that are still at work, and never above the caps, however the  *)
(* handlers end: returned, dropped, noticed late or restarted (SlotGuard). *)
(***************************************************************************)
THEOREM SlotsAccountedHolds == Spec => []SlotsAccounted
<1>1. IInv => SlotsAccounted
  BY DEF IInv
<1> QED BY <1>1, Invariance, PTL

(***************************************************************************)
(* The exit code is honest: an end as unusable, denied, timed out or lost, *)
(* or by a refusal of the broker, sent nothing upstream; success is a call *)
(* delivered or a secret stored; no answered call is reported as timed     *)
(* out; and after a failure the approved grant is named (run_curl,         *)
(* run_store, run_before_deadline).                                        *)
(***************************************************************************)
THEOREM ExitHonestHolds == Spec => []ExitHonest
<1>1. IInv => ExitHonest
  <2> SUFFICES ASSUME IInv PROVE ExitHonest
    OBVIOUS
  <2>1. ASSUME NEW r \in Run, run[r].pc = "done"
        PROVE  LET x == run[r] IN
               /\ x.exit \in 2..5 \/ Status(x.why) < 500 => sent[r] = Null
               /\ x.exit = 0 /\ x.args.cmd = "curl" => sent[r] # Null /\ x.response # Null
               /\ x.exit = 0 /\ x.args.cmd = "store" => stored = r
               /\ x.fresh /\ x.exit # 0 => x.named
    BY <2>1 DEF IInv, EndsSound, EndSound, Over
  <2>2. ASSUME NEW h \in Handler, handler[h] # Null
        PROVE  ~(handler[h].answer = "upstream-timeout" /\ handler[h].arrived)
    <3>1. HandlerSound(h)
      BY DEF IInv, HandlersSound
    <3> QED BY <2>2, <3>1 DEF HandlerSound
  <2> QED BY <2>1, <2>2 DEF ExitHonest
<1> QED BY <1>1, Invariance, PTL

(***************************************************************************)
(* A call is never refused for its method or its path under the approval   *)
(* that was asked for it: what validate_grant_options and constraints_for  *)
(* ask for covers what handle_inner then judges, on both sides of every    *)
(* retry and restart.                                                      *)
(***************************************************************************)
THEOREM ApprovalServesCallHolds == Spec => []ApprovalServesCall
<1>1. IInv => ApprovalServesCall
  BY DEF IInv, AnswersSound
<1> QED BY <1>1, Invariance, PTL

(***************************************************************************)
(* What goes upstream is the call of the command line at the URL's own     *)
(* origin; under a fresh approval it is exactly the call that the request  *)
(* was made for and the operator was shown, whichever run with the same    *)
(* key made it (call_bound_idempotency_key, check_grant_covers,            *)
(* build_outbound_headers).                                                *)
(***************************************************************************)
THEOREM ApprovedCallSentHolds == Spec => []ApprovedCallSent
<1>1. IInv => ApprovedCallSent
  BY BoundApproved DEF IInv, Base
<1> QED BY <1>1, Invariance, PTL

(***************************************************************************)
(* The output file keeps its contents unless the upstream answered with a  *)
(* response that the run prints, and the token file is lost only to a run  *)
(* that does not use it (open_output, LazyTruncate,                        *)
(* refuse_output_over_token_file).                                         *)
(***************************************************************************)
THEOREM OutputKeptHolds == Spec => []OutputKept
<1>1. IInv => OutputKept
  BY DEF IInv
<1> QED BY <1>1, Invariance, PTL
=============================================================================
