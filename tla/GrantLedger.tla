---------------------------- MODULE GrantLedger -----------------------------
(***************************************************************************)
(* What a grant promises, with no handlers, clocks, sweeps or crashes: a   *)
(* budget of uses, one fixed answer per idempotency key, and death that    *)
(* stops spending.  Module Grants implements it.                           *)
(***************************************************************************)
EXTENDS Integers

CONSTANTS Grant, Key, Payload, Unlimited, Null

VARIABLES
    limit,   \* uses a grant was opened with, Null before that
    spent,   \* uses spent so far
    answer,  \* the payload a spent key stands for, Null while unspent
    dead,    \* grants that may not be spent any more
    out,     \* answers handed out: <<grant, key, payload>>
    sent     \* unkeyed uses handed out

vars == <<limit, spent, answer, dead, out, sent>>

Init ==
    /\ limit = [g \in Grant |-> Null]
    /\ spent = [g \in Grant |-> 0]
    /\ answer = [g \in Grant |-> [k \in Key |-> Null]]
    /\ dead = [g \in Grant |-> FALSE]
    /\ out = {}
    /\ sent = [g \in Grant |-> 0]

Open(g) ==
    /\ limit[g] = Null
    /\ limit'[g] \in Nat \cup {Unlimited}
    /\ limit' = [limit EXCEPT ![g] = limit'[g]]
    /\ UNCHANGED <<spent, answer, dead, out, sent>>

MaySpend(g) ==
    /\ limit[g] # Null
    /\ ~dead[g]
    /\ limit[g] # Unlimited => spent[g] < limit[g]

\* A key is spent at most once, and what it stands for is settled then.
SpendKey(g, k) ==
    /\ MaySpend(g)
    /\ answer[g][k] = Null
    /\ spent' = [spent EXCEPT ![g] = @ + 1]
    /\ answer'[g][k] \in Payload
    /\ answer' = [answer EXCEPT ![g][k] = answer'[g][k]]
    /\ UNCHANGED <<limit, dead, out, sent>>

SpendUnkeyed(g) ==
    /\ MaySpend(g)
    /\ spent' = [spent EXCEPT ![g] = @ + 1]
    /\ UNCHANGED <<limit, answer, dead, out, sent>>

\* A spent key may be answered any number of times, always alike.
Answer(g, k) ==
    /\ answer[g][k] # Null
    /\ out' = out \cup {<<g, k, answer[g][k]>>}
    /\ UNCHANGED <<limit, spent, answer, dead, sent>>

Send(g) ==
    /\ sent[g] < spent[g]
    /\ sent' = [sent EXCEPT ![g] = @ + 1]
    /\ UNCHANGED <<limit, spent, answer, dead, out>>

Kill(S) ==
    /\ dead' = [g \in Grant |-> dead[g] \/ g \in S]
    /\ UNCHANGED <<limit, spent, answer, out, sent>>

Next ==
    \/ \E g \in Grant : Open(g) \/ SpendUnkeyed(g) \/ Send(g)
    \/ \E g \in Grant, k \in Key : SpendKey(g, k) \/ Answer(g, k)
    \/ \E S \in SUBSET Grant : Kill(S)

Spec == Init /\ [][Next]_vars
=============================================================================
