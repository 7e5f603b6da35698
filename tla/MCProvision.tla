---------------------------- MODULE MCProvision -----------------------------
(***************************************************************************)
(* Instances of Provision for TLC.                                         *)
(***************************************************************************)
EXTENDS Provision

CONSTANTS c1, c2, k1, k2, n1, n2, m1, m2, t1, t2, v1, v2, p1, p2

Bind(c, k, store) == [name |-> c, cred |-> k, store |-> store]

Secret(m, ts, v) == [meta |-> m, tags |-> ts, value |-> v]

Table(a, b) == [n \in Name |-> IF n = n1 THEN a ELSE b]

Rules(a, b) == [k \in Key |-> IF k = p1 THEN a ELSE b]

\* Tags taken together that glibc's en_US and a comparison of bytes order
\* differently, as "db" and "Prod" do; one tag is always in order.
OneTag == {{}, {t1}, {t2}}

Bundle == [clients |-> <<Bind(c1, k1, TRUE), Bind(c2, k2, FALSE)>>,
           secrets |-> Table(Secret(m1, {t1}, v1), Null), policies |-> Rules(2, 0)]

\* The credentials change hands, a file is rotated, a second secret appears.
Moved == [clients |-> <<Bind(c1, k2, FALSE), Bind(c2, k1, TRUE)>>,
          secrets |-> Table(Secret(m1, {t1}, v2), Secret(m2, {t1, t2}, v1)),
          policies |-> Rules(1, 1)]

\* A client, its secret and its rules are gone; its credential is reused.
Dropped == [clients |-> <<Bind(c2, k1, FALSE)>>,
            secrets |-> Table(Null, Null), policies |-> Rules(0, 0)]

\* Two clients share a credential.
Ambiguous == [Bundle EXCEPT !.clients = <<Bind(c1, k1, TRUE), Bind(c2, k1, TRUE)>>]

\* A file is missing.
Absent == [Dropped EXCEPT !.secrets = Table(Null, Secret(m2, {}, Null))]

Deployed == {Bundle, Moved, Dropped, Ambiguous, Absent}
=============================================================================
