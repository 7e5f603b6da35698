----------------------------- MODULE Provision ------------------------------
(***************************************************************************)
(* Provisioning from configuration: what a starting server does to the     *)
(* tables before it serves (server/src/state.rs, AppState::init), from the *)
(* configuration and the value files of that start (config.rs), statement  *)
(* group by statement group (db/clients.rs, db/provision.rs), with crashes *)
(* in between and with operators and clients writing rows of their own     *)
(* while the server is up (ui/mod.rs, ui/policy_store.rs, db/secrets.rs).  *)
(*                                                                         *)
(* One server runs at a time: the chart pins one replica and the strategy  *)
(* Recreate (charts/keychute/templates/deployment.yaml), so nothing else   *)
(* writes while a server starts.  Versions of a secret are left out (see   *)
(* Secrets), and so are grants: of a secret's bytes only the current ones  *)
(* are kept, and the version that delete_secret_audited compares is always *)
(* the one listed a moment before.                                         *)
(***************************************************************************)
EXTENDS Integers, Sequences

CONSTANTS
    Client,    \* names of clients
    Cred,      \* credentials: token hashes and service account bindings
    Name,      \* names of secrets
    Meta,      \* description, tier and injection template of a secret
    Tag,       \* tags
    Value,     \* bytes of a secret
    Key,       \* contents of a policy row, as policy_key compares them
    Configs,   \* the configurations that are deployed, files included
    Alike,     \* sets of tags that the database and the server sort alike
    MaxCopies, \* bound: policy rows of equal contents
    Null       \* no row, no credential, a file that cannot be read

ClientConfig == [name : Client, cred : Cred, store : BOOLEAN]

SecretConfig == [meta : Meta, tags : SUBSET Tag, value : Value \cup {Null}]

Config == [clients : Seq(ClientConfig),
           secrets : [Name -> SecretConfig \cup {Null}],
           policies : [Key -> 0 .. MaxCopies]]

ASSUME ProvisionAssumption ==
    /\ Configs \subseteq Config
    /\ Alike \subseteq SUBSET Tag
    /\ MaxCopies \in Nat \ {0}
    /\ Null \notin Config
    /\ Null \notin SecretConfig
    /\ Null \notin Value
    /\ Null \notin Cred

VARIABLES
    phase,     \* how far the server has come
    cfg,       \* the configuration it was started with
    clients,   \* table clients
    secrets,   \* table secrets with its tags, Null where there is no row
    policies,  \* table policies: rows of each content, by owner
    todo,      \* secrets that the current loop has still to visit
    settled,   \* history: the configuration the tables were last brought to
    again,     \* history: this start repeats that configuration
    wrote      \* history: this start has changed a secret or a policy

vars == <<phase, cfg, clients, secrets, policies, todo, settled, again, wrote>>

Phase == {"down", "clients", "secrets", "stale", "policies", "serving"}

ClientRow == [cred : Cred \cup {Null}, enabled : BOOLEAN, store : BOOLEAN]

SecretRow == [meta : Meta, tags : SUBSET Tag, value : Value, enabled : BOOLEAN,
              vetted : BOOLEAN, managed : BOOLEAN]


ASSUME RowAssumption == Null \notin ClientRow /\ Null \notin SecretRow

\* Copies of a policy row that configuration and that operators own.
Copies == [config : 0 .. MaxCopies, operator : 0 .. MaxCopies]

(***************************************************************************)
(* TypeOK: the tables keep the shape of their columns and no count of      *)
(* policy rows leaves its bounds (migrations 0001, 0002, 0006, 0009).      *)
(***************************************************************************)
TypeOK ==
    /\ phase \in Phase
    /\ cfg \in Configs \cup {Null}
    /\ clients \in [Client -> ClientRow \cup {Null}]
    /\ secrets \in [Name -> SecretRow \cup {Null}]
    /\ policies \in [Key -> Copies]
    /\ todo \subseteq Name
    /\ settled \in Configs \cup {Null}
    /\ again \in BOOLEAN
    /\ wrote \in BOOLEAN

\* A fresh deployment: migrated and empty.
Init ==
    /\ phase = "down" /\ cfg = Null
    /\ clients = [c \in Client |-> Null]
    /\ secrets = [n \in Name |-> Null]
    /\ policies = [k \in Key |-> [config |-> 0, operator |-> 0]]
    /\ todo = {} /\ settled = Null /\ again = FALSE /\ wrote = FALSE

-----------------------------------------------------------------------------
(***************************************************************************)
(* Starting.                                                               *)
(***************************************************************************)

\* Config::validate: names and bindings are each one client's.
Validate(c) ==
    \A i, j \in DOMAIN c.clients :
        i # j => /\ c.clients[i].name # c.clients[j].name
                 /\ c.clients[i].cred # c.clients[j].cred

\* A configuration that does not validate stops the server before it has
\* touched the database.
Start(c) ==
    /\ phase = "down" /\ Validate(c)
    /\ phase' = "clients" /\ cfg' = c
    /\ settled' = IF c = settled THEN settled ELSE Null
    /\ again' = (c = settled)
    /\ wrote' = FALSE
    /\ UNCHANGED <<clients, secrets, policies, todo>>

\* Killed, or an error that init passes up; the transaction at hand is undone.
Crash ==
    /\ phase # "down"
    /\ phase' = "down" /\ cfg' = Null /\ todo' = {}
    /\ again' = FALSE /\ wrote' = FALSE
    /\ UNCHANGED <<clients, secrets, policies, settled>>

-----------------------------------------------------------------------------
(***************************************************************************)
(* reconcile_clients, one transaction of three statements.                 *)
(***************************************************************************)

Listed(cs, c) == \E i \in DOMAIN cs : cs[i].name = c

\* Fault: clients that are gone may still store secrets.
RetireStoring(rows, cs) ==
    [c \in Client |->
        IF rows[c] = Null \/ Listed(cs, c) THEN rows[c]
        ELSE [cred |-> Null, enabled |-> FALSE, store |-> rows[c].store]]

\* Clients absent from the configuration are disabled and lose their binding.
Retire(rows, cs) ==
    [c \in Client |->
        IF rows[c] = Null \/ Listed(cs, c) THEN rows[c]
        ELSE [cred |-> Null, enabled |-> FALSE, store |-> FALSE]]

\* Fault: the bindings of configured clients are not released first.
ReleaseNone(rows, cs) == rows

\* Configured clients release their bindings before any of them is set.
Release(rows, cs) ==
    [c \in Client |->
        IF rows[c] # Null /\ Listed(cs, c)
        THEN [cred |-> Null, enabled |-> rows[c].enabled, store |-> rows[c].store]
        ELSE rows[c]]

\* What client c holds when the upsert of cs[i] runs.
HeldAt(rows, cs, i, c) ==
    IF \E j \in 1 .. i - 1 : cs[j].name = c
    THEN {cs[j].cred : j \in {k \in 1 .. i - 1 : cs[k].name = c}}
    ELSE IF rows[c] = Null THEN {} ELSE {rows[c].cred}

\* The unique indexes of migration 0002 refuse an upsert.
Collides(rows, cs) ==
    \E i \in DOMAIN cs : \E c \in Client \ {cs[i].name} :
        cs[i].cred \in HeldAt(rows, cs, i, c)

Upsert(rows, cs) ==
    [c \in Client |->
        IF Listed(cs, c)
        THEN LET i == CHOOSE i \in DOMAIN cs : cs[i].name = c
             IN [cred |-> cs[i].cred, enabled |-> TRUE, store |-> cs[i].store]
        ELSE rows[c]]

Freed == Release(Retire(clients, cfg.clients), cfg.clients)

ReconcileClients ==
    /\ phase = "clients"
    /\ IF Collides(Freed, cfg.clients)
       THEN /\ phase' = "down" /\ cfg' = Null /\ todo' = {}
            /\ again' = FALSE /\ UNCHANGED clients
       ELSE /\ phase' = "secrets" /\ clients' = Upsert(Freed, cfg.clients)
            /\ todo' = {n \in Name : cfg.secrets[n] # Null}
            /\ UNCHANGED <<cfg, again>>
    /\ UNCHANGED <<secrets, policies, settled, wrote>>

-----------------------------------------------------------------------------
(***************************************************************************)
(* desired_secrets and reconcile_secrets.                                  *)
(***************************************************************************)

\* Every value file could be read and is not empty.
Readable(c) == \A n \in Name : c.secrets[n] # Null => c.secrets[n].value # Null

\* desired_secrets fails: the clients are reconciled, and the server exits.
FailToRead ==
    /\ phase = "secrets" /\ ~Readable(cfg)
    /\ phase' = "down" /\ cfg' = Null /\ todo' = {}
    /\ again' = FALSE /\ wrote' = FALSE
    /\ UNCHANGED <<clients, secrets, policies, settled>>

\* current_tags # wanted_tags: a list in the database's order, a list in ours.
TagsDiffer(stored, wanted) == stored # wanted \/ wanted \notin Alike

\* The metadata is rewritten.
MetadataDiffers(row, d) ==
    \/ row.meta # d.meta
    \/ TagsDiffer(row.tags, d.tags)
    \/ ~row.enabled \/ ~row.vetted \/ ~row.managed

\* The row after reconcile_one_secret; each half is written only if it differs.
Desired(row, d) ==
    IF row = Null
    THEN [meta |-> d.meta, tags |-> d.tags, value |-> d.value,
          enabled |-> TRUE, vetted |-> TRUE, managed |-> TRUE]
    ELSE LET kept == [row EXCEPT !.value = d.value]
         IN IF MetadataDiffers(row, d)
            THEN [kept EXCEPT !.meta = d.meta, !.tags = d.tags,
                              !.enabled = TRUE, !.vetted = TRUE, !.managed = TRUE]
            ELSE kept

\* Fault: every start appends a version, equal bytes or not.
RotatesAlways(row, d) == TRUE

\* Created or Updated, with its rows of audit.
Changes(row, d) == row = Null \/ MetadataDiffers(row, d) \/ row.value # d.value

\* The loop takes the secrets in the order of the configuration; they are
\* independent, and here any order is taken.
ReconcileOneSecret(n) ==
    /\ phase = "secrets" /\ Readable(cfg) /\ n \in todo
    /\ secrets' = [secrets EXCEPT ![n] = Desired(@, cfg.secrets[n])]
    /\ wrote' = (wrote \/ Changes(secrets[n], cfg.secrets[n]))
    /\ todo' = todo \ {n}
    /\ UNCHANGED <<phase, cfg, clients, policies, settled, again>>

\* Fault: rows that operators own are swept away too.
StaleAny == {n \in Name : secrets[n] # Null /\ cfg.secrets[n] = Null}

\* Managed rows whose name the configuration no longer lists.
Stale == {n \in Name : secrets[n] # Null /\ secrets[n].managed /\ cfg.secrets[n] = Null}

ListStale ==
    /\ phase = "secrets" /\ Readable(cfg) /\ todo = {}
    /\ phase' = "stale" /\ todo' = Stale
    /\ UNCHANGED <<cfg, clients, secrets, policies, settled, again, wrote>>

\* delete_secret_audited, as the actor "config".
DeleteStale(n) ==
    /\ phase = "stale" /\ n \in todo
    /\ secrets' = [secrets EXCEPT ![n] = Null]
    /\ wrote' = TRUE
    /\ todo' = todo \ {n}
    /\ UNCHANGED <<phase, cfg, clients, policies, settled, again>>

EndStale ==
    /\ phase = "stale" /\ todo = {}
    /\ phase' = "policies"
    /\ UNCHANGED <<cfg, clients, secrets, policies, todo, settled, again, wrote>>

-----------------------------------------------------------------------------
(***************************************************************************)
(* reconcile_policies, one transaction; rows of equal contents are a bag.  *)
(***************************************************************************)

\* Each managed row uses up one rule of equal contents, or is deleted.
Kept(have, want) == IF have < want THEN have ELSE want

\* Rules left over are inserted.
Inserted(have, want) == IF want < have THEN 0 ELSE want - have

ReconcilePolicies ==
    LET kept(k) == Kept(policies[k].config, cfg.policies[k])
        new(k) == Inserted(policies[k].config, cfg.policies[k])
    IN  /\ phase = "policies"
        /\ policies' = [k \in Key |-> [policies[k] EXCEPT !.config = kept(k) + new(k)]]
        /\ wrote' = (wrote \/ \E k \in Key : kept(k) # policies[k].config \/ new(k) # 0)
        /\ phase' = "serving" /\ settled' = cfg
        /\ UNCHANGED <<cfg, clients, secrets, todo, again>>

-----------------------------------------------------------------------------
(***************************************************************************)
(* A server that is up: rows that operators and clients write.             *)
(***************************************************************************)

Written(n, row) ==
    /\ secrets' = [secrets EXCEPT ![n] = row]
    /\ UNCHANGED <<phase, cfg, clients, policies, todo, settled, again, wrote>>

\* Fault: the handler does not look whether configuration owns the row.
EditableAny(n) == phase = "serving" /\ secrets[n] # Null

\* The row is there and configuration does not own it.
Editable(n) == phase = "serving" /\ secrets[n] # Null /\ ~secrets[n].managed

\* create_secret_with_version by an operator, or a client's deposit, which
\* nobody has vetted.  A deposit needs a client that may store.
Create(n, m, v, vetted) ==
    /\ phase = "serving" /\ secrets[n] = Null
    /\ vetted \/ \E c \in Client : clients[c] # Null /\ clients[c].enabled /\ clients[c].store
    /\ Written(n, [meta |-> m, tags |-> {}, value |-> v, enabled |-> TRUE,
                   vetted |-> vetted, managed |-> FALSE])

\* rotate_secret_version; the operator's new bytes are vetted.
Rotate(n, v) ==
    /\ Editable(n)
    /\ Written(n, [secrets[n] EXCEPT !.value = v, !.vetted = TRUE])

\* update_secret_settings_audited.
UpdateSettings(n, m, ts, enabled) ==
    /\ Editable(n)
    /\ Written(n, [secrets[n] EXCEPT !.meta = m, !.tags = ts, !.enabled = enabled])

\* mark_secret_vetted; a managed row is vetted already.
MarkVetted(n) ==
    /\ phase = "serving" /\ secrets[n] # Null /\ ~secrets[n].vetted
    /\ Written(n, [secrets[n] EXCEPT !.vetted = TRUE])

DeleteSecret(n) == Editable(n) /\ Written(n, Null)

OperatorRows(k, count) ==
    /\ policies' = [policies EXCEPT ![k].operator = count]
    /\ UNCHANGED <<phase, cfg, clients, secrets, todo, settled, again, wrote>>

\* insert_policy_audited.
InsertPolicy(k) ==
    /\ phase = "serving" /\ policies[k].operator < MaxCopies
    /\ OperatorRows(k, policies[k].operator + 1)

\* delete_policy_audited.
DeletePolicy(k) ==
    /\ phase = "serving" /\ policies[k].operator > 0
    /\ OperatorRows(k, policies[k].operator - 1)

\* update_policy_audited: a row of content k becomes one of content l.
UpdatePolicy(k, l) ==
    /\ phase = "serving" /\ k # l
    /\ policies[k].operator > 0 /\ policies[l].operator < MaxCopies
    /\ policies' = [policies EXCEPT ![k].operator = @ - 1, ![l].operator = @ + 1]
    /\ UNCHANGED <<phase, cfg, clients, secrets, todo, settled, again, wrote>>

-----------------------------------------------------------------------------
StartStep ==
    \/ \E c \in Configs : Start(c)
    \/ ReconcileClients
    \/ FailToRead
    \/ \E n \in Name : ReconcileOneSecret(n) \/ DeleteStale(n)
    \/ ListStale \/ EndStale
    \/ ReconcilePolicies

SecretStep(n) ==
    \/ \E m \in Meta, v \in Value, vetted \in BOOLEAN : Create(n, m, v, vetted)
    \/ \E v \in Value : Rotate(n, v)
    \/ \E m \in Meta, ts \in SUBSET Tag, enabled \in BOOLEAN :
           UpdateSettings(n, m, ts, enabled)
    \/ MarkVetted(n)
    \/ DeleteSecret(n)

PolicyStep(k) == InsertPolicy(k) \/ DeletePolicy(k) \/ \E l \in Key : UpdatePolicy(k, l)

Next ==
    \/ StartStep
    \/ Crash
    \/ \E n \in Name : SecretStep(n)
    \/ \E k \in Key : PolicyStep(k)

Spec == Init /\ [][Next]_vars

-----------------------------------------------------------------------------
(***************************************************************************)
(* Converged: a server serves only from tables that match its own          *)
(* configuration: the managed secrets are those it lists, with the bytes   *)
(* of the files, enabled and vetted, and each rule has as many managed     *)
(* rows as it is listed, whatever earlier starts left half done and        *)
(* whatever was written by hand in between (AppState::init).               *)
(***************************************************************************)
AsConfigured(row, d) ==
    IF d = Null THEN row = Null \/ ~row.managed
    ELSE /\ row # Null
         /\ row.managed /\ row.enabled /\ row.vetted
         /\ row.value = d.value /\ row.meta = d.meta /\ row.tags = d.tags

Matches(c) ==
    /\ \A n \in Name : AsConfigured(secrets[n], c.secrets[n])
    /\ \A k \in Key : policies[k].config = c.policies[k]

Converged == phase = "serving" => Matches(cfg)

(***************************************************************************)
(* CredentialsAsConfigured: while a server serves, a credential            *)
(* authenticates exactly the client that the configuration gives it to,    *)
(* and only configured clients may deposit: a client that was dropped, or  *)
(* that lost its credential to another, keeps nothing (reconcile_clients,  *)
(* authenticate_client).                                                   *)
(***************************************************************************)
Authenticate(k) ==
    {c \in Client : clients[c] # Null /\ clients[c].enabled /\ clients[c].cred = k}

ConfiguredFor(cs, k) == {c \in Client : \E i \in DOMAIN cs : cs[i].name = c /\ cs[i].cred = k}

MayStore(cs) == {c \in Client : \E i \in DOMAIN cs : cs[i].name = c /\ cs[i].store}

CredentialsAsConfigured ==
    phase = "serving" =>
        /\ \A k \in Cred : Authenticate(k) = ConfiguredFor(cfg.clients, k)
        /\ {c \in Client : clients[c] # Null /\ clients[c].store} = MayStore(cfg.clients)

(***************************************************************************)
(* NeverCollides: no configuration that validates can be kept from         *)
(* starting by the unique indexes on credentials, however credentials      *)
(* moved between clients that are configured, dropped or renamed (the      *)
(* order of the statements in reconcile_clients).                          *)
(***************************************************************************)
NeverCollides == phase = "clients" => ~Collides(Freed, cfg.clients)

(***************************************************************************)
(* OperatorRowsKept: a start changes no policy that an operator wrote, and *)
(* no secret that configuration does not own, unless the configuration     *)
(* names it and adopts it (the comment on top of db/provision.rs).         *)
(***************************************************************************)
Untouched(n) == secrets[n] # Null /\ ~secrets[n].managed /\ cfg.secrets[n] = Null

OperatorRowsKept ==
    [][phase \notin {"down", "serving"} =>
        /\ \A n \in Name : Untouched(n) => secrets'[n] = secrets[n]
        /\ \A k \in Key : policies'[k].operator = policies[k].operator]_vars

(***************************************************************************)
(* QuietRestart: a start that repeats the configuration the tables were    *)
(* last brought to changes no secret and no policy, provided the database  *)
(* and the server sort the tags it lists alike: "a restart that changes    *)
(* nothing writes nothing" (db/provision.rs).                              *)
(***************************************************************************)
SortedAlike(c) == \A n \in Name : c.secrets[n] # Null => c.secrets[n].tags \in Alike

QuietRestart == again /\ SortedAlike(cfg) => ~wrote
=============================================================================
