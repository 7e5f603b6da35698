--------------------------- MODULE ProvisionProofs --------------------------
(***************************************************************************)
(* Theorems about provisioning, for any tables and any configurations.     *)
(* First what the statements of a start compute, then the inductive        *)
(* invariant with one lemma per group of actions, then the properties.     *)
(***************************************************************************)
EXTENDS Provision, TLAPS

USE ProvisionAssumption, RowAssumption

-----------------------------------------------------------------------------
(* The inductive invariant.                                                *)

\* A server that is past loading has a configuration that validates.
Loaded == phase # "down" => cfg \in Configs /\ Validate(cfg)

\* What a client holds once clients are reconciled.
Bound(c) ==
    IF Listed(cfg.clients, c)
    THEN \E i \in DOMAIN cfg.clients :
            /\ cfg.clients[i].name = c
            /\ clients[c] = [cred |-> cfg.clients[i].cred, enabled |-> TRUE,
                             store |-> cfg.clients[i].store]
    ELSE clients[c] \in {Null, [cred |-> Null, enabled |-> FALSE, store |-> FALSE]}

ClientsDone == phase \notin {"down", "clients"} => \A c \in Client : Bound(c)

\* How far the two loops over secrets have come.
LoopsDone ==
    /\ phase = "secrets" => \A n \in Name :
           /\ n \in todo => cfg.secrets[n] # Null
           /\ cfg.secrets[n] # Null => n \in todo \/ AsConfigured(secrets[n], cfg.secrets[n])
    /\ phase = "stale" => \A n \in Name :
           IF n \in todo
           THEN cfg.secrets[n] = Null /\ secrets[n] # Null /\ secrets[n].managed
           ELSE AsConfigured(secrets[n], cfg.secrets[n])
    /\ phase = "policies" => \A n \in Name : AsConfigured(secrets[n], cfg.secrets[n])

\* The tables stay as the last complete start left them, until a start with
\* another configuration begins.
HistorySound ==
    /\ settled # Null => Matches(settled)
    /\ phase = "serving" => settled = cfg
    /\ phase # "down" => settled = Null \/ settled = cfg
    /\ again => phase # "down" /\ settled = cfg
    /\ again /\ SortedAlike(cfg) => ~wrote

IInv == TypeOK /\ Loaded /\ ClientsDone /\ LoopsDone /\ HistorySound

-----------------------------------------------------------------------------
(* What the statements of a start compute.                                 *)

\* The fields of a configuration.
LEMMA ConfigFields ==
    ASSUME NEW c \in Configs
    PROVE  /\ c # Null
           /\ c.clients \in Seq(ClientConfig)
           /\ c.secrets \in [Name -> SecretConfig \cup {Null}]
           /\ c.policies \in [Key -> 0 .. MaxCopies]
           /\ Len(c.clients) \in Nat /\ DOMAIN c.clients = 1 .. Len(c.clients)
           /\ \A i \in DOMAIN c.clients :
                 c.clients[i].cred \in Cred /\ c.clients[i].store \in BOOLEAN
PROOF
<1>1. c \in Config
  OBVIOUS
<1>2. c.clients \in Seq(ClientConfig)
  BY <1>1 DEF Config
<1>3. Len(c.clients) \in Nat /\ DOMAIN c.clients = 1 .. Len(c.clients)
  BY <1>2
<1>4. ASSUME NEW i \in DOMAIN c.clients
      PROVE  c.clients[i].cred \in Cred /\ c.clients[i].store \in BOOLEAN
  <2>1. c.clients[i] \in ClientConfig
    BY <1>2, <1>3
  <2> QED BY <2>1 DEF ClientConfig
<1> QED BY <1>1, <1>3, <1>4 DEF Config

\* After the two releases nobody holds a credential, and clients that are not
\* listed have no rights either.
LEMMA FreedRows ==
    ASSUME TypeOK, NEW c \in Client
    PROVE  /\ Freed[c] \in ClientRow \cup {Null}
           /\ Freed[c] # Null => Freed[c].cred = Null
           /\ ~Listed(cfg.clients, c) =>
                 Freed[c] \in {Null, [cred |-> Null, enabled |-> FALSE, store |-> FALSE]}
PROOF
<1> DEFINE cs == cfg.clients
<1>1. clients[c] \in ClientRow \cup {Null}
  BY DEF TypeOK
<1>2. CASE clients[c] = Null
  BY <1>2 DEF Freed, Release, Retire
<1>3. CASE clients[c] # Null /\ Listed(cs, c)
  <2>1. Retire(clients, cs)[c] = clients[c]
    BY <1>3 DEF Retire
  <2>2. Freed[c] = [cred |-> Null, enabled |-> clients[c].enabled, store |-> clients[c].store]
    BY <1>3, <2>1 DEF Freed, Release
  <2>3. clients[c].enabled \in BOOLEAN /\ clients[c].store \in BOOLEAN
    BY <1>1, <1>3 DEF ClientRow
  <2> QED BY <1>3, <2>2, <2>3 DEF ClientRow
<1>4. CASE clients[c] # Null /\ ~Listed(cs, c)
  <2>1. Retire(clients, cs)[c] = [cred |-> Null, enabled |-> FALSE, store |-> FALSE]
    BY <1>4 DEF Retire
  <2>2. Freed[c] = [cred |-> Null, enabled |-> FALSE, store |-> FALSE]
    BY <1>4, <2>1 DEF Freed, Release
  <2> QED BY <2>2 DEF ClientRow
<1> QED BY <1>2, <1>3, <1>4

\* So the upserts of a configuration that validates never meet a credential
\* that somebody else holds.
LEMMA NoCollision ==
    ASSUME TypeOK, cfg \in Configs, Validate(cfg)
    PROVE  ~Collides(Freed, cfg.clients)
PROOF
<1> DEFINE cs == cfg.clients
<1>1. cs \in Seq(ClientConfig)
  BY ConfigFields
<1> SUFFICES ASSUME NEW i \in DOMAIN cs, NEW c \in Client \ {cs[i].name},
                    cs[i].cred \in HeldAt(Freed, cs, i, c)
             PROVE  FALSE
  BY DEF Collides
<1>2. cs[i].cred \in Cred
  BY ConfigFields
<1>3. CASE \E j \in 1 .. i - 1 : cs[j].name = c
  <2>1. PICK j \in 1 .. i - 1 : cs[j].cred = cs[i].cred
    BY <1>3 DEF HeldAt
  <2>2. j \in DOMAIN cs /\ j # i
    BY ConfigFields
  <2> QED BY <2>1, <2>2 DEF Validate
<1>4. CASE ~ \E j \in 1 .. i - 1 : cs[j].name = c
  <2>1. Freed[c] # Null /\ cs[i].cred = Freed[c].cred
    BY <1>4 DEF HeldAt
  <2> QED BY <1>2, <2>1, FreedRows
<1> QED BY <1>3, <1>4

\* The upserts give every listed client what the configuration gives it.
LEMMA UpsertRows ==
    ASSUME TypeOK, cfg \in Configs, NEW c \in Client,
           clients' = Upsert(Freed, cfg.clients)
    PROVE  /\ clients'[c] \in ClientRow \cup {Null}
           /\ Listed(cfg.clients, c) =>
                 \E i \in DOMAIN cfg.clients :
                    /\ cfg.clients[i].name = c
                    /\ clients'[c] = [cred |-> cfg.clients[i].cred, enabled |-> TRUE,
                                      store |-> cfg.clients[i].store]
           /\ ~Listed(cfg.clients, c) =>
                 clients'[c] \in {Null, [cred |-> Null, enabled |-> FALSE, store |-> FALSE]}
PROOF
<1> DEFINE cs == cfg.clients
<1>1. cs \in Seq(ClientConfig)
  BY ConfigFields
<1>2. CASE Listed(cs, c)
  <2> DEFINE i == CHOOSE i \in DOMAIN cs : cs[i].name = c
  <2>1. i \in DOMAIN cs /\ cs[i].name = c
    BY <1>2 DEF Listed
  <2>2. clients'[c] = [cred |-> cs[i].cred, enabled |-> TRUE, store |-> cs[i].store]
    BY <1>2 DEF Upsert
  <2>3. cs[i].cred \in Cred /\ cs[i].store \in BOOLEAN
    BY <2>1, ConfigFields
  <2>4. clients'[c] \in ClientRow
    BY <2>2, <2>3 DEF ClientRow
  <2> HIDE DEF i
  <2> QED BY <1>2, <2>1, <2>2, <2>4
<1>3. CASE ~Listed(cs, c)
  <2>1. clients'[c] = Freed[c]
    BY <1>3 DEF Upsert
  <2> QED BY <1>3, <2>1, FreedRows
<1> QED BY <1>2, <1>3

\* Reconciling a secret leaves the row that the configuration describes.
LEMMA DesiredSound ==
    ASSUME NEW row \in SecretRow \cup {Null}, NEW d \in SecretConfig, d.value # Null
    PROVE  Desired(row, d) \in SecretRow /\ AsConfigured(Desired(row, d), d)
PROOF
<1>1. d # Null /\ d.value \in Value /\ d.meta \in Meta /\ d.tags \in SUBSET Tag
  BY DEF SecretConfig
<1> DEFINE new == [meta |-> d.meta, tags |-> d.tags, value |-> d.value,
                   enabled |-> TRUE, vetted |-> TRUE, managed |-> TRUE]
<1>a. new \in SecretRow /\ new # Null /\ AsConfigured(new, d)
  <2>1. new \in SecretRow
    BY <1>1 DEF SecretRow
  <2>2. new # Null
    BY <2>1
  <2> QED BY <1>1, <2>1, <2>2 DEF AsConfigured
<1>2. CASE row = Null
  <2>1. Desired(row, d) = new
    BY <1>2 DEF Desired
  <2> QED BY <1>a, <2>1
<1>3. CASE row # Null /\ MetadataDiffers(row, d)
  <2>1. PICK e, t, g :
            row = [meta |-> row.meta, tags |-> row.tags, value |-> row.value,
                   enabled |-> e, vetted |-> t, managed |-> g]
    BY <1>3 DEF SecretRow
  <2>2. Desired(row, d) = new
    BY <1>3, <2>1 DEF Desired
  <2> QED BY <1>a, <2>2
<1>4. CASE row # Null /\ ~MetadataDiffers(row, d)
  <2>1. Desired(row, d) = [row EXCEPT !.value = d.value]
    BY <1>4 DEF Desired
  <2>2. /\ row.meta = d.meta /\ row.tags = d.tags
        /\ row.enabled /\ row.vetted /\ row.managed
    BY <1>4 DEF MetadataDiffers, TagsDiffer
  <2>3. Desired(row, d) \in SecretRow
    BY <1>1, <1>4, <2>1 DEF SecretRow
  <2>4. /\ Desired(row, d).value = d.value
        /\ Desired(row, d).meta = row.meta /\ Desired(row, d).tags = row.tags
        /\ Desired(row, d).enabled = row.enabled /\ Desired(row, d).vetted = row.vetted
        /\ Desired(row, d).managed = row.managed
    BY <1>4, <2>1 DEF SecretRow
  <2> QED BY <1>1, <2>2, <2>3, <2>4 DEF AsConfigured
<1> QED BY <1>2, <1>3, <1>4

\* A row that is as configured is left alone, if its tags sort alike.
LEMMA DesiredQuiet ==
    ASSUME NEW row, NEW d, d # Null, AsConfigured(row, d), d.tags \in Alike
    PROVE  ~Changes(row, d)
PROOF
  BY Zenon DEF AsConfigured, Changes, MetadataDiffers, TagsDiffer

-----------------------------------------------------------------------------
(* Every action keeps the invariant.                                       *)

\* A step back to "down" that writes no table and forgets the start.
LEMMA DownKeeps ==
    ASSUME IInv, phase' = "down", cfg' = Null, todo' = {}, again' = FALSE,
           wrote' \in BOOLEAN, UNCHANGED <<clients, secrets, policies, settled>>
    PROVE  IInv'
PROOF
<1>1. TypeOK'
  BY DEF IInv, TypeOK, Phase
<1>2. Loaded' /\ ClientsDone' /\ LoopsDone'
  BY DEF Loaded, ClientsDone, LoopsDone
<1>3. HistorySound'
  BY DEF IInv, HistorySound, Matches
<1> QED BY <1>1, <1>2, <1>3 DEF IInv

\* The configuration is loaded.
LEMMA StartKeeps ==
    ASSUME IInv, NEW c \in Configs, Start(c)
    PROVE  IInv'
PROOF
<1>1. TypeOK'
  <2>1. again' \in BOOLEAN
    BY DEF Start
  <2> QED BY <2>1 DEF IInv, TypeOK, Start, Phase
<1>2. Loaded'
  <2>1. Validate(c) /\ cfg' = c
    BY DEF Start
  <2>2. Validate(cfg')
    BY <2>1
  <2>3. Validate(cfg)'
    BY <2>2 DEF Validate
  <2> QED BY <2>1, <2>3 DEF Loaded
<1>3. ClientsDone' /\ LoopsDone'
  BY DEF Start, ClientsDone, LoopsDone
<1>4. HistorySound'
  <2>1. settled' # Null => settled' = settled /\ settled = c
    BY DEF Start
  <2>2. settled' # Null => Matches(settled)'
    BY <2>1 DEF IInv, HistorySound, Start, Matches
  <2>3. again' => settled' = cfg'
    BY DEF Start
  <2> QED BY <2>1, <2>2, <2>3 DEF Start, HistorySound
<1> QED BY <1>1, <1>2, <1>3, <1>4 DEF IInv

\* Clients are reconciled.
LEMMA ReconcileClientsKeeps ==
    ASSUME IInv, ReconcileClients
    PROVE  IInv'
PROOF
<1>1. cfg \in Configs /\ Validate(cfg)
  BY DEF IInv, Loaded, ReconcileClients
<1>2. ~Collides(Freed, cfg.clients)
  BY <1>1, NoCollision DEF IInv
<1>3. /\ phase' = "secrets" /\ clients' = Upsert(Freed, cfg.clients)
      /\ todo' = {n \in Name : cfg.secrets[n] # Null}
      /\ cfg' = cfg /\ again' = again
      /\ secrets' = secrets /\ policies' = policies /\ settled' = settled /\ wrote' = wrote
  BY <1>2 DEF ReconcileClients
<1>4. clients' \in [Client -> ClientRow \cup {Null}]
  <2>1. clients' = [c \in Client |-> clients'[c]]
    BY <1>3 DEF Upsert
  <2>2. \A c \in Client : clients'[c] \in ClientRow \cup {Null}
    BY <1>1, <1>3, UpsertRows DEF IInv
  <2> QED BY <2>1, <2>2
<1>5. TypeOK'
  BY <1>3, <1>4 DEF IInv, TypeOK, Phase
<1>6. Loaded'
  BY <1>1, <1>3 DEF Loaded, Validate
<1>7. ClientsDone'
  <2> SUFFICES ASSUME NEW c \in Client PROVE Bound(c)'
    BY DEF ClientsDone
  <2>1. Listed(cfg.clients, c)' <=> Listed(cfg.clients, c)
    BY <1>3 DEF Listed
  <2>2. TypeOK
    BY DEF IInv
  <2>3. CASE Listed(cfg.clients, c)
    BY <1>1, <1>3, <2>1, <2>2, <2>3, UpsertRows DEF Bound
  <2>4. CASE ~Listed(cfg.clients, c)
    BY <1>1, <1>3, <2>1, <2>2, <2>4, UpsertRows DEF Bound
  <2> QED BY <2>3, <2>4
<1>8. LoopsDone'
  BY <1>3 DEF LoopsDone
<1>9. HistorySound'
  BY <1>3 DEF IInv, HistorySound, Matches, SortedAlike, ReconcileClients
<1> QED BY <1>5, <1>6, <1>7, <1>8, <1>9 DEF IInv

\* What the steps that leave clients and configuration alone keep.
LEMMA FrameKeeps ==
    ASSUME IInv, cfg' = cfg, clients' = clients, phase \notin {"down", "clients"}
    PROVE  Loaded' /\ ClientsDone'
PROOF
<1>1. Loaded'
  BY DEF IInv, Loaded, Validate
<1>2. ASSUME NEW c \in Client PROVE Bound(c)'
  <2>1. Bound(c)
    BY DEF IInv, ClientsDone
  <2> QED BY <2>1 DEF Bound, Listed
<1> QED BY <1>1, <1>2 DEF ClientsDone

\* One secret is reconciled.
LEMMA ReconcileOneSecretKeeps ==
    ASSUME IInv, NEW n \in Name, ReconcileOneSecret(n)
    PROVE  IInv'
PROOF
<1> DEFINE d == cfg.secrets[n]
<1>0. phase = "secrets" /\ cfg \in Configs
  BY DEF IInv, Loaded, ReconcileOneSecret
<1>1. /\ secrets' = [secrets EXCEPT ![n] = Desired(secrets[n], d)]
      /\ todo' = todo \ {n} /\ n \in todo
      /\ wrote' = (wrote \/ Changes(secrets[n], d))
      /\ UNCHANGED <<phase, cfg, clients, policies, settled, again>>
  BY DEF ReconcileOneSecret
<1>2. d # Null /\ d \in SecretConfig /\ d.value # Null
  <2>1. d # Null
    BY <1>0, <1>1 DEF IInv, LoopsDone
  <2> QED BY <1>0, <2>1, ConfigFields DEF ReconcileOneSecret, Readable
<1>3. secrets[n] \in SecretRow \cup {Null}
  BY DEF IInv, TypeOK
<1>4. Desired(secrets[n], d) \in SecretRow /\ AsConfigured(Desired(secrets[n], d), d)
  BY <1>2, <1>3, DesiredSound
<1>5. /\ secrets'[n] = Desired(secrets[n], d)
      /\ \A m \in Name \ {n} : secrets'[m] = secrets[m]
  BY <1>1 DEF IInv, TypeOK
<1>6. TypeOK'
  <2>1. wrote' \in BOOLEAN
    BY <1>1 DEF IInv, TypeOK
  <2>2. secrets' \in [Name -> SecretRow \cup {Null}]
    BY <1>1, <1>4 DEF IInv, TypeOK
  <2> QED BY <1>1, <2>1, <2>2 DEF IInv, TypeOK
<1>7. Loaded' /\ ClientsDone'
  BY <1>0, <1>1, FrameKeeps
<1>8. LoopsDone'
  <2>1. phase' = "secrets"
    BY <1>0, <1>1
  <2>2. ASSUME NEW m \in Name
        PROVE  /\ m \in todo' => cfg'.secrets[m] # Null
               /\ cfg'.secrets[m] # Null =>
                      m \in todo' \/ AsConfigured(secrets'[m], cfg'.secrets[m])
    BY <1>0, <1>1, <1>4, <1>5 DEF IInv, LoopsDone
  <2> QED BY <2>1, <2>2 DEF LoopsDone, AsConfigured
<1>9. HistorySound'
  <2>1. settled = Null \/ settled = cfg
    BY <1>0 DEF IInv, HistorySound
  <2>2. ASSUME settled # Null
        PROVE  /\ \A m \in Name : AsConfigured(secrets'[m], settled.secrets[m])
               /\ \A k \in Key : policies[k].config = settled.policies[k]
    BY <1>4, <1>5, <2>1, <2>2 DEF IInv, HistorySound, Matches
  <2>3. settled' # Null => Matches(settled)'
    BY <1>1, <2>2 DEF Matches, AsConfigured
  <2>4. ASSUME again, SortedAlike(cfg) PROVE ~wrote'
    <3>1. settled = cfg /\ Matches(settled) /\ ~wrote
      BY <1>0, <2>4, ConfigFields DEF IInv, HistorySound
    <3>2. AsConfigured(secrets[n], d)
      BY <3>1 DEF Matches
    <3>3. d.tags \in Alike
      BY <1>2, <2>4 DEF SortedAlike
    <3>4. ~Changes(secrets[n], d)
      BY <1>2, <3>2, <3>3, DesiredQuiet
    <3> QED BY <1>1, <3>1, <3>4
  <2>5. SortedAlike(cfg)' = SortedAlike(cfg)
    BY <1>1 DEF SortedAlike
  <2> QED BY <1>0, <1>1, <2>3, <2>4, <2>5 DEF IInv, HistorySound
<1> QED BY <1>6, <1>7, <1>8, <1>9 DEF IInv

\* The stale rows are listed, or there are none left.
LEMMA ListStaleKeeps ==
    ASSUME IInv, ListStale \/ EndStale
    PROVE  IInv'
PROOF
<1>1. /\ phase \in {"secrets", "stale"} /\ phase' \in {"stale", "policies"}
      /\ UNCHANGED <<cfg, clients, secrets, policies, settled, again, wrote>>
  BY DEF ListStale, EndStale
<1>2. TypeOK'
  BY <1>1 DEF IInv, TypeOK, Phase, ListStale, EndStale, Stale
<1>3. Loaded' /\ ClientsDone'
  BY <1>1, FrameKeeps
<1>4. LoopsDone'
  <2>1. CASE ListStale
    <3>1. /\ phase = "secrets" /\ phase' = "stale" /\ todo = {}
          /\ todo' = {n \in Name : secrets[n] # Null /\ secrets[n].managed
                                   /\ cfg.secrets[n] = Null}
      BY <2>1 DEF ListStale, Stale
    <3>2. ASSUME NEW n \in Name, n \notin todo'
          PROVE  AsConfigured(secrets[n], cfg.secrets[n])
      <4>1. CASE cfg.secrets[n] = Null
        BY <3>1, <3>2, <4>1 DEF AsConfigured
      <4>2. CASE cfg.secrets[n] # Null
        BY <3>1, <4>2 DEF IInv, LoopsDone
      <4> QED BY <4>1, <4>2
    <3>3. ASSUME NEW n \in Name, n \notin todo'
          PROVE  AsConfigured(secrets[n], cfg.secrets[n])'
      BY <1>1, <3>2, <3>3 DEF AsConfigured
    <3> QED BY <1>1, <3>1, <3>3 DEF LoopsDone
  <2>2. CASE EndStale
    <3>1. phase = "stale" /\ phase' = "policies" /\ todo = {}
      BY <2>2 DEF EndStale
    <3>2. \A n \in Name : AsConfigured(secrets[n], cfg.secrets[n])
      BY <3>1 DEF IInv, LoopsDone
    <3> QED BY <1>1, <3>1, <3>2 DEF LoopsDone, AsConfigured
  <2> QED BY <2>1, <2>2
<1>5. HistorySound'
  BY <1>1 DEF IInv, HistorySound, Matches, AsConfigured, SortedAlike
<1> QED BY <1>2, <1>3, <1>4, <1>5 DEF IInv

\* A stale row is deleted; a start that repeats its configuration meets none.
LEMMA DeleteStaleKeeps ==
    ASSUME IInv, NEW n \in Name, DeleteStale(n)
    PROVE  IInv'
PROOF
<1>0. phase = "stale" /\ cfg \in Configs
  BY DEF IInv, Loaded, DeleteStale
<1>1. /\ secrets' = [secrets EXCEPT ![n] = Null]
      /\ wrote' = TRUE /\ todo' = todo \ {n} /\ n \in todo
      /\ UNCHANGED <<phase, cfg, clients, policies, settled, again>>
  BY DEF DeleteStale
<1>2. cfg.secrets[n] = Null /\ secrets[n] # Null /\ secrets[n].managed
  BY <1>0, <1>1 DEF IInv, LoopsDone
<1>3. secrets'[n] = Null /\ \A m \in Name \ {n} : secrets'[m] = secrets[m]
  BY <1>1 DEF IInv, TypeOK
<1>4. TypeOK'
  BY <1>1 DEF IInv, TypeOK
<1>5. Loaded' /\ ClientsDone'
  BY <1>0, <1>1, FrameKeeps
<1>6. settled = Null
  <2>1. ~AsConfigured(secrets[n], cfg.secrets[n])
    BY <1>2 DEF AsConfigured
  <2> QED BY <1>0, <2>1 DEF IInv, HistorySound, Matches
<1>7. LoopsDone'
  <2>1. AsConfigured(secrets'[n], cfg.secrets[n])
    BY <1>2, <1>3 DEF AsConfigured
  <2>2. ASSUME NEW m \in Name
        PROVE  IF m \in todo'
               THEN cfg'.secrets[m] = Null /\ secrets'[m] # Null /\ secrets'[m].managed
               ELSE AsConfigured(secrets'[m], cfg'.secrets[m])
    BY <1>0, <1>1, <1>3, <2>1 DEF IInv, LoopsDone
  <2> QED BY <1>0, <1>1, <2>2 DEF LoopsDone, AsConfigured
<1>8. HistorySound'
  <2>1. again = FALSE
    BY <1>0, <1>6, ConfigFields DEF IInv, HistorySound, TypeOK
  <2> QED BY <1>0, <1>1, <1>6, <2>1 DEF HistorySound
<1> QED BY <1>4, <1>5, <1>7, <1>8 DEF IInv

\* Kept rows and inserted ones make up the number that is wanted.
LEMMA PoliciesAdd ==
    ASSUME NEW have \in Nat, NEW want \in Nat
    PROVE  /\ Kept(have, want) + Inserted(have, want) = want
           /\ have = want => Kept(have, want) = have /\ Inserted(have, want) = 0
PROOF
  BY DEF Kept, Inserted

\* Policies are reconciled, and the server serves.
LEMMA ReconcilePoliciesKeeps ==
    ASSUME IInv, ReconcilePolicies
    PROVE  IInv'
PROOF
<1> DEFINE kept(k) == Kept(policies[k].config, cfg.policies[k])
           new(k) == Inserted(policies[k].config, cfg.policies[k])
<1>0. phase = "policies" /\ cfg \in Configs
  BY DEF IInv, Loaded, ReconcilePolicies
<1>1. /\ policies' = [k \in Key |-> [policies[k] EXCEPT !.config = kept(k) + new(k)]]
      /\ wrote' = (wrote \/ \E k \in Key : kept(k) # policies[k].config \/ new(k) # 0)
      /\ phase' = "serving" /\ settled' = cfg
      /\ UNCHANGED <<cfg, clients, secrets, todo, again>>
  BY DEF ReconcilePolicies
<1>2. ASSUME NEW k \in Key
      PROVE  /\ policies[k] \in Copies
             /\ policies[k].config \in Nat /\ policies[k].operator \in 0 .. MaxCopies
             /\ cfg.policies[k] \in 0 .. MaxCopies /\ cfg.policies[k] \in Nat
  BY <1>0, ConfigFields DEF IInv, TypeOK, Copies
<1>3. ASSUME NEW k \in Key
      PROVE  policies'[k] = [config |-> cfg.policies[k], operator |-> policies[k].operator]
  <2>1. kept(k) + new(k) = cfg.policies[k]
    BY <1>2, PoliciesAdd
  <2>2. policies'[k] = [policies[k] EXCEPT !.config = cfg.policies[k]]
    BY <1>1, <2>1
  <2> QED BY <1>2, <2>2 DEF Copies
<1>4. TypeOK'
  <2>1. ASSUME NEW k \in Key PROVE policies'[k] \in Copies
    <3>1. policies'[k] = [config |-> cfg.policies[k], operator |-> policies[k].operator]
      BY <1>3
    <3>2. cfg.policies[k] \in 0 .. MaxCopies /\ policies[k].operator \in 0 .. MaxCopies
      BY <1>2
    <3> QED BY <3>1, <3>2 DEF Copies
  <2>2. policies' \in [Key -> Copies]
    BY <1>1, <2>1
  <2>3. wrote' \in BOOLEAN
    BY <1>1 DEF IInv, TypeOK
  <2> QED BY <1>0, <1>1, <2>2, <2>3 DEF IInv, TypeOK, Phase
<1>5. Loaded' /\ ClientsDone'
  BY <1>0, <1>1, FrameKeeps
<1>6. LoopsDone'
  BY <1>1 DEF LoopsDone
<1>7. Matches(settled)'
  <2>1. \A n \in Name : AsConfigured(secrets[n], cfg.secrets[n])
    BY <1>0 DEF IInv, LoopsDone
  <2>2. ASSUME NEW k \in Key PROVE policies'[k].config = cfg.policies[k]
    <3>1. policies'[k] = [config |-> cfg.policies[k], operator |-> policies[k].operator]
      BY <1>3
    <3> QED BY <3>1
  <2> QED BY <1>1, <2>1, <2>2 DEF Matches, AsConfigured
<1>8. HistorySound'
  <2>1. ASSUME again, SortedAlike(cfg) PROVE ~wrote'
    <3>1. Matches(cfg) /\ ~wrote
      BY <1>0, <2>1, ConfigFields DEF IInv, HistorySound
    <3>2. \A k \in Key : kept(k) = policies[k].config /\ new(k) = 0
      BY <1>2, <3>1, PoliciesAdd DEF Matches
    <3> QED BY <1>1, <3>1, <3>2
  <2>2. SortedAlike(cfg)' = SortedAlike(cfg)
    BY <1>1 DEF SortedAlike
  <2> QED BY <1>1, <1>7, <2>1, <2>2 DEF HistorySound
<1> QED BY <1>4, <1>5, <1>6, <1>8 DEF IInv

\* A server that is up: a row that configuration does not own is written.
LEMMA WrittenKeeps ==
    ASSUME IInv, phase = "serving", NEW n \in Name, NEW row \in SecretRow \cup {Null},
           secrets[n] = Null \/ ~secrets[n].managed,
           row = Null \/ ~row.managed, Written(n, row)
    PROVE  IInv'
PROOF
<1>1. /\ secrets' = [secrets EXCEPT ![n] = row]
      /\ UNCHANGED <<phase, cfg, clients, policies, todo, settled, again, wrote>>
  BY DEF Written
<1>2. secrets'[n] = row /\ \A m \in Name \ {n} : secrets'[m] = secrets[m]
  BY <1>1 DEF IInv, TypeOK
<1>3. TypeOK'
  BY <1>1 DEF IInv, TypeOK
<1>4. Loaded' /\ ClientsDone'
  BY <1>1, FrameKeeps
<1>5. LoopsDone'
  BY <1>1 DEF LoopsDone
<1>6. settled = cfg /\ settled # Null /\ Matches(settled)
  BY ConfigFields DEF IInv, Loaded, HistorySound
<1>7. AsConfigured(row, settled.secrets[n])
  <2>1. AsConfigured(secrets[n], settled.secrets[n])
    BY <1>6 DEF Matches
  <2> QED BY <2>1 DEF AsConfigured
<1>8. Matches(settled)'
  <2>1. \A m \in Name : AsConfigured(secrets'[m], settled.secrets[m])
    BY <1>2, <1>6, <1>7 DEF Matches
  <2> QED BY <1>1, <1>6, <2>1 DEF Matches, AsConfigured
<1>9. HistorySound'
  BY <1>1, <1>8 DEF IInv, HistorySound, SortedAlike
<1> QED BY <1>3, <1>4, <1>5, <1>9 DEF IInv

\* The writes of operators and clients to secrets are of that kind.
LEMMA SecretStepKeeps ==
    ASSUME IInv, NEW n \in Name, SecretStep(n)
    PROVE  IInv'
PROOF
<1>0. secrets[n] \in SecretRow \cup {Null}
  BY DEF IInv, TypeOK
<1>1. ASSUME NEW m \in Meta, NEW v \in Value, NEW vetted \in BOOLEAN, Create(n, m, v, vetted)
      PROVE  IInv'
  <2> DEFINE row == [meta |-> m, tags |-> {}, value |-> v, enabled |-> TRUE,
                     vetted |-> vetted, managed |-> FALSE]
  <2>1. row \in SecretRow /\ ~row.managed
    BY DEF SecretRow
  <2>2. phase = "serving" /\ secrets[n] = Null /\ Written(n, row)
    BY <1>1 DEF Create
  <2> HIDE DEF row
  <2> QED BY <2>1, <2>2, WrittenKeeps
<1>2. ASSUME NEW v \in Value, Rotate(n, v)
      PROVE  IInv'
  <2> DEFINE row == [secrets[n] EXCEPT !.value = v, !.vetted = TRUE]
  <2>1. phase = "serving" /\ secrets[n] \in SecretRow /\ ~secrets[n].managed /\ Written(n, row)
    BY <1>0, <1>2 DEF Rotate, Editable
  <2>2. row \in SecretRow /\ ~row.managed
    BY <2>1 DEF SecretRow
  <2> HIDE DEF row
  <2> QED BY <2>1, <2>2, WrittenKeeps
<1>3. ASSUME NEW m \in Meta, NEW ts \in SUBSET Tag, NEW enabled \in BOOLEAN,
             UpdateSettings(n, m, ts, enabled)
      PROVE  IInv'
  <2> DEFINE row == [secrets[n] EXCEPT !.meta = m, !.tags = ts, !.enabled = enabled]
  <2>1. phase = "serving" /\ secrets[n] \in SecretRow /\ ~secrets[n].managed /\ Written(n, row)
    BY <1>0, <1>3 DEF UpdateSettings, Editable
  <2>2. row \in SecretRow /\ ~row.managed
    BY <2>1 DEF SecretRow
  <2> HIDE DEF row
  <2> QED BY <2>1, <2>2, WrittenKeeps
<1>4. CASE MarkVetted(n)
  <2> DEFINE row == [secrets[n] EXCEPT !.vetted = TRUE]
  <2>1. phase = "serving" /\ secrets[n] \in SecretRow /\ ~secrets[n].vetted /\ Written(n, row)
    BY <1>0, <1>4 DEF MarkVetted
  <2>2. ~secrets[n].managed
    <3>1. AsConfigured(secrets[n], settled.secrets[n])
      BY <2>1, ConfigFields DEF IInv, Loaded, HistorySound, Matches
    <3> QED BY <2>1, <3>1 DEF AsConfigured
  <2>3. row \in SecretRow /\ ~row.managed
    BY <2>1, <2>2 DEF SecretRow
  <2> HIDE DEF row
  <2> QED BY <2>1, <2>2, <2>3, WrittenKeeps
<1>5. CASE DeleteSecret(n)
  <2>1. phase = "serving" /\ ~secrets[n].managed /\ Written(n, Null)
    BY <1>5 DEF DeleteSecret, Editable
  <2> QED BY <2>1, WrittenKeeps
<1> QED BY <1>1, <1>2, <1>3, <1>4, <1>5 DEF SecretStep

\* The writes of operators to policies leave managed rows alone.
LEMMA PolicyStepKeeps ==
    ASSUME IInv, NEW k \in Key, PolicyStep(k)
    PROVE  IInv'
PROOF
<1>1. phase = "serving" /\ UNCHANGED <<phase, cfg, clients, secrets, todo, settled, again, wrote>>
  BY DEF PolicyStep, InsertPolicy, DeletePolicy, UpdatePolicy, OperatorRows
<1>2. /\ policies' \in [Key -> Copies]
      /\ \A l \in Key : policies'[l].config = policies[l].config
  <2>0. policies \in [Key -> Copies] /\ \A l \in Key : policies[l].operator \in 0 .. MaxCopies
    BY DEF IInv, TypeOK, Copies
  <2>1. ASSUME NEW j \in Key, NEW c \in 0 .. MaxCopies, NEW P \in [Key -> Copies]
        PROVE  /\ [P EXCEPT ![j].operator = c] \in [Key -> Copies]
               /\ \A l \in Key : [P EXCEPT ![j].operator = c][l].config = P[l].config
    BY DEF Copies
  <2>2. CASE InsertPolicy(k)
    <3>1. policies[k].operator + 1 \in 0 .. MaxCopies
      BY <2>0, <2>2 DEF InsertPolicy
    <3>2. policies' = [policies EXCEPT ![k].operator = policies[k].operator + 1]
      BY <2>2 DEF InsertPolicy, OperatorRows
    <3> QED BY <2>0, <2>1, <3>1, <3>2
  <2>3. CASE DeletePolicy(k)
    <3>1. policies[k].operator - 1 \in 0 .. MaxCopies
      BY <2>0, <2>3 DEF DeletePolicy
    <3>2. policies' = [policies EXCEPT ![k].operator = policies[k].operator - 1]
      BY <2>3 DEF DeletePolicy, OperatorRows
    <3> QED BY <2>0, <2>1, <3>1, <3>2
  <2>4. ASSUME NEW l \in Key, UpdatePolicy(k, l)
        PROVE  /\ policies' \in [Key -> Copies]
               /\ \A j \in Key : policies'[j].config = policies[j].config
    <3> DEFINE P == [policies EXCEPT ![k].operator = policies[k].operator - 1]
    <3>1. /\ policies[k].operator - 1 \in 0 .. MaxCopies
          /\ policies[l].operator + 1 \in 0 .. MaxCopies /\ k # l
      BY <2>0, <2>4 DEF UpdatePolicy
    <3>2. P \in [Key -> Copies] /\ \A j \in Key : P[j].config = policies[j].config
      BY <2>0, <2>1, <3>1
    <3>3. policies' = [P EXCEPT ![l].operator = policies[l].operator + 1]
      BY <2>0, <2>4, <3>1 DEF UpdatePolicy
    <3> HIDE DEF P
    <3> QED BY <2>1, <3>1, <3>2, <3>3
  <2> QED BY <2>2, <2>3, <2>4 DEF PolicyStep
<1>3. TypeOK'
  BY <1>1, <1>2 DEF IInv, TypeOK
<1>4. Loaded' /\ ClientsDone'
  BY <1>1, FrameKeeps
<1>5. LoopsDone'
  BY <1>1 DEF LoopsDone
<1>6. HistorySound'
  BY <1>1, <1>2 DEF IInv, HistorySound, Matches, AsConfigured, SortedAlike
<1> QED BY <1>3, <1>4, <1>5, <1>6 DEF IInv

-----------------------------------------------------------------------------
(* The theorems.                                                           *)

\* The invariant holds initially and every step of startup, of operators and
\* of clients, and every crash, keeps it.
THEOREM Invariance == Spec => []IInv
PROOF
<1>1. Init => IInv
  <2> SUFFICES ASSUME Init PROVE IInv
    OBVIOUS
  <2>1. \A k \in Key : policies[k] \in Copies
    BY DEF Init, Copies
  <2>2. TypeOK
    BY <2>1 DEF Init, TypeOK, Phase
  <2> QED BY <2>2 DEF Init, IInv, Loaded, ClientsDone, LoopsDone, HistorySound
<1>2. IInv /\ [Next]_vars => IInv'
  <2> SUFFICES ASSUME IInv, [Next]_vars PROVE IInv'
    OBVIOUS
  <2>1. CASE StartStep
    <3>1. CASE FailToRead
      BY <3>1, DownKeeps DEF FailToRead
    <3> QED BY <2>1, <3>1, StartKeeps, ReconcileClientsKeeps, ReconcileOneSecretKeeps,
               DeleteStaleKeeps, ListStaleKeeps, ReconcilePoliciesKeeps DEF StartStep
  <2>2. CASE Crash
    BY <2>2, DownKeeps DEF Crash
  <2>3. CASE \E n \in Name : SecretStep(n)
    BY <2>3, SecretStepKeeps
  <2>4. CASE \E k \in Key : PolicyStep(k)
    BY <2>4, PolicyStepKeeps
  <2>5. CASE UNCHANGED vars
    <3>1. Loaded' /\ ClientsDone'
      BY <2>5 DEF vars, IInv, Loaded, Validate, ClientsDone, Bound, Listed
    <3>2. TypeOK'
      BY <2>5 DEF vars, IInv, TypeOK
    <3>3. LoopsDone' /\ HistorySound'
      BY <2>5 DEF vars, IInv, LoopsDone, HistorySound, Matches, AsConfigured, SortedAlike
    <3> QED BY <3>1, <3>2, <3>3 DEF IInv
  <2> QED BY <2>1, <2>2, <2>3, <2>4, <2>5 DEF Next
<1> QED BY <1>1, <1>2, PTL DEF Spec

\* The tables keep their shape and their bounds (migrations 0001 to 0009).
THEOREM TypeCorrect == Spec => []TypeOK
PROOF
<1>1. IInv => TypeOK
  BY DEF IInv
<1> QED BY <1>1, Invariance, PTL

\* A server serves only from tables that match its own configuration, after
\* any sequence of starts, crashes halfway and edits by hand
\* (AppState::init, reconcile_secrets, reconcile_policies).
THEOREM ConvergedHolds == Spec => []Converged
PROOF
<1>1. IInv => Converged
  BY ConfigFields DEF IInv, Loaded, HistorySound, Converged
<1> QED BY <1>1, Invariance, PTL

\* A start with a configuration that validates is never refused by the unique
\* indexes on credentials (reconcile_clients).
THEOREM NeverCollidesHolds == Spec => []NeverCollides
PROOF
<1>1. IInv => NeverCollides
  BY NoCollision DEF IInv, Loaded, NeverCollides
<1> QED BY <1>1, Invariance, PTL

\* While a server serves, each credential authenticates exactly the client
\* that the configuration gives it to (reconcile_clients).
THEOREM CredentialsHold == Spec => []CredentialsAsConfigured
PROOF
<1>1. IInv => CredentialsAsConfigured
  <2> SUFFICES ASSUME IInv, phase = "serving"
               PROVE  /\ \A k \in Cred : Authenticate(k) = ConfiguredFor(cfg.clients, k)
                      /\ {c \in Client : clients[c] # Null /\ clients[c].store}
                            = MayStore(cfg.clients)
    BY DEF CredentialsAsConfigured
  <2> DEFINE cs == cfg.clients
  <2>0. cfg \in Configs /\ Validate(cfg)
    BY DEF IInv, Loaded
  <2>1. ASSUME NEW c \in Client, NEW i \in DOMAIN cs, cs[i].name = c
        PROVE  clients[c] = [cred |-> cs[i].cred, enabled |-> TRUE, store |-> cs[i].store]
               /\ clients[c] # Null
    <3>1. PICK j \in DOMAIN cs :
              /\ cs[j].name = c
              /\ clients[c] = [cred |-> cs[j].cred, enabled |-> TRUE, store |-> cs[j].store]
      BY <2>1 DEF IInv, ClientsDone, Bound, Listed
    <3>2. i = j
      BY <2>0, <2>1, <3>1 DEF Validate
    <3>3. clients[c] \in ClientRow
      BY <2>0, <3>1, ConfigFields DEF ClientRow
    <3> QED BY <3>1, <3>2, <3>3
  <2>2. ASSUME NEW c \in Client, ~ \E i \in DOMAIN cs : cs[i].name = c
        PROVE  clients[c] = Null \/ (~clients[c].enabled /\ ~clients[c].store)
    BY <2>2 DEF IInv, ClientsDone, Bound, Listed
  <2>3. ASSUME NEW k \in Cred, NEW c \in Client
        PROVE  c \in Authenticate(k) <=> c \in ConfiguredFor(cs, k)
    <3>1. CASE \E i \in DOMAIN cs : cs[i].name = c
      <4>1. PICK i \in DOMAIN cs : cs[i].name = c
        BY <3>1
      <4>a. /\ clients[c] = [cred |-> cs[i].cred, enabled |-> TRUE, store |-> cs[i].store]
            /\ clients[c] # Null
        BY <2>1, <4>1
      <4>2. c \in Authenticate(k) <=> cs[i].cred = k
        BY <4>a DEF Authenticate
      <4>3. \A j \in DOMAIN cs : cs[j].name = c => j = i
        BY <2>0, <4>1 DEF Validate
      <4>4. c \in ConfiguredFor(cs, k) <=> cs[i].cred = k
        BY <4>1, <4>3, Zenon DEF ConfiguredFor
      <4> QED BY <4>2, <4>4
    <3>2. CASE ~ \E i \in DOMAIN cs : cs[i].name = c
      BY <2>2, <3>2 DEF Authenticate, ConfiguredFor
    <3> QED BY <3>1, <3>2
  <2>4. ASSUME NEW c \in Client
        PROVE  (clients[c] # Null /\ clients[c].store) <=> c \in MayStore(cs)
    <3>1. CASE \E i \in DOMAIN cs : cs[i].name = c
      <4>1. PICK i \in DOMAIN cs : cs[i].name = c
        BY <3>1
      <4>a. /\ clients[c] = [cred |-> cs[i].cred, enabled |-> TRUE, store |-> cs[i].store]
            /\ clients[c] # Null
        BY <2>1, <4>1
      <4>2. clients[c] # Null /\ clients[c].store = cs[i].store
        BY <4>a
      <4>3. \A j \in DOMAIN cs : cs[j].name = c => j = i
        BY <2>0, <4>1 DEF Validate
      <4>4. c \in MayStore(cs) <=> cs[i].store
        BY <4>1, <4>3, Zenon DEF MayStore
      <4> QED BY <4>2, <4>4
    <3>2. CASE ~ \E i \in DOMAIN cs : cs[i].name = c
      BY <2>2, <3>2 DEF MayStore
    <3> QED BY <3>1, <3>2
  <2>5. ASSUME NEW k \in Cred PROVE Authenticate(k) = ConfiguredFor(cs, k)
    BY <2>3 DEF Authenticate, ConfiguredFor
  <2>6. {c \in Client : clients[c] # Null /\ clients[c].store} = MayStore(cs)
    BY <2>4 DEF MayStore
  <2> QED BY <2>5, <2>6
<1> QED BY <1>1, Invariance, PTL

\* A start that repeats the last configuration changes no secret and no
\* policy, if the tags it lists sort alike (reconcile_one_secret).
THEOREM QuietRestartHolds == Spec => []QuietRestart
PROOF
<1>1. IInv => QuietRestart
  BY DEF IInv, HistorySound, QuietRestart
<1> QED BY <1>1, Invariance, PTL

\* A start leaves alone what operators and clients wrote and the
\* configuration does not claim (reconcile_secrets, reconcile_policies).
THEOREM OperatorRowsKeptHolds == Spec => OperatorRowsKept
PROOF
<1> DEFINE Keeps == phase \notin {"down", "serving"} =>
                /\ \A n \in Name : Untouched(n) => secrets'[n] = secrets[n]
                /\ \A k \in Key : policies'[k].operator = policies[k].operator
<1>1. IInv /\ [Next]_vars => [Keeps]_vars
  <2> SUFFICES ASSUME IInv, Next, phase \notin {"down", "serving"}
               PROVE  /\ \A n \in Name : Untouched(n) => secrets'[n] = secrets[n]
                      /\ \A k \in Key : policies'[k].operator = policies[k].operator
    OBVIOUS
  <2>1. CASE UNCHANGED <<secrets, policies>>
    BY <2>1
  <2>2. ASSUME NEW m \in Name, ReconcileOneSecret(m) \/ DeleteStale(m)
        PROVE  /\ \A n \in Name : Untouched(n) => secrets'[n] = secrets[n]
               /\ policies' = policies
    <3>1. /\ policies' = policies
          /\ \A n \in Name \ {m} : secrets'[n] = secrets[n]
      BY <2>2 DEF ReconcileOneSecret, DeleteStale, IInv, TypeOK
    <3>2. ~Untouched(m)
      BY <2>2 DEF IInv, LoopsDone, Untouched, ReconcileOneSecret, DeleteStale
    <3> QED BY <3>1, <3>2
  <2>3. CASE ReconcilePolicies
    <3>1. /\ secrets' = secrets
          /\ policies' = [k \in Key |-> [policies[k] EXCEPT !.config =
                             Kept(policies[k].config, cfg.policies[k])
                             + Inserted(policies[k].config, cfg.policies[k])]]
      BY <2>3 DEF ReconcilePolicies
    <3>2. ASSUME NEW k \in Key PROVE policies'[k].operator = policies[k].operator
      <4>1. policies[k] \in Copies
        BY DEF IInv, TypeOK
      <4> QED BY <3>1, <4>1 DEF Copies
    <3> QED BY <3>1, <3>2
  <2>4. ASSUME NEW n \in Name, SecretStep(n) PROVE FALSE
    BY <2>4 DEF SecretStep, Create, Rotate, UpdateSettings, MarkVetted, DeleteSecret, Editable
  <2>5. ASSUME NEW k \in Key, PolicyStep(k) PROVE FALSE
    BY <2>5 DEF PolicyStep, InsertPolicy, DeletePolicy, UpdatePolicy
  <2>6. CASE ReconcileClients \/ FailToRead \/ ListStale \/ EndStale \/ Crash
             \/ \E c \in Configs : Start(c)
    BY <2>1, <2>6 DEF ReconcileClients, FailToRead, ListStale, EndStale, Crash, Start
  <2> QED BY <2>2, <2>3, <2>4, <2>5, <2>6 DEF Next, StartStep
<1> QED BY <1>1, Invariance, PTL DEF Spec, OperatorRowsKept
=============================================================================
