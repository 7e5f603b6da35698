---------------------------- MODULE GrantsProofs ----------------------------
(***************************************************************************)
(* Proofs about module Grants, for any set of grants, keys and calls and   *)
(* any replay window.                                                      *)
(***************************************************************************)
EXTENDS Grants, FiniteSetTheorems, TLAPS

USE ConstantsAssumption

-----------------------------------------------------------------------------
(* Type correctness.                                                       *)

\* Moving a call on leaves a well-formed call.
LEMMA MovedCall ==
  ASSUME NEW p \in CallState, NEW s \in Step, NEW v \in Payload \cup {Null}, NEW t \in Nat
  PROVE  /\ [p EXCEPT !.at = s] \in CallState
         /\ [p EXCEPT !.at = s, !.payload = v] \in CallState
         /\ [p EXCEPT !.at = s, !.txNow = t] \in CallState
         /\ [p EXCEPT !.at = s, !.payload = v, !.txNow = t] \in CallState
  BY DEF CallState

\* Init establishes the types.
LEMMA InitType == Init => TypeOK
  BY DEF Init, TypeOK

\* A use of a grant keeps the types.
LEMMA UseType ==
  ASSUME TypeOK, NEW c \in Call, Use(c)
  PROVE  TypeOK'
<1> USE DEF rowVars, secretVars, ghostVars
<1> DEFINE p == calls[c]
<1>0. p \in CallState /\ p.grant \in Grant /\ p.key \in Key \cup {Null}
      /\ p.payload \in Payload \cup {Null} /\ p.txNow \in Nat
  <2>1. calls[c] \in CallState
    BY DEF Use, UseRefused, UseReplay, UseFirst, InUse, TypeOK
  <2>2. QED
    BY <2>1 DEF CallState
<1>1. CASE UseRefused(c)
  BY <1>1 DEF UseRefused, End, TypeOK
<1>2. CASE UseReplay(c)
  <2>1. Prior(c) \in ReadRow /\ p.key \in Key
    BY <1>0, <1>2 DEF UseReplay, Prior, TypeOK
  <2>2. Prior(c).version \in Payload \cup {Null}
    BY <2>1 DEF ReadRow
  <2>3. audit' \in SUBSET (Grant \X (Payload \cup {Null}))
    BY <1>0, <1>2, <2>2 DEF UseReplay, WriteAhead, TypeOK
  <2>4. calls' \in [Call -> CallState \cup {Null}]
    <3>1. [p EXCEPT !.at = "respond", !.payload = Passthrough, !.txNow = 0] \in CallState
      BY <1>0, MovedCall DEF Step, Payload
    <3>2. [p EXCEPT !.at = "fetch", !.payload = Prior(c).version, !.txNow = 0] \in CallState
      BY <1>0, <2>2, MovedCall DEF Step
    <3>3. QED
      BY <1>2, <3>1, <3>2 DEF UseReplay, Committed, End, TypeOK
  <2>5. QED
    BY <1>2, <2>3, <2>4 DEF UseReplay, TypeOK
<1>3. CASE UseFirst(c)
  <2>1. audit' \in SUBSET (Grant \X (Payload \cup {Null}))
    BY <1>0, <1>3 DEF UseFirst, WriteAhead, TypeOK
  <2>2. calls' \in [Call -> CallState \cup {Null}]
    <3>1. [p EXCEPT !.at = "respond", !.payload = p.payload, !.txNow = 0] \in CallState
      BY <1>0, MovedCall DEF Step
    <3>2. QED
      BY <1>3, <3>1 DEF UseFirst, Committed, End, TypeOK
  <2>3. reads' \in [Grant -> [Key -> ReadRow \cup {Null}]]
    <3>1. [version |-> p.payload, passthrough |-> sealed[p.grant] # Null, at |-> p.txNow] \in ReadRow
      BY <1>0 DEF ReadRow
    <3>2. QED
      BY <1>0, <1>3, <3>1 DEF UseFirst, TypeOK
  <2>4. answer' \in [Grant -> [Key -> Payload \cup {Null}]]
    BY <1>0, <1>3 DEF UseFirst, TypeOK
  <2>5. use_count' \in [Grant -> Nat]
    BY <1>0, <1>3 DEF UseFirst, TypeOK
  <2>6. QED
    BY <1>3, <2>1, <2>2, <2>3, <2>4, <2>5 DEF UseFirst, TypeOK
<1>4. QED
  BY <1>1, <1>2, <1>3 DEF Use

\* Every step of a call keeps the types.
LEMMA CallStepType ==
  ASSUME TypeOK, NEW c \in Call, CallStep(c)
  PROVE  TypeOK'
<1> USE DEF rowVars, secretVars, ghostVars
<1> DEFINE p == calls[c]
<1>1. ASSUME NEW g \in Grant, NEW k \in Key, ReadArrives(c, g, k)
      PROVE  TypeOK'
  BY <1>1 DEF ReadArrives, TypeOK, CallState, Step
<1>2. ASSUME NEW g \in Grant, ProxyArrives(c, g)
      PROVE  TypeOK'
  BY <1>2 DEF ProxyArrives, TypeOK, CallState, Step
<1>3. CASE Revalidate(c)
  <2>1. p \in CallState
    BY <1>3 DEF Revalidate, TypeOK
  <2>2. \A v \in Payload \cup {Null} : [p EXCEPT !.at = "resolve", !.payload = v] \in CallState
    BY <2>1, MovedCall DEF Step
  <2>3. (IF p.source = "stored" THEN current ELSE Passthrough) \in Payload \cup {Null}
    BY DEF TypeOK, Payload
  <2>4. QED
    BY <1>3, <2>2, <2>3 DEF Revalidate, TypeOK
<1>4. CASE Resolve(c)
  <2>1. p \in CallState
    BY <1>4 DEF Resolve, TypeOK
  <2>2. [p EXCEPT !.at = "begin"] \in CallState
    BY <2>1, MovedCall DEF Step
  <2>3. calls' \in [Call -> CallState \cup {Null}]
    BY <1>4, <2>2 DEF Resolve, Goto, End, TypeOK
  <2>4. QED
    BY <1>4, <2>3 DEF Resolve, TypeOK
<1>5. CASE Begin(c)
  <2>1. p \in CallState
    BY <1>5 DEF Begin, TypeOK
  <2>2. [p EXCEPT !.at = "use", !.txNow = now] \in CallState
    BY <2>1, MovedCall DEF Step, TypeOK
  <2>3. QED
    BY <1>5, <2>2 DEF Begin, TypeOK
<1>6. CASE Use(c)
  BY <1>6, UseType
<1>7. CASE FetchPinned(c)
  <2>1. p \in CallState
    BY <1>7 DEF FetchPinned, TypeOK
  <2>2. [p EXCEPT !.at = "respond"] \in CallState
    BY <2>1, MovedCall DEF Step
  <2>3. calls' \in [Call -> CallState \cup {Null}]
    BY <1>7, <2>2 DEF FetchPinned, Goto, End, TypeOK
  <2>4. QED
    BY <1>7, <2>3 DEF FetchPinned, TypeOK
<1>8. CASE Respond(c)
  <2>1. p \in CallState
    BY <1>8 DEF Respond, TypeOK
  <2>2. p.grant \in Grant /\ p.key \in Key \cup {Null} /\ p.payload \in Payload \cup {Null}
    BY <2>1 DEF CallState
  <2>3. released' \in SUBSET (Grant \X Key \X (Payload \cup {Null}))
    BY <1>8, <2>2 DEF Respond, TypeOK
  <2>4. sends' \in [Grant -> Nat]
    BY <1>8, <2>2 DEF Respond, TypeOK
  <2>5. QED
    BY <1>8, <2>3, <2>4 DEF Respond, End, TypeOK
<1>9. CASE Abandon(c)
  BY <1>9 DEF Abandon, End, TypeOK
<1>10. QED
  BY <1>1, <1>2, <1>3, <1>4, <1>5, <1>6, <1>7, <1>8, <1>9 DEF CallStep

\* What a mint leaves behind.
Minted(g, row) ==
    /\ row.ephemeral => row.releasing
    /\ grant[g] = Null
    /\ grant' = [grant EXCEPT ![g] = row]
    /\ sealed' = [sealed EXCEPT ![g] = IF row.ephemeral THEN epoch ELSE Null]
    /\ UNCHANGED <<now, use_count, revoked, reads, secretVars, epoch, calls, audit, ghostVars>>

LEMMA MintRow ==
  ASSUME TypeOK, NEW g \in Grant, Mint(g)
  PROVE  \E row \in GrantRow : Minted(g, row)
<1>1. PICK rel \in BOOLEAN, eph \in BOOLEAN, na \in (now + 1)..(MaxTime - 1) :
        \E mu \in IF rel THEN ReleaseLimits ELSE ProxyLimits :
            /\ eph => rel
            /\ grant' = [grant EXCEPT ![g] =
                            [releasing |-> rel, notAfter |-> na,
                             maxUses |-> mu, ephemeral |-> eph]]
            /\ sealed' = [sealed EXCEPT ![g] = IF eph THEN epoch ELSE Null]
  BY DEF Mint
<1>2. PICK mu \in IF rel THEN ReleaseLimits ELSE ProxyLimits :
            /\ eph => rel
            /\ grant' = [grant EXCEPT ![g] =
                            [releasing |-> rel, notAfter |-> na,
                             maxUses |-> mu, ephemeral |-> eph]]
            /\ sealed' = [sealed EXCEPT ![g] = IF eph THEN epoch ELSE Null]
  BY <1>1
<1> DEFINE row == [releasing |-> rel, notAfter |-> na, maxUses |-> mu, ephemeral |-> eph]
<1>3. na \in Nat /\ mu \in Nat \cup {Unlimited}
  BY <1>1, <1>2 DEF TypeOK
<1>4. row \in GrantRow
  BY <1>3 DEF GrantRow
<1>5. row.ephemeral = eph /\ row.releasing = rel
  OBVIOUS
<1>6. Minted(g, row)
  <2> HIDE DEF row
  <2>1. grant[g] = Null /\ UNCHANGED <<now, use_count, revoked, reads, secretVars, epoch,
                                        calls, audit, ghostVars>>
    BY DEF Mint
  <2>2. grant' = [grant EXCEPT ![g] = row]
    BY <1>2 DEF row
  <2>3. QED
    BY <1>2, <1>5, <2>1, <2>2 DEF Minted
<1>7. QED
  BY <1>4, <1>6

\* Steps of the operator, the sweeper, the clock and the process keep the types.
LEMMA OtherStepType ==
  ASSUME TypeOK, OtherStep
  PROVE  TypeOK'
<1> USE DEF rowVars, secretVars, ghostVars
<1>1. ASSUME NEW g \in Grant, Mint(g)
      PROVE  TypeOK'
  <2>1. PICK row \in GrantRow : Minted(g, row)
    BY <1>1, MintRow
  <2>2. grant' \in [Grant -> GrantRow \cup {Null}] /\ sealed' \in [Grant -> Nat \cup {Null}]
    BY <2>1 DEF Minted, TypeOK
  <2>3. QED
    BY <2>1, <2>2 DEF Minted, TypeOK
<1>2. ASSUME NEW g \in Grant, Revoke(g)
      PROVE  TypeOK'
  BY <1>2 DEF Revoke, TypeOK
<1>3. CASE SweepPassthroughs
  BY <1>3 DEF SweepPassthroughs, TypeOK
<1>4. CASE UnpinStaleReads
  <2>1. \A h \in Grant, k \in Key : Unpinned(reads[h][k]) \in ReadRow \cup {Null}
    <3> SUFFICES ASSUME NEW h \in Grant, NEW k \in Key
                 PROVE  Unpinned(reads[h][k]) \in ReadRow \cup {Null}
      OBVIOUS
    <3>1. reads[h][k] \in ReadRow \cup {Null}
      BY DEF TypeOK
    <3>2. \A r \in ReadRow : [r EXCEPT !.version = Null] \in ReadRow
      BY DEF ReadRow
    <3>3. QED
      BY <3>1, <3>2 DEF Unpinned
  <2>2. QED
    BY <1>4, <2>1 DEF UnpinStaleReads, TypeOK
<1>5. CASE StoreVersion
  BY <1>5 DEF StoreVersion, TypeOK
<1>6. CASE DeleteSecret
  BY <1>6 DEF DeleteSecret, RevokedByDelete, Live, Exists, TypeOK
<1>7. CASE Restart
  BY <1>7 DEF Restart, TypeOK
<1>8. CASE Tick
  BY <1>8 DEF Tick, TypeOK
<1>9. QED
  BY <1>1, <1>2, <1>3, <1>4, <1>5, <1>6, <1>7, <1>8 DEF OtherStep

(***************************************************************************)
(* Grants is type-correct: rows, snapshots held by calls in flight and the *)
(* history keep their types in every behaviour of the code's steps.        *)
(***************************************************************************)
THEOREM TypeCorrect == Spec => []TypeOK
<1>1. TypeOK /\ [Next]_vars => TypeOK'
  <2> SUFFICES ASSUME TypeOK, [Next]_vars
               PROVE  TypeOK'
    OBVIOUS
  <2>1. CASE OtherStep
    BY <2>1, OtherStepType
  <2>2. ASSUME NEW c \in Call, CallStep(c)
        PROVE  TypeOK'
    BY <2>2, CallStepType
  <2>3. CASE UNCHANGED vars
    BY <2>3 DEF vars, rowVars, secretVars, ghostVars, TypeOK
  <2>4. QED
    BY <2>1, <2>2, <2>3 DEF Next
<1>2. QED
  BY <1>1, InitType, PTL DEF Spec

-----------------------------------------------------------------------------
(* The inductive invariant.                                                *)

\* Steps of a call that change nothing but the call itself.
QuietStep(c) ==
    \/ \E g \in Grant, k \in Key : ReadArrives(c, g, k)
    \/ \E g \in Grant : ProxyArrives(c, g)
    \/ Revalidate(c) \/ Resolve(c) \/ Begin(c) \/ UseRefused(c)
    \/ FetchPinned(c) \/ Abandon(c)

\* A call's step is quiet, or one of the three that reach shared state.
LEMMA CallStepCases ==
  ASSUME NEW c \in Call, CallStep(c)
  PROVE  QuietStep(c) \/ UseReplay(c) \/ UseFirst(c) \/ Respond(c)
  BY DEF CallStep, Use, QuietStep

\* A quiet step leaves every other variable alone, and every other call.
LEMMA QuietFrame ==
  ASSUME NEW c \in Call, TypeOK, QuietStep(c)
  PROVE  /\ UNCHANGED <<now, grant, use_count, revoked, sealed, reads>>
         /\ UNCHANGED <<current, versions, minted, epoch, audit, released, sends, answer>>
         /\ \A d \in Call \ {c} : calls'[d] = calls[d]
<1> USE DEF rowVars, secretVars, ghostVars, TypeOK
<1>1. CASE \E g \in Grant, k \in Key : ReadArrives(c, g, k)
  BY <1>1 DEF ReadArrives
<1>2. CASE \E g \in Grant : ProxyArrives(c, g)
  BY <1>2 DEF ProxyArrives
<1>3. CASE Revalidate(c)
  BY <1>3 DEF Revalidate
<1>4. CASE Resolve(c)
  BY <1>4 DEF Resolve, Goto, End
<1>5. CASE Begin(c)
  BY <1>5 DEF Begin
<1>6. CASE UseRefused(c)
  BY <1>6 DEF UseRefused, End
<1>7. CASE FetchPinned(c)
  BY <1>7 DEF FetchPinned, Goto, End
<1>8. CASE Abandon(c)
  BY <1>8 DEF Abandon, End
<1>9. QED
  BY <1>1, <1>2, <1>3, <1>4, <1>5, <1>6, <1>7, <1>8 DEF QuietStep

\* The three other steps of a call leave every other call alone.
LEMMA OthersFrame ==
  ASSUME NEW c \in Call, TypeOK, UseReplay(c) \/ UseFirst(c) \/ Respond(c)
  PROVE  \A d \in Call \ {c} : calls'[d] = calls[d]
  BY DEF UseReplay, UseFirst, Respond, Committed, End, TypeOK

\* The counter never passes max_uses: the increment is conditional.
LEMMA CappedStep ==
  ASSUME TypeOK, Capped, CallsInv, [Next]_vars
  PROVE  Capped'
<1> USE DEF rowVars, secretVars, ghostVars
<1>1. ASSUME NEW c \in Call, CallStep(c)
      PROVE  Capped'
  <2>1. CASE QuietStep(c)
    BY <2>1, QuietFrame DEF Capped
  <2>2. CASE UseReplay(c)
    BY <2>2 DEF UseReplay, Capped
  <2>3. CASE UseFirst(c)
    <3> DEFINE h == calls[c].grant
    <3>1. h \in Grant /\ grant[h] # Null
      BY <2>3 DEF UseFirst, InUse, TypeOK, CallState, CallsInv, CallInv
    <3>2. grant[h].maxUses \in Nat \cup {Unlimited} /\ use_count[h] \in Nat
      BY <3>1 DEF TypeOK, GrantRow
    <3>3. grant' = grant /\ use_count' = [use_count EXCEPT ![h] = @ + 1] /\ UsesLeft(h)
      BY <2>3 DEF UseFirst
    <3>4. QED
      BY <3>1, <3>2, <3>3 DEF UsesLeft, Capped, TypeOK
  <2>4. CASE Respond(c)
    BY <2>4 DEF Respond, Capped
  <2>5. QED
    BY <1>1, <2>1, <2>2, <2>3, <2>4, CallStepCases
<1>2. CASE OtherStep
  <2>1. ASSUME NEW g \in Grant, Mint(g)
        PROVE  Capped'
    <3>1. PICK row \in GrantRow : Minted(g, row)
      BY <2>1, MintRow
    <3>2. row.maxUses \in Nat \cup {Unlimited}
      BY DEF GrantRow
    <3>3. QED
      BY <3>1, <3>2 DEF Minted, Capped, TypeOK
  <2>2. CASE UNCHANGED <<grant, use_count>>
    BY <2>2 DEF Capped
  <2>3. QED
    BY <1>2, <2>1, <2>2 DEF OtherStep, Revoke, SweepPassthroughs, UnpinStaleReads,
       StoreVersion, DeleteSecret, Restart, Tick
<1>3. CASE UNCHANGED vars
  BY <1>3 DEF vars, Capped
<1>4. QED
  BY <1>1, <1>2, <1>3 DEF Next

\* A payload of its own is only ever sealed for a passthrough grant.
LEMMA SourcesStep ==
  ASSUME TypeOK, Sources, [Next]_vars
  PROVE  Sources'
<1> USE DEF rowVars, secretVars, ghostVars
<1>1. ASSUME NEW c \in Call, CallStep(c)
      PROVE  Sources'
  <2>1. UNCHANGED <<grant, sealed>>
    BY <1>1, CallStepCases, QuietFrame DEF UseReplay, UseFirst, Respond
  <2>2. QED
    BY <2>1 DEF Sources
<1>2. CASE OtherStep
  <2>1. ASSUME NEW g \in Grant, Mint(g)
        PROVE  Sources'
    <3>1. PICK row \in GrantRow : Minted(g, row)
      BY <2>1, MintRow
    <3>2. QED
      BY <3>1, NullAssumption DEF Minted, Sources, TypeOK
  <2>2. ASSUME NEW g \in Grant, Revoke(g)
        PROVE  Sources'
    BY <2>2 DEF Revoke, Sources, TypeOK
  <2>3. CASE SweepPassthroughs
    BY <2>3 DEF SweepPassthroughs, Sources, TypeOK
  <2>4. CASE DeleteSecret
    BY <2>4 DEF DeleteSecret, Sources, TypeOK
  <2>5. CASE UNCHANGED <<grant, sealed>>
    BY <2>5 DEF Sources
  <2>6. QED
    BY <1>2, <2>1, <2>2, <2>3, <2>4, <2>5
       DEF OtherStep, UnpinStaleReads, StoreVersion, Restart, Tick
<1>3. CASE UNCHANGED vars
  BY <1>3 DEF vars, Sources
<1>4. QED
  BY <1>1, <1>2, <1>3 DEF Next

\* What the sweeper does to one replay row.
UnpinnedRow(r) ==
    /\ Unpinned(r) = Null <=> r = Null
    /\ r # Null =>
         /\ Unpinned(r) \in ReadRow
         /\ Unpinned(r).version \in {Null, r.version}
         /\ ~Stale(r) => Unpinned(r) = r
         /\ Unpinned(r).passthrough = r.passthrough
         /\ Unpinned(r).at = r.at

LEMMA UnpinnedFact ==
  ASSUME NEW r \in ReadRow \cup {Null}
  PROVE  UnpinnedRow(r)
<1>1. CASE r = Null
  BY <1>1 DEF UnpinnedRow, Unpinned
<1>2. CASE r # Null
  <2>1. [r EXCEPT !.version = Null] \in ReadRow
    BY <1>2 DEF ReadRow
  <2>2. /\ [r EXCEPT !.version = Null].version = Null
        /\ [r EXCEPT !.version = Null].passthrough = r.passthrough
        /\ [r EXCEPT !.version = Null].at = r.at
    BY <1>2 DEF ReadRow
  <2>3. QED
    BY <1>2, <2>1, <2>2, NullAssumption DEF UnpinnedRow, Unpinned
<1>3. QED
  BY <1>1, <1>2

\* A grant row, once inserted, keeps its fixed columns.
LEMMA GrantFrame ==
  ASSUME TypeOK, [Next]_vars, NEW g \in Grant, grant[g] # Null
  PROVE  grant'[g] = grant[g]
<1> USE DEF rowVars, secretVars, ghostVars
<1>1. ASSUME NEW c \in Call, CallStep(c)
      PROVE  grant' = grant
  BY <1>1, CallStepCases, QuietFrame DEF UseReplay, UseFirst, Respond
<1>2. ASSUME NEW h \in Grant, Mint(h)
      PROVE  grant'[g] = grant[g]
  BY <1>2, MintRow DEF Minted, TypeOK
<1>3. QED
  BY <1>1, <1>2 DEF Next, OtherStep, Revoke, SweepPassthroughs, UnpinStaleReads,
     StoreVersion, DeleteSecret, Restart, Tick, vars

\* The history knows exactly the burned keys.
LEMMA AnsweredIffBurned ==
  ASSUME Settled, NEW g \in Grant, NEW k \in Key
  PROVE  answer[g][k] = Null <=> reads[g][k] = Null
  BY Zenon DEF Settled

\* A passthrough row stands for the grant's own payload.
LEMMA PassthroughSettled ==
  ASSUME Settled, NEW g \in Grant, NEW k \in Key, reads[g][k] # Null, reads[g][k].passthrough
  PROVE  answer[g][k] = Passthrough
  BY Zenon DEF Settled

\* A burned key is settled once: the first use writes the row, the history
\* and the audit row together, a replay adds nothing new, a sweep only clears
\* the pin.
LEMMA SettledStep ==
  ASSUME TypeOK, Sources, Settled, CallsInv, [Next]_vars
  PROVE  Settled'
<1> USE DEF rowVars, secretVars, ghostVars
<1>1. ASSUME NEW c \in Call, CallStep(c)
      PROVE  Settled'
  <2> DEFINE p == calls[c]
  <2>1. CASE QuietStep(c)
    BY <2>1, QuietFrame DEF Settled
  <2>2. CASE UseReplay(c)
    BY <2>2 DEF UseReplay, WriteAhead, Settled
  <2>3. CASE UseFirst(c)
    <3>1. p \in CallState /\ CallInv(c)
      BY <2>3 DEF UseFirst, InUse, TypeOK, CallsInv
    <3>2. p.grant \in Grant /\ p.key \in Key \cup {Null} /\ p.payload \in Payload
      BY <2>3, <3>1 DEF CallState, CallInv, UseFirst, InUse
    <3>3. CASE p.key = Null
      BY <2>3, <3>3 DEF UseFirst, WriteAhead, Settled
    <3>4. CASE p.key # Null
      <4>1. p.key \in Key /\ reads[p.grant][p.key] = Null
        BY <2>3, <3>2, <3>4 DEF UseFirst, Prior
      <4>2. sealed[p.grant] # Null => p.payload = Passthrough
        BY <2>3, <3>1, <3>2 DEF Sources, CallInv, UseFirst, InUse
      <4>3. p.payload # Null
        BY <3>2 DEF Payload
      <4> DEFINE row == [version |-> p.payload, passthrough |-> sealed[p.grant] # Null,
                         at |-> p.txNow]
      <4>4. row \in ReadRow
        BY <3>1, <3>2 DEF ReadRow, CallState
      <4>5. row.version = p.payload /\ row.passthrough = (sealed[p.grant] # Null) /\ row # Null
        BY <4>4, NullAssumption
      <4>6. /\ reads' = [reads EXCEPT ![p.grant][p.key] = row]
            /\ answer' = [answer EXCEPT ![p.grant][p.key] = p.payload]
            /\ audit' = audit \cup {<<p.grant, p.payload>>}
            /\ released' = released /\ grant' = grant
        BY <2>3, <3>4 DEF UseFirst, WriteAhead
      <4> HIDE DEF row, p
      <4>7. /\ reads'[p.grant][p.key] = row
            /\ answer'[p.grant][p.key] = p.payload
            /\ \A g \in Grant, k \in Key : g # p.grant \/ k # p.key =>
                 reads'[g][k] = reads[g][k] /\ answer'[g][k] = answer[g][k]
        BY <3>2, <4>1, <4>6 DEF TypeOK
      <4>8. \A t \in released : t[1] \in Grant /\ t[2] \in Key
        BY DEF TypeOK
      <4>9. \A t \in released' : t[3] # Null /\ answer'[t[1]][t[2]] = t[3]
        <5> SUFFICES ASSUME NEW t \in released
                     PROVE  t[3] # Null /\ answer'[t[1]][t[2]] = t[3]
          BY <4>6
        <5>1. answer[t[1]][t[2]] = t[3] /\ t[3] # Null
          BY DEF Settled
        <5>2. answer[p.grant][p.key] = Null
          BY <3>2, <4>1, AnsweredIffBurned
        <5>3. QED
          BY <3>2, <4>1, <4>7, <4>8, <5>1, <5>2
      <4> DEFINE KeySettled(g, k) ==
                   /\ answer[g][k] = Null <=> reads[g][k] = Null
                   /\ reads[g][k] # Null =>
                        /\ <<g, answer[g][k]>> \in audit
                        /\ reads[g][k].version \in {Null, answer[g][k]}
                        /\ reads[g][k].passthrough => answer[g][k] = Passthrough
                        /\ grant[g] # Null
                        /\ grant[g].ephemeral => answer[g][k] = Passthrough
      <4>10. ASSUME NEW g \in Grant, NEW k \in Key, g # p.grant \/ k # p.key
             PROVE  KeySettled(g, k)'
        BY <4>6, <4>7, <4>10 DEF Settled
      <4>11. ASSUME NEW g \in Grant, NEW k \in Key, g = p.grant, k = p.key
             PROVE  KeySettled(g, k)'
        <5>1. reads'[g][k] = row /\ answer'[g][k] = p.payload
          BY <4>7, <4>11
        <5>2. <<g, p.payload>> \in audit'
          BY <4>6, <4>11
        <5>3. row.version \in {Null, p.payload} /\ (row.passthrough => p.payload = Passthrough)
          BY <4>2, <4>5
        <5>4. grant'[g] # Null /\ (grant'[g].ephemeral => p.payload = Passthrough)
          BY <2>3, <3>1, <4>6, <4>11 DEF p, CallInv, UseFirst, InUse
        <5>5. QED
          BY <4>3, <4>5, <5>1, <5>2, <5>3, <5>4
      <4>12. QED
        BY <4>9, <4>10, <4>11 DEF Settled
    <3>5. QED
      BY <3>3, <3>4
  <2>4. CASE Respond(c)
    BY <2>4 DEF Respond, Settled, CallsInv, CallInv
  <2>5. QED
    BY <1>1, <2>1, <2>2, <2>3, <2>4, CallStepCases
<1>2. CASE OtherStep
  <2>1. CASE UnpinStaleReads
    <3>1. \A g \in Grant, k \in Key : reads'[g][k] = Unpinned(reads[g][k])
      BY <2>1 DEF UnpinStaleReads
    <3>2. \A g \in Grant, k \in Key : UnpinnedRow(reads[g][k])
      BY UnpinnedFact DEF TypeOK
    <3>3. UNCHANGED <<answer, audit, released>>
      BY <2>1 DEF UnpinStaleReads
    <3>4. grant' = grant
      BY <2>1 DEF UnpinStaleReads
    <3>5. QED
      BY <3>1, <3>2, <3>3, <3>4 DEF Settled, UnpinnedRow
  <2>2. CASE UNCHANGED <<reads, answer, audit, released>>
    <3>1. \A g \in Grant : grant[g] # Null => grant'[g] = grant[g]
      BY GrantFrame
    <3>2. QED
      BY <2>2, <3>1 DEF Settled
  <2>3. QED
    BY <1>2, <2>1, <2>2 DEF OtherStep, Mint, Revoke, SweepPassthroughs, StoreVersion,
       DeleteSecret, Restart, Tick
<1>3. CASE UNCHANGED vars
  BY <1>3 DEF vars, Settled
<1>4. QED
  BY <1>1, <1>2, <1>3 DEF Next

\* An answer, once settled, never changes.
LEMMA AnswerFrame ==
  ASSUME TypeOK, Settled, [Next]_vars, NEW g \in Grant, NEW k \in Key, answer[g][k] # Null
  PROVE  answer'[g][k] = answer[g][k]
<1> USE DEF rowVars, secretVars, ghostVars
<1>1. ASSUME NEW c \in Call, UseFirst(c)
      PROVE  answer'[g][k] = answer[g][k]
  <2>1. calls[c].grant \in Grant /\ calls[c].key \in Key \cup {Null}
    BY <1>1 DEF UseFirst, InUse, TypeOK, CallState
  <2>2. reads[g][k] # Null
    BY AnsweredIffBurned
  <2>3. QED
    BY <1>1, <2>1, <2>2 DEF UseFirst, Prior, TypeOK
<1>2. ASSUME NEW c \in Call, CallStep(c), ~UseFirst(c)
      PROVE  answer' = answer
  BY <1>2, CallStepCases, QuietFrame DEF UseReplay, Respond
<1>3. QED
  BY <1>1, <1>2 DEF Next, OtherStep, Mint, Revoke, SweepPassthroughs, UnpinStaleReads,
     StoreVersion, DeleteSecret, Restart, Tick, vars

\* What a call may rely on survives any step that leaves the call alone.
LEMMA CallInvFrame ==
  ASSUME TypeOK, Settled, [Next]_vars, NEW d \in Call, calls[d] # Null, CallInv(d),
         calls'[d] = calls[d]
  PROVE  CallInv(d)'
<1> DEFINE p == calls[d]
<1>1. p.grant \in Grant /\ p.key \in Key \cup {Null}
  BY DEF TypeOK, CallState
<1>2. grant'[p.grant] = grant[p.grant]
  BY <1>1, GrantFrame DEF CallInv
<1>3. ASSUME p.key # Null, answer[p.grant][p.key] # Null
      PROVE  answer'[p.grant][p.key] = answer[p.grant][p.key]
  BY <1>1, <1>3, AnswerFrame
<1>4. QED
  BY <1>1, <1>2, <1>3 DEF CallInv

\* What a call may rely on holds after each of its own quiet steps.
LEMMA QuietCallInv ==
  ASSUME TypeOK, Settled, CallsInv, NEW c \in Call, Sources, QuietStep(c), calls'[c] # Null
  PROVE  CallInv(c)'
<1> USE DEF rowVars, secretVars, ghostVars
<1> DEFINE p == calls[c]
<1>1. ASSUME NEW g \in Grant, NEW k \in Key, ReadArrives(c, g, k)
      PROVE  CallInv(c)'
  BY <1>1 DEF ReadArrives, Exists, Sources, CallInv, TypeOK
<1>2. ASSUME NEW g \in Grant, ProxyArrives(c, g)
      PROVE  CallInv(c)'
  BY <1>2 DEF ProxyArrives, Exists, Sources, CallInv, TypeOK
<1>3. CASE Revalidate(c)
  <2>1. p \in CallState /\ CallInv(c)
    BY <1>3 DEF Revalidate, TypeOK, CallsInv
  <2>2. QED
    BY <1>3, <2>1 DEF Revalidate, CallInv, CallState, TypeOK
<1>4. CASE Resolve(c)
  <2>1. p \in CallState /\ CallInv(c)
    BY <1>4 DEF Resolve, TypeOK, CallsInv
  <2>2. Resolved(c) /\ calls' = [calls EXCEPT ![c].at = "begin"]
    BY <1>4 DEF Resolve, Goto, End, TypeOK
  <2>3. p.payload # Null
    BY <1>4, <2>1, <2>2 DEF Resolve, Resolved, CallInv, TypeOK
  <2>4. QED
    BY <1>4, <2>1, <2>2, <2>3 DEF Resolve, CallInv, CallState, TypeOK
<1>5. CASE Begin(c)
  <2>1. p \in CallState /\ CallInv(c)
    BY <1>5 DEF Begin, TypeOK, CallsInv
  <2>2. QED
    BY <1>5, <2>1 DEF Begin, CallInv, CallState, TypeOK
<1>6. CASE FetchPinned(c)
  <2>1. p \in CallState /\ CallInv(c)
    BY <1>6 DEF FetchPinned, TypeOK, CallsInv
  <2>2. calls' = [calls EXCEPT ![c].at = "respond"]
    BY <1>6 DEF FetchPinned, Goto, End, TypeOK
  <2>3. QED
    BY <1>6, <2>1, <2>2 DEF FetchPinned, CallInv, CallState, TypeOK
<1>7. CASE UseRefused(c) \/ Abandon(c)
  BY <1>7 DEF UseRefused, Abandon, End, TypeOK
<1>8. QED
  BY <1>1, <1>2, <1>3, <1>4, <1>5, <1>6, <1>7 DEF QuietStep

\* What a call may rely on holds after it used its grant.
LEMMA UsedCallInv ==
  ASSUME TypeOK, Settled, CallsInv, Sources, NEW c \in Call, UseReplay(c) \/ UseFirst(c),
         calls'[c] # Null
  PROVE  CallInv(c)'
<1> USE DEF rowVars, secretVars, ghostVars
<1> DEFINE p == calls[c]
<1>1. p \in CallState /\ CallInv(c)
  BY DEF UseReplay, UseFirst, InUse, TypeOK, CallsInv
<1>2. p.grant \in Grant /\ p.key \in Key \cup {Null} /\ p.payload \in Payload
  BY <1>1 DEF CallState, CallInv, UseReplay, UseFirst, InUse
<1>3. p.payload # Null /\ Passthrough # Null
  BY <1>2 DEF Payload
<1>4. CASE UseReplay(c)
  <2>1. p.key \in Key /\ reads[p.grant][p.key] # Null /\ Prior(c) = reads[p.grant][p.key]
    BY <1>2, <1>4 DEF UseReplay, Prior
  <2>2. UNCHANGED <<grant, answer>>
    BY <1>4 DEF UseReplay
  <2>3. CASE Prior(c).passthrough /\ Committed(c, "respond", Passthrough)
    <3>1. answer[p.grant][p.key] = Passthrough
      <4>1. reads[p.grant][p.key].passthrough
        BY <2>1, <2>3
      <4>2. QED
        BY <1>2, <2>1, <4>1, PassthroughSettled
    <3>2. calls'[c] = [p EXCEPT !.at = "respond", !.payload = Passthrough, !.txNow = 0]
      BY <2>3 DEF Committed, TypeOK
    <3>3. QED
      BY <1>1, <1>3, <1>4, <2>1, <2>2, <3>1, <3>2 DEF UseReplay, InUse, CallInv, CallState
  <2>4. CASE Prior(c).version # Null /\ Committed(c, "fetch", Prior(c).version)
    <3>1. answer[p.grant][p.key] = Prior(c).version
      <4>1. reads[p.grant][p.key].version # Null
        BY <2>1, <2>4
      <4>2. reads[p.grant][p.key].version = answer[p.grant][p.key]
        BY <1>2, <2>1, <4>1 DEF Settled
      <4>3. QED
        BY <2>1, <4>2
    <3>2. calls'[c] = [p EXCEPT !.at = "fetch", !.payload = Prior(c).version, !.txNow = 0]
      BY <2>4 DEF Committed, TypeOK
    <3>3. QED
      BY <1>1, <1>4, <2>1, <2>2, <2>4, <3>1, <3>2
         DEF UseReplay, InUse, CallInv, CallState
  <2>5. QED
    BY <1>4, <2>3, <2>4 DEF UseReplay, End, TypeOK
<1>5. CASE UseFirst(c)
  <2>1. /\ grant' = grant
        /\ calls'[c] = [p EXCEPT !.at = "respond", !.payload = p.payload, !.txNow = 0]
    BY <1>5 DEF UseFirst, Committed, End, TypeOK
  <2>2. p.key # Null => answer'[p.grant][p.key] = p.payload
    BY <1>2, <1>5 DEF UseFirst, TypeOK
  <2>3. QED
    BY <1>1, <1>3, <1>5, <2>1, <2>2 DEF UseFirst, InUse, CallInv, CallState
<1>6. QED
  BY <1>4, <1>5

\* Every call in flight may rely on what it rests on.
LEMMA CallsInvStep ==
  ASSUME TypeOK, Sources, Settled, CallsInv, [Next]_vars
  PROVE  CallsInv'
<1> USE DEF rowVars, secretVars, ghostVars
<1> SUFFICES ASSUME NEW d \in Call, calls'[d] # Null
             PROVE  CallInv(d)'
  BY DEF CallsInv
<1>1. CASE calls'[d] = calls[d]
  BY <1>1, CallInvFrame DEF CallsInv
<1>2. CASE calls'[d] # calls[d]
  <2>1. ASSUME NEW c \in Call, CallStep(c)
        PROVE  CallInv(d)'
    <3>1. CASE c # d
      BY <1>2, <2>1, <3>1, CallStepCases, QuietFrame, OthersFrame
    <3>2. CASE c = d
      <4>1. CASE QuietStep(c)
        BY <3>2, <4>1, QuietCallInv
      <4>2. CASE UseReplay(c) \/ UseFirst(c)
        BY <3>2, <4>2, UsedCallInv
      <4>3. CASE Respond(c)
        BY <3>2, <4>3 DEF Respond, End, TypeOK
      <4>4. QED
        BY <2>1, <4>1, <4>2, <4>3, CallStepCases
    <3>3. QED
      BY <3>1, <3>2
  <2>2. CASE Restart
    BY <2>2 DEF Restart
  <2>3. ASSUME OtherStep, ~Restart
        PROVE  calls' = calls
    BY <2>3 DEF OtherStep, Mint, Revoke, SweepPassthroughs, UnpinStaleReads, StoreVersion,
       DeleteSecret, Tick
  <2>4. CASE UNCHANGED vars
    BY <1>2, <2>4 DEF vars
  <2>5. QED
    BY <1>2, <2>1, <2>2, <2>3, <2>4 DEF Next
<1>3. QED
  BY <1>1, <1>2

-----------------------------------------------------------------------------
(* Counting: every use let out, or on its way out, was counted.            *)

\* The calls about to send are finitely many, and so are the burned keys.
LEMMA CountedTypes ==
  ASSUME NEW g \in Grant
  PROVE  /\ IsFiniteSet(Burned(g)) /\ Cardinality(Burned(g)) \in Nat
         /\ IsFiniteSet(Sending(g)) /\ Cardinality(Sending(g)) \in Nat
         /\ IsFiniteSet(Burned(g)') /\ Cardinality(Burned(g)') \in Nat
         /\ IsFiniteSet(Sending(g)') /\ Cardinality(Sending(g)') \in Nat
<1>1. Burned(g) \subseteq Key /\ Sending(g) \subseteq Call
  BY DEF Burned, Sending
<1>2. Burned(g)' \subseteq Key /\ Sending(g)' \subseteq Call
  BY DEF Burned, Sending
<1>3. QED
  BY <1>1, <1>2, FS_Subset, FS_CardinalityType

\* A step that burns no key and adds no send keeps the count.
LEMMA CountedFrame ==
  ASSUME TypeOK, NEW g \in Grant,
         Cardinality(Burned(g)) + Cardinality(Sending(g)) + sends[g] <= use_count[g],
         Burned(g)' = Burned(g), Sending(g)' \subseteq Sending(g),
         sends'[g] = sends[g], use_count'[g] \in Nat, use_count'[g] >= use_count[g]
  PROVE  Cardinality(Burned(g)') + Cardinality(Sending(g)') + sends'[g] <= use_count'[g]
<1>1. Cardinality(Sending(g)') <= Cardinality(Sending(g))
  BY CountedTypes, FS_Subset
<1>2. sends[g] \in Nat /\ use_count[g] \in Nat
  BY DEF TypeOK
<1>3. QED
  BY <1>1, <1>2, CountedTypes

\* Only UseFirst makes a call that is about to send.
LEMMA SendingShrinks ==
  ASSUME TypeOK, CallsInv, NEW c \in Call, QuietStep(c) \/ UseReplay(c) \/ Respond(c),
         NEW g \in Grant
  PROVE  Sending(g)' \subseteq Sending(g)
<1> USE DEF rowVars, secretVars, ghostVars
<1>1. \A d \in Call \ {c} : calls'[d] = calls[d]
  BY QuietFrame, OthersFrame
<1>2. c \notin Sending(g)'
  <2> SUFFICES ASSUME calls'[c] # Null, calls'[c].at = "respond", calls'[c].key = Null
               PROVE  FALSE
    BY DEF Sending
  <2>1. ASSUME NEW h \in Grant, NEW k \in Key, ReadArrives(c, h, k)
        PROVE  FALSE
    BY <2>1 DEF ReadArrives, TypeOK
  <2>2. ASSUME NEW h \in Grant, ProxyArrives(c, h)
        PROVE  FALSE
    BY <2>2 DEF ProxyArrives, TypeOK
  <2>3. CASE Revalidate(c)
    BY <2>3 DEF Revalidate, TypeOK, CallState
  <2>4. CASE Resolve(c)
    BY <2>4 DEF Resolve, Goto, End, TypeOK, CallState
  <2>5. CASE Begin(c)
    BY <2>5 DEF Begin, TypeOK, CallState
  <2>6. CASE FetchPinned(c)
    BY <2>6 DEF FetchPinned, Goto, End, TypeOK, CallState, CallsInv, CallInv
  <2>7. CASE UseReplay(c)
    <3>1. calls[c] \in CallState /\ calls[c].key # Null
      BY <2>7 DEF UseReplay, InUse, Prior, TypeOK
    <3>2. calls'[c].key = calls[c].key
      BY <2>7, <3>1 DEF UseReplay, Committed, End, TypeOK, CallState
    <3>3. QED
      BY <3>1, <3>2
  <2>8. CASE UseRefused(c) \/ Abandon(c) \/ Respond(c)
    BY <2>8 DEF UseRefused, Abandon, Respond, End, TypeOK
  <2>9. QED
    BY <2>1, <2>2, <2>3, <2>4, <2>5, <2>6, <2>7, <2>8 DEF QuietStep
<1>3. QED
  BY <1>1, <1>2 DEF Sending

\* Adding an element adds at most one.
LEMMA AtMostOneMore ==
  ASSUME NEW S, NEW x, IsFiniteSet(S)
  PROVE  /\ IsFiniteSet(S \cup {x})
         /\ Cardinality(S \cup {x}) \in Nat
         /\ Cardinality(S \cup {x}) <= Cardinality(S) + 1
<1>1. Cardinality(S) \in Nat
  BY FS_CardinalityType
<1>2. /\ IsFiniteSet(S \cup {x})
      /\ Cardinality(S \cup {x}) = IF x \in S THEN Cardinality(S) ELSE Cardinality(S) + 1
  BY FS_AddElement
<1>3. QED
  BY <1>1, <1>2

\* A first use adds one to the counter and at most one to what it bounds.
LEMMA CountedFirstUse ==
  ASSUME TypeOK, CallsInv, Counted, NEW c \in Call, UseFirst(c), NEW g \in Grant
  PROVE  Cardinality(Burned(g)') + Cardinality(Sending(g)') + sends'[g] <= use_count'[g]
<1> USE DEF rowVars, secretVars, ghostVars
<1> DEFINE p == calls[c]
<1>1. p \in CallState /\ p.grant \in Grant /\ p.key \in Key \cup {Null} /\ p.at = "use"
  BY DEF UseFirst, InUse, TypeOK, CallState
<1>2. /\ use_count' = [use_count EXCEPT ![p.grant] = @ + 1]
      /\ use_count[g] \in Nat /\ sends[g] \in Nat /\ sends' = sends
  BY DEF UseFirst, TypeOK
<1>3. \A d \in Call \ {c} : calls'[d] = calls[d]
  BY OthersFrame
<1>4. calls'[c] # Null => calls'[c].grant = p.grant /\ calls'[c].key = p.key
  BY <1>1 DEF UseFirst, Committed, End, TypeOK, CallState
<1>5. Cardinality(Burned(g)) + Cardinality(Sending(g)) + sends[g] <= use_count[g]
  BY DEF Counted
<1>6. CASE p.grant # g
  <2>1. Burned(g)' = Burned(g)
    BY <1>1, <1>6 DEF UseFirst, Burned, TypeOK
  <2>2. Sending(g)' \subseteq Sending(g)
    BY <1>3, <1>4, <1>6 DEF Sending
  <2>3. use_count'[g] = use_count[g] /\ sends'[g] = sends[g]
    BY <1>1, <1>2, <1>6 DEF TypeOK
  <2>4. QED
    BY <1>2, <1>5, <2>1, <2>2, <2>3, CountedFrame
<1>7. CASE p.grant = g /\ p.key # Null
  <2>1. Sending(g)' \subseteq Sending(g)
    BY <1>3, <1>4, <1>7 DEF Sending
  <2>2. Burned(g)' \subseteq Burned(g) \cup {p.key}
    BY <1>1, <1>7 DEF UseFirst, Burned, TypeOK
  <2>3. Cardinality(Sending(g)') <= Cardinality(Sending(g))
    BY <2>1, CountedTypes, FS_Subset
  <2>4. /\ IsFiniteSet(Burned(g) \cup {p.key})
        /\ Cardinality(Burned(g) \cup {p.key}) \in Nat
        /\ Cardinality(Burned(g) \cup {p.key}) <= Cardinality(Burned(g)) + 1
    BY CountedTypes, AtMostOneMore
  <2>5. Cardinality(Burned(g)') <= Cardinality(Burned(g) \cup {p.key})
    BY <2>2, <2>4, FS_Subset
  <2>6. use_count'[g] = use_count[g] + 1
    BY <1>2, <1>7 DEF TypeOK
  <2>7. QED
    BY <1>2, <1>5, <2>3, <2>4, <2>5, <2>6, CountedTypes
<1>8. CASE p.grant = g /\ p.key = Null
  <2>1. Sending(g)' \subseteq Sending(g) \cup {c}
    BY <1>3 DEF Sending
  <2>2. Burned(g)' = Burned(g)
    BY <1>8 DEF UseFirst, Burned
  <2>3. /\ IsFiniteSet(Sending(g) \cup {c})
        /\ Cardinality(Sending(g) \cup {c}) \in Nat
        /\ Cardinality(Sending(g) \cup {c}) <= Cardinality(Sending(g)) + 1
    BY CountedTypes, AtMostOneMore
  <2>4. Cardinality(Sending(g)') <= Cardinality(Sending(g) \cup {c})
    BY <2>1, <2>3, FS_Subset
  <2>5. use_count'[g] = use_count[g] + 1
    BY <1>2, <1>8 DEF TypeOK
  <2>6. QED
    BY <1>2, <1>5, <2>2, <2>3, <2>4, <2>5, CountedTypes
<1>9. QED
  BY <1>6, <1>7, <1>8

\* Sending moves a use from "about to be sent" to "sent".
LEMMA CountedRespond ==
  ASSUME TypeOK, CallsInv, Counted, NEW c \in Call, Respond(c), NEW g \in Grant
  PROVE  Cardinality(Burned(g)') + Cardinality(Sending(g)') + sends'[g] <= use_count'[g]
<1> USE DEF rowVars, secretVars, ghostVars
<1> DEFINE p == calls[c]
<1>1. p \in CallState /\ p.grant \in Grant
  BY DEF Respond, TypeOK, CallState
<1>2. Sending(g)' \subseteq Sending(g) /\ Burned(g)' = Burned(g) /\ use_count' = use_count
  BY SendingShrinks DEF Respond, Burned
<1>3. Cardinality(Burned(g)) + Cardinality(Sending(g)) + sends[g] <= use_count[g]
  BY DEF Counted
<1>4. CASE sends'[g] = sends[g]
  <2>1. use_count[g] \in Nat
    BY DEF TypeOK
  <2>2. QED
    BY <1>2, <1>3, <1>4, <2>1, CountedFrame
<1>5. CASE sends'[g] # sends[g]
  <2>1. p.grant = g /\ p.key = Null /\ sends'[g] = sends[g] + 1
    BY <1>1, <1>5 DEF Respond, TypeOK
  <2>2. c \in Sending(g) /\ c \notin Sending(g)'
    BY <2>1 DEF Respond, Sending, End, TypeOK
  <2>3. Sending(g)' \subseteq Sending(g) \ {c}
    BY <1>2, <2>2
  <2>4. /\ IsFiniteSet(Sending(g) \ {c})
        /\ Cardinality(Sending(g) \ {c}) = Cardinality(Sending(g)) - 1
    BY <2>2, CountedTypes, FS_RemoveElement
  <2>5. Cardinality(Sending(g)') <= Cardinality(Sending(g)) - 1
    BY <2>3, <2>4, FS_Subset
  <2>6. sends[g] \in Nat /\ use_count[g] \in Nat
    BY DEF TypeOK
  <2>7. QED
    BY <1>2, <1>3, <2>1, <2>5, <2>6, CountedTypes
<1>6. QED
  BY <1>4, <1>5

\* The count holds after every step.
LEMMA CountedStep ==
  ASSUME TypeOK, CallsInv, Counted, [Next]_vars
  PROVE  Counted'
<1> USE DEF rowVars, secretVars, ghostVars
<1> SUFFICES ASSUME NEW g \in Grant
             PROVE  Cardinality(Burned(g)') + Cardinality(Sending(g)') + sends'[g] <= use_count'[g]
  BY DEF Counted
<1>1. Cardinality(Burned(g)) + Cardinality(Sending(g)) + sends[g] <= use_count[g]
  BY DEF Counted
<1>2. use_count[g] \in Nat
  BY DEF TypeOK
<1>3. ASSUME NEW c \in Call, QuietStep(c) \/ UseReplay(c)
      PROVE  Cardinality(Burned(g)') + Cardinality(Sending(g)') + sends'[g] <= use_count'[g]
  <2>1. UNCHANGED <<reads, sends, use_count>>
    BY <1>3, QuietFrame DEF UseReplay
  <2>2. Burned(g)' = Burned(g)
    BY <2>1 DEF Burned
  <2>3. Sending(g)' \subseteq Sending(g)
    BY <1>3, SendingShrinks
  <2>4. QED
    BY <1>1, <1>2, <2>1, <2>2, <2>3, CountedFrame
<1>4. CASE OtherStep \/ UNCHANGED vars
  <2>1. UNCHANGED <<sends, use_count>>
    BY <1>4 DEF OtherStep, Mint, Revoke, SweepPassthroughs, UnpinStaleReads, StoreVersion,
       DeleteSecret, Restart, Tick, vars
  <2>2. Sending(g)' \subseteq Sending(g)
    <3>1. CASE Restart
      BY <3>1 DEF Restart, Sending
    <3>2. CASE calls' = calls
      BY <3>2 DEF Sending
    <3>3. QED
      BY <1>4, <3>1, <3>2 DEF OtherStep, Mint, Revoke, SweepPassthroughs, UnpinStaleReads,
         StoreVersion, DeleteSecret, Tick, vars
  <2>3. Burned(g)' = Burned(g)
    <3>1. CASE UnpinStaleReads
      <4>1. \A k \in Key : UnpinnedRow(reads[g][k]) /\ reads'[g][k] = Unpinned(reads[g][k])
        BY <3>1, UnpinnedFact DEF TypeOK, UnpinStaleReads
      <4>2. QED
        BY <4>1 DEF Burned, UnpinnedRow
    <3>2. CASE reads' = reads
      BY <3>2 DEF Burned
    <3>3. QED
      BY <1>4, <3>1, <3>2 DEF OtherStep, Mint, Revoke, SweepPassthroughs, StoreVersion,
         DeleteSecret, Restart, Tick, vars
  <2>4. QED
    BY <1>1, <1>2, <2>1, <2>2, <2>3, CountedFrame
<1>5. QED
  BY <1>3, <1>4, CallStepCases, CountedFirstUse, CountedRespond DEF Next

-----------------------------------------------------------------------------
(* Entitlement: no step takes away what a replay may still ask for.        *)

\* Which steps move the clock, kill grants and drop versions.
LEMMA CallStepKeeps ==
  ASSUME TypeOK, NEW c \in Call, CallStep(c)
  PROVE  UNCHANGED <<now, grant, revoked, sealed, current, versions>>
  BY CallStepCases, QuietFrame DEF UseReplay, UseFirst, Respond, rowVars, secretVars, ghostVars

\* A grant that is live after a step was live before it.
LEMMA LiveBefore ==
  ASSUME TypeOK, [Next]_vars, NEW g \in Grant, grant[g] # Null, Live(g, now)'
  PROVE  Live(g, now)
<1> USE DEF rowVars, secretVars, ghostVars
<1>1. grant'[g] = grant[g] /\ grant[g].notAfter \in Nat /\ now \in Nat
  BY GrantFrame DEF TypeOK, GrantRow
<1>2. now' \in {now, now + 1}
  BY CallStepKeeps DEF Next, OtherStep, Mint, Revoke, SweepPassthroughs, UnpinStaleReads,
     StoreVersion, DeleteSecret, Restart, Tick, vars
<1>3. revoked[g] => revoked'[g]
  <2>1. ASSUME NEW h \in Grant, Revoke(h)
        PROVE  revoked[g] => revoked'[g]
    BY <2>1 DEF Revoke, TypeOK
  <2>2. CASE DeleteSecret
    BY <2>2 DEF DeleteSecret
  <2>3. QED
    BY <2>1, <2>2, CallStepKeeps DEF Next, OtherStep, Mint, SweepPassthroughs, UnpinStaleReads,
       StoreVersion, Restart, Tick, vars
<1>4. QED
  BY <1>1, <1>2, <1>3 DEF Live

\* Versions only go with a deletion, and it revokes the stored grants.
LEMMA VersionsKept ==
  ASSUME TypeOK, [Next]_vars, NEW g \in Grant, grant[g] # Null, ~grant[g].ephemeral,
         Live(g, now)', NEW v \in versions
  PROVE  v \in versions'
<1> USE DEF rowVars, secretVars, ghostVars
<1>1. CASE DeleteSecret
  <2>1. Live(g, now)
    BY LiveBefore
  <2>2. RevokedByDelete(g)
    BY <2>1 DEF RevokedByDelete, Exists
  <2>3. QED
    BY <1>1, <2>2 DEF DeleteSecret, Live
<1>2. CASE StoreVersion
  BY <1>2 DEF StoreVersion
<1>3. QED
  BY <1>1, <1>2, CallStepKeeps DEF Next, OtherStep, Mint, Revoke, SweepPassthroughs,
     UnpinStaleReads, Restart, Tick, vars

\* A replay row is never removed, never re-dated and never changes its kind;
\* in its window it does not change at all.
LEMMA ReadKept ==
  ASSUME TypeOK, [Next]_vars, NEW g \in Grant, NEW k \in Key, reads[g][k] # Null
  PROVE  /\ reads'[g][k] # Null
         /\ reads'[g][k].passthrough = reads[g][k].passthrough
         /\ reads'[g][k].at = reads[g][k].at
         /\ InWindow(reads[g][k], now) => reads'[g][k] = reads[g][k]
<1> USE DEF rowVars, secretVars, ghostVars
<1>1. ASSUME NEW c \in Call, UseFirst(c)
      PROVE  reads'[g][k] = reads[g][k]
  <2>1. calls[c].grant \in Grant /\ calls[c].key \in Key \cup {Null}
    BY <1>1 DEF UseFirst, InUse, TypeOK, CallState
  <2>2. QED
    BY <1>1, <2>1 DEF UseFirst, Prior, TypeOK
<1>2. ASSUME NEW c \in Call, CallStep(c), ~UseFirst(c)
      PROVE  reads' = reads
  BY <1>2, CallStepCases, QuietFrame DEF UseReplay, Respond
<1>3. CASE UnpinStaleReads
  <2>1. reads'[g][k] = Unpinned(reads[g][k]) /\ UnpinnedRow(reads[g][k])
    BY <1>3, UnpinnedFact DEF UnpinStaleReads, TypeOK
  <2>2. reads[g][k].at \in Nat /\ now \in Nat
    BY DEF TypeOK, ReadRow
  <2>3. InWindow(reads[g][k], now) => ~Stale(reads[g][k])
    BY <2>2 DEF InWindow, Stale
  <2>4. QED
    BY <2>1, <2>3 DEF UnpinnedRow
<1>4. QED
  BY <1>1, <1>2, <1>3 DEF Next, OtherStep, Mint, Revoke, SweepPassthroughs, StoreVersion,
     DeleteSecret, Restart, Tick, vars

\* A window that is open after a step was open before it.
LEMMA WindowBefore ==
  ASSUME TypeOK, [Next]_vars, NEW g \in Grant, NEW k \in Key, reads[g][k] # Null,
         InWindow(reads[g][k], now)'
  PROVE  InWindow(reads[g][k], now)
<1> USE DEF rowVars, secretVars, ghostVars
<1>1. reads[g][k].at \in Nat /\ now \in Nat /\ reads'[g][k].at = reads[g][k].at
  BY ReadKept DEF TypeOK, ReadRow
<1>2. now' \in {now, now + 1}
  BY CallStepKeeps DEF Next, OtherStep, Mint, Revoke, SweepPassthroughs, UnpinStaleReads,
     StoreVersion, DeleteSecret, Restart, Tick, vars
<1>3. QED
  BY <1>1, <1>2 DEF InWindow

\* The grant's own payload stays while a replay of it is open.
LEMMA SealedKept ==
  ASSUME TypeOK, Sources, [Next]_vars, NEW g \in Grant, NEW k \in Key, grant[g] # Null,
         reads[g][k] # Null, InWindow(reads[g][k], now), Live(g, now)', sealed[g] # Null
  PROVE  sealed'[g] # Null
<1> USE DEF rowVars, secretVars, ghostVars
<1>1. Live(g, now) /\ grant[g].notAfter \in Nat /\ now \in Nat
  BY LiveBefore DEF TypeOK, GrantRow
<1>2. ASSUME NEW h \in Grant, Mint(h)
      PROVE  sealed'[g] = sealed[g]
  BY <1>2, MintRow DEF Minted, TypeOK
<1>3. ASSUME NEW h \in Grant, Revoke(h)
      PROVE  sealed'[g] = sealed[g]
  BY <1>3 DEF Revoke, Live, TypeOK
<1>4. CASE SweepPassthroughs
  <2>1. ~Purgeable(g)
    BY <1>1 DEF Purgeable, Live
  <2>2. QED
    BY <1>4, <2>1 DEF SweepPassthroughs
<1>5. CASE DeleteSecret
  BY <1>5 DEF DeleteSecret, RevokedByDelete, Sources
<1>6. QED
  BY <1>2, <1>3, <1>4, <1>5, CallStepKeeps DEF Next, OtherStep, UnpinStaleReads, StoreVersion,
     Restart, Tick, vars

\* A replay row that a step writes is one that UseFirst writes.
LEMMA NewRead ==
  ASSUME TypeOK, [Next]_vars, NEW g \in Grant, NEW k \in Key, reads[g][k] = Null,
         reads'[g][k] # Null
  PROVE  \E c \in Call : UseFirst(c) /\ calls[c].grant = g /\ calls[c].key = k
<1> USE DEF rowVars, secretVars, ghostVars
<1>1. ASSUME NEW c \in Call, UseFirst(c)
      PROVE  calls[c].grant = g /\ calls[c].key = k
  <2>1. calls[c].grant \in Grant /\ calls[c].key \in Key \cup {Null}
    BY <1>1 DEF UseFirst, InUse, TypeOK, CallState
  <2>2. QED
    BY <1>1, <2>1 DEF UseFirst, TypeOK
<1>2. ASSUME NEW c \in Call, CallStep(c), ~UseFirst(c)
      PROVE  reads' = reads
  BY <1>2, CallStepCases, QuietFrame DEF UseReplay, Respond
<1>3. ~UnpinStaleReads
  BY DEF UnpinStaleReads, Unpinned
<1>4. QED
  BY <1>1, <1>2, <1>3 DEF Next, OtherStep, Mint, Revoke, SweepPassthroughs, StoreVersion,
     DeleteSecret, Restart, Tick, vars

\* The row that a first use writes.
LEMMA FirstRead ==
  ASSUME TypeOK, CallsInv, NEW c \in Call, UseFirst(c), calls[c].key # Null,
         NEW g, g = calls[c].grant, NEW k, k = calls[c].key
  PROVE  /\ g \in Grant /\ k \in Key
         /\ reads'[g][k].version = calls[c].payload
         /\ reads'[g][k].passthrough = (sealed[g] # Null)
         /\ answer'[g][k] = calls[c].payload
         /\ calls[c].payload \in Payload
<1>1. calls[c] \in CallState /\ CallInv(c)
  BY DEF UseFirst, InUse, TypeOK, CallsInv
<1>2. g \in Grant /\ k \in Key /\ calls[c].payload \in Payload
  BY <1>1 DEF CallState, CallInv, UseFirst, InUse
<1>3. reads'[g][k] = [version |-> calls[c].payload, passthrough |-> sealed[g] # Null,
                      at |-> calls[c].txNow]
  BY <1>2 DEF UseFirst, TypeOK
<1>4. answer'[g][k] = calls[c].payload
  BY <1>2 DEF UseFirst, TypeOK
<1>5. QED
  BY <1>2, <1>3, <1>4

\* Pins and payloads that a replay may still need are kept.
LEMMA PinsHeldStep ==
  ASSUME TypeOK, Sources, Settled, CallsInv, PinsHeld, CallsEntitled, [Next]_vars
  PROVE  PinsHeld'
<1> SUFFICES ASSUME NEW g \in Grant, NEW k \in Key, reads'[g][k] # Null, Live(g, now)',
                    InWindow(reads[g][k], now)'
             PROVE  /\ reads'[g][k].version = answer'[g][k]
                    /\ reads'[g][k].passthrough => sealed'[g] # Null
                    /\ answer'[g][k] \in Nat => answer'[g][k] \in versions'
  BY DEF PinsHeld
<1>1. CASE reads[g][k] # Null
  <2>1. grant[g] # Null /\ (grant[g].ephemeral => answer[g][k] = Passthrough)
    BY <1>1 DEF Settled
  <2>2. Live(g, now) /\ InWindow(reads[g][k], now)
    BY <1>1, <2>1, LiveBefore, WindowBefore
  <2>3. reads'[g][k] = reads[g][k]
    BY <1>1, <2>2, ReadKept
  <2>4. answer'[g][k] = answer[g][k]
    BY <1>1, AnsweredIffBurned, AnswerFrame
  <2>5. /\ reads[g][k].version = answer[g][k]
        /\ reads[g][k].passthrough => sealed[g] # Null
        /\ answer[g][k] \in Nat => answer[g][k] \in versions
    BY <1>1, <2>2 DEF PinsHeld
  <2>6. reads[g][k].passthrough => sealed'[g] # Null
    BY <1>1, <2>1, <2>2, <2>5, SealedKept
  <2>7. answer[g][k] \in Nat => answer[g][k] \in versions'
    BY <2>1, <2>5, VersionsKept DEF TypeOK, GrantRow
  <2>8. QED
    BY <2>3, <2>4, <2>5, <2>6, <2>7
<1>2. CASE reads[g][k] = Null
  <2>1. PICK c \in Call : UseFirst(c) /\ calls[c].grant = g /\ calls[c].key = k
    BY <1>2, NewRead
  <2>2. /\ reads'[g][k].version = calls[c].payload
        /\ reads'[g][k].passthrough = (sealed[g] # Null)
        /\ answer'[g][k] = calls[c].payload
    BY <2>1, FirstRead
  <2>3. UNCHANGED <<now, grant, revoked, sealed, versions>>
    BY <2>1 DEF UseFirst, secretVars
  <2>4. Live(g, now)
    BY <2>3 DEF Live
  <2>5. CallInv(c) /\ CallEntitled(c) /\ calls[c] \in CallState /\ calls[c].at = "use"
    BY <2>1 DEF UseFirst, InUse, CallsInv, CallsEntitled, TypeOK
  <2>6. calls[c].payload \in Nat => calls[c].payload \in versions
    BY <2>1, <2>4, <2>5 DEF CallInv, CallEntitled
  <2>7. QED
    BY <2>2, <2>3, <2>6
<1>3. QED
  BY <1>1, <1>2

\* Answers that carried the grant's own payload stay marked as such.
LEMMA OwnAnswersStep ==
  ASSUME TypeOK, Settled, CallsInv, OwnAnswers, CallsEntitled, [Next]_vars
  PROVE  OwnAnswers'
<1> SUFFICES ASSUME NEW t \in released', t[3] = Passthrough
             PROVE  reads'[t[1]][t[2]].passthrough
  BY DEF OwnAnswers
<1>1. CASE t \in released
  <2>1. t[1] \in Grant /\ t[2] \in Key
    BY <1>1 DEF TypeOK
  <2>2. reads[t[1]][t[2]] # Null
    BY <1>1, <2>1, AnsweredIffBurned DEF Settled
  <2>3. reads[t[1]][t[2]].passthrough
    BY <1>1 DEF OwnAnswers
  <2>4. QED
    BY <2>1, <2>2, <2>3, ReadKept
<1>2. CASE t \notin released
  <2>1. PICK c \in Call : Respond(c)
    BY <1>2, CallStepCases, QuietFrame DEF Next, OtherStep, Mint, Revoke, SweepPassthroughs,
       UnpinStaleReads, StoreVersion, DeleteSecret, Restart, Tick, UseReplay, UseFirst, vars,
       ghostVars
  <2>2. /\ calls[c].key # Null /\ t = <<calls[c].grant, calls[c].key, calls[c].payload>>
        /\ reads' = reads
    BY <1>2, <2>1 DEF Respond, rowVars
  <2>3. CallEntitled(c) /\ calls[c].at = "respond"
    BY <2>1 DEF Respond, CallsEntitled
  <2>4. QED
    BY <2>2, <2>3 DEF CallEntitled
<1>3. QED
  BY <1>1, <1>2

\* What a call resolved stays usable under the steps of others.
LEMMA CallEntitledFrame ==
  ASSUME TypeOK, Settled, CallsInv, CallsEntitled, [Next]_vars, NEW d \in Call,
         calls[d] # Null, calls'[d] = calls[d]
  PROVE  CallEntitled(d)'
<1> DEFINE p == calls[d]
<1>1. CallInv(d) /\ CallEntitled(d) /\ p \in CallState
  BY DEF CallsInv, CallsEntitled, TypeOK
<1>2. p.grant \in Grant /\ p.key \in Key \cup {Null} /\ grant[p.grant] # Null
  BY <1>1 DEF CallState, CallInv
<1>3. ASSUME p.at = "respond", p.key # Null, p.payload = Passthrough
      PROVE  reads'[p.grant][p.key].passthrough
  <2>1. reads[p.grant][p.key].passthrough
    BY <1>1, <1>3 DEF CallEntitled
  <2>2. reads[p.grant][p.key] # Null
    BY <1>1, <1>2, <1>3, AnsweredIffBurned DEF CallInv
  <2>3. QED
    BY <1>2, <1>3, <2>1, <2>2, ReadKept
<1>4. ASSUME p.at \in {"begin", "use"}, p.source = "stored", Live(p.grant, now)'
      PROVE  p.payload \in versions'
  <2>1. ~grant[p.grant].ephemeral
    BY <1>1, <1>4 DEF CallInv
  <2>2. ASSUME NEW g, g = p.grant
        PROVE  Live(g, now)' /\ g \in Grant /\ grant[g] # Null /\ ~grant[g].ephemeral
    BY <1>2, <1>4, <2>1, <2>2 DEF Live
  <2>3. Live(p.grant, now)
    BY <2>2, LiveBefore
  <2>4. p.payload \in versions
    BY <1>1, <1>4, <2>3 DEF CallEntitled
  <2>5. QED
    BY <2>2, <2>4, VersionsKept
<1>5. p.at \in {"begin", "use"} /\ p.source = "stored" => p.payload \in Nat
  BY <1>1 DEF CallEntitled
<1>6. QED
  BY <1>3, <1>4, <1>5 DEF CallEntitled, Live

\* What a call resolved is usable after its own steps.
LEMMA OwnCallEntitled ==
  ASSUME TypeOK, Settled, CallsInv, CallsEntitled, NEW c \in Call, CallStep(c), calls'[c] # Null
  PROVE  CallEntitled(c)'
<1> USE DEF rowVars, secretVars, ghostVars
<1> DEFINE p == calls[c]
<1>1. ASSUME NEW g \in Grant, NEW k \in Key, ReadArrives(c, g, k)
      PROVE  CallEntitled(c)'
  BY <1>1 DEF ReadArrives, CallEntitled, TypeOK
<1>2. ASSUME NEW g \in Grant, ProxyArrives(c, g)
      PROVE  CallEntitled(c)'
  BY <1>2 DEF ProxyArrives, CallEntitled, TypeOK
<1>3. CASE Revalidate(c)
  BY <1>3 DEF Revalidate, CallEntitled, TypeOK, CallState
<1>4. CASE Resolve(c)
  <2>1. Resolved(c) /\ calls' = [calls EXCEPT ![c].at = "begin"] /\ versions' = versions
    BY <1>4 DEF Resolve, Goto, End, TypeOK
  <2>2. calls'[c] = [p EXCEPT !.at = "begin"] /\ p \in CallState
    BY <1>4, <2>1 DEF Resolve, TypeOK
  <2>3. p.source = "stored" => p.payload \in versions /\ p.payload \in Nat
    BY <2>1 DEF Resolved, TypeOK
  <2>4. QED
    BY <2>1, <2>2, <2>3 DEF CallEntitled, CallState
<1>5. CASE Begin(c)
  <2>1. calls'[c] = [p EXCEPT !.at = "use", !.txNow = now] /\ p \in CallState
    BY <1>5 DEF Begin, TypeOK
  <2>2. CallEntitled(c) /\ p.at = "begin"
    BY <1>5 DEF Begin, CallsEntitled
  <2>3. UNCHANGED <<now, grant, revoked, versions>>
    BY <1>5 DEF Begin
  <2>4. QED
    BY <2>1, <2>2, <2>3 DEF CallEntitled, CallState, Live
<1>6. CASE UseReplay(c)
  <2>1. p \in CallState /\ p.key \in Key /\ Prior(c) = reads[p.grant][p.key] /\ reads' = reads
    BY <1>6 DEF UseReplay, InUse, Prior, TypeOK, CallState
  <2>2. CASE Prior(c).passthrough /\ Committed(c, "respond", Passthrough)
    <3>1. calls'[c] = [p EXCEPT !.at = "respond", !.payload = Passthrough, !.txNow = 0]
      BY <2>2 DEF Committed, TypeOK
    <3>2. reads[p.grant][p.key].passthrough
      BY <2>1, <2>2
    <3>3. QED
      BY <2>1, <3>1, <3>2 DEF CallEntitled, CallState
  <2>3. CASE Committed(c, "fetch", Prior(c).version)
    <3>1. calls'[c] = [p EXCEPT !.at = "fetch", !.payload = Prior(c).version, !.txNow = 0]
      BY <2>3 DEF Committed, TypeOK
    <3>2. QED
      BY <2>1, <3>1 DEF CallEntitled, CallState
  <2>4. QED
    BY <1>6, <2>2, <2>3 DEF UseReplay, End, TypeOK
<1>7. CASE UseFirst(c)
  <2>1. /\ calls'[c] = [p EXCEPT !.at = "respond", !.payload = p.payload, !.txNow = 0]
        /\ p.source = "stored" \/ sealed[p.grant] = epoch
    BY <1>7 DEF UseFirst, Committed, End, TypeOK
  <2>2. p \in CallState /\ CallEntitled(c) /\ p.at = "use"
    BY <1>7 DEF UseFirst, InUse, TypeOK, CallsEntitled
  <2>3. calls'[c].at = "respond" /\ calls'[c].grant = p.grant /\ calls'[c].key = p.key
        /\ calls'[c].payload = p.payload
    BY <2>1, <2>2 DEF CallState
  <2>4. ASSUME p.key # Null, p.payload = Passthrough
        PROVE  reads'[p.grant][p.key].passthrough
    <3>1. p.source # "stored"
      BY <2>2, <2>4 DEF CallEntitled
    <3>2. sealed[p.grant] # Null
      BY <2>1, <3>1 DEF TypeOK
    <3>3. reads'[p.grant][p.key].passthrough = (sealed[p.grant] # Null)
      BY <1>7, <2>4, FirstRead
    <3>4. QED
      BY <3>2, <3>3
  <2>5. QED
    BY <2>3, <2>4 DEF CallEntitled
<1>8. CASE FetchPinned(c)
  <2>1. calls'[c] = [p EXCEPT !.at = "respond"] /\ p \in CallState /\ p.payload \in versions
    BY <1>8 DEF FetchPinned, Goto, End, TypeOK
  <2>2. p.payload # Passthrough
    BY <2>1 DEF TypeOK
  <2>3. QED
    BY <2>1, <2>2 DEF CallEntitled, CallState
<1>9. CASE UseRefused(c) \/ Respond(c) \/ Abandon(c)
  BY <1>9 DEF UseRefused, Respond, Abandon, End, TypeOK
<1>10. QED
  BY <1>1, <1>2, <1>3, <1>4, <1>5, <1>6, <1>7, <1>8, <1>9 DEF CallStep, Use

\* Every call keeps what it resolved.
LEMMA CallsEntitledStep ==
  ASSUME TypeOK, Settled, CallsInv, CallsEntitled, [Next]_vars
  PROVE  CallsEntitled'
<1> SUFFICES ASSUME NEW d \in Call, calls'[d] # Null
             PROVE  CallEntitled(d)'
  BY DEF CallsEntitled
<1>1. CASE calls'[d] = calls[d]
  BY <1>1, CallEntitledFrame
<1>2. CASE calls'[d] # calls[d]
  <2>1. ASSUME NEW c \in Call, CallStep(c)
        PROVE  c = d
    BY <1>2, <2>1, CallStepCases, QuietFrame, OthersFrame
  <2>2. ASSUME OtherStep \/ UNCHANGED vars
        PROVE  calls'[d] \in {calls[d], Null}
    BY <2>2 DEF OtherStep, Mint, Revoke, SweepPassthroughs, UnpinStaleReads, StoreVersion,
       DeleteSecret, Restart, Tick, vars
  <2>3. QED
    BY <1>2, <2>1, <2>2, OwnCallEntitled DEF Next
<1>3. QED
  BY <1>1, <1>2

-----------------------------------------------------------------------------
(* The theorems.                                                           *)

(***************************************************************************)
(* The inductive invariant of grants holds in every behaviour: the         *)
(* counter covers every burned key and every send, replay rows, history    *)
(* and audit agree, and what a live grant may still replay is kept.        *)
(***************************************************************************)
THEOREM Invariance == Spec => []IInv
<1>1. Init => IInv
  <2> SUFFICES ASSUME Init
               PROVE  IInv
    OBVIOUS
  <2>1. Counted
    <3> SUFFICES ASSUME NEW g \in Grant
                 PROVE  Cardinality(Burned(g)) + Cardinality(Sending(g)) + sends[g] <= use_count[g]
      BY DEF Counted
    <3>1. Burned(g) = {} /\ Sending(g) = {}
      BY DEF Init, Burned, Sending
    <3>2. QED
      BY <3>1, FS_EmptySet DEF Init
  <2>2. Capped /\ Sources /\ Settled /\ CallsInv
    BY DEF Init, Capped, Sources, Settled, CallsInv
  <2>3. PinsHeld /\ OwnAnswers /\ CallsEntitled
    BY DEF Init, PinsHeld, OwnAnswers, CallsEntitled
  <2>4. QED
    BY <2>1, <2>2, <2>3, InitType DEF IInv
<1>2. IInv /\ [Next]_vars => IInv'
  <2> SUFFICES ASSUME IInv, [Next]_vars
               PROVE  IInv'
    OBVIOUS
  <2> USE DEF IInv
  <2>1. TypeOK'
    BY OtherStepType, CallStepType DEF Next, vars, rowVars, secretVars, ghostVars, TypeOK
  <2>2. Counted' /\ Capped' /\ Sources'
    BY CountedStep, CappedStep, SourcesStep
  <2>3. Settled' /\ CallsInv'
    BY SettledStep, CallsInvStep
  <2>4. PinsHeld' /\ OwnAnswers' /\ CallsEntitled'
    BY PinsHeldStep, OwnAnswersStep, CallsEntitledStep
  <2>5. QED
    BY <2>1, <2>2, <2>3, <2>4
<1>3. QED
  BY <1>1, <1>2, PTL DEF Spec

\* A released key is a burned key.
LEMMA ReleasedBurned ==
  ASSUME IInv, NEW g \in Grant
  PROVE  ReleasedKeys(g) \subseteq Burned(g)
<1> SUFFICES ASSUME NEW k \in Key, NEW t \in released, t[1] = g, t[2] = k
             PROVE  reads[g][k] # Null
  BY DEF ReleasedKeys, Burned
<1>1. answer[g][k] # Null
  BY DEF IInv, Settled
<1>2. QED
  BY <1>1, AnsweredIffBurned DEF IInv

(***************************************************************************)
(* No grant ever lets more than max_uses logical uses out, for any number  *)
(* of concurrent calls, keys, replays, sweeps and restarts.                *)
(***************************************************************************)
THEOREM BudgetHolds == Spec => []UseBudget
<1>1. IInv => UseBudget
  <2> SUFFICES ASSUME IInv, NEW g \in Grant, Exists(g), grant[g].maxUses # Unlimited
               PROVE  Cardinality(ReleasedKeys(g)) + sends[g] <= grant[g].maxUses
    BY DEF UseBudget
  <2>1. Cardinality(Burned(g)) + Cardinality(Sending(g)) + sends[g] <= use_count[g]
    BY DEF IInv, Counted
  <2>2. use_count[g] <= grant[g].maxUses
    BY DEF IInv, Capped, Exists
  <2>3. /\ sends[g] \in Nat /\ use_count[g] \in Nat /\ grant[g].maxUses \in Nat
    BY DEF IInv, TypeOK, GrantRow, Exists
  <2>4. ReleasedKeys(g) \subseteq Burned(g) /\ IsFiniteSet(Burned(g))
    BY ReleasedBurned, CountedTypes
  <2>5. /\ Cardinality(ReleasedKeys(g)) <= Cardinality(Burned(g))
        /\ Cardinality(ReleasedKeys(g)) \in Nat
    BY <2>4, FS_Subset, FS_CardinalityType
  <2>6. QED
    BY <2>1, <2>2, <2>3, <2>5, CountedTypes
<1>2. QED
  BY <1>1, Invariance, PTL

(***************************************************************************)
(* Every response to one idempotency key of one grant carries the same     *)
(* payload, whatever is rotated, deleted or swept in between.              *)
(***************************************************************************)
THEOREM AnswersAgree == Spec => []OneAnswerPerKey
<1>1. IInv => OneAnswerPerKey
  BY DEF IInv, Settled, OneAnswerPerKey
<1>2. QED
  BY <1>1, Invariance, PTL

(***************************************************************************)
(* Nothing leaves on a grant that was not first counted and audited.       *)
(***************************************************************************)
THEOREM AuditedAhead == Spec => []WriteAheadAudit
<1>1. IInv => WriteAheadAudit
  <2> SUFFICES ASSUME IInv
               PROVE  WriteAheadAudit
    OBVIOUS
  <2>1. ASSUME NEW t \in released
        PROVE  <<t[1], t[3]>> \in audit
    <3>1. t[1] \in Grant /\ t[2] \in Key
      BY DEF IInv, TypeOK
    <3>2. answer[t[1]][t[2]] = t[3] /\ t[3] # Null
      BY DEF IInv, Settled
    <3>3. reads[t[1]][t[2]] # Null
      BY <3>1, <3>2, AnsweredIffBurned DEF IInv
    <3>4. QED
      BY <3>1, <3>2, <3>3 DEF IInv, Settled
  <2>2. ASSUME NEW g \in Grant
        PROVE  sends[g] <= use_count[g]
    <3>1. Cardinality(Burned(g)) + Cardinality(Sending(g)) + sends[g] <= use_count[g]
      BY DEF IInv, Counted
    <3>2. sends[g] \in Nat /\ use_count[g] \in Nat
      BY DEF IInv, TypeOK
    <3>3. QED
      BY <3>1, <3>2, CountedTypes
  <2>3. QED
    BY <2>1, <2>2 DEF WriteAheadAudit
<1>2. QED
  BY <1>1, Invariance, PTL

(***************************************************************************)
(* A key answered once can be answered again, alike, until its window      *)
(* closes or the grant dies: no sweep and no deletion takes that away.     *)
(***************************************************************************)
THEOREM ReplaysHonoured == Spec => []ReplayEntitlement
<1>1. IInv => ReplayEntitlement
  <2> SUFFICES ASSUME IInv, NEW t \in released, NEW g, g = t[1], NEW k, k = t[2],
                      Live(g, now), InWindow(reads[g][k], now)
               PROVE  /\ reads[g][k].version = t[3]
                      /\ IF t[3] = Passthrough THEN reads[g][k].passthrough /\ sealed[g] # Null
                         ELSE ~reads[g][k].passthrough /\ t[3] \in versions
    BY DEF ReplayEntitlement
  <2>1. g \in Grant /\ k \in Key /\ t[3] \in Payload \cup {Null}
    BY DEF IInv, TypeOK
  <2>2. answer[g][k] = t[3] /\ t[3] # Null
    BY DEF IInv, Settled
  <2>3. reads[g][k] # Null
    BY <2>1, <2>2, AnsweredIffBurned DEF IInv
  <2>4. /\ reads[g][k].version = answer[g][k]
        /\ reads[g][k].passthrough => sealed[g] # Null
        /\ answer[g][k] \in Nat => answer[g][k] \in versions
    BY <2>1, <2>3 DEF IInv, PinsHeld
  <2>5. t[3] = Passthrough => reads[g][k].passthrough
    BY DEF IInv, OwnAnswers
  <2>6. reads[g][k].passthrough => t[3] = Passthrough
    BY <2>1, <2>2, <2>3 DEF IInv, Settled
  <2>7. t[3] # Passthrough => t[3] \in Nat
    BY <2>1, <2>2 DEF Payload
  <2>8. QED
    BY <2>2, <2>4, <2>5, <2>6, <2>7
<1>2. QED
  BY <1>1, Invariance, PTL

-----------------------------------------------------------------------------
(* Refinement.                                                             *)

Limit == [g \in Grant |-> IF grant[g] = Null THEN Null ELSE grant[g].maxUses]

\* Steps that leave the abstract grant alone.
LEMMA LedgerStutter ==
  ASSUME UNCHANGED <<grant, use_count, revoked, released, sends, answer>>
  PROVE  UNCHANGED Ledger!vars
  BY DEF Ledger!vars

\* A mint opens the abstract grant.
LEMMA LedgerOpen ==
  ASSUME TypeOK, NEW g \in Grant, Mint(g)
  PROVE  Ledger!Next
<1> USE DEF rowVars, secretVars, ghostVars
<1>1. PICK row \in GrantRow : Minted(g, row)
  BY MintRow
<1>2. row # Null /\ row.maxUses \in Nat \cup {Unlimited}
  BY NullAssumption DEF GrantRow
<1>3. grant[g] = Null /\ grant' = [grant EXCEPT ![g] = row] /\ grant \in [Grant -> GrantRow \cup {Null}]
  BY <1>1 DEF Minted, TypeOK
<1>4. Limit' = [Limit EXCEPT ![g] = row.maxUses]
  BY <1>2, <1>3 DEF Limit
<1>5. Limit[g] = Null /\ Limit'[g] = row.maxUses
  BY <1>2, <1>3 DEF Limit
<1>6. UNCHANGED <<use_count, answer, revoked, released, sends>>
  BY <1>1 DEF Minted
<1>7. Ledger!Open(g)
  BY <1>2, <1>4, <1>5, <1>6 DEF Ledger!Open, Limit
<1>8. QED
  BY <1>7 DEF Ledger!Next

\* A first use spends a key or an unkeyed use.
LEMMA LedgerSpend ==
  ASSUME IInv, NEW c \in Call, UseFirst(c)
  PROVE  Ledger!Next
<1> USE DEF rowVars, secretVars, ghostVars
<1> DEFINE p == calls[c]
<1>0. p \in CallState /\ CallInv(c) /\ p.grant \in Grant /\ p.key \in Key \cup {Null}
  BY DEF IInv, UseFirst, InUse, TypeOK, CallsInv, CallState
<1> SUFFICES ASSUME NEW g \in Grant, g = p.grant
             PROVE  Ledger!Next
  BY <1>0
<1>1. ~revoked[g] /\ UsesLeft(g) /\ grant[g] # Null
  BY <1>0 DEF UseFirst, Live, CallInv
<1>2. Ledger!MaySpend(g)
  <2>1. grant[g].maxUses \in Nat \cup {Unlimited}
    BY <1>1 DEF IInv, TypeOK, GrantRow
  <2>2. Limit[g] = grant[g].maxUses /\ Limit[g] # Null
    BY <1>1, <2>1, NullAssumption DEF Limit
  <2>3. QED
    BY <1>1, <2>2 DEF Ledger!MaySpend, UsesLeft, Limit
<1>3. /\ use_count' = [use_count EXCEPT ![g] = @ + 1]
      /\ UNCHANGED <<grant, revoked, released, sends>>
  BY DEF UseFirst
<1>4. CASE p.key = Null
  <2>1. answer' = answer
    BY <1>4 DEF UseFirst
  <2>2. Ledger!SpendUnkeyed(g)
    BY <1>2, <1>3, <2>1 DEF Ledger!SpendUnkeyed
  <2>3. QED
    BY <2>2 DEF Ledger!Next
<1>5. ASSUME NEW k \in Key, k = p.key
      PROVE  Ledger!Next
  <2>1. reads[g][k] = Null
    BY <1>5 DEF UseFirst, Prior
  <2>2. answer[g][k] = Null
    BY <2>1, AnsweredIffBurned DEF IInv
  <2>3. answer' = [answer EXCEPT ![g][k] = p.payload]
    BY <1>5 DEF UseFirst
  <2>4. answer'[g][k] = p.payload /\ p.payload \in Payload
    BY <1>5, FirstRead DEF IInv
  <2>5. Ledger!SpendKey(g, k)
    BY <1>2, <1>3, <2>2, <2>3, <2>4 DEF Ledger!SpendKey
  <2>6. QED
    BY <2>5 DEF Ledger!Next
<1>6. QED
  BY <1>0, <1>4, <1>5

\* A response answers a spent key; an upstream request is a counted use.
LEMMA LedgerOut ==
  ASSUME IInv, NEW c \in Call, Respond(c)
  PROVE  Ledger!Next
<1> USE DEF rowVars, secretVars, ghostVars
<1> DEFINE p == calls[c]
<1>0. p \in CallState /\ CallInv(c) /\ p.grant \in Grant /\ p.key \in Key \cup {Null}
  BY DEF IInv, Respond, TypeOK, CallsInv, CallState
<1> SUFFICES ASSUME NEW g \in Grant, g = p.grant
             PROVE  Ledger!Next
  BY <1>0
<1>1. UNCHANGED <<grant, use_count, revoked, answer>>
  BY DEF Respond
<1>2. CASE p.key = Null
  <2>1. sends' = [sends EXCEPT ![g] = @ + 1] /\ UNCHANGED released
    BY <1>2 DEF Respond
  <2>2. c \in Sending(g)
    BY <1>2 DEF Respond, Sending
  <2>3. Cardinality(Sending(g)) # 0
    BY <2>2, CountedTypes, FS_EmptySet
  <2>4. Cardinality(Burned(g)) + Cardinality(Sending(g)) + sends[g] <= use_count[g]
    BY DEF IInv, Counted
  <2>5. sends[g] \in Nat /\ use_count[g] \in Nat
    BY DEF IInv, TypeOK
  <2>6. sends[g] < use_count[g]
    BY <2>3, <2>4, <2>5, CountedTypes
  <2>7. Ledger!Send(g)
    BY <1>1, <2>1, <2>6 DEF Ledger!Send
  <2>8. QED
    BY <2>7 DEF Ledger!Next
<1>3. ASSUME NEW k \in Key, k = p.key
      PROVE  Ledger!Next
  <2>1. answer[g][k] # Null /\ answer[g][k] = p.payload
    BY <1>0, <1>3 DEF CallInv, Respond
  <2>2. released' = released \cup {<<g, k, p.payload>>} /\ UNCHANGED sends
    BY <1>3 DEF Respond
  <2>3. Ledger!Answer(g, k)
    BY <1>1, <2>1, <2>2 DEF Ledger!Answer
  <2>4. QED
    BY <2>3 DEF Ledger!Next
<1>4. QED
  BY <1>0, <1>2, <1>3

\* Revocation and deletion kill grants.
LEMMA LedgerKill ==
  ASSUME TypeOK, DeleteSecret \/ \E g \in Grant : Revoke(g)
  PROVE  Ledger!Next
<1> USE DEF rowVars, secretVars, ghostVars
<1>1. CASE DeleteSecret
  <2>1. Ledger!Kill({g \in Grant : RevokedByDelete(g)})
    BY <1>1 DEF DeleteSecret, Ledger!Kill
  <2>2. QED
    BY <2>1 DEF Ledger!Next
<1>2. ASSUME NEW h \in Grant, Revoke(h)
      PROVE  Ledger!Next
  <2>1. revoked' = [g \in Grant |-> revoked[g] \/ g \in {h}]
    BY <1>2 DEF Revoke, TypeOK
  <2>2. Ledger!Kill({h})
    BY <1>2, <2>1 DEF Revoke, Ledger!Kill
  <2>3. QED
    BY <2>2 DEF Ledger!Next
<1>3. QED
  BY <1>1, <1>2

(***************************************************************************)
(* The rows, handlers and sweeps of the code implement the abstract grant. *)
(***************************************************************************)
THEOREM Refinement == Spec => ImplementsLedger
<1>1. Init => Ledger!Init
  BY DEF Init, Ledger!Init
<1>2. IInv /\ [Next]_vars => [Ledger!Next]_(Ledger!vars)
  <2> SUFFICES ASSUME IInv, [Next]_vars
               PROVE  Ledger!Next \/ UNCHANGED Ledger!vars
    OBVIOUS
  <2> USE DEF rowVars, secretVars, ghostVars
  <2>0. TypeOK
    BY DEF IInv
  <2>1. ASSUME NEW c \in Call, CallStep(c)
        PROVE  Ledger!Next \/ UNCHANGED Ledger!vars
    <3>1. CASE QuietStep(c) \/ UseReplay(c)
      <4>1. UNCHANGED <<grant, use_count, revoked, released, sends, answer>>
        BY <2>0, <3>1, QuietFrame DEF UseReplay
      <4>2. QED
        BY <4>1, LedgerStutter
    <3>2. QED
      BY <2>1, <3>1, CallStepCases, LedgerSpend, LedgerOut
  <2>2. CASE \E g \in Grant : Mint(g)
    BY <2>0, <2>2, LedgerOpen
  <2>3. CASE DeleteSecret \/ \E g \in Grant : Revoke(g)
    BY <2>0, <2>3, LedgerKill
  <2>4. CASE SweepPassthroughs \/ UnpinStaleReads \/ StoreVersion \/ Restart \/ Tick
             \/ UNCHANGED vars
    <3>1. UNCHANGED <<grant, use_count, revoked, released, sends, answer>>
      BY <2>4 DEF SweepPassthroughs, UnpinStaleReads, StoreVersion, Restart, Tick, vars
    <3>2. QED
      BY <3>1, LedgerStutter
  <2>5. QED
    BY <2>1, <2>2, <2>3, <2>4 DEF Next, OtherStep
<1>3. QED
  BY <1>1, <1>2, Invariance, PTL DEF Spec, ImplementsLedger, Ledger!Spec
=============================================================================
