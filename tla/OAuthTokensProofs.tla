-------------------------- MODULE OAuthTokensProofs --------------------------
(* Theorems about OAuthTokens, for any processes, callers and bounds.        *)
EXTENDS OAuthTokens, SequenceTheorems, TLAPS

LEMMA TokenTypes ==
  /\ NoTokens \in Tokens
  /\ \A t \in Tokens : t.acc \in 0..MaxGrant /\ t.ref \in 0..MaxGrant
  /\ \A t \in Tokens : t # NoTokens => t.acc # 0 /\ t.ref # 0
  /\ \A a, b \in Grants : [acc |-> a, ref |-> b] \in Tokens
  BY ConstantsOK DEF Tokens, NoTokens, Grants

LEMMA EntryTypes ==
  ASSUME NEW t \in Tokens
  PROVE  FreshEntry(t) \in Entry /\ NoEntry \in Entry
  BY TokenTypes DEF FreshEntry, Entry, NoEntry

LEMMA CheckTypes ==
  /\ Superseded \in Check /\ Running \in Check
  /\ \A t \in Tokens : [stage |-> "read", tok |-> t] \in Check
  BY TokenTypes DEF Check, Superseded, Running

LEMMA GetTypes ==
  ASSUME TypeOK, NEW p \in Proc, NEW rej, Get(p, rej)
  PROVE  cache' \in [Proc -> Entry] /\ check' \in [Proc -> Check]
  BY TokenTypes, EntryTypes, CheckTypes DEF Get, TypeOK, caches

LEMMA StoreTypes ==
  ASSUME TypeOK, NEW p \in Proc, NEW t \in Tokens, Store(p, t)
  PROVE  cache' \in [Proc -> Entry] /\ check' \in [Proc -> Check]
  BY EntryTypes, CheckTypes DEF Store, TypeOK

\* The variables of the callers.
CallersOK ==
  /\ pc \in [Req -> PCs]
  /\ result \in [Req -> 0..MaxGrant]
  /\ seen \in [Req -> Tokens]
  /\ fresh \in [Owner -> Tokens]

LEMMA EndsTypes ==
  ASSUME TypeOK, NEW r \in Req, NEW token \in 0..MaxGrant, Ends(r, token)
  PROVE  CallersOK'
  BY TokenTypes DEF Ends, TypeOK, CallersOK, Drop, PCs

LEMMA ContinuesTypes ==
  ASSUME TypeOK, NEW r \in Req, NEW label \in PCs, Continues(r, label)
  PROVE  CallersOK'
  BY DEF Continues, GoesTo, TypeOK, CallersOK

\* The caller at work behind the gate is the first of the gate's queue.
GateInv ==
  \A r \in Req : pc[r] \in AtGate => gateq[Home[r]] # <<>> /\ Head(gateq[Home[r]]) = r

LEMMA LeaveGateStep ==
  ASSUME TypeOK, GateInv, NEW r \in Req, gateq[Home[r]] # <<>>, Head(gateq[Home[r]]) = r,
         NEW token, Ends(r, token), LeaveGate(r)
  PROVE  gateq' \in [Proc -> Seq(Req)] /\ GateInv'
  <1>1. Home[r] \in Proc
    BY ConstantsOK
  <1>2. Tail(gateq[Home[r]]) \in Seq(Req)
    BY <1>1, HeadTailProperties DEF TypeOK
  <1>3. gateq' \in [Proc -> Seq(Req)]
    BY <1>1, <1>2 DEF LeaveGate, TypeOK
  <1>4. GateInv'
    BY ConstantsOK DEF GateInv, Ends, LeaveGate, TypeOK, AtGate
  <1>5. QED
    BY <1>3, <1>4

LEMMA ContinueAtGate ==
  ASSUME TypeOK, GateInv, NEW r \in Req, pc[r] \in AtGate, NEW label, GoesTo(r, label),
         UNCHANGED gateq
  PROVE  GateInv'
  BY DEF GateInv, GoesTo, TypeOK, AtGate

------------------------------------------------------------------------------
\* Types. The tail of a queue is a queue only if the queue has a head, and a
\* grant pairs a token only with a refresh token that is one, so the type
\* invariant is inductive only together with GateInv and HoldsInv.
HoldsInv == \A r \in Req : pc[r] \in Exchanging => seen[r] # NoTokens
TypeInv  == TypeOK /\ GateInv /\ HoldsInv

LEMMA TypeInit == Init => TypeInv
  BY ConstantsOK, TokenTypes, EntryTypes, CheckTypes, EmptySeq
  DEF Init, TypeInv, TypeOK, GateInv, HoldsInv, Grants, PCs, AtGate, Exchanging, NoTokens, Tokens

LEMMA TaskHolds ==
  ASSUME TypeInv, NEW r \in Req, Task(r)
  PROVE  HoldsInv'
  <1> USE DEF TypeInv, TypeOK, HoldsInv, Exchanging
  <1>1. CASE EnterGate(r)
    BY <1>1 DEF EnterGate, Ends, Continues, GoesTo, Drop
  <1>2. CASE Read(r)
    BY <1>2 DEF Read, GoesTo
  <1>3. CASE AfterLoad(r)
    BY <1>3 DEF AfterLoad, Ends, Continues, GoesTo, Drop
  <1>4. CASE TakeLock(r)
    BY <1>4 DEF TakeLock, Ends, Continues, GoesTo, Drop
  <1>5. CASE AfterReload(r)
    BY <1>5 DEF AfterReload, Ends, Continues, GoesTo, Drop
  <1>6. CASE \E rotates \in BOOLEAN : Grant(r, rotates)
    BY <1>6 DEF Grant, GoesTo
  <1>7. CASE Answer(r) \/ Save(r)
    BY <1>7 DEF Answer, Save, Continues, GoesTo
  <1>8. CASE ExchangeFails(r) \/ SaveFails(r) \/ Publish(r)
    BY <1>8 DEF ExchangeFails, SaveFails, Publish, Ends, Drop
  <1> QED
    BY <1>1, <1>2, <1>3, <1>4, <1>5, <1>6, <1>7, <1>8 DEF Task

LEMMA TaskTypes ==
  ASSUME TypeInv, NEW r \in Req, Task(r)
  PROVE  TypeInv'
  <1>i. HoldsInv'
    BY TaskHolds
  <1> USE <1>i DEF TypeInv, provider, caches
  <1>h. Home[r] \in Proc
    BY ConstantsOK
  <1>s. /\ seen[r] \in Tokens /\ fresh[r] \in Tokens
        /\ seen[r].acc \in 0..MaxGrant /\ fresh[r].acc \in 0..MaxGrant
        /\ 0 \in 0..MaxGrant
    BY TokenTypes, ConstantsOK DEF TypeOK, Owner
  <1>p. pc[r] \in AtGate => gateq[Home[r]] # <<>> /\ Head(gateq[Home[r]]) = r
    BY DEF GateInv
  <1>1. CASE EnterGate(r)
    <2>1. cache' \in [Proc -> Entry] /\ check' \in [Proc -> Check]
      BY <1>1, <1>h, GetTypes DEF EnterGate
    <2>2. gateq[Home[r]] # <<>> /\ Head(gateq[Home[r]]) = r
      BY <1>1 DEF EnterGate
    <2>3. CASE Ends(r, HitToken(Home[r])) /\ LeaveGate(r)
      <3>1. HitToken(Home[r]) \in 0..MaxGrant
        BY <1>h, TokenTypes DEF HitToken, TypeOK, Entry
      <3>2. CallersOK' /\ gateq' \in [Proc -> Seq(Req)] /\ GateInv'
        BY <2>2, <2>3, <3>1, EndsTypes, LeaveGateStep
      <3> QED
        BY <1>1, <2>1, <3>2 DEF EnterGate, TypeOK, CallersOK
    <2>4. CASE Continues(r, "load") /\ UNCHANGED gateq
      <3>1. CallersOK'
        BY <2>4, ContinuesTypes DEF PCs, AtGate
      <3>2. GateInv'
        BY <2>2, <2>4 DEF Continues, GoesTo, GateInv, TypeOK
      <3> QED
        BY <1>1, <2>1, <2>4, <3>1, <3>2 DEF EnterGate, TypeOK, CallersOK
    <2> QED
      BY <1>1, <2>3, <2>4 DEF EnterGate
  <1>2. CASE Read(r)
    <2>1. GateInv'
      BY <1>2, ContinueAtGate DEF Read, AtGate
    <2> QED
      BY <1>2, <2>1 DEF Read, GoesTo, TypeOK, PCs, AtGate
  <1>3. CASE AfterLoad(r)
    <2>1. CASE Store(Home[r], seen[r]) /\ Ends(r, seen[r].acc) /\ LeaveGate(r)
      <3>1. CallersOK' /\ gateq' \in [Proc -> Seq(Req)] /\ GateInv'
        BY <1>3, <1>s, <1>p, <2>1, EndsTypes, LeaveGateStep DEF AfterLoad, AtGate
      <3>2. cache' \in [Proc -> Entry] /\ check' \in [Proc -> Check]
        BY <1>h, <1>s, <2>1, StoreTypes
      <3> QED
        BY <1>3, <3>1, <3>2 DEF AfterLoad, TypeOK, CallersOK
    <2>2. CASE Continues(r, "flock") /\ UNCHANGED <<caches, gateq>>
      <3>1. CallersOK' /\ GateInv'
        BY <1>3, <2>2, ContinuesTypes, ContinueAtGate DEF AfterLoad, Continues, PCs, AtGate
      <3> QED
        BY <1>3, <2>2, <3>1 DEF AfterLoad, TypeOK, CallersOK
    <2> QED
      BY <1>3, <2>1, <2>2 DEF AfterLoad
  <1>4. CASE TakeLock(r)
    <2>1. CASE flock = NoOne /\ flock' = r /\ Continues(r, "reload") /\ UNCHANGED gateq
      <3>1. CallersOK' /\ GateInv'
        BY <1>4, <2>1, ContinuesTypes, ContinueAtGate DEF TakeLock, Continues, PCs, AtGate
      <3> QED
        BY <1>4, <2>1, <3>1 DEF TakeLock, TypeOK, CallersOK, Owner
    <2>2. CASE Ends(r, 0) /\ LeaveGate(r) /\ UNCHANGED flock
      <3>1. CallersOK' /\ gateq' \in [Proc -> Seq(Req)] /\ GateInv'
        BY <1>4, <1>s, <1>p, <2>2, EndsTypes, LeaveGateStep DEF TakeLock, AtGate
      <3> QED
        BY <1>4, <2>2, <3>1 DEF TakeLock, TypeOK, CallersOK
    <2> QED
      BY <1>4, <2>1, <2>2 DEF TakeLock
  <1>5. CASE AfterReload(r)
    <2>1. CASE Store(Home[r], seen[r]) /\ Ends(r, seen[r].acc) /\ LeaveGate(r) /\ flock' = NoOne
      <3>1. CallersOK' /\ gateq' \in [Proc -> Seq(Req)] /\ GateInv'
        BY <1>5, <1>s, <1>p, <2>1, EndsTypes, LeaveGateStep DEF AfterReload, AtGate
      <3>2. cache' \in [Proc -> Entry] /\ check' \in [Proc -> Check]
        BY <1>h, <1>s, <2>1, StoreTypes
      <3> QED
        BY <1>5, <2>1, <3>1, <3>2 DEF AfterReload, TypeOK, CallersOK
    <2>2. CASE Ends(r, 0) /\ LeaveGate(r) /\ flock' = NoOne /\ UNCHANGED caches
      <3>1. CallersOK' /\ gateq' \in [Proc -> Seq(Req)] /\ GateInv'
        BY <1>5, <1>s, <1>p, <2>2, EndsTypes, LeaveGateStep DEF AfterReload, AtGate
      <3> QED
        BY <1>5, <2>2, <3>1 DEF AfterReload, TypeOK, CallersOK
    <2>3. CASE Continues(r, "sent") /\ UNCHANGED <<gateq, flock, caches>>
      <3>1. CallersOK' /\ GateInv'
        BY <1>5, <2>3, ContinuesTypes, ContinueAtGate DEF AfterReload, Continues, PCs, AtGate
      <3> QED
        BY <1>5, <2>3, <3>1 DEF AfterReload, TypeOK, CallersOK
    <2> QED
      BY <1>5, <2>1, <2>2, <2>3 DEF AfterReload
  <1>6. CASE \E rotates \in BOOLEAN : Grant(r, rotates)
    <2>1. PICK rotates \in BOOLEAN : Grant(r, rotates)
      BY <1>6
    <2>2. GateInv'
      BY <2>1, ContinueAtGate DEF Grant, AtGate
    <2>3. seen[r].ref \in Grants
      BY <2>1 DEF TypeOK, Tokens, HoldsInv, Grant, Exchanging
    <2>4. granted + 1 \in Grants
      BY <2>1, ConstantsOK DEF Grant, TypeOK, Grants
    <2>5. fresh' \in [Owner -> Tokens]
      BY <2>1, <2>3, <2>4, TokenTypes DEF Grant, TypeOK
    <2>6. granted' \in 0..MaxGrant
      BY <2>1, <2>4, ConstantsOK DEF Grant, Grants
    <2>6a. spent' \subseteq Grants
      BY <2>1, <2>3 DEF Grant, TypeOK
    <2>6b. pc' \in [Req -> PCs] /\ result' \in [Req -> 0..MaxGrant]
      BY <2>1 DEF Grant, GoesTo, TypeOK, PCs, AtGate
    <2>7. UNCHANGED <<disk, flock, gateq, cooling, cache, check, rejected, seen, login, lost,
                      expired, published>>
      BY <2>1 DEF Grant
    <2> QED
      BY <2>2, <2>5, <2>6, <2>6a, <2>6b, <2>7 DEF TypeOK
  <1>7. CASE Answer(r)
    <2>1. CallersOK' /\ GateInv'
      BY <1>7, ContinuesTypes, ContinueAtGate DEF Answer, Continues, PCs, AtGate
    <2> QED
      BY <1>7, <2>1 DEF Answer, TypeOK, CallersOK
  <1>8. CASE ExchangeFails(r)
    <2>1. CallersOK' /\ gateq' \in [Proc -> Seq(Req)] /\ GateInv'
      BY <1>8, <1>s, <1>p, EndsTypes, LeaveGateStep DEF ExchangeFails, AtGate
    <2> QED
      BY <1>8, <2>1 DEF ExchangeFails, LostBy, TypeOK, CallersOK
  <1>9. CASE Save(r)
    <2>1. CallersOK' /\ GateInv'
      BY <1>9, ContinuesTypes, ContinueAtGate DEF Save, Continues, PCs, AtGate
    <2> QED
      BY <1>9, <1>s, <2>1 DEF Save, TypeOK, CallersOK
  <1>10. CASE SaveFails(r)
    <2>1. CallersOK' /\ gateq' \in [Proc -> Seq(Req)] /\ GateInv'
      BY <1>10, <1>s, <1>p, EndsTypes, LeaveGateStep DEF SaveFails, AtGate
    <2> QED
      BY <1>10, <1>s, <2>1 DEF SaveFails, LostBy, TypeOK, CallersOK
  <1>11. CASE Publish(r)
    <2>1. CallersOK' /\ gateq' \in [Proc -> Seq(Req)] /\ GateInv'
      BY <1>11, <1>s, <1>p, EndsTypes, LeaveGateStep DEF Publish, AtGate
    <2>2. cache' \in [Proc -> Entry] /\ check' \in [Proc -> Check]
      BY <1>11, <1>h, <1>s, StoreTypes DEF Publish
    <2> QED
      BY <1>11, <1>h, <1>s, <2>1, <2>2 DEF Publish, TypeOK, CallersOK
  <1> QED
    BY <1>1, <1>2, <1>3, <1>4, <1>5, <1>6, <1>7, <1>8, <1>9, <1>10, <1>11 DEF Task

\* A caller's own steps outside the task, and the steps of everybody else.
Others ==
  \/ \E r \in Req : Finish(r) \/ \E rej \in 0..MaxGrant : Call(r, rej)
  \/ \E p \in Proc : ReadCheck(p) \/ ApplyCheck(p) \/ AgeEntry(p) \/ Cooled(p) \/ Crash(p)
  \/ \E g \in Expiring : Expire(g)
  \/ LoginLock \/ LoginGrant \/ LoginSave \/ LoginFails \/ Remove

LEMMA NextIsTaskOrOthers == Next <=> Others \/ \E r \in Req : Task(r)
  BY DEF Next, Others

LEMMA CallTypes ==
  ASSUME TypeInv, NEW r \in Req, NEW rej \in 0..MaxGrant, Call(r, rej)
  PROVE  TypeInv'
  <1> USE DEF TypeInv
  <1>1. Home[r] \in Proc
    BY ConstantsOK
  <1>2. cache' \in [Proc -> Entry] /\ check' \in [Proc -> Check]
    BY <1>1, GetTypes DEF Call, Unauthorized
  <1>3. CASE Ends(r, HitToken(Home[r])) /\ UNCHANGED gateq
    <2>1. HitToken(Home[r]) \in 0..MaxGrant
      BY <1>1, TokenTypes DEF HitToken, TypeOK, Entry
    <2>2. CallersOK'
      BY <1>3, <2>1, EndsTypes
    <2>3. GateInv' /\ HoldsInv'
      BY <1>3 DEF GateInv, HoldsInv, Ends, Drop, TypeOK, AtGate, Exchanging
    <2> QED
      BY <1>2, <1>3, <2>2, <2>3 DEF Call, Unauthorized, provider, TypeOK, CallersOK
  <1>4. CASE /\ pc' = [pc EXCEPT ![r] = "gate"]
             /\ result' = [result EXCEPT ![r] = 0]
             /\ gateq' = [gateq EXCEPT ![Home[r]] = Append(@, r)]
             /\ UNCHANGED <<seen, fresh>>
    <2>1. gateq' \in [Proc -> Seq(Req)]
      BY <1>1, <1>4, AppendProperties DEF TypeOK
    <2>2. ASSUME NEW q \in Req, pc'[q] \in AtGate
          PROVE  gateq'[Home[q]] # <<>> /\ Head(gateq'[Home[q]]) = q
      <3>1. pc[q] \in AtGate /\ Home[q] \in Proc
        BY <1>4, <2>2, ConstantsOK DEF TypeOK, AtGate
      <3>2. gateq[Home[q]] # <<>> /\ Head(gateq[Home[q]]) = q /\ gateq[Home[q]] \in Seq(Req)
        BY <3>1 DEF GateInv, TypeOK
      <3>3. /\ Append(gateq[Home[q]], r) # <<>>
            /\ Head(Append(gateq[Home[q]], r)) = q
        BY <3>2, AppendProperties, HeadTailAppend
      <3> QED
        BY <1>4, <3>1, <3>2, <3>3 DEF TypeOK
    <2>3. GateInv' /\ HoldsInv'
      BY <1>4, <2>2 DEF GateInv, HoldsInv, TypeOK, Exchanging
    <2> QED
      BY <1>2, <1>4, <2>1, <2>3, ConstantsOK DEF Call, Unauthorized, provider, TypeOK, PCs
  <1> QED
    BY <1>3, <1>4 DEF Call, Unauthorized

LEMMA OthersTypes ==
  ASSUME TypeInv, Others
  PROVE  TypeInv'
  <1> USE DEF TypeInv, provider, caches
  <1>1. CASE \E r \in Req : Finish(r)
    BY <1>1, ConstantsOK DEF Finish, TypeOK, GateInv, HoldsInv, PCs, AtGate, Exchanging
  <1>2. CASE \E r \in Req, rej \in 0..MaxGrant : Call(r, rej)
    BY <1>2, CallTypes
  <1>3. CASE \E p \in Proc : ReadCheck(p)
    BY <1>3, CheckTypes DEF ReadCheck, TypeOK, GateInv, HoldsInv
  <1>4. CASE \E p \in Proc : ApplyCheck(p)
    <2>1. PICK p \in Proc : ApplyCheck(p)
      BY <1>4
    <2>2. check[p].tok \in Tokens
      BY DEF TypeOK, Check
    <2> QED
      BY <2>1, <2>2, CheckTypes, EntryTypes DEF ApplyCheck, TypeOK, GateInv, HoldsInv
  <1>5. CASE \E p \in Proc : AgeEntry(p)
    <2>1. PICK p \in Proc : AgeEntry(p)
      BY <1>5
    <2>2. cache[p] \in Entry
      BY DEF TypeOK
    <2>3. \A age \in {"aging", "old"} : [cache[p] EXCEPT !.age = age] \in Entry
      BY <2>2 DEF Entry
    <2>4. cache' \in [Proc -> Entry]
      BY <2>1, <2>3 DEF AgeEntry, TypeOK
    <2> QED
      BY <2>1, <2>4 DEF AgeEntry, TypeOK, GateInv, HoldsInv
  <1>6. CASE \E p \in Proc : Cooled(p)
    BY <1>6 DEF Cooled, TypeOK, GateInv, HoldsInv
  <1>7. CASE \E p \in Proc : Crash(p)
    <2>1. PICK p \in Proc : Crash(p)
      BY <1>7
    <2>2. \A r \in Req : LostBy(r) \subseteq Grants
      BY DEF LostBy, TypeOK
    <2>3. lost' \subseteq Grants
      BY <2>1, <2>2 DEF Crash, TypeOK
    <2>4. /\ cache' \in [Proc -> Entry] /\ check' \in [Proc -> Check]
          /\ gateq' \in [Proc -> Seq(Req)]
      BY <2>1, CheckTypes, EntryTypes, TokenTypes, EmptySeq DEF Crash, TypeOK
    <2>5. CallersOK'
      BY <2>1, TokenTypes, ConstantsOK DEF Crash, TypeOK, CallersOK, PCs
    <2>6. GateInv' /\ HoldsInv'
      BY <2>1, ConstantsOK DEF Crash, TypeOK, GateInv, HoldsInv, AtGate, Exchanging
    <2> QED
      BY <2>1, <2>3, <2>4, <2>5, <2>6, ConstantsOK DEF Crash, TypeOK, CallersOK
  <1>8. CASE \E g \in Expiring : Expire(g)
    BY <1>8, ConstantsOK DEF Expire, TypeOK, GateInv, HoldsInv, Grants
  <1>9. CASE LoginLock \/ LoginFails \/ LoginSave
    BY <1>9, TokenTypes DEF LoginLock, LoginFails, LoginSave, Drop, TypeOK, GateInv, HoldsInv, Owner
  <1>10. CASE LoginGrant
    <2>1. PICK g \in Grants :
            /\ granted' = IF g > granted THEN g ELSE granted
            /\ fresh' = [fresh EXCEPT ![Login] = [acc |-> g, ref |-> g]]
            /\ spent' \in {spent, spent \cup {g}}
      <3>1. CASE CodeBuysGrant
        <4>1. granted + 1 \in Grants /\ granted + 1 > granted
          BY <3>1, ConstantsOK DEF CodeBuysGrant, TypeOK, Grants
        <4> QED
          BY <3>1, <4>1 DEF CodeBuysGrant
      <3>2. CASE CodexImports
        BY <3>2 DEF CodexImports
      <3> QED
        BY <1>10, <3>1, <3>2 DEF LoginGrant
    <2>2. fresh' \in [Owner -> Tokens]
      BY <2>1, TokenTypes DEF TypeOK
    <2>3. login' = "ready" \/ login' = "granted"
      BY <1>10
      DEF LoginGrant, CodeBuysGrant, CodexImports, ClaudeSignsIn, CodexSignsIn
    <2>4. granted' \in 0..MaxGrant /\ spent' \subseteq Grants
      BY <2>1, ConstantsOK DEF TypeOK, Grants
    <2> QED
      BY <1>10, <2>1, <2>2, <2>3, <2>4 DEF LoginGrant, TypeOK, GateInv, HoldsInv
  <1>11. CASE Remove
    BY <1>11, TokenTypes DEF Remove, TypeOK, GateInv, HoldsInv
  <1> QED
    BY <1>1, <1>2, <1>3, <1>4, <1>5, <1>6, <1>7, <1>8, <1>9, <1>10, <1>11 DEF Others

LEMMA TypeStep == TypeInv /\ [Next]_vars => TypeInv'
  <1>1. TypeInv /\ Next => TypeInv'
    BY NextIsTaskOrOthers, TaskTypes, OthersTypes
  <1>2. TypeInv /\ UNCHANGED vars => TypeInv'
    BY DEF TypeInv, TypeOK, GateInv, HoldsInv, vars, caches, provider
  <1> QED
    BY <1>1, <1>2

LEMMA TypeInvariant == Spec => []TypeInv
  BY TypeInit, TypeStep, PTL DEF Spec

\* In every behaviour the variables have their types: in particular every pair
\* of tokens in the file, in a cache or on its way is complete or absent.
THEOREM TypeCorrect == Spec => []TypeOK
  <1>1. TypeInv => TypeOK
    BY DEF TypeInv
  <1> QED
    BY <1>1, TypeInvariant, PTL

------------------------------------------------------------------------------
\* The lock file.

\* The lock file's holder is the one caller, or the login, in its locked section.
LockInv ==
  /\ \A r \in Req : pc[r] \in AtLock <=> flock = r
  /\ login \in {"locked", "ready"} <=> flock = Login

LEMMA LockStep == TypeInv /\ LockInv /\ [Next]_vars => LockInv'
  <1> SUFFICES ASSUME TypeInv, LockInv, [Next]_vars
               PROVE  LockInv'
    OBVIOUS
  <1> USE ConstantsOK DEF TypeInv, TypeOK, LockInv, AtLock
  <1>1. ASSUME NEW r \in Req, Task(r)
        PROVE  LockInv'
    <2>1. CASE EnterGate(r)
      BY <2>1 DEF EnterGate, Ends, Continues, GoesTo
    <2>2. CASE Read(r) \/ Answer(r) \/ Save(r)
      BY <2>2 DEF Read, Answer, Save, Continues, GoesTo
    <2>3. CASE AfterLoad(r)
      BY <2>3 DEF AfterLoad, Ends, Continues, GoesTo
    <2>4. CASE TakeLock(r)
      BY <2>4 DEF TakeLock, Ends, Continues, GoesTo
    <2>5. CASE AfterReload(r)
      BY ZenonT(40), <2>5 DEF AfterReload, Ends, Continues, GoesTo
    <2>6. CASE \E rotates \in BOOLEAN : Grant(r, rotates)
      BY <2>6 DEF Grant, GoesTo
    <2>7. CASE ExchangeFails(r)
      BY <2>7 DEF ExchangeFails, Ends
    <2>8. CASE SaveFails(r)
      BY <2>8 DEF SaveFails, Ends
    <2>9. CASE Publish(r)
      BY <2>9 DEF Publish, Ends
    <2> QED
      BY <1>1, <2>1, <2>2, <2>3, <2>4, <2>5, <2>6, <2>7, <2>8, <2>9 DEF Task
  <1>2. ASSUME NEW r \in Req, Finish(r) \/ \E rej \in 0..MaxGrant : Call(r, rej)
        PROVE  LockInv'
    BY <1>2 DEF Finish, Call, Unauthorized, Ends
  <1>3. ASSUME NEW p \in Proc, Crash(p)
        PROVE  LockInv'
    BY <1>3 DEF Crash
  <1>4. ASSUME NEW p \in Proc, ReadCheck(p) \/ ApplyCheck(p) \/ AgeEntry(p) \/ Cooled(p)
        PROVE  LockInv'
    BY <1>4 DEF ReadCheck, ApplyCheck, AgeEntry, Cooled
  <1>5. CASE (\E g \in Expiring : Expire(g)) \/ Remove
    BY <1>5 DEF Expire, Remove
  <1>6. CASE LoginLock \/ LoginGrant \/ LoginSave \/ LoginFails
    BY <1>6 DEF LoginLock, LoginGrant, CodeBuysGrant, CodexImports, ClaudeSignsIn, CodexSignsIn,
               LoginSave, LoginFails
  <1>7. CASE UNCHANGED vars
    BY <1>7 DEF vars
  <1> QED
    BY <1>1, <1>2, <1>3, <1>4, <1>5, <1>6, <1>7 DEF Next

LEMMA LockInvariant == Spec => [](TypeInv /\ LockInv)
  <1>1. Init => LockInv
    BY ConstantsOK DEF Init, LockInv, AtLock
  <1> QED
    BY <1>1, LockStep, TypeInvariant, PTL DEF Spec

\* At most one caller or login is between taking the lock file and releasing it:
\* never two refreshes under way, in one process or in several.
THEOREM RefreshesExclude == Spec => []OneRefreshAtATime
  <1>1. TypeInv /\ LockInv => OneRefreshAtATime
    BY ConstantsOK DEF LockInv, OneRefreshAtATime, Owner
  <1> QED
    BY <1>1, LockInvariant, PTL

------------------------------------------------------------------------------
\* Refresh tokens.

\* The provider's numbers are new, so no token in use is ahead of them.
BoundInv ==
  /\ disk.ref <= granted
  /\ \A r \in Req : seen[r].ref <= granted
  /\ \A o \in Owner : fresh[o].ref <= granted
  /\ \A g \in spent : g # 0 /\ g <= granted

\* A spent refresh token is in the file only while its successor is on the way.
FileInv ==
  disk.ref \in spent \ lost =>
    \E r \in Req : pc[r] \in {"granted", "save"} /\ seen[r].ref = disk.ref

\* What is about to be presented, or to be saved, is not spent.
HandInv ==
  \A r \in Req : /\ pc[r] \in {"reloaded", "sent"} => seen[r].ref \notin spent \ lost
                 /\ pc[r] \in {"granted", "save"} => fresh[r].ref \notin spent

\* What a login is about to save is unknown to anybody else.
LoginInv ==
  login \in {"granted", "ready"} =>
    LET ref == fresh[Login].ref IN
    /\ ref \notin spent /\ ref # disk.ref /\ ref # 0
    /\ \A r \in Req : ref # seen[r].ref /\ ref # fresh[r].ref

RefreshInv == BoundInv /\ FileInv /\ HandInv /\ LoginInv

LEMMA EndKeeps ==
  ASSUME TypeInv, LockInv, RefreshInv, NEW r \in Req, NEW token, Ends(r, token),
         UNCHANGED <<disk, login, granted, spent>>,
         lost' = lost \cup LostBy(r)
  PROVE  RefreshInv'
  <1> USE DEF TypeInv, TypeOK, RefreshInv, Ends, Drop, NoTokens
  <1>1. BoundInv'
    BY DEF BoundInv, Owner
  <1>2. FileInv'
    BY DEF FileInv, LostBy
  <1>3. HandInv'
    BY DEF HandInv, Owner
  <1>4. LoginInv'
    BY ConstantsOK DEF LoginInv, Owner
  <1> QED
    BY <1>1, <1>2, <1>3, <1>4

LEMMA ContinueKeeps ==
  ASSUME TypeInv, RefreshInv, NEW r \in Req, NEW label, Continues(r, label),
         label \notin {"granted", "reloaded"}, label = "sent" => pc[r] = "reloaded",
         label = "save" => pc[r] = "granted", pc[r] \notin {"save"},
         pc[r] = "granted" => label = "save",
         UNCHANGED <<disk, login, granted, spent, lost>>
  PROVE  RefreshInv'
  BY DEF TypeInv, TypeOK, RefreshInv, Continues, GoesTo, BoundInv, FileInv, HandInv, LoginInv

LEMMA GrantKeeps ==
  ASSUME TypeInv, LockInv, RefreshInv, NEW r \in Req, NEW rotates \in BOOLEAN, Grant(r, rotates)
  PROVE  RefreshInv'
  <1>1. \A q \in Req \ {r} : pc[q] \notin AtLock
    BY ConstantsOK DEF TypeInv, TypeOK, Grant, LockInv, AtLock
  <1>2. /\ granted \in Nat /\ granted' = granted + 1
        /\ seen[r].ref # 0 /\ seen' = seen /\ disk' = disk /\ login' = login /\ lost' = lost
    BY TokenTypes, ConstantsOK DEF TypeInv, TypeOK, HoldsInv, Exchanging, Grant
  <1>3. /\ disk.ref \in Nat
        /\ \A q \in Req : seen[q].ref \in Nat
        /\ \A o \in Owner : fresh[o].ref \in Nat
        /\ \A g \in spent : g \in Nat
    BY TokenTypes, ConstantsOK DEF TypeInv, TypeOK, Grants
  <1>4. /\ r \in Owner /\ Login \in Owner /\ Login # r
        /\ \A o \in Owner \ {r} : fresh'[o] = fresh[o]
        /\ \/ fresh'[r].ref = granted + 1 /\ spent' = spent \cup {seen[r].ref}
           \/ fresh'[r].ref = seen[r].ref /\ seen[r].ref \notin spent /\ spent' = spent
    BY ConstantsOK DEF TypeInv, TypeOK, Grant, Owner
  <1>5. pc[r] = "sent" /\ pc' = [pc EXCEPT ![r] = "granted"] /\ pc \in [Req -> PCs]
    BY DEF TypeInv, TypeOK, Grant, GoesTo
  <1>6. BoundInv'
    <2>1. BoundInv
      BY DEF RefreshInv
    <2>2. \A o \in Owner : fresh'[o].ref <= granted + 1
      BY <1>2, <1>3, <1>4, <2>1 DEF BoundInv
    <2> QED
      BY <1>2, <1>3, <1>4, <2>1, <2>2 DEF BoundInv
  <1>7. FileInv'
    BY <1>1, <1>2, <1>4, <1>5 DEF RefreshInv, FileInv, AtLock
  <1>8. HandInv'
    BY <1>1, <1>2, <1>3, <1>4, <1>5 DEF RefreshInv, HandInv, BoundInv, AtLock
  <1>9. LoginInv'
    <2>1. \A q \in Req : q \in Owner
      BY DEF Owner
    <2>2. SUFFICES ASSUME login \in {"granted", "ready"}
                   PROVE  /\ fresh[Login].ref \notin spent'
                          /\ \A q \in Req : fresh[Login].ref # fresh'[q].ref
      BY <1>2, <1>4 DEF RefreshInv, LoginInv
    <2>3. fresh[Login].ref # granted + 1
      BY <1>2, <1>3, <1>4 DEF RefreshInv, BoundInv
    <2> QED
      BY <1>2, <1>4, <2>1, <2>2, <2>3 DEF RefreshInv, LoginInv
  <1> QED
    BY <1>6, <1>7, <1>8, <1>9 DEF RefreshInv

\* Another caller cannot have a grant on its way while r holds the lock.
LEMMA FileClean ==
  ASSUME TypeInv, LockInv, RefreshInv, NEW r \in Req, pc[r] \in AtLock,
         pc[r] \notin {"granted", "save"}
  PROVE  disk.ref \notin spent \ lost
  BY DEF LockInv, RefreshInv, FileInv, AtLock

LEMMA ReadKeeps ==
  ASSUME TypeInv, LockInv, RefreshInv, NEW r \in Req, Read(r)
  PROVE  RefreshInv'
  <1> USE DEF TypeInv, TypeOK, RefreshInv, Read, GoesTo, provider
  <1>1. BoundInv' /\ LoginInv' /\ FileInv'
    BY DEF BoundInv, LoginInv, FileInv
  <1>2. pc[r] = "reload" => disk.ref \notin spent \ lost
    BY FileClean DEF AtLock
  <1>3. HandInv'
    BY <1>2 DEF HandInv
  <1> QED
    BY <1>1, <1>3

\* r writes its grant into the file and lets go of it.
LEMMA WriteKeeps ==
  ASSUME TypeInv, LockInv, RefreshInv, NEW r \in Req, pc[r] = "save", disk' = fresh[r],
         Continues(r, "publish") \/ Ends(r, 0),
         UNCHANGED <<login, granted, spent, lost>>
  PROVE  RefreshInv'
  <1>1. /\ \A q \in Req \ {r} : pc[q] \notin AtLock
        /\ login # "ready"
    BY ConstantsOK DEF TypeInv, TypeOK, LockInv, AtLock
  <1>2. /\ pc'[r] \in {"publish", "done"}
        /\ \A q \in Req \ {r} : pc'[q] = pc[q] /\ seen'[q] = seen[q] /\ fresh'[q] = fresh[q]
        /\ fresh'[Login] = fresh[Login]
        /\ seen'[r] \in {seen[r], NoTokens} /\ fresh'[r] \in {fresh[r], NoTokens}
    BY ConstantsOK DEF TypeInv, TypeOK, Ends, Continues, GoesTo, Drop, Owner
  <1>3. \A q \in Req : q \in Owner
    BY DEF Owner
  <1>4. granted \in Nat /\ NoTokens.ref = 0
    BY ConstantsOK DEF TypeInv, TypeOK, NoTokens
  <1>5. BoundInv'
    BY <1>2, <1>3, <1>4 DEF RefreshInv, BoundInv, Owner
  <1>6. fresh[r].ref \notin spent
    BY DEF RefreshInv, HandInv
  <1>7. FileInv'
    BY <1>6 DEF FileInv
  <1>8. HandInv'
    BY <1>1, <1>2 DEF RefreshInv, HandInv, AtLock
  <1>9. LoginInv'
    BY <1>1, <1>2, <1>4 DEF RefreshInv, LoginInv
  <1> QED
    BY <1>5, <1>7, <1>8, <1>9 DEF RefreshInv

LEMMA TaskKeeps ==
  ASSUME TypeInv, LockInv, RefreshInv, NEW r \in Req, Task(r)
  PROVE  RefreshInv'
  <1> USE DEF provider
  <1>1. CASE EnterGate(r)
    BY <1>1, EndKeeps, ContinueKeeps DEF EnterGate, LostBy
  <1>2. CASE Read(r)
    BY <1>2, ReadKeeps
  <1>3. CASE AfterLoad(r)
    BY <1>3, EndKeeps, ContinueKeeps DEF AfterLoad, LostBy
  <1>4. CASE TakeLock(r)
    BY <1>4, EndKeeps, ContinueKeeps DEF TakeLock, LostBy
  <1>5. CASE AfterReload(r)
    BY <1>5, EndKeeps, ContinueKeeps DEF AfterReload, LostBy
  <1>6. CASE \E rotates \in BOOLEAN : Grant(r, rotates)
    BY <1>6, GrantKeeps
  <1>7. CASE Answer(r)
    BY <1>7, ContinueKeeps DEF Answer
  <1>8. CASE ExchangeFails(r)
    BY <1>8, EndKeeps DEF ExchangeFails
  <1>9. CASE Save(r)
    BY <1>9, WriteKeeps DEF Save
  <1>10. CASE SaveFails(r)
    BY <1>10, WriteKeeps, EndKeeps DEF SaveFails
  <1>11. CASE Publish(r)
    BY <1>11, EndKeeps DEF Publish, LostBy
  <1> QED
    BY <1>1, <1>2, <1>3, <1>4, <1>5, <1>6, <1>7, <1>8, <1>9, <1>10, <1>11 DEF Task

LEMMA LoginKeeps ==
  ASSUME ~LoginImports, TypeInv, LockInv, RefreshInv, LoginLock \/ LoginGrant \/ LoginSave \/ LoginFails
  PROVE  RefreshInv'
  <1>1. /\ granted \in Nat /\ NoTokens.ref = 0 /\ Login \in Owner /\ Login \notin Req
        /\ \A q \in Req : q \in Owner
    BY ConstantsOK DEF TypeInv, TypeOK, NoTokens, Owner
  <1>2. /\ disk.ref \in Nat
        /\ \A q \in Req : seen[q].ref \in Nat
        /\ \A o \in Owner : fresh[o].ref \in Nat
        /\ \A g \in spent : g \in Nat
    BY TokenTypes, ConstantsOK DEF TypeInv, TypeOK, Grants
  <1>3. CASE LoginLock
    BY <1>3 DEF LoginLock, provider, RefreshInv, BoundInv, FileInv, HandInv, LoginInv
  <1>4. CASE LoginGrant
    <2>1. /\ fresh'[Login].ref = granted + 1 /\ granted' = granted + 1
          /\ \A q \in Req : fresh'[q] = fresh[q]
          /\ UNCHANGED <<disk, pc, seen, spent, lost>>
      BY <1>1, <1>4 DEF LoginGrant, CodeBuysGrant, CodexImports, TypeInv, TypeOK
    <2>2. BoundInv'
      BY <1>1, <1>2, <2>1 DEF RefreshInv, BoundInv, Owner
    <2>3. FileInv' /\ HandInv'
      BY <2>1 DEF RefreshInv, FileInv, HandInv
    <2>4. LoginInv'
      BY <1>1, <1>2, <2>1 DEF RefreshInv, BoundInv, LoginInv
    <2> QED
      BY <2>2, <2>3, <2>4 DEF RefreshInv
  <1>5. CASE LoginSave \/ LoginFails
    <2>1. /\ \A q \in Req : fresh'[q] = fresh[q]
          /\ fresh'[Login] = NoTokens /\ login' = "idle"
          /\ UNCHANGED <<pc, seen, spent, lost, granted>>
      BY <1>1, <1>5 DEF LoginSave, LoginFails, Drop, provider, TypeInv, TypeOK
    <2>2. BoundInv'
      BY <1>1, <1>2, <1>5, <2>1 DEF RefreshInv, BoundInv, Owner, LoginSave, LoginFails
    <2>3. HandInv' /\ LoginInv'
      BY <2>1 DEF RefreshInv, HandInv, LoginInv
    <2>4. FileInv'
      BY <1>5, <2>1 DEF RefreshInv, LoginInv, FileInv, LoginSave, LoginFails
    <2> QED
      BY <2>2, <2>3, <2>4 DEF RefreshInv
  <1> QED
    BY <1>3, <1>4, <1>5

LEMMA CrashKeeps ==
  ASSUME TypeInv, LockInv, RefreshInv, NEW p \in Proc, Crash(p)
  PROVE  RefreshInv'
  <1> DEFINE mine == {r \in Req : Home[r] = p}
  <1>1. /\ \A r \in mine : pc'[r] = "idle" /\ seen'[r] = NoTokens /\ fresh'[r] = NoTokens
        /\ \A r \in Req \ mine : pc'[r] = pc[r] /\ seen'[r] = seen[r] /\ fresh'[r] = fresh[r]
        /\ fresh'[Login] = fresh[Login]
        /\ lost' = lost \cup UNION {LostBy(r) : r \in mine}
        /\ UNCHANGED <<disk, login, granted, spent>>
    BY ConstantsOK DEF Crash, Owner, provider
  <1> HIDE DEF mine
  <1>2. mine \subseteq Req /\ NoTokens.ref = 0 /\ granted \in Nat
    BY ConstantsOK DEF mine, NoTokens, TypeInv, TypeOK
  <1>3. BoundInv'
    BY <1>1, <1>2 DEF RefreshInv, BoundInv, Owner
  <1>4. FileInv'
    <2> SUFFICES ASSUME disk.ref \in spent \ lost'
                 PROVE  \E r \in Req : pc'[r] \in {"granted", "save"} /\ seen'[r].ref = disk.ref
      BY <1>1 DEF FileInv
    <2>1. disk.ref \in spent \ lost
      BY <1>1
    <2>2. PICK r \in Req : pc[r] \in {"granted", "save"} /\ seen[r].ref = disk.ref
      BY <2>1 DEF RefreshInv, FileInv
    <2>3. disk.ref \in LostBy(r)
      BY <2>1, <2>2 DEF LostBy
    <2>4. r \notin mine
      BY <1>1, <2>3
    <2> QED
      BY <1>1, <2>2, <2>4
  <1>5. HandInv'
    BY <1>1, <1>2 DEF RefreshInv, HandInv
  <1>6. LoginInv'
    BY <1>1, <1>2 DEF RefreshInv, LoginInv
  <1> QED
    BY <1>3, <1>4, <1>5, <1>6 DEF RefreshInv

LEMMA RefreshStep ==
  ASSUME ~LoginImports, TypeInv, LockInv, RefreshInv, [Next]_vars
  PROVE  RefreshInv'
  <1> DEFINE Apart == {"idle", "gate", "done"}
             Quiet == /\ UNCHANGED <<disk, seen, fresh, login, granted, spent, lost>>
                      /\ \A r \in Req : pc'[r] = pc[r] \/ (pc[r] \in Apart /\ pc'[r] \in Apart)
  <1>1. Quiet => RefreshInv'
    BY DEF RefreshInv, BoundInv, FileInv, HandInv, LoginInv
  <1>2. ASSUME NEW r \in Req, Task(r)
        PROVE  RefreshInv'
    BY <1>2, TaskKeeps
  <1>3. ASSUME NEW r \in Req, Finish(r)
        PROVE  RefreshInv'
    BY <1>1, <1>3 DEF Finish, provider, TypeInv, TypeOK
  <1>4. ASSUME NEW r \in Req, NEW rej \in 0..MaxGrant, Call(r, rej)
        PROVE  RefreshInv'
    <2>1. UNCHANGED <<disk, login, granted, spent, lost>> /\ pc[r] \in {"idle", "done"}
      BY <1>4 DEF Call, Unauthorized, provider
    <2>2. CASE Ends(r, HitToken(Home[r]))
      BY <2>1, <2>2, EndKeeps DEF LostBy
    <2>3. CASE pc' = [pc EXCEPT ![r] = "gate"] /\ UNCHANGED <<seen, fresh>>
      BY <1>1, <2>1, <2>3 DEF TypeInv, TypeOK
    <2> QED
      BY <1>4, <2>2, <2>3 DEF Call, Unauthorized
  <1>5. ASSUME NEW p \in Proc, ReadCheck(p) \/ ApplyCheck(p) \/ AgeEntry(p) \/ Cooled(p)
        PROVE  RefreshInv'
    BY <1>1, <1>5 DEF ReadCheck, ApplyCheck, AgeEntry, Cooled, provider
  <1>6. ASSUME NEW p \in Proc, Crash(p)
        PROVE  RefreshInv'
    BY <1>6, CrashKeeps
  <1>7. CASE \E g \in Expiring : Expire(g)
    BY <1>1, <1>7 DEF Expire
  <1>8. CASE LoginLock \/ LoginGrant \/ LoginSave \/ LoginFails
    BY <1>8, LoginKeeps
  <1>9. CASE Remove
    <2>1. /\ disk' = NoTokens /\ NoTokens.ref = 0 /\ granted \in Nat
          /\ UNCHANGED <<pc, seen, fresh, login, granted, spent, lost>>
      BY <1>9, ConstantsOK DEF Remove, provider, NoTokens, TypeInv, TypeOK
    <2> QED
      BY <2>1 DEF RefreshInv, BoundInv, FileInv, HandInv, LoginInv
  <1>10. CASE UNCHANGED vars
    BY <1>1, <1>10 DEF vars
  <1> QED
    BY <1>2, <1>3, <1>4, <1>5, <1>6, <1>7, <1>8, <1>9, <1>10 DEF Next

\* No refresh token is sent to the provider once it is spent, unless the answer
\* that carried its successor was lost, in the order Claude logs in or Codex does, if logins
\* are granted their tokens. Imported ones have another owner, who may spend them.
THEOREM NoReplay == ASSUME ~LoginImports PROVE Spec => []NoRefreshTokenReplayed
  <1>3. TypeInv /\ LockInv /\ RefreshInv /\ [Next]_vars => RefreshInv'
    BY RefreshStep
  <1>1. Init => RefreshInv
    BY ConstantsOK DEF Init, RefreshInv, BoundInv, FileInv, HandInv, LoginInv, NoTokens
  <1>2. RefreshInv => NoRefreshTokenReplayed
    BY DEF RefreshInv, HandInv, NoRefreshTokenReplayed
  <1> QED
    BY <1>1, <1>2, <1>3, LockInvariant, PTL DEF Spec

------------------------------------------------------------------------------
\* What a caller gets

\* No access token is newer than the last grant.
CachesKnown  == \A p \in Proc : cache[p].tok.acc <= granted /\ check[p].tok.acc <= granted
CallersKnown == /\ \A r \in Req : seen[r].acc <= granted /\ result[r] <= granted
                /\ \A o \in Owner : fresh[o].acc <= granted
KnownInv     == /\ disk.acc <= granted /\ CachesKnown /\ CallersKnown
                /\ \A r \in Req : rejected[r] <= granted
                /\ \A p \in Proc : published[p] <= granted

\* A cache entry holds a token exactly when it says so, and what the provider has
\* granted a caller is newer than the token the caller reported.
EntriesHonest == \A p \in Proc : cache[p].held = "token" <=> cache[p].tok # NoTokens
GrantIsNewer  == \A r \in Req : pc[r] \in {"granted", "save", "publish"}
                                  => fresh[r].acc > rejected[r]
AnswerInv     == EntriesHonest /\ GrantIsNewer /\ RejectedNeverReturned

------------------------------------------------------------------------------
\* What the operators of the model do

LEMMA GetDoes ==
  ASSUME TypeOK, NEW p \in Proc, NEW rej, Get(p, rej), NEW q \in Proc
  PROVE  /\ cache'[q] = cache[q] \/ (q = p /\ cache'[q] = NoEntry /\ Refuses(p, rej))
         /\ q = p /\ Refuses(p, rej) => cache'[q] = NoEntry
         /\ check'[q] = check[q] \/ check'[q] \in {Superseded, Running}
  BY DEF Get, TypeOK, caches

LEMMA StoreDoes ==
  ASSUME TypeOK, NEW p \in Proc, NEW tok, Store(p, tok), NEW q \in Proc
  PROVE  /\ q # p => cache'[q] = cache[q] /\ check'[q] = check[q]
         /\ q = p => /\ cache'[q].tok = tok /\ check'[q] = Superseded
                     /\ cache'[q].held = IF tok = NoTokens THEN "error" ELSE "token"
  BY DEF Store, TypeOK, FreshEntry

LEMMA EndsDoes ==
  ASSUME TypeOK, NEW r \in Req, NEW token, Ends(r, token)
  PROVE  /\ pc'[r] = "done" /\ result'[r] = token /\ seen'[r] = NoTokens
         /\ \A q \in Req \ {r} : pc'[q] = pc[q] /\ result'[q] = result[q] /\ seen'[q] = seen[q]
         /\ \A o \in Owner : fresh'[o] = IF o = r THEN NoTokens ELSE fresh[o]
  BY DEF Ends, Drop, TypeOK, Owner

LEMMA ContinuesDoes ==
  ASSUME TypeOK, NEW r \in Req, NEW label, Continues(r, label)
  PROVE  /\ pc'[r] = label /\ UNCHANGED <<result, seen, fresh>>
         /\ \A q \in Req \ {r} : pc'[q] = pc[q]
  BY DEF Continues, GoesTo, TypeOK

LEMMA Numbers ==
  ASSUME TypeOK
  PROVE  /\ granted \in Nat /\ disk.acc \in Nat /\ NoTokens.acc = 0
         /\ \A p \in Proc : /\ cache[p].tok.acc \in Nat /\ check[p].tok.acc \in Nat
                            /\ published[p] \in Nat
         /\ \A r \in Req : seen[r].acc \in Nat /\ result[r] \in Nat /\ rejected[r] \in Nat
         /\ \A o \in Owner : fresh[o].acc \in Nat
         /\ Req \subseteq Owner /\ Login \in Owner
         /\ \A t \in Tokens : t # NoTokens => t.acc > 0
         /\ \A r \in Req : Home[r] \in Proc
  <1>1. \A t \in Tokens : t.acc \in Nat /\ (t # NoTokens => t.acc > 0)
    BY ConstantsOK DEF Tokens, NoTokens, Grants
  <1>2. \A e \in Entry : e.tok \in Tokens
    BY DEF Entry
  <1>3. \A c \in Check : c.tok \in Tokens
    BY DEF Check
  <1>4. \A p \in Proc : cache[p] \in Entry /\ check[p] \in Check /\ published[p] \in Nat
    BY ConstantsOK DEF TypeOK
  <1>5. \A r \in Req : seen[r] \in Tokens /\ result[r] \in Nat /\ rejected[r] \in Nat
    BY ConstantsOK DEF TypeOK
  <1>6. (\A o \in Owner : fresh[o] \in Tokens) /\ disk \in Tokens /\ granted \in Nat
    BY ConstantsOK DEF TypeOK
  <1>7. NoTokens.acc = 0 /\ Req \subseteq Owner /\ Login \in Owner
    BY DEF NoTokens, Owner
  <1> QED
    BY <1>1, <1>2, <1>3, <1>4, <1>5, <1>6, <1>7, ConstantsOK

------------------------------------------------------------------------------
\* KnownInv

LEMMA EndKnows ==
  ASSUME TypeOK, CallersKnown, NEW r \in Req, NEW token, Ends(r, token), token <= granted,
         UNCHANGED granted
  PROVE  CallersKnown'
  BY Numbers, EndsDoes DEF CallersKnown

LEMMA StoreKnows ==
  ASSUME TypeOK, CachesKnown, NEW p \in Proc, NEW tok, Store(p, tok), tok.acc <= granted,
         UNCHANGED granted
  PROVE  CachesKnown'
  BY Numbers, StoreDoes DEF CachesKnown, Superseded

LEMMA GetKnows ==
  ASSUME TypeOK, CachesKnown, NEW p \in Proc, NEW rej, Get(p, rej), UNCHANGED granted
  PROVE  CachesKnown'
  BY Numbers, GetDoes DEF CachesKnown, Superseded, Running, NoEntry

LEMMA TaskKnows ==
  ASSUME TypeInv, KnownInv, NEW r \in Req, Task(r)
  PROVE  KnownInv'
  <1>0. /\ TypeOK /\ Home[r] \in Proc /\ r \in Owner
        /\ granted \in Nat /\ disk.acc \in Nat /\ 0 <= granted
        /\ CachesKnown /\ CallersKnown
    BY Numbers DEF TypeInv, KnownInv
  <1>1. CASE EnterGate(r)
    <2>1. UNCHANGED <<disk, granted, rejected, published>>
      BY <1>1 DEF EnterGate, provider
    <2>2. CachesKnown'
      BY <1>0, <1>1, <2>1, GetKnows DEF EnterGate
    <2>3. HitToken(Home[r]) <= granted
      BY <1>0 DEF CachesKnown, HitToken
    <2>4. CallersKnown'
      <3>1. CASE Ends(r, HitToken(Home[r]))
        BY <1>0, <2>1, <2>3, <3>1, EndKnows
      <3>2. CASE Continues(r, "load")
        BY <1>0, <2>1, <3>2, ContinuesDoes DEF CallersKnown
      <3> QED
        BY <1>1, <3>1, <3>2 DEF EnterGate
    <2> QED
      BY <2>1, <2>2, <2>4 DEF KnownInv
  <1>2. CASE Read(r)
    <2>1. UNCHANGED <<disk, granted, rejected, published, cache, check, fresh, result>>
      BY <1>2 DEF Read, provider, GoesTo, caches
    <2>2. \A q \in Req : seen'[q] = seen[q] \/ seen'[q] = disk
      BY <1>0, <1>2 DEF Read, TypeOK
    <2> QED
      BY <2>1, <2>2 DEF KnownInv, CachesKnown, CallersKnown
  <1>3. CASE AfterLoad(r)
    <2>1. UNCHANGED <<disk, granted, rejected, published>> /\ seen[r].acc <= granted
      BY <1>0, <1>3 DEF AfterLoad, provider, CallersKnown
    <2>2. CASE Store(Home[r], seen[r]) /\ Ends(r, seen[r].acc)
      BY <1>0, <2>1, <2>2, StoreKnows, EndKnows DEF KnownInv
    <2>3. CASE Continues(r, "flock") /\ UNCHANGED caches
      BY <1>0, <2>1, <2>3, ContinuesDoes DEF KnownInv, caches, CachesKnown, CallersKnown
    <2> QED
      BY <1>3, <2>2, <2>3 DEF AfterLoad
  <1>4. CASE TakeLock(r) \/ Answer(r) \/ ExchangeFails(r)
    <2>1. UNCHANGED <<disk, granted, rejected, published, cache, check>>
      BY <1>4 DEF TakeLock, Answer, ExchangeFails, provider, caches
    <2>2. Ends(r, 0) \/ Continues(r, "reload") \/ Continues(r, "save")
      BY <1>4 DEF TakeLock, Answer, ExchangeFails
    <2>3. CallersKnown'
      BY <1>0, <2>1, <2>2, EndKnows, ContinuesDoes DEF CallersKnown
    <2> QED
      BY <2>1, <2>3 DEF KnownInv, CachesKnown
  <1>5. CASE AfterReload(r)
    <2>1. UNCHANGED <<disk, granted, rejected, published>> /\ seen[r].acc <= granted
      BY <1>0, <1>5 DEF AfterReload, provider, CallersKnown
    <2>2. CASE Store(Home[r], seen[r]) /\ Ends(r, seen[r].acc)
      BY <1>0, <2>1, <2>2, StoreKnows, EndKnows DEF KnownInv
    <2>3. CASE (Ends(r, 0) \/ Continues(r, "sent")) /\ UNCHANGED caches
      <3>1. CallersKnown'
        BY <1>0, <2>1, <2>3, EndKnows, ContinuesDoes DEF CallersKnown
      <3> QED
        BY <2>1, <2>3, <3>1 DEF KnownInv, caches, CachesKnown
    <2> QED
      BY <1>5, <2>2, <2>3 DEF AfterReload
  <1>6. CASE \E rotates \in BOOLEAN : Grant(r, rotates)
    <2>1. /\ granted' = granted + 1
          /\ UNCHANGED <<disk, rejected, published, cache, check, seen, result>>
      BY <1>6 DEF Grant, GoesTo, caches
    <2>2. \A o \in Owner : fresh'[o] = fresh[o] \/ fresh'[o].acc = granted + 1
      BY <1>0, <1>6 DEF Grant, TypeOK
    <2>3. \A n \in Nat : n <= granted => n <= granted + 1
      BY <1>0
    <2>4. CachesKnown'
      BY <1>0, <2>1, <2>3, Numbers DEF CachesKnown
    <2>5. CallersKnown'
      <3>1. \A q \in Req : seen'[q].acc <= granted' /\ result'[q] <= granted'
        BY <1>0, <2>1, <2>3, Numbers DEF CallersKnown
      <3>2. granted + 1 <= granted'
        BY <1>0, <2>1
      <3>3. \A o \in Owner : fresh'[o].acc <= granted'
        BY <1>0, <2>1, <2>2, <2>3, <3>2, Numbers DEF CallersKnown
      <3> QED
        BY <3>1, <3>3 DEF CallersKnown
    <2> QED
      BY <1>0, <2>1, <2>3, <2>4, <2>5, Numbers DEF KnownInv
  <1>7. CASE Save(r) \/ SaveFails(r)
    <2>1. /\ UNCHANGED <<granted, rejected, published, cache, check>>
          /\ disk' = disk \/ disk' = fresh[r]
          /\ Ends(r, 0) \/ Continues(r, "publish")
      BY <1>7 DEF Save, SaveFails, provider, caches
    <2>2. disk'.acc <= granted
      BY <1>0, <2>1 DEF KnownInv, CallersKnown
    <2>3. CallersKnown'
      BY <1>0, <2>1, EndKnows, ContinuesDoes DEF CallersKnown
    <2> QED
      BY <2>1, <2>2, <2>3 DEF KnownInv, CachesKnown
  <1>8. CASE Publish(r)
    <2>1. UNCHANGED <<disk, granted, rejected>> /\ fresh[r].acc <= granted
      BY <1>0, <1>8 DEF Publish, provider, CallersKnown
    <2>2. CachesKnown' /\ CallersKnown'
      BY <1>0, <1>8, <2>1, StoreKnows, EndKnows DEF Publish
    <2>3. \A p \in Proc : published'[p] \in {published[p], fresh[r].acc}
      BY <1>0, <1>8 DEF Publish, TypeOK
    <2> QED
      BY <2>1, <2>2, <2>3 DEF KnownInv
  <1> QED
    BY <1>1, <1>2, <1>3, <1>4, <1>5, <1>6, <1>7, <1>8 DEF Task

\* A crash leaves nothing of what its process had in memory.
LEMMA CrashDoes ==
  ASSUME TypeOK, NEW p \in Proc, Crash(p)
  PROVE  /\ UNCHANGED <<disk, login, granted>>
         /\ \A r \in Req :
              \/ Home[r] # p /\ pc'[r] = pc[r] /\ rejected'[r] = rejected[r]
                             /\ result'[r] = result[r] /\ seen'[r] = seen[r]
              \/ /\ Home[r] = p /\ pc'[r] = "idle" /\ rejected'[r] = 0 /\ result'[r] = 0
                 /\ seen'[r] = NoTokens
         /\ \A r \in Req : Home[r] # p => fresh'[r] = fresh[r]
         /\ \A o \in Owner : fresh'[o] \in {fresh[o], NoTokens}
         /\ fresh'[Login] = fresh[Login]
         /\ cache'[p] = NoEntry /\ check'[p] = Superseded /\ published'[p] = 0
         /\ \A q \in Proc \ {p} : /\ cache'[q] = cache[q] /\ check'[q] = check[q]
                                  /\ published'[q] = published[q]
  <1>1. UNCHANGED <<disk, login, granted>>
    BY DEF Crash, provider
  <1>2. \A r \in Req :
          \/ Home[r] # p /\ pc'[r] = pc[r] /\ rejected'[r] = rejected[r]
                         /\ result'[r] = result[r] /\ seen'[r] = seen[r]
          \/ /\ Home[r] = p /\ pc'[r] = "idle" /\ rejected'[r] = 0 /\ result'[r] = 0
             /\ seen'[r] = NoTokens
    BY DEF Crash
  <1>3. \A o \in Owner : fresh'[o] = IF o \in {r \in Req : Home[r] = p} THEN NoTokens
                                                                     ELSE fresh[o]
    BY DEF Crash
  <1>4. Login \in Owner /\ Login \notin Req /\ Req \subseteq Owner
    BY ConstantsOK DEF Owner
  <1>5. /\ cache'[p] = NoEntry /\ check'[p] = Superseded /\ published'[p] = 0
        /\ \A q \in Proc \ {p} : /\ cache'[q] = cache[q] /\ check'[q] = check[q]
                                 /\ published'[q] = published[q]
    BY DEF Crash, TypeOK
  <1> QED
    BY <1>1, <1>2, <1>3, <1>4, <1>5

\* Checks and clocks: an entry keeps its token, or takes what a check has read.
LEMMA ClockDoes ==
  ASSUME TypeOK, NEW p \in Proc, ReadCheck(p) \/ ApplyCheck(p) \/ AgeEntry(p) \/ Cooled(p)
  PROVE  /\ UNCHANGED <<disk, granted, pc, login, seen, fresh, result, rejected, published>>
         /\ \A q \in Proc :
              /\ \/ cache'[q].tok = cache[q].tok /\ cache'[q].held = cache[q].held
                 \/ /\ check[q].stage = "read" /\ cache'[q].tok = check[q].tok
                    /\ cache'[q].held = IF check[q].tok = NoTokens THEN "error" ELSE "token"
              /\ \/ check'[q] = check[q] \/ check'[q] = Superseded
                 \/ check'[q] = [stage |-> "read", tok |-> disk]
  <1>1. UNCHANGED <<disk, granted, pc, login, seen, fresh, result, rejected, published>>
    BY DEF ReadCheck, ApplyCheck, AgeEntry, Cooled, caches, provider
  <1>2. CASE ReadCheck(p) \/ Cooled(p)
    BY <1>1, <1>2 DEF ReadCheck, Cooled, caches, TypeOK
  <1>3. CASE ApplyCheck(p)
    BY <1>1, <1>3 DEF ApplyCheck, FreshEntry, TypeOK
  <1>4. CASE AgeEntry(p)
    <2>1. cache \in [Proc -> Entry] /\ cache[p] \in Entry
      BY DEF TypeOK
    <2>2. PICK a : cache' = [cache EXCEPT ![p] = [cache[p] EXCEPT !.age = a]]
      BY <1>4 DEF AgeEntry
    <2>3. \A q \in Proc : cache'[q].tok = cache[q].tok /\ cache'[q].held = cache[q].held
      BY <2>1, <2>2 DEF Entry
    <2> QED
      BY <1>1, <1>4, <2>3 DEF AgeEntry
  <1> QED
    BY <1>2, <1>3, <1>4

\* The login writes what it was granted, and it may be granted one thing.
LEMMA LoginDoes ==
  ASSUME TypeOK, LoginLock \/ LoginGrant \/ LoginSave \/ LoginFails
  PROVE  /\ UNCHANGED <<cache, check, pc, rejected, seen, result, published>>
         /\ \A r \in Req : fresh'[r] = fresh[r]
         /\ disk' = disk \/ (login = "ready" /\ disk' = fresh[Login] /\ login' = "idle")
         /\ \/ granted' = granted /\ fresh'[Login] \in {fresh[Login], NoTokens}
            \/ granted' = granted /\ fresh'[Login].acc \in 0..granted /\ disk' = disk
            \/ /\ granted' = granted + 1 /\ fresh'[Login].acc = granted + 1
               /\ disk' = disk
         /\ login' = "ready" => \/ login = "granted" /\ fresh'[Login] = fresh[Login]
                                \/ login = "locked" /\ fresh'[Login].acc = granted + 1
         /\ login' = "granted" => ~LoginLocksFirst
  <1>1. CASE LoginLock
    BY <1>1, ConstantsOK DEF LoginLock, caches, provider, TypeOK, Owner
  <1>2. CASE LoginGrant
    <2>1. CASE CodeBuysGrant
      BY <1>2, <2>1, ConstantsOK
         DEF LoginGrant, CodeBuysGrant, ClaudeSignsIn, CodexSignsIn, caches, TypeOK, Owner
    <2>2. CASE CodexImports
      <3>1. PICK g \in {1, granted + 1} :
              /\ granted' = IF g > granted THEN g ELSE granted
              /\ fresh' = [fresh EXCEPT ![Login] = [acc |-> g, ref |-> g]]
        BY <2>2 DEF CodexImports
      <3>2. /\ granted \in Nat
            /\ \/ granted' = granted /\ g <= granted
               \/ g = granted + 1 /\ granted' = g
        BY <3>1, ConstantsOK DEF TypeOK
      <3>3. fresh'[Login].acc = g /\ \A r \in Req : fresh'[r] = fresh[r]
        BY <3>1, ConstantsOK DEF TypeOK, Owner
      <3> QED
        BY <1>2, <2>2, <3>2, <3>3 DEF LoginGrant, CodexImports, CodexSignsIn, caches
    <2> QED
      BY <1>2, <2>1, <2>2 DEF LoginGrant
  <1>3. CASE LoginSave \/ LoginFails
    BY <1>3, ConstantsOK DEF LoginSave, LoginFails, Drop, caches, provider, TypeOK, Owner
  <1> QED
    BY <1>1, <1>2, <1>3

LEMMA CallDoes ==
  ASSUME TypeOK, NEW r \in Req, NEW rej \in 0..MaxGrant, Call(r, rej)
  PROVE  /\ UNCHANGED <<disk, granted, login, published>>
         /\ rej = 0 \/ (pc[r] = "done" /\ rej = result[r])
         /\ pc[r] \in {"idle", "done"}
         /\ rejected'[r] = rej /\ \A q \in Req \ {r} : rejected'[q] = rejected[q]
         /\ Get(Home[r], rej)
         /\ \/ Hit(Home[r], rej) /\ Ends(r, HitToken(Home[r]))
            \/ /\ pc'[r] = "gate" /\ \A q \in Req \ {r} : pc'[q] = pc[q]
               /\ \A q \in Req : result'[q] \in {result[q], 0}
               /\ \A q \in Req \ {r} : result'[q] = result[q]
               /\ UNCHANGED <<seen, fresh>>
  BY DEF Call, Unauthorized, provider, TypeOK

LEMMA KnownStep ==
  ASSUME TypeInv, KnownInv, [Next]_vars
  PROVE  KnownInv'
  <1>0. /\ TypeOK /\ granted \in Nat /\ disk.acc \in Nat /\ NoTokens.acc = 0
        /\ CachesKnown /\ CallersKnown
    BY Numbers DEF TypeInv, KnownInv
  <1>1. ASSUME NEW r \in Req, Task(r) PROVE KnownInv'
    BY <1>1, TaskKnows
  <1>2. ASSUME NEW r \in Req, Finish(r) PROVE KnownInv'
    <2>1. /\ UNCHANGED <<disk, granted, cache, check, seen, fresh, published>>
          /\ \A q \in Req : /\ result'[q] \in {result[q], 0}
                            /\ rejected'[q] \in {rejected[q], 0}
      BY <1>0, <1>2 DEF Finish, caches, provider, TypeOK
    <2> QED
      BY <1>0, <2>1 DEF KnownInv, CachesKnown, CallersKnown
  <1>3. ASSUME NEW r \in Req, NEW rej \in 0..MaxGrant, Call(r, rej) PROVE KnownInv'
    <2>1. UNCHANGED <<disk, granted, published>> /\ Home[r] \in Proc /\ Get(Home[r], rej)
      BY <1>0, <1>3, CallDoes, Numbers
    <2>2. CachesKnown'
      BY <1>0, <2>1, GetKnows
    <2>3. HitToken(Home[r]) <= granted
      BY <1>0, <2>1 DEF CachesKnown, HitToken
    <2>4. CallersKnown'
      <3>1. CASE Ends(r, HitToken(Home[r]))
        BY <1>0, <2>1, <2>3, <3>1, EndKnows
      <3>2. CASE (\A q \in Req : result'[q] \in {result[q], 0}) /\ UNCHANGED <<seen, fresh>>
        BY <1>0, <2>1, <3>2 DEF CallersKnown
      <3> QED
        BY <1>0, <1>3, <3>1, <3>2, CallDoes
    <2>5. \A q \in Req : rejected'[q] <= granted
      <3>1. rej <= granted
        BY <1>0, <1>3, CallDoes DEF CallersKnown
      <3> QED
        BY <1>0, <1>3, <3>1, CallDoes DEF KnownInv
    <2> QED
      BY <2>1, <2>2, <2>4, <2>5 DEF KnownInv
  <1>4. ASSUME NEW p \in Proc, ReadCheck(p) \/ ApplyCheck(p) \/ AgeEntry(p) \/ Cooled(p)
        PROVE  KnownInv'
    <2>1. UNCHANGED <<disk, granted, seen, fresh, result, rejected, published>>
      BY <1>0, <1>4, ClockDoes
    <2>2. CachesKnown'
      BY <1>0, <1>4, <2>1, ClockDoes DEF KnownInv, CachesKnown, Superseded
    <2> QED
      BY <1>0, <2>1, <2>2 DEF KnownInv, CallersKnown
  <1>5. ASSUME NEW p \in Proc, Crash(p) PROVE KnownInv'
    <2>1. UNCHANGED granted /\ disk' = disk
      BY <1>0, <1>5, CrashDoes
    <2>2. CachesKnown'
      BY <1>0, <1>5, <2>1, CrashDoes DEF CachesKnown, NoEntry, Superseded
    <2>3. CallersKnown'
      BY <1>0, <1>5, <2>1, CrashDoes DEF CallersKnown
    <2> QED
      BY <1>0, <1>5, <2>1, <2>2, <2>3, CrashDoes DEF KnownInv
  <1>6. CASE \E g \in Expiring : Expire(g)
    BY <1>6 DEF Expire, caches, KnownInv, CachesKnown, CallersKnown
  <1>7. CASE LoginLock \/ LoginGrant \/ LoginSave \/ LoginFails
    <2>1. UNCHANGED <<cache, check, pc, rejected, seen, result, published>>
      BY <1>0, <1>7, LoginDoes
    <2>2. /\ granted' \in {granted, granted + 1} /\ disk' \in {disk, fresh[Login]}
          /\ \A o \in Owner : \/ fresh'[o] \in {fresh[o], NoTokens}
                              \/ fresh'[o].acc \in 0..granted
                              \/ granted' = granted + 1 /\ fresh'[o].acc = granted + 1
      BY <1>0, <1>7, LoginDoes DEF Owner
    <2>3. \A n \in Nat : n <= granted => n <= granted'
      BY <1>0, <2>2
    <2>4. granted' \in Nat /\ (granted' = granted + 1 => granted + 1 <= granted')
      BY <1>0, <2>2
    <2>5. disk'.acc <= granted'
      BY <1>0, <2>2, <2>3, Numbers DEF KnownInv, CallersKnown
    <2>6. CachesKnown'
      BY <1>0, <2>1, <2>3, Numbers DEF CachesKnown
    <2>7. CallersKnown'
      <3>1. \A q \in Req : seen'[q].acc <= granted' /\ result'[q] <= granted'
        BY <1>0, <2>1, <2>3, Numbers DEF CallersKnown
      <3>2. \A o \in Owner : fresh'[o].acc <= granted'
        BY <1>0, <2>2, <2>3, <2>4, Numbers DEF CallersKnown
      <3> QED
        BY <3>1, <3>2 DEF CallersKnown
    <2> QED
      BY <1>0, <2>1, <2>3, <2>5, <2>6, <2>7, Numbers DEF KnownInv
  <1>8. CASE Remove
    BY <1>0, <1>8 DEF Remove, caches, provider, KnownInv, CachesKnown, CallersKnown
  <1>9. CASE UNCHANGED vars
    BY <1>9 DEF vars, caches, provider, KnownInv, CachesKnown, CallersKnown
  <1> QED
    BY <1>1, <1>2, <1>3, <1>4, <1>5, <1>6, <1>7, <1>8, <1>9 DEF Next

------------------------------------------------------------------------------
\* AnswerInv

\* A hit in the cache is not the token the caller reports as rejected.
LEMMA HitIsAccepted ==
  ASSUME TypeOK, EntriesHonest, NEW p \in Proc, NEW rej, Hit(p, rej)
  PROVE  HitToken(p) # 0 => HitToken(p) # rej
  <1>1. cache[p].held = "token" \/ cache[p].tok = NoTokens
    BY DEF EntriesHonest
  <1>2. CASE cache[p].tok = NoTokens
    BY <1>2 DEF HitToken, NoTokens
  <1>3. CASE cache[p].held = "token"
    BY <1>3 DEF Hit, Refuses, HitToken
  <1> QED
    BY <1>1, <1>2, <1>3

LEMMA GetHonest ==
  ASSUME TypeOK, EntriesHonest, NEW p \in Proc, NEW rej, Get(p, rej)
  PROVE  EntriesHonest'
  BY GetDoes DEF EntriesHonest, NoEntry

LEMMA StoreHonest ==
  ASSUME TypeOK, EntriesHonest, NEW p \in Proc, NEW tok, Store(p, tok)
  PROVE  EntriesHonest'
  BY StoreDoes DEF EntriesHonest

\* What r ends with is right, and the others keep what they have.
LEMMA EndAnswers ==
  ASSUME TypeOK, GrantIsNewer, RejectedNeverReturned, NEW r \in Req, NEW token,
         Ends(r, token), token # 0 => token # rejected'[r],
         \A q \in Req \ {r} : rejected'[q] = rejected[q]
  PROVE  GrantIsNewer' /\ RejectedNeverReturned'
  BY EndsDoes, Numbers DEF GrantIsNewer, RejectedNeverReturned

\* r goes on, and what it holds stays newer.
LEMMA ContinueAnswers ==
  ASSUME TypeOK, GrantIsNewer, RejectedNeverReturned, NEW r \in Req, NEW label,
         Continues(r, label), label # "done", UNCHANGED rejected,
         label \in {"granted", "save", "publish"} => pc[r] \in {"granted", "save", "publish"}
  PROVE  GrantIsNewer' /\ RejectedNeverReturned'
  BY ContinuesDoes DEF GrantIsNewer, RejectedNeverReturned

LEMMA TaskAnswers ==
  ASSUME TypeInv, KnownInv, AnswerInv, NEW r \in Req, Task(r)
  PROVE  AnswerInv'
  <1>0. /\ TypeOK /\ Home[r] \in Proc /\ r \in Owner /\ NoTokens.acc = 0
        /\ EntriesHonest /\ GrantIsNewer /\ RejectedNeverReturned
    BY Numbers DEF TypeInv, AnswerInv
  <1>1. CASE EnterGate(r)
    <2>1. UNCHANGED rejected /\ EntriesHonest'
      BY <1>0, <1>1, GetHonest DEF EnterGate
    <2>2. CASE Hit(Home[r], rejected[r]) /\ Ends(r, HitToken(Home[r]))
      BY <1>0, <2>1, <2>2, HitIsAccepted, EndAnswers DEF AnswerInv
    <2>3. CASE Continues(r, "load")
      BY <1>0, <2>1, <2>3, ContinueAnswers DEF AnswerInv
    <2> QED
      BY <1>1, <2>2, <2>3 DEF EnterGate
  <1>2. CASE Read(r)
    <2>1. UNCHANGED <<rejected, cache, fresh, result>>
      BY <1>2 DEF Read, GoesTo, caches
    <2>2. pc'[r] \in {"loaded", "reloaded"} /\ \A q \in Req \ {r} : pc'[q] = pc[q]
      BY <1>0, <1>2 DEF Read, GoesTo, TypeOK
    <2> QED
      BY <1>0, <2>1, <2>2 DEF AnswerInv, EntriesHonest, GrantIsNewer, RejectedNeverReturned
  <1>3. CASE AfterLoad(r) \/ AfterReload(r)
    <2>1. UNCHANGED rejected
      BY <1>3 DEF AfterLoad, AfterReload
    <2>2. CASE /\ seen[r] = NoTokens \/ Usable(r, seen[r])
               /\ Store(Home[r], seen[r]) /\ Ends(r, seen[r].acc)
      <3>1. seen[r].acc # 0 => seen[r].acc # rejected'[r]
        BY <1>0, <2>1, <2>2 DEF Usable
      <3> QED
        BY <1>0, <2>1, <2>2, <3>1, StoreHonest, EndAnswers DEF AnswerInv
    <2>3. CASE Ends(r, 0) /\ UNCHANGED caches
      <3>1. EntriesHonest'
        BY <1>0, <2>3 DEF EntriesHonest, caches
      <3> QED
        BY <1>0, <2>1, <2>3, <3>1, EndAnswers DEF AnswerInv
    <2>4. CASE (Continues(r, "flock") \/ Continues(r, "sent")) /\ UNCHANGED caches
      <3>1. EntriesHonest'
        BY <1>0, <2>4 DEF EntriesHonest, caches
      <3> QED
        BY <1>0, <2>1, <2>4, <3>1, ContinueAnswers DEF AnswerInv
    <2> QED
      BY <1>3, <2>2, <2>3, <2>4 DEF AfterLoad, AfterReload
  <1>4. CASE TakeLock(r) \/ Answer(r) \/ ExchangeFails(r) \/ Save(r) \/ SaveFails(r)
    <2>1. UNCHANGED <<rejected, cache>>
      BY <1>4 DEF TakeLock, Answer, ExchangeFails, Save, SaveFails, caches
    <2>2. \/ Ends(r, 0) \/ Continues(r, "reload")
          \/ pc[r] \in {"granted", "save"} /\ (Continues(r, "save") \/ Continues(r, "publish"))
      BY <1>4 DEF TakeLock, Answer, ExchangeFails, Save, SaveFails
    <2>3. GrantIsNewer' /\ RejectedNeverReturned'
      BY <1>0, <2>1, <2>2, EndAnswers, ContinueAnswers
    <2> QED
      BY <1>0, <2>1, <2>3 DEF AnswerInv, EntriesHonest
  <1>5. CASE \E rotates \in BOOLEAN : Grant(r, rotates)
    <2>1. UNCHANGED <<rejected, cache, result>> /\ pc'[r] = "granted"
          /\ \A q \in Req \ {r} : pc'[q] = pc[q] /\ fresh'[q] = fresh[q]
      BY <1>0, <1>5 DEF Grant, GoesTo, caches, TypeOK
    <2>2. fresh'[r].acc = granted + 1
      BY <1>0, <1>5 DEF Grant, TypeOK
    <2>3. granted + 1 > rejected[r]
      BY <1>0, Numbers DEF KnownInv
    <2> QED
      BY <1>0, <2>1, <2>2, <2>3 DEF AnswerInv, EntriesHonest, GrantIsNewer, RejectedNeverReturned
  <1>6. CASE Publish(r)
    <2>1. UNCHANGED rejected /\ EntriesHonest'
      BY <1>0, <1>6, StoreHonest DEF Publish
    <2>2. fresh[r].acc # rejected'[r]
      BY <1>0, <1>6, <2>1, Numbers DEF Publish, GrantIsNewer
    <2> QED
      BY <1>0, <1>6, <2>1, <2>2, EndAnswers DEF Publish, AnswerInv
  <1> QED
    BY <1>1, <1>2, <1>3, <1>4, <1>5, <1>6 DEF Task

LEMMA AnswerStep ==
  ASSUME TypeInv, KnownInv, AnswerInv, [Next]_vars
  PROVE  AnswerInv'
  <1>0. /\ TypeOK /\ NoTokens.acc = 0
        /\ EntriesHonest /\ GrantIsNewer /\ RejectedNeverReturned
    BY Numbers DEF TypeInv, AnswerInv
  <1>1. ASSUME NEW r \in Req, Task(r) PROVE AnswerInv'
    BY <1>1, TaskAnswers
  <1>2. ASSUME NEW r \in Req, Finish(r) PROVE AnswerInv'
    BY <1>0, <1>2
       DEF Finish, caches, TypeOK, AnswerInv, EntriesHonest, GrantIsNewer, RejectedNeverReturned
  <1>3. ASSUME NEW r \in Req, NEW rej \in 0..MaxGrant, Call(r, rej) PROVE AnswerInv'
    <2>1. Home[r] \in Proc /\ Get(Home[r], rej) /\ rejected'[r] = rej
          /\ \A q \in Req \ {r} : rejected'[q] = rejected[q]
      BY <1>0, <1>3, CallDoes, Numbers
    <2>2. EntriesHonest'
      BY <1>0, <2>1, GetHonest
    <2>3. CASE Hit(Home[r], rej) /\ Ends(r, HitToken(Home[r]))
      BY <1>0, <2>1, <2>2, <2>3, HitIsAccepted, EndAnswers DEF AnswerInv
    <2>4. CASE /\ pc'[r] = "gate" /\ \A q \in Req \ {r} : pc'[q] = pc[q]
               /\ \A q \in Req \ {r} : result'[q] = result[q]
               /\ UNCHANGED <<seen, fresh>>
      BY <1>0, <2>1, <2>2, <2>4 DEF AnswerInv, GrantIsNewer, RejectedNeverReturned
    <2> QED
      BY <1>0, <1>3, <2>3, <2>4, CallDoes
  <1>4. ASSUME NEW p \in Proc, ReadCheck(p) \/ ApplyCheck(p) \/ AgeEntry(p) \/ Cooled(p)
        PROVE  AnswerInv'
    <2>1. UNCHANGED <<pc, fresh, result, rejected>>
      BY <1>0, <1>4, ClockDoes
    <2>2. EntriesHonest'
      BY <1>0, <1>4, ClockDoes DEF EntriesHonest
    <2> QED
      BY <1>0, <2>1, <2>2 DEF AnswerInv, GrantIsNewer, RejectedNeverReturned
  <1>5. ASSUME NEW p \in Proc, Crash(p) PROVE AnswerInv'
    <2>1. EntriesHonest'
      BY <1>0, <1>5, CrashDoes DEF EntriesHonest, NoEntry
    <2>2. GrantIsNewer' /\ RejectedNeverReturned'
      BY <1>0, <1>5, CrashDoes DEF GrantIsNewer, RejectedNeverReturned
    <2> QED
      BY <2>1, <2>2 DEF AnswerInv
  <1>6. CASE LoginLock \/ LoginGrant \/ LoginSave \/ LoginFails
    BY <1>0, <1>6, LoginDoes DEF AnswerInv, EntriesHonest, GrantIsNewer, RejectedNeverReturned
  <1>7. CASE (\E g \in Expiring : Expire(g)) \/ Remove \/ UNCHANGED vars
    BY <1>0, <1>7 DEF Expire, Remove, vars, caches, AnswerInv, EntriesHonest, GrantIsNewer,
                      RejectedNeverReturned
  <1> QED
    BY <1>1, <1>2, <1>3, <1>4, <1>5, <1>6, <1>7 DEF Next

\* Nobody who reports a token as rejected is given it again: not by the cache it was in, not
\* by a check or another process's file, not by the refresh; for any number of callers.
THEOREM RejectedStaysRejected == Spec => []RejectedNeverReturned
  <1>1. Init => KnownInv /\ AnswerInv
    BY ConstantsOK
    DEF Init, KnownInv, CachesKnown, CallersKnown, AnswerInv, EntriesHonest, GrantIsNewer,
        RejectedNeverReturned, NoEntry, NoTokens, Superseded
  <1>2. TypeInv /\ KnownInv /\ AnswerInv /\ [Next]_vars => KnownInv' /\ AnswerInv'
    BY KnownStep, AnswerStep
  <1>3. AnswerInv => RejectedNeverReturned
    BY DEF AnswerInv
  <1> QED
    BY <1>1, <1>2, <1>3, TypeInvariant, PTL DEF Spec

------------------------------------------------------------------------------
\* What is older and what is newer, when the login takes the lock first

\* Under the lock, the grant of its holder is newer than the file.
FileInOrder ==
  /\ login # "granted"
  /\ \A r \in Req : /\ pc[r] \in {"granted", "save"} => fresh[r].acc > disk.acc
                    /\ pc[r] = "publish" /\ disk # NoTokens => disk.acc >= fresh[r].acc
  /\ login = "ready" => fresh[Login].acc > disk.acc

\* The file, what is on its way into it, what is read from it behind the gate or by a
\* check that still counts, and the cache: none is older than what has been published.
CacheInOrder ==
  /\ \A p \in Proc : disk # NoTokens => disk.acc >= published[p]
  /\ \A r \in Req, p \in Proc :
       pc[r] \in {"granted", "save", "publish"} => fresh[r].acc >= published[p]
  /\ \A p \in Proc : login = "ready" => fresh[Login].acc >= published[p]
  /\ \A r \in Req : pc[r] \in {"loaded", "reloaded"} /\ seen[r] # NoTokens
                      => seen[r].acc >= published[Home[r]]
  /\ \A p \in Proc : check[p].stage = "read" /\ check[p].tok # NoTokens
                       => check[p].tok.acc >= published[p]
  /\ PublishedNeverRolledBack

\* What a step of a task does to the tokens.
LEMMA TaskDoes ==
  ASSUME TypeOK, NEW r \in Req, Task(r)
  PROVE  /\ UNCHANGED login /\ fresh'[Login] = fresh[Login]
         /\ \A q \in Req \ {r} : /\ pc'[q] = pc[q] /\ seen'[q] = seen[q]
                                 /\ fresh'[q] = fresh[q]
         /\ \/ disk' = disk /\ pc'[r] # "publish"
            \/ disk' = fresh[r] /\ pc[r] = "save" /\ pc'[r] \in {"publish", "done"}
         /\ pc'[r] \in {"granted", "save", "publish"} =>
              \/ pc[r] = "sent" /\ fresh'[r].acc = granted + 1
              \/ pc[r] \in {"granted", "save"} /\ fresh'[r] = fresh[r]
         /\ pc'[r] \in {"loaded", "reloaded"} => seen'[r] = disk
         /\ IF pc[r] = "publish" THEN published' = [published EXCEPT ![Home[r]] = fresh[r].acc]
                                 ELSE published' = published
  <1>0. r \in Owner /\ Login # r /\ Login \in Owner /\ \A q \in Req : q \in Owner
    BY ConstantsOK DEF Owner
  <1> USE <1>0
  <1>1. CASE EnterGate(r) \/ AfterLoad(r) \/ TakeLock(r) \/ AfterReload(r) \/ ExchangeFails(r)
    <2>1. /\ UNCHANGED <<disk, login, published>> /\ pc[r] # "publish"
          /\ (\E token : Ends(r, token)) \/ Continues(r, "load") \/ Continues(r, "flock")
             \/ Continues(r, "reload") \/ Continues(r, "sent")
      BY <1>1 DEF EnterGate, AfterLoad, TakeLock, AfterReload, ExchangeFails
    <2> QED
      BY <2>1, EndsDoes, ContinuesDoes
  <1>2. CASE Read(r)
    BY <1>2 DEF Read, GoesTo, TypeOK
  <1>3. CASE \E rotates \in BOOLEAN : Grant(r, rotates)
    BY <1>3 DEF Grant, GoesTo, TypeOK
  <1>4. CASE Answer(r) \/ Save(r)
    <2>1. /\ UNCHANGED <<login, published>> /\ pc[r] \in {"granted", "save"}
          /\ \/ Continues(r, "save") /\ UNCHANGED disk
             \/ Continues(r, "publish") /\ disk' = fresh[r] /\ pc[r] = "save"
      BY <1>4 DEF Answer, Save
    <2> QED
      BY <2>1, ContinuesDoes
  <1>5. CASE SaveFails(r)
    BY <1>5, EndsDoes DEF SaveFails
  <1>6. CASE Publish(r)
    BY <1>6, EndsDoes DEF Publish
  <1> QED
    BY <1>1, <1>2, <1>3, <1>4, <1>5, <1>6 DEF Task

\* What it does to the cache.
LEMMA TaskCaches ==
  ASSUME TypeOK, NEW r \in Req, Task(r), NEW p \in Proc
  PROVE  /\ \/ cache'[p] = cache[p] \/ cache'[p].held # "token"
            \/ /\ p = Home[r] /\ cache'[p].tok = seen[r] /\ seen[r] # NoTokens
               /\ pc[r] \in {"loaded", "reloaded"}
            \/ p = Home[r] /\ cache'[p].tok = fresh[r] /\ pc[r] = "publish"
         /\ check'[p] = check[p] \/ check'[p].stage # "read"
         /\ pc[r] = "publish" /\ p = Home[r] =>
              cache'[p].tok = fresh[r] /\ check'[p].stage # "read"
  <1>0. Home[r] \in Proc
    BY ConstantsOK
  <1> USE <1>0
  <1>1. CASE EnterGate(r)
    BY <1>1, GetDoes DEF EnterGate, NoEntry, Superseded, Running
  <1>2. CASE AfterLoad(r) \/ AfterReload(r)
    <2>1. pc[r] \in {"loaded", "reloaded"} /\ (Store(Home[r], seen[r]) \/ UNCHANGED caches)
      BY <1>2 DEF AfterLoad, AfterReload
    <2> QED
      BY <2>1, StoreDoes DEF caches, Superseded
  <1>3. CASE Publish(r)
    BY <1>3, StoreDoes DEF Publish, Superseded
  <1>4. CASE \/ Read(r) \/ TakeLock(r) \/ Answer(r) \/ ExchangeFails(r) \/ Save(r) \/ SaveFails(r)
             \/ \E rotates \in BOOLEAN : Grant(r, rotates)
    BY <1>4 DEF Read, TakeLock, Answer, ExchangeFails, Save, SaveFails, Grant, caches
  <1> QED
    BY <1>1, <1>2, <1>3, <1>4 DEF Task

\* Who holds the lock is alone; who is behind a gate is alone there.
LEMMA Alone ==
  ASSUME TypeInv, LockInv, NEW r \in Req
  PROVE  /\ pc[r] \in AtLock => /\ login \notin {"locked", "ready"}
                                /\ \A q \in Req \ {r} : pc[q] \notin AtLock
         /\ \A q \in Req \ {r} : ~(pc[r] \in AtGate /\ pc[q] \in AtGate /\ Home[q] = Home[r])
  <1>1. pc[r] \in AtLock => login \notin {"locked", "ready"}
    BY ConstantsOK DEF LockInv
  <1>2. pc[r] \in AtLock => \A q \in Req \ {r} : pc[q] \notin AtLock
    BY DEF LockInv
  <1>3. \A q \in Req \ {r} : ~(pc[r] \in AtGate /\ pc[q] \in AtGate /\ Home[q] = Home[r])
    BY DEF TypeInv, GateInv
  <1> QED
    BY <1>1, <1>2, <1>3

LEMMA TaskInOrder ==
  ASSUME TypeInv, LockInv, KnownInv, FileInOrder, CacheInOrder, NEW r \in Req, Task(r)
  PROVE  FileInOrder' /\ CacheInOrder'
  <1>1. TypeOK
    BY DEF TypeInv
  <1>2. /\ UNCHANGED login /\ fresh'[Login] = fresh[Login]
        /\ \A q \in Req \ {r} : pc'[q] = pc[q] /\ seen'[q] = seen[q] /\ fresh'[q] = fresh[q]
    BY <1>1, TaskDoes
  <1>3. \/ disk' = disk /\ pc'[r] # "publish"
        \/ disk' = fresh[r] /\ pc[r] = "save" /\ pc'[r] \in {"publish", "done"}
    BY <1>1, TaskDoes
  <1>4. pc'[r] \in {"granted", "save", "publish"} =>
          \/ pc[r] = "sent" /\ fresh'[r].acc = granted + 1
          \/ pc[r] \in {"granted", "save"} /\ fresh'[r] = fresh[r]
    BY <1>1, TaskDoes
  <1>5. pc'[r] \in {"loaded", "reloaded"} => seen'[r] = disk
    BY <1>1, TaskDoes
  <1>6. IF pc[r] = "publish" THEN published' = [published EXCEPT ![Home[r]] = fresh[r].acc]
                             ELSE published' = published
    BY <1>1, TaskDoes
  <1>7. /\ granted \in Nat /\ disk.acc \in Nat /\ Home[r] \in Proc /\ NoTokens.acc = 0
        /\ \A p \in Proc : published[p] \in Nat
        /\ \A q \in Req : fresh[q].acc \in Nat /\ seen[q].acc \in Nat /\ Home[q] \in Proc
        /\ fresh[Login].acc \in Nat
    BY <1>1, Numbers
  <1>8. granted + 1 > disk.acc /\ \A p \in Proc : granted + 1 >= published[p]
    BY <1>7 DEF KnownInv
  <1>9. published \in [Proc -> 0..MaxGrant]
    BY <1>1 DEF TypeOK
  <1>10. \A p \in Proc : /\ published'[p] = published[p]
                            \/ (p = Home[r] /\ pc[r] = "publish" /\ published'[p] = fresh[r].acc)
                         /\ published'[p] # published[p] => pc[r] = "publish"
    BY <1>6, <1>9
  <1>11. pc[r] \in {"save", "publish"} =>
           /\ login \notin {"locked", "ready"}
           /\ \A q \in Req \ {r} : pc[q] \notin AtLock
    BY Alone DEF AtLock
  <1>12. FileInOrder'
    <2>1. ASSUME NEW q \in Req, pc'[q] \in {"granted", "save"} PROVE fresh'[q].acc > disk'.acc
      <3>1. CASE q = r
        <4>1. disk' = disk
          BY <1>3, <2>1, <3>1
        <4> QED
          BY <1>4, <1>8, <2>1, <3>1, <4>1 DEF FileInOrder
      <3>2. CASE q # r
        <4>1. disk' = disk
          BY <1>2, <1>3, <1>11, <2>1, <3>2 DEF AtLock
        <4> QED
          BY <1>2, <2>1, <3>2, <4>1 DEF FileInOrder
      <3> QED
        BY <3>1, <3>2
    <2>2. ASSUME NEW q \in Req, pc'[q] = "publish", disk' # NoTokens
          PROVE  disk'.acc >= fresh'[q].acc
      <3>1. CASE q = r
        <4>1. disk' = fresh[r] /\ fresh'[r] = fresh[r]
          BY <1>3, <1>4, <2>2, <3>1
        <4> QED
          BY <1>7, <3>1, <4>1
      <3>2. CASE q # r
        <4>1. disk' = disk
          BY <1>2, <1>3, <1>11, <2>2, <3>2 DEF AtLock
        <4> QED
          BY <1>2, <2>2, <3>2, <4>1 DEF FileInOrder
      <3> QED
        BY <3>1, <3>2
    <2>3. login = "ready" => disk' = disk
      BY <1>3, <1>11
    <2> QED
      BY <1>2, <2>1, <2>2, <2>3 DEF FileInOrder
  <1>13. ASSUME NEW p \in Proc, disk' # NoTokens PROVE disk'.acc >= published'[p]
    <2>1. CASE pc[r] = "publish" /\ p = Home[r]
      <3>1. disk' = disk /\ published'[p] = fresh[r].acc
        BY <1>3, <1>6, <1>9, <2>1
      <3> QED
        BY <1>13, <2>1, <3>1 DEF FileInOrder
    <2>2. CASE ~(pc[r] = "publish" /\ p = Home[r])
      <3>1. published'[p] = published[p]
        BY <1>10, <2>2
      <3> QED
        BY <1>3, <1>13, <3>1 DEF CacheInOrder
    <2> QED
      BY <2>1, <2>2
  <1>14. ASSUME NEW q \in Req, NEW p \in Proc, pc'[q] \in {"granted", "save", "publish"}
         PROVE  fresh'[q].acc >= published'[p]
    <2>1. CASE q = r
      <3>1. published'[p] = published[p]
        BY <1>4, <1>10, <1>14, <2>1
      <3> QED
        BY <1>4, <1>8, <1>14, <2>1, <3>1 DEF CacheInOrder
    <2>2. CASE q # r
      <3>1. pc[q] \in AtLock /\ pc[q] \in {"granted", "save", "publish"}
        BY <1>2, <1>14, <2>2 DEF AtLock
      <3>2. published'[p] = published[p]
        BY <1>10, <1>11, <2>2, <3>1
      <3> QED
        BY <1>2, <2>2, <3>1, <3>2 DEF CacheInOrder
    <2> QED
      BY <2>1, <2>2
  <1>15. ASSUME NEW p \in Proc, login' = "ready" PROVE fresh'[Login].acc >= published'[p]
    <2>1. published'[p] = published[p]
      BY <1>2, <1>10, <1>11, <1>15
    <2> QED
      BY <1>2, <1>15, <2>1 DEF CacheInOrder
  <1>16. ASSUME NEW q \in Req, pc'[q] \in {"loaded", "reloaded"}, seen'[q] # NoTokens
         PROVE  seen'[q].acc >= published'[Home[q]]
    <2>1. CASE q = r
      <3>1. disk' = disk /\ seen'[q] = disk
        BY <1>3, <1>5, <1>16, <2>1
      <3> QED
        BY <1>7, <1>13, <1>16, <3>1
    <2>2. CASE q # r
      <3>1. pc[q] \in {"loaded", "reloaded"} /\ seen'[q] = seen[q]
        BY <1>2, <1>16, <2>2
      <3>2. published'[Home[q]] = published[Home[q]]
        <4>1. pc[r] = "publish" => Home[q] # Home[r]
          BY <2>2, <3>1, Alone DEF AtGate
        <4> QED
          BY <1>7, <1>10, <4>1
      <3> QED
        BY <1>16, <3>1, <3>2 DEF CacheInOrder
    <2> QED
      BY <2>1, <2>2
  <1>17. ASSUME NEW p \in Proc, check'[p].stage = "read", check'[p].tok # NoTokens
         PROVE  check'[p].tok.acc >= published'[p]
    <2>1. check'[p] = check[p] /\ ~(pc[r] = "publish" /\ p = Home[r])
      BY <1>1, <1>17, TaskCaches
    <2>2. published'[p] = published[p]
      BY <1>10, <2>1
    <2> QED
      BY <1>17, <2>1, <2>2 DEF CacheInOrder
  <1>18. ASSUME NEW p \in Proc, cache'[p].held = "token"
         PROVE  cache'[p].tok.acc >= published'[p]
    <2>1. CASE pc[r] = "publish" /\ p = Home[r]
      <3>1. cache'[p].tok = fresh[r] /\ published'[p] = fresh[r].acc
        BY <1>1, <1>6, <1>9, <2>1, TaskCaches
      <3> QED
        BY <1>7, <3>1
    <2>2. CASE ~(pc[r] = "publish" /\ p = Home[r])
      <3>1. published'[p] = published[p]
        BY <1>10, <2>2
      <3>2. \/ cache'[p] = cache[p]
            \/ /\ p = Home[r] /\ cache'[p].tok = seen[r] /\ seen[r] # NoTokens
               /\ pc[r] \in {"loaded", "reloaded"}
        BY <1>1, <1>18, <2>2, TaskCaches
      <3> QED
        BY <1>18, <3>1, <3>2 DEF CacheInOrder, PublishedNeverRolledBack
    <2> QED
      BY <2>1, <2>2
  <1>19. CacheInOrder'
    BY ONLY <1>13, <1>14, <1>15, <1>16, <1>17, <1>18 DEF CacheInOrder, PublishedNeverRolledBack
  <1> QED
    BY <1>12, <1>19

LEMMA OrderStep ==
  ASSUME LoginLocksFirst, TypeInv, LockInv, KnownInv, FileInOrder, CacheInOrder, [Next]_vars
  PROVE  FileInOrder' /\ CacheInOrder'
  <1>0. /\ TypeOK /\ granted \in Nat /\ disk.acc \in Nat /\ NoTokens.acc = 0
        /\ \A p \in Proc : published[p] \in Nat
        /\ \A o \in Owner : fresh[o].acc \in Nat
        /\ \A r \in Req : r \in Owner /\ Home[r] \in Proc
        /\ Login \in Owner
    BY Numbers DEF TypeInv
  <1>1. ASSUME NEW r \in Req, Task(r) PROVE FileInOrder' /\ CacheInOrder'
    BY <1>1, TaskInOrder
  <1>2. ASSUME NEW r \in Req, Finish(r) PROVE FileInOrder' /\ CacheInOrder'
    <2>1. /\ UNCHANGED <<disk, cache, check, seen, fresh, login, published>>
          /\ pc'[r] = "idle" /\ \A q \in Req \ {r} : pc'[q] = pc[q]
      BY <1>0, <1>2 DEF Finish, caches, TypeOK
    <2> QED
      BY <2>1 DEF FileInOrder, CacheInOrder, PublishedNeverRolledBack
  <1>3. ASSUME NEW r \in Req, NEW rej \in 0..MaxGrant, Call(r, rej)
        PROVE  FileInOrder' /\ CacheInOrder'
    <2>1. UNCHANGED <<disk, login, published>> /\ Home[r] \in Proc /\ Get(Home[r], rej)
      BY <1>0, <1>3, CallDoes
    <2>2. /\ pc'[r] \in {"done", "gate"}
          /\ \A q \in Req \ {r} : /\ pc'[q] = pc[q] /\ seen'[q] = seen[q]
                                  /\ fresh'[q] = fresh[q]
          /\ fresh'[Login] = fresh[Login]
      <3>1. Login # r
        BY ConstantsOK
      <3> QED
        BY <1>0, <1>3, <3>1, CallDoes, EndsDoes
    <2>3. \A p \in Proc : /\ cache'[p] = cache[p] \/ cache'[p].held # "token"
                          /\ check'[p] = check[p] \/ check'[p].stage # "read"
      BY <1>0, <2>1, GetDoes DEF NoEntry, Superseded, Running
    <2>4. FileInOrder'
      BY <2>1, <2>2 DEF FileInOrder
    <2> QED
      BY <2>1, <2>2, <2>3, <2>4 DEF CacheInOrder, PublishedNeverRolledBack
  <1>4. ASSUME NEW p \in Proc, ReadCheck(p) \/ ApplyCheck(p) \/ AgeEntry(p) \/ Cooled(p)
        PROVE  FileInOrder' /\ CacheInOrder'
    <2>1. UNCHANGED <<disk, pc, seen, fresh, login, published>>
      BY <1>0, <1>4, ClockDoes
    <2>2. ASSUME NEW q \in Proc, cache'[q].held = "token"
          PROVE  cache'[q].tok.acc >= published[q]
      BY <1>0, <1>4, <2>2, ClockDoes DEF CacheInOrder, PublishedNeverRolledBack
    <2>3. ASSUME NEW q \in Proc, check'[q].stage = "read", check'[q].tok # NoTokens
          PROVE  check'[q].tok.acc >= published[q]
      BY <1>0, <1>4, <2>3, ClockDoes DEF CacheInOrder, Superseded
    <2>4. FileInOrder'
      BY <2>1 DEF FileInOrder
    <2> QED
      BY <2>1, <2>2, <2>3, <2>4 DEF CacheInOrder, PublishedNeverRolledBack
  <1>5. ASSUME NEW p \in Proc, Crash(p) PROVE FileInOrder' /\ CacheInOrder'
    <2>1. FileInOrder'
      BY <1>0, <1>5, CrashDoes DEF FileInOrder
    <2>2. /\ UNCHANGED <<disk, login>> /\ fresh'[Login] = fresh[Login]
          /\ \A r \in Req : \/ /\ Home[r] # p /\ pc'[r] = pc[r] /\ seen'[r] = seen[r]
                               /\ fresh'[r] = fresh[r]
                            \/ pc'[r] = "idle"
          /\ \A q \in Proc : \/ /\ cache'[q] = cache[q] /\ check'[q] = check[q]
                                /\ published'[q] = published[q]
                             \/ /\ q = p /\ cache'[q].held = "none" /\ check'[q].stage = "none"
                                /\ published'[q] = 0
      BY <1>0, <1>5, CrashDoes DEF NoEntry, Superseded
    <2>3. \A r \in Req : pc'[r] # "idle" => published'[Home[r]] = published[Home[r]]
      BY <1>0, <1>5, CrashDoes
    <2>4. \A q \in Proc, n \in Nat : n >= published[q] => n >= published'[q]
      BY <1>0, <2>2
    <2>5. \A q \in Proc : disk' # NoTokens => disk'.acc >= published'[q]
      BY <1>0, <2>2, <2>4 DEF CacheInOrder
    <2>6. \A r \in Req, q \in Proc :
            pc'[r] \in {"granted", "save", "publish"} => fresh'[r].acc >= published'[q]
      BY <1>0, <2>2, <2>4 DEF CacheInOrder
    <2>7. \A q \in Proc : login' = "ready" => fresh'[Login].acc >= published'[q]
      BY <1>0, <2>2, <2>4 DEF CacheInOrder
    <2>8. \A r \in Req : pc'[r] \in {"loaded", "reloaded"} /\ seen'[r] # NoTokens
                           => seen'[r].acc >= published'[Home[r]]
      BY <2>2, <2>3 DEF CacheInOrder
    <2>9. \A q \in Proc : /\ check'[q].stage = "read" /\ check'[q].tok # NoTokens
                               => check'[q].tok.acc >= published'[q]
                          /\ cache'[q].held = "token" => cache'[q].tok.acc >= published'[q]
      BY <2>2 DEF CacheInOrder, PublishedNeverRolledBack
    <2> QED
      BY ONLY <2>1, <2>5, <2>6, <2>7, <2>8, <2>9 DEF CacheInOrder, PublishedNeverRolledBack
  <1>6. CASE LoginLock \/ LoginGrant \/ LoginSave \/ LoginFails
    <2>1. /\ UNCHANGED <<cache, check, pc, seen, published>>
          /\ \A r \in Req : fresh'[r] = fresh[r]
          /\ disk' = disk \/ (login = "ready" /\ disk' = fresh[Login] /\ login' = "idle")
          /\ login' = "ready" => fresh'[Login].acc = granted + 1 /\ login = "locked"
          /\ login' # "granted"
      BY <1>0, <1>6, LoginDoes DEF FileInOrder
    <2>2. disk' = disk \/ \A r \in Req : pc[r] \notin AtLock
      BY <2>1, Alone
    <2>3. /\ granted + 1 > disk.acc /\ \A p \in Proc : granted + 1 >= published[p]
      BY <1>0 DEF KnownInv
    <2>4. login' = "ready" => disk' = disk
      BY <2>1
    <2>5. FileInOrder'
      <3>1. login' = "ready" => fresh'[Login].acc > disk'.acc
        BY <2>1, <2>3, <2>4
      <3>2. ASSUME NEW r \in Req
            PROVE  /\ pc'[r] \in {"granted", "save"} => fresh'[r].acc > disk'.acc
                   /\ pc'[r] = "publish" /\ disk' # NoTokens => disk'.acc >= fresh'[r].acc
        BY <2>1, <2>2 DEF FileInOrder, AtLock
      <3> QED
        BY <2>1, <3>1, <3>2 DEF FileInOrder
    <2>6. \A p \in Proc : disk' # NoTokens => disk'.acc >= published'[p]
      BY <2>1 DEF CacheInOrder
    <2>7. \A p \in Proc : login' = "ready" => fresh'[Login].acc >= published'[p]
      BY <2>1, <2>3
    <2> QED
      BY <2>1, <2>5, <2>6, <2>7 DEF CacheInOrder, PublishedNeverRolledBack
  <1>7. CASE Remove
    <2>1. disk' = NoTokens /\ UNCHANGED <<cache, check, pc, seen, fresh, login, published>>
      BY <1>7 DEF Remove, caches
    <2>2. \A n \in Nat : n > disk.acc => n > 0
      BY <1>0
    <2>3. FileInOrder'
      BY <1>0, <2>1, <2>2 DEF FileInOrder
    <2> QED
      BY <2>1, <2>3 DEF CacheInOrder, PublishedNeverRolledBack
  <1>8. CASE (\E g \in Expiring : Expire(g)) \/ UNCHANGED vars
    BY <1>8 DEF Expire, vars, caches, FileInOrder, CacheInOrder, PublishedNeverRolledBack
  <1> QED
    BY <1>1, <1>2, <1>3, <1>4, <1>5, <1>6, <1>7, <1>8 DEF Next

LEMMA OrderInvariant ==
  ASSUME LoginLocksFirst
  PROVE  Spec => [](TypeInv /\ LockInv /\ KnownInv /\ FileInOrder /\ CacheInOrder)
  <1>1. Init => KnownInv /\ FileInOrder /\ CacheInOrder
    BY ConstantsOK
    DEF Init, KnownInv, CachesKnown, CallersKnown, FileInOrder, CacheInOrder,
        PublishedNeverRolledBack, NoEntry, NoTokens, Superseded
  <1>2. TypeInv /\ LockInv /\ KnownInv /\ FileInOrder /\ CacheInOrder /\ [Next]_vars
          => KnownInv' /\ FileInOrder' /\ CacheInOrder'
    BY KnownStep, OrderStep
  <1> QED
    BY <1>1, <1>2, LockInvariant, PTL DEF Spec

\* Once a process has published a refreshed token, no background check, no other task and no
\* other process brings an older one back into its cache. A login that is granted its tokens
\* before it takes the lock, as Codex's is, can: it writes tokens older than a refresh.
THEOREM NoRollBack == ASSUME LoginLocksFirst PROVE Spec => []PublishedNeverRolledBack
  <1>1. CacheInOrder => PublishedNeverRolledBack
    BY DEF CacheInOrder
  <1> QED
    BY <1>1, OrderInvariant, PTL

\* No refresh, login, crash or failed write takes the credential file back to an older grant:
\* who writes it was granted its tokens after the file was written last.
THEOREM FileMovesForward == ASSUME LoginLocksFirst PROVE Spec => FileNeverRollsBack
  <1>1. ASSUME TypeInv, LockInv, KnownInv, FileInOrder, [Next]_vars
        PROVE  [disk # NoTokens /\ disk' # NoTokens => disk'.acc >= disk.acc]_disk
    <2>1. TypeOK /\ disk.acc \in Nat /\ fresh[Login].acc \in Nat
          /\ \A r \in Req : fresh[r].acc \in Nat
      BY <1>1, Numbers DEF TypeInv
    <2>2. CASE disk' = disk
      BY <2>2
    <2>3. ASSUME NEW r \in Req, Task(r), disk' # disk PROVE disk'.acc >= disk.acc
      <3>1. disk' = fresh[r] /\ pc[r] = "save"
        BY <2>1, <2>3, TaskDoes
      <3> QED
        BY <1>1, <2>1, <3>1 DEF FileInOrder
    <2>4. ASSUME LoginLock \/ LoginGrant \/ LoginSave \/ LoginFails, disk' # disk
          PROVE  disk'.acc >= disk.acc
      <3>1. login = "ready" /\ disk' = fresh[Login]
        BY <2>1, <2>4, LoginDoes
      <3> QED
        BY <1>1, <2>1, <3>1 DEF FileInOrder
    <2>5. ASSUME NEW p \in Proc, ReadCheck(p) \/ ApplyCheck(p) \/ AgeEntry(p) \/ Cooled(p)
          PROVE  disk' = disk
      BY <2>1, <2>5, ClockDoes
    <2>6. ASSUME NEW p \in Proc, Crash(p) PROVE disk' = disk
      BY <2>1, <2>6, CrashDoes
    <2>7. ASSUME NEW r \in Req, \/ Finish(r) \/ \E rej \in 0..MaxGrant : Call(r, rej)
          PROVE  disk' = disk
      BY <2>7 DEF Finish, Call
    <2>8. CASE Remove
      BY <2>8 DEF Remove
    <2>9. CASE (\E g \in Expiring : Expire(g)) \/ UNCHANGED vars
      BY <2>9 DEF Expire, vars
    <2> QED
      BY <1>1, <2>2, <2>3, <2>4, <2>5, <2>6, <2>7, <2>8, <2>9 DEF Next
  <1> QED
    BY <1>1, OrderInvariant, PTL DEF Spec, FileNeverRollsBack
==============================================================================
