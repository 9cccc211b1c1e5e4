-------------------------- MODULE SessionStoreProofs --------------------------
(***************************************************************************)
(* The session store is right for any number of sessions, handlers,        *)
(* restarts and any lifetime: sessions are kept while they are live,       *)
(* revoked for good, and Validate answers the truth.                       *)
(***************************************************************************)
EXTENDS SessionStore, TLAPS

\* What the map holds is what Create handed out, and ids are handed out once.
StoreInv ==
  /\ StoreTypeOK
  /\ \A i \in Ids : sessions[i] = None \/ sessions[i] = expiry[i]
  /\ \A i \in revoked : expiry[i] # None
  /\ storeSweep # None => storeSweep <= clock
  /\ \A h \in Handlers : storePc[h] = "create" =>
       /\ id[h] \in Ids /\ expires[h] # None /\ expiry[id[h]] = None
       /\ \A g \in Handlers : g # h /\ storePc[g] = "create" => id[g] # id[h]

\* A call of Validate that is under way has seen what it is going to answer.
CallInv(h) ==
  storePc[h] = "validate" =>
    /\ id[h] \in Ids /\ expiry[id[h]] # None
    /\ expires[h] = None \/ expires[h] = expiry[id[h]]
    /\ IF Unexpired(expires[h], clock) THEN wasGood[h] ELSE wasBad[h]

\* The inductive invariant of the store.
SessionIInv ==
  /\ StoreInv
  /\ LiveKept
  /\ RevokedGone
  /\ \A h \in Handlers : CallInv(h)
  /\ ValidateTruthful

-----------------------------------------------------------------------------
\* Nothing has been handed out at the start.
LEMMA StoreInvInit == StoreInit => StoreInv
<1>1. None \notin Nat
  BY DEF None
<1> QED BY <1>1, SessionAssumption DEF SessionAssumption, StoreInit, StoreInv, StoreTypeOK

\* Every step keeps the map, the history of Create and the pending creations in
\* agreement.
LEMMA StoreInvStep == ASSUME StoreInv, [StoreNext]_storeVars PROVE StoreInv'
<1>0. /\ StoreTypeOK /\ TTL \in Nat \ {0} /\ MaxTime \in Nat /\ MaxRestarts \in Nat
      /\ None \notin Ids /\ None \notin Nat
  BY SessionAssumption DEF SessionAssumption, StoreInv, None
<1>1. CASE StoreTick
  <2>1. clock' \in 0..MaxTime /\ clock <= clock'
    BY <1>0, <1>1 DEF StoreTick, StoreTypeOK
  <2>2. storeSweep' # None => storeSweep' <= clock'
    BY <1>0, <1>1, <2>1 DEF StoreTick, StoreInv, StoreTypeOK
  <2>3. StoreTypeOK'
    BY <1>0, <1>1, <2>1 DEF StoreTick, StoreTypeOK, Observe, Unexpired
  <2> QED BY <1>1, <2>2, <2>3 DEF StoreTick, StoreInv
<1>2. ASSUME NEW h \in Handlers, NEW i \in Ids, CreateCompute(h, i) PROVE StoreInv'
  <2>1. clock + TTL \in Nat /\ clock + TTL # None
    BY <1>0 DEF StoreTypeOK
  <2>2. StoreTypeOK'
    BY <1>0, <1>2, <2>1 DEF CreateCompute, StoreTypeOK, shared
  <2>3. ASSUME NEW g \in Handlers, storePc'[g] = "create"
        PROVE  /\ id'[g] \in Ids /\ expires'[g] # None /\ expiry'[id'[g]] = None
               /\ \A f \in Handlers : f # g /\ storePc'[f] = "create" => id'[f] # id'[g]
    BY <1>0, <1>2, <2>1, <2>3 DEF CreateCompute, StoreInv, StoreTypeOK, shared
  <2> QED BY <1>2, <2>2, <2>3 DEF CreateCompute, StoreInv, shared
<1>3. ASSUME NEW h \in Handlers, CreateStore(h) PROVE StoreInv'
  <2>1. id[h] \in Ids /\ expires[h] \in Nat
    BY <1>0, <1>3 DEF CreateStore, StoreInv, StoreTypeOK
  <2>2. StoreTypeOK'
    BY <1>0, <1>3, <2>1 DEF CreateStore, StoreTypeOK, Observe, Unexpired
  <2>3. \A i \in Ids : sessions'[i] = None \/ sessions'[i] = expiry'[i]
    BY <1>0, <1>3, <2>1 DEF CreateStore, StoreInv, StoreTypeOK
  <2>4. \A i \in revoked' : expiry'[i] # None
    BY <1>0, <1>3, <2>1 DEF CreateStore, StoreInv, StoreTypeOK
  <2>5. ASSUME NEW g \in Handlers, storePc'[g] = "create"
        PROVE  /\ id'[g] \in Ids /\ expires'[g] # None /\ expiry'[id'[g]] = None
               /\ \A f \in Handlers : f # g /\ storePc'[f] = "create" => id'[f] # id'[g]
    <3>1. g # h /\ storePc[g] = "create" /\ id'[g] = id[g] /\ expires'[g] = expires[g]
      BY <1>0, <1>3, <2>5 DEF CreateStore, StoreTypeOK
    <3>2. id[g] \in Ids /\ expires[g] # None /\ expiry[id[g]] = None /\ id[g] # id[h]
      BY <1>3, <3>1 DEF CreateStore, StoreInv
    <3>3. expiry'[id[g]] = None
      BY <1>0, <1>3, <3>2 DEF CreateStore, StoreTypeOK
    <3>4. \A f \in Handlers : f # g /\ storePc'[f] = "create" => id'[f] # id'[g]
      BY <1>0, <1>3, <3>1 DEF CreateStore, StoreInv, StoreTypeOK
    <3> QED BY <3>1, <3>2, <3>3, <3>4
  <2> QED BY <1>3, <2>2, <2>3, <2>4, <2>5 DEF CreateStore, StoreInv
<1>4. ASSUME NEW h \in Handlers, NEW i \in Ids, ValidateLookup(h, i) PROVE StoreInv'
  <2>1. StoreTypeOK'
    BY <1>0, <1>4 DEF ValidateLookup, StoreTypeOK, shared, ValidNow, Unexpired
  <2> QED BY <1>0, <1>4, <2>1 DEF ValidateLookup, StoreInv, StoreTypeOK, shared
<1>5. ASSUME NEW h \in Handlers, ValidateDecide(h) PROVE StoreInv'
  <2>1. StoreTypeOK'
    BY <1>0, <1>5 DEF ValidateDecide, StoreTypeOK, shared
  <2> QED BY <1>0, <1>5, <2>1 DEF ValidateDecide, StoreInv, StoreTypeOK, shared
<1>6. ASSUME NEW h \in Handlers, NEW i \in Ids, Revoke(h, i) PROVE StoreInv'
  <2>1. StoreTypeOK'
    BY <1>0, <1>6 DEF Revoke, StoreTypeOK, Observe, Unexpired
  <2> QED BY <1>0, <1>6, <2>1 DEF Revoke, StoreInv, StoreTypeOK
<1>7. CASE StoreSweepClock
  BY <1>0, <1>7 DEF StoreSweepClock, StoreInv, StoreTypeOK
<1>8. CASE SweepDelete
  <2>1. StoreTypeOK'
    BY <1>0, <1>8 DEF SweepDelete, StoreTypeOK, Observe, Unexpired
  <2> QED BY <1>0, <1>8, <2>1 DEF SweepDelete, StoreInv, StoreTypeOK
<1>9. CASE Restart
  BY <1>0, <1>9 DEF Restart, StoreInv, StoreTypeOK
<1>10. CASE UNCHANGED storeVars
  BY <1>10 DEF storeVars, StoreInv, StoreTypeOK
<1> QED BY <1>1, <1>2, <1>3, <1>4, <1>5, <1>6, <1>7, <1>8, <1>9, <1>10 DEF StoreNext

\* The sweep deletes what has expired only, and new and revoked sessions differ.
LEMMA KeptStep ==
  ASSUME StoreInv, LiveKept, RevokedGone, [StoreNext]_storeVars PROVE LiveKept' /\ RevokedGone'
<1>0. StoreTypeOK /\ None \notin Ids /\ None \notin Nat /\ clock \in Int
  BY SessionAssumption DEF SessionAssumption, StoreInv, None, StoreTypeOK
<1>1. CASE StoreTick
  <2>1. clock' = clock + 1
    BY <1>1 DEF StoreTick
  <2>2. LiveKept'
    BY <1>0, <1>1, <2>1 DEF StoreTick, LiveKept, StoreTypeOK
  <2> QED BY <1>1, <2>2 DEF StoreTick, RevokedGone
<1>2. ASSUME NEW h \in Handlers, NEW i \in Ids,
             CreateCompute(h, i) \/ ValidateLookup(h, i)
      PROVE  LiveKept' /\ RevokedGone'
  BY <1>2 DEF CreateCompute, ValidateLookup, shared, LiveKept, RevokedGone
<1>3. ASSUME NEW h \in Handlers, CreateStore(h) PROVE LiveKept' /\ RevokedGone'
  <2>1. id[h] \in Ids /\ id[h] \notin revoked
    BY <1>3 DEF CreateStore, StoreInv
  <2> QED BY <1>0, <1>3, <2>1 DEF CreateStore, LiveKept, RevokedGone, StoreTypeOK
<1>4. ASSUME NEW h \in Handlers, ValidateDecide(h) PROVE LiveKept' /\ RevokedGone'
  BY <1>4 DEF ValidateDecide, shared, LiveKept, RevokedGone
<1>5. ASSUME NEW h \in Handlers, NEW i \in Ids, Revoke(h, i)
      PROVE  LiveKept' /\ RevokedGone'
  BY <1>0, <1>5 DEF Revoke, LiveKept, RevokedGone, StoreTypeOK
<1>6. CASE StoreSweepClock
  BY <1>6 DEF StoreSweepClock, LiveKept, RevokedGone
<1>7. CASE SweepDelete
  <2>1. storeSweep \in Int /\ storeSweep <= clock
    BY <1>0, <1>7 DEF SweepDelete, StoreInv, StoreTypeOK
  <2>2. ASSUME NEW i \in Ids, i \notin revoked, expiry[i] # None, expiry[i] >= clock
        PROVE  sessions'[i] = expiry[i]
    <3>1. sessions[i] = expiry[i] /\ expiry[i] \in Nat
      BY <1>0, <2>2 DEF LiveKept, StoreTypeOK
    <3>2. ~Stale(i)
      BY <1>0, <2>1, <2>2, <3>1 DEF Stale
    <3> QED BY <1>7, <3>1, <3>2 DEF SweepDelete
  <2>3. RevokedGone'
    BY <1>0, <1>7 DEF SweepDelete, RevokedGone, StoreTypeOK
  <2> QED BY <1>7, <2>2, <2>3 DEF SweepDelete, LiveKept
<1>8. CASE Restart
  BY <1>0, <1>8 DEF Restart, LiveKept, RevokedGone, StoreTypeOK
<1>9. CASE UNCHANGED storeVars
  BY <1>9 DEF storeVars, LiveKept, RevokedGone
<1> QED BY <1>1, <1>2, <1>3, <1>4, <1>5, <1>6, <1>7, <1>8, <1>9 DEF StoreNext

\* A step that another actor takes during a call of Validate: the call keeps its
\* place, and what the step shows of the session keeps its answer true.
LEMMA ObservedCall ==
  ASSUME StoreInv, NEW h \in Handlers, CallInv(h), StoreTypeOK',
         storePc'[h] = storePc[h], id'[h] = id[h], expires'[h] = expires[h],
         \A i \in Ids : expiry[i] # None => expiry'[i] = expiry[i],
         \A i \in Ids : sessions'[i] = None \/ sessions'[i] = expiry'[i],
         Observe(sessions', clock'), clock <= clock'
  PROVE  CallInv(h)'
<1> SUFFICES ASSUME storePc[h] = "validate" PROVE CallInv(h)'
  BY DEF CallInv
<1>0. StoreTypeOK /\ None \notin Nat /\ clock \in Int /\ clock' \in Int
  BY DEF StoreInv, StoreTypeOK, None
<1>1. /\ id[h] \in Ids /\ expiry[id[h]] # None
      /\ expires[h] = None \/ expires[h] = expiry[id[h]]
      /\ IF Unexpired(expires[h], clock) THEN wasGood[h] ELSE wasBad[h]
  BY DEF CallInv
<1>2. expiry'[id[h]] = expiry[id[h]]
  BY <1>1
<1>3. /\ wasGood[h] => wasGood'[h]
      /\ wasBad[h] \/ ~Unexpired(sessions'[id[h]], clock') => wasBad'[h]
  BY Zenon DEF Observe
<1>4. CASE Unexpired(expires[h], clock')
  <2>1. Unexpired(expires[h], clock)
    BY <1>0, <1>4 DEF Unexpired, StoreTypeOK
  <2> QED BY <1>1, <1>2, <1>3, <1>4, <2>1 DEF CallInv
<1>5. CASE ~Unexpired(expires[h], clock')
  <2>1. CASE ~Unexpired(expires[h], clock)
    BY <1>1, <1>2, <1>3, <1>5, <2>1 DEF CallInv
  <2>2. CASE Unexpired(expires[h], clock)
    <3>1. expires[h] = expiry[id[h]]
      BY <1>1, <2>2 DEF Unexpired
    <3>2. ~Unexpired(sessions'[id[h]], clock')
      BY <1>1, <1>2, <1>5, <3>1 DEF Unexpired
    <3> QED BY <1>1, <1>2, <1>3, <1>5, <3>2 DEF CallInv
  <2> QED BY <2>1, <2>2
<1> QED BY <1>4, <1>5

\* A call of Validate has seen what it is going to answer, after every step.
LEMMA CallStep ==
  ASSUME StoreInv, StoreInv', [StoreNext]_storeVars, NEW h \in Handlers, CallInv(h)
  PROVE  CallInv(h)'
<1>0. /\ StoreTypeOK /\ StoreTypeOK' /\ clock \in Int
      /\ \A i \in Ids : sessions'[i] = None \/ sessions'[i] = expiry'[i]
  BY DEF StoreInv, StoreTypeOK
<1>1. CASE StoreTick
  <2>1. clock' = clock + 1 /\ Observe(sessions', clock')
    BY <1>1 DEF StoreTick, Observe
  <2>2. clock <= clock'
    BY <1>0, <2>1
  <2> QED BY <1>0, <1>1, <2>1, <2>2, ObservedCall DEF StoreTick
<1>2. ASSUME NEW g \in Handlers, NEW i \in Ids, CreateCompute(g, i) PROVE CallInv(h)'
  <2>1. CASE g = h
    BY <1>0, <1>2, <2>1 DEF CreateCompute, CallInv, StoreTypeOK
  <2>2. CASE g # h
    BY <1>0, <1>2, <2>2 DEF CreateCompute, CallInv, StoreTypeOK, shared
  <2> QED BY <2>1, <2>2
<1>3. ASSUME NEW g \in Handlers, CreateStore(g) PROVE CallInv(h)'
  <2>1. CASE g = h
    BY <1>0, <1>3, <2>1 DEF CreateStore, CallInv, StoreTypeOK
  <2>2. CASE g # h
    <3>1. \A i \in Ids : expiry[i] # None => expiry'[i] = expiry[i]
      BY <1>0, <1>3 DEF CreateStore, StoreInv, StoreTypeOK
    <3>2. storePc'[h] = storePc[h] /\ id'[h] = id[h] /\ expires'[h] = expires[h]
      BY <1>0, <1>3, <2>2 DEF CreateStore, StoreTypeOK
    <3>3. Observe(sessions', clock') /\ clock <= clock'
      BY <1>0, <1>3 DEF CreateStore, Observe
    <3> QED BY <1>0, <3>1, <3>2, <3>3, ObservedCall
  <2> QED BY <2>1, <2>2
<1>4. ASSUME NEW g \in Handlers, NEW i \in Ids, ValidateLookup(g, i) PROVE CallInv(h)'
  <2>1. CASE g = h
    <3>1. /\ id'[h] = i /\ expires'[h] = sessions[i] /\ expiry' = expiry /\ clock' = clock
          /\ wasGood'[h] = ValidNow(i) /\ wasBad'[h] = ~ValidNow(i) /\ expiry[i] # None
      BY <1>0, <1>4, <2>1 DEF ValidateLookup, StoreTypeOK, shared
    <3>2. sessions[i] = None \/ sessions[i] = expiry[i]
      BY DEF StoreInv
    <3> QED BY <3>1, <3>2, Zenon DEF CallInv, ValidNow
  <2>2. CASE g # h
    BY <1>0, <1>4, <2>2 DEF ValidateLookup, CallInv, StoreTypeOK, shared
  <2> QED BY <2>1, <2>2
<1>5. ASSUME NEW g \in Handlers, ValidateDecide(g) PROVE CallInv(h)'
  BY <1>0, <1>5 DEF ValidateDecide, CallInv, StoreTypeOK, shared
<1>6. ASSUME NEW g \in Handlers, NEW i \in Ids, Revoke(g, i) PROVE CallInv(h)'
  <2>1. Observe(sessions', clock') /\ clock <= clock'
    BY <1>0, <1>6 DEF Revoke, Observe
  <2> QED BY <1>0, <1>6, <2>1, ObservedCall, Zenon DEF Revoke
<1>7. CASE StoreSweepClock
  BY <1>7 DEF StoreSweepClock, CallInv
<1>8. CASE SweepDelete
  <2>1. Observe(sessions', clock') /\ clock <= clock'
    BY <1>0, <1>8 DEF SweepDelete, Observe
  <2> QED BY <1>0, <1>8, <2>1, ObservedCall DEF SweepDelete
<1>9. CASE Restart
  BY <1>9 DEF Restart, CallInv
<1>10. CASE UNCHANGED storeVars
  BY <1>10 DEF storeVars, CallInv
<1> QED BY <1>1, <1>2, <1>3, <1>4, <1>5, <1>6, <1>7, <1>8, <1>9, <1>10 DEF StoreNext

\* Answers stay true: what a call has seen is not unseen.
LEMMA TruthfulStep ==
  ASSUME StoreInv, \A h \in Handlers : CallInv(h), ValidateTruthful, [StoreNext]_storeVars
  PROVE  ValidateTruthful'
<1>0. StoreTypeOK
  BY DEF StoreInv
<1>1. ASSUME NEW s, NEW t, Observe(s, t), answer' = answer PROVE ValidateTruthful'
  BY <1>1, Zenon DEF Observe, ValidateTruthful
<1>2. ASSUME NEW h \in Handlers, NEW i \in Ids, Revoke(h, i) PROVE ValidateTruthful'
  BY <1>0, <1>2 DEF Revoke, Observe, ValidateTruthful, StoreTypeOK
<1>3. ASSUME NEW h \in Handlers, NEW i \in Ids, ValidateLookup(h, i) PROVE ValidateTruthful'
  BY <1>0, <1>3 DEF ValidateLookup, ValidateTruthful, StoreTypeOK
<1>4. ASSUME NEW h \in Handlers, ValidateDecide(h) PROVE ValidateTruthful'
  <2>1. IF Unexpired(expires[h], clock) THEN wasGood[h] ELSE wasBad[h]
    BY <1>4 DEF ValidateDecide, CallInv
  <2>2. answer' = [answer EXCEPT ![h] = IF Unexpired(expires[h], clock) THEN "yes" ELSE "no"]
    BY <1>4 DEF ValidateDecide
  <2> QED BY <1>0, <1>4, <2>1, <2>2 DEF ValidateDecide, ValidateTruthful, StoreTypeOK
<1>5. ASSUME UNCHANGED <<wasGood, wasBad, answer>> PROVE ValidateTruthful'
  BY <1>5 DEF ValidateTruthful
<1>6. CASE Restart
  BY <1>6 DEF Restart, ValidateTruthful
<1>7. CASE StoreTick \/ SweepDelete \/ \E h \in Handlers : CreateStore(h)
  BY <1>1, <1>7 DEF StoreTick, SweepDelete, CreateStore
<1>8. CASE StoreSweepClock \/ \E h \in Handlers, i \in Ids : CreateCompute(h, i)
  BY <1>5, <1>8 DEF StoreSweepClock, CreateCompute
<1>9. CASE UNCHANGED storeVars
  BY <1>5, <1>9 DEF storeVars
<1> QED BY <1>2, <1>3, <1>4, <1>6, <1>7, <1>8, <1>9 DEF StoreNext

\* The invariant holds throughout, from the lemmas on its parts.
LEMMA SessionInductive == StoreSpec => []SessionIInv
<1>1. StoreInit => SessionIInv
  <2> SUFFICES ASSUME StoreInit PROVE SessionIInv
    OBVIOUS
  <2>1. LiveKept /\ RevokedGone /\ ValidateTruthful
    BY DEF StoreInit, LiveKept, RevokedGone, ValidateTruthful
  <2>2. \A h \in Handlers : CallInv(h)
    BY DEF StoreInit, CallInv
  <2> QED BY <2>1, <2>2, StoreInvInit DEF SessionIInv
<1>2. SessionIInv /\ [StoreNext]_storeVars => SessionIInv'
  <2> SUFFICES ASSUME SessionIInv, [StoreNext]_storeVars PROVE SessionIInv'
    OBVIOUS
  <2>1. StoreInv /\ StoreInv'
    BY StoreInvStep DEF SessionIInv
  <2>2. LiveKept' /\ RevokedGone'
    BY KeptStep DEF SessionIInv
  <2>3. \A h \in Handlers : CallInv(h)'
    BY <2>1, CallStep DEF SessionIInv
  <2>4. ValidateTruthful'
    BY TruthfulStep DEF SessionIInv
  <2> QED BY <2>1, <2>2, <2>3, <2>4 DEF SessionIInv
<1> QED BY <1>1, <1>2, PTL DEF StoreSpec

\* Nobody is logged out early: the map keeps every live session.
THEOREM SessionsKept == StoreSpec => []LiveKept
<1>1. SessionIInv => LiveKept
  BY DEF SessionIInv
<1> QED BY <1>1, SessionInductive, PTL

\* Revoke is final: no creation or late step brings a revoked session back.
THEOREM RevocationFinal == StoreSpec => []RevokedGone
<1>1. SessionIInv => RevokedGone
  BY DEF SessionIInv
<1> QED BY <1>1, SessionInductive, PTL

\* Validate answers what was true at some moment of the call, although it reads
\* the map and the clock apart.
THEOREM ValidateAnswersTrue == StoreSpec => []ValidateTruthful
<1>1. SessionIInv => ValidateTruthful
  BY DEF SessionIInv
<1> QED BY <1>1, SessionInductive, PTL

\* The two together: a session is in the map exactly as long as Create, Revoke and
\* its expiry say, for any number of handlers and sessions.
THEOREM SessionsAreExact == StoreSpec => []SessionsExact
  BY SessionsKept, RevocationFinal, PTL DEF SessionsExact
==============================================================================
