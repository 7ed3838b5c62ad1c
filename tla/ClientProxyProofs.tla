------------------------- MODULE ClientProxyProofs -------------------------
(***************************************************************************)
(* Proofs about ClientProxy, for any set of endpoints and any bound on ids.*)
(* The invariant couples the three places where high-visibility mode is    *)
(* visible: the flag itself, the thread that is inside Cancel(), and the   *)
(* alarm that would clear the cached id.  AdvertisedIdKept is inductive    *)
(* beside it once it is known which ids have been drawn (Drawn) and what a *)
(* session that was cut leaves behind (Emptied).                           *)
(***************************************************************************)
EXTENDS ClientProxy, TLAPS

\* A thread waiting in Cancel() remembers why: it is finishing
\* StartedAdvertising in high-visibility mode, or leaving that mode.
WaitingInv ==
  /\ waiting = "started" => highVis
  /\ waiting = "exit" => ~highVis
  /\ pc = "starting" => waiting = "no" /\ ~advertising

IInv == TypeOK /\ WaitingInv /\ NoExpiryWhileAdvertising /\ HighVisEnds

\* Leaving high-visibility mode keeps the alarm and the waiting flag typed and
\* explains the wait.
LEMMA ExitTyped ==
  ASSUME TypeOK, ExitHighVisibilityMode
  PROVE  /\ highVis' = FALSE
         /\ alarm' \in {"none", "scheduled", "started", "cleared"}
         /\ waiting' \in {"no", "exit"}
BY DEF TypeOK, ExitHighVisibilityMode, ScheduleClearAlarm

\* Asking for the local endpoint id keeps an id that exists and never draws
\* more ids than the bound.
LEMMA GetIdTyped ==
  ASSUME TypeOK, NEW hv \in BOOLEAN, NEW id \in Ids, GetLocalEndpointId(hv, id)
  PROVE  /\ fresh' \in Ids
         /\ localId # NoId => id = localId
BY MaxIdsAssumption DEF TypeOK, GetLocalEndpointId, Ids, NoId

\* Init establishes the invariant.
LEMMA InitInv == Init => IInv
<1> SUFFICES ASSUME Init PROVE IInv
  OBVIOUS
<1>1. 0 \in Ids
  BY MaxIdsAssumption DEF Ids
<1>2. TypeOK
  BY <1>1 DEF Init, TypeOK, NoId
<1>3. WaitingInv /\ NoExpiryWhileAdvertising /\ HighVisEnds
  BY DEF Init, WaitingInv, NoExpiryWhileAdvertising, HighVisEnds
<1> QED
  BY <1>2, <1>3 DEF IInv

\* Every step of every thread preserves the invariant.
LEMMA NextInv == IInv /\ [Next]_vars => IInv'
<1> SUFFICES ASSUME IInv, [Next]_vars PROVE IInv'
  OBVIOUS
<1> USE DEF IInv
<1>a. NoId \in Ids
  BY MaxIdsAssumption DEF NoId, Ids
<1>1. ASSUME NEW hv \in BOOLEAN, StartAdvertising(hv) PROVE IInv'
  <2>1. PICK id \in Ids : /\ GetLocalEndpointId(hv \/ highVis, id)
                          /\ localId' = id /\ advId' = id
    BY <1>1 DEF StartAdvertising
  <2>2. fresh' \in Ids
    BY <2>1, GetIdTyped DEF TypeOK
  <2>3. TypeOK'
    BY <1>1, <2>1, <2>2 DEF StartAdvertising, TypeOK, session
  <2>4. WaitingInv' /\ NoExpiryWhileAdvertising' /\ HighVisEnds'
    BY <1>1 DEF StartAdvertising, WaitingInv, NoExpiryWhileAdvertising,
                HighVisEnds, MutexFree, session
  <2> QED
    BY <2>3, <2>4
<1>2. CASE StartAdvertisingFails
  BY <1>2, <1>a, ExitTyped
     DEF StartAdvertisingFails, TypeOK, WaitingInv, NoExpiryWhileAdvertising,
         HighVisEnds, MutexFree, session
<1>3. CASE StartedAdvertising
  <2>1. TypeOK'
    BY <1>3 DEF StartedAdvertising, TypeOK
  <2>2. WaitingInv' /\ NoExpiryWhileAdvertising' /\ HighVisEnds'
    BY <1>3 DEF StartedAdvertising, TypeOK, WaitingInv,
                NoExpiryWhileAdvertising, HighVisEnds, MutexFree
  <2> QED
    BY <2>1, <2>2
<1>s. ASSUME DoStopAdvertising, MutexFree,
             pc' \in {"idle", "finish_discovery"}
      PROVE  IInv'
  <2>1. PICK id \in Ids : /\ GetLocalEndpointId(highVis, id)
                          /\ localId' = IF InSession' THEN id ELSE NoId
    BY <1>s DEF DoStopAdvertising
  <2>2. fresh' \in Ids /\ localId' \in Ids
    BY <1>a, <2>1, GetIdTyped DEF TypeOK
  <2>3. ExitHighVisibilityMode
    BY <1>s DEF DoStopAdvertising
  <2> QED
    BY <1>s, <1>a, <2>2, <2>3, ExitTyped
       DEF DoStopAdvertising, TypeOK, WaitingInv, NoExpiryWhileAdvertising,
           HighVisEnds, MutexFree
<1>4. CASE StopAdvertising
  BY <1>4, <1>s DEF StopAdvertising
<1>5. CASE StartDiscovery
  BY <1>5 DEF StartDiscovery, TypeOK, WaitingInv, NoExpiryWhileAdvertising,
              HighVisEnds, MutexFree, ids, thread
<1>d. ASSUME DoStopDiscovery, pc # "starting",
             pc' \in {"idle", "finish_reset"}
      PROVE  IInv'
  BY <1>d, <1>a
     DEF DoStopDiscovery, OnSessionComplete, TypeOK, WaitingInv,
         NoExpiryWhileAdvertising, HighVisEnds, MutexFree
<1>6. CASE StopDiscovery
  BY <1>6, <1>d DEF StopDiscovery
<1>7. CASE StartListening
  <2>1. PICK id \in Ids : GetLocalEndpointId(highVis, id) /\ localId' = id
    BY <1>7 DEF StartListening
  <2>2. fresh' \in Ids
    BY <2>1, GetIdTyped DEF TypeOK
  <2> QED
    BY <1>7, <2>1, <2>2
       DEF StartListening, TypeOK, WaitingInv, NoExpiryWhileAdvertising,
           HighVisEnds, MutexFree, session
<1>8. CASE StartedListening
  <2>1. PICK id \in Ids : GetLocalEndpointId(highVis, id) /\ localId' = id
    BY <1>8 DEF StartedListening
  <2>2. fresh' \in Ids
    BY <2>1, GetIdTyped DEF TypeOK
  <2> QED
    BY <1>8, <2>1, <2>2
       DEF StartedListening, TypeOK, WaitingInv, NoExpiryWhileAdvertising,
           HighVisEnds, MutexFree
<1>9. CASE StopListening
  BY <1>9 DEF StopListening, TypeOK, WaitingInv, NoExpiryWhileAdvertising,
              HighVisEnds, MutexFree, ids, thread
<1>10. ASSUME NEW e \in Endpoint, RequestConnection(e) PROVE IInv'
  <2>1. PICK id \in Ids : GetLocalEndpointId(highVis, id) /\ localId' = id
    BY <1>10 DEF RequestConnection
  <2>2. fresh' \in Ids
    BY <2>1, GetIdTyped DEF TypeOK
  <2> QED
    BY <1>10, <2>1, <2>2
       DEF RequestConnection, TypeOK, WaitingInv, NoExpiryWhileAdvertising,
           HighVisEnds, MutexFree, thread
<1>11. ASSUME NEW e \in Endpoint,
              OnIncomingConnection(e) \/ OnEncryptionFailure(e)
                \/ OnConnectionInitiated(e)
       PROVE IInv'
  BY <1>11
     DEF OnIncomingConnection, OnEncryptionFailure, OnConnectionInitiated, TypeOK,
         WaitingInv, NoExpiryWhileAdvertising, HighVisEnds, MutexFree, ids, thread
<1>12. ASSUME NEW e \in Endpoint, OnDisconnected(e) PROVE IInv'
  BY <1>12, <1>a
     DEF OnDisconnected, OnSessionComplete, TypeOK, WaitingInv,
         NoExpiryWhileAdvertising, HighVisEnds, MutexFree, thread
<1>13. CASE FinishStopAdvertising
  BY <1>13, <1>s DEF FinishStopAdvertising
<1>14. CASE FinishStopDiscovery
  BY <1>14, <1>d DEF FinishStopDiscovery
<1>15. CASE Reset
  BY <1>15, <1>a, ExitTyped
     DEF Reset, OnSessionComplete, TypeOK, WaitingInv, NoExpiryWhileAdvertising,
         HighVisEnds, MutexFree
<1>16. CASE AlarmStarts \/ AlarmClears \/ AlarmFinishes
  BY <1>16, <1>a
     DEF AlarmStarts, AlarmClears, AlarmFinishes, TypeOK, WaitingInv,
         NoExpiryWhileAdvertising, HighVisEnds, MutexFree, session, ids
<1>17. CASE CancelReturns
  BY <1>17
     DEF CancelReturns, ScheduleClearAlarm, TypeOK, WaitingInv,
         NoExpiryWhileAdvertising, HighVisEnds, MutexFree, ids
<1>18. CASE UNCHANGED vars
  BY <1>18 DEF vars, TypeOK, WaitingInv, NoExpiryWhileAdvertising, HighVisEnds
<1> QED
  BY <1>1, <1>2, <1>3, <1>4, <1>5, <1>6, <1>7, <1>8, <1>9, <1>10, <1>11,
     <1>12, <1>13, <1>14, <1>15, <1>16, <1>17, <1>18
     DEF Next

\* The inductive invariant holds in every reachable state.
THEOREM Invariance == Spec => []IInv
<1>1. Init => IInv BY InitInv
<1>2. IInv /\ [Next]_vars => IInv' BY NextInv
<1> QED BY <1>1, <1>2, PTL DEF Spec

\* Every variable keeps its type, ids stay within the bound.
THEOREM TypeCorrect == Spec => []TypeOK
<1>1. IInv => TypeOK BY DEF IInv
<1> QED BY <1>1, Invariance, PTL

\* During a high-visibility advertisement no alarm can clear the cached id.
THEOREM NoExpiry == Spec => []NoExpiryWhileAdvertising
<1>1. IInv => NoExpiryWhileAdvertising BY DEF IInv
<1> QED BY <1>1, Invariance, PTL

\* High-visibility mode ends with the advertisement it belongs to.
THEOREM HighVisibilityEnds == Spec => []HighVisEnds
<1>1. IInv => HighVisEnds BY DEF IInv
<1> QED BY <1>1, Invariance, PTL

\* A thread that asks for the local endpoint id gets one, and the id there is
\* when there is one.
LEMMA GetIdKeeps ==
  ASSUME TypeOK, NEW hv \in BOOLEAN, NEW id \in Ids, GetLocalEndpointId(hv, id)
  PROVE  /\ id # NoId
         /\ localId # NoId => id = localId
BY MaxIdsAssumption DEF TypeOK, GetLocalEndpointId, Ids, NoId

\* Ids in use were drawn, so that a new one differs from all of them.
Drawn == localId <= fresh /\ cacheId <= fresh /\ advId <= fresh

\* Whatever GetLocalEndpointId returns was drawn by then.
LEMMA GetIdDrawn ==
  ASSUME TypeOK, Drawn, NEW hv \in BOOLEAN, NEW id \in Ids, GetLocalEndpointId(hv, id)
  PROVE  id <= fresh' /\ fresh <= fresh' /\ fresh' \in Ids
BY MaxIdsAssumption DEF TypeOK, Drawn, GetLocalEndpointId, Ids

\* No step makes up an id without counting it.
LEMMA DrawnNext == ASSUME TypeOK, Drawn, [Next]_vars PROVE Drawn'
<1>t. /\ localId \in Ids /\ cacheId \in Ids /\ advId \in Ids /\ fresh \in Ids
      /\ Ids \subseteq Nat /\ NoId = 0 /\ highVis \in BOOLEAN
  BY MaxIdsAssumption DEF TypeOK, Ids, NoId
<1>1. ASSUME NEW hv \in BOOLEAN, StartAdvertising(hv) PROVE Drawn'
  <2>1. PICK id \in Ids : /\ GetLocalEndpointId(hv \/ highVis, id)
                          /\ localId' = id /\ advId' = id
    BY <1>1 DEF StartAdvertising
  <2>2. id <= fresh' /\ fresh <= fresh' /\ fresh' \in Ids
    BY <1>t, <2>1, GetIdDrawn
  <2>3. cacheId' = cacheId
    BY <1>1 DEF StartAdvertising
  <2> QED
    BY <1>t, <2>1, <2>2, <2>3 DEF Drawn
<1>2. CASE StartAdvertisingFails
  BY <1>2, <1>t DEF StartAdvertisingFails, Drawn
<1>3. CASE StartedAdvertising
  BY <1>3, <1>t DEF StartedAdvertising, Drawn
<1>4. CASE StopAdvertising \/ FinishStopAdvertising
  <2>1. PICK id \in Ids : /\ GetLocalEndpointId(highVis, id)
                          /\ localId' = IF InSession' THEN id ELSE NoId
    BY <1>4 DEF StopAdvertising, FinishStopAdvertising, DoStopAdvertising
  <2>2. id <= fresh' /\ fresh <= fresh' /\ fresh' \in Ids
    BY <1>t, <2>1, GetIdDrawn
  <2>3. cacheId' = cacheId /\ advId' = NoId
    BY <1>4 DEF StopAdvertising, FinishStopAdvertising, DoStopAdvertising
  <2> QED
    BY <1>t, <2>1, <2>2, <2>3 DEF Drawn
<1>5. CASE StopDiscovery \/ FinishStopDiscovery
  BY <1>5, <1>t DEF StopDiscovery, FinishStopDiscovery, DoStopDiscovery, OnSessionComplete, Drawn
<1>6. ASSUME NEW id \in Ids, GetLocalEndpointId(highVis, id), localId' = id,
             UNCHANGED <<cacheId, advId>>
      PROVE  Drawn'
  <2>1. id <= fresh' /\ fresh <= fresh' /\ fresh' \in Ids
    BY <1>6, <1>t, GetIdDrawn
  <2> QED
    BY <1>6, <1>t, <2>1 DEF Drawn
<1>7. CASE StartListening
  BY <1>6, <1>7 DEF StartListening
<1>8. CASE StartedListening
  BY <1>6, <1>8 DEF StartedListening
<1>9. ASSUME NEW e \in Endpoint, RequestConnection(e) PROVE Drawn'
  BY <1>6, <1>9 DEF RequestConnection
<1>10. ASSUME NEW e \in Endpoint, OnDisconnected(e) PROVE Drawn'
  BY <1>10, <1>t DEF OnDisconnected, OnSessionComplete, Drawn
<1>11. CASE Reset
  BY <1>11, <1>t DEF Reset, OnSessionComplete, Drawn
<1>12. CASE AlarmClears
  BY <1>12, <1>t DEF AlarmClears, Drawn
<1>13. CASE AlarmStarts \/ AlarmFinishes \/ CancelReturns \/ StartDiscovery \/ StopListening
  BY <1>13 DEF AlarmStarts, AlarmFinishes, CancelReturns, StartDiscovery, StopListening, ids, Drawn
<1>14. ASSUME NEW e \in Endpoint,
              OnIncomingConnection(e) \/ OnEncryptionFailure(e) \/ OnConnectionInitiated(e)
       PROVE  Drawn'
  BY <1>14 DEF OnIncomingConnection, OnEncryptionFailure, OnConnectionInitiated, ids, Drawn
<1>15. CASE UNCHANGED vars
  BY <1>15 DEF vars, Drawn
<1> QED
  BY <1>1, <1>2, <1>3, <1>4, <1>5, <1>7, <1>8, <1>9, <1>10, <1>11, <1>12, <1>13, <1>14, <1>15
     DEF Next

\* While the mediums are being started nobody draws an id, so one that a disconnection
\* emptied is still empty when StartedAdvertising caches it.
Emptied == pc = "starting" /\ cut => localId = NoId

\* Only StartAdvertising and OnDisconnected touch what it speaks of.
LEMMA EmptiedNext == ASSUME TypeOK, Emptied, [Next]_vars PROVE Emptied'
<1> USE DEF Emptied
<1>1. ASSUME NEW hv \in BOOLEAN, StartAdvertising(hv) PROVE Emptied'
  BY <1>1 DEF StartAdvertising
<1>2. CASE StartAdvertisingFails \/ StartedAdvertising \/ StartListening \/ StartedListening \/ Reset
  BY <1>2 DEF StartAdvertisingFails, StartedAdvertising, StartListening, StartedListening, Reset
<1>3. CASE StopAdvertising \/ FinishStopAdvertising \/ StopDiscovery \/ FinishStopDiscovery
  BY <1>3 DEF StopAdvertising, FinishStopAdvertising, StopDiscovery, FinishStopDiscovery
<1>4. CASE StartDiscovery \/ StopListening
  BY <1>4 DEF StartDiscovery, StopListening, thread
<1>5. ASSUME NEW e \in Endpoint, RequestConnection(e) PROVE Emptied'
  BY <1>5 DEF RequestConnection, thread
<1>6. ASSUME NEW e \in Endpoint, OnDisconnected(e) PROVE Emptied'
  BY <1>6 DEF OnDisconnected, OnSessionComplete, thread
<1>7. ASSUME NEW e \in Endpoint,
             OnIncomingConnection(e) \/ OnEncryptionFailure(e) \/ OnConnectionInitiated(e)
      PROVE  Emptied'
  BY <1>7 DEF OnIncomingConnection, OnEncryptionFailure, OnConnectionInitiated, ids, thread
<1>8. CASE AlarmStarts \/ AlarmFinishes \/ AlarmClears \/ CancelReturns
  BY <1>8 DEF AlarmStarts, AlarmFinishes, AlarmClears, CancelReturns, ids
<1>9. CASE UNCHANGED vars
  BY <1>9 DEF vars
<1> QED
  BY <1>1, <1>2, <1>3, <1>4, <1>5, <1>6, <1>7, <1>8, <1>9 DEF Next

\* Every step of every thread keeps the advertised id, the client's id and, in
\* high-visibility mode, the cached id equal, or apart once the session was cut.
LEMMA AdvertisedIdNext ==
  IInv /\ Drawn /\ Emptied /\ AdvertisedIdKept /\ [Next]_vars => AdvertisedIdKept'
<1> SUFFICES ASSUME IInv, Drawn, Emptied, AdvertisedIdKept, [Next]_vars PROVE AdvertisedIdKept'
  OBVIOUS
<1> USE DEF AdvertisedIdKept
<1>t. TypeOK /\ WaitingInv /\ highVis \in BOOLEAN
  BY DEF IInv, TypeOK
<1>1. ASSUME NEW hv \in BOOLEAN, StartAdvertising(hv) PROVE AdvertisedIdKept'
  <2>1. PICK id \in Ids : /\ GetLocalEndpointId(hv \/ highVis, id)
                          /\ localId' = id /\ advId' = id
    BY <1>1 DEF StartAdvertising
  <2>2. id # NoId
    BY <1>t, <2>1, GetIdKeeps
  <2>3. advertising' = FALSE /\ waiting' = "no" /\ cut' = FALSE
    BY <1>1, <1>t DEF StartAdvertising, session, MutexFree, TypeOK
  <2> QED
    BY <2>1, <2>2, <2>3
<1>2. CASE StartAdvertisingFails
  <2>1. advertising' = FALSE /\ pc' = "idle" /\ waiting' \in {"no", "exit"}
    BY <1>2, <1>t, ExitTyped
       DEF StartAdvertisingFails, session, WaitingInv, TypeOK
  <2> QED
    BY <2>1
<1>3. CASE StartedAdvertising
  BY <1>3, <1>t DEF StartedAdvertising, MutexFree, WaitingInv, Emptied
<1>s. ASSUME DoStopAdvertising, pc' # "starting" PROVE AdvertisedIdKept'
  <2>1. advertising' = FALSE /\ waiting' \in {"no", "exit"}
    BY <1>s, <1>t, ExitTyped DEF DoStopAdvertising
  <2> QED
    BY <1>s, <2>1
<1>4. CASE StopAdvertising \/ FinishStopAdvertising
  BY <1>4, <1>s DEF StopAdvertising, FinishStopAdvertising
<1>d. ASSUME DoStopDiscovery, MutexFree, pc # "starting", pc' # "starting"
      PROVE  AdvertisedIdKept'
  <2>1. advertising' = advertising /\ waiting' = "no"
        /\ UNCHANGED <<highVis, cacheId, advId, cut>>
    BY <1>d DEF DoStopDiscovery, MutexFree
  <2>2. advertising => localId' = localId
    BY <1>d, <2>1 DEF DoStopDiscovery, OnSessionComplete, InSession
  <2> QED
    BY <1>d, <2>1, <2>2
<1>5. CASE StopDiscovery \/ FinishStopDiscovery
  BY <1>5, <1>d DEF StopDiscovery, FinishStopDiscovery
<1>g. ASSUME NEW id \in Ids, GetLocalEndpointId(highVis, id), localId' = id,
             pc # "starting", pc' # "starting", MutexFree,
             UNCHANGED <<advertising, waiting, highVis, cacheId, advId, cut>>
      PROVE  AdvertisedIdKept'
  <2>1. localId # NoId => localId' = localId
    BY <1>g, <1>t, GetIdKeeps
  <2>2. waiting' = "no"
    BY <1>g DEF MutexFree
  <2>3. ASSUME advertising, cut, localId = NoId PROVE id # advId
    <3>1. highVis => cacheId = NoId
      BY <2>3
    <3>2. id = fresh + 1
      BY <1>g, <2>3, <3>1 DEF GetLocalEndpointId
    <3>3. advId <= fresh /\ advId \in Nat /\ fresh \in Nat
      BY <1>t, MaxIdsAssumption DEF Drawn, TypeOK, Ids
    <3> QED
      BY <3>2, <3>3
  <2> QED
    BY <1>g, <2>1, <2>2, <2>3
<1>6. CASE StartListening
  BY <1>6, <1>g DEF StartListening, session
<1>7. CASE StartedListening
  BY <1>7, <1>g DEF StartedListening
<1>8. ASSUME NEW e \in Endpoint, RequestConnection(e) PROVE AdvertisedIdKept'
  BY <1>8, <1>g DEF RequestConnection, thread
<1>9. ASSUME NEW e \in Endpoint, OnDisconnected(e) PROVE AdvertisedIdKept'
  <2>1. UNCHANGED <<advertising, pc, waiting, highVis, cacheId, advId>>
        /\ waiting = "no"
    BY <1>9 DEF OnDisconnected, MutexFree, thread
  <2>2. CASE InSession'
    <3>1. localId' = localId /\ cut' = cut
      BY <1>9, <1>t, <2>2 DEF OnDisconnected, OnSessionComplete, TypeOK
    <3> QED
      BY <2>1, <3>1
  <2>3. CASE ~InSession'
    <3>1. ~advertising' /\ (pc = "starting" => cut') /\ localId' = NoId
      BY <1>9, <2>3 DEF OnDisconnected, OnSessionComplete, InSession
    <3> QED
      BY <2>1, <3>1
  <2> QED
    BY <2>2, <2>3
<1>10. CASE Reset
  <2>1. advertising' = FALSE /\ pc' = "idle" /\ waiting' \in {"no", "exit"}
    BY <1>10, <1>t, ExitTyped DEF Reset
  <2> QED
    BY <2>1
<1>11. CASE AlarmStarts \/ AlarmFinishes
  BY <1>11 DEF AlarmStarts, AlarmFinishes, session, ids
<1>12. CASE AlarmClears
  BY <1>12 DEF AlarmClears, session, MutexFree, IInv, NoExpiryWhileAdvertising
<1>13. CASE CancelReturns
  BY <1>13, <1>t DEF CancelReturns, ids, WaitingInv
<1>14. CASE StartDiscovery \/ StopListening
  BY <1>14 DEF StartDiscovery, StopListening, ids, thread
<1>15. ASSUME NEW e \in Endpoint,
              OnIncomingConnection(e) \/ OnEncryptionFailure(e)
                \/ OnConnectionInitiated(e)
       PROVE AdvertisedIdKept'
  BY <1>15 DEF OnIncomingConnection, OnEncryptionFailure, OnConnectionInitiated,
               ids, thread
<1>16. CASE UNCHANGED vars
  BY <1>16 DEF vars
<1> QED
  BY <1>1, <1>2, <1>3, <1>4, <1>5, <1>6, <1>7, <1>8, <1>9, <1>10, <1>11,
     <1>12, <1>13, <1>14, <1>15, <1>16
     DEF Next

\* The advertised id stays the client's id, and the cached one in high-visibility
\* mode, unless the session ends while the mediums are being started.
THEOREM AdvertisedId == Spec => []AdvertisedIdKept
<1>1. Init => Drawn /\ Emptied /\ AdvertisedIdKept
  BY DEF Init, Drawn, Emptied, NoId, AdvertisedIdKept
<1>2. IInv /\ Drawn /\ Emptied /\ AdvertisedIdKept /\ [Next]_vars
        => Drawn' /\ Emptied' /\ AdvertisedIdKept'
  BY AdvertisedIdNext, DrawnNext, EmptiedNext DEF IInv
<1> QED
  BY <1>1, <1>2, Invariance, PTL DEF Spec

\* A high-visibility advertisement never loses its cached id.
THEOREM CacheStability == Spec => CacheKept
<1> DEFINE Kept == advertising /\ advertising' /\ highVis => cacheId' = cacheId
<1>1. IInv /\ [Next]_vars => [Kept]_vars
  <2> SUFFICES ASSUME IInv, Next PROVE Kept
    BY DEF vars
  <2> QED
    BY DEF IInv, WaitingInv, NoExpiryWhileAdvertising,
           Next, StartAdvertising, StartAdvertisingFails, StartedAdvertising,
           StopAdvertising, DoStopAdvertising, StartDiscovery, StopDiscovery,
           DoStopDiscovery, StartListening, StartedListening, StopListening,
           RequestConnection, OnIncomingConnection, OnEncryptionFailure,
           OnConnectionInitiated, OnDisconnected, FinishStopAdvertising,
           FinishStopDiscovery, Reset, AlarmStarts, AlarmClears, AlarmFinishes,
           CancelReturns, ids
<1>2. CacheKept <=> [][Kept]_vars
  BY DEF CacheKept
<1> QED
  BY <1>1, <1>2, Invariance, PTL DEF Spec

=============================================================================
