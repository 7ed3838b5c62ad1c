---------------------------- MODULE ClientProxy ----------------------------
(***************************************************************************)
(* The session a client of Nearby Connections owns: which of advertising,  *)
(* discovery and listening is on, which endpoints it is connected to, and  *)
(* the local endpoint id under which other devices know it.  The id lives  *)
(* as long as the session; after a high-visibility advertisement it is     *)
(* also kept in a cache that an alarm clears 30 s later.                   *)
(*                                                                         *)
(* Threads: the API thread, which runs one routed call at a time and waits *)
(* for the PCP handler thread (pc: where that call is); the                *)
(* EndpointManager thread, which reports disconnections at any time; the   *)
(* alarm thread.  Every ClientProxy method runs under its mutex_, so a     *)
(* method is one step, except where it waits inside                        *)
(* CancelableAlarm::Cancel() with mutex_ held (variable waiting).          *)
(***************************************************************************)
EXTENDS Naturals

CONSTANTS
  Endpoint,   \* remote endpoint ids
  MaxIds      \* bound on the local endpoint ids ever generated

ASSUME MaxIdsAssumption == MaxIds \in Nat

VARIABLES
  requested,    \* endpoints with an entry in pending_connections_ whose
                \* connection the client has not been told of yet
  connections,  \* keys of connections_
  advertising,  \* ~advertising_info_.IsEmpty()
  discovering,  \* ~discovery_info_.IsEmpty()
  listening,    \* ~listening_info_.IsEmpty()
  localId,      \* local_endpoint_id_, NoId when empty
  highVis,      \* high_vis_mode_
  cacheId,      \* local_high_vis_mode_cache_endpoint_id_, NoId when empty
  alarm,        \* the task that clears the cache
  advId,        \* the id put into the advertisement by StartAdvertisingImpl
  cut,          \* observed only: the session ended while StartAdvertisingImpl
                \* was running, after the id had been handed to it
  fresh,        \* how many ids GenerateLocalEndpointId has drawn
  pc,           \* where the API/PCP thread is
  waiting       \* which Cancel() the API/PCP thread waits in, holding mutex_

vars == <<requested, connections, advertising, discovering, listening,
          localId, highVis, cacheId, alarm, advId, cut, fresh, pc, waiting>>

session == <<requested, connections, advertising, discovering, listening>>
ids     == <<localId, highVis, cacheId, advId, cut, fresh>>
thread  == <<alarm, pc, waiting>>

NoId == 0

Ids == 0..MaxIds

TypeOK ==
  /\ requested \subseteq Endpoint
  /\ connections \subseteq Endpoint
  /\ advertising \in BOOLEAN /\ discovering \in BOOLEAN /\ listening \in BOOLEAN
  /\ highVis \in BOOLEAN /\ cut \in BOOLEAN
  /\ localId \in Ids /\ cacheId \in Ids /\ advId \in Ids /\ fresh \in Ids
  /\ alarm \in {"none", "scheduled", "started", "cleared"}
  /\ pc \in {"idle", "starting", "listening", "finish_discovery", "finish_reset"}
  /\ waiting \in {"no", "started", "exit"}

-----------------------------------------------------------------------------
(* Building blocks: private methods of ClientProxy.                        *)

\* mutex_ is free: nobody is inside Cancel() with it.
MutexFree == waiting = "no"

InSession == connections # {} \/ advertising \/ discovering

\* Mutation of OnSessionComplete: the connections are forgotten in the condition.
OnSessionCompleteMut ==
  localId' = IF advertising' \/ discovering' THEN localId ELSE NoId

\* The condition of OnSessionComplete reads the connections, advertising and
\* discovery that the caller has just written; listening is not consulted.
OnSessionComplete ==
  localId' = IF InSession' THEN localId ELSE NoId

\* Mutation of GetLocalEndpointId: a random id is drawn before the cache is read.
GetLocalEndpointIdMut(highVisMode, id) ==
  \/ localId # NoId /\ id = localId /\ fresh' = fresh
  \/ localId = NoId /\ fresh' = fresh + 1
     /\ id = IF highVisMode /\ cacheId # NoId THEN cacheId ELSE fresh + 1

\* GetLocalEndpointId returns id: local_endpoint_id_, or when that is empty what
\* GenerateLocalEndpointId makes up, the cached id in high-visibility mode and
\* otherwise a random one.  The caller stores id in localId.
GetLocalEndpointId(highVisMode, id) ==
  \/ localId # NoId /\ id = localId /\ fresh' = fresh
  \/ /\ localId = NoId /\ highVisMode /\ cacheId # NoId
     /\ id = cacheId /\ fresh' = fresh
  \/ /\ localId = NoId /\ ~(highVisMode /\ cacheId # NoId)
     /\ fresh < MaxIds
     /\ id = fresh + 1 /\ fresh' = fresh + 1

\* CancelableAlarm::Cancel() reaches CancelAndWaitIfStarted(), which returns at
\* once unless the task has started and is not finished.
CancelWaits == alarm \in {"started", "cleared"}

\* Mutation of ScheduleClearAlarm: the old alarm is dropped, no new one is made.
ScheduleClearAlarmMut == alarm' = "none"

\* ScheduleClearLocalHighVisModeCacheEndpointIdAlarm, once the old alarm is gone.
ScheduleClearAlarm == alarm' = IF cacheId = NoId THEN "none" ELSE "scheduled"

ExitHighVisibilityMode ==
  /\ highVis' = FALSE
  /\ \/ CancelWaits /\ waiting' = "exit" /\ alarm' = alarm
     \/ ~CancelWaits /\ waiting' = "no" /\ ScheduleClearAlarm

-----------------------------------------------------------------------------
(* Advertising.                                                            *)

Init ==
  /\ requested = {} /\ connections = {}
  /\ advertising = FALSE /\ discovering = FALSE /\ listening = FALSE
  /\ localId = NoId /\ highVis = FALSE /\ cacheId = NoId
  /\ alarm = "none" /\ advId = NoId /\ cut = FALSE /\ fresh = 0
  /\ pc = "idle" /\ waiting = "no"

\* The router turns the call away while advertising.  The PCP job enters
\* high-visibility mode, fetches the id and hands it to StartAdvertisingImpl.
StartAdvertising(hv) ==
  /\ pc = "idle" /\ MutexFree /\ ~advertising
  /\ highVis' = (hv \/ highVis)
  /\ \E id \in Ids : /\ GetLocalEndpointId(hv \/ highVis, id)
                     /\ localId' = id /\ advId' = id
  /\ pc' = "starting" /\ cut' = FALSE
  /\ UNCHANGED <<session, cacheId, alarm, waiting>>

\* Mutation of StartAdvertisingFails: high-visibility mode is not left.
StartAdvertisingFailsMut ==
  /\ pc = "starting" /\ MutexFree
  /\ advId' = NoId /\ pc' = "idle"
  /\ UNCHANGED <<session, localId, cacheId, cut, fresh, highVis, alarm, waiting>>

\* StartAdvertisingImpl failed.
StartAdvertisingFails ==
  /\ pc = "starting" /\ MutexFree
  /\ ExitHighVisibilityMode
  /\ advId' = NoId
  /\ pc' = "idle"
  /\ UNCHANGED <<session, localId, cacheId, cut, fresh>>

\* Mutation of StartedAdvertising: the alarm of an earlier advertisement goes on.
StartedAdvertisingMut ==
  /\ pc = "starting" /\ MutexFree
  /\ pc' = "idle" /\ advertising' = TRUE
  /\ cacheId' = IF highVis THEN localId ELSE cacheId
  /\ UNCHANGED <<requested, connections, discovering, listening, localId,
                 highVis, advId, cut, fresh, alarm, waiting>>

\* StartAdvertisingImpl succeeded.  In high-visibility mode the id is cached
\* and the alarm cancelled before advertising_info_ is written.
StartedAdvertising ==
  /\ pc = "starting" /\ MutexFree
  /\ pc' = "idle"
  /\ \/ /\ ~highVis
        /\ advertising' = TRUE
        /\ UNCHANGED <<cacheId, alarm, waiting>>
     \/ /\ highVis /\ ~CancelWaits
        /\ cacheId' = localId /\ alarm' = "none" /\ advertising' = TRUE
        /\ UNCHANGED waiting
     \/ /\ highVis /\ CancelWaits
        /\ cacheId' = localId /\ waiting' = "started"
        /\ UNCHANGED <<alarm, advertising>>
  /\ UNCHANGED <<requested, connections, discovering, listening, localId,
                 highVis, advId, cut, fresh>>

\* BasePcpHandler::StopAdvertising: its log line asks for the local endpoint id
\* (drawing one if there is none), then the PCP job stops the mediums and calls
\* StoppedAdvertising.  A drawn id survives only if a session remains.
DoStopAdvertising ==
  /\ advertising' = FALSE /\ advId' = NoId
  /\ UNCHANGED <<requested, connections, discovering, listening, cacheId, cut>>
  /\ \E id \in Ids : /\ GetLocalEndpointId(highVis, id)
                     /\ localId' = IF InSession' THEN id ELSE NoId
  /\ ExitHighVisibilityMode

StopAdvertising ==
  /\ pc = "idle" /\ MutexFree /\ advertising
  /\ DoStopAdvertising
  /\ pc' = pc

-----------------------------------------------------------------------------
(* Discovery and listening.                                                *)

StartDiscovery ==
  /\ pc = "idle" /\ MutexFree /\ ~discovering
  /\ discovering' = TRUE
  /\ UNCHANGED <<requested, connections, advertising, listening, ids, thread>>

DoStopDiscovery ==
  /\ discovering' = FALSE
  /\ UNCHANGED <<requested, connections, advertising, listening>>
  /\ OnSessionComplete
  /\ UNCHANGED <<highVis, cacheId, advId, cut, fresh, alarm, waiting>>

StopDiscovery ==
  /\ pc = "idle" /\ MutexFree /\ discovering
  /\ DoStopDiscovery
  /\ pc' = pc

StartListening ==
  /\ pc = "idle" /\ MutexFree /\ ~listening
  /\ \E id \in Ids : GetLocalEndpointId(highVis, id) /\ localId' = id
  /\ pc' = "listening"
  /\ UNCHANGED <<session, highVis, cacheId, advId, cut, alarm, waiting>>

\* StartListeningForIncomingConnectionsImpl ends, with or without success; the
\* router then asks for the local endpoint id again to report it.
StartedListening ==
  /\ pc = "listening" /\ MutexFree
  /\ listening' \in BOOLEAN
  /\ \E id \in Ids : GetLocalEndpointId(highVis, id) /\ localId' = id
  /\ pc' = "idle"
  /\ UNCHANGED <<requested, connections, advertising, discovering, highVis,
                 cacheId, advId, cut, alarm, waiting>>

StopListening ==
  /\ pc = "idle" /\ MutexFree /\ listening
  /\ listening' = FALSE
  /\ UNCHANGED <<requested, connections, advertising, discovering, ids, thread>>

-----------------------------------------------------------------------------
(* Connections.                                                            *)

\* FillConnectionInfo writes the local endpoint id into the request.  The
\* endpoint was discovered at some time; discovery may be over since.
RequestConnection(e) ==
  /\ pc = "idle" /\ MutexFree
  /\ e \notin requested /\ e \notin connections
  /\ requested' = requested \cup {e}
  /\ \E id \in Ids : GetLocalEndpointId(highVis, id) /\ localId' = id
  /\ UNCHANGED <<connections, advertising, discovering, listening, highVis,
                 cacheId, advId, cut, thread>>

\* The PCP thread takes an incoming request only while the client advertises
\* or listens.
OnIncomingConnection(e) ==
  /\ pc \notin {"starting", "listening"} /\ MutexFree
  /\ advertising \/ listening
  /\ e \notin requested /\ e \notin connections
  /\ requested' = requested \cup {e}
  /\ UNCHANGED <<connections, advertising, discovering, listening, ids, thread>>

\* Encryption failed before the client heard of the connection.
OnEncryptionFailure(e) ==
  /\ pc \notin {"starting", "listening"}
  /\ e \in requested
  /\ requested' = requested \ {e}
  /\ UNCHANGED <<connections, advertising, discovering, listening, ids, thread>>

\* Called by the EndpointManager while the PCP thread waits for it.  Nothing
\* checks that the client is still advertising or discovering.
OnConnectionInitiated(e) ==
  /\ pc \notin {"starting", "listening"} /\ MutexFree
  /\ e \in requested
  /\ requested' = requested \ {e}
  /\ connections' = connections \cup {e}
  /\ UNCHANGED <<advertising, discovering, listening, ids, thread>>

\* From the EndpointManager thread, at any time mutex_ is free; a rejected
\* connection is removed by the same method.
OnDisconnected(e) ==
  /\ MutexFree /\ e \in connections
  /\ connections' = connections \ {e}
  /\ UNCHANGED <<requested, advertising, discovering, listening>>
  /\ OnSessionComplete
  /\ cut' = (cut \/ (pc = "starting" /\ ~InSession'))
  /\ UNCHANGED <<highVis, cacheId, advId, fresh, thread>>

-----------------------------------------------------------------------------
(* StopAllEndpoints: FinishClientSession stops advertising and discovery,  *)
(* asked for or not, then resets the client.  The disconnections it asks   *)
(* for first are OnDisconnected steps.                                     *)

FinishStopAdvertising ==
  /\ pc = "idle" /\ MutexFree
  /\ DoStopAdvertising
  /\ pc' = "finish_discovery"

FinishStopDiscovery ==
  /\ pc = "finish_discovery" /\ MutexFree
  /\ DoStopDiscovery
  /\ pc' = "finish_reset"

Reset ==
  /\ pc = "finish_reset" /\ MutexFree
  /\ advertising' = FALSE /\ discovering' = FALSE /\ connections' = {}
  /\ OnSessionComplete
  /\ ExitHighVisibilityMode
  /\ pc' = "idle"
  /\ UNCHANGED <<requested, listening, cacheId, advId, cut, fresh>>

-----------------------------------------------------------------------------
(* The alarm thread, and the return of Cancel().                           *)

\* 30 s have passed: the task sets started_or_cancelled_.
AlarmStarts ==
  /\ alarm = "scheduled"
  /\ alarm' = "started"
  /\ UNCHANGED <<session, ids, pc, waiting>>

\* The task takes mutex_, clears the cache and lets mutex_ go.
AlarmClears ==
  /\ alarm = "started" /\ MutexFree
  /\ alarm' = "cleared" /\ cacheId' = NoId
  /\ UNCHANGED <<session, localId, highVis, advId, cut, fresh, pc, waiting>>

\* The task sets finished_.
AlarmFinishes ==
  /\ alarm = "cleared"
  /\ alarm' = "none"
  /\ UNCHANGED <<session, ids, pc, waiting>>

\* finished_.Get() returns; the rest of the method runs and mutex_ is released.
CancelReturns ==
  /\ ~MutexFree /\ ~CancelWaits
  /\ waiting' = "no"
  /\ \/ waiting = "started" /\ alarm' = "none" /\ advertising' = TRUE
     \/ waiting = "exit" /\ ScheduleClearAlarm /\ UNCHANGED advertising
  /\ UNCHANGED <<requested, connections, discovering, listening, ids, pc>>

-----------------------------------------------------------------------------
Next ==
  \/ \E hv \in BOOLEAN : StartAdvertising(hv)
  \/ StartAdvertisingFails \/ StartedAdvertising \/ StopAdvertising
  \/ StartDiscovery \/ StopDiscovery
  \/ StartListening \/ StartedListening \/ StopListening
  \/ \E e \in Endpoint :
       \/ RequestConnection(e) \/ OnIncomingConnection(e)
       \/ OnEncryptionFailure(e) \/ OnConnectionInitiated(e) \/ OnDisconnected(e)
  \/ FinishStopAdvertising \/ FinishStopDiscovery \/ Reset
  \/ AlarmStarts \/ AlarmClears \/ AlarmFinishes \/ CancelReturns

Spec == Init /\ [][Next]_vars

\* A started thread keeps running: the alarm fires when its time has come, its
\* task runs once it can take mutex_, and a call that can return does.  No
\* fairness on the client's calls or on the network.
Fairness ==
  /\ WF_vars(AlarmStarts) /\ WF_vars(AlarmClears) /\ WF_vars(AlarmFinishes)
  /\ WF_vars(CancelReturns)

FairSpec == Spec /\ Fairness

-----------------------------------------------------------------------------
(* Properties.                                                             *)

\* The id in the advertisement is the client's own id, from the moment it is
\* handed to the mediums until they are stopped, whatever other session of the
\* client ends meanwhile on whatever thread (OnDisconnected, StoppedDiscovery); a
\* high-visibility advertisement has that same id in the cache.  The one way out
\* is the race observed by cut: the last connection goes while the mediums are
\* being started, when the client counts as neither connected nor advertising.
\* Exactly then the two ids differ, and an empty id is cached.
AdvertisedIdKept ==
  /\ advertising \/ pc = "starting" \/ waiting = "started" =>
       advId # NoId /\ (localId = advId <=> ~cut)
  /\ (advertising \/ waiting = "started") /\ highVis =>
       cacheId = IF cut THEN NoId ELSE advId

\* No alarm that could clear the cached id is alive during a high-visibility
\* advertisement (StartedAdvertising cancels it, and waits for it if it runs).
NoExpiryWhileAdvertising ==
  advertising /\ highVis => alarm = "none"

\* The cached id survives a whole high-visibility advertisement, so that it can
\* be reused when the client advertises again.
CacheKept ==
  [][ advertising /\ advertising' /\ highVis => cacheId' = cacheId ]_vars

\* High-visibility mode never outlives the advertisement it belongs to: the
\* failure path of StartAdvertising and every stop leave it.
HighVisEnds ==
  highVis => \/ advertising \/ pc = "starting" \/ waiting = "started"

\* Outside high-visibility mode the cached id expires, unless a new attempt to
\* advertise re-arms the alarm or a cancellation is under way.
CacheExpires ==
  cacheId # NoId /\ ~highVis
    ~> cacheId = NoId \/ pc # "idle" \/ ~MutexFree \/ highVis
=============================================================================
