------------------------- MODULE EndpointLifecycle -------------------------
(***************************************************************************)
(* From a connection request to a connection and back: how BasePcpHandler, *)
(* EndpointManager, EndpointChannelManager (ECM) and ClientProxy share the *)
(* state of one remote endpoint.  All their maps are keyed by endpoint id, *)
(* while one id may be connected, torn down and connected again; a channel *)
(* number stands for one such incarnation.                                 *)
(*                                                                         *)
(* Threads: the API thread (one routed call at a time, waiting for its     *)
(* result), the PCP handler thread and the EndpointManager thread (FIFO    *)
(* queues of jobs), EncryptionRunner, the alarm thread, and per registered *)
(* channel a reader and a keep-alive worker.  A frame processor has a      *)
(* mutex, held by a reader during OnIncomingFrame.                         *)
(*                                                                         *)
(* Safe-to-disconnect (off by default) and bandwidth upgrade are left out. *)
(***************************************************************************)
EXTENDS Naturals, Sequences

CONSTANTS
  Outgoing,   \* endpoints the application asks to connect to
  Incoming,   \* endpoints that connect to us while we advertise
  MaxChan     \* bound on the channels ever opened

ASSUME MaxChanAssumption == MaxChan \in Nat

Endpoint == Outgoing \cup Incoming
Chan     == 1..MaxChan
Ref      == 0..MaxChan      \* a channel pointer, 0 when null

VARIABLES
  chan,      \* the channels opened so far: endpoint and direction of each
  closed,    \* channels closed at either end
  runner,    \* channels on which EncryptionRunner runs UKEY2
  pending,   \* pending_connections_: the channel of the entry, 0 if none
  ukey2,     \* the channel whose handshake the pending entry holds
  moved,     \* channels whose unique_ptr has left the pending entry
  conn,      \* connections_ of the client: the status bits and the channel
  ecm,       \* endpoints_ of the ECM: channel and encryption context
  state,     \* endpoints_ of the EndpointManager: whose workers they are
  reader,    \* the reader of each channel
  keep,      \* the keep-alive worker of each channel
  heard,     \* the CONNECTION_RESPONSE read from each channel
  pcp, pcpQ, \* PCP handler thread: where it is, its queue
  em, emQ,   \* EndpointManager thread: where it is, its queue
  alarm,     \* pending_alarms_: the delayed close of each endpoint
  orphans,   \* delayed closes that are no longer in pending_alarms_
  api,       \* is the API thread in a call
  future,    \* the channel whose result RequestConnection waits for
  asked,     \* channels announced to the application and not answered
  answered,  \* how the application answered each channel it was asked about
  told       \* the last callback about each channel

chans   == <<chan, closed, runner>>
pcpVars == <<pending, ukey2, moved>>
client  == <<conn, asked, answered, told>>
workers == <<state, reader, keep, heard>>
alarms  == <<alarm, orphans>>
caller  == <<api, future>>
vars    == <<chans, pcpVars, client, ecm, workers, pcp, pcpQ, em, emQ, alarms, caller>>

NoConn  == [bits |-> {}, chan |-> 0]     \* no entry in connections_
NoEntry == [in |-> FALSE, chan |-> 0, ctx |-> 0]
Idle    == [k |-> "idle"]

IsConnected(e)  == conn[e].chan # 0 /\ conn[e].bits = {"connected"}
HasPending(e)   == conn[e].chan # 0 /\ conn[e].bits # {"connected"}
Contains(e, bs) == conn[e].bits \cap bs # {}

\* The mutex of the CONNECTION_RESPONSE processor is free.
ProcessorFree == \A c \in Chan : reader[c] # "handling"

\* DiscardEndpoint: a job for the EndpointManager thread.  The job knows only the
\* endpoint; c records the channel whose worker posted it, 0 for anybody else.
Discard(e, c) == emQ' = Append(emQ, [k |-> "discard", e |-> e, c |-> c])

-----------------------------------------------------------------------------
Init ==
  /\ chan = <<>> /\ closed = {} /\ runner = {}
  /\ pending = [e \in Endpoint |-> 0] /\ ukey2 = pending /\ moved = {}
  /\ conn = [e \in Endpoint |-> NoConn]
  /\ ecm = [e \in Endpoint |-> NoEntry]
  /\ state = [e \in Endpoint |-> 0]
  /\ reader = [c \in Chan |-> "none"] /\ keep = reader
  /\ heard = reader /\ answered = reader /\ told = reader
  /\ pcp = Idle /\ pcpQ = <<>> /\ em = Idle /\ emQ = <<>>
  /\ alarm = [e \in Endpoint |-> "none"] /\ orphans = [e \in Endpoint |-> 0]
  /\ api = "idle" /\ future = 0 /\ asked = {}

-----------------------------------------------------------------------------
(* Shared parts of the PCP handler's jobs.                                 *)

\* A new channel to e; UKEY2 starts on it and it becomes the pending one.
OpenPending(e, incoming) ==
  LET c == Len(chan) + 1 IN
  /\ c <= MaxChan
  /\ chan' = Append(chan, [e |-> e, in |-> incoming])
  /\ runner' = runner \cup {c}
  /\ pending' = [pending EXCEPT ![e] = c]
  /\ ukey2' = [ukey2 EXCEPT ![e] = 0]

\* The entry of e leaves pending_connections_ for good.  Its destructor closes a
\* channel it still owns and fails a result nobody has set.
DropPending(e) ==
  /\ pending' = [pending EXCEPT ![e] = 0]
  /\ ukey2' = [ukey2 EXCEPT ![e] = 0]
  /\ closed' = closed \cup ({pending[e]} \ (moved \cup {0}))

SetResult(c) ==
  IF c # 0 /\ future = c THEN api' = "idle" /\ future' = 0 ELSE UNCHANGED caller

\* Mutation of OnConnectionRejected: the entry stays in connections_.
OnConnectionRejectedMut(e) ==
  IF HasPending(e)
    THEN told' = [told EXCEPT ![conn[e].chan] = "rejected"] /\ UNCHANGED conn
    ELSE UNCHANGED <<told, conn>>

\* ClientProxy::OnConnectionRejected
OnConnectionRejected(e) ==
  IF HasPending(e)
    THEN /\ told' = [told EXCEPT ![conn[e].chan] = "rejected"]
         /\ conn' = [conn EXCEPT ![e] = NoConn]
    ELSE UNCHANGED <<told, conn>>

\* Two channels are taken for the same when type, name and medium agree: all
\* outgoing ones to an endpoint do, and so do all incoming ones.
SameChannel(c, d) == chan[c] = chan[d]

\* A null pointer is dereferenced: the program ends.
Crash(where) == pcp' = [k |-> "crashed", at |-> where]

\* The PCP thread is free and its next job is of this kind.
NextJob(kind) == pcp = Idle /\ pcpQ # <<>> /\ Head(pcpQ).k = kind

-----------------------------------------------------------------------------
(* The application's calls, after the router's checks.                     *)

CallRequest(e) ==
  /\ api = "idle" /\ e \in Outgoing /\ Len(chan) < MaxChan
  /\ conn[e].chan = 0
  /\ pcpQ' = Append(pcpQ, [k |-> "request", e |-> e])
  /\ api' = "busy"
  /\ UNCHANGED <<chans, pcpVars, client, ecm, workers, pcp, em, emQ, alarms, future>>

\* AcceptConnection and RejectConnection: the application answers for a channel
\* it was asked about, the call names the endpoint only.
CallAnswer(c, answer) ==
  /\ api = "idle" /\ c \in asked
  /\ asked' = asked \ {c}
  /\ answered' = [answered EXCEPT ![c] = answer]
  /\ LET e == chan[c].e IN
       IF IsConnected(e) \/ Contains(e, {"localAccepted", "localRejected"})
         THEN UNCHANGED <<api, pcpQ>>
         ELSE /\ api' = "busy"
              /\ pcpQ' = Append(pcpQ, [k |-> "answer", e |-> e, a |-> answer])
  /\ UNCHANGED <<chans, pcpVars, conn, told, ecm, workers, pcp, em, emQ, alarms, future>>

CallDisconnect(e) ==
  /\ api = "idle" /\ conn[e].chan # 0
  /\ api' = "busy"
  /\ emQ' = Append(emQ, [k |-> "unregister", e |-> e, c |-> 0])
  /\ UNCHANGED <<chans, pcpVars, client, ecm, workers, pcp, pcpQ, em, alarms, future>>

-----------------------------------------------------------------------------
(* New channels.                                                           *)

\* The request-connection job: refused while a connection is pending; connecting
\* or writing the request may fail.
RequestConnection ==
  /\ NextJob("request")
  /\ pcpQ' = Tail(pcpQ)
  /\ LET e == Head(pcpQ).e IN
       \/ /\ api' = "idle"
          /\ UNCHANGED <<chan, runner, pending, ukey2, future>>
       \/ /\ pending[e] = 0
          /\ OpenPending(e, FALSE)
          /\ future' = Len(chan) + 1 /\ api' = api
  /\ UNCHANGED <<closed, moved, client, ecm, workers, pcp, em, emQ, alarms>>

\* OnIncomingConnection with nothing pending for the endpoint.
OnIncomingConnection(e) ==
  /\ pcp = Idle /\ e \in Incoming /\ ~IsConnected(e) /\ pending[e] = 0
  /\ OpenPending(e, TRUE)
  /\ UNCHANGED <<closed, moved, client, ecm, workers, pcp, pcpQ, em, emQ, alarms, caller>>

\* OnIncomingConnection during another connection attempt, and BreakTie does not
\* find our nonce the higher one (if it does, only the new channel is closed).
\* ProcessTieBreakLoss reads the medium of the pending channel.
BreakTie(e) ==
  /\ pcp = Idle /\ e \in Incoming /\ ~IsConnected(e) /\ pending[e] # 0
  /\ Len(chan) < MaxChan
  /\ \/ /\ pending[e] \in moved
        /\ Crash("BreakTie")
        /\ UNCHANGED <<chans, pending, ukey2, conn, told, emQ, caller>>
     \/ /\ pending[e] \notin moved
        /\ closed' = closed \cup {pending[e]}
        /\ SetResult(pending[e])
        /\ Discard(e, 0)
        /\ OnConnectionRejected(e)
        /\ \/ OpenPending(e, TRUE)                       \* theirs wins
           \/ /\ pending' = [pending EXCEPT ![e] = 0]     \* equal nonces
              /\ UNCHANGED <<chan, runner, ukey2>>
        /\ pcp' = pcp
  /\ UNCHANGED <<moved, asked, answered, ecm, workers, pcpQ, em, alarms>>

\* EncryptionRunner ends; each side runs its handshakes one after the other.
EncryptionEnds(c, outcome) ==
  /\ c \in runner
  /\ \A d \in runner : chan[d].in = chan[c].in => c <= d
  /\ outcome = "encrypted" => c \notin closed
  /\ runner' = runner \ {c}
  /\ pcpQ' = Append(pcpQ, [k |-> outcome, e |-> chan[c].e, c |-> c])
  /\ UNCHANGED <<chan, closed, pcpVars, client, ecm, workers, pcp, em, emQ, alarms, caller>>

\* Mutations of OnEncryptionSuccess: no check that the entry is still pending, and
\* a null check that silently drops the second handshake of an entry.
OnEncryptionSuccessUnchecked ==
  /\ NextJob("encrypted")
  /\ pcpQ' = Tail(pcpQ)
  /\ ukey2' = [ukey2 EXCEPT ![Head(pcpQ).e] = Head(pcpQ).c]
  /\ pcp' = [k |-> "locking", e |-> Head(pcpQ).e]
  /\ UNCHANGED <<chans, pending, moved, client, ecm, workers, em, emQ, alarms, caller>>

OnEncryptionSuccessDropped ==
  /\ NextJob("encrypted")
  /\ pcpQ' = Tail(pcpQ)
  /\ LET e == Head(pcpQ).e IN
       IF pending[e] \in moved \cup {0}
         THEN UNCHANGED <<pcp, ukey2>>
         ELSE /\ ukey2' = [ukey2 EXCEPT ![e] = Head(pcpQ).c]
              /\ pcp' = [k |-> "locking", e |-> e]
  /\ UNCHANGED <<chans, pending, moved, client, ecm, workers, em, emQ, alarms, caller>>

\* The success callback names the endpoint, not the channel.
OnEncryptionSuccess ==
  /\ NextJob("encrypted")
  /\ pcpQ' = Tail(pcpQ)
  /\ LET e == Head(pcpQ).e
         p == pending[e]
     IN \/ p = 0 /\ UNCHANGED <<pcp, ukey2>>
        \/ p \in moved /\ Crash("OnEncryptionSuccess") /\ UNCHANGED ukey2
        \/ /\ p # 0 /\ p \notin moved
           /\ ukey2' = [ukey2 EXCEPT ![e] = Head(pcpQ).c]
           /\ pcp' = [k |-> "locking", e |-> e]
  /\ UNCHANGED <<chans, pending, moved, client, ecm, workers, em, emQ, alarms, caller>>

\* RegisterFrameProcessor gets the processor's mutex; RegisterEndpoint is called.
RegisterEndpoint ==
  /\ pcp.k = "locking" /\ ProcessorFree
  /\ pcp' = [k |-> "registering", e |-> pcp.e]
  /\ moved' = moved \cup {pending[pcp.e]}
  /\ emQ' = Append(emQ, [k |-> "register", e |-> pcp.e, c |-> pending[pcp.e]])
  /\ UNCHANGED <<chans, pending, ukey2, client, ecm, workers, pcpQ, em, alarms, caller>>

OnEncryptionFailure ==
  /\ NextJob("failed")
  /\ pcpQ' = Tail(pcpQ)
  /\ LET e == Head(pcpQ).e
         p == pending[e]
     IN \/ p = 0 /\ UNCHANGED <<pcp, closed, pending, ukey2, caller>>
        \/ /\ p \in moved
           /\ Crash("OnEncryptionFailure")
           /\ UNCHANGED <<closed, pending, ukey2, caller>>
        \/ /\ p # 0 /\ p \notin moved
           /\ IF SameChannel(Head(pcpQ).c, p)
                THEN DropPending(e) /\ SetResult(p)
                ELSE UNCHANGED <<closed, pending, ukey2, caller>>
           /\ pcp' = pcp
  /\ UNCHANGED <<chan, runner, moved, client, ecm, workers, em, emQ, alarms>>

-----------------------------------------------------------------------------
(* Answers.  The connection is evaluated when either side has answered.    *)

\* The caller of the job goes on: the API thread (c = 0) or the reader of c.
Return(c) ==
  IF c = 0 THEN api' = "idle" /\ UNCHANGED reader
           ELSE reader' = [reader EXCEPT ![c] = "reading"] /\ UNCHANGED api

\* EvaluateConnectionResult, bits being the status after the answer, x the ECM's
\* entry and c the caller; after a remote answer the channel may be closed at
\* once, after a local one only when the peer had time to read it.
EvaluateConnectionResult(e, bits, x, c) ==
  LET accepted == {"localAccepted", "remoteAccepted"} \subseteq bits
      rejected == bits \cap {"localRejected", "remoteRejected"} # {}
      decided  == (accepted \/ rejected) /\ pending[e] # 0
  IN
  \/ /\ ~decided
     /\ conn' = [conn EXCEPT ![e].bits = bits]
     /\ ecm' = [ecm EXCEPT ![e] = x]
     /\ Return(c)
     /\ UNCHANGED <<closed, pending, ukey2, told, emQ, alarms, pcp>>
  \/ /\ decided /\ accepted /\ x.chan # 0     \* EncryptChannelForEndpoint succeeds
     /\ DropPending(e)
     /\ conn' = [conn EXCEPT ![e].bits = bits]
     /\ ecm' = [ecm EXCEPT ![e] = [x EXCEPT !.ctx = ukey2[e]]]
     /\ pcp' = [k |-> "accepting", e |-> e, c |-> c]
     /\ UNCHANGED <<told, emQ, alarms, api, reader>>
  \/ /\ decided /\ ~(accepted /\ x.chan # 0)
     /\ DropPending(e)
     /\ ecm' = [ecm EXCEPT ![e] =
          IF accepted THEN [in |-> TRUE, chan |-> 0, ctx |-> ukey2[e]] ELSE x]
     /\ OnConnectionRejected(e)
     /\ \/ c # 0 /\ Discard(e, 0) /\ UNCHANGED alarms
        \/ /\ c = 0 /\ UNCHANGED emQ
           /\ IF alarm[e] = "none"
                THEN alarm' = [alarm EXCEPT ![e] = "armed"] /\ UNCHANGED orphans
                ELSE orphans' = [orphans EXCEPT ![e] = @ + 1] /\ UNCHANGED alarm
     /\ Return(c)
     /\ UNCHANGED pcp

\* The accept-connection and reject-connection jobs.
AnswerConnection ==
  /\ NextJob("answer")
  /\ pcpQ' = Tail(pcpQ)
  /\ LET e == Head(pcpQ).e
         x == ecm[e]
         bits == IF conn[e].chan = 0 \/ Contains(e, {"localAccepted", "localRejected"})
                   THEN conn[e].bits ELSE conn[e].bits \cup {Head(pcpQ).a}
     IN \/ /\ pending[e] = 0
           /\ Return(0)
           /\ UNCHANGED <<closed, pending, ukey2, conn, told, ecm, alarms, emQ, pcp>>
        \/ /\ pending[e] # 0          \* no channel, or the write fails
           /\ x.chan = 0 \/ x.chan \in closed
           /\ DropPending(e) /\ Discard(e, 0) /\ OnConnectionRejected(e) /\ Return(0)
           /\ UNCHANGED <<ecm, alarms, pcp>>
        \/ /\ pending[e] # 0 /\ x.chan # 0
           /\ EvaluateConnectionResult(e, bits, x, 0)
  /\ UNCHANGED <<chan, runner, moved, asked, answered, state, keep, heard, em, future>>

\* The incoming-frame job; the reader waits for it, and is not woken when the
\* remote endpoint has answered before.  UpdateSafeToDisconnectForEndpoint makes
\* an ECM entry where there is none.
OnConnectionResponse ==
  /\ NextJob("response")
  /\ pcpQ' = Tail(pcpQ)
  /\ LET job == Head(pcpQ)
         e == job.e
         bits == IF conn[e].chan = 0 THEN {} ELSE conn[e].bits \cup {job.a}
     IN IF Contains(e, {"remoteAccepted", "remoteRejected"})
          THEN UNCHANGED <<closed, pending, ukey2, conn, told, ecm, reader, alarms, emQ, api, pcp>>
          ELSE EvaluateConnectionResult(e, bits, [ecm[e] EXCEPT !.in = TRUE], job.c)
  /\ UNCHANGED <<chan, runner, moved, asked, answered, state, keep, heard, em, future>>

\* The rest of EvaluateConnectionResult: the channel is looked up a second time.
OnConnectionAccepted ==
  /\ pcp.k = "accepting"
  /\ IF ecm[pcp.e].chan = 0
       THEN Crash("OnConnectionAccepted") /\ UNCHANGED <<conn, told, api, reader>>
       ELSE /\ IF HasPending(pcp.e)
                 THEN /\ conn' = [conn EXCEPT ![pcp.e].bits = {"connected"}]
                      /\ told' = [told EXCEPT ![conn[pcp.e].chan] = "accepted"]
                 ELSE UNCHANGED <<conn, told>>
            /\ pcp' = Idle
            /\ Return(pcp.c)
  /\ UNCHANGED <<chans, pcpVars, asked, answered, ecm, state, keep, heard, pcpQ,
                 em, emQ, alarms, future>>

\* The on-endpoint-disconnect job; the barrier is counted down for whoever waits.
OnEndpointDisconnect ==
  /\ NextJob("disconnect")
  /\ pcpQ' = Tail(pcpQ)
  /\ LET e == Head(pcpQ).e IN
       /\ alarm' = [alarm EXCEPT ![e] = "none"]
       /\ DropPending(e)
       /\ SetResult(pending[e])
       /\ OnConnectionRejected(e)
  /\ em' = IF Head(pcpQ).live THEN [em EXCEPT !.k = "gone"] ELSE em
  /\ UNCHANGED <<chan, runner, moved, asked, answered, ecm, workers, pcp, emQ, orphans>>

\* The delayed close of a connection that was rejected locally.
DelayedClose(e) ==
  /\ \/ alarm[e] = "armed" /\ alarm' = [alarm EXCEPT ![e] = "fired"] /\ UNCHANGED orphans
     \/ orphans[e] > 0 /\ orphans' = [orphans EXCEPT ![e] = @ - 1] /\ UNCHANGED alarm
  /\ Discard(e, 0)
  /\ UNCHANGED <<chans, pcpVars, client, ecm, workers, pcp, pcpQ, em, caller>>

-----------------------------------------------------------------------------
(* The EndpointManager thread.                                             *)

NextEmJob(kinds) == em = Idle /\ emQ # <<>> /\ Head(emQ).k \in kinds

\* Mutation of Unregister: the encryption context outlives the channel.
UnregisterMut(e) ==
  /\ ecm' = [ecm EXCEPT ![e] = [in |-> FALSE, chan |-> 0, ctx |-> ecm[e].ctx]]
  /\ closed' = closed \cup ({ecm[e].chan} \ {0})

\* UnregisterChannelForEndpoint: the entry goes and its channel is closed.
Unregister(e) ==
  /\ ecm' = [ecm EXCEPT ![e] = NoEntry]
  /\ closed' = closed \cup ({ecm[e].chan} \ {0})

WorkersDone(c) == reader[c] \in {"none", "done"} /\ keep[c] \in {"none", "done"}

\* The rest of the register-endpoint job once no old EndpointState is left: the
\* channel is set active, the workers start, the client is told, the PCP thread
\* is released.  A connection the client already has is not replaced.
StartWorkers(e, c) ==
  /\ ecm' = [ecm EXCEPT ![e] = [@ EXCEPT !.in = TRUE, !.chan = c]]
  /\ state' = [state EXCEPT ![e] = c]
  /\ reader' = [reader EXCEPT ![c] = "reading"]
  /\ keep' = [keep EXCEPT ![c] = "running"]
  /\ conn' = IF conn[e].chan = 0 THEN [conn EXCEPT ![e] = [bits |-> {}, chan |-> c]] ELSE conn
  /\ told' = [told EXCEPT ![c] = "initiated"]
  /\ asked' = asked \cup {c}
  /\ SetResult(c)
  /\ pcp' = Idle
  /\ em' = Idle

RegisterJob ==
  /\ NextEmJob({"register"})
  /\ emQ' = Tail(emQ)
  /\ LET job == Head(emQ) IN
       \/ /\ state[job.e] = 0
          /\ StartWorkers(job.e, job.c)
          /\ UNCHANGED closed
       \/ /\ state[job.e] # 0
          /\ em' = [k |-> "duplicate", e |-> job.e, c |-> job.c]
          /\ Unregister(job.e)
          /\ UNCHANGED <<state, reader, keep, conn, told, asked, caller, pcp>>
  /\ UNCHANGED <<chan, runner, pcpVars, answered, heard, pcpQ, alarms>>

\* Mutation of RegisterDuplicate: the old EndpointState is dropped, not joined.
RegisterDuplicateMut ==
  /\ em.k = "duplicate"
  /\ StartWorkers(em.e, em.c)
  /\ UNCHANGED <<chans, pcpVars, answered, heard, pcpQ, emQ, alarms>>

\* The workers of the old EndpointState have ended.
RegisterDuplicate ==
  /\ em.k = "duplicate" /\ WorkersDone(state[em.e])
  /\ StartWorkers(em.e, em.c)
  /\ UNCHANGED <<chans, pcpVars, answered, heard, pcpQ, emQ, alarms>>

\* unregister-endpoint and discard-endpoint: whether the client will be notified
\* is decided before anything else.
RemoveJob ==
  /\ NextEmJob({"unregister", "discard"})
  /\ emQ' = Tail(emQ)
  /\ em' = [k |-> "remove", e |-> Head(emQ).e, notify |-> IsConnected(Head(emQ).e),
            c |-> Head(emQ).c, call |-> Head(emQ).k = "unregister"]
  /\ UNCHANGED <<chans, pcpVars, client, ecm, workers, pcp, pcpQ, alarms, caller>>

\* RemoveEndpoint skips the notifications when there is no channel entry.
UnregisterChannel ==
  /\ em.k = "remove"
  /\ em' = [em EXCEPT !.k = IF ecm[em.e].in THEN "notify" ELSE "clear"]
  /\ Unregister(em.e)
  /\ UNCHANGED <<chan, runner, pcpVars, client, workers, pcp, pcpQ, emQ, alarms, caller>>

\* NotifyFrameProcessorsOnEndpointDisconnect takes the mutex of each processor.
NotifyProcessors ==
  /\ em.k = "notify" /\ ProcessorFree
  /\ em' = [em EXCEPT !.k = "barrier"]
  /\ pcpQ' = Append(pcpQ, [k |-> "disconnect", e |-> em.e, live |-> TRUE])
  /\ UNCHANGED <<chans, pcpVars, client, ecm, workers, pcp, emQ, alarms, caller>>

\* kProcessEndpointDisconnectionTimeout: the job in the queue has nobody to tell.
BarrierTimeout ==
  /\ em.k = "barrier"
  /\ em' = [em EXCEPT !.k = "gone"]
  /\ pcpQ' = [i \in 1..Len(pcpQ) |->
                IF pcpQ[i].k = "disconnect" THEN [pcpQ[i] EXCEPT !.live = FALSE]
                                            ELSE pcpQ[i]]
  /\ UNCHANGED <<chans, pcpVars, client, ecm, workers, pcp, emQ, alarms, caller>>

\* Mutation of OnDisconnected: only a connection to be notified of is erased.
OnDisconnectedMut ==
  /\ em.k = "gone"
  /\ em' = [em EXCEPT !.k = "clear"]
  /\ IF conn[em.e].chan # 0 /\ em.notify
       THEN /\ conn' = [conn EXCEPT ![em.e] = NoConn]
            /\ told' = [told EXCEPT ![conn[em.e].chan] = "disconnected"]
       ELSE UNCHANGED <<conn, told>>
  /\ UNCHANGED <<chans, pcpVars, asked, answered, ecm, workers, pcp, pcpQ, emQ, alarms, caller>>

\* ClientProxy::OnDisconnected
OnDisconnected ==
  /\ em.k = "gone"
  /\ em' = [em EXCEPT !.k = "clear"]
  /\ conn' = [conn EXCEPT ![em.e] = NoConn]
  /\ told' = IF conn[em.e].chan # 0 /\ em.notify
               THEN [told EXCEPT ![conn[em.e].chan] = "disconnected"] ELSE told
  /\ UNCHANGED <<chans, pcpVars, asked, answered, ecm, workers, pcp, pcpQ, emQ, alarms, caller>>

EmDone == em' = Idle /\ (IF em.call THEN api' = "idle" ELSE UNCHANGED api)

\* RemoveEndpointState: ~EndpointState unregisters the channel again, then waits.
RemoveEndpointState ==
  /\ em.k = "clear"
  /\ \/ state[em.e] = 0 /\ EmDone /\ UNCHANGED <<ecm, closed>>
     \/ state[em.e] # 0 /\ em' = [em EXCEPT !.k = "joining"] /\ Unregister(em.e)
                        /\ UNCHANGED api
  /\ UNCHANGED <<chan, runner, pcpVars, client, workers, pcp, pcpQ, emQ, alarms, future>>

WorkersJoined ==
  /\ em.k = "joining" /\ WorkersDone(state[em.e])
  /\ state' = [state EXCEPT ![em.e] = 0]
  /\ EmDone
  /\ UNCHANGED <<chans, pcpVars, client, ecm, reader, keep, heard, pcp, pcpQ, emQ, alarms, future>>

-----------------------------------------------------------------------------
(* The workers of a channel and the peer.                                  *)

\* The reader reads the peer's CONNECTION_RESPONSE, which the peer sends when its
\* handshake is over and which follows the last UKEY2 message on the channel.
ReadResponse(c, answer) ==
  /\ reader[c] = "reading" /\ c \notin closed \cup runner /\ heard[c] = "none"
  /\ reader' = [reader EXCEPT ![c] = "locking"]
  /\ heard' = [heard EXCEPT ![c] = answer]
  /\ UNCHANGED <<chans, pcpVars, client, ecm, state, keep, pcp, pcpQ, em, emQ, alarms, caller>>

\* GetFrameProcessor returns with the mutex; OnIncomingFrame posts and waits.
HandleResponse(c) ==
  /\ reader[c] = "locking" /\ ProcessorFree
  /\ reader' = [reader EXCEPT ![c] = "handling"]
  /\ pcpQ' = Append(pcpQ, [k |-> "response", e |-> chan[c].e, c |-> c, a |-> heard[c]])
  /\ UNCHANGED <<chans, pcpVars, client, ecm, state, keep, heard, pcp, em, emQ, alarms, caller>>

\* The reader finds its channel closed and no other: it discards the endpoint.
ReaderEnds(c) ==
  /\ reader[c] = "reading" /\ c \in closed
  /\ reader' = [reader EXCEPT ![c] = "done"]
  /\ Discard(chan[c].e, c)
  /\ UNCHANGED <<chans, pcpVars, client, ecm, state, keep, heard, pcp, pcpQ, em, alarms, caller>>

\* So does the keep-alive worker, also when nothing has been heard for too long.
KeepAliveEnds(c) ==
  /\ keep[c] = "running"
  /\ keep' = [keep EXCEPT ![c] = "done"]
  /\ Discard(chan[c].e, c)
  /\ UNCHANGED <<chans, pcpVars, client, ecm, state, reader, heard, pcp, pcpQ, em, alarms, caller>>

\* The peer closes or breaks the channel.
PeerCloses(c) ==
  /\ c \in 1..Len(chan) /\ c \notin closed
  /\ closed' = closed \cup {c}
  /\ UNCHANGED <<chan, runner, pcpVars, client, ecm, workers, pcp, pcpQ, em, emQ, alarms, caller>>

-----------------------------------------------------------------------------
PcpNext ==
  \/ RequestConnection \/ OnEncryptionSuccess \/ RegisterEndpoint
  \/ OnEncryptionFailure \/ AnswerConnection \/ OnConnectionResponse
  \/ OnConnectionAccepted \/ OnEndpointDisconnect

EmNext ==
  \/ RegisterJob \/ RegisterDuplicate \/ RemoveJob \/ UnregisterChannel
  \/ NotifyProcessors \/ BarrierTimeout \/ OnDisconnected
  \/ RemoveEndpointState \/ WorkersJoined

WorkerNext(c) ==
  HandleResponse(c) \/ ReaderEnds(c) \/ KeepAliveEnds(c)

EnvNext ==
  \/ \E e \in Endpoint : \/ CallRequest(e) \/ CallDisconnect(e) \/ DelayedClose(e)
                         \/ OnIncomingConnection(e) \/ BreakTie(e)
  \/ \E c \in Chan :
       \/ \E a \in {"localAccepted", "localRejected"} : CallAnswer(c, a)
       \/ \E a \in {"remoteAccepted", "remoteRejected"} : ReadResponse(c, a)
       \/ \E o \in {"encrypted", "failed"} : EncryptionEnds(c, o)
       \/ PeerCloses(c)

\* A crash ends the program.
Next ==
  /\ pcp.k # "crashed"
  /\ PcpNext \/ EmNext \/ EnvNext \/ \E c \in Chan : WorkerNext(c)

Spec == Init /\ [][Next]_vars

\* The serial executors and the readers keep running, and a barrier is waited for
\* 11 s at most; nothing is assumed of the application and the peers.
Fairness ==
  /\ WF_vars(Next /\ PcpNext) /\ WF_vars(Next /\ EmNext)
  /\ \A c \in Chan : WF_vars(Next /\ (HandleResponse(c) \/ ReaderEnds(c)))

FairSpec == Spec /\ Fairness

-----------------------------------------------------------------------------
(* Properties.                                                             *)

TypeOK ==
  /\ Len(chan) <= MaxChan /\ closed \subseteq 1..Len(chan) /\ runner \subseteq 1..Len(chan)
  /\ \A c \in 1..Len(chan) : chan[c] \in [e : Endpoint, in : BOOLEAN]
  /\ pending \in [Endpoint -> Ref] /\ ukey2 \in [Endpoint -> Ref] /\ moved \subseteq Chan
  /\ ecm \in [Endpoint -> [in : BOOLEAN, chan : Ref, ctx : Ref]]
  /\ state \in [Endpoint -> Ref]
  /\ reader \in [Chan -> {"none", "reading", "locking", "handling", "done"}]
  /\ keep \in [Chan -> {"none", "running", "done"}]
  /\ \A e \in Endpoint : conn[e].chan \in Ref
  /\ future \in Ref /\ asked \subseteq Chan

\* The answer of the peer that the client has on record for a connection was read
\* from the channel of that connection: the workers of an old channel are gone
\* before a new one for the same endpoint id is registered.
RemoteAnswerOwn ==
  \A e \in Endpoint :
    conn[e].chan # 0 =>
      conn[e].bits \cap {"remoteAccepted", "remoteRejected"} \subseteq {heard[conn[e].chan]}

\* An endpoint never has two sets of workers: whoever still reads from or pings
\* a channel belongs to the EndpointState of its endpoint.
OneWorkerSet ==
  \A c \in 1..Len(chan) : ~WorkersDone(c) => state[chan[c].e] = c

\* A connected client talks through the channel it was told about, encrypted with
\* the key of that channel's own handshake.
ConnectedKey ==
  \A e \in Endpoint :
    IsConnected(e) /\ ecm[e].chan # 0 => ecm[e].chan = conn[e].chan /\ ecm[e].ctx = conn[e].chan

\* No channel is encrypted before both sides have accepted it, not even by the
\* context an earlier connection left in the ECM.
NotEncryptedEarly ==
  \A e \in Endpoint :
    ecm[e].chan # 0 /\ ecm[e].ctx # 0
      => \/ IsConnected(e)
         \/ pcp.k = "accepting" /\ pcp.e = e
         \/ conn[e].chan = 0

\* OnConnectionInitiated: DCHECK(inserted), the client has no connection to the
\* endpoint yet when a new one is announced.
AnnouncedOnce ==
  [][ \A c \in Chan : told[c] = "none" /\ told'[c] = "initiated"
        => conn[chan[c].e] = NoConn ]_vars

\* When all queues are empty and all workers have ended, nothing is left of any
\* endpoint: no channel entry, no worker state, no connection in the client.
NothingLeft ==
  ( /\ pcp = Idle /\ pcpQ = <<>> /\ em = Idle /\ emQ = <<>>
    /\ \A c \in Chan : WorkersDone(c) )
  => \A e \in Endpoint : ecm[e] = NoEntry /\ state[e] = 0 /\ conn[e] = NoConn

\* endpoint_manager.h, RegisterFrameProcessor: "Blocks until registration is
\* complete."  The PCP thread gets the mutex in the end.
RegistrationCompletes == pcp.k = "locking" ~> pcp.k # "locking"
=============================================================================
