-------------------------- MODULE PayloadManager --------------------------
(***************************************************************************)
(* Outgoing and incoming payloads: the PayloadManager of one sender and of *)
(* the receivers it sends to, over one channel per receiver.               *)
(*                                                                         *)
(* Threads of the sender: the executor of one payload type (FCFS), the     *)
(* status-update executor (every callback to the client), a reader per     *)
(* endpoint and the EndpointManager thread that removes endpoints.  At a   *)
(* receiver: its reader, its status-update executor and its EndpointManager*)
(* thread.  A frame processor is locked while it handles a frame or a      *)
(* disconnection, so a reader handles a frame in one step; it may have     *)
(* read that frame before the channel was removed.                         *)
(*                                                                         *)
(* Features that are off by default (received acks, skipped chunk updates) *)
(* are left out, and so is analytics.                                      *)
(***************************************************************************)
EXTENDS Integers, Sequences, FiniteSets, SequencesExt

CONSTANTS
  Endpoint,     \* the endpoints connected to the sender
  Remote,       \* those whose PayloadManager is not modelled: they drop what they are
                \* sent and may send a control frame about a payload they got
  Id,           \* payload ids
  MaxPayload,   \* bound on the calls of SendPayload
  MaxJobs,      \* bound on the status updates the sending thread runs ahead of
  Size,         \* GetTotalSize() of a file, in chunks
  Lengths,      \* how many chunks of it can be read: the file may have changed
  Resumes,      \* offsets the application resumes from
  Events        \* what the environment may do, a subset of AllEvents

AllEvents == {"cancel", "cancelIncoming", "disconnect", "break", "timeout", "diskFull",
              "reuse", "shutdown"}

ASSUME PayloadAssumption ==
  /\ IsFiniteSet(Endpoint) /\ Remote \subseteq Endpoint
  /\ MaxPayload \in Nat /\ MaxJobs \in Nat /\ Size \in Nat
  /\ Lengths \subseteq Nat /\ Resumes \subseteq Nat
  /\ Events \subseteq AllEvents

Payload  == 1..MaxPayload      \* PendingPayload objects, in the order of creation
Transfer == Payload \X Endpoint
Final    == {"success", "failure", "canceled"}

VARIABLES
  payload,   \* the PendingPayload objects created so far
  tracked,   \* pending_payloads_: the object of each id, 0 if none
  execQ,     \* send-payload jobs waiting for the executor
  send,      \* the running send-payload job
  statusQ,   \* the status-update executor of the sender
  link,      \* the sender's side of each endpoint: up, removing, down
  barrier,   \* endpoints whose disconnection the sender has processed
  told,      \* the last update the sender's client got for each transfer
  finals,    \* how many final updates it got
  written,   \* how many frames of each transfer were written, the last one included
  wire,      \* frames to each receiver
  back,      \* control frames from each receiver
  broken,    \* endpoints whose channel is closed at one end, or fails
  dtor,      \* ~PayloadManager of the sender
  latch,     \* shutdown_barrier_
  in,        \* pending_payloads_ of each receiver
  got,       \* chunks each receiver attached
  handed,    \* transfers a receiver's client got by OnPayload
  rstatusQ, rlink, rbarrier, rtold, rfinals   \* the receivers' counterparts

sender   == <<payload, tracked, execQ, send>>
client   == <<told, finals, written>>
links    == <<link, barrier>>
channels == <<wire, back, broken>>
shut     == <<dtor, latch>>
receiver == <<in, got, handed, rstatusQ, rlink, rbarrier, rtold, rfinals>>
vars     == <<sender, statusQ, client, links, channels, shut, receiver>>

NoPayload == [on |-> FALSE, canceled |-> FALSE, ep |-> FALSE, obj |-> 0]
Idle      == [pc |-> "idle", obj |-> 0]

Shutdown == dtor # "up"
Freed(o) == payload[o].refs = 0

Init ==
  /\ payload = <<>> /\ tracked = [i \in Id |-> 0]
  /\ execQ = <<>> /\ send = Idle /\ statusQ = <<>>
  /\ link = [e \in Endpoint |-> "up"] /\ barrier = {}
  /\ told = [t \in Transfer |-> "none"] /\ finals = [t \in Transfer |-> 0]
  /\ written = finals
  /\ wire = [e \in Endpoint |-> <<>>] /\ back = wire /\ broken = {}
  /\ dtor = "up" /\ latch = 0
  /\ in = [e \in Endpoint |-> [i \in Id |-> NoPayload]]
  /\ got = [t \in Transfer |-> 0] /\ handed = {}
  /\ rstatusQ = [e \in Endpoint |-> <<>>]
  /\ rlink = link /\ rbarrier = {} /\ rtold = told /\ rfinals = finals

-----------------------------------------------------------------------------
(* The sender's PendingPayload objects.                                    *)

\* Mutation of DropRef: the object is destroyed although a handle is held.
DropRefMut(ps, o) == [ps EXCEPT ![o].refs = 0]

\* PendingPayloads::Remove, Release: one reference less.
DropRef(ps, o) == [ps EXCEPT ![o].refs = @ - 1]

\* ~PendingPayload posts NotifyShutdown.
DestroyJobs(o) == IF payload[o].refs = 1 THEN <<[k |-> "notify"]>> ELSE <<>>

\* Mutation of RemoveEndpoints: the payload is closed when any endpoint leaves it.
RemoveEndpointsMut(p, es) == [p EXCEPT !.in = @ \ es, !.closed = @ \/ es # {}]

\* PendingPayload::RemoveEndpoints, and Close when no endpoint is left.
RemoveEndpoints(p, es) ==
  [p EXCEPT !.in = @ \ es, !.closed = @ \/ p.in \subseteq es]

\* ClientProxy::OnPayloadProgress: reported while the endpoint is connected.
Tell(ts, st) ==
  LET now == {t \in ts : link[t[2]] # "down"} IN
  /\ told' = [t \in Transfer |-> IF t \in now THEN st ELSE told[t]]
  /\ finals' = [t \in Transfer |->
       IF t \in now /\ st \in Final THEN finals[t] + 1 ELSE finals[t]]
  /\ UNCHANGED written

\* The first n frames of fs.
ReadAlready(fs, n) == SubSeq(fs, 1, IF n > Len(fs) THEN Len(fs) ELSE n)

Post(js) == statusQ' = statusQ \o js

-----------------------------------------------------------------------------
(* The application of the sender.                                          *)

\* PayloadManager::SendPayload: a newer payload takes the id over from an older one.
SendPayload(i, es, len, resume) ==
  LET o == Len(payload) + 1 IN
  LET new == [id |-> i, to |-> es, in |-> es, status |-> [e \in Endpoint |-> "available"],
              len |-> len, resume |-> resume, canceled |-> FALSE, closed |-> FALSE,
              refs |-> 1] IN
  /\ ~Shutdown /\ o <= MaxPayload
  /\ "reuse" \in Events \/ \A p \in DOMAIN payload : payload[p].id # i
  /\ IF tracked[i] = 0
       THEN payload' = Append(payload, new) /\ UNCHANGED statusQ
       ELSE /\ payload' = Append(DropRef(payload, tracked[i]), new)
            /\ Post(DestroyJobs(tracked[i]))
  /\ tracked' = [tracked EXCEPT ![i] = o]
  /\ execQ' = Append(execQ, i)
  /\ UNCHANGED <<send, client, links, channels, shut, receiver>>

\* PayloadManager::CancelPayload only marks the payload.
CancelPayload(i) ==
  /\ "cancel" \in Events /\ tracked[i] # 0 /\ ~payload[tracked[i]].canceled
  /\ payload' = [payload EXCEPT ![tracked[i]].canceled = TRUE]
  /\ UNCHANGED <<tracked, execQ, send, statusQ, client, links, channels, shut, receiver>>

-----------------------------------------------------------------------------
(* The send-payload job.                                                   *)

\* Mutation of StartJob: a job whose payload is canceled by then does nothing.
StartJobMut ==
  /\ send = Idle /\ execQ # <<>>
  /\ execQ' = Tail(execQ)
  /\ LET o == tracked[Head(execQ)] IN
       IF Shutdown \/ o = 0 \/ (o # 0 /\ payload[o].canceled)
         THEN UNCHANGED <<payload, send>>
         ELSE /\ payload' = [payload EXCEPT ![o].refs = @ + 1]
              /\ send' = [pc |-> "loop", obj |-> o, off |-> 0, lost |-> 0, eps |-> {}, n |-> 0]
  /\ UNCHANGED <<tracked, statusQ, client, links, channels, shut, receiver>>

\* The job knows the id; it gets a handle to the object tracked under it.
StartJob ==
  /\ send = Idle /\ execQ # <<>>
  /\ execQ' = Tail(execQ)
  /\ LET o == tracked[Head(execQ)] IN
       IF Shutdown \/ o = 0
         THEN UNCHANGED <<payload, send>>
         ELSE /\ payload' = [payload EXCEPT ![o].refs = @ + 1]
              /\ send' = [pc |-> "loop", obj |-> o, off |-> 0, lost |-> 0, eps |-> {}, n |-> 0]
  /\ UNCHANGED <<tracked, statusQ, client, links, channels, shut, receiver>>

\* SendPayloadLoop starts with the endpoints of the payload, as pointers.
GetEndpoints ==
  /\ send.pc = "loop" /\ Len(statusQ) <= MaxJobs
  /\ send' = IF Shutdown THEN [send EXCEPT !.pc = "done"]
             ELSE [send EXCEPT !.pc = "check", !.eps = payload[send.obj].in]
  /\ UNCHANGED <<payload, tracked, execQ, statusQ, client, links, channels, shut, receiver>>

\* EndpointInfoStatusToPayloadStatus, PayloadStatusToTransferUpdateStatus
UpdateStatus(s) == IF s = "canceled" THEN "canceled" ELSE "failure"

Finished(o, es, st) == [k |-> "finished", i |-> payload[o].id, es |-> es, st |-> st]

\* EndpointManager::SendTransferFrameBytes: what a receiver will get of a frame
\* written to the channels of es.
Write(es, f) ==
  wire' = [e \in Endpoint |->
    IF e \in es \ (broken \cup Remote) /\ link[e] = "up" THEN Append(wire[e], f)
    ELSE wire[e]]

SendControl(o, es, event) == Write(es, [k |-> event, i |-> payload[o].id, obj |-> o])

\* Mutation of CheckEndpoints: a canceled payload is reported and sent all the same.
CheckEndpointsMut ==
  LET o == send.obj
      p == payload[o]
      gone == {e \in send.eps : p.status[e] # "available"}
      avail == send.eps \ gone
      jobs == SetToSeq({Finished(o, {e}, UpdateStatus(p.status[e])) : e \in gone})
  IN
  /\ send.pc = "check"
  /\ \/ /\ avail = {} /\ Post(jobs)
        /\ send' = [send EXCEPT !.pc = "done"]
     \/ /\ avail # {}
        /\ Post(IF p.canceled THEN Append(jobs, Finished(o, avail, "canceled")) ELSE jobs)
        /\ send' = [send EXCEPT !.pc = "detach", !.eps = avail]
  /\ UNCHANGED <<payload, tracked, execQ, client, links, channels, shut, receiver>>

\* GetAvailableAndUnavailableEndpoints and what follows it up to the next chunk:
\* unavailable endpoints are finished with their own status, and the job ends when
\* nobody is left, the payload is canceled or it cannot skip to the resume offset.
\* The pointers are read without a lock; an endpoint removed meanwhile still shows
\* its last status.
CheckEndpoints ==
  LET o == send.obj
      p == payload[o]
      gone == {e \in send.eps : p.status[e] # "available"}
      avail == send.eps \ gone
      jobs == SetToSeq({Finished(o, {e}, UpdateStatus(p.status[e])) : e \in gone})
      skip == send.off = 0 /\ p.resume > 0
  IN
  /\ send.pc = "check"
  /\ \/ /\ avail = {} /\ Post(jobs)
        /\ send' = [send EXCEPT !.pc = "done"] /\ UNCHANGED wire
     \/ /\ avail # {} /\ p.canceled
        /\ Post(Append(jobs, Finished(o, avail, "canceled")))
        /\ SendControl(o, avail, "canceled")
        /\ send' = [send EXCEPT !.pc = "done"]
     \/ /\ avail # {} /\ ~p.canceled /\ skip /\ p.resume > p.len
        /\ Post(Append(jobs, Finished(o, avail, "failure")))
        /\ SendControl(o, avail, "error")
        /\ send' = [send EXCEPT !.pc = "done"]
     \/ /\ avail # {} /\ ~p.canceled /\ (skip => p.resume <= p.len)
        /\ Post(jobs)
        /\ send' = [send EXCEPT !.pc = "detach", !.eps = avail,
                                !.off = IF skip THEN p.resume ELSE @]
        /\ UNCHANGED wire
  /\ UNCHANGED <<payload, tracked, execQ, client, links, back, broken, shut, receiver>>

\* Mutation of DetachNextChunk: a shutdown is not noticed.
DetachNextChunkMut(n) ==
  LET p == payload[send.obj] IN
  /\ send.pc = "detach"
  /\ n = IF ~p.closed /\ send.off + send.lost < p.len THEN 1 ELSE 0
  /\ send' = [send EXCEPT !.pc = "write", !.n = n]
  /\ UNCHANGED <<payload, tracked, execQ, statusQ, client, links, channels, shut, receiver>>

\* InternalPayload::DetachNextChunk: the next chunk, and an empty one at the end or
\* when the payload is closed or cannot be read any further.  Chunks that nobody was
\* sent are behind it as well.
DetachNextChunk(n) ==
  LET p == payload[send.obj] IN
  /\ send.pc = "detach"
  /\ n = IF ~p.closed /\ send.off + send.lost < p.len THEN 1 ELSE 0
  /\ send' = IF Shutdown THEN [send EXCEPT !.pc = "done"]
             ELSE [send EXCEPT !.pc = "write", !.n = n]
  /\ UNCHANGED <<payload, tracked, execQ, statusQ, client, links, channels, shut, receiver>>

\* More was read than the size the file had: the transfer fails at its end.
Grown == send.n = 0 /\ Size > 0 /\ Size < send.off

PayloadGrown ==
  LET o == send.obj IN
  /\ send.pc = "write" /\ Grown
  /\ Post(<<Finished(o, send.eps, "failure")>>)
  /\ SendControl(o, send.eps, "error")
  /\ send' = [send EXCEPT !.pc = "done"]
  /\ UNCHANGED <<payload, tracked, execQ, client, links, back, broken, shut, receiver>>

\* SendPayloadChunk to every available endpoint, and the jobs it leads to.  A write
\* fails when the channel is gone; on a channel the peer has closed it may succeed
\* and is lost.  When all writes failed the loop goes on at the same offset, after the
\* chunk, which cannot be read again.
SendPayloadChunk(failed) ==
  LET o == send.obj
      ok == send.eps \ failed
      last == send.n = 0
      frame == [k |-> "data", i |-> payload[o].id, obj |-> o,
                off |-> send.off - payload[o].resume, last |-> last]
      done == SetToSeq({[k |-> "chunk", i |-> payload[o].id, e |-> e, last |-> last] : e \in ok})
  IN
  /\ send.pc = "write" /\ ~Grown
  /\ {e \in send.eps : link[e] # "up"} \subseteq failed
  /\ failed \subseteq {e \in send.eps : link[e] # "up" \/ e \in broken}
  /\ Write(ok, frame)
  /\ Post((IF failed = {} THEN <<>> ELSE <<Finished(o, failed, "failure")>>) \o done)
  /\ send' = IF ok = {} THEN [send EXCEPT !.pc = "loop", !.lost = @ + send.n]
             ELSE [send EXCEPT !.pc = IF last THEN "done" ELSE "loop", !.off = @ + send.n]
  /\ written' = [t \in Transfer |->
       IF t \in {o} \X ok THEN written[t] + 1 ELSE written[t]]
  /\ UNCHANGED <<payload, tracked, execQ, told, finals, links, back, broken, shut, receiver>>

\* The end of the job posts destroy-payload ...
EndJob ==
  /\ send.pc = "done"
  /\ Post(<<[k |-> "destroy", i |-> payload[send.obj].id]>>)
  /\ send' = [send EXCEPT !.pc = "release"]
  /\ UNCHANGED <<payload, tracked, execQ, client, links, channels, shut, receiver>>

\* ... and then releases its handle.
ReleaseHandle ==
  /\ send.pc = "release"
  /\ payload' = DropRef(payload, send.obj)
  /\ Post(DestroyJobs(send.obj))
  /\ send' = Idle
  /\ UNCHANGED <<tracked, execQ, client, links, channels, shut, receiver>>

-----------------------------------------------------------------------------
(* The status-update executor of the sender: one job per step.             *)

Take(k) == statusQ # <<>> /\ Head(statusQ).k = k

\* SendClientCallbacksForFinishedOutgoingPayload: endpoints no longer tracked are
\* skipped.
FinishedOutgoing ==
  /\ Take("finished")
  /\ LET j == Head(statusQ)
         o == tracked[j.i] IN
       IF o = 0 THEN UNCHANGED <<payload, client>>
       ELSE /\ Tell({o} \X (j.es \cap payload[o].in), j.st)
            /\ payload' = [payload EXCEPT ![o] = RemoveEndpoints(@, j.es)]
  /\ statusQ' = Tail(statusQ)
  /\ UNCHANGED <<tracked, execQ, send, links, channels, shut, receiver>>

\* HandleSuccessfulOutgoingChunk
SuccessfulOutgoingChunk ==
  /\ Take("chunk")
  /\ LET j == Head(statusQ)
         o == tracked[j.i] IN
       IF o = 0 \/ (o # 0 /\ j.e \notin payload[o].in) THEN UNCHANGED <<payload, client>>
       ELSE /\ Tell({<<o, j.e>>}, IF j.last THEN "success" ELSE "progress")
            /\ payload' = IF j.last THEN [payload EXCEPT ![o] = RemoveEndpoints(@, {j.e})]
                          ELSE payload
  /\ statusQ' = Tail(statusQ)
  /\ UNCHANGED <<tracked, execQ, send, links, channels, shut, receiver>>

\* DestroyPendingPayload: whatever object is tracked under the id.
DestroyPendingPayload ==
  /\ Take("destroy")
  /\ LET i == Head(statusQ).i
         o == tracked[i] IN
       IF o = 0 THEN UNCHANGED <<payload, tracked>> /\ statusQ' = Tail(statusQ)
       ELSE /\ payload' = DropRef(payload, o)
            /\ tracked' = [tracked EXCEPT ![i] = 0]
            /\ statusQ' = Tail(statusQ) \o DestroyJobs(o)
  /\ UNCHANGED <<execQ, send, client, links, channels, shut, receiver>>

\* Mutation of Disconnected: the endpoint stays with the payload.
DisconnectedMut ==
  /\ Take("disconnect")
  /\ LET e == Head(statusQ).e
         hit == {o \in {tracked[i] : i \in Id} \ {0} : e \in payload[o].in} IN
       /\ Tell(hit \X {e}, "failure")
       /\ barrier' = barrier \cup {e}
  /\ statusQ' = Tail(statusQ)
  /\ UNCHANGED <<sender, link, channels, shut, receiver>>

\* OnEndpointDisconnect: every payload that still has the endpoint fails for it.
Disconnected ==
  /\ Take("disconnect")
  /\ LET e == Head(statusQ).e
         os == {tracked[i] : i \in Id} \ {0}
         hit == {o \in os : e \in payload[o].in} IN
       /\ Tell(hit \X {e}, "failure")
       /\ payload' = [o \in DOMAIN payload |->
            IF o \in hit THEN RemoveEndpoints(payload[o], {e}) ELSE payload[o]]
       /\ barrier' = barrier \cup {e}
  /\ statusQ' = Tail(statusQ)
  /\ UNCHANGED <<tracked, execQ, send, link, channels, shut, receiver>>

\* Mutation of NotifyShutdown: it counts down a barrier that was never made.
NotifyShutdownMut ==
  /\ Take("notify")
  /\ latch' = IF dtor \in {"up", "stopping"} THEN latch ELSE latch - 1
  /\ statusQ' = Tail(statusQ)
  /\ UNCHANGED <<sender, client, links, channels, dtor, receiver>>

\* NotifyShutdown counts down the barrier of CancelAllPayloads.
NotifyShutdown ==
  /\ Take("notify")
  /\ latch' = IF dtor \in {"up", "stopping"} \/ latch = 0 THEN latch ELSE latch - 1
  /\ statusQ' = Tail(statusQ)
  /\ UNCHANGED <<sender, client, links, channels, dtor, receiver>>

\* The last job: StopTrackingAllPayloads.
StopTrackingAll ==
  /\ Take("stop")
  /\ LET os == {tracked[i] : i \in Id} \ {0} IN
       payload' = [o \in DOMAIN payload |->
         IF o \in os THEN DropRef(payload, o)[o] ELSE payload[o]]
  /\ tracked' = [i \in Id |-> 0]
  /\ statusQ' = <<>> /\ dtor' = "down"
  /\ UNCHANGED <<execQ, send, client, links, channels, latch, receiver>>

-----------------------------------------------------------------------------
(* The sender's readers and EndpointManager.                               *)

\* ProcessControlPacket for an outgoing payload: the endpoint's status is set.
ProcessControlPacket(e) ==
  /\ back[e] # <<>>
  /\ LET f == Head(back[e])
         o == tracked[f.i] IN
       payload' = IF Shutdown \/ o = 0 THEN payload
                  ELSE IF e \in payload[o].in THEN [payload EXCEPT ![o].status[e] = f.k]
                  ELSE payload
  /\ back' = [back EXCEPT ![e] = Tail(@)]
  /\ UNCHANGED <<tracked, execQ, send, statusQ, client, links, wire, broken, shut, receiver>>

\* Another device cancels a payload it is being sent, or fails to store it.
RemoteControl(e, i, event) ==
  /\ e \in Remote \ broken /\ back[e] = <<>>
  /\ tracked[i] # 0 /\ e \in payload[tracked[i]].in
  /\ payload[tracked[i]].status[e] = "available" /\ written[<<tracked[i], e>>] > 0
  /\ back' = [back EXCEPT ![e] = Append(@, [k |-> event, i |-> i])]
  /\ UNCHANGED <<sender, statusQ, client, links, wire, broken, shut, receiver>>

ChannelBreaks(e) ==
  /\ "break" \in Events /\ e \notin broken
  /\ broken' = broken \cup {e}
  /\ UNCHANGED <<sender, statusQ, client, links, wire, back, shut, receiver>>

\* EndpointManager::RemoveEndpoint, for the client, a failed write or a failed read:
\* the channel is closed and the PayloadManager is told.  Of the frames on the way
\* the reader still handles one if it has read it already.
RemoveEndpoint(e) ==
  /\ link[e] = "up"
  /\ \E n \in {0, 1} : back' = [back EXCEPT ![e] = ReadAlready(@, n)]
  /\ "disconnect" \in Events \/ e \in broken
  /\ link' = [link EXCEPT ![e] = "removing"]
  /\ broken' = broken \cup {e}
  /\ IF Shutdown THEN barrier' = barrier \cup {e} /\ UNCHANGED statusQ
     ELSE Post(<<[k |-> "disconnect", e |-> e]>>) /\ UNCHANGED barrier
  /\ UNCHANGED <<sender, client, wire, shut, receiver>>

\* ... which has two seconds to clean up before ClientProxy::OnDisconnected.
OnDisconnected(e) ==
  /\ link[e] = "removing"
  /\ e \in barrier \/ "timeout" \in Events
  /\ link' = [link EXCEPT ![e] = "down"]
  /\ UNCHANGED <<sender, statusQ, client, barrier, channels, shut, receiver>>

-----------------------------------------------------------------------------
(* ~PayloadManager of the sender.                                          *)

\* DisconnectFromEndpointManager
DisconnectFromEndpointManager ==
  /\ "shutdown" \in Events /\ dtor = "up"
  /\ dtor' = "stopping"
  /\ UNCHANGED <<sender, statusQ, client, links, channels, latch, receiver>>

\* CancelAllPayloads waits for as many payloads as are tracked now.
CancelAllPayloads ==
  LET os == {tracked[i] : i \in Id} \ {0} IN
  /\ dtor = "stopping"
  /\ payload' = [o \in DOMAIN payload |->
       IF o \in os THEN [payload[o] EXCEPT !.canceled = TRUE, !.closed = TRUE] ELSE payload[o]]
  /\ latch' = Cardinality(os)
  /\ dtor' = "waiting"
  /\ UNCHANGED <<tracked, execQ, send, statusQ, client, links, channels, receiver>>

StopStatusUpdates ==
  /\ dtor = "waiting" /\ latch = 0
  /\ Post(<<[k |-> "stop"]>>)
  /\ dtor' = "joining"
  /\ UNCHANGED <<sender, client, links, channels, latch, receiver>>

-----------------------------------------------------------------------------
(* A receiver.                                                             *)

others == <<sender, statusQ, client, links, shut>>

RTell(e, os, st) ==
  LET now == IF rlink[e] # "down" THEN os \X {e} ELSE {} IN
  /\ rtold' = [t \in Transfer |-> IF t \in now THEN st ELSE rtold[t]]
  /\ rfinals' = [t \in Transfer |->
       IF t \in now /\ st \in Final THEN rfinals[t] + 1 ELSE rfinals[t]]

RPost(e, js) == rstatusQ' = [rstatusQ EXCEPT ![e] = @ \o js]

\* A control frame to the sender, if the channel can be written to.
SendBack(e, event, i) ==
  back' = IF rlink[e] = "up" /\ e \notin broken
            THEN [back EXCEPT ![e] = Append(@, [k |-> event, i |-> i])] ELSE back

\* The incoming payload a data frame belongs to: a frame at offset 0 creates one.
\* CreateIncomingPayload refuses a frame without a type or an id, which the sender's
\* CreatePayloadHeader always sets.
Incoming(e, f) ==
  IF f.off = 0 THEN [on |-> TRUE, canceled |-> FALSE, ep |-> TRUE, obj |-> f.obj]
  ELSE in[e][f.i]

\* ProcessDataPacket: a frame for an unknown payload is dropped; one for a canceled
\* payload, or one that cannot be stored, ends the transfer and tells the sender.
ProcessDataPacket(e) ==
  LET f == Head(wire[e])
      p == Incoming(e, f)
      first == IF f.off = 0 THEN <<[k |-> "payload", i |-> f.i, obj |-> f.obj]>> ELSE <<>>
      end(st) == [k |-> "finished", i |-> f.i, st |-> st]
  IN
  /\ wire[e] # <<>> /\ f.k = "data"
  /\ in' = [in EXCEPT ![e][f.i] = p]
  /\ wire' = [wire EXCEPT ![e] = Tail(@)]
  /\ \/ ~p.on /\ UNCHANGED <<rstatusQ, back, got>>
     \/ /\ p.on /\ p.canceled
        /\ RPost(e, <<end("canceled")>>) /\ SendBack(e, "canceled", f.i)
        /\ UNCHANGED got
     \/ /\ p.on /\ ~p.canceled /\ ~f.last /\ (~p.ep \/ "diskFull" \in Events)
        /\ RPost(e, Append(first, end("failure"))) /\ SendBack(e, "error", f.i)
        /\ UNCHANGED got
     \/ /\ p.on /\ ~p.canceled /\ (f.last \/ p.ep)
        /\ RPost(e, Append(first, [k |-> "chunk", i |-> f.i, last |-> f.last]))
        /\ got' = IF f.last THEN got ELSE [got EXCEPT ![<<p.obj, e>>] = @ + 1]
        /\ UNCHANGED back
  /\ UNCHANGED <<others, broken, handed, rlink, rbarrier, rtold, rfinals>>

\* ProcessControlPacket for an incoming payload.
ProcessIncomingControl(e) ==
  LET f == Head(wire[e]) IN
  /\ wire[e] # <<>> /\ f.k \in {"canceled", "error"}
  /\ IF in[e][f.i].on
       THEN RPost(e, <<[k |-> "finished", i |-> f.i, st |-> UpdateStatus(f.k)]>>)
       ELSE UNCHANGED rstatusQ
  /\ wire' = [wire EXCEPT ![e] = Tail(@)]
  /\ UNCHANGED <<others, back, broken, in, got, handed, rlink, rbarrier, rtold, rfinals>>

\* CancelPayload by the application of a receiver that was handed the payload.
CancelIncomingPayload(e, i) ==
  /\ "cancelIncoming" \in Events /\ in[e][i].on /\ ~in[e][i].canceled
  /\ <<in[e][i].obj, e>> \in handed
  /\ in' = [in EXCEPT ![e][i].canceled = TRUE]
  /\ UNCHANGED <<others, channels, got, handed, rstatusQ, rlink, rbarrier, rtold, rfinals>>

RTake(e, k) == rstatusQ[e] # <<>> /\ Head(rstatusQ[e]).k = k

\* ClientProxy::OnPayload
OnPayload(e) ==
  /\ RTake(e, "payload")
  /\ handed' = IF rlink[e] = "down" THEN handed
               ELSE handed \cup {<<Head(rstatusQ[e]).obj, e>>}
  /\ rstatusQ' = [rstatusQ EXCEPT ![e] = Tail(@)]
  /\ UNCHANGED <<others, channels, in, got, rlink, rbarrier, rtold, rfinals>>

\* HandleSuccessfulIncomingChunk: the payload stays tracked after its last chunk.
SuccessfulIncomingChunk(e) ==
  /\ RTake(e, "chunk")
  /\ LET j == Head(rstatusQ[e])
         p == in[e][j.i] IN
       IF ~p.on THEN UNCHANGED <<rtold, rfinals>>
       ELSE RTell(e, {p.obj}, IF j.last THEN "success" ELSE "progress")
  /\ rstatusQ' = [rstatusQ EXCEPT ![e] = Tail(@)]
  /\ UNCHANGED <<others, channels, in, got, handed, rlink, rbarrier>>

\* SendClientCallbacksForFinishedIncomingPayload
FinishedIncoming(e) ==
  /\ RTake(e, "finished")
  /\ LET j == Head(rstatusQ[e])
         p == in[e][j.i] IN
       IF ~p.on THEN UNCHANGED <<in, rtold, rfinals>>
       ELSE /\ RTell(e, {p.obj}, j.st)
            /\ in' = [in EXCEPT ![e][j.i] = NoPayload]
  /\ rstatusQ' = [rstatusQ EXCEPT ![e] = Tail(@)]
  /\ UNCHANGED <<others, channels, got, handed, rlink, rbarrier>>

\* OnEndpointDisconnect for the incoming payloads
IncomingDisconnected(e) ==
  /\ RTake(e, "disconnect")
  /\ LET hit == {i \in Id : in[e][i].on /\ in[e][i].ep} IN
       /\ RTell(e, {in[e][i].obj : i \in hit}, "failure")
       /\ in' = [in EXCEPT ![e] = [i \in Id |->
            IF i \in hit THEN [in[e][i] EXCEPT !.ep = FALSE] ELSE in[e][i]]]
       /\ rbarrier' = rbarrier \cup {e}
  /\ rstatusQ' = [rstatusQ EXCEPT ![e] = Tail(@)]
  /\ UNCHANGED <<others, channels, got, handed, rlink>>

RemoveSender(e) ==
  /\ rlink[e] = "up" /\ e \notin Remote
  /\ \E n \in {0, 1} : wire' = [wire EXCEPT ![e] = ReadAlready(@, n)]
  /\ "disconnect" \in Events \/ e \in broken
  /\ rlink' = [rlink EXCEPT ![e] = "removing"]
  /\ broken' = broken \cup {e}
  /\ RPost(e, <<[k |-> "disconnect"]>>)
  /\ UNCHANGED <<others, back, in, got, handed, rbarrier, rtold, rfinals>>

OnSenderDisconnected(e) ==
  /\ rlink[e] = "removing"
  /\ e \in rbarrier \/ "timeout" \in Events
  /\ rlink' = [rlink EXCEPT ![e] = "down"]
  /\ UNCHANGED <<others, channels, in, got, handed, rstatusQ, rbarrier, rtold, rfinals>>

-----------------------------------------------------------------------------
SendJob ==
  \/ StartJob \/ GetEndpoints \/ CheckEndpoints \/ PayloadGrown
  \/ \E n \in {0, 1} : DetachNextChunk(n)
  \/ \E failed \in SUBSET Endpoint : SendPayloadChunk(failed)
  \/ EndJob \/ ReleaseHandle

StatusUpdate ==
  \/ FinishedOutgoing \/ SuccessfulOutgoingChunk \/ DestroyPendingPayload
  \/ Disconnected \/ NotifyShutdown \/ StopTrackingAll

ReceiverStatusUpdate(e) ==
  \/ OnPayload(e) \/ SuccessfulIncomingChunk(e) \/ FinishedIncoming(e)
  \/ IncomingDisconnected(e)

ReceiverReader(e) == ProcessDataPacket(e) \/ ProcessIncomingControl(e)

Next ==
  \/ dtor # "down" /\ (SendJob \/ StatusUpdate)
  \/ \E i \in Id, es \in SUBSET Endpoint \ {{}}, len \in Lengths, resume \in Resumes :
       SendPayload(i, es, len, resume)
  \/ \E i \in Id : CancelPayload(i)
  \/ DisconnectFromEndpointManager \/ CancelAllPayloads \/ StopStatusUpdates
  \/ \E e \in Endpoint :
       \/ ProcessControlPacket(e) \/ RemoveEndpoint(e) \/ OnDisconnected(e) \/ ChannelBreaks(e)
       \/ ReceiverReader(e) \/ ReceiverStatusUpdate(e)
       \/ RemoveSender(e) \/ OnSenderDisconnected(e)
       \/ \E i \in Id :
            \/ CancelIncomingPayload(e, i)
            \/ \E event \in {"canceled", "error"} : RemoteControl(e, i, event)

Spec == Init /\ [][Next]_vars

Symmetry == Permutations(Endpoint)

\* Executors and readers keep running, a channel that failed is removed, and a read of
\* the payload returns, as that of bytes and files does.
Fairness ==
  /\ WF_vars(SendJob)
  /\ WF_vars(StatusUpdate)
  /\ WF_vars(CancelAllPayloads \/ StopStatusUpdates)
  /\ \A e \in Endpoint :
       /\ WF_vars(ProcessControlPacket(e)) /\ WF_vars(ReceiverReader(e))
       /\ WF_vars(ReceiverStatusUpdate(e))
       /\ WF_vars(e \in broken /\ RemoveEndpoint(e)) /\ WF_vars(OnDisconnected(e))
       /\ WF_vars(e \in broken /\ RemoveSender(e)) /\ WF_vars(OnSenderDisconnected(e))

FairSpec == Spec /\ Fairness

-----------------------------------------------------------------------------
(* Properties.                                                             *)

Device == {"up", "removing", "down"}

TypeOK ==
  /\ \A o \in DOMAIN payload :
       /\ payload[o].id \in Id /\ payload[o].in \subseteq payload[o].to
       /\ payload[o].refs \in 0..2
  /\ Len(payload) <= MaxPayload
  /\ tracked \in [Id -> 0..MaxPayload]
  /\ send.pc \in {"idle", "loop", "check", "detach", "write", "done", "release"}
  /\ link \in [Endpoint -> Device] /\ rlink \in [Endpoint -> Device]
  /\ finals \in [Transfer -> Nat] /\ rfinals \in [Transfer -> Nat]
  /\ broken \subseteq Endpoint /\ handed \subseteq Transfer
  /\ latch \in 0..MaxPayload
  /\ \A e \in Endpoint, i \in Id : in[e][i].obj \in 0..MaxPayload

\* payload_manager.h: "Holding a PendingPayloadHandle guarantees that PendingPayload
\* won't be destroyed while in use": neither the object of the running job nor a
\* tracked one is destroyed, whatever the status thread removes meanwhile.
HandleKeepsPayload ==
  /\ send.pc # "idle" => ~Freed(send.obj)
  /\ \A i \in Id : tracked[i] # 0 => ~Freed(tracked[i])

\* The sender's client sees each transfer progress and end once, although finished
\* endpoints are reported again by every turn of the loop, by the disconnection and
\* by late chunks.
Updates == INSTANCE PayloadUpdates WITH last <- told, finals <- finals

UpdatesEndOnce == Updates!Spec

\* A transfer is a success only if all that could be read of the payload, and the
\* last chunk, were written to the endpoint: no closing of the payload, removal of
\* another endpoint or failed write on the way is taken for the end of the data.
SuccessMeansSent ==
  \A t \in Transfer :
    told[t] = "success" => written[t] = payload[t[1]].len - payload[t[1]].resume + 1

\* A receiver that reports success has stored everything the sender could read.
SuccessMeansComplete ==
  \A t \in Transfer :
    rtold[t] = "success" => got[t] = payload[t[1]].len - payload[t[1]].resume

\* A transfer the receiver completed is not one the sender reports as canceled.
NotCanceledWhenReceived ==
  \A t \in Transfer : rtold[t] = "success" => told[t] # "canceled"

\* Every transfer ends: a final status is reported for it, its endpoint disconnects,
\* or the sender shuts down.
TransferEnds ==
  \A t \in Transfer :
    (t[1] \in DOMAIN payload /\ t[2] \in payload[t[1]].to)
      ~> (finals[t] > 0 \/ link[t[2]] = "down" \/ Shutdown)

\* ~PayloadManager: "waiting for pending outgoing payloads" ends.
ShutdownEnds == dtor = "waiting" ~> dtor = "down"
=============================================================================
