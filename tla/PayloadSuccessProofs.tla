----------------------- MODULE PayloadSuccessProofs -----------------------
(***************************************************************************)
(* A transfer that the sender reports as a success was written completely: *)
(* proved for payload ids that are not used again.  The sending thread runs*)
(* ahead of the status-update executor, so it may write to an endpoint for *)
(* which a failure is still queued, and skip chunks that endpoint missed.  *)
(* What saves the report is the order of the queue: the failure takes the  *)
(* endpoint away before the success of its last chunk is handled.          *)
(*                                                                         *)
(* The second part follows the frames to the receivers (ReceivedInv): what *)
(* a receiver reports as a success it has stored completely, and the sender*)
(* does not report it as canceled.                                         *)
(***************************************************************************)
EXTENDS PayloadManagerProofs

Finishes(j, i, e) == j.k = "finished" /\ j.i = i /\ e \in j.es
LastChunk(j, i)   == j.k = "chunk" /\ j.i = i /\ j.last

\* The object is tracked and still has the endpoint; a job waits that takes it away.
Live(o, e)    == tracked[payload[o].id] = o /\ e \in payload[o].in
Pending(o, e) == \E n \in 1..Len(statusQ) : Finishes(statusQ[n], payload[o].id, e)

\* The send-payload job of the object has not started; it has written its last frame.
Waiting(o) == \E n \in 1..Len(execQ) : execQ[n] = payload[o].id
Sending(o) == send # Idle /\ send.obj = o
Over(o)    == ~Waiting(o) /\ (Sending(o) => send.pc \in {"done", "release"})

\* The frames of a complete transfer, and those written so far.
Frames(o) == payload[o].len - payload[o].resume + 1
SoFar     == IF send.off = 0 THEN 0 ELSE send.off - payload[send.obj].resume

OneObject ==
  /\ written \in [Transfer -> Nat]
  /\ \A o, p \in 1..Len(payload) : payload[o].id = payload[p].id => o = p
  /\ \A n \in 1..Len(execQ) : \E o \in 1..Len(payload) : execQ[n] = payload[o].id
  /\ \A m, n \in 1..Len(execQ) : execQ[m] = execQ[n] => m = n
  /\ \A t \in Transfer : t[1] > Len(payload) => written[t] = 0

WaitingInv ==
  \A o \in 1..Len(payload) :
    Waiting(o) => ~Sending(o) /\ \A e \in Endpoint : written[<<o, e>>] = 0

\* Every endpoint that is still to get the payload has got all chunks so far, and none was lost.
SendingInv ==
  send # Idle /\ send.pc \in {"loop", "check", "detach", "write"} =>
    LET p == payload[send.obj] IN
    /\ send.off = 0 \/ (p.resume <= send.off /\ send.off <= p.len)
    /\ send.pc \in {"detach", "write"} => p.resume <= send.off /\ send.off <= p.len
    /\ send.off + send.lost <= p.len /\ (send.lost = 0 \/ p.resume <= send.off)
    /\ send.pc = "write" /\ send.n = 1 => send.off + send.lost < p.len
    /\ send.pc = "write" /\ send.n = 0 => send.off + send.lost = p.len \/ p.in = {}
    /\ \A e \in Endpoint : Live(send.obj, e) /\ ~Pending(send.obj, e) =>
         /\ written[<<send.obj, e>>] = SoFar /\ send.lost = 0
         /\ send.pc # "loop" => e \in send.eps

\* The last chunk of an endpoint that no job before it takes away completes the transfer.
LastInv ==
  \A o \in 1..Len(payload), n \in 1..Len(statusQ) : LastChunk(statusQ[n], payload[o].id) =>
    /\ Over(o)
    /\ Live(o, statusQ[n].e)
         /\ (\A m \in 1..(n - 1) : ~Finishes(statusQ[m], payload[o].id, statusQ[n].e))
       => written[<<o, statusQ[n].e>>] = Frames(o)

\* A chunk in the queue is of an object.
ChunkInv ==
  \A n \in 1..Len(statusQ) : statusQ[n].k = "chunk" =>
    \E o \in 1..Len(payload) : statusQ[n].i = payload[o].id

SuccessInv ==
  \A t \in Transfer : told[t] = "success" =>
    t[1] <= Len(payload) /\ Over(t[1]) /\ written[t] = Frames(t[1])

ClosedInv == \A o \in 1..Len(payload) : payload[o].closed => payload[o].in = {} \/ Shutdown

SentInv ==
  OneObject /\ WaitingInv /\ SendingInv /\ LastInv /\ ChunkInv /\ SuccessInv /\ ClosedInv

-----------------------------------------------------------------------------
\* What an ordinary step does to the queue: the first d jobs are handled, and jobs other
\* than chunks are posted.
Queued(d) ==
  /\ Len(statusQ) - d <= Len(statusQ')
  /\ \A n \in 1..Len(statusQ') :
       IF n + d <= Len(statusQ) THEN statusQ'[n] = statusQ[n + d] ELSE statusQ'[n].k # "chunk"

\* An endpoint that is still with its payload was so before, and the handled job was not
\* one to take it away.
Keeps(d) ==
  \A o \in 1..Len(payload), e \in Endpoint : Live(o, e)' =>
    Live(o, e) /\ (d = 1 => ~Finishes(statusQ[1], payload[o].id, e))

\* The same objects with the same ids and sizes.
Same ==
  /\ Len(payload') = Len(payload)
  /\ \A o \in 1..Len(payload) : Later(payload[o], payload'[o])

\* The object tracked under an id.
LEMMA TrackedObject ==
  ASSUME IInv, NEW i \in Id, tracked[i] # 0
  PROVE  tracked[i] \in 1..Len(payload) /\ payload[tracked[i]].id = i /\ payload[tracked[i]] \in Object
<1>1. tracked[i] \in 0..MaxPayload /\ tracked[i] <= Len(payload) /\ payload[tracked[i]].id = i
  BY DEF IInv, Core, TrackedInv, SenderType
<1>2. tracked[i] \in 1..Len(payload)
  BY <1>1
<1> QED
  BY <1>1, <1>2, SenderObjects DEF IInv, Core

\* Posting and handling jobs.
LEMMA PostQueued ==
  ASSUME SenderType, NEW js \in Seq(Job), Post(js), \A n \in 1..Len(js) : js[n].k # "chunk"
  PROVE  Queued(0)
<1>1. statusQ \in Seq(Job) /\ statusQ' = statusQ \o js
  BY DEF SenderType, Post
<1>2. Len(statusQ') = Len(statusQ) + Len(js) /\ Len(statusQ) \in Nat /\ Len(js) \in Nat
  BY <1>1
<1>3. \A n \in 1..Len(statusQ') :
        statusQ'[n] = IF n <= Len(statusQ) THEN statusQ[n] ELSE js[n - Len(statusQ)]
  BY <1>1
<1> QED
  BY <1>2, <1>3 DEF Queued

\* The first job is handled, and others posted.
LEMMA TakeQueued ==
  ASSUME SenderType, statusQ # <<>>, NEW js \in Seq(Job), statusQ' = Tail(statusQ) \o js,
         \A n \in 1..Len(js) : js[n].k # "chunk"
  PROVE  Queued(1) /\ statusQ[1] = Head(statusQ)
<1>1. statusQ \in Seq(Job) /\ Len(statusQ) \in Nat \ {0}
  BY DEF SenderType
<1>2. /\ Tail(statusQ) \in Seq(Job) /\ Len(Tail(statusQ)) = Len(statusQ) - 1
      /\ \A n \in 1..(Len(statusQ) - 1) : Tail(statusQ)[n] = statusQ[n + 1]
  BY <1>1
<1>3. /\ Len(statusQ') = Len(statusQ) - 1 + Len(js) /\ Len(js) \in Nat
      /\ \A n \in 1..Len(statusQ') :
           statusQ'[n] = IF n <= Len(statusQ) - 1 THEN Tail(statusQ)[n]
                         ELSE js[n - (Len(statusQ) - 1)]
  BY <1>1, <1>2
<1> QED
  BY <1>1, <1>2, <1>3 DEF Queued

\* The last chunks in the queue, after such a step.
LEMMA LastStep ==
  ASSUME SenderType, LastInv, ChunkInv, NEW d \in {0, 1}, Queued(d), Keeps(d), Same, SenderType',
         UNCHANGED written, \A o \in 1..Len(payload) : Over(o) => Over(o)'
  PROVE  LastInv' /\ ChunkInv'
<1>0. ChunkInv'
  <2> SUFFICES ASSUME NEW n \in 1..Len(statusQ'), statusQ'[n].k = "chunk"
               PROVE  \E o \in 1..Len(payload') : statusQ'[n].i = payload'[o].id
    BY DEF ChunkInv
  <2>1. Len(statusQ) \in Nat /\ Len(statusQ') \in Nat
    BY DEF SenderType
  <2>2. n + d \in 1..Len(statusQ) /\ statusQ'[n] = statusQ[n + d]
    BY <2>1 DEF Queued
  <2>3. PICK o \in 1..Len(payload) : statusQ[n + d].i = payload[o].id
    BY <2>2 DEF ChunkInv
  <2> QED
    BY <2>2, <2>3 DEF Same, Later
<1> SUFFICES ASSUME NEW o \in 1..Len(payload), NEW n \in 1..Len(statusQ'),
                    LastChunk(statusQ'[n], payload'[o].id)
             PROVE  /\ Over(o)'
                    /\ Live(o, statusQ[n].e)'
                         /\ (\A m \in 1..(n - 1) : ~Finishes(statusQ'[m], payload'[o].id, statusQ'[n].e))
                       => written'[<<o, statusQ'[n].e>>] = Frames(o)'
  BY <1>0 DEF LastInv, Same
<1>1. /\ payload'[o].id = payload[o].id /\ Frames(o)' = Frames(o)
  BY DEF Same, Later, Frames
<1>2. Len(statusQ) \in Nat /\ Len(statusQ') \in Nat
  BY DEF SenderType
<1>3. n + d \in 1..Len(statusQ) /\ statusQ'[n] = statusQ[n + d]
  BY <1>2 DEF Queued, LastChunk
<1>4. LastChunk(statusQ[n + d], payload[o].id)
  BY <1>1, <1>3 DEF LastChunk
<1>5. /\ Over(o)
      /\ Live(o, statusQ[n + d].e)
           /\ (\A m \in 1..(n + d - 1) : ~Finishes(statusQ[m], payload[o].id, statusQ[n + d].e))
         => written[<<o, statusQ[n + d].e>>] = Frames(o)
  BY <1>3, <1>4 DEF LastInv
<1>6. statusQ[n + d].e \in Endpoint
  <2>1. statusQ[n + d] \in Job /\ statusQ[n + d].k = "chunk"
    BY <1>3, <1>4 DEF SenderType, LastChunk
  <2> QED
    BY <2>1 DEF Job, FinishedJob, ChunkJob, DestroyJob, DisconnectJob, OtherJob
<1>7. ASSUME Live(o, statusQ[n].e)',
             \A m \in 1..(n - 1) : ~Finishes(statusQ'[m], payload'[o].id, statusQ'[n].e)
      PROVE  written'[<<o, statusQ'[n].e>>] = Frames(o)'
  <2>0. PICK e \in Endpoint : e = statusQ[n + d].e
    BY <1>6
  <2>1. statusQ'[n].e = e
    BY <1>3, <2>0
  <2>2. Live(o, e)'
    BY <1>7, <2>1 DEF Live
  <2>3. Live(o, e) /\ (d = 1 => ~Finishes(statusQ[1], payload[o].id, e))
    BY <2>2 DEF Keeps
  <2>4. ASSUME NEW m \in 1..(n + d - 1) PROVE ~Finishes(statusQ[m], payload[o].id, e)
    <3>1. CASE d = 1 /\ m = 1
      BY <2>3, <3>1
    <3>2. CASE ~(d = 1 /\ m = 1)
      <4>1. m - d \in 1..(n - 1) /\ m - d \in 1..Len(statusQ') /\ (m - d) + d = m /\ m <= Len(statusQ)
        BY <1>2, <1>3, <3>2
      <4>2. statusQ'[m - d] = statusQ[m]
        BY <4>1 DEF Queued
      <4> QED
        BY <1>1, <1>7, <2>1, <4>1, <4>2
    <3> QED
      BY <3>1, <3>2
  <2> QED
    BY <1>1, <1>5, <2>0, <2>1, <2>3, <2>4
<1> QED
  BY <1>5, <1>7

\* An endpoint that is live and not pending afterwards was so before.
LEMMA NotPending ==
  ASSUME SenderType, SenderType', NEW d \in {0, 1}, Queued(d), Keeps(d), Same,
         NEW o \in 1..Len(payload), NEW e \in Endpoint, Live(o, e)', ~Pending(o, e)'
  PROVE  Live(o, e) /\ ~Pending(o, e)
<1>1. payload'[o].id = payload[o].id
  BY DEF Same, Later
<1>2. Live(o, e) /\ (d = 1 => ~Finishes(statusQ[1], payload[o].id, e))
  BY DEF Keeps
<1>3. ASSUME NEW n \in 1..Len(statusQ) PROVE ~Finishes(statusQ[n], payload[o].id, e)
  <2>1. Len(statusQ) \in Nat /\ Len(statusQ') \in Nat
    BY DEF SenderType
  <2>2. CASE d = 1 /\ n = 1
    BY <1>2, <2>2
  <2>3. CASE ~(d = 1 /\ n = 1)
    <3>1. n - d \in 1..Len(statusQ') /\ (n - d) + d = n
      BY <2>1, <2>3 DEF Queued
    <3>2. statusQ'[n - d] = statusQ[n]
      BY <3>1 DEF Queued
    <3> QED
      BY <1>1, <3>1, <3>2 DEF Pending
  <2> QED
    BY <2>2, <2>3
<1> QED
  BY <1>2, <1>3 DEF Pending

\* Steps that write no frame and start no job: all but the running job's own part.
LEMMA QuietParts ==
  ASSUME IInv, IInv', SentInv, Same, UNCHANGED <<execQ, written>>, send' # Idle => send # Idle /\ send'.obj = send.obj,
         send' # Idle /\ send.pc \in {"done", "release"} => send'.pc \in {"done", "release"},
         \A t \in Transfer : told'[t] = "success" =>
           \/ told[t] = "success"
           \/ t[1] <= Len(payload) /\ Over(t[1]) /\ written[t] = Frames(t[1]),
         Shutdown => Shutdown',
         \A o \in 1..Len(payload) : payload'[o].closed =>
           payload[o].closed \/ payload'[o].in = {} \/ Shutdown'
  PROVE  /\ OneObject' /\ WaitingInv' /\ SuccessInv' /\ ClosedInv'
         /\ \A o \in 1..Len(payload) : Over(o) => Over(o)'
<1>1. SenderType /\ SenderType'
  BY DEF IInv, Core
<1>2. \A o \in 1..Len(payload) : payload'[o].id = payload[o].id /\ Frames(o)' = Frames(o)
  BY DEF Same, Later, Frames
<1>3. ASSUME NEW o \in 1..Len(payload)
      PROVE  (Waiting(o)' <=> Waiting(o)) /\ (Sending(o)' => Sending(o)) /\ (Over(o) => Over(o)')
  BY <1>2 DEF Waiting, Sending, Over
<1>4. OneObject'
  <2>1. OneObject /\ Len(payload') = Len(payload)
    BY DEF Same, SentInv
  <2>2. \A o, p \in 1..Len(payload') : payload'[o].id = payload'[p].id => o = p
    BY <1>2, <2>1 DEF OneObject
  <2>3. \A n \in 1..Len(execQ') : \E o \in 1..Len(payload') : execQ'[n] = payload'[o].id
    BY <1>2, <2>1 DEF OneObject
  <2> QED
    BY <2>1, <2>2, <2>3 DEF OneObject
<1>5. WaitingInv'
  BY <1>3 DEF WaitingInv, Same, SentInv
<1>7. SuccessInv'
  <2> SUFFICES ASSUME NEW t \in Transfer, told'[t] = "success"
               PROVE  t[1] <= Len(payload') /\ Over(t[1])' /\ written'[t] = Frames(t[1])'
    BY DEF SuccessInv
  <2>1. t[1] <= Len(payload) /\ Over(t[1]) /\ written[t] = Frames(t[1])
    BY DEF SentInv, SuccessInv
  <2>2. t[1] \in 1..Len(payload)
    BY <2>1, <1>1 DEF Transfer, Payload, SenderType
  <2> QED
    BY <1>2, <1>3, <2>1, <2>2 DEF Same
<1>8. ClosedInv'
  BY DEF ClosedInv, SentInv, Same, Later
<1> QED
  BY <1>3, <1>4, <1>5, <1>7, <1>8

\* Steps of the other threads.
LEMMA QuietSent ==
  ASSUME IInv, IInv', SentInv, NEW d \in {0, 1}, Queued(d), Keeps(d), Same,
         UNCHANGED <<execQ, written, send>>,
         \A t \in Transfer : told'[t] = "success" =>
           \/ told[t] = "success"
           \/ t[1] <= Len(payload) /\ Over(t[1]) /\ written[t] = Frames(t[1]),
         Shutdown => Shutdown',
         \A o \in 1..Len(payload) : payload'[o].closed =>
           payload[o].closed \/ payload'[o].in = {} \/ Shutdown'
  PROVE  SentInv'
<1>0. /\ OneObject' /\ WaitingInv' /\ SuccessInv' /\ ClosedInv'
      /\ \A o \in 1..Len(payload) : Over(o) => Over(o)'
  BY QuietParts
<1>1. LastInv' /\ ChunkInv'
  BY <1>0, LastStep DEF SentInv, IInv, Core
<1>2. ASSUME send # Idle, send.pc \in {"loop", "check", "detach", "write"}
      PROVE  SendingInv'
  <2>1. send.obj \in 1..Len(payload)
    BY <1>2, RunningJob DEF IInv
  <2>2. PICK o \in 1..Len(payload) : o = send.obj
    BY <2>1
  <2>3. Later(payload[o], payload'[o])
    BY DEF Same
  <2>4. ASSUME NEW e \in Endpoint, Live(o, e)', ~Pending(o, e)'
        PROVE  Live(o, e) /\ ~Pending(o, e)
    BY <2>4, NotPending DEF IInv, Core
  <2>5. \A e \in Endpoint : Live(send.obj, e)' /\ ~Pending(send.obj, e)' =>
          Live(send.obj, e) /\ ~Pending(send.obj, e)
    BY <2>2, <2>4 DEF Live, Pending
  <2>6. SoFar' = SoFar
    BY <2>2, <2>3 DEF SoFar, Later
  <2> QED
    BY <1>2, <2>2, <2>3, <2>5, <2>6 DEF SendingInv, SentInv, Later
<1>3. SendingInv'
  BY <1>2 DEF SendingInv
<1> QED
  BY <1>0, <1>1, <1>3 DEF SentInv

\* An object that is tracked and has an endpoint was and had it before.
LEMMA LiveBefore ==
  ASSUME SenderType, Same, \A i \in Id : tracked'[i] \in {0, tracked[i]}
  PROVE  \A o \in 1..Len(payload), e \in Endpoint : Live(o, e)' => Live(o, e)
BY SenderObjects DEF Same, Later, Live

-----------------------------------------------------------------------------
(* One lemma per kind of step.                                             *)

\* Steps that leave the objects alone, and post at most a job that is no chunk.
LEMMA OtherSent ==
  ASSUME IInv, IInv', SentInv, UNCHANGED <<payload, tracked, execQ, send, told, written>>,
         Shutdown => Shutdown',
         UNCHANGED statusQ \/ \E j \in Job : j.k # "chunk" /\ Post(<<j>>)
  PROVE  SentInv'
<1>1. SenderType
  BY DEF IInv, Core
<1>2. Same
  BY DEF Same, Later
<1>3. Queued(0)
  <2>1. CASE UNCHANGED statusQ
    BY <1>1, <2>1 DEF Queued, SenderType
  <2>2. CASE \E j \in Job : j.k # "chunk" /\ Post(<<j>>)
    <3>1. PICK j \in Job : j.k # "chunk" /\ Post(<<j>>)
      BY <2>2
    <3>2. <<j>> \in Seq(Job) /\ \A n \in 1..Len(<<j>>) : <<j>>[n].k # "chunk"
      BY <3>1
    <3> QED
      BY <1>1, <3>1, <3>2, PostQueued
  <2> QED
    BY <2>1, <2>2
<1>4. Keeps(0)
  BY DEF Keeps, Live
<1> QED
  BY <1>2, <1>3, <1>4, QuietSent

\* Steps that mark objects.
LEMMA MarkSent ==
  ASSUME IInv, IInv', SentInv, UNCHANGED <<tracked, execQ, send, told, written, statusQ>>,
         Evolves, Shutdown => Shutdown',
         \A o \in 1..Len(payload) : payload'[o].closed => payload[o].closed \/ Shutdown'
  PROVE  SentInv'
<1>1. SenderType
  BY DEF IInv, Core
<1>2. Same
  BY DEF Same, Evolves
<1>3. Queued(0)
  BY <1>1 DEF Queued, SenderType
<1>4. Keeps(0)
  BY <1>1, <1>2, LiveBefore DEF Keeps, SenderType
<1> QED
  BY <1>2, <1>3, <1>4, QuietSent

\* CancelPayload
LEMMA CancelPayloadSent ==
  ASSUME IInv, IInv', SentInv, NEW i \in Id, CancelPayload(i) PROVE SentInv'
<1> DEFINE o == tracked[i]
           p == [payload[o] EXCEPT !.canceled = TRUE]
<1>1. o \in 1..Len(payload)
  BY TrackedObject DEF CancelPayload
<1>2. payload[o] \in Object
  BY <1>1, SenderObjects DEF IInv, Core
<1>3. p \in Object /\ Later(payload[o], p) /\ p.closed = payload[o].closed
  BY <1>2 DEF Object, Later
<1>4. payload' = [payload EXCEPT ![o] = p]
  BY DEF CancelPayload
<1> HIDE DEF p
<1>5. /\ payload' \in Seq(Object) /\ Len(payload') = Len(payload)
      /\ \A q \in 1..Len(payload) : payload'[q] = IF q = o THEN p ELSE payload[q]
  BY <1>1, <1>3, <1>4, ReplaceObject DEF IInv, Core, SenderType
<1>6. Evolves /\ \A q \in 1..Len(payload) : payload'[q].closed => payload[q].closed
  BY <1>3, <1>5 DEF Evolves, Later
<1>7. UNCHANGED <<tracked, execQ, send, told, written, statusQ, dtor>>
  BY DEF CancelPayload, client, shut
<1> QED
  BY <1>6, <1>7, MarkSent DEF Shutdown

\* ProcessControlPacket
LEMMA ProcessControlPacketSent ==
  ASSUME IInv, IInv', SentInv, NEW e \in Endpoint, ProcessControlPacket(e) PROVE SentInv'
<1> DEFINE f == Head(back[e])
           o == tracked[f.i]
<1>1. UNCHANGED <<tracked, execQ, send, told, written, statusQ, dtor>>
  BY DEF ProcessControlPacket, client, shut
<1>2. f \in Answer
  BY DEF ProcessControlPacket, IInv, NetType
<1>3. f.i \in Id /\ f.k \in Status
  BY <1>2 DEF Answer, Status
<1>4. CASE payload' = payload
  BY <1>1, <1>4, OtherSent DEF Shutdown
<1>5. CASE o # 0 /\ payload' = [payload EXCEPT ![o].status[e] = f.k]
  <2> DEFINE p == [payload[o] EXCEPT !.status = [payload[o].status EXCEPT ![e] = f.k]]
  <2>1. o \in 1..Len(payload)
    BY <1>3, <1>5, TrackedObject
  <2>2. payload[o] \in Object
    BY <2>1, SenderObjects DEF IInv, Core
  <2>3. p \in Object /\ Later(payload[o], p) /\ p.closed = payload[o].closed
    BY <1>3, <2>2 DEF Object, Later
  <2>4. payload' = [payload EXCEPT ![o] = p]
    BY <1>5
  <2> HIDE DEF p
  <2>5. /\ payload' \in Seq(Object) /\ Len(payload') = Len(payload)
        /\ \A q \in 1..Len(payload) : payload'[q] = IF q = o THEN p ELSE payload[q]
    <3>1. payload \in Seq(Object)
      BY DEF IInv, Core, SenderType
    <3> QED
      BY <2>1, <2>3, <2>4, <3>1, ReplaceObject
  <2>6. Evolves /\ \A q \in 1..Len(payload) : payload'[q].closed => payload[q].closed
    BY <2>3, <2>5 DEF Evolves, Later
  <2> QED
    BY <1>1, <2>6, MarkSent DEF Shutdown
<1> QED
  BY <1>4, <1>5 DEF ProcessControlPacket

\* CancelAllPayloads closes payloads, but only when the manager shuts down.
LEMMA CancelAllPayloadsSent == ASSUME IInv, IInv', SentInv, CancelAllPayloads PROVE SentInv'
<1> DEFINE os == {tracked[i] : i \in Id} \ {0}
           f == [o \in 1..Len(payload) |->
                   IF o \in os THEN [payload[o] EXCEPT !.canceled = TRUE, !.closed = TRUE]
                   ELSE payload[o]]
<1>1. UNCHANGED <<tracked, execQ, send, told, written, statusQ>> /\ Shutdown'
  BY DEF CancelAllPayloads, client, Shutdown
<1>2. DOMAIN payload = 1..Len(payload) /\ \A o \in 1..Len(payload) : payload[o] \in Object
  BY SenderObjects DEF IInv, Core
<1>3. payload' = [o \in DOMAIN payload |-> f[o]]
  BY <1>2 DEF CancelAllPayloads
<1> HIDE DEF os
<1>4. \A o \in 1..Len(payload) : f[o] \in Object /\ Later(payload[o], f[o])
  <2>1. \A p \in Object :
          LET q == [p EXCEPT !.canceled = TRUE, !.closed = TRUE] IN q \in Object /\ Later(p, q)
    BY DEF Object, Later
  <2>2. \A p : Later(p, p)
    BY DEF Later
  <2> QED
    BY <1>2, <2>1, <2>2
<1> HIDE DEF f
<1>5. /\ payload' \in Seq(Object) /\ Len(payload') = Len(payload)
      /\ \A q \in 1..Len(payload) : payload'[q] = f[q]
  <2>1. payload \in Seq(Object)
    BY DEF IInv, Core, SenderType
  <2> QED
    BY <1>3, <1>4, <2>1, ReplaceObjects
<1>6. Evolves
  BY <1>4, <1>5 DEF Evolves
<1> QED
  BY <1>1, <1>6, MarkSent

-----------------------------------------------------------------------------
(* The status-update executor.                                             *)

\* One job is handled and nothing is posted.
LEMMA Handled ==
  ASSUME SenderType, NEW k, Take(k), statusQ' = Tail(statusQ)
  PROVE  Queued(1) /\ statusQ[1] = Head(statusQ) /\ statusQ # <<>>
<1>1. statusQ # <<>> /\ <<>> \in Seq(Job) /\ \A n \in 1..Len(<<>>) : <<>>[n].k # "chunk"
  BY DEF Take
<1>2. Tail(statusQ) = Tail(statusQ) \o <<>>
  <2>1. Tail(statusQ) \in Seq(Job)
    BY <1>1 DEF SenderType
  <2> QED
    BY <2>1
<1> QED
  BY <1>1, <1>2, TakeQueued

\* A finished job does not report a success, and takes away the endpoints it names.
LEMMA FinishedOutgoingSent == ASSUME IInv, IInv', SentInv, FinishedOutgoing PROVE SentInv'
<1> DEFINE j == Head(statusQ)
           o == tracked[j.i]
<1>1. j \in FinishedJob /\ UNCHANGED <<tracked, execQ, send, dtor>>
  BY TakeJob DEF FinishedOutgoing, shut, IInv, Core
<1>2. j.i \in Id /\ j.st # "success"
  BY <1>1 DEF FinishedJob
<1>3. Queued(1) /\ statusQ[1] = j
  BY Handled DEF FinishedOutgoing, IInv, Core
<1>4. UNCHANGED written /\ \A t \in Transfer : told'[t] = "success" => told[t] = "success"
  BY <1>2 DEF FinishedOutgoing, Tell, client
<1>5. CASE o = 0
  <2>1. payload' = payload /\ Same
    BY <1>5 DEF FinishedOutgoing, Same, Later
  <2>2. Keeps(1)
    <3> SUFFICES ASSUME NEW q \in 1..Len(payload), NEW e \in Endpoint, Live(q, e)'
                 PROVE  Live(q, e) /\ ~Finishes(statusQ[1], payload[q].id, e)
      BY DEF Keeps
    <3>1. Live(q, e) /\ tracked[payload[q].id] = q
      BY <1>1, <2>1 DEF Live
    <3> QED
      BY <1>3, <1>5, <3>1 DEF Finishes
  <2> QED
    BY <1>1, <1>3, <1>4, <2>1, <2>2, QuietSent DEF Shutdown
<1>6. CASE o # 0
  <2>1. o \in 1..Len(payload)
    BY <1>2, <1>6, TrackedObject
  <2>2. payload[o] \in Object
    BY <2>1, SenderObjects DEF IInv, Core
  <2> DEFINE p == RemoveEndpoints(payload[o], j.es)
  <2>3. payload' = [payload EXCEPT ![o] = p]
    BY <1>6 DEF FinishedOutgoing
  <2>4. /\ p \in Object /\ Later(payload[o], p) /\ p.in = payload[o].in \ j.es
        /\ p.closed => payload[o].closed \/ payload[o].in \subseteq j.es
    BY <2>2, RemoveEndpointsObject
  <2>5. p.closed => payload[o].closed \/ p.in = {}
    BY <2>4
  <2> HIDE DEF p
  <2>6. /\ Len(payload') = Len(payload)
        /\ \A q \in 1..Len(payload) : payload'[q] = IF q = o THEN p ELSE payload[q]
    BY <2>1, <2>3, <2>4, ReplaceObject DEF IInv, Core, SenderType
  <2>7. Same /\ \A q \in 1..Len(payload) : payload'[q].closed => payload[q].closed \/ payload'[q].in = {}
    BY <2>4, <2>5, <2>6 DEF Same, Later
  <2>8. Keeps(1)
    <3> SUFFICES ASSUME NEW q \in 1..Len(payload), NEW e \in Endpoint, Live(q, e)'
                 PROVE  Live(q, e) /\ ~Finishes(statusQ[1], payload[q].id, e)
      BY DEF Keeps
    <3>1. Live(q, e)
      BY <1>1, <2>7, LiveBefore DEF IInv, Core, SenderType
    <3>2. Finishes(j, payload[q].id, e) => q = o
      BY <3>1 DEF Finishes, Live
    <3>3. q = o => e \notin j.es
      BY <2>4, <2>6 DEF Live
    <3> QED
      BY <1>3, <3>1, <3>2, <3>3 DEF Finishes
  <2> QED
    BY <1>1, <1>3, <1>4, <2>7, <2>8, QuietSent DEF Shutdown
<1> QED
  BY <1>5, <1>6

\* The success of a last chunk is reported while its endpoint is live: no job took it away.
LEMMA SuccessfulOutgoingChunkSent ==
  ASSUME IInv, IInv', SentInv, SuccessfulOutgoingChunk PROVE SentInv'
<1> DEFINE j == Head(statusQ)
           o == tracked[j.i]
<1>1. j \in ChunkJob /\ UNCHANGED <<tracked, execQ, send, dtor>>
  BY TakeJob DEF SuccessfulOutgoingChunk, shut, IInv, Core
<1>2. j.i \in Id /\ j.e \in Endpoint /\ j.last \in BOOLEAN /\ j.k = "chunk"
  BY <1>1 DEF ChunkJob
<1>3. Queued(1) /\ statusQ[1] = j /\ 1 \in 1..Len(statusQ)
  <2>1. Queued(1) /\ statusQ[1] = j /\ statusQ # <<>>
    BY Handled DEF SuccessfulOutgoingChunk, IInv, Core
  <2> QED
    BY <2>1 DEF IInv, Core, SenderType
<1>4. \A i, e : ~Finishes(statusQ[1], i, e)
  BY <1>2, <1>3 DEF Finishes
<1>5. CASE UNCHANGED <<payload, client>>
  <2>1. Same /\ Keeps(1)
    BY <1>1, <1>4, <1>5 DEF Same, Later, Keeps, Live
  <2> QED
    BY <1>1, <1>3, <1>5, <2>1, QuietSent DEF Shutdown, client
<1>6. CASE /\ o # 0 /\ j.e \in payload[o].in
           /\ Tell({<<o, j.e>>}, IF j.last THEN "success" ELSE "progress")
           /\ payload' = IF j.last THEN [payload EXCEPT ![o] = RemoveEndpoints(@, {j.e})] ELSE payload
  <2>1. o \in 1..Len(payload) /\ payload[o].id = j.i
    BY <1>2, <1>6, TrackedObject
  <2>2. payload[o] \in Object
    BY <2>1, SenderObjects DEF IInv, Core
  <2>3. Same /\ \A q \in 1..Len(payload) : payload'[q].closed => payload[q].closed \/ payload'[q].in = {}
    <3>1. CASE ~j.last
      BY <1>6, <3>1 DEF Same, Later
    <3>2. CASE j.last
      <4> DEFINE p == RemoveEndpoints(payload[o], {j.e})
      <4>1. payload' = [payload EXCEPT ![o] = p]
        BY <1>6, <3>2
      <4>2. /\ p \in Object /\ Later(payload[o], p) /\ p.in = payload[o].in \ {j.e}
            /\ p.closed => payload[o].closed \/ payload[o].in \subseteq {j.e}
        <5>1. PICK es : es = {j.e}
          OBVIOUS
        <5>2. p = RemoveEndpoints(payload[o], es)
          BY <5>1
        <5> HIDE DEF p
        <5> QED
          BY <2>2, <5>1, <5>2, RemoveEndpointsObject
      <4>3. p.closed => payload[o].closed \/ p.in = {}
        BY <4>2
      <4> HIDE DEF p
      <4>4. /\ Len(payload') = Len(payload)
            /\ \A q \in 1..Len(payload) : payload'[q] = IF q = o THEN p ELSE payload[q]
        BY <2>1, <4>1, <4>2, ReplaceObject DEF IInv, Core, SenderType
      <4> QED
        BY <4>2, <4>3, <4>4 DEF Same, Later
    <3> QED
      BY <1>2, <3>1, <3>2
  <2>4. Keeps(1)
    BY <1>1, <1>4, <2>3, LiveBefore DEF Keeps, IInv, Core, SenderType
  <2>5. j.last => Over(o) /\ written[<<o, j.e>>] = Frames(o)
    <3>1. j.last => LastChunk(statusQ[1], payload[o].id)
      BY <1>2, <1>3, <2>1 DEF LastChunk
    <3>2. Live(o, statusQ[1].e)
      BY <1>3, <1>6, <2>1 DEF Live
    <3> QED
      BY <1>3, <2>1, <3>1, <3>2 DEF SentInv, LastInv
  <2>6. /\ UNCHANGED written
        /\ \A t \in Transfer : told'[t] = "success" => told[t] = "success" \/ (j.last /\ t = <<o, j.e>>)
    BY <1>6 DEF Tell
  <2>7. \A t \in Transfer : told'[t] = "success" =>
          \/ told[t] = "success"
          \/ t[1] <= Len(payload) /\ Over(t[1]) /\ written[t] = Frames(t[1])
    <3> SUFFICES ASSUME NEW t \in Transfer, j.last, t = <<o, j.e>>
                 PROVE  t[1] <= Len(payload) /\ Over(t[1]) /\ written[t] = Frames(t[1])
      BY <2>6
    <3>1. t[1] = o
      OBVIOUS
    <3> QED
      BY <2>1, <2>5, <3>1
  <2> QED
    BY <1>1, <1>3, <2>3, <2>4, <2>6, <2>7, QuietSent DEF Shutdown
<1> QED
  BY <1>5, <1>6 DEF SuccessfulOutgoingChunk

\* DestroyPendingPayload: the object is not tracked any more.
LEMMA DestroyPendingPayloadSent ==
  ASSUME IInv, IInv', SentInv, DestroyPendingPayload PROVE SentInv'
<1> DEFINE i == Head(statusQ).i
           o == tracked[i]
<1>1. /\ Head(statusQ) \in DestroyJob /\ statusQ # <<>>
      /\ UNCHANGED <<execQ, send, told, written, dtor>>
  BY TakeJob DEF DestroyPendingPayload, client, shut, IInv, Core, Take
<1>2. i \in Id /\ Head(statusQ).k = "destroy"
  BY <1>1 DEF DestroyJob
<1>3. PICK js \in Seq(Job) : statusQ' = Tail(statusQ) \o js /\ \A n \in 1..Len(js) : js[n].k # "chunk"
  <2>1. DestroyJobs(o) \in Seq(Job) /\ \A n \in 1..Len(DestroyJobs(o)) : DestroyJobs(o)[n].k # "chunk"
    <3>1. \A n \in 1..Len(DestroyJobs(o)) : DestroyJobs(o)[n].k # "chunk"
      BY DEF DestroyJobs
    <3> QED
      BY <3>1, DestroyJobsType
  <2>2. CASE o = 0
    <3>1. statusQ' = Tail(statusQ) \o <<>>
      <4>1. statusQ' = Tail(statusQ) /\ Tail(statusQ) \in Seq(Job)
        BY <1>1, <2>2 DEF DestroyPendingPayload, IInv, Core, SenderType
      <4> QED
        BY <4>1
    <3>2. <<>> \in Seq(Job) /\ \A n \in 1..Len(<<>>) : <<>>[n].k # "chunk"
      OBVIOUS
    <3> QED
      BY <3>1, <3>2
  <2>3. CASE o # 0
    BY <2>1, <2>3 DEF DestroyPendingPayload
  <2> QED
    BY <2>2, <2>3
<1>4. Queued(1) /\ statusQ[1] = Head(statusQ)
  BY <1>1, <1>3, TakeQueued DEF IInv, Core
<1>5. Same /\ \A q \in 1..Len(payload) : payload'[q].closed => payload[q].closed
  <2>1. CASE o = 0
    BY <2>1 DEF DestroyPendingPayload, Same, Later
  <2>2. CASE o # 0
    <3> DEFINE p == [payload[o] EXCEPT !.refs = payload[o].refs - 1]
    <3>1. o \in 1..Len(payload) /\ payload[o] \in Object /\ payload[o].refs - 1 \in Int
      BY <1>2, <2>2, TrackedObject, ObjectFields
    <3>2. p \in Object /\ Later(payload[o], p) /\ p.closed = payload[o].closed
      BY <3>1, RefsObject
    <3>3. payload' = [payload EXCEPT ![o] = p]
      BY <2>2 DEF DestroyPendingPayload, DropRef
    <3> HIDE DEF p
    <3>4. /\ Len(payload') = Len(payload)
          /\ \A q \in 1..Len(payload) : payload'[q] = IF q = o THEN p ELSE payload[q]
      BY <3>1, <3>2, <3>3, ReplaceObject DEF IInv, Core, SenderType
    <3> QED
      BY <3>2, <3>4 DEF Same, Later
  <2> QED
    BY <2>1, <2>2
<1>6. \A n \in Id : tracked'[n] \in {0, tracked[n]}
  BY DEF DestroyPendingPayload, IInv, Core, SenderType
<1>7. Keeps(1)
  <2>1. \A n, e : ~Finishes(statusQ[1], n, e)
    BY <1>2, <1>4 DEF Finishes
  <2> QED
    BY <1>5, <1>6, <2>1, LiveBefore DEF Keeps, IInv, Core
<1> QED
  BY <1>1, <1>4, <1>5, <1>7, QuietSent DEF Shutdown

\* OnEndpointDisconnect reports failures only.
LEMMA DisconnectedSent == ASSUME IInv, IInv', SentInv, Disconnected PROVE SentInv'
<1> DEFINE e == Head(statusQ).e
           hit == {o \in {tracked[i] : i \in Id} \ {0} : e \in payload[o].in}
           f == [o \in 1..Len(payload) |->
                   IF o \in hit THEN RemoveEndpoints(payload[o], {e}) ELSE payload[o]]
<1>1. Head(statusQ) \in DisconnectJob /\ UNCHANGED <<tracked, execQ, send, dtor>>
  BY TakeJob DEF Disconnected, shut, IInv, Core
<1>2. Queued(1) /\ statusQ[1] = Head(statusQ)
  BY Handled DEF Disconnected, IInv, Core
<1>3. UNCHANGED written /\ \A t \in Transfer : told'[t] = "success" => told[t] = "success"
  BY DEF Disconnected, Tell
<1>4. DOMAIN payload = 1..Len(payload) /\ \A o \in 1..Len(payload) : payload[o] \in Object
  BY SenderObjects DEF IInv, Core
<1>5. payload' = [o \in DOMAIN payload |-> f[o]]
  BY <1>4 DEF Disconnected
<1> HIDE DEF hit
<1>6. \A o \in 1..Len(payload) :
        /\ f[o] \in Object /\ Later(payload[o], f[o])
        /\ f[o].closed => payload[o].closed \/ f[o].in = {}
  <2> SUFFICES ASSUME NEW o \in 1..Len(payload)
               PROVE  /\ f[o] \in Object /\ Later(payload[o], f[o])
                      /\ f[o].closed => payload[o].closed \/ f[o].in = {}
    OBVIOUS
  <2>1. CASE o \in hit
    <3>1. PICK es : es = {e}
      OBVIOUS
    <3>2. f[o] = RemoveEndpoints(payload[o], es)
      BY <2>1, <3>1
    <3> HIDE DEF f
    <3>3. /\ f[o] \in Object /\ Later(payload[o], f[o]) /\ f[o].in = payload[o].in \ es
          /\ f[o].closed => payload[o].closed \/ payload[o].in \subseteq es
      <4>1. payload[o] \in Object
        BY <1>4
      <4>2. \A p \in Object :
              /\ RemoveEndpoints(p, es) \in Object /\ Later(p, RemoveEndpoints(p, es))
              /\ RemoveEndpoints(p, es).in = p.in \ es
              /\ RemoveEndpoints(p, es).closed = (p.closed \/ p.in \subseteq es)
        BY RemoveEndpointsObject
      <4> QED
        BY <3>2, <4>1, <4>2
    <3> QED
      BY <3>3
  <2>2. CASE o \notin hit
    BY <1>4, <2>2 DEF Later
  <2> QED
    BY <2>1, <2>2
<1> HIDE DEF f
<1>7. Len(payload') = Len(payload) /\ \A q \in 1..Len(payload) : payload'[q] = f[q]
  <2>1. payload \in Seq(Object)
    BY DEF IInv, Core, SenderType
  <2> QED
    BY <1>5, <1>6, <2>1, ReplaceObjects
<1>8. Same /\ \A q \in 1..Len(payload) : payload'[q].closed => payload[q].closed \/ payload'[q].in = {}
  BY <1>6, <1>7 DEF Same
<1>9. Keeps(1)
  <2>1. \A n, d : ~Finishes(statusQ[1], n, d)
    BY <1>1, <1>2 DEF Finishes, DisconnectJob
  <2> QED
    BY <1>1, <1>8, <2>1, LiveBefore DEF Keeps, IInv, Core, SenderType
<1> QED
  BY <1>1, <1>2, <1>3, <1>8, <1>9, QuietSent DEF Shutdown

\* NotifyShutdown
LEMMA NotifyShutdownSent == ASSUME IInv, IInv', SentInv, NotifyShutdown PROVE SentInv'
<1>1. Queued(1) /\ statusQ[1] = Head(statusQ)
  BY Handled DEF NotifyShutdown, IInv, Core
<1>2. UNCHANGED <<payload, tracked, execQ, send, told, written, dtor>>
  BY DEF NotifyShutdown, sender, client
<1>3. Same
  BY <1>2 DEF Same, Later
<1>4. Keeps(1)
  BY <1>1, <1>2 DEF Keeps, Live, Finishes, NotifyShutdown, Take
<1> QED
  BY <1>1, <1>2, <1>3, <1>4, QuietSent DEF Shutdown

\* After StopTrackingAllPayloads nothing is tracked and the queue is empty.
LEMMA StopTrackingAllSent == ASSUME IInv, IInv', SentInv, StopTrackingAll PROVE SentInv'
<1> DEFINE os == {tracked[i] : i \in Id} \ {0}
           f == [o \in 1..Len(payload) |-> IF o \in os THEN DropRef(payload, o)[o] ELSE payload[o]]
<1>1. /\ statusQ' = <<>> /\ tracked' = [i \in Id |-> 0] /\ Shutdown'
      /\ UNCHANGED <<execQ, send, told, written>>
  BY DEF StopTrackingAll, client, Shutdown
<1>2. DOMAIN payload = 1..Len(payload)
      /\ \A o \in 1..Len(payload) : payload[o] \in Object /\ payload[o].id \in Id
  BY SenderObjects DEF IInv, Core
<1>3. payload' = [o \in DOMAIN payload |-> f[o]]
  BY <1>2 DEF StopTrackingAll
<1> HIDE DEF os
<1>4. \A o \in 1..Len(payload) : f[o] \in Object /\ Later(payload[o], f[o])
  <2>1. \A o \in 1..Len(payload) :
          /\ DropRef(payload, o) \in Seq(Object) /\ Len(DropRef(payload, o)) = Len(payload)
          /\ Later(payload[o], DropRef(payload, o)[o])
    BY DropRefObject DEF IInv, Core, SenderType
  <2>2. \A o \in 1..Len(payload) : DropRef(payload, o)[o] \in Object
    BY <2>1
  <2>3. \A p : Later(p, p)
    BY DEF Later
  <2> QED
    BY <1>2, <2>1, <2>2, <2>3
<1> HIDE DEF f
<1>5. Len(payload') = Len(payload) /\ \A q \in 1..Len(payload) : payload'[q] = f[q]
  <2>1. payload \in Seq(Object)
    BY DEF IInv, Core, SenderType
  <2> QED
    BY <1>3, <1>4, <2>1, ReplaceObjects
<1>6. Same
  BY <1>4, <1>5 DEF Same
<1>7. OneObject' /\ WaitingInv' /\ SuccessInv' /\ ClosedInv'
  BY <1>1, <1>6, QuietParts
<1>8. LastInv' /\ ChunkInv'
  BY <1>1 DEF LastInv, ChunkInv
<1>9. SendingInv'
  <2>1. ASSUME send # Idle, send.pc \in {"loop", "check", "detach", "write"} PROVE SendingInv'
    <3>1. send.obj \in 1..Len(payload)
      BY <2>1, RunningJob DEF IInv
    <3>2. PICK o \in 1..Len(payload) : o = send.obj
      BY <3>1
    <3>3. Later(payload[o], payload'[o])
      BY <1>6 DEF Same
    <3>4. \A e \in Endpoint : ~Live(send.obj, e)'
      BY <1>1, <1>2, <3>2, <3>3 DEF Live, Later
    <3> QED
      BY <1>1, <2>1, <3>2, <3>3, <3>4 DEF SendingInv, SentInv, Later
  <2> QED
    BY <1>1, <2>1 DEF SendingInv
<1> QED
  BY <1>7, <1>8, <1>9 DEF SentInv

-----------------------------------------------------------------------------
(* The send-payload job.                                                   *)

\* The running job goes on: what is left to show is its own part.
LEMMA JobParts ==
  ASSUME IInv, IInv', SentInv, Queued(0), UNCHANGED <<payload, tracked, execQ, told, written, dtor>>,
         send' # Idle => send # Idle /\ send'.obj = send.obj,
         send' # Idle /\ send.pc \in {"done", "release"} => send'.pc \in {"done", "release"}
  PROVE  /\ SendingInv' => SentInv'
         /\ \A o \in 1..Len(payload), e \in Endpoint :
              Live(o, e)' /\ ~Pending(o, e)' => Live(o, e) /\ ~Pending(o, e)
<1>1. Same /\ Keeps(0) /\ (Shutdown => Shutdown')
  BY DEF Same, Later, Keeps, Live, Shutdown
<1>2. /\ OneObject' /\ WaitingInv' /\ SuccessInv' /\ ClosedInv'
      /\ \A o \in 1..Len(payload) : Over(o) => Over(o)'
  BY <1>1, QuietParts
<1>3. LastInv' /\ ChunkInv'
  BY <1>1, <1>2, LastStep DEF SentInv, IInv, Core
<1>4. \A o \in 1..Len(payload), e \in Endpoint :
        Live(o, e)' /\ ~Pending(o, e)' => Live(o, e) /\ ~Pending(o, e)
  BY <1>1, NotPending DEF IInv, Core
<1> QED
  BY <1>2, <1>3, <1>4 DEF SentInv

\* The object of the running job: what the invariant says of it.
LEMMA SendingObject ==
  ASSUME IInv, SentInv, send.pc \in {"loop", "check", "detach", "write"}
  PROVE  /\ send # Idle /\ send \in Running /\ send.obj \in 1..Len(payload)
         /\ payload[send.obj] \in Object /\ payload[send.obj].id \in Id
         /\ payload[send.obj].len \in Nat /\ payload[send.obj].resume \in Nat
         /\ send.eps \subseteq Endpoint /\ send.off \in Nat /\ send.lost \in Nat /\ send.n \in {0, 1}
<1>1. /\ send # Idle /\ send \in Running /\ send.obj \in 1..Len(payload)
      /\ payload[send.obj] \in Object /\ payload[send.obj].id \in Id
      /\ send.eps \subseteq Endpoint /\ send.off \in Nat /\ send.lost \in Nat /\ send.n \in {0, 1}
  BY RunningJob DEF IInv
<1> QED
  BY <1>1, ObjectFields

\* The queue is as it was.
LEMMA SameQueue == ASSUME SenderType, UNCHANGED statusQ PROVE Queued(0)
BY DEF SenderType, Queued

\* Every endpoint that is still to get the payload is among those the job goes on with.
LEMMA GetEndpointsSent == ASSUME IInv, IInv', SentInv, GetEndpoints PROVE SentInv'
<1>1. send.pc = "loop" /\ UNCHANGED <<payload, tracked, execQ, told, written, statusQ, dtor>>
  BY DEF GetEndpoints, client, shut
<1>2. /\ send # Idle /\ send \in Running /\ send.obj \in 1..Len(payload)
  BY <1>1, SendingObject
<1>3. Queued(0)
  BY <1>1, SameQueue DEF IInv, Core
<1>4. CASE send' = [send EXCEPT !.pc = "done"]
  <2>1. send' # Idle /\ send'.obj = send.obj /\ send'.pc = "done"
    BY <1>2, <1>4 DEF Idle, Running
  <2>2. SendingInv'
    BY <2>1 DEF SendingInv
  <2> QED
    BY <1>1, <1>2, <1>3, <2>1, <2>2, JobParts
<1>5. CASE send' = [send EXCEPT !.pc = "check", !.eps = payload[send.obj].in]
  <2>1. /\ send' # Idle /\ send'.obj = send.obj /\ send'.pc = "check" /\ send'.off = send.off
        /\ send'.eps = payload[send.obj].in /\ send'.lost = send.lost
    BY <1>2, <1>5 DEF Idle, Running
  <2>2. \A o \in 1..Len(payload), e \in Endpoint :
          Live(o, e)' /\ ~Pending(o, e)' => Live(o, e) /\ ~Pending(o, e)
    BY <1>1, <1>2, <1>3, <2>1, JobParts
  <2>3. ASSUME NEW e \in Endpoint, Live(send.obj, e)', ~Pending(send.obj, e)'
        PROVE  written'[<<send'.obj, e>>] = SoFar' /\ send'.lost = 0 /\ e \in send'.eps
    <3>1. PICK o \in 1..Len(payload) : o = send.obj
      BY <1>2
    <3>2. Live(o, e)' /\ ~Pending(o, e)'
      BY <2>1, <2>3, <3>1 DEF Live, Pending
    <3>3. Live(o, e) /\ ~Pending(o, e)
      BY <2>2, <3>2
    <3>4. written[<<o, e>>] = SoFar /\ send.lost = 0
      BY <1>1, <1>2, <3>1, <3>3 DEF SentInv, SendingInv
    <3>5. SoFar' = SoFar
      BY <1>1, <2>1 DEF SoFar
    <3> QED
      BY <1>1, <2>1, <3>1, <3>3, <3>4, <3>5 DEF Live
  <2>4. SendingInv'
    BY <1>1, <1>2, <2>1, <2>3 DEF SendingInv, SentInv
  <2> QED
    BY <1>1, <1>2, <1>3, <2>1, <2>4, JobParts
<1> QED
  BY <1>4, <1>5 DEF GetEndpoints

\* The job is over when it stops sending.
LEMMA JobStops ==
  ASSUME IInv, IInv', SentInv, Queued(0), UNCHANGED <<payload, tracked, execQ, told, written, dtor>>,
         send \in Running, NEW pc \in {"done", "release"}, send' = [send EXCEPT !.pc = pc]
  PROVE  SentInv'
<1>1. send # Idle /\ send' # Idle /\ send'.obj = send.obj /\ send'.pc = pc
  BY DEF Running, Idle
<1>2. SendingInv'
  BY <1>1 DEF SendingInv
<1> QED
  BY <1>1, <1>2, JobParts

\* A job that is not a chunk is posted.
LEMMA PostOne ==
  ASSUME IInv, NEW j \in Job, j.k # "chunk", Post(<<j>>) PROVE Queued(0)
<1>1. <<j>> \in Seq(Job) /\ \A n \in 1..Len(<<j>>) : <<j>>[n].k # "chunk"
  OBVIOUS
<1> QED
  BY <1>1, PostQueued DEF IInv, Core

\* PayloadGrown and the end of the job.
LEMMA EndsSent == ASSUME IInv, IInv', SentInv, PayloadGrown \/ EndJob PROVE SentInv'
<1>1. send \in Running /\ payload[send.obj].id \in Id /\ send.eps \subseteq Endpoint
  BY RunningJob DEF PayloadGrown, EndJob, IInv
<1>2. UNCHANGED <<payload, tracked, execQ, told, written, dtor>>
  BY DEF PayloadGrown, EndJob, client, shut
<1>3. PICK j \in Job : j.k # "chunk" /\ Post(<<j>>)
  <2>1. Finished(send.obj, send.eps, "failure") \in Job
    BY <1>1 DEF Finished, Job, FinishedJob
  <2>2. [k |-> "destroy", i |-> payload[send.obj].id] \in Job
    BY <1>1 DEF Job, DestroyJob
  <2>3. Finished(send.obj, send.eps, "failure").k # "chunk"
    BY DEF Finished
  <2> QED
    BY <2>1, <2>2, <2>3 DEF PayloadGrown, EndJob
<1>4. Queued(0)
  BY <1>3, PostOne
<1>5. \E pc \in {"done", "release"} : send' = [send EXCEPT !.pc = pc]
  BY DEF PayloadGrown, EndJob
<1> QED
  BY <1>1, <1>2, <1>4, <1>5, JobStops

\* DetachNextChunk: an empty chunk is the end of the data, or nobody is left to get it.
LEMMA DetachNextChunkSent ==
  ASSUME IInv, IInv', SentInv, NEW n \in {0, 1}, DetachNextChunk(n) PROVE SentInv'
<1>1. send.pc = "detach" /\ UNCHANGED <<payload, tracked, execQ, told, written, statusQ, dtor>>
  BY DEF DetachNextChunk, client, shut
<1>2. /\ send # Idle /\ send \in Running /\ send.obj \in 1..Len(payload)
      /\ payload[send.obj].len \in Nat /\ payload[send.obj].resume \in Nat /\ send.off \in Nat /\ send.lost \in Nat
  BY <1>1, SendingObject
<1>3. Queued(0)
  BY <1>1, SameQueue DEF IInv, Core
<1>4. CASE send' = [send EXCEPT !.pc = "done"]
  BY <1>1, <1>2, <1>3, <1>4, JobStops
<1>5. CASE ~Shutdown /\ send' = [send EXCEPT !.pc = "write", !.n = n]
  <2>1. /\ send' # Idle /\ send'.obj = send.obj /\ send'.pc = "write" /\ send'.off = send.off
        /\ send'.eps = send.eps /\ send'.n = n /\ send'.lost = send.lost
    BY <1>2, <1>5 DEF Idle, Running
  <2>2. \A o \in 1..Len(payload), e \in Endpoint :
          Live(o, e)' /\ ~Pending(o, e)' => Live(o, e) /\ ~Pending(o, e)
    BY <1>1, <1>2, <1>3, <2>1, JobParts
  <2>3. PICK o \in 1..Len(payload) : o = send.obj
    BY <1>2
  <2>4. /\ payload[o].resume <= send.off /\ send.off <= payload[o].len
        /\ send.off + send.lost <= payload[o].len /\ (send.lost = 0 \/ payload[o].resume <= send.off)
        /\ n = 1 => send.off + send.lost < payload[o].len
        /\ n = 0 => send.off + send.lost = payload[o].len \/ payload[o].in = {}
    <3>1. /\ payload[o].resume <= send.off /\ send.off <= payload[o].len
          /\ send.off + send.lost <= payload[o].len
      BY <1>1, <1>2, <2>3 DEF SentInv, SendingInv
    <3>2. payload[o].closed => payload[o].in = {}
      BY <1>5 DEF SentInv, ClosedInv
    <3>3. n = IF ~payload[o].closed /\ send.off + send.lost < payload[o].len THEN 1 ELSE 0
      BY <2>3 DEF DetachNextChunk
    <3>4. CASE payload[o].closed
      BY <3>1, <3>2, <3>3, <3>4
    <3>5. CASE ~payload[o].closed
      <4>1. n = IF send.off + send.lost < payload[o].len THEN 1 ELSE 0
        BY <3>3, <3>5
      <4>2. PICK k \in Nat, l \in Nat : k = send.off + send.lost /\ l = payload[o].len
        BY <1>2, <2>3
      <4>3. /\ n = 1 => k < l
            /\ n = 0 => k = l
        BY <3>1, <4>1, <4>2
      <4> QED
        BY <3>1, <4>2, <4>3
    <3> QED
      BY <3>4, <3>5
  <2>5. ASSUME NEW e \in Endpoint, Live(send.obj, e)', ~Pending(send.obj, e)'
        PROVE  written'[<<send'.obj, e>>] = SoFar' /\ send'.lost = 0 /\ e \in send'.eps
    <3>1. Live(o, e)' /\ ~Pending(o, e)'
      BY <2>1, <2>3, <2>5 DEF Live, Pending
    <3>2. Live(o, e) /\ ~Pending(o, e)
      BY <2>2, <3>1
    <3>3. written[<<o, e>>] = SoFar /\ send.lost = 0 /\ e \in send.eps
      BY <1>1, <1>2, <2>3, <3>2 DEF SentInv, SendingInv
    <3>4. SoFar' = SoFar
      BY <1>1, <2>1 DEF SoFar
    <3> QED
      BY <1>1, <2>1, <2>3, <3>3, <3>4
  <2>6. SendingInv'
    BY <1>1, <2>1, <2>3, <2>4, <2>5 DEF SendingInv
  <2> QED
    BY <1>1, <1>2, <1>3, <2>1, <2>6, JobParts
<1> QED
  BY <1>4, <1>5 DEF DetachNextChunk

\* The handle is given back.
LEMMA ReleaseHandleSent == ASSUME IInv, IInv', SentInv, ReleaseHandle PROVE SentInv'
<1> DEFINE o == send.obj
           p == [payload[o] EXCEPT !.refs = payload[o].refs - 1]
<1>1. send' = Idle /\ UNCHANGED <<tracked, execQ, told, written, dtor>>
  BY DEF ReleaseHandle, client, shut
<1>2. o \in 1..Len(payload) /\ payload[o] \in Object /\ payload[o].refs - 1 \in Int
  BY RunningJob, ObjectFields DEF ReleaseHandle, IInv
<1>3. p \in Object /\ Later(payload[o], p) /\ p.closed = payload[o].closed
  BY <1>2, RefsObject
<1>4. payload' = [payload EXCEPT ![o] = p]
  BY DEF ReleaseHandle, DropRef
<1> HIDE DEF p
<1>5. /\ Len(payload') = Len(payload)
      /\ \A q \in 1..Len(payload) : payload'[q] = IF q = o THEN p ELSE payload[q]
  BY <1>2, <1>3, <1>4, ReplaceObject DEF IInv, Core, SenderType
<1>6. Same /\ \A q \in 1..Len(payload) : payload'[q].closed => payload[q].closed
  BY <1>3, <1>5 DEF Same, Later
<1>7. Queued(0)
  <2>1. DestroyJobs(o) \in Seq(Job) /\ \A n \in 1..Len(DestroyJobs(o)) : DestroyJobs(o)[n].k # "chunk"
    <3>1. \A n \in 1..Len(DestroyJobs(o)) : DestroyJobs(o)[n].k # "chunk"
      BY DEF DestroyJobs
    <3> QED
      BY <3>1, DestroyJobsType
  <2> QED
    BY <2>1, PostQueued DEF ReleaseHandle, IInv, Core
<1>8. Keeps(0)
  BY <1>1, <1>6, LiveBefore DEF Keeps, IInv, Core, SenderType
<1>9. /\ OneObject' /\ WaitingInv' /\ SuccessInv' /\ ClosedInv'
      /\ \A q \in 1..Len(payload) : Over(q) => Over(q)'
  BY <1>1, <1>6, QuietParts DEF Shutdown
<1>10. LastInv' /\ ChunkInv'
  BY <1>1, <1>6, <1>7, <1>8, <1>9, LastStep DEF SentInv, IInv, Core
<1>11. SendingInv'
  BY <1>1 DEF SendingInv
<1> QED
  BY <1>9, <1>10, <1>11 DEF SentInv

\* A posted job that takes an endpoint away makes it pending.
LEMMA PostPending ==
  ASSUME IInv, NEW js \in Seq(Job), Post(js), NEW m \in 1..Len(js), NEW o, NEW e,
         UNCHANGED payload, Finishes(js[m], payload[o].id, e)
  PROVE  Pending(o, e)'
<1>1. statusQ \in Seq(Job) /\ statusQ' = statusQ \o js
  BY DEF IInv, Core, SenderType, Post
<1>2. /\ Len(statusQ) + m \in 1..Len(statusQ') /\ statusQ'[Len(statusQ) + m] = js[m]
  BY <1>1
<1> QED
  BY <1>2 DEF Pending

\* The endpoints that have become unavailable are reported before the job goes on without
\* them, and the offset is moved to where the payload is resumed.
LEMMA CheckEndpointsSent == ASSUME IInv, IInv', SentInv, CheckEndpoints PROVE SentInv'
<1> DEFINE s == payload[send.obj].status
           gone == {e \in send.eps : s[e] # "available"}
           avail == send.eps \ gone
           jobs == GoneJobs(send.obj, s, gone)
           skip == send.off = 0 /\ payload[send.obj].resume > 0
<1>1. send.pc = "check" /\ UNCHANGED <<payload, tracked, execQ, told, written, dtor>>
  BY DEF CheckEndpoints, client, shut
<1>2. /\ send # Idle /\ send \in Running /\ send.obj \in 1..Len(payload)
      /\ payload[send.obj].id \in Id /\ send.eps \subseteq Endpoint
      /\ payload[send.obj].len \in Nat /\ payload[send.obj].resume \in Nat /\ send.off \in Nat
      /\ send.lost \in Nat
  BY <1>1, SendingObject
<1>3. \/ Post(jobs) /\ send' = [send EXCEPT !.pc = "done"]
      \/ /\ \E st \in {"failure", "canceled"} : Post(Append(jobs, Finished(send.obj, avail, st)))
         /\ send' = [send EXCEPT !.pc = "done"]
      \/ /\ Post(jobs) /\ (skip => payload[send.obj].resume <= payload[send.obj].len)
         /\ send' = [send EXCEPT !.pc = "detach", !.eps = avail,
                                 !.off = IF skip THEN payload[send.obj].resume ELSE @]
  BY DEF CheckEndpoints, GoneJobs
<1>4. gone \in SUBSET Endpoint /\ avail \in SUBSET Endpoint
  BY <1>2
<1>5. /\ jobs \in Seq(Job) /\ \A n \in 1..Len(jobs) : jobs[n].k # "chunk"
      /\ \A e \in gone : \E n \in 1..Len(jobs) :
           jobs[n] = Finished(send.obj, {e}, UpdateStatus(s[e]))
  <2> DEFINE o == send.obj
  <2>1. payload[o].id \in Id
    BY <1>2
  <2> HIDE DEF gone, s, o
  <2>2. /\ GoneJobs(o, s, gone) \in Seq(Job)
        /\ \A n \in 1..Len(GoneJobs(o, s, gone)) : GoneJobs(o, s, gone)[n].k # "chunk"
        /\ \A e \in gone : \E n \in 1..Len(GoneJobs(o, s, gone)) :
             GoneJobs(o, s, gone)[n] = Finished(o, {e}, UpdateStatus(s[e]))
    BY <1>4, <2>1, FinishedJobs
  <2> QED
    BY <2>2 DEF o
<1> HIDE DEF jobs
<1>6. CASE Post(jobs) /\ send' = [send EXCEPT !.pc = "done"]
  BY <1>1, <1>2, <1>5, <1>6, PostQueued, JobStops DEF IInv, Core
<1>7. ASSUME NEW st \in {"failure", "canceled"}, Post(Append(jobs, Finished(send.obj, avail, st))),
             send' = [send EXCEPT !.pc = "done"]
      PROVE  SentInv'
  <2> DEFINE j == Finished(send.obj, avail, st)
  <2>1. j \in Job /\ j.k # "chunk"
    BY <1>2, <1>4 DEF Finished, Job, FinishedJob
  <2> HIDE DEF j
  <2>2. Append(jobs, j) \in Seq(Job) /\ \A n \in 1..Len(Append(jobs, j)) : Append(jobs, j)[n].k # "chunk"
    BY <1>5, <2>1
  <2>3. Queued(0)
    BY <1>7, <2>2, PostQueued DEF j, IInv, Core
  <2> QED
    BY <1>1, <1>2, <1>7, <2>3, JobStops
<1>8. CASE /\ Post(jobs) /\ (skip => payload[send.obj].resume <= payload[send.obj].len)
           /\ send' = [send EXCEPT !.pc = "detach", !.eps = avail,
                                   !.off = IF skip THEN payload[send.obj].resume ELSE @]
  <2>1. /\ send' # Idle /\ send'.obj = send.obj /\ send'.pc = "detach" /\ send'.eps = avail
        /\ send'.off = IF skip THEN payload[send.obj].resume ELSE send.off
        /\ send'.lost = send.lost
    BY <1>2, <1>8 DEF Idle, Running
  <2>2. Queued(0)
    BY <1>5, <1>8, PostQueued DEF IInv, Core
  <2>3. \A o \in 1..Len(payload), e \in Endpoint :
          Live(o, e)' /\ ~Pending(o, e)' => Live(o, e) /\ ~Pending(o, e)
    BY <1>1, <1>2, <2>1, <2>2, JobParts
  <2>4. PICK o \in 1..Len(payload) : o = send.obj
    BY <1>2
  <2>5. /\ send.off = 0 \/ (payload[o].resume <= send.off /\ send.off <= payload[o].len)
        /\ send.off + send.lost <= payload[o].len /\ (send.lost = 0 \/ payload[o].resume <= send.off)
    BY <1>1, <1>2, <2>4 DEF SentInv, SendingInv
  <2>6. /\ payload[o].resume <= send'.off /\ send'.off <= payload[o].len
        /\ send'.off + send'.lost <= payload[o].len
    <3>1. CASE skip
      <4>1. send.lost = 0 /\ send'.off = payload[o].resume /\ payload[o].resume <= payload[o].len
        BY <1>2, <1>8, <2>1, <2>4, <2>5, <3>1
      <4> QED
        BY <1>2, <2>1, <2>4, <4>1
    <3>2. CASE ~skip
      BY <1>2, <2>1, <2>4, <2>5, <3>2
    <3> QED
      BY <3>1, <3>2
  <2>7. SoFar' = SoFar
    <3>1. payload'[send'.obj].resume = payload[o].resume
      BY <1>1, <2>1, <2>4
    <3> QED
      BY <1>2, <2>1, <2>4, <3>1 DEF SoFar
  <2>8. ASSUME NEW e \in Endpoint, Live(send.obj, e)', ~Pending(send.obj, e)'
        PROVE  written'[<<send'.obj, e>>] = SoFar' /\ send'.lost = 0 /\ e \in send'.eps
    <3>1. Live(o, e)' /\ ~Pending(o, e)'
      BY <2>1, <2>4, <2>8 DEF Live, Pending
    <3>2. Live(o, e) /\ ~Pending(o, e)
      BY <2>3, <3>1
    <3>3. written[<<o, e>>] = SoFar /\ send.lost = 0 /\ e \in send.eps
      BY <1>1, <1>2, <2>4, <3>2 DEF SentInv, SendingInv
    <3>4. ASSUME e \in gone PROVE FALSE
      <4>1. PICK n \in 1..Len(jobs) : jobs[n] = Finished(send.obj, {e}, UpdateStatus(s[e]))
        BY <1>5, <3>4
      <4>2. Finishes(jobs[n], payload[o].id, e)
        BY <2>4, <4>1 DEF Finishes, Finished
      <4> QED
        BY <1>1, <1>5, <1>8, <3>1, <4>2, PostPending
    <3> QED
      BY <1>1, <2>1, <2>4, <2>7, <3>3, <3>4
  <2>9. SendingInv'
    BY <1>1, <2>1, <2>4, <2>6, <2>8 DEF SendingInv
  <2> QED
    BY <1>1, <1>2, <2>1, <2>2, <2>9, JobParts
<1> QED
  BY <1>3, <1>6, <1>7, <1>8

\* The jobs SendPayloadChunk posts: first the failure of the endpoints that could not be
\* written to, then the chunks.
LEMMA ChunkPosted ==
  ASSUME IInv, send.pc = "write", NEW failed \in SUBSET Endpoint, SendPayloadChunk(failed)
  PROVE  /\ Len(statusQ) \in Nat /\ Len(statusQ') \in Nat /\ Len(statusQ) <= Len(statusQ')
         /\ \A n \in 1..Len(statusQ) : statusQ'[n] = statusQ[n]
         /\ \A n \in 1..Len(statusQ') : n > Len(statusQ) /\ statusQ'[n].k = "chunk" =>
              /\ statusQ'[n].i = payload[send.obj].id
              /\ statusQ'[n].e \in send.eps \ failed
              /\ statusQ'[n].last = (send.n = 0)
         /\ failed # {} => \E n \in 1..Len(statusQ') : statusQ'[n] = Finished(send.obj, failed, "failure")
<1> DEFINE o == send.obj
           ok == send.eps \ failed
           last == send.n = 0
           done == DoneJobs(payload[o].id, ok, last)
           fin == Finished(o, failed, "failure")
           lost == IF failed = {} THEN <<>> ELSE <<fin>>
<1>1. send.eps \subseteq Endpoint /\ payload[o].id \in Id
  BY RunningJob DEF IInv
<1>2. /\ done \in Seq(Job)
      /\ \A n \in 1..Len(done) :
           done[n].k = "chunk" /\ done[n].i = payload[o].id /\ done[n].e \in ok /\ done[n].last = last
  <2>1. ok \in SUBSET Endpoint /\ last \in BOOLEAN
    BY <1>1
  <2> HIDE DEF ok, last, o
  <2> QED
    BY <1>1, <2>1, ChunkJobs
<1>3. fin \in Job /\ fin.k # "chunk"
  BY <1>1 DEF Finished, Job, FinishedJob
<1>4. statusQ' = statusQ \o (lost \o done) /\ statusQ \in Seq(Job)
  BY DEF SendPayloadChunk, Post, DoneJobs, IInv, Core, SenderType
<1> HIDE DEF done, fin
<1>5. lost \in Seq(Job) /\ (failed # {} => Len(lost) = 1 /\ lost[1] = fin)
      /\ \A n \in 1..Len(lost) : lost[n].k # "chunk"
  BY <1>3
<1> HIDE DEF lost, ok, last, o
<1> DEFINE js == lost \o done
<1>6. /\ js \in Seq(Job) /\ Len(js) = Len(lost) + Len(done)
      /\ \A n \in 1..Len(js) : js[n] = IF n <= Len(lost) THEN lost[n] ELSE done[n - Len(lost)]
  BY <1>2, <1>5
<1>7. /\ \A n \in 1..Len(js) : js[n].k = "chunk" =>
           js[n].i = payload[o].id /\ js[n].e \in ok /\ js[n].last = last
      /\ failed # {} => 1 \in 1..Len(js) /\ js[1] = fin
  BY <1>2, <1>5, <1>6
<1>8. statusQ' = statusQ \o js
  BY <1>4
<1> HIDE DEF js
<1>9. /\ Len(statusQ') = Len(statusQ) + Len(js) /\ Len(statusQ) \in Nat /\ Len(js) \in Nat
      /\ \A n \in 1..Len(statusQ') :
           statusQ'[n] = IF n <= Len(statusQ) THEN statusQ[n] ELSE js[n - Len(statusQ)]
  <2>1. statusQ \in Seq(Job) /\ js \in Seq(Job)
    BY <1>4, <1>6
  <2>2. Len(statusQ') = Len(statusQ) + Len(js) /\ Len(statusQ) \in Nat /\ Len(js) \in Nat
    BY <1>8, <2>1
  <2>3. \A n \in 1..Len(statusQ') :
          statusQ'[n] = IF n <= Len(statusQ) THEN statusQ[n] ELSE js[n - Len(statusQ)]
    BY <1>8, <2>1
  <2> QED
    BY <2>2, <2>3
<1>10. ASSUME NEW n \in 1..Len(statusQ'), n > Len(statusQ), statusQ'[n].k = "chunk"
       PROVE  statusQ'[n].i = payload[o].id /\ statusQ'[n].e \in ok /\ statusQ'[n].last = last
  <2>1. n - Len(statusQ) \in 1..Len(js) /\ statusQ'[n] = js[n - Len(statusQ)]
    BY <1>9, <1>10
  <2> QED
    BY <1>7, <1>10, <2>1
<1>11. ASSUME failed # {} PROVE \E n \in 1..Len(statusQ') : statusQ'[n] = fin
  <2>1. 1 \in 1..Len(js) /\ js[1] = fin
    BY <1>7, <1>11
  <2>2. Len(statusQ) + 1 \in 1..Len(statusQ') /\ statusQ'[Len(statusQ) + 1] = fin
    BY <1>9, <2>1
  <2> QED
    BY <2>2
<1>12. Len(statusQ') \in Nat /\ Len(statusQ) <= Len(statusQ') /\ \A n \in 1..Len(statusQ) : statusQ'[n] = statusQ[n]
  BY <1>9
<1> QED
  BY <1>9, <1>10, <1>11, <1>12 DEF fin, ok, last, o

\* An endpoint that is live and not pending after the chunk was written to it.
LEMMA SendPayloadChunkSent ==
  ASSUME IInv, IInv', SentInv, NEW failed \in SUBSET Endpoint, SendPayloadChunk(failed) PROVE SentInv'
<1> DEFINE ok == send.eps \ failed
<1>1. /\ send.pc = "write" /\ UNCHANGED <<payload, tracked, execQ, told, dtor>>
      /\ written' = [t \in Transfer |-> IF t \in {send.obj} \X ok THEN written[t] + 1 ELSE written[t]]
      /\ send' = IF ok = {} THEN [send EXCEPT !.pc = "loop", !.lost = @ + send.n]
                 ELSE [send EXCEPT !.pc = IF send.n = 0 THEN "done" ELSE "loop", !.off = @ + send.n]
  BY DEF SendPayloadChunk, shut
<1>2. /\ send # Idle /\ send \in Running /\ send.obj \in 1..Len(payload)
      /\ payload[send.obj].len \in Nat /\ payload[send.obj].resume \in Nat
      /\ send.off \in Nat /\ send.lost \in Nat /\ send.n \in {0, 1} /\ send.eps \subseteq Endpoint
  BY <1>1, SendingObject
<1>3. PICK o \in 1..Len(payload) : o = send.obj
  BY <1>2
<1>4. /\ send' # Idle /\ send'.obj = o
      /\ send'.pc = IF ok # {} /\ send.n = 0 THEN "done" ELSE "loop"
      /\ send'.off = IF ok = {} THEN send.off ELSE send.off + send.n
      /\ send'.lost = IF ok = {} THEN send.lost + send.n ELSE send.lost
  BY <1>1, <1>2, <1>3 DEF Idle, Running
<1>5. /\ payload[o].resume <= send.off /\ send.off <= payload[o].len
      /\ send.off + send.lost <= payload[o].len
      /\ send.n = 1 => send.off + send.lost < payload[o].len
      /\ send.n = 0 => send.off + send.lost = payload[o].len \/ payload[o].in = {}
      /\ \A e \in Endpoint : Live(o, e) /\ ~Pending(o, e) =>
           written[<<o, e>>] = send.off - payload[o].resume /\ send.lost = 0 /\ e \in send.eps
  <2>1. SendingInv
    BY DEF SentInv
  <2>2. /\ payload[o].resume <= send.off /\ send.off <= payload[o].len
        /\ send.off + send.lost <= payload[o].len
        /\ send.n = 1 => send.off + send.lost < payload[o].len
        /\ send.n = 0 => send.off + send.lost = payload[o].len \/ payload[o].in = {}
        /\ \A e \in Endpoint : Live(o, e) /\ ~Pending(o, e) =>
             written[<<o, e>>] = SoFar /\ send.lost = 0 /\ e \in send.eps
    BY <1>1, <1>2, <1>3, <2>1 DEF SendingInv
  <2>3. SoFar = send.off - payload[o].resume
    BY <1>2, <1>3, <2>2 DEF SoFar
  <2> QED
    BY <2>2, <2>3
<1>6. /\ Len(statusQ) \in Nat /\ Len(statusQ') \in Nat /\ Len(statusQ) <= Len(statusQ')
      /\ \A n \in 1..Len(statusQ) : statusQ'[n] = statusQ[n]
      /\ \A n \in 1..Len(statusQ') : n > Len(statusQ) /\ statusQ'[n].k = "chunk" =>
           statusQ'[n].i = payload[o].id /\ statusQ'[n].e \in ok /\ statusQ'[n].last = (send.n = 0)
      /\ failed # {} => \E n \in 1..Len(statusQ') : statusQ'[n] = Finished(o, failed, "failure")
  BY <1>1, <1>3, ChunkPosted
<1>7. Sending(o) /\ ~Waiting(o) /\ ~Over(o)
  BY <1>1, <1>2, <1>3 DEF Sending, Over, SentInv, WaitingInv
<1>8. /\ \A q \in 1..Len(payload) : (Waiting(q)' <=> Waiting(q)) /\ (Sending(q)' <=> Sending(q))
      /\ \A q \in 1..Len(payload) : Over(q) => Over(q)' /\ q # o
      /\ \A q \in 1..Len(payload) : Frames(q)' = Frames(q)
      /\ \A q \in 1..Len(payload), e \in Endpoint : Live(q, e)' <=> Live(q, e)
  BY <1>1, <1>2, <1>3, <1>4, <1>7 DEF Waiting, Sending, Over, Frames, Live
<1>9. /\ written \in [Transfer -> Nat] /\ written' \in [Transfer -> Nat]
      /\ \A t \in Transfer : t[1] # o => written'[t] = written[t]
      /\ \A q \in 1..Len(payload), e \in Endpoint :
           <<q, e>> \in Transfer /\ (q # o => written'[<<q, e>>] = written[<<q, e>>])
      /\ \A e \in ok : written'[<<o, e>>] = written[<<o, e>>] + 1
  <2>1. written \in [Transfer -> Nat]
    BY DEF SentInv, OneObject
  <2>2. \A q \in 1..Len(payload), e \in Endpoint : <<q, e>> \in Transfer
    BY PayloadAssumption, SenderObjects DEF Transfer, Payload, IInv, Core, SenderType
  <2>3. written' \in [Transfer -> Nat] /\ \A t \in Transfer : t[1] # o => written'[t] = written[t]
    BY <1>1, <1>3, <2>1
  <2>4. ok \subseteq Endpoint
    BY <1>2
  <2>5. \A e \in ok : written'[<<o, e>>] = written[<<o, e>>] + 1
    BY <1>1, <1>3, <2>1, <2>2, <2>4
  <2> QED
    BY <2>1, <2>2, <2>3, <2>5
<1>10. OneObject'
  <2>1. \A t \in Transfer : t[1] > Len(payload') => written'[t] = 0
    BY <1>1, <1>3, <1>9 DEF SentInv, OneObject
  <2> QED
    BY <1>1, <1>9, <2>1 DEF SentInv, OneObject
<1>11. WaitingInv'
  BY <1>1, <1>7, <1>8, <1>9 DEF SentInv, WaitingInv
<1>12. SuccessInv'
  <2> SUFFICES ASSUME NEW t \in Transfer, told'[t] = "success"
               PROVE  t[1] <= Len(payload') /\ Over(t[1])' /\ written'[t] = Frames(t[1])'
    BY DEF SuccessInv
  <2>1. t[1] <= Len(payload) /\ Over(t[1]) /\ written[t] = Frames(t[1])
    BY <1>1 DEF SentInv, SuccessInv
  <2>2. t[1] \in 1..Len(payload)
    BY <2>1 DEF Transfer, Payload
  <2> QED
    BY <1>1, <1>8, <1>9, <2>1, <2>2
<1>13. ClosedInv'
  BY <1>1 DEF SentInv, ClosedInv, Shutdown
<1>14. \A e \in Endpoint : Live(o, e)' /\ ~Pending(o, e)' => Live(o, e) /\ ~Pending(o, e) /\ e \in ok
  <2> SUFFICES ASSUME NEW e \in Endpoint, Live(o, e)', ~Pending(o, e)'
               PROVE  Live(o, e) /\ ~Pending(o, e) /\ e \in ok
    OBVIOUS
  <2>1. Live(o, e)
    BY <1>8
  <2>2. ~Pending(o, e)
    BY <1>1, <1>6 DEF Pending
  <2>3. e \notin failed
    BY <1>1, <1>6 DEF Pending, Finishes, Finished
  <2> QED
    BY <1>5, <2>1, <2>2, <2>3
<1>15. LastInv'
  <2> SUFFICES ASSUME NEW q \in 1..Len(payload), NEW n \in 1..Len(statusQ'),
                      LastChunk(statusQ'[n], payload[q].id)
               PROVE  /\ Over(q)'
                      /\ Live(q, statusQ[n].e)'
                           /\ (\A m \in 1..(n - 1) : ~Finishes(statusQ'[m], payload[q].id, statusQ'[n].e))
                         => written'[<<q, statusQ'[n].e>>] = Frames(q)'
    BY <1>1 DEF LastInv
  <2>0. PICK e : e = statusQ'[n].e
    OBVIOUS
  <2>1. CASE n <= Len(statusQ)
    <3>1. n \in 1..Len(statusQ) /\ statusQ'[n] = statusQ[n] /\ e = statusQ[n].e
      BY <1>6, <2>0, <2>1
    <3>2. LastChunk(statusQ[n], payload[q].id)
      BY <3>1
    <3>3. Over(q)
         /\ (Live(q, e) /\ (\A m \in 1..(n - 1) : ~Finishes(statusQ[m], payload[q].id, e))
               => written[<<q, e>>] = Frames(q))
      BY <3>1, <3>2 DEF SentInv, LastInv
    <3>4. e \in Endpoint
      <4>1. statusQ[n] \in Job /\ statusQ[n].k = "chunk"
        BY <3>1, <3>2 DEF LastChunk, IInv, Core, SenderType
      <4> QED
        BY <3>1, <4>1 DEF Job, FinishedJob, ChunkJob, DestroyJob, DisconnectJob, OtherJob
    <3>5. \A m \in 1..(n - 1) : statusQ'[m] = statusQ[m]
      BY <1>6, <3>1
    <3>6. Live(q, statusQ[n].e)' => Live(q, e)
      BY <1>1, <2>0 DEF Live
    <3> QED
      BY <1>8, <1>9, <2>0, <3>3, <3>4, <3>5, <3>6
  <2>2. CASE n > Len(statusQ)
    <3>1. statusQ'[n].i = payload[o].id /\ e \in ok /\ send.n = 0 /\ q = o
      BY <1>6, <2>0, <2>2 DEF LastChunk, SentInv, OneObject
    <3>2. Over(o)'
      BY <1>4, <1>7, <1>8, <3>1 DEF Over
    <3>3. ASSUME Live(q, statusQ[n].e)', \A m \in 1..(n - 1) : ~Finishes(statusQ'[m], payload[q].id, e)
          PROVE  written'[<<o, e>>] = Frames(o)'
      <4>1. Live(o, e)
        BY <1>1, <2>0, <3>1, <3>3 DEF Live
      <4>2. ~Pending(o, e)
        BY <1>6, <2>2, <3>1, <3>3 DEF Pending
      <4>3. written[<<o, e>>] = send.off - payload[o].resume /\ send.lost = 0 /\ e \in Endpoint
        BY <1>2, <1>5, <3>1, <4>1, <4>2
      <4>4. send.off = payload[o].len
        BY <1>2, <1>5, <3>1, <4>1, <4>3 DEF Live
      <4>5. written'[<<o, e>>] = send.off - payload[o].resume + 1
        BY <1>9, <3>1, <4>3
      <4> QED
        BY <1>8, <4>4, <4>5 DEF Frames
    <3> QED
      BY <2>0, <3>1, <3>2, <3>3
  <2> QED
    BY <1>6, <2>1, <2>2
<1>16. SendingInv'
  <2>1. CASE send'.pc = "loop"
    <3>1. ASSUME NEW e \in Endpoint, Live(send.obj, e)', ~Pending(send.obj, e)'
          PROVE  written'[<<send'.obj, e>>] = SoFar' /\ send'.lost = 0
      <4>1. Live(o, e)' /\ ~Pending(o, e)'
        BY <1>4, <3>1 DEF Live, Pending
      <4>2. Live(o, e) /\ ~Pending(o, e) /\ e \in ok
        BY <1>14, <4>1
      <4>3. written'[<<o, e>>] = send.off - payload[o].resume + 1
        BY <1>5, <1>9, <4>2
      <4>4. send.n = 1 /\ send'.off = send.off + 1
        BY <1>2, <1>4, <2>1, <4>2
      <4>5. SoFar' = (send.off + 1) - payload[o].resume
        <5>1. payload'[send'.obj].resume = payload[o].resume /\ send'.off # 0
          BY <1>1, <1>2, <1>4, <4>4
        <5> QED
          BY <4>4, <5>1 DEF SoFar
      <4>6. send'.lost = 0
        BY <1>4, <1>5, <4>2
      <4>7. SoFar' = (send.off - payload[o].resume) + 1
        <5>1. send.off \in Int /\ payload[o].resume \in Int
          BY <1>2, <1>3
        <5> QED
          BY <4>5, <5>1
      <4>8. written'[<<send'.obj, e>>] = written'[<<o, e>>]
        BY <1>4
      <4> QED
        BY <4>3, <4>6, <4>7, <4>8
    <3>2. /\ payload[o].resume <= send'.off /\ send'.off <= payload[o].len
          /\ send'.off + send'.lost <= payload[o].len
      <4>1. CASE ok = {}
        BY <1>2, <1>3, <1>4, <1>5, <4>1
      <4>2. CASE ok # {}
        <5>1. send.n = 1 /\ send'.off = send.off + 1 /\ send'.lost = send.lost
          BY <1>2, <1>4, <2>1, <4>2
        <5>2. PICK a \in Nat, b \in Nat, c \in Nat, d \in Nat :
                a = send.off /\ b = send.lost /\ c = payload[o].resume /\ d = payload[o].len
          BY <1>2, <1>3
        <5>3. c <= a /\ a + b < d
          BY <1>5, <5>1, <5>2
        <5>4. c <= a + 1 /\ a + 1 <= d /\ (a + 1) + b <= d
          BY <5>3
        <5> QED
          BY <5>1, <5>2, <5>4
      <4> QED
        BY <4>1, <4>2
    <3> QED
      BY <1>1, <1>4, <2>1, <3>1, <3>2 DEF SendingInv
  <2>2. CASE send'.pc = "done"
    BY <2>2 DEF SendingInv
  <2> QED
    BY <1>4, <2>1, <2>2
<1>17. ChunkInv'
  BY <1>1, <1>3, <1>6 DEF ChunkInv, SentInv
<1> QED
  BY <1>10, <1>11, <1>12, <1>13, <1>15, <1>16, <1>17 DEF SentInv

-----------------------------------------------------------------------------
(* New payloads and new jobs.                                              *)

\* The first job leaves the queue of the executor.
LEMMA TakeJobOff ==
  ASSUME IInv, SentInv, execQ # <<>>, execQ' = Tail(execQ)
  PROVE  /\ Head(execQ) \in Id /\ Len(execQ) \in Nat /\ Len(execQ') = Len(execQ) - 1
         /\ \A n \in 1..Len(execQ') : execQ'[n] = execQ[n + 1] /\ n + 1 \in 1..Len(execQ)
                                       /\ execQ'[n] # Head(execQ)
<1>1. execQ \in Seq(Id) /\ Len(execQ) \in Nat \ {0} /\ Head(execQ) = execQ[1]
  BY DEF IInv, Core, SenderType
<1>2. Len(execQ') = Len(execQ) - 1 /\ \A n \in 1..(Len(execQ) - 1) : execQ'[n] = execQ[n + 1]
  BY <1>1
<1>3. \A m, n \in 1..Len(execQ) : execQ[m] = execQ[n] => m = n
  BY DEF SentInv, OneObject
<1>4. \A n \in 1..Len(execQ') : n + 1 \in 1..Len(execQ) /\ n + 1 # 1 /\ 1 \in 1..Len(execQ)
  BY <1>1, <1>2
<1>5. Head(execQ) \in Id
  BY <1>1
<1> QED
  BY <1>1, <1>2, <1>3, <1>4, <1>5

\* A job starts with nothing written, whether it finds its payload or not.
LEMMA StartJobSent == ASSUME IInv, IInv', SentInv, StartJob PROVE SentInv'
<1> DEFINE i == Head(execQ)
           o == tracked[i]
<1>1. /\ send = Idle /\ execQ # <<>> /\ execQ' = Tail(execQ)
      /\ UNCHANGED <<tracked, statusQ, told, written, dtor>>
  BY DEF StartJob, client, shut
<1>2. /\ i \in Id /\ Len(execQ) \in Nat /\ Len(execQ') = Len(execQ) - 1
      /\ \A n \in 1..Len(execQ') : execQ'[n] = execQ[n + 1] /\ n + 1 \in 1..Len(execQ) /\ execQ'[n] # i
  BY <1>1, TakeJobOff
<1>3. /\ Same /\ \A q \in 1..Len(payload) : payload'[q].closed = payload[q].closed
      /\ \/ send' = Idle
         \/ /\ o \in 1..Len(payload) /\ payload[o].id = i
            /\ send' = [pc |-> "loop", obj |-> o, off |-> 0, lost |-> 0, eps |-> {}, n |-> 0]
  <2>1. CASE UNCHANGED <<payload, send>>
    BY <1>1, <2>1 DEF Same, Later
  <2>2. CASE /\ o # 0 /\ payload' = [payload EXCEPT ![o].refs = @ + 1]
             /\ send' = [pc |-> "loop", obj |-> o, off |-> 0, lost |-> 0, eps |-> {}, n |-> 0]
    <3>1. o \in 1..Len(payload) /\ payload[o].id = i /\ payload[o] \in Object
      BY <1>2, <2>2, TrackedObject
    <3> DEFINE p == [payload[o] EXCEPT !.refs = payload[o].refs + 1]
    <3>2. payload[o].refs + 1 \in Int /\ payload \in Seq(Object)
      <4>1. payload \in Seq(Object)
        BY DEF IInv, Core, SenderType
      <4> QED
        BY <3>1, <4>1, ObjectFields
    <3>3. payload' = [payload EXCEPT ![o] = p]
      BY <2>2
    <3> HIDE DEF i, o
    <3>4. p \in Object /\ Later(payload[o], p) /\ p.closed = payload[o].closed
      BY <3>1, <3>2, RefsObject
    <3> HIDE DEF p
    <3>5. /\ Len(payload') = Len(payload)
          /\ \A q \in 1..Len(payload) : payload'[q] = IF q = o THEN p ELSE payload[q]
      BY <3>1, <3>2, <3>3, <3>4, ReplaceObject
    <3> QED
      BY <2>2, <3>1, <3>4, <3>5 DEF Same, Later
  <2> QED
    BY <2>1, <2>2 DEF StartJob
<1> HIDE DEF i, o
<1>4. \A q \in 1..Len(payload) : payload'[q].id = payload[q].id /\ Frames(q)' = Frames(q)
  BY <1>3 DEF Same, Later, Frames
<1>5. Waiting(o) \/ send' = Idle
  <2>1. execQ[1] = i /\ 1 \in 1..Len(execQ)
    BY <1>1 DEF i, IInv, Core, SenderType
  <2> QED
    BY <1>3, <2>1 DEF Waiting
<1>6. ASSUME NEW q \in 1..Len(payload)
      PROVE  (Waiting(q)' => Waiting(q) /\ ~Sending(q)') /\ (Over(q) => Over(q)')
  <2>1. Waiting(q)' => Waiting(q) /\ payload[q].id # i
    BY <1>2, <1>4 DEF Waiting
  <2>2. Sending(q)' => q = o /\ payload[q].id = i /\ send' # Idle
    BY <1>3 DEF Sending
  <2>3. Waiting(q)' => ~Sending(q)'
    BY <2>1, <2>2
  <2>4. Over(q) => ~Waiting(q) /\ ~Waiting(q)' /\ ~Sending(q)'
    BY <1>5, <2>1, <2>2 DEF Over
  <2> QED
    BY <2>1, <2>3, <2>4 DEF Over
<1>7. OneObject'
  <2>1. OneObject /\ Len(payload') = Len(payload)
    BY <1>3 DEF SentInv, Same
  <2>2. \A p, q \in 1..Len(payload') : payload'[p].id = payload'[q].id => p = q
    BY <1>4, <2>1 DEF OneObject
  <2>3. \A n \in 1..Len(execQ') : \E q \in 1..Len(payload') : execQ'[n] = payload'[q].id
    BY <1>2, <1>4, <2>1 DEF OneObject
  <2>4. ASSUME NEW m \in 1..Len(execQ'), NEW n \in 1..Len(execQ'), execQ'[m] = execQ'[n] PROVE m = n
    <3>1. m + 1 = n + 1
      BY <1>2, <2>1, <2>4 DEF OneObject
    <3> QED
      BY <1>2, <3>1
  <2> QED
    BY <1>1, <2>1, <2>2, <2>3, <2>4 DEF OneObject
<1>8. WaitingInv'
  BY <1>1, <1>3, <1>6 DEF WaitingInv, SentInv, Same
<1>9. SuccessInv'
  <2> SUFFICES ASSUME NEW t \in Transfer, told'[t] = "success"
               PROVE  t[1] <= Len(payload') /\ Over(t[1])' /\ written'[t] = Frames(t[1])'
    BY DEF SuccessInv
  <2>1. t[1] <= Len(payload) /\ Over(t[1]) /\ written[t] = Frames(t[1])
    BY <1>1 DEF SentInv, SuccessInv
  <2>2. t[1] \in 1..Len(payload)
    BY <2>1 DEF Transfer, Payload, IInv, Core, SenderType
  <2> QED
    BY <1>1, <1>3, <1>4, <1>6, <2>1, <2>2 DEF Same
<1>10. ClosedInv'
  BY <1>1, <1>3 DEF ClosedInv, SentInv, Same, Later, Shutdown
<1>11. Queued(0) /\ Keeps(0)
  <2>1. Queued(0)
    BY <1>1, SameQueue DEF IInv, Core
  <2>2. \A q \in 1..Len(payload), e \in Endpoint : Live(q, e)' => Live(q, e)
    BY <1>1, <1>3, LiveBefore DEF IInv, Core, SenderType
  <2> QED
    BY <2>1, <2>2 DEF Keeps
<1>12. LastInv' /\ ChunkInv'
  BY <1>1, <1>3, <1>6, <1>11, LastStep DEF SentInv, IInv, Core
<1>13. SendingInv'
  <2>1. CASE send' = Idle
    BY <2>1 DEF SendingInv
  <2>2. CASE send' # Idle
    <3>1. /\ o \in 1..Len(payload) /\ send'.obj = o /\ send'.off = 0 /\ send'.lost = 0 /\ send'.pc = "loop"
      BY <1>3, <2>2
    <3>2. \A e \in Endpoint : written[<<o, e>>] = 0
      BY <1>5, <2>2, <3>1 DEF SentInv, WaitingInv
    <3>3. SoFar' = 0
      BY <3>1 DEF SoFar
    <3>4. send'.off + send'.lost <= payload'[o].len
      <4>1. payload[o] \in Object /\ payload'[o].len = payload[o].len
        BY <1>3, <3>1, SenderObjects DEF Same, Later, IInv, Core
      <4>2. payload'[o].len \in Nat
        BY <4>1, ObjectFields
      <4> QED
        BY <3>1, <4>2
    <3> QED
      BY <1>1, <3>1, <3>2, <3>3, <3>4 DEF SendingInv
  <2> QED
    BY <2>1, <2>2
<1> QED
  BY <1>7, <1>8, <1>9, <1>10, <1>12, <1>13 DEF SentInv

\* A new payload, with an id that no other has, waits for the executor.
LEMMA SendPayloadSent ==
  ASSUME IInv, IInv', SentInv, "reuse" \notin Events,
         NEW i \in Id, NEW es \in SUBSET Endpoint, NEW len \in Lengths, NEW resume \in Resumes,
         SendPayload(i, es, len, resume)
  PROVE  SentInv'
<1> DEFINE o == Len(payload) + 1
           new == [id |-> i, to |-> es, in |-> es, status |-> [e \in Endpoint |-> "available"],
                   len |-> len, resume |-> resume, canceled |-> FALSE, closed |-> FALSE, refs |-> 1]
<1>1. /\ \A p \in 1..Len(payload) : payload[p].id # i
      /\ tracked[i] = 0 /\ Len(payload) \in Nat
  <2>1. DOMAIN payload = 1..Len(payload) /\ Len(payload) \in Nat
    BY SenderObjects DEF IInv, Core
  <2>2. \A p \in 1..Len(payload) : payload[p].id # i
    BY <2>1 DEF SendPayload
  <2> QED
    BY <2>1, <2>2, TrackedObject
<1>2. /\ payload' = Append(payload, new) /\ tracked' = [tracked EXCEPT ![i] = o]
      /\ execQ' = Append(execQ, i) /\ UNCHANGED <<send, statusQ, told, written, dtor>>
  BY <1>1 DEF SendPayload, client, shut
<1>3. new.id = i /\ new.closed = FALSE
  OBVIOUS
<1> HIDE DEF new
<1>4. /\ Len(payload') = o /\ payload'[o] = new
      /\ \A q \in 1..Len(payload) : payload'[q] = payload[q]
  <2>1. payload \in Seq(Object)
    BY DEF IInv, Core, SenderType
  <2> QED
    BY <1>2, <2>1
<1>5. /\ Len(execQ) \in Nat /\ Len(execQ') = Len(execQ) + 1 /\ execQ'[Len(execQ) + 1] = i
      /\ \A n \in 1..Len(execQ) : execQ'[n] = execQ[n]
  <2>1. execQ \in Seq(Id)
    BY DEF IInv, Core, SenderType
  <2> QED
    BY <1>2, <2>1
<1>6. /\ \A q \in 1..Len(payload') : q = o \/ q \in 1..Len(payload)
      /\ \A n \in 1..Len(execQ') : n = Len(execQ) + 1 \/ n \in 1..Len(execQ)
      /\ Len(execQ) + 1 \in 1..Len(execQ') /\ o \in 1..Len(payload') /\ o \notin 1..Len(payload)
      /\ \A n \in 1..Len(execQ) : n \in 1..Len(execQ')
  BY <1>1, <1>4, <1>5
<1>7. \A n \in 1..Len(execQ) : execQ[n] # i
  BY <1>1 DEF SentInv, OneObject
<1>8. send' = Idle \/ send'.obj # o
  BY <1>1, <1>2 DEF Sending, IInv, Core, TrackedInv, SenderType, Running, Payload
<1> HIDE DEF o
<1>9. ASSUME NEW q \in 1..Len(payload)
      PROVE  /\ Waiting(q)' <=> Waiting(q)
             /\ Sending(q)' <=> Sending(q)
             /\ Over(q)' <=> Over(q)
             /\ Frames(q)' = Frames(q)
             /\ \A e \in Endpoint : (Live(q, e)' <=> Live(q, e)) /\ (Pending(q, e)' <=> Pending(q, e))
  <2>1. payload'[q] = payload[q] /\ payload[q].id # i /\ payload[q].id \in Id
    BY <1>1, <1>4, SenderObjects DEF IInv, Core
  <2>2. Waiting(q)' <=> Waiting(q)
    BY <1>5, <1>6, <2>1 DEF Waiting
  <2>3. Sending(q)' <=> Sending(q)
    BY <1>2 DEF Sending
  <2>4. Over(q)' <=> Over(q)
    BY <1>2, <2>2, <2>3 DEF Over
  <2>5. tracked'[payload'[q].id] = tracked[payload[q].id]
    BY <1>2, <2>1 DEF IInv, Core, SenderType
  <2>6. \A e \in Endpoint : (Live(q, e)' <=> Live(q, e)) /\ (Pending(q, e)' <=> Pending(q, e))
    BY <1>2, <2>1, <2>5 DEF Live, Pending
  <2> QED
    BY <2>1, <2>2, <2>3, <2>4, <2>6 DEF Frames
<1>10. OneObject'
  <2>1. OneObject
    BY DEF SentInv
  <2>2. \A p, q \in 1..Len(payload') : payload'[p].id = payload'[q].id => p = q
    <3> SUFFICES ASSUME NEW p \in 1..Len(payload'), NEW q \in 1..Len(payload'), payload'[p].id = payload'[q].id
                 PROVE  p = q
      OBVIOUS
    <3>1. CASE p = o
      BY <1>1, <1>3, <1>4, <1>6, <3>1
    <3>2. CASE q = o
      BY <1>1, <1>3, <1>4, <1>6, <3>2
    <3>3. CASE p \in 1..Len(payload) /\ q \in 1..Len(payload)
      BY <1>4, <2>1, <3>3 DEF OneObject
    <3> QED
      BY <1>6, <3>1, <3>2, <3>3
  <2>3. \A n \in 1..Len(execQ') : \E q \in 1..Len(payload') : execQ'[n] = payload'[q].id
    <3> SUFFICES ASSUME NEW n \in 1..Len(execQ') PROVE \E q \in 1..Len(payload') : execQ'[n] = payload'[q].id
      OBVIOUS
    <3>1. CASE n \in 1..Len(execQ)
      <4>1. PICK q \in 1..Len(payload) : execQ[n] = payload[q].id
        BY <2>1, <3>1 DEF OneObject
      <4>2. q \in 1..Len(payload')
        BY <1>1, <1>4 DEF o
      <4> QED
        BY <1>4, <1>5, <3>1, <4>1, <4>2
    <3> QED
      BY <1>3, <1>4, <1>5, <1>6, <3>1
  <2>4. \A m, n \in 1..Len(execQ') : execQ'[m] = execQ'[n] => m = n
    BY <1>5, <1>6, <1>7, <2>1 DEF OneObject
  <2>5. \A t \in Transfer : t[1] > Len(payload') => written'[t] = 0
    BY <1>1, <1>2, <1>4, <2>1 DEF OneObject, Transfer, Payload, o
  <2> QED
    BY <1>2, <2>1, <2>2, <2>3, <2>4, <2>5 DEF OneObject
<1>11. \A e \in Endpoint : written'[<<o, e>>] = 0
  <2>1. \A e \in Endpoint : <<o, e>> \in Transfer
    BY <1>1, <1>4 DEF o, Transfer, Payload, IInv, Core, SenderType
  <2>2. \A e \in Endpoint : <<o, e>>[1] > Len(payload)
    BY <1>1 DEF o
  <2>3. \A t \in Transfer : t[1] > Len(payload) => written[t] = 0
    BY DEF SentInv, OneObject
  <2> QED
    BY <1>2, <2>1, <2>2, <2>3
<1>12. WaitingInv'
  <2>1. ASSUME NEW q \in 1..Len(payload), Waiting(q)'
        PROVE  ~Sending(q)' /\ \A e \in Endpoint : written'[<<q, e>>] = 0
    BY <1>2, <1>9, <2>1 DEF SentInv, WaitingInv
  <2>2. ASSUME NEW q \in 1..Len(payload'), Waiting(q)'
        PROVE  ~Sending(q)' /\ \A e \in Endpoint : written'[<<q, e>>] = 0
    BY <1>6, <1>8, <1>11, <2>1, <2>2 DEF Sending
  <2> QED
    BY <2>2 DEF WaitingInv
<1>13. SuccessInv'
  <2> SUFFICES ASSUME NEW t \in Transfer, told'[t] = "success"
               PROVE  t[1] <= Len(payload') /\ Over(t[1])' /\ written'[t] = Frames(t[1])'
    BY DEF SuccessInv
  <2>1. t[1] <= Len(payload) /\ Over(t[1]) /\ written[t] = Frames(t[1])
    BY <1>2 DEF SentInv, SuccessInv
  <2>2. t[1] \in 1..Len(payload) /\ t[1] <= Len(payload')
    BY <1>1, <1>4, <2>1 DEF o, Transfer, Payload
  <2> QED
    BY <1>2, <1>9, <2>1, <2>2
<1>14. ClosedInv'
  BY <1>2, <1>3, <1>4, <1>6 DEF SentInv, ClosedInv, Shutdown
<1>15. ChunkInv'
  <2> SUFFICES ASSUME NEW n \in 1..Len(statusQ), statusQ[n].k = "chunk"
               PROVE  \E q \in 1..Len(payload') : statusQ[n].i = payload'[q].id
    BY <1>2 DEF ChunkInv
  <2>1. PICK q \in 1..Len(payload) : statusQ[n].i = payload[q].id
    BY DEF SentInv, ChunkInv
  <2>2. q \in 1..Len(payload')
    BY <1>1, <1>4 DEF o
  <2> QED
    BY <1>4, <2>1, <2>2
<1>16. LastInv'
  <2> SUFFICES ASSUME NEW q \in 1..Len(payload'), NEW n \in 1..Len(statusQ),
                      LastChunk(statusQ[n], payload'[q].id)
               PROVE  /\ Over(q)'
                      /\ Live(q, statusQ[n].e)'
                           /\ (\A m \in 1..(n - 1) : ~Finishes(statusQ[m], payload'[q].id, statusQ[n].e))
                         => written'[<<q, statusQ[n].e>>] = Frames(q)'
    BY <1>2 DEF LastInv
  <2>1. q # o
    BY <1>1, <1>3, <1>4 DEF SentInv, ChunkInv, LastChunk
  <2>2. q \in 1..Len(payload) /\ payload'[q] = payload[q]
    BY <1>4, <1>6, <2>1
  <2>3. PICK e \in Endpoint : e = statusQ[n].e
    <3>1. statusQ[n] \in Job /\ statusQ[n].k = "chunk"
      BY DEF LastChunk, IInv, Core, SenderType
    <3> QED
      BY <3>1 DEF Job, FinishedJob, ChunkJob, DestroyJob, DisconnectJob, OtherJob
  <2>4. Live(q, statusQ[n].e)' => Live(q, e)
    <3>1. statusQ'[n].e = e
      BY <1>2, <2>3
    <3> QED
      BY <1>9, <2>2, <3>1 DEF Live
  <2>5. /\ Over(q)
        /\ Live(q, e) /\ (\A m \in 1..(n - 1) : ~Finishes(statusQ[m], payload[q].id, e))
           => written[<<q, e>>] = Frames(q)
    BY <2>2, <2>3 DEF SentInv, LastInv
  <2> QED
    BY <1>2, <1>9, <2>2, <2>3, <2>4, <2>5
<1>17. SendingInv'
  <2> SUFFICES ASSUME send # Idle, send.pc \in {"loop", "check", "detach", "write"} PROVE SendingInv'
    BY <1>2 DEF SendingInv
  <2>1. PICK q \in 1..Len(payload) : q = send.obj
    BY RunningJob DEF IInv
  <2>2. payload'[send.obj] = payload[send.obj] /\ SoFar' = SoFar
    BY <1>2, <1>4, <2>1 DEF SoFar
  <2>3. \A e \in Endpoint : Live(send.obj, e)' /\ ~Pending(send.obj, e)' =>
          Live(send.obj, e) /\ ~Pending(send.obj, e)
    BY <1>2, <1>9, <2>1 DEF Live, Pending
  <2>4. SendingInv
    BY DEF SentInv
  <2> QED
    BY <1>2, <2>2, <2>3, <2>4 DEF SendingInv
<1> QED
  BY <1>10, <1>12, <1>13, <1>14, <1>15, <1>16, <1>17 DEF SentInv

-----------------------------------------------------------------------------
(* The theorem.                                                            *)

\* Nothing is sent before the first payload.
LEMMA InitSent == Init => SentInv
<1> SUFFICES ASSUME Init PROVE SentInv
  OBVIOUS
<1>1. /\ payload = <<>> /\ execQ = <<>> /\ send = Idle /\ statusQ = <<>>
      /\ written = [t \in Transfer |-> 0] /\ told = [t \in Transfer |-> "none"]
  BY DEF Init
<1>2. Len(payload) = 0 /\ Len(execQ) = 0 /\ Len(statusQ) = 0
  BY <1>1
<1> QED
  BY <1>1, <1>2 DEF SentInv, OneObject, WaitingInv, SendingInv, LastInv, ChunkInv, SuccessInv, ClosedInv

\* Steps that do not touch the sender's payloads, one by one.
LEMMA OtherStep ==
  ASSUME IInv, IInv', SentInv,
         \/ UNCHANGED vars
         \/ DisconnectFromEndpointManager \/ StopStatusUpdates
         \/ \E e \in Endpoint :
              \/ RemoveEndpoint(e) \/ OnDisconnected(e) \/ ChannelBreaks(e)
              \/ ReceiverReader(e) \/ ReceiverStatusUpdate(e)
              \/ RemoveSender(e) \/ OnSenderDisconnected(e)
              \/ \E i \in Id :
                   \/ CancelIncomingPayload(e, i)
                   \/ \E event \in {"canceled", "error"} : RemoteControl(e, i, event)
  PROVE  SentInv'
<1>1. /\ UNCHANGED <<payload, tracked, execQ, send, told, written>>
      /\ Shutdown => Shutdown'
  <2> DEFINE Kept == UNCHANGED <<payload, tracked, execQ, send, told, written>> /\ (Shutdown => Shutdown')
  <2>1. ASSUME UNCHANGED vars PROVE Kept
    BY <2>1 DEF vars, others, sender, client, shut, Shutdown
  <2>2. ASSUME DisconnectFromEndpointManager \/ StopStatusUpdates PROVE Kept
    BY <2>2 DEF DisconnectFromEndpointManager, StopStatusUpdates, others, sender, client, shut, Shutdown
  <2>3. ASSUME NEW e \in Endpoint, RemoveEndpoint(e) \/ OnDisconnected(e) \/ ChannelBreaks(e) PROVE Kept
    BY <2>3 DEF RemoveEndpoint, OnDisconnected, ChannelBreaks, others, sender, client, shut, Shutdown
  <2>4. ASSUME NEW e \in Endpoint, ReceiverReader(e) PROVE Kept
    BY <2>4 DEF ReceiverReader, ProcessDataPacket, ProcessIncomingControl, others, sender, client, shut, Shutdown
  <2>5. ASSUME NEW e \in Endpoint, ReceiverStatusUpdate(e) PROVE Kept
    BY <2>5 DEF ReceiverStatusUpdate, OnPayload, SuccessfulIncomingChunk, FinishedIncoming, IncomingDisconnected,
         others, sender, client, shut, Shutdown
  <2>6. ASSUME NEW e \in Endpoint, RemoveSender(e) \/ OnSenderDisconnected(e) PROVE Kept
    BY <2>6 DEF RemoveSender, OnSenderDisconnected, others, sender, client, shut, Shutdown
  <2>7. ASSUME NEW e \in Endpoint, NEW i \in Id, CancelIncomingPayload(e, i) PROVE Kept
    BY <2>7 DEF CancelIncomingPayload, others, sender, client, shut, Shutdown
  <2>8. ASSUME NEW e \in Endpoint, NEW i \in Id, NEW event \in {"canceled", "error"}, RemoteControl(e, i, event)
        PROVE  Kept
    BY <2>8 DEF RemoteControl, others, sender, client, shut, Shutdown
  <2> HIDE DEF Kept
  <2>9. Kept
    BY <2>1, <2>2, <2>3, <2>4, <2>5, <2>6, <2>7, <2>8
  <2> QED
    BY <2>9 DEF Kept
<1>2. UNCHANGED statusQ \/ \E j \in Job : j.k # "chunk" /\ Post(<<j>>)
  <2>1. CASE StopStatusUpdates
    <3>1. [k |-> "stop"] \in Job
      BY DEF Job, OtherJob
    <3> QED
      BY <2>1, <3>1 DEF StopStatusUpdates
  <2>2. CASE \E e \in Endpoint : RemoveEndpoint(e)
    <3>1. \A e \in Endpoint : [k |-> "disconnect", e |-> e] \in Job
      BY DEF Job, DisconnectJob
    <3> QED
      BY <2>2, <3>1 DEF RemoveEndpoint
  <2>3. CASE UNCHANGED vars \/ DisconnectFromEndpointManager
    BY <2>3 DEF DisconnectFromEndpointManager, others, vars
  <2>4. ASSUME NEW e \in Endpoint, OnDisconnected(e) \/ ChannelBreaks(e) \/ RemoveSender(e) \/ OnSenderDisconnected(e)
        PROVE  UNCHANGED statusQ
    BY <2>4 DEF OnDisconnected, ChannelBreaks, RemoveSender, OnSenderDisconnected, others
  <2>5. ASSUME NEW e \in Endpoint, ReceiverReader(e) PROVE UNCHANGED statusQ
    BY <2>5 DEF ReceiverReader, ProcessDataPacket, ProcessIncomingControl, others
  <2>6. ASSUME NEW e \in Endpoint, ReceiverStatusUpdate(e) PROVE UNCHANGED statusQ
    BY <2>6 DEF ReceiverStatusUpdate, OnPayload, SuccessfulIncomingChunk, FinishedIncoming, IncomingDisconnected, others
  <2>7. ASSUME NEW e \in Endpoint, NEW i \in Id, CancelIncomingPayload(e, i) PROVE UNCHANGED statusQ
    BY <2>7 DEF CancelIncomingPayload, others
  <2>8. ASSUME NEW e \in Endpoint, NEW i \in Id, NEW event \in {"canceled", "error"}, RemoteControl(e, i, event)
        PROVE  UNCHANGED statusQ
    BY <2>8 DEF RemoteControl, others
  <2> QED
    BY <2>1, <2>2, <2>3, <2>4, <2>5, <2>6, <2>7, <2>8
<1> QED
  BY <1>1, <1>2, OtherSent

\* Every step preserves the invariant when ids are not used again.
LEMMA NextSent ==
  ASSUME "reuse" \notin Events
  PROVE  IInv /\ SentInv /\ [Next]_vars => IInv' /\ SentInv'
<1> SUFFICES ASSUME IInv, SentInv, [Next]_vars PROVE IInv' /\ SentInv'
  OBVIOUS
<1>1. IInv'
  BY NextInv
<1>2. CASE SendJob
  BY <1>1, <1>2, StartJobSent, GetEndpointsSent, CheckEndpointsSent, EndsSent, DetachNextChunkSent,
     SendPayloadChunkSent, ReleaseHandleSent DEF SendJob
<1>3. CASE StatusUpdate
  BY <1>1, <1>3, FinishedOutgoingSent, SuccessfulOutgoingChunkSent, DestroyPendingPayloadSent,
     DisconnectedSent, NotifyShutdownSent, StopTrackingAllSent DEF StatusUpdate
<1>4. ASSUME NEW i \in Id, NEW es \in SUBSET Endpoint \ {{}}, NEW len \in Lengths, NEW resume \in Resumes,
             SendPayload(i, es, len, resume)
      PROVE  SentInv'
  BY <1>1, <1>4, SendPayloadSent
<1>5. ASSUME NEW i \in Id, CancelPayload(i) PROVE SentInv'
  BY <1>1, <1>5, CancelPayloadSent
<1>6. ASSUME NEW e \in Endpoint, ProcessControlPacket(e) PROVE SentInv'
  BY <1>1, <1>6, ProcessControlPacketSent
<1>7. CASE CancelAllPayloads
  BY <1>1, <1>7, CancelAllPayloadsSent
<1> QED
  BY <1>1, <1>2, <1>3, <1>4, <1>5, <1>6, <1>7, OtherStep DEF Next

\* SuccessMeansSent, when payload ids are not used again: whatever the sending thread, the
\* status-update executor, the readers and the destructor do meanwhile, the sender's client is
\* told of a success only after every chunk that could be read and the last frame were written.
THEOREM SuccessesSent == ASSUME "reuse" \notin Events PROVE Spec => []SuccessMeansSent
<1>1. Init => IInv /\ SentInv
  BY InitInv, InitSent
<1>2. IInv /\ SentInv /\ [Next]_vars => (IInv /\ SentInv)'
  BY NextSent
<1>3. IInv /\ SentInv => SuccessMeansSent
  BY DEF SentInv, SuccessInv, SuccessMeansSent, Frames
<1> QED
  BY <1>1, <1>2, <1>3, PTL DEF Spec

-----------------------------------------------------------------------------
(* What a receiver has got when it reports a success.  Frames to an        *)
(* endpoint are written in order and without a gap as long as its channel  *)
(* works, since only a failed write makes the job skip one and a channel   *)
(* never recovers.  A receiver that misses a chunk has dropped or canceled *)
(* the payload, or queued its end before the last chunk.                   *)

Chunks(o) == payload[o].len - payload[o].resume

\* The job goes on; its next frame, at offset SoFar, will be written to the channel of e.
Loops == send # Idle /\ send.pc \in {"loop", "check", "detach", "write"}
Up(e) == e \notin broken /\ link[e] = "up"
Ready(o, e) ==
  /\ Loops /\ send.obj = o /\ Up(e) /\ e \notin Remote
  /\ send.pc = "loop" => e \in payload[o].in
  /\ send.pc # "loop" => e \in send.eps
  /\ send.pc \in {"loop", "check"} => payload[o].status[e] = "available"

\* A job of a receiver's queue ends the incoming payload i; it is its last chunk.
REnds(j, i) == j.k = "finished" /\ j.i = i
RLast(j, i) == j.k = "chunk" /\ j.i = i /\ j.last

\* The receiver will not report the payload as a success; it has seen nothing of it.
Spoiled(e, i) ==
  ~in[e][i].on \/ in[e][i].canceled \/ \E n \in 1..Len(rstatusQ[e]) : REnds(rstatusQ[e][n], i)
Fresh(o, e) ==
  /\ ~in[e][payload[o].id].on /\ got[<<o, e>>] = 0
  /\ \A n \in 1..Len(rstatusQ[e]) :
       rstatusQ[e][n].k # "disconnect" => rstatusQ[e][n].i # payload[o].id

\* Frames of an object: a chunk, one that others follow, the last one.
IsData(f, o) == f.k = "data" /\ f.obj = o
IsMore(f, o) == f.k = "data" /\ f.obj = o /\ ~f.last
IsLast(f, o) == f.k = "data" /\ f.obj = o /\ f.last

Unsent(o, e) == \A n \in 1..Len(wire[e]) : wire[e][n].obj # o
NoMore(o, e) == Over(o) /\ \A n \in 1..Len(wire[e]) : ~IsData(wire[e][n], o)

\* What comes before the chunk at offset k: the frame at place n or, if n is 0, what the
\* receiver has stored.
Precedes(o, e, n, k) ==
  IF n = 0 THEN Spoiled(e, payload[o].id) \/ got[<<o, e>>] = k
  ELSE IsMore(wire[e][n], o) /\ wire[e][n].off = k - 1

\* Jobs in the sender's queue.
QueueInv ==
  \A n \in 1..Len(statusQ) :
    /\ statusQ[n].k = "finished" =>
         \E o \in 1..Len(payload) : statusQ[n].i = payload[o].id /\ ~Waiting(o)
    /\ statusQ[n].k = "disconnect" => link[statusQ[n].e] # "up"

\* The running job leaves out no endpoint whose channel works, unless the endpoint has said so,
\* and goes on with none after it lost a chunk.
Leaves(o, e) ==
  /\ Pending(o, e) => payload[o].status[e] # "available"
  /\ send.pc = "check" /\ e \in send.eps =>
       e \in payload[o].in \/ payload[o].status[e] # "available"
  /\ send.pc \in {"detach", "write"} /\ e \in send.eps => e \in payload[o].in /\ ~Pending(o, e)
  /\ send.pc # "loop" /\ e \in payload[o].in /\ payload[o].status[e] = "available" => e \in send.eps
  /\ send.lost # 0 /\ e \in payload[o].in => payload[o].status[e] # "available"
  /\ send.lost # 0 /\ send.pc # "loop" /\ e \in send.eps =>
       send.pc = "check" /\ payload[o].status[e] # "available"
EpsInv == Loops => \A e \in Endpoint : Up(e) => Leaves(send.obj, e)

IncomingOf(e) ==
  /\ \A i \in Id : in[e][i].on =>
       in[e][i].obj \in 1..Len(payload) /\ payload[in[e][i].obj].id = i
  /\ \A n \in 1..Len(rstatusQ[e]) : rstatusQ[e][n].k # "disconnect" =>
       \E o \in 1..Len(payload) : rstatusQ[e][n].i = payload[o].id
  /\ \A o \in Payload : got[<<o, e>>] \in Nat /\ (o > Len(payload) => got[<<o, e>>] = 0)

\* A frame on the wire continues the one before it, or what the receiver has.
FrameOf(e, n, f) ==
  /\ f.obj \in 1..Len(payload) /\ f.i = payload[f.obj].id /\ ~Waiting(f.obj)
  /\ \A m \in 1..(n - 1) : wire[e][m].obj = f.obj => IsMore(wire[e][m], f.obj)
  /\ f.k # "data" => Over(f.obj)
  /\ f.k = "data" =>
       /\ written[<<f.obj, e>>] > 0 /\ f.off >= 0
       /\ f.last => Over(f.obj) /\ f.off = Chunks(f.obj)
       /\ f.off = 0 => Fresh(f.obj, e) /\ \A m \in 1..(n - 1) : wire[e][m].obj # f.obj
       /\ f.off > 0 => Precedes(f.obj, e, n - 1, f.off)
FramesOf(e) == \A n \in 1..Len(wire[e]) : FrameOf(e, n, wire[e][n])

WaitingOf(e) == \A o \in 1..Len(payload) : Waiting(o) => Unsent(o, e) /\ Fresh(o, e)

\* The frame that will be written next continues what is on the wire.
NextOf(o, e) ==
  /\ SoFar = 0 => written[<<o, e>>] = 0 /\ Unsent(o, e) /\ Fresh(o, e)
  /\ SoFar > 0 => Precedes(o, e, Len(wire[e]), SoFar)
  /\ \A n \in 1..Len(wire[e]) : wire[e][n].obj = o => IsMore(wire[e][n], o)
ReadyOf(e) == \A o \in 1..Len(payload) : Ready(o, e) => NextOf(o, e)

\* A queued last chunk completes the payload, unless a job before it ends it.
LastOf(e) ==
  \A o \in 1..Len(payload), n \in 1..Len(rstatusQ[e]) : RLast(rstatusQ[e][n], payload[o].id) =>
    /\ NoMore(o, e)
    /\ in[e][payload[o].id].on /\ (\A m \in 1..(n - 1) : ~REnds(rstatusQ[e][m], payload[o].id))
         => got[<<o, e>>] = Chunks(o)

SuccessOf(e) ==
  \A o \in Payload : rtold[<<o, e>>] = "success" =>
    o <= Len(payload) /\ NoMore(o, e) /\ got[<<o, e>>] = Chunks(o)

Received(e) ==
  IncomingOf(e) /\ FramesOf(e) /\ WaitingOf(e) /\ ReadyOf(e) /\ LastOf(e) /\ SuccessOf(e)

RemoteOf(e) ==
  e \in Remote =>
    /\ wire[e] = <<>> /\ rstatusQ[e] = <<>> /\ \A i \in Id : ~in[e][i].on
    /\ \A o \in Payload : rtold[<<o, e>>] # "success"

\* The receiver has not completed the payload and never will: it has refused it, or the sender
\* has stopped before the last frame.
NotReported(o, e) ==
  /\ rtold[<<o, e>>] # "success"
  /\ \A n \in 1..Len(rstatusQ[e]) : ~RLast(rstatusQ[e][n], payload[o].id)
Dead(o, e) ==
  /\ NotReported(o, e) /\ written[<<o, e>>] > 0
  /\ ~in[e][payload[o].id].on \/ in[e][payload[o].id].canceled
  /\ \A n \in 1..Len(wire[e]) : IsData(wire[e][n], o) => wire[e][n].off > 0
Stopped(o, e) ==
  NotReported(o, e) /\ Over(o) /\ \A n \in 1..Len(wire[e]) : ~IsLast(wire[e][n], o)

\* The receiver has sent back that it canceled the payload; the sender reports or will report
\* the transfer as canceled.
Refused(o, e) ==
  \/ payload[o].status[e] = "canceled"
  \/ \E n \in 1..Len(back[e]) : back[e][n].k = "canceled" /\ back[e][n].i = payload[o].id
Reported(o, e) ==
  \/ told[<<o, e>>] = "canceled"
  \/ \E n \in 1..Len(statusQ) : Finishes(statusQ[n], payload[o].id, e) /\ statusQ[n].st = "canceled"

CanceledOf(e) ==
  /\ \A n \in 1..Len(back[e]) : \E o \in 1..Len(payload) : back[e][n].i = payload[o].id
  /\ \A o \in Payload : told[<<o, e>>] = "canceled" => o <= Len(payload)
  /\ \A o \in 1..Len(payload) :
       /\ Refused(o, e) => Dead(o, e)
       /\ Reported(o, e) => Dead(o, e) \/ Stopped(o, e)

ReceivedInv ==
  QueueInv /\ EpsInv /\ \A e \in Endpoint : Received(e) /\ RemoteOf(e) /\ CanceledOf(e)

-----------------------------------------------------------------------------
(* Steps at which an endpoint gets no frame and its receiver does nothing. *)

Idles(e) ==
  /\ wire'[e] = wire[e] /\ in'[e] = in[e] /\ rstatusQ'[e] = rstatusQ[e]
  /\ \A o \in Payload :
       /\ got'[<<o, e>>] = got[<<o, e>>] /\ rtold'[<<o, e>>] = rtold[<<o, e>>]
       /\ written'[<<o, e>>] \in Nat /\ written'[<<o, e>>] >= written[<<o, e>>]

\* The sender goes on; an endpoint that is to get a frame is the one it was, or of a new job.
Onward(e) ==
  /\ Len(payload) <= Len(payload')
  /\ \A o \in 1..Len(payload) :
       /\ payload'[o].id = payload[o].id /\ Chunks(o)' = Chunks(o)
       /\ Over(o) => Over(o)'
       /\ Waiting(o)' => Waiting(o)
  /\ \A o \in 1..Len(payload') : Ready(o, e)' =>
       /\ o <= Len(payload) /\ written'[<<o, e>>] = written[<<o, e>>]
       /\ (Ready(o, e) /\ SoFar' = SoFar) \/ (Waiting(o) /\ SoFar' = 0)

\* Objects are numbered from 1, and a transfer is an object and an endpoint.
LEMMA ObjectNumbers ==
  ASSUME IInv, SentInv
  PROVE  /\ Len(payload) \in Nat
         /\ \A o \in 1..Len(payload) :
              /\ o \in Payload /\ o \in Nat /\ payload[o].id \in Id /\ Chunks(o) \in Int
              /\ payload[o] \in Object
         /\ \A o \in Payload, e \in Endpoint : <<o, e>> \in Transfer /\ written[<<o, e>>] \in Nat
         /\ \A t \in Transfer : t[1] \in Payload /\ t[2] \in Endpoint /\ t = <<t[1], t[2]>>
         /\ \A o, p \in 1..Len(payload) : payload[o].id = payload[p].id => o = p
<1>1. /\ Len(payload) \in Nat /\ Len(payload) <= MaxPayload
      /\ \A o \in 1..Len(payload) : payload[o] \in Object /\ payload[o].id \in Id
  BY SenderObjects DEF IInv, Core, SenderType
<1>2. \A o \in 1..Len(payload) : payload[o].len \in Nat /\ payload[o].resume \in Nat
  BY <1>1, ObjectFields
<1>3. \A o \in 1..Len(payload) : o \in Payload /\ o \in Nat /\ Chunks(o) \in Int
  BY <1>1, <1>2, PayloadAssumption DEF Payload, Chunks
<1>4. \A o \in Payload, e \in Endpoint : <<o, e>> \in Transfer
  BY DEF Transfer
<1>5. \A t \in Transfer : t[1] \in Payload /\ t[2] \in Endpoint /\ t = <<t[1], t[2]>>
  BY DEF Transfer
<1>6. /\ written \in [Transfer -> Nat]
      /\ \A o, p \in 1..Len(payload) : payload[o].id = payload[p].id => o = p
  BY DEF SentInv, OneObject
<1> QED
  BY <1>1, <1>3, <1>4, <1>5, <1>6

\* What is said of an object and a receiver that does nothing stays so.
LEMMA IdleFacts ==
  ASSUME NEW e \in Endpoint, Idles(e), Onward(e), NEW o \in Payload, o \in 1..Len(payload)
  PROVE  /\ Fresh(o, e)' <=> Fresh(o, e)
         /\ Spoiled(e, payload[o].id)' <=> Spoiled(e, payload[o].id)
         /\ Unsent(o, e)' <=> Unsent(o, e)
         /\ NoMore(o, e) => NoMore(o, e)'
         /\ \A n, k : Precedes(o, e, n, k)' <=> Precedes(o, e, n, k)
<1>1. payload'[o].id = payload[o].id /\ got'[<<o, e>>] = got[<<o, e>>]
  BY DEF Idles, Onward
<1>2. Fresh(o, e)' <=> Fresh(o, e)
  BY <1>1 DEF Fresh, Idles
<1>3. Spoiled(e, payload[o].id)' <=> Spoiled(e, payload[o].id)
  BY <1>1 DEF Spoiled, Idles
<1>4. (Unsent(o, e)' <=> Unsent(o, e)) /\ (NoMore(o, e) => NoMore(o, e)')
  BY DEF Unsent, NoMore, Idles, Onward
<1>5. \A n, k : Precedes(o, e, n, k)' <=> Precedes(o, e, n, k)
  BY <1>1, <1>3 DEF Precedes, Idles
<1> QED
  BY <1>2, <1>3, <1>4, <1>5

\* A receiver that does nothing, and gets no frame.
LEMMA OnwardReceived ==
  ASSUME IInv, SentInv, IInv', SentInv', NEW e \in Endpoint, Received(e), Idles(e), Onward(e)
  PROVE  Received(e)'
<1>1. /\ Len(payload) \in Nat /\ \A o \in 1..Len(payload) : o \in Payload /\ o \in Nat
      /\ \A o \in Payload : written[<<o, e>>] \in Nat
  BY ObjectNumbers
<1>2. /\ Len(payload') \in Nat /\ \A o \in 1..Len(payload') : o \in Payload /\ o \in Nat
      /\ \A o, p \in 1..Len(payload') : payload'[o].id = payload'[p].id => o = p
      /\ \A o \in 1..Len(payload') : payload'[o].id \in Id
  <2>1. /\ Len(payload') \in Nat /\ Len(payload') <= MaxPayload
        /\ \A o \in 1..Len(payload') : payload'[o].id \in Id
    <3>1. SenderType'
      BY DEF IInv, Core
    <3>2. Len(payload') \in Nat /\ \A o \in 1..Len(payload') : payload'[o] \in Object
      BY <3>1 DEF SenderType
    <3> QED
      BY <3>1, <3>2 DEF SenderType, Object
  <2>2. \A o, p \in 1..Len(payload') : payload'[o].id = payload'[p].id => o = p
    BY DEF SentInv, OneObject
  <2> QED
    BY <2>1, <2>2, PayloadAssumption DEF Payload
<1>3. /\ 1..Len(payload) \subseteq 1..Len(payload')
      /\ \A o \in 1..Len(payload) : payload'[o].id = payload[o].id
  BY <1>1, <1>2 DEF Onward
<1>4. \A o \in 1..Len(payload) :
        /\ Fresh(o, e)' <=> Fresh(o, e)
        /\ Unsent(o, e)' <=> Unsent(o, e)
        /\ NoMore(o, e) => NoMore(o, e)'
        /\ \A n, k : Precedes(o, e, n, k)' <=> Precedes(o, e, n, k)
  BY <1>1, IdleFacts
<1>5. IncomingOf(e)'
  <2>1. IncomingOf(e)
    BY DEF Received
  <2>2. \A i \in Id : in'[e][i].on => in'[e][i].obj \in 1..Len(payload') /\ payload'[in'[e][i].obj].id = i
    BY <1>3, <2>1 DEF IncomingOf, Idles
  <2>3. \A n \in 1..Len(rstatusQ'[e]) : rstatusQ'[e][n].k # "disconnect" =>
          \E o \in 1..Len(payload') : rstatusQ'[e][n].i = payload'[o].id
    BY <1>3, <2>1 DEF IncomingOf, Idles
  <2>4. \A o \in Payload : got'[<<o, e>>] \in Nat /\ (o > Len(payload') => got'[<<o, e>>] = 0)
    BY <1>1, <1>2, <2>1 DEF IncomingOf, Idles, Onward, Payload
  <2> QED
    BY <2>2, <2>3, <2>4 DEF IncomingOf
<1>6. FramesOf(e)'
  <2> SUFFICES ASSUME NEW n \in 1..Len(wire[e]) PROVE FrameOf(e, n, wire[e][n])'
    BY DEF FramesOf, Idles
  <2>1. PICK f : f = wire[e][n] /\ FrameOf(e, n, f) /\ f = wire'[e][n]
    BY DEF Received, FramesOf, Idles
  <2>2. PICK o \in 1..Len(payload) : o = f.obj
    BY <2>1 DEF FrameOf
  <2>3. o \in 1..Len(payload') /\ f.i = payload'[o].id /\ ~Waiting(o)'
    BY <1>3, <2>1, <2>2 DEF FrameOf, Onward
  <2>4. \A m \in 1..(n - 1) : wire'[e][m].obj = o => IsMore(wire'[e][m], o)
    BY <2>1, <2>2 DEF FrameOf, Idles
  <2>5. f.k # "data" => Over(o)'
    BY <2>1, <2>2 DEF FrameOf, Onward
  <2>6. ASSUME f.k = "data"
        PROVE  /\ written'[<<o, e>>] > 0 /\ f.off >= 0
               /\ f.last => Over(o)' /\ f.off = Chunks(o)'
               /\ f.off = 0 => Fresh(o, e)' /\ \A m \in 1..(n - 1) : wire'[e][m].obj # o
               /\ f.off > 0 => Precedes(o, e, n - 1, f.off)'
    <3>1. /\ written[<<o, e>>] > 0 /\ f.off >= 0
          /\ f.last => Over(o) /\ f.off = Chunks(o)
          /\ f.off = 0 => Fresh(o, e) /\ \A m \in 1..(n - 1) : wire[e][m].obj # o
          /\ f.off > 0 => Precedes(o, e, n - 1, f.off)
      BY <2>1, <2>2, <2>6 DEF FrameOf
    <3>2. written'[<<o, e>>] > 0
      BY <1>1, <3>1 DEF Idles
    <3>3. f.last => Over(o)' /\ f.off = Chunks(o)'
      BY <3>1 DEF Onward
    <3>4. f.off = 0 => Fresh(o, e)' /\ \A m \in 1..(n - 1) : wire'[e][m].obj # o
      BY <1>4, <3>1 DEF Idles
    <3>5. f.off > 0 => Precedes(o, e, n - 1, f.off)'
      BY <1>4, <3>1
    <3> QED
      BY <3>1, <3>2, <3>3, <3>4, <3>5
  <2>7. FrameOf(e, n, f)'
    BY <2>2, <2>3, <2>4, <2>5, <2>6 DEF FrameOf
  <2> QED
    BY <2>1, <2>7
<1>7. WaitingOf(e)'
  <2> SUFFICES ASSUME NEW o \in 1..Len(payload'), Waiting(o)' PROVE Unsent(o, e)' /\ Fresh(o, e)'
    BY DEF WaitingOf
  <2>1. CASE o \in 1..Len(payload)
    BY <1>4, <2>1 DEF Received, WaitingOf, Onward
  <2>2. CASE o \notin 1..Len(payload)
    <3>1. o > Len(payload) /\ o \in Payload
      BY <1>1, <1>2, <2>2
    <3>2. Unsent(o, e)'
      BY <2>2 DEF Unsent, Received, FramesOf, FrameOf, Idles
    <3>3. \A q \in 1..Len(payload) : payload[q].id # payload'[o].id
      BY <1>2, <1>3, <2>2
    <3>4. IncomingOf(e)
      BY DEF Received
    <3>5. PICK i \in Id : i = payload'[o].id
      BY <1>2
    <3>6. ~in'[e][i].on
      BY <3>3, <3>4, <3>5 DEF IncomingOf, Idles
    <3>7. got'[<<o, e>>] = 0
      BY <3>1, <3>4 DEF IncomingOf, Idles
    <3>8. \A n \in 1..Len(rstatusQ'[e]) : rstatusQ'[e][n].k # "disconnect" => rstatusQ'[e][n].i # i
      BY <3>3, <3>4, <3>5 DEF IncomingOf, Idles
    <3>9. Fresh(o, e)'
      BY <3>5, <3>6, <3>7, <3>8 DEF Fresh
    <3> QED
      BY <3>2, <3>9
  <2> QED
    BY <2>1, <2>2
<1>8. ReadyOf(e)'
  <2> SUFFICES ASSUME NEW o \in 1..Len(payload'), Ready(o, e)' PROVE NextOf(o, e)'
    BY DEF ReadyOf
  <2>1. /\ o \in 1..Len(payload) /\ written'[<<o, e>>] = written[<<o, e>>]
        /\ (Ready(o, e) /\ SoFar' = SoFar) \/ (Waiting(o) /\ SoFar' = 0)
    BY <1>1, <1>2 DEF Onward
  <2>2. CASE Ready(o, e) /\ SoFar' = SoFar
    <3>1. NextOf(o, e)
      BY <2>1, <2>2 DEF Received, ReadyOf
    <3> QED
      BY <1>4, <2>1, <2>2, <3>1 DEF NextOf, Idles
  <2>3. CASE Waiting(o) /\ SoFar' = 0
    <3>1. Unsent(o, e) /\ Fresh(o, e)
      BY <2>1, <2>3 DEF Received, WaitingOf
    <3>2. written[<<o, e>>] = 0
      BY <2>1, <2>3 DEF SentInv, WaitingInv
    <3> QED
      BY <1>4, <2>1, <2>3, <3>1, <3>2 DEF NextOf, Unsent, Idles
  <2> QED
    BY <2>1, <2>2, <2>3
<1>9. LastOf(e)'
  <2> SUFFICES ASSUME NEW o \in 1..Len(payload'), NEW n \in 1..Len(rstatusQ[e]),
                      RLast(rstatusQ[e][n], payload'[o].id)
               PROVE  /\ NoMore(o, e)'
                      /\ in[e][payload'[o].id].on
                           /\ (\A m \in 1..(n - 1) : ~REnds(rstatusQ[e][m], payload'[o].id))
                         => got'[<<o, e>>] = Chunks(o)'
    BY DEF LastOf, Idles
  <2>1. PICK q \in 1..Len(payload) : rstatusQ[e][n].i = payload[q].id
    BY DEF RLast, Received, IncomingOf
  <2>2. o \in 1..Len(payload) /\ payload'[o].id = payload[o].id
    BY <1>2, <1>3, <2>1 DEF RLast
  <2>3. /\ NoMore(o, e)
        /\ in[e][payload[o].id].on /\ (\A m \in 1..(n - 1) : ~REnds(rstatusQ[e][m], payload[o].id))
             => got[<<o, e>>] = Chunks(o)
    BY <2>2 DEF Received, LastOf
  <2>4. Chunks(o)' = Chunks(o) /\ got'[<<o, e>>] = got[<<o, e>>]
    BY <1>1, <2>2 DEF Idles, Onward
  <2> QED
    BY <1>4, <2>2, <2>3, <2>4
<1>10. SuccessOf(e)'
  <2> SUFFICES ASSUME NEW o \in Payload, rtold'[<<o, e>>] = "success"
               PROVE  o <= Len(payload') /\ NoMore(o, e)' /\ got'[<<o, e>>] = Chunks(o)'
    BY DEF SuccessOf
  <2>1. o <= Len(payload) /\ NoMore(o, e) /\ got[<<o, e>>] = Chunks(o)
    BY DEF Received, SuccessOf, Idles
  <2>2. o \in 1..Len(payload)
    BY <1>1, <2>1 DEF Payload
  <2> QED
    BY <1>1, <1>2, <1>4, <2>1, <2>2 DEF Idles, Onward
<1> QED
  BY <1>5, <1>6, <1>7, <1>8, <1>9, <1>10 DEF Received

\* A receiver that will not complete the payload, and does nothing, still will not.
LEMMA IdleDead ==
  ASSUME IInv, SentInv, NEW e \in Endpoint, Idles(e), Onward(e), NEW o \in 1..Len(payload)
  PROVE  (Dead(o, e) => Dead(o, e)') /\ (Stopped(o, e) => Stopped(o, e)')
<1>1. o \in Payload /\ payload'[o].id = payload[o].id /\ written[<<o, e>>] \in Nat
  BY ObjectNumbers DEF Onward
<1>2. NotReported(o, e)' <=> NotReported(o, e)
  BY <1>1 DEF NotReported, Idles
<1>3. written[<<o, e>>] > 0 => written'[<<o, e>>] > 0
  BY <1>1 DEF Idles
<1>4. Dead(o, e) => Dead(o, e)'
  BY <1>1, <1>2, <1>3 DEF Dead, Idles
<1>5. Stopped(o, e) => Stopped(o, e)'
  BY <1>1, <1>2 DEF Stopped, Idles, Onward
<1> QED
  BY <1>4, <1>5

\* What is told and sent back of the transfers to such a receiver.
LEMMA OnwardCanceled ==
  ASSUME IInv, SentInv, NEW e \in Endpoint, CanceledOf(e), Idles(e), Onward(e),
         \A n \in 1..Len(back'[e]) : \E o \in 1..Len(payload') : back'[e][n].i = payload'[o].id,
         \A o \in Payload : told'[<<o, e>>] = "canceled" => o <= Len(payload),
         \A o \in 1..Len(payload') : Refused(o, e)' =>
           o \in 1..Len(payload) /\ (Refused(o, e) \/ Dead(o, e)),
         \A o \in 1..Len(payload') : Reported(o, e)' =>
           o \in 1..Len(payload) /\ (Reported(o, e) \/ Dead(o, e) \/ Stopped(o, e)')
  PROVE  CanceledOf(e)'
<1>1. \A o \in 1..Len(payload) : (Dead(o, e) => Dead(o, e)') /\ (Stopped(o, e) => Stopped(o, e)')
  BY IdleDead
<1>2. \A o \in Payload : told'[<<o, e>>] = "canceled" => o <= Len(payload')
  <2>1. Len(payload) \in Nat /\ Len(payload) <= Len(payload') /\ Len(payload') \in Int
    BY ObjectNumbers DEF Onward
  <2> QED
    BY <2>1 DEF Payload
<1>3. \A o \in 1..Len(payload') :
        /\ Refused(o, e)' => Dead(o, e)'
        /\ Reported(o, e)' => Dead(o, e)' \/ Stopped(o, e)'
  BY <1>1 DEF CanceledOf
<1> QED
  BY <1>2, <1>3 DEF CanceledOf

-----------------------------------------------------------------------------
(* Steps of the other threads of the sender.                               *)

\* No frame is written; an endpoint leaves its payload for a reason, jobs are handled and none
\* that ends a transfer is posted, and what is told was queued.
Passive ==
  /\ Same /\ UNCHANGED <<execQ, written, wire, in, got, rstatusQ, rtold>> /\ send' \in {send, Idle}
  /\ \A o \in 1..Len(payload), e \in Endpoint :
       /\ payload'[o].status[e] = "available" => payload[o].status[e] = "available"
       /\ e \in payload[o].in => e \in payload'[o].in \/ Pending(o, e) \/ ~Up(e) \/ Over(o)
       /\ Refused(o, e)' => Refused(o, e) \/ (e \in Remote /\ written[<<o, e>>] > 0)
  /\ \A o \in Payload, e \in Endpoint : told'[<<o, e>>] = "canceled" =>
       told[<<o, e>>] = "canceled" \/ (o \in 1..Len(payload) /\ Reported(o, e))
  /\ \A e \in Endpoint :
       /\ link'[e] = "up" => link[e] = "up"
       /\ Up(e)' => Up(e)
       /\ \A n \in 1..Len(back'[e]) : \E o \in 1..Len(payload) : back'[e][n].i = payload[o].id
  /\ \A n \in 1..Len(statusQ') :
       \/ \E m \in 1..Len(statusQ) : statusQ'[n] = statusQ[m]
       \/ /\ statusQ'[n].k # "finished"
          /\ statusQ'[n].k = "disconnect" => link'[statusQ'[n].e] # "up"

\* The fields of the sender's jobs.
LEMMA JobFields ==
  ASSUME NEW j \in Job
  PROVE  /\ j.k = "finished" => j.i \in Id /\ j.es \subseteq Endpoint
         /\ j.k = "chunk" => j.i \in Id /\ j.e \in Endpoint
         /\ j.k = "disconnect" => j.e \in Endpoint
         /\ j.k = "destroy" => j.i \in Id
BY DEF Job, FinishedJob, ChunkJob, DestroyJob, DisconnectJob, OtherJob

\* A passive step: the sender's own part.
LEMMA PassiveSender ==
  ASSUME IInv, IInv', SentInv, QueueInv, EpsInv, Passive PROVE QueueInv' /\ EpsInv'
<1>1. /\ Len(payload') = Len(payload)
      /\ \A o \in 1..Len(payload) : payload'[o].id = payload[o].id /\ payload'[o].in \subseteq payload[o].in
      /\ \A o \in 1..Len(payload) : Waiting(o)' <=> Waiting(o)
  BY DEF Passive, Same, Later, Waiting
<1>2. \A o \in 1..Len(payload), e \in Endpoint : Pending(o, e)' => Pending(o, e)
  BY <1>1 DEF Passive, Pending, Finishes
<1>3. QueueInv'
  <2> SUFFICES ASSUME NEW n \in 1..Len(statusQ')
               PROVE  /\ statusQ'[n].k = "finished" =>
                           \E o \in 1..Len(payload) : statusQ'[n].i = payload[o].id /\ ~Waiting(o)
                      /\ statusQ'[n].k = "disconnect" => link'[statusQ'[n].e] # "up"
    BY <1>1 DEF QueueInv
  <2>1. CASE \E m \in 1..Len(statusQ) : statusQ'[n] = statusQ[m]
    <3>1. PICK m \in 1..Len(statusQ) : statusQ'[n] = statusQ[m]
      BY <2>1
    <3>2. statusQ[m].k = "disconnect" => statusQ[m].e \in Endpoint
      BY JobFields DEF IInv, Core, SenderType
    <3> QED
      BY <3>1, <3>2 DEF QueueInv, Passive
  <2> QED
    BY <2>1 DEF Passive
<1>4. EpsInv'
  <2> SUFFICES ASSUME Loops', NEW e \in Endpoint, Up(e)' PROVE Leaves(send.obj, e)'
    BY DEF EpsInv
  <2>1. send' = send /\ Loops
    BY DEF Loops, Passive
  <2>2. PICK o \in 1..Len(payload) : o = send.obj
    BY <2>1, RunningJob DEF Loops, IInv
  <2>3. Up(e) /\ Leaves(o, e) /\ ~Over(o)
    BY <2>1, <2>2 DEF EpsInv, Passive, Over, Loops, Sending
  <2>4. Leaves(o, e)'
    BY <1>1, <1>2, <2>1, <2>3 DEF Leaves, Passive
  <2> QED
    BY <2>1, <2>2, <2>4 DEF Leaves, Pending
<1> QED
  BY <1>3, <1>4

\* A passive step: the receivers.
LEMMA PassiveOnward ==
  ASSUME IInv, IInv', SentInv, Passive, NEW e \in Endpoint
  PROVE  Idles(e) /\ Onward(e)
<1>1. /\ Len(payload') = Len(payload) /\ Len(payload) \in Nat
      /\ \A o \in 1..Len(payload) : Later(payload[o], payload'[o])
  BY ObjectNumbers DEF Passive, Same
<1>2. Idles(e)
  BY ObjectNumbers DEF Idles, Passive
<1>3. ASSUME NEW o \in 1..Len(payload)
      PROVE  /\ payload'[o].id = payload[o].id /\ Chunks(o)' = Chunks(o)
             /\ Over(o) => Over(o)'
             /\ Waiting(o)' => Waiting(o)
  <2>1. Waiting(o)' <=> Waiting(o)
    BY <1>1 DEF Waiting, Passive, Later
  <2>2. Over(o) => Over(o)'
    BY <2>1 DEF Over, Sending, Passive
  <2> QED
    BY <1>1, <2>1, <2>2 DEF Chunks, Later
<1>4. ASSUME NEW o \in 1..Len(payload), Ready(o, e)'
      PROVE  Ready(o, e) /\ SoFar' = SoFar /\ written'[<<o, e>>] = written[<<o, e>>]
  <2>1. send' = send /\ send.obj = o /\ UNCHANGED written
    BY <1>4 DEF Ready, Loops, Passive
  <2>2. SoFar' = SoFar
    BY <1>1, <2>1 DEF SoFar, Later
  <2>3. Ready(o, e)
    BY <1>1, <1>4, <2>1 DEF Ready, Loops, Passive, Later
  <2> QED
    BY <2>1, <2>2, <2>3
<1> QED
  BY <1>1, <1>2, <1>3, <1>4 DEF Onward

\* A passive step preserves the invariant.
LEMMA PassiveReceived ==
  ASSUME IInv, IInv', SentInv, SentInv', ReceivedInv, Passive PROVE ReceivedInv'
<1>1. QueueInv' /\ EpsInv'
  BY PassiveSender DEF ReceivedInv
<1>2. ASSUME NEW e \in Endpoint PROVE Received(e)' /\ RemoteOf(e)' /\ CanceledOf(e)'
  <2>1. Idles(e) /\ Onward(e) /\ Received(e) /\ RemoteOf(e) /\ CanceledOf(e)
    BY PassiveOnward DEF ReceivedInv
  <2>2. Received(e)'
    BY <2>1, OnwardReceived
  <2>3. RemoteOf(e)'
    BY <2>1 DEF RemoteOf, Idles
  <2>4. Len(payload') = Len(payload) /\ \A o \in 1..Len(payload) : payload'[o].id = payload[o].id /\ o \in Payload
    BY ObjectNumbers DEF Passive, Same, Later
  <2>5. \A n \in 1..Len(back'[e]) : \E o \in 1..Len(payload') : back'[e][n].i = payload'[o].id
    BY <2>4 DEF Passive
  <2>6. \A o \in Payload : told'[<<o, e>>] = "canceled" => o <= Len(payload)
    BY <2>1 DEF Passive, CanceledOf
  <2>7. ASSUME NEW o \in 1..Len(payload), Refused(o, e)' PROVE Refused(o, e) \/ Dead(o, e)
    <3>1. ASSUME e \in Remote, written[<<o, e>>] > 0 PROVE Dead(o, e)
      BY <2>1, <2>4, <3>1, ObjectNumbers DEF Dead, NotReported, RemoteOf
    <3> QED
      BY <2>7, <3>1 DEF Passive
  <2>8. ASSUME NEW o \in 1..Len(payload), Reported(o, e)' PROVE Reported(o, e)
    <3>1. CASE told'[<<o, e>>] = "canceled"
      BY <2>4, <3>1 DEF Passive, Reported
    <3>2. ASSUME NEW n \in 1..Len(statusQ'), Finishes(statusQ'[n], payload'[o].id, e), statusQ'[n].st = "canceled"
          PROVE  Reported(o, e)
      BY <2>4, <3>2 DEF Passive, Reported, Finishes
    <3> QED
      BY <2>8, <3>1, <3>2 DEF Reported
  <2>9. CanceledOf(e)'
    BY <2>1, <2>4, <2>5, <2>6, <2>7, <2>8, OnwardCanceled
  <2> QED
    BY <2>2, <2>3, <2>9
<1> QED
  BY <1>1, <1>2 DEF ReceivedInv

\* Steps that change the objects, not what the endpoints have sent back.
LEMMA ObjectsPassive ==
  ASSUME IInv, SentInv, ReceivedInv, Same,
         UNCHANGED <<execQ, written, link, wire, back, broken, in, got, rstatusQ, rtold>>,
         send' \in {send, Idle},
         \A o \in 1..Len(payload) : payload'[o].status = payload[o].status,
         \A o \in 1..Len(payload), e \in Endpoint :
           e \in payload[o].in => e \in payload'[o].in \/ Pending(o, e) \/ ~Up(e) \/ Over(o),
         \A o \in Payload, e \in Endpoint : told'[<<o, e>>] = "canceled" =>
           told[<<o, e>>] = "canceled" \/ (o \in 1..Len(payload) /\ Reported(o, e)),
         \A n \in 1..Len(statusQ') :
           \/ \E m \in 1..Len(statusQ) : statusQ'[n] = statusQ[m]
           \/ statusQ'[n].k \notin {"finished", "disconnect"}
  PROVE  Passive
<1>1. \A o \in 1..Len(payload), e \in Endpoint : Refused(o, e)' => Refused(o, e)
  BY DEF Refused, Same, Later
<1>2. \A e \in Endpoint : Up(e)' => Up(e)
  BY DEF Up
<1>3. \A e \in Endpoint : \A n \in 1..Len(back'[e]) : \E o \in 1..Len(payload) : back'[e][n].i = payload[o].id
  BY DEF ReceivedInv, CanceledOf
<1> QED
  BY <1>1, <1>2, <1>3 DEF Passive

\* What the client may be told as canceled.
LEMMA TellCanceled ==
  ASSUME NEW ts, NEW st, Tell(ts, st)
  PROVE  /\ UNCHANGED written
         /\ \A t \in Transfer : told'[t] = "canceled" => told[t] = "canceled" \/ (t \in ts /\ st = "canceled")
BY DEF Tell

\* Operations on an object that leave its statuses alone.
LEMMA StatusKept ==
  ASSUME NEW p \in Object
  PROVE  /\ \A es : RemoveEndpoints(p, es).status = p.status
         /\ \A n : [p EXCEPT !.refs = n].status = p.status
         /\ [p EXCEPT !.canceled = TRUE].status = p.status /\ [p EXCEPT !.canceled = TRUE].in = p.in
         /\ [p EXCEPT !.canceled = TRUE, !.closed = TRUE].status = p.status
         /\ [p EXCEPT !.canceled = TRUE, !.closed = TRUE].in = p.in
BY DEF Object, RemoveEndpoints

\* A job is handled, and others posted after it that end no transfer.
LEMMA TakePassive ==
  ASSUME SenderType, statusQ # <<>>, NEW js \in Seq(Job), statusQ' = Tail(statusQ) \o js,
         \A n \in 1..Len(js) : js[n].k \notin {"finished", "disconnect"}
  PROVE  /\ \A n \in 1..Len(statusQ') :
              \/ \E m \in 1..Len(statusQ) : statusQ'[n] = statusQ[m]
              \/ statusQ'[n].k \notin {"finished", "disconnect"}
         /\ 1 \in 1..Len(statusQ) /\ Head(statusQ) = statusQ[1] /\ Head(statusQ) \in Job
<1>1. statusQ \in Seq(Job) /\ Len(statusQ) \in Nat \ {0}
  BY DEF SenderType
<1>2. /\ Tail(statusQ) \in Seq(Job) /\ Len(Tail(statusQ)) = Len(statusQ) - 1
      /\ \A n \in 1..(Len(statusQ) - 1) : Tail(statusQ)[n] = statusQ[n + 1]
  BY <1>1
<1>3. /\ Len(statusQ') = Len(statusQ) - 1 + Len(js) /\ Len(js) \in Nat
      /\ \A n \in 1..Len(statusQ') :
           statusQ'[n] = IF n <= Len(statusQ) - 1 THEN Tail(statusQ)[n]
                         ELSE js[n - (Len(statusQ) - 1)]
  BY <1>1, <1>2
<1>4. ASSUME NEW n \in 1..Len(statusQ')
      PROVE  \/ \E m \in 1..Len(statusQ) : statusQ'[n] = statusQ[m]
             \/ statusQ'[n].k \notin {"finished", "disconnect"}
  <2>1. CASE n <= Len(statusQ) - 1
    <3>1. n + 1 \in 1..Len(statusQ) /\ statusQ'[n] = statusQ[n + 1]
      BY <1>1, <1>2, <1>3, <2>1
    <3> QED
      BY <3>1
  <2>2. CASE ~(n <= Len(statusQ) - 1)
    <3>1. n - (Len(statusQ) - 1) \in 1..Len(js) /\ statusQ'[n] = js[n - (Len(statusQ) - 1)]
      BY <1>1, <1>3, <2>2
    <3> QED
      BY <3>1
  <2> QED
    BY <2>1, <2>2
<1> QED
  BY <1>1, <1>4

\* A job is handled and nothing is posted.
LEMMA TakeOnly ==
  ASSUME SenderType, NEW k, Take(k), statusQ' = Tail(statusQ)
  PROVE  /\ \A n \in 1..Len(statusQ') :
              \/ \E m \in 1..Len(statusQ) : statusQ'[n] = statusQ[m]
              \/ statusQ'[n].k \notin {"finished", "disconnect"}
         /\ 1 \in 1..Len(statusQ) /\ Head(statusQ) = statusQ[1] /\ Head(statusQ) \in Job
<1>1. statusQ # <<>> /\ <<>> \in Seq(Job) /\ \A n \in 1..Len(<<>>) : <<>>[n].k \notin {"finished", "disconnect"}
  BY DEF Take
<1>2. Tail(statusQ) = Tail(statusQ) \o <<>>
  <2>1. Tail(statusQ) \in Seq(Job)
    BY <1>1 DEF SenderType
  <2> QED
    BY <2>1
<1> QED
  BY <1>1, <1>2, TakePassive

\* Jobs are posted that end no transfer.
LEMMA PostPassive ==
  ASSUME SenderType, NEW js \in Seq(Job), Post(js),
         \A n \in 1..Len(js) : js[n].k \notin {"finished", "disconnect"}
  PROVE  \A n \in 1..Len(statusQ') :
           \/ \E m \in 1..Len(statusQ) : statusQ'[n] = statusQ[m]
           \/ statusQ'[n].k \notin {"finished", "disconnect"}
<1>1. statusQ \in Seq(Job) /\ statusQ' = statusQ \o js
  BY DEF SenderType, Post
<1>2. /\ Len(statusQ') = Len(statusQ) + Len(js) /\ Len(statusQ) \in Nat /\ Len(js) \in Nat
      /\ \A n \in 1..Len(statusQ') :
           statusQ'[n] = IF n <= Len(statusQ) THEN statusQ[n] ELSE js[n - Len(statusQ)]
  BY <1>1
<1>3. ASSUME NEW n \in 1..Len(statusQ')
      PROVE  \/ \E m \in 1..Len(statusQ) : statusQ'[n] = statusQ[m]
             \/ statusQ'[n].k \notin {"finished", "disconnect"}
  <2>1. CASE n <= Len(statusQ)
    BY <1>2, <2>1
  <2>2. CASE ~(n <= Len(statusQ))
    <3>1. n - Len(statusQ) \in 1..Len(js) /\ statusQ'[n] = js[n - Len(statusQ)]
      BY <1>2, <2>2
    <3> QED
      BY <3>1
  <2> QED
    BY <2>1, <2>2
<1> QED
  BY <1>3

\* FinishedOutgoing: the endpoints it takes away were pending.
LEMMA FinishedOutgoingPassive ==
  ASSUME IInv, SentInv, ReceivedInv, FinishedOutgoing PROVE Passive
<1> DEFINE j == Head(statusQ)
           o == tracked[j.i]
<1>1. /\ UNCHANGED <<execQ, send, link, wire, back, broken, in, got, rstatusQ, rtold>>
      /\ Take("finished") /\ statusQ' = Tail(statusQ) /\ j.k = "finished"
  BY DEF FinishedOutgoing, links, channels, receiver, Take
<1>2. /\ \A n \in 1..Len(statusQ') :
           \/ \E m \in 1..Len(statusQ) : statusQ'[n] = statusQ[m]
           \/ statusQ'[n].k \notin {"finished", "disconnect"}
      /\ 1 \in 1..Len(statusQ) /\ j = statusQ[1] /\ j \in Job
  BY <1>1, TakeOnly DEF IInv, Core
<1>3. j.i \in Id /\ j.es \subseteq Endpoint
  BY <1>1, <1>2, JobFields
<1>4. CASE o = 0
  <2>1. UNCHANGED <<payload, told, written>> /\ Same
    BY <1>4 DEF FinishedOutgoing, client, Same, Later
  <2> QED
    BY <1>1, <1>2, <2>1, ObjectsPassive
<1>5. CASE o # 0
  <2>1. o \in 1..Len(payload) /\ payload[o].id = j.i /\ payload[o] \in Object
    BY <1>3, <1>5, TrackedObject
  <2> DEFINE p == RemoveEndpoints(payload[o], j.es)
  <2>2. payload' = [payload EXCEPT ![o] = p] /\ Tell({o} \X (j.es \cap payload[o].in), j.st)
    BY <1>5 DEF FinishedOutgoing
  <2>3. p \in Object /\ Later(payload[o], p) /\ p.in = payload[o].in \ j.es /\ p.status = payload[o].status
    BY <2>1, RemoveEndpointsObject, StatusKept
  <2> HIDE DEF p
  <2>4. /\ Len(payload') = Len(payload)
        /\ \A q \in 1..Len(payload) : payload'[q] = IF q = o THEN p ELSE payload[q]
    <3>1. payload \in Seq(Object)
      BY DEF IInv, Core, SenderType
    <3> HIDE DEF j, o
    <3> QED
      BY <2>1, <2>2, <2>3, <3>1, ReplaceObject
  <2>5. Same /\ \A q \in 1..Len(payload) : payload'[q].status = payload[q].status
    BY <2>3, <2>4 DEF Same, Later
  <2>6. ASSUME NEW q \in 1..Len(payload), NEW e \in Endpoint, e \in payload[q].in, e \notin payload'[q].in
        PROVE  Pending(q, e)
    <3>1. q = o /\ e \in j.es
      BY <2>3, <2>4, <2>6
    <3> QED
      BY <1>1, <1>2, <2>1, <3>1 DEF Pending, Finishes
  <2>7. /\ UNCHANGED written
        /\ \A t \in Transfer : told'[t] = "canceled" =>
             told[t] = "canceled" \/ (t \in {o} \X (j.es \cap payload[o].in) /\ j.st = "canceled")
    BY <2>2, TellCanceled
  <2>8. ASSUME NEW q \in Payload, NEW e \in Endpoint, told'[<<q, e>>] = "canceled"
        PROVE  told[<<q, e>>] = "canceled" \/ (q \in 1..Len(payload) /\ Reported(q, e))
    <3>1. <<q, e>> \in Transfer
      BY DEF Transfer
    <3>2. ASSUME q = o, e \in j.es, j.st = "canceled" PROVE q \in 1..Len(payload) /\ Reported(q, e)
      BY <1>1, <1>2, <2>1, <3>2 DEF Reported, Finishes
    <3> QED
      BY <2>7, <2>8, <3>1, <3>2
  <2> QED
    BY <1>1, <1>2, <2>5, <2>6, <2>7, <2>8, ObjectsPassive
<1> QED
  BY <1>4, <1>5

\* SuccessfulOutgoingChunk: the job of an object whose last chunk was written is over.
LEMMA SuccessfulOutgoingChunkPassive ==
  ASSUME IInv, SentInv, ReceivedInv, SuccessfulOutgoingChunk PROVE Passive
<1> DEFINE j == Head(statusQ)
           o == tracked[j.i]
<1>1. /\ UNCHANGED <<execQ, send, link, wire, back, broken, in, got, rstatusQ, rtold>>
      /\ Take("chunk") /\ statusQ' = Tail(statusQ) /\ j.k = "chunk"
  BY DEF SuccessfulOutgoingChunk, links, channels, receiver, Take
<1>2. /\ \A n \in 1..Len(statusQ') :
           \/ \E m \in 1..Len(statusQ) : statusQ'[n] = statusQ[m]
           \/ statusQ'[n].k \notin {"finished", "disconnect"}
      /\ 1 \in 1..Len(statusQ) /\ j = statusQ[1] /\ j \in Job
  BY <1>1, TakeOnly DEF IInv, Core
<1>3. j.i \in Id /\ j.e \in Endpoint
  BY <1>1, <1>2, JobFields
<1>4. CASE UNCHANGED <<payload, client>>
  <2>1. UNCHANGED <<payload, told, written>> /\ Same
    BY <1>4 DEF client, Same, Later
  <2> QED
    BY <1>1, <1>2, <2>1, ObjectsPassive
<1>5. CASE /\ o # 0 /\ Tell({<<o, j.e>>}, IF j.last THEN "success" ELSE "progress")
           /\ payload' = IF j.last THEN [payload EXCEPT ![o] = RemoveEndpoints(@, {j.e})] ELSE payload
  <2>1. o \in 1..Len(payload) /\ payload[o].id = j.i /\ payload[o] \in Object
    BY <1>3, <1>5, TrackedObject
  <2>2. /\ UNCHANGED written
        /\ \A t \in Transfer : told'[t] = "canceled" => told[t] = "canceled"
    <3>1. PICK st : st = (IF j.last THEN "success" ELSE "progress") /\ st # "canceled"
      OBVIOUS
    <3>2. Tell({<<o, j.e>>}, st)
      BY <1>5, <3>1
    <3> QED
      BY <3>1, <3>2, TellCanceled
  <2>3. \A q \in Payload, e \in Endpoint : told'[<<q, e>>] = "canceled" => told[<<q, e>>] = "canceled"
    BY <2>2 DEF Transfer
  <2>4. CASE ~j.last
    <3>1. UNCHANGED payload /\ Same
      BY <1>5, <2>4 DEF Same, Later
    <3> QED
      BY <1>1, <1>2, <2>2, <2>3, <3>1, ObjectsPassive
  <2>5. CASE j.last
    <3> DEFINE p == RemoveEndpoints(payload[o], {j.e})
    <3>1. payload' = [payload EXCEPT ![o] = p]
      BY <1>5, <2>5
    <3>2. p \in Object /\ Later(payload[o], p) /\ p.status = payload[o].status
      <4>1. PICK es : es = {j.e}
        OBVIOUS
      <4>2. p = RemoveEndpoints(payload[o], es)
        BY <4>1
      <4> HIDE DEF p
      <4> QED
        BY <2>1, <4>2, RemoveEndpointsObject, StatusKept
    <3> HIDE DEF p
    <3>3. /\ Len(payload') = Len(payload)
          /\ \A q \in 1..Len(payload) : payload'[q] = IF q = o THEN p ELSE payload[q]
      BY <2>1, <3>1, <3>2, ReplaceObject DEF IInv, Core, SenderType
    <3>4. Same /\ \A q \in 1..Len(payload) : payload'[q].status = payload[q].status
      BY <3>2, <3>3 DEF Same, Later
    <3>5. Over(o)
      BY <1>1, <1>2, <2>1, <2>5 DEF SentInv, LastInv, LastChunk
    <3>6. \A q \in 1..Len(payload), e \in Endpoint : e \in payload[q].in => e \in payload'[q].in \/ Over(q)
      BY <3>3, <3>5
    <3> QED
      BY <1>1, <1>2, <2>2, <2>3, <3>4, <3>6, ObjectsPassive
  <2> QED
    BY <2>4, <2>5
<1> QED
  BY <1>4, <1>5 DEF SuccessfulOutgoingChunk

\* An object loses a reference.
LEMMA DropRefPassive ==
  ASSUME IInv, NEW o \in 1..Len(payload), payload' = DropRef(payload, o)
  PROVE  Same /\ \A q \in 1..Len(payload) :
           payload'[q].status = payload[q].status /\ payload'[q].in = payload[q].in
<1> DEFINE p == [payload[o] EXCEPT !.refs = payload[o].refs - 1]
<1>1. payload[o] \in Object /\ payload \in Seq(Object)
  BY SenderObjects DEF IInv, Core, SenderType
<1>2. payload[o].refs - 1 \in Int
  BY <1>1, ObjectFields
<1>3. p \in Object /\ Later(payload[o], p) /\ p.in = payload[o].in /\ p.status = payload[o].status
  BY <1>1, <1>2, RefsObject, StatusKept
<1>4. payload' = [payload EXCEPT ![o] = p]
  BY DEF DropRef
<1> HIDE DEF p
<1>5. /\ Len(payload') = Len(payload)
      /\ \A q \in 1..Len(payload) : payload'[q] = IF q = o THEN p ELSE payload[q]
  BY <1>1, <1>3, <1>4, ReplaceObject
<1> QED
  BY <1>3, <1>5 DEF Same, Later

\* The jobs posted when an object is destroyed end no transfer.
LEMMA DestroyJobsEnd ==
  \A o : DestroyJobs(o) \in Seq(Job)
         /\ \A n \in 1..Len(DestroyJobs(o)) : DestroyJobs(o)[n].k \notin {"finished", "disconnect"}
<1>1. \A o : \A n \in 1..Len(DestroyJobs(o)) : DestroyJobs(o)[n].k \notin {"finished", "disconnect"}
  BY DEF DestroyJobs
<1> QED
  BY <1>1, DestroyJobsType

\* DestroyPendingPayload, and the end of the handle.
LEMMA DestroyPassive ==
  ASSUME IInv, SentInv, ReceivedInv, DestroyPendingPayload \/ ReleaseHandle PROVE Passive
<1>1. UNCHANGED <<execQ, told, written, link, wire, back, broken, in, got, rstatusQ, rtold>>
  BY DEF DestroyPendingPayload, ReleaseHandle, client, links, channels, receiver
<1>2. CASE DestroyPendingPayload
  <2> DEFINE i == Head(statusQ).i
             o == tracked[i]
  <2>1. statusQ # <<>> /\ Head(statusQ).k = "destroy" /\ UNCHANGED send /\ statusQ \in Seq(Job)
    BY <1>2 DEF DestroyPendingPayload, Take, IInv, Core, SenderType
  <2>2. Head(statusQ) \in Job
    BY <2>1
  <2>3. i \in Id
    BY <2>1, <2>2, JobFields
  <2>4. CASE o = 0
    <3>1. UNCHANGED payload /\ statusQ' = Tail(statusQ) /\ Same /\ Take("destroy")
      BY <1>2, <2>4 DEF DestroyPendingPayload, Same, Later
    <3>2. \A n \in 1..Len(statusQ') :
            \/ \E m \in 1..Len(statusQ) : statusQ'[n] = statusQ[m]
            \/ statusQ'[n].k \notin {"finished", "disconnect"}
      BY <3>1, TakeOnly DEF IInv, Core
    <3> QED
      BY <1>1, <2>1, <3>1, <3>2, ObjectsPassive
  <2>5. CASE o # 0
    <3>1. o \in 1..Len(payload)
      BY <2>3, <2>5, TrackedObject
    <3>2. payload' = DropRef(payload, o) /\ statusQ' = Tail(statusQ) \o DestroyJobs(o)
      BY <1>2, <2>5 DEF DestroyPendingPayload
    <3>3. \A n \in 1..Len(statusQ') :
            \/ \E m \in 1..Len(statusQ) : statusQ'[n] = statusQ[m]
            \/ statusQ'[n].k \notin {"finished", "disconnect"}
      BY <2>1, <3>2, DestroyJobsEnd, TakePassive DEF IInv, Core
    <3>4. Same /\ \A q \in 1..Len(payload) :
            payload'[q].status = payload[q].status /\ payload'[q].in = payload[q].in
      BY <3>1, <3>2, DropRefPassive
    <3> QED
      BY <1>1, <2>1, <3>3, <3>4, ObjectsPassive
  <2> QED
    BY <2>4, <2>5
<1>3. CASE ReleaseHandle
  <2>1. send.obj \in 1..Len(payload)
    BY <1>3, RunningJob DEF ReleaseHandle, IInv
  <2>2. payload' = DropRef(payload, send.obj) /\ Post(DestroyJobs(send.obj)) /\ send' = Idle
    BY <1>3 DEF ReleaseHandle
  <2>3. \A n \in 1..Len(statusQ') :
          \/ \E m \in 1..Len(statusQ) : statusQ'[n] = statusQ[m]
          \/ statusQ'[n].k \notin {"finished", "disconnect"}
    BY <2>2, DestroyJobsEnd, PostPassive DEF IInv, Core
  <2>4. Same /\ \A q \in 1..Len(payload) :
          payload'[q].status = payload[q].status /\ payload'[q].in = payload[q].in
    BY <2>1, <2>2, DropRefPassive
  <2> QED
    BY <1>1, <2>2, <2>3, <2>4, ObjectsPassive
<1> QED
  BY <1>2, <1>3

\* OnEndpointDisconnect: the link to the endpoint is not up any more.
LEMMA DisconnectedPassive == ASSUME IInv, SentInv, ReceivedInv, Disconnected PROVE Passive
<1> DEFINE e == Head(statusQ).e
           hit == {o \in {tracked[i] : i \in Id} \ {0} : e \in payload[o].in}
           f == [o \in 1..Len(payload) |->
                   IF o \in hit THEN RemoveEndpoints(payload[o], {e}) ELSE payload[o]]
<1>1. /\ UNCHANGED <<execQ, send, link, wire, back, broken, in, got, rstatusQ, rtold>>
      /\ Take("disconnect") /\ statusQ' = Tail(statusQ) /\ Head(statusQ).k = "disconnect"
      /\ Tell(hit \X {e}, "failure")
  BY DEF Disconnected, channels, receiver, Take
<1>2. /\ \A n \in 1..Len(statusQ') :
           \/ \E m \in 1..Len(statusQ) : statusQ'[n] = statusQ[m]
           \/ statusQ'[n].k \notin {"finished", "disconnect"}
      /\ 1 \in 1..Len(statusQ) /\ Head(statusQ) = statusQ[1] /\ Head(statusQ) \in Job
  BY <1>1, TakeOnly DEF IInv, Core
<1>3. ~Up(e)
  BY <1>1, <1>2 DEF ReceivedInv, QueueInv, Up
<1>4. UNCHANGED written /\ \A q \in Payload, d \in Endpoint :
        told'[<<q, d>>] = "canceled" => told[<<q, d>>] = "canceled"
  BY <1>1, TellCanceled DEF Transfer
<1>5. DOMAIN payload = 1..Len(payload) /\ (\A o \in 1..Len(payload) : payload[o] \in Object)
      /\ payload \in Seq(Object)
  BY SenderObjects DEF IInv, Core, SenderType
<1>6. payload' = [o \in DOMAIN payload |-> f[o]]
  BY <1>5 DEF Disconnected
<1> HIDE DEF hit
<1>7. ASSUME NEW o \in 1..Len(payload)
      PROVE  /\ f[o] \in Object /\ Later(payload[o], f[o]) /\ f[o].status = payload[o].status
             /\ payload[o].in \ {e} \subseteq f[o].in
  <2>1. CASE o \in hit
    <3>1. PICK es : es = {e}
      OBVIOUS
    <3>2. f[o] = RemoveEndpoints(payload[o], es) /\ payload[o] \in Object
      BY <1>5, <2>1, <3>1
    <3> HIDE DEF f
    <3>3. \A p \in Object :
            /\ RemoveEndpoints(p, es) \in Object /\ Later(p, RemoveEndpoints(p, es))
            /\ RemoveEndpoints(p, es).in = p.in \ es /\ RemoveEndpoints(p, es).status = p.status
      BY RemoveEndpointsObject, StatusKept
    <3> QED
      BY <3>1, <3>2, <3>3
  <2>2. CASE o \notin hit
    BY <1>5, <2>2 DEF Later
  <2> QED
    BY <2>1, <2>2
<1> HIDE DEF f
<1>8. Len(payload') = Len(payload) /\ \A q \in 1..Len(payload) : payload'[q] = f[q]
  BY <1>5, <1>6, <1>7, ReplaceObjects
<1>9. Same /\ \A q \in 1..Len(payload) : payload'[q].status = payload[q].status
  BY <1>7, <1>8 DEF Same
<1>10. \A q \in 1..Len(payload), d \in Endpoint : d \in payload[q].in => d \in payload'[q].in \/ ~Up(d)
  BY <1>3, <1>7, <1>8
<1> HIDE DEF e
<1> QED
  BY <1>1, <1>2, <1>4, <1>9, <1>10, ObjectsPassive

\* NotifyShutdown and StopTrackingAllPayloads
LEMMA ShutdownPassive ==
  ASSUME IInv, SentInv, ReceivedInv, NotifyShutdown \/ StopTrackingAll PROVE Passive
<1>1. UNCHANGED <<execQ, send, told, written, link, wire, back, broken, in, got, rstatusQ, rtold>>
  BY DEF NotifyShutdown, StopTrackingAll, sender, client, links, channels, receiver
<1>2. CASE NotifyShutdown
  <2>1. UNCHANGED payload /\ Same /\ Take("notify") /\ statusQ' = Tail(statusQ)
    BY <1>2 DEF NotifyShutdown, sender, Same, Later
  <2>2. \A n \in 1..Len(statusQ') :
          \/ \E m \in 1..Len(statusQ) : statusQ'[n] = statusQ[m]
          \/ statusQ'[n].k \notin {"finished", "disconnect"}
    BY <2>1, TakeOnly DEF IInv, Core
  <2> QED
    BY <1>1, <2>1, <2>2, ObjectsPassive
<1>3. CASE StopTrackingAll
  <2> DEFINE os == {tracked[i] : i \in Id} \ {0}
             f == [o \in 1..Len(payload) |-> IF o \in os THEN DropRef(payload, o)[o] ELSE payload[o]]
  <2>1. DOMAIN payload = 1..Len(payload) /\ (\A o \in 1..Len(payload) : payload[o] \in Object)
        /\ payload \in Seq(Object)
    BY SenderObjects DEF IInv, Core, SenderType
  <2>2. payload' = [o \in DOMAIN payload |-> f[o]] /\ statusQ' = <<>>
    BY <1>3, <2>1 DEF StopTrackingAll
  <2> HIDE DEF os
  <2>3. ASSUME NEW o \in 1..Len(payload)
        PROVE  /\ f[o] \in Object /\ Later(payload[o], f[o]) /\ f[o].in = payload[o].in
               /\ f[o].status = payload[o].status
    <3> DEFINE p == [payload[o] EXCEPT !.refs = payload[o].refs - 1]
    <3>1. DropRef(payload, o)[o] = p /\ payload[o] \in Object
      BY <2>1 DEF DropRef
    <3>2. payload[o].refs - 1 \in Int
      BY <3>1, ObjectFields
    <3>3. p \in Object /\ Later(payload[o], p) /\ p.in = payload[o].in /\ p.status = payload[o].status
      BY <3>1, <3>2, RefsObject, StatusKept
    <3> HIDE DEF p
    <3>4. Later(payload[o], payload[o])
      BY DEF Later
    <3>5. f[o] = p \/ f[o] = payload[o]
      BY <3>1
    <3> HIDE DEF f
    <3> QED
      BY <3>1, <3>3, <3>4, <3>5
  <2> HIDE DEF f
  <2>4. Len(payload') = Len(payload) /\ \A q \in 1..Len(payload) : payload'[q] = f[q]
    BY <2>1, <2>2, <2>3, ReplaceObjects
  <2>5. Same /\ \A q \in 1..Len(payload) : payload'[q].status = payload[q].status /\ payload'[q].in = payload[q].in
    BY <2>3, <2>4 DEF Same
  <2>6. \A n \in 1..Len(statusQ') : FALSE
    BY <2>2
  <2> QED
    BY <1>1, <2>5, <2>6, ObjectsPassive
<1> QED
  BY <1>2, <1>3

\* CancelPayload marks an object.
LEMMA CancelPayloadPassive ==
  ASSUME IInv, SentInv, ReceivedInv, NEW i \in Id, CancelPayload(i) PROVE Passive
<1> DEFINE o == tracked[i]
           p == [payload[o] EXCEPT !.canceled = TRUE]
<1>1. UNCHANGED <<execQ, send, statusQ, told, written, link, wire, back, broken, in, got, rstatusQ, rtold>>
  BY DEF CancelPayload, client, links, channels, receiver
<1>2. o \in 1..Len(payload) /\ payload[o] \in Object
  BY TrackedObject DEF CancelPayload
<1>3. p \in Object /\ Later(payload[o], p)
  BY <1>2 DEF Object, Later
<1>4. p.in = payload[o].in /\ p.status = payload[o].status
  BY <1>2, StatusKept
<1>5. payload' = [payload EXCEPT ![o] = p] /\ payload \in Seq(Object)
  BY DEF CancelPayload, IInv, Core, SenderType
<1> HIDE DEF p
<1>6. /\ Len(payload') = Len(payload)
      /\ \A q \in 1..Len(payload) : payload'[q] = IF q = o THEN p ELSE payload[q]
  BY <1>2, <1>3, <1>5, ReplaceObject
<1>7. Same /\ \A q \in 1..Len(payload) : payload'[q].status = payload[q].status /\ payload'[q].in = payload[q].in
  BY <1>3, <1>4, <1>6 DEF Same, Later
<1> QED
  BY <1>1, <1>7, ObjectsPassive

\* CancelAllPayloads marks all that are tracked.
LEMMA CancelAllPayloadsPassive == ASSUME IInv, SentInv, ReceivedInv, CancelAllPayloads PROVE Passive
<1> DEFINE os == {tracked[i] : i \in Id} \ {0}
           f == [o \in 1..Len(payload) |->
                   IF o \in os THEN [payload[o] EXCEPT !.canceled = TRUE, !.closed = TRUE]
                   ELSE payload[o]]
<1>1. UNCHANGED <<execQ, send, statusQ, told, written, link, wire, back, broken, in, got, rstatusQ, rtold>>
  BY DEF CancelAllPayloads, client, links, channels, receiver
<1>2. DOMAIN payload = 1..Len(payload) /\ \A o \in 1..Len(payload) : payload[o] \in Object
  BY SenderObjects DEF IInv, Core
<1>3. payload' = [o \in DOMAIN payload |-> f[o]]
  BY <1>2 DEF CancelAllPayloads
<1> HIDE DEF os
<1>4. ASSUME NEW o \in 1..Len(payload)
      PROVE  /\ f[o] \in Object /\ Later(payload[o], f[o]) /\ f[o].in = payload[o].in
             /\ f[o].status = payload[o].status
  <2> DEFINE p == [payload[o] EXCEPT !.canceled = TRUE, !.closed = TRUE]
  <2>1. payload[o] \in Object /\ Later(payload[o], payload[o])
    BY <1>2 DEF Later
  <2>2. p \in Object /\ Later(payload[o], p)
    BY <2>1 DEF Object, Later
  <2>3. p.in = payload[o].in /\ p.status = payload[o].status
    BY <2>1, StatusKept
  <2>4. f[o] = p \/ f[o] = payload[o]
    OBVIOUS
  <2> HIDE DEF p, f
  <2> QED
    BY <2>1, <2>2, <2>3, <2>4
<1> HIDE DEF f
<1>5. Len(payload') = Len(payload) /\ \A q \in 1..Len(payload) : payload'[q] = f[q]
  <2>1. payload \in Seq(Object)
    BY DEF IInv, Core, SenderType
  <2> QED
    BY <1>3, <1>4, <2>1, ReplaceObjects
<1>6. Same /\ \A q \in 1..Len(payload) : payload'[q].status = payload[q].status /\ payload'[q].in = payload[q].in
  BY <1>4, <1>5 DEF Same
<1> QED
  BY <1>1, <1>6, ObjectsPassive

\* ProcessControlPacket: what the endpoint has sent back becomes its status.
LEMMA ProcessControlPacketPassive ==
  ASSUME IInv, SentInv, ReceivedInv, NEW e \in Endpoint, ProcessControlPacket(e) PROVE Passive
<1> DEFINE f == Head(back[e])
           o == tracked[f.i]
<1>1. UNCHANGED <<execQ, send, statusQ, told, written, link, wire, broken, in, got, rstatusQ, rtold>>
  BY DEF ProcessControlPacket, client, links, receiver
<1>2. /\ f \in Answer /\ f = back[e][1] /\ 1 \in 1..Len(back[e])
      /\ \A d \in Endpoint : \A n \in 1..Len(back'[d]) : \E m \in 1..Len(back[d]) : back'[d][n] = back[d][m]
  <2>1. back[e] \in Seq(Answer) /\ back[e] # <<>> /\ back \in [Endpoint -> Seq(Answer)]
    BY DEF ProcessControlPacket, IInv, NetType
  <2>2. back' = [back EXCEPT ![e] = Tail(back[e])]
    BY DEF ProcessControlPacket
  <2>3. f \in Answer /\ f = back[e][1] /\ 1 \in 1..Len(back[e])
    BY <2>1
  <2>4. /\ Len(back[e]) \in Nat /\ Len(Tail(back[e])) = Len(back[e]) - 1
        /\ \A n \in 1..(Len(back[e]) - 1) : Tail(back[e])[n] = back[e][n + 1]
    BY <2>1
  <2>5. ASSUME NEW n \in 1..Len(Tail(back[e])) PROVE \E m \in 1..Len(back[e]) : Tail(back[e])[n] = back[e][m]
    <3>1. n + 1 \in 1..Len(back[e]) /\ Tail(back[e])[n] = back[e][n + 1]
      BY <2>4
    <3> QED
      BY <3>1
  <2>6. \A d \in Endpoint : back'[d] = IF d = e THEN Tail(back[e]) ELSE back[d]
    BY <2>1, <2>2
  <2>7. ASSUME NEW d \in Endpoint, NEW n \in 1..Len(back'[d])
        PROVE  \E m \in 1..Len(back[d]) : back'[d][n] = back[d][m]
    <3>1. CASE d = e
      <4>1. back'[d] = Tail(back[e])
        BY <2>6, <3>1
      <4>2. n \in 1..Len(Tail(back[e])) /\ back'[d][n] = Tail(back[e])[n]
        BY <4>1
      <4> QED
        BY <2>5, <3>1, <4>2
    <3>2. CASE d # e
      <4>1. back'[d] = back[d]
        BY <2>6, <3>2
      <4> QED
        BY <4>1
    <3> QED
      BY <3>1, <3>2
  <2> QED
    BY <2>3, <2>7
<1>3. f.i \in Id /\ f.k \in {"canceled", "error"}
  BY <1>2 DEF Answer
<1>4. /\ Same
      /\ \A q \in 1..Len(payload) : payload'[q].in = payload[q].in
      /\ \A q \in 1..Len(payload), d \in Endpoint :
           \/ payload'[q].status[d] = payload[q].status[d]
           \/ q = o /\ d = e /\ payload[q].id = f.i /\ payload'[q].status[d] = f.k
  <2>1. CASE payload' = payload
    BY <2>1 DEF Same, Later
  <2>2. CASE o # 0 /\ payload' = [payload EXCEPT ![o].status[e] = f.k]
    <3> DEFINE p == [payload[o] EXCEPT !.status = [payload[o].status EXCEPT ![e] = f.k]]
    <3>1. o \in 1..Len(payload) /\ payload[o].id = f.i /\ payload[o] \in Object
      BY <1>3, <2>2, TrackedObject
    <3>2. /\ p \in Object /\ Later(payload[o], p) /\ p.in = payload[o].in
          /\ p.status = [payload[o].status EXCEPT ![e] = f.k] /\ payload[o].status \in [Endpoint -> Status]
      <4>1. f.k \in Status
        BY <1>3 DEF Status
      <4> HIDE DEF f, o
      <4>2. payload[o].status \in [Endpoint -> Status]
        BY <3>1 DEF Object
      <4>3. [payload[o].status EXCEPT ![e] = f.k] \in [Endpoint -> Status]
        BY <4>1, <4>2
      <4> QED
        BY <3>1, <4>2, <4>3 DEF Object, Later
    <3>3. payload' = [payload EXCEPT ![o] = p] /\ payload \in Seq(Object)
      BY <2>2 DEF IInv, Core, SenderType
    <3> HIDE DEF p, f, o
    <3>4. /\ Len(payload') = Len(payload)
          /\ \A q \in 1..Len(payload) : payload'[q] = IF q = o THEN p ELSE payload[q]
      BY <3>1, <3>2, <3>3, ReplaceObject
    <3>5. \A d \in Endpoint : p.status[d] = IF d = e THEN f.k ELSE payload[o].status[d]
      BY <3>2
    <3> QED
      BY <3>1, <3>2, <3>4, <3>5 DEF Same, Later
  <2>3. payload' = payload \/ (o # 0 /\ payload' = [payload EXCEPT ![o].status[e] = f.k])
    <3>1. CASE Shutdown \/ o = 0
      BY <3>1 DEF ProcessControlPacket
    <3>2. CASE ~(Shutdown \/ o = 0) /\ e \in payload[o].in
      BY <3>2 DEF ProcessControlPacket
    <3>3. CASE ~(Shutdown \/ o = 0) /\ e \notin payload[o].in
      BY <3>3 DEF ProcessControlPacket
    <3> QED
      BY <3>1, <3>2, <3>3
  <2> QED
    BY <2>1, <2>2, <2>3
<1> HIDE DEF f, o
<1>5. \A q \in 1..Len(payload), d \in Endpoint :
        payload'[q].status[d] = "available" => payload[q].status[d] = "available"
  BY <1>3, <1>4
<1>6. ASSUME NEW q \in 1..Len(payload), NEW d \in Endpoint, Refused(q, d)' PROVE Refused(q, d)
  <2>1. payload'[q].id = payload[q].id
    BY <1>4 DEF Same, Later
  <2>2. CASE payload'[q].status[d] = "canceled"
    BY <1>2, <1>4, <2>2 DEF Refused
  <2>3. CASE \E n \in 1..Len(back'[d]) : back'[d][n].k = "canceled" /\ back'[d][n].i = payload[q].id
    BY <1>2, <2>3 DEF Refused
  <2> QED
    BY <1>6, <2>1, <2>2, <2>3 DEF Refused
<1>7. \A d \in Endpoint : \A n \in 1..Len(back'[d]) : \E q \in 1..Len(payload) : back'[d][n].i = payload[q].id
  <2> SUFFICES ASSUME NEW d \in Endpoint, NEW n \in 1..Len(back'[d])
               PROVE  \E q \in 1..Len(payload) : back'[d][n].i = payload[q].id
    OBVIOUS
  <2>1. PICK m \in 1..Len(back[d]) : back'[d][n] = back[d][m]
    BY <1>2
  <2> QED
    BY <2>1 DEF ReceivedInv, CanceledOf
<1>8. \A d \in Endpoint : Up(d)' => Up(d)
  BY <1>1 DEF Up
<1> QED
  BY <1>1, <1>4, <1>5, <1>6, <1>7, <1>8 DEF Passive

\* Steps that leave the objects alone: frames that came back are handled or lost, a link goes
\* down, a device that is not modelled sends a frame about a payload it was sent.
LEMMA StillPassive ==
  ASSUME IInv, SentInv, ReceivedInv,
         UNCHANGED <<payload, execQ, send, told, written, wire, in, got, rstatusQ, rtold>>,
         \A e \in Endpoint : link'[e] = "up" => link[e] = "up",
         broken \subseteq broken',
         \A e \in Endpoint : \A n \in 1..Len(back'[e]) :
           \/ \E m \in 1..Len(back[e]) : back'[e][n] = back[e][m]
           \/ e \in Remote /\ \E o \in 1..Len(payload) :
                back'[e][n].i = payload[o].id /\ written[<<o, e>>] > 0,
         \A n \in 1..Len(statusQ') :
           \/ \E m \in 1..Len(statusQ) : statusQ'[n] = statusQ[m]
           \/ /\ statusQ'[n].k # "finished"
              /\ statusQ'[n].k = "disconnect" => link'[statusQ'[n].e] # "up"
  PROVE  Passive
<1>1. Same
  BY DEF Same, Later
<1>2. \A e \in Endpoint : Up(e)' => Up(e)
  BY DEF Up
<1>3. ASSUME NEW e \in Endpoint, NEW n \in 1..Len(back'[e])
      PROVE  \E o \in 1..Len(payload) : back'[e][n].i = payload[o].id
  <2>1. CASE \E m \in 1..Len(back[e]) : back'[e][n] = back[e][m]
    BY <2>1 DEF ReceivedInv, CanceledOf
  <2> QED
    BY <2>1
<1>4. ASSUME NEW o \in 1..Len(payload), NEW e \in Endpoint, Refused(o, e)'
      PROVE  Refused(o, e) \/ (e \in Remote /\ written[<<o, e>>] > 0)
  <2>1. CASE payload[o].status[e] = "canceled"
    BY <2>1 DEF Refused
  <2>2. ASSUME NEW n \in 1..Len(back'[e]), back'[e][n].k = "canceled", back'[e][n].i = payload[o].id
        PROVE  Refused(o, e) \/ (e \in Remote /\ written[<<o, e>>] > 0)
    <3>1. CASE \E m \in 1..Len(back[e]) : back'[e][n] = back[e][m]
      BY <2>2, <3>1 DEF Refused
    <3>2. CASE e \in Remote /\ \E q \in 1..Len(payload) : back'[e][n].i = payload[q].id /\ written[<<q, e>>] > 0
      BY <2>2, <3>2, ObjectNumbers
    <3> QED
      BY <3>1, <3>2
  <2> QED
    BY <1>4, <2>1, <2>2 DEF Refused
<1> QED
  BY <1>1, <1>2, <1>3, <1>4 DEF Passive

\* A queue to which one job is posted.
LEMMA PostedOne ==
  ASSUME SenderType, NEW j, Post(<<j>>)
  PROVE  \A n \in 1..Len(statusQ') : (\E m \in 1..Len(statusQ) : statusQ'[n] = statusQ[m]) \/ statusQ'[n] = j
<1>1. statusQ \in Seq(Job) /\ statusQ' = Append(statusQ, j)
  BY DEF SenderType, Post
<1>2. Len(statusQ) \in Nat /\ Len(statusQ') = Len(statusQ) + 1
  BY <1>1
<1>3. ASSUME NEW n \in 1..Len(statusQ')
      PROVE  (\E m \in 1..Len(statusQ) : statusQ'[n] = statusQ[m]) \/ statusQ'[n] = j
  <2>1. CASE n \in 1..Len(statusQ)
    <3>1. statusQ'[n] = statusQ[n]
      BY <1>1, <2>1
    <3> QED
      BY <2>1, <3>1
  <2>2. CASE n = Len(statusQ) + 1
    BY <1>1, <2>2
  <2> QED
    BY <1>2, <2>1, <2>2
<1> QED
  BY <1>3

\* RemoveEndpoint posts the disconnection of an endpoint whose link is not up any more.
LEMMA RemoveEndpointPassive ==
  ASSUME IInv, SentInv, ReceivedInv, NEW e \in Endpoint, RemoveEndpoint(e) PROVE Passive
<1>1. /\ UNCHANGED <<payload, execQ, send, told, written, wire, in, got, rstatusQ, rtold>>
      /\ broken' = broken \cup {e}
  BY DEF RemoveEndpoint, sender, client, receiver
<1>2. \A d \in Endpoint : link'[d] = "up" => link[d] = "up" /\ d # e
  BY DEF RemoveEndpoint, IInv, Core, ClientType
<1>3. ASSUME NEW d \in Endpoint, NEW n \in 1..Len(back'[d])
      PROVE  \E m \in 1..Len(back[d]) : back'[d][n] = back[d][m]
  <2>1. back \in [Endpoint -> Seq(Answer)]
    BY DEF IInv, NetType
  <2>2. PICK c \in {0, 1} : back' = [back EXCEPT ![e] = ReadAlready(@, c)]
    BY DEF RemoveEndpoint
  <2>3. CASE d # e
    <3>1. back'[d] = back[d]
      BY <2>1, <2>2, <2>3
    <3> QED
      BY <3>1
  <2>4. CASE d = e
    <3>1. PICK s \in Seq(Answer) : s = back[e]
      BY <2>1
    <3>2. PICK k \in Nat : k = (IF c > Len(s) THEN Len(s) ELSE c) /\ k <= Len(s)
      BY <3>1
    <3>3. back'[d] = SubSeq(s, 1, k)
      BY <2>1, <2>2, <2>4, <3>1, <3>2 DEF ReadAlready
    <3>4. Len(SubSeq(s, 1, k)) = k /\ \A m \in 1..k : SubSeq(s, 1, k)[m] = s[m]
      BY <3>1, <3>2
    <3>5. n \in 1..Len(s) /\ back'[d][n] = s[n]
      BY <3>1, <3>2, <3>3, <3>4
    <3> QED
      BY <2>4, <3>1, <3>5
  <2> QED
    BY <2>3, <2>4
<1>4. ASSUME NEW n \in 1..Len(statusQ')
      PROVE  \/ \E m \in 1..Len(statusQ) : statusQ'[n] = statusQ[m]
             \/ /\ statusQ'[n].k # "finished"
                /\ statusQ'[n].k = "disconnect" => link'[statusQ'[n].e] # "up"
  <2>1. CASE UNCHANGED statusQ
    BY <2>1
  <2>2. CASE Post(<<[k |-> "disconnect", e |-> e]>>)
    <3>1. (\E m \in 1..Len(statusQ) : statusQ'[n] = statusQ[m]) \/ statusQ'[n] = [k |-> "disconnect", e |-> e]
      BY <2>2, PostedOne DEF IInv, Core
    <3> QED
      BY <1>2, <3>1
  <2> QED
    BY <2>1, <2>2 DEF RemoveEndpoint
<1> QED
  BY <1>1, <1>2, <1>3, <1>4, StillPassive

\* RemoteControl: the device was sent a frame of the payload.
LEMMA RemoteControlPassive ==
  ASSUME IInv, SentInv, ReceivedInv, NEW e \in Endpoint, NEW i \in Id, NEW event \in {"canceled", "error"},
         RemoteControl(e, i, event)
  PROVE  Passive
<1>1. UNCHANGED <<payload, execQ, send, told, written, wire, in, got, rstatusQ, rtold, link, broken, statusQ>>
  BY DEF RemoteControl, sender, client, receiver, links
<1>2. /\ e \in Remote /\ tracked[i] # 0 /\ written[<<tracked[i], e>>] > 0
      /\ back' = [back EXCEPT ![e] = Append(@, [k |-> event, i |-> i])] /\ back[e] = <<>>
  BY DEF RemoteControl
<1>3. tracked[i] \in 1..Len(payload) /\ payload[tracked[i]].id = i
  BY <1>2, TrackedObject
<1>4. ASSUME NEW d \in Endpoint, NEW n \in 1..Len(back'[d])
      PROVE  \/ \E m \in 1..Len(back[d]) : back'[d][n] = back[d][m]
             \/ d \in Remote /\ \E o \in 1..Len(payload) :
                  back'[d][n].i = payload[o].id /\ written[<<o, d>>] > 0
  <2>1. back \in [Endpoint -> Seq(Answer)]
    BY DEF IInv, NetType
  <2>2. CASE d # e
    <3>1. back'[d] = back[d]
      BY <1>2, <2>1, <2>2
    <3> QED
      BY <3>1
  <2>3. CASE d = e
    <3>1. back'[d] = <<[k |-> event, i |-> i]>>
      BY <1>2, <2>1, <2>3
    <3>2. back'[d][n].i = i
      BY <3>1
    <3> QED
      BY <1>2, <1>3, <2>3, <3>2
  <2> QED
    BY <2>2, <2>3
<1> QED
  BY <1>1, <1>4, StillPassive

\* The rest of what the environment does.
LEMMA RestPassive ==
  ASSUME IInv, SentInv, ReceivedInv,
         \/ UNCHANGED vars
         \/ DisconnectFromEndpointManager \/ StopStatusUpdates
         \/ \E e \in Endpoint : OnDisconnected(e) \/ ChannelBreaks(e) \/ OnSenderDisconnected(e)
  PROVE  Passive
<1> DEFINE Kept == UNCHANGED <<payload, execQ, send, told, written, wire, back, in, got, rstatusQ, rtold>>
                   /\ (\A d \in Endpoint : link'[d] = "up" => link[d] = "up") /\ broken \subseteq broken'
<1>1. ASSUME UNCHANGED vars PROVE Kept /\ UNCHANGED statusQ
  BY <1>1 DEF vars, sender, client, links, channels, receiver
<1>2. ASSUME DisconnectFromEndpointManager PROVE Kept /\ UNCHANGED statusQ
  BY <1>2 DEF DisconnectFromEndpointManager, sender, client, links, channels, receiver
<1>3. ASSUME StopStatusUpdates PROVE Kept /\ Post(<<[k |-> "stop"]>>)
  BY <1>3 DEF StopStatusUpdates, sender, client, links, channels, receiver
<1>4. ASSUME NEW e \in Endpoint, OnDisconnected(e) PROVE Kept /\ UNCHANGED statusQ
  BY <1>4 DEF OnDisconnected, sender, client, channels, receiver, IInv, Core, ClientType
<1>5. ASSUME NEW e \in Endpoint, ChannelBreaks(e) PROVE Kept /\ UNCHANGED statusQ
  BY <1>5 DEF ChannelBreaks, sender, client, links, receiver
<1>6. ASSUME NEW e \in Endpoint, OnSenderDisconnected(e) PROVE Kept /\ UNCHANGED statusQ
  BY <1>6 DEF OnSenderDisconnected, others, sender, client, links, channels
<1> HIDE DEF Kept
<1>7. Kept /\ (UNCHANGED statusQ \/ Post(<<[k |-> "stop"]>>))
  BY <1>1, <1>2, <1>3, <1>4, <1>5, <1>6
<1>8. ASSUME NEW n \in 1..Len(statusQ')
      PROVE  \/ \E m \in 1..Len(statusQ) : statusQ'[n] = statusQ[m]
             \/ statusQ'[n].k # "finished" /\ statusQ'[n].k # "disconnect"
  <2>1. CASE UNCHANGED statusQ
    BY <2>1
  <2>2. CASE Post(<<[k |-> "stop"]>>)
    <3>1. (\E m \in 1..Len(statusQ) : statusQ'[n] = statusQ[m]) \/ statusQ'[n] = [k |-> "stop"]
      BY <2>2, PostedOne DEF IInv, Core
    <3> QED
      BY <3>1
  <2> QED
    BY <1>7, <2>1, <2>2
<1> QED
  BY <1>7, <1>8, StillPassive DEF Kept

-----------------------------------------------------------------------------
(* New payloads, and the running job.                                      *)

\* A step of the sender that neither writes a frame to an endpoint nor hears of it.
LEMMA OnwardEndpoint ==
  ASSUME IInv, SentInv, IInv', SentInv', NEW e \in Endpoint,
         Received(e), RemoteOf(e), CanceledOf(e), Idles(e), Onward(e),
         back'[e] = back[e], UNCHANGED told,
         \A o \in 1..Len(payload) : payload'[o].status = payload[o].status,
         \A o \in 1..Len(payload') : o \notin 1..Len(payload) =>
           payload'[o].status[e] # "canceled" /\ \A p \in 1..Len(payload) : payload[p].id # payload'[o].id,
         \A o \in 1..Len(payload'), n \in 1..Len(statusQ') :
           Finishes(statusQ'[n], payload'[o].id, e) /\ statusQ'[n].st = "canceled" =>
             o \in 1..Len(payload) /\ (Reported(o, e) \/ Dead(o, e) \/ Stopped(o, e)')
  PROVE  Received(e)' /\ RemoteOf(e)' /\ CanceledOf(e)'
<1>1. Received(e)'
  BY OnwardReceived
<1>2. RemoteOf(e)'
  BY DEF RemoteOf, Idles
<1>3. /\ Len(payload) \in Nat /\ 1..Len(payload) \subseteq 1..Len(payload')
      /\ \A o \in 1..Len(payload) : payload'[o].id = payload[o].id
  <2>1. Len(payload) \in Nat /\ Len(payload') \in Nat /\ Len(payload) <= Len(payload')
    BY ObjectNumbers DEF Onward, IInv, Core, SenderType
  <2> QED
    BY <2>1 DEF Onward
<1>4. \A n \in 1..Len(back'[e]) : \E o \in 1..Len(payload') : back'[e][n].i = payload'[o].id
  <2> SUFFICES ASSUME NEW n \in 1..Len(back[e]) PROVE \E o \in 1..Len(payload') : back[e][n].i = payload'[o].id
    OBVIOUS
  <2>1. PICK o \in 1..Len(payload) : back[e][n].i = payload[o].id
    BY DEF CanceledOf
  <2> QED
    BY <1>3, <2>1
<1>5. \A o \in Payload : told'[<<o, e>>] = "canceled" => o <= Len(payload)
  BY DEF CanceledOf
<1>6. ASSUME NEW o \in 1..Len(payload'), Refused(o, e)' PROVE o \in 1..Len(payload) /\ Refused(o, e)
  <2>1. CASE o \in 1..Len(payload)
    BY <1>3, <1>6, <2>1 DEF Refused
  <2>2. CASE o \notin 1..Len(payload)
    <3>1. payload'[o].status[e] # "canceled" /\ \A p \in 1..Len(payload) : payload[p].id # payload'[o].id
      BY <2>2
    <3>2. PICK n \in 1..Len(back[e]) : back[e][n].i = payload'[o].id
      BY <1>6, <3>1 DEF Refused
    <3>3. \E p \in 1..Len(payload) : back[e][n].i = payload[p].id
      BY DEF CanceledOf
    <3> QED
      BY <3>1, <3>2, <3>3
  <2> QED
    BY <2>1, <2>2
<1>7. ASSUME NEW o \in 1..Len(payload'), Reported(o, e)'
      PROVE  o \in 1..Len(payload) /\ (Reported(o, e) \/ Dead(o, e) \/ Stopped(o, e)')
  <2>1. CASE told'[<<o, e>>] = "canceled"
    <3>1. o \in Payload /\ o \in Nat \ {0}
      BY PayloadAssumption DEF Payload, IInv, Core, SenderType
    <3>2. o \in 1..Len(payload)
      BY <1>3, <1>5, <2>1, <3>1
    <3> QED
      BY <2>1, <3>2 DEF Reported
  <2>2. CASE told'[<<o, e>>] # "canceled"
    BY <1>7, <2>2 DEF Reported
  <2> QED
    BY <2>1, <2>2
<1>8. CanceledOf(e)'
  BY <1>4, <1>5, <1>6, <1>7, OnwardCanceled
<1> QED
  BY <1>1, <1>2, <1>8

\* A new payload, with an id that no other has.
LEMMA SendPayloadReceived ==
  ASSUME IInv, IInv', SentInv, SentInv', ReceivedInv, "reuse" \notin Events,
         NEW i \in Id, NEW es \in SUBSET Endpoint, NEW len \in Lengths, NEW resume \in Resumes,
         SendPayload(i, es, len, resume)
  PROVE  ReceivedInv'
<1> DEFINE o == Len(payload) + 1
           new == [id |-> i, to |-> es, in |-> es, status |-> [e \in Endpoint |-> "available"],
                   len |-> len, resume |-> resume, canceled |-> FALSE, closed |-> FALSE, refs |-> 1]
<1>1. /\ \A p \in 1..Len(payload) : payload[p].id # i
      /\ tracked[i] = 0 /\ Len(payload) \in Nat
  <2>1. DOMAIN payload = 1..Len(payload) /\ Len(payload) \in Nat
    BY SenderObjects DEF IInv, Core
  <2>2. \A p \in 1..Len(payload) : payload[p].id # i
    BY <2>1 DEF SendPayload
  <2> QED
    BY <2>1, <2>2, TrackedObject
<1>2. /\ payload' = Append(payload, new) /\ execQ' = Append(execQ, i)
      /\ UNCHANGED <<send, statusQ, told, written, link, wire, back, broken, in, got, rstatusQ, rtold>>
  BY <1>1 DEF SendPayload, client, links, channels, receiver
<1>3. new.id = i /\ \A e \in Endpoint : new.status[e] = "available"
  OBVIOUS
<1> HIDE DEF new
<1>4. /\ Len(payload') = o /\ payload'[o] = new
      /\ \A q \in 1..Len(payload) : payload'[q] = payload[q]
      /\ \A q \in 1..Len(payload') : q = o \/ q \in 1..Len(payload)
      /\ 1..Len(payload) \subseteq 1..Len(payload')
  <2>1. payload \in Seq(Object)
    BY DEF IInv, Core, SenderType
  <2>2. /\ Len(payload') = o /\ payload'[o] = new
        /\ \A q \in 1..Len(payload) : payload'[q] = payload[q]
    BY <1>2, <2>1
  <2> QED
    BY <1>1, <2>2
<1>5. ASSUME NEW q \in 1..Len(payload) PROVE Waiting(q)' <=> Waiting(q)
  <2>1. /\ Len(execQ) \in Nat /\ Len(execQ') = Len(execQ) + 1 /\ execQ'[Len(execQ) + 1] = i
        /\ \A n \in 1..Len(execQ) : execQ'[n] = execQ[n]
    <3>1. execQ \in Seq(Id)
      BY DEF IInv, Core, SenderType
    <3> QED
      BY <1>2, <3>1
  <2>2. /\ \A n \in 1..Len(execQ') : n = Len(execQ) + 1 \/ n \in 1..Len(execQ)
        /\ \A n \in 1..Len(execQ) : n \in 1..Len(execQ')
    BY <2>1
  <2>3. payload'[q] = payload[q] /\ payload[q].id # i
    BY <1>1, <1>4
  <2> QED
    BY <2>1, <2>2, <2>3 DEF Waiting
<1>6. Loops => send.obj \in 1..Len(payload)
  BY RunningJob DEF IInv, Loops
<1>7. QueueInv'
  <2> SUFFICES ASSUME NEW n \in 1..Len(statusQ), statusQ[n].k = "finished"
               PROVE  \E q \in 1..Len(payload') : statusQ[n].i = payload'[q].id /\ ~Waiting(q)'
    BY <1>2 DEF QueueInv, ReceivedInv
  <2>1. PICK q \in 1..Len(payload) : statusQ[n].i = payload[q].id /\ ~Waiting(q)
    BY DEF ReceivedInv, QueueInv
  <2> QED
    BY <1>4, <1>5, <2>1
<1>8. EpsInv'
  <2> SUFFICES ASSUME Loops', NEW e \in Endpoint, Up(e)' PROVE Leaves(send.obj, e)'
    BY DEF EpsInv
  <2>1. Loops /\ Up(e) /\ send' = send
    BY <1>2 DEF Loops, Up
  <2>2. PICK q \in 1..Len(payload) : q = send.obj
    BY <1>6, <2>1
  <2>3. payload'[q] = payload[q]
    BY <1>4
  <2>4. Leaves(q, e) /\ (Pending(q, e)' <=> Pending(q, e))
    BY <1>2, <2>1, <2>2, <2>3 DEF ReceivedInv, EpsInv, Pending
  <2>5. Leaves(q, e)'
    BY <2>1, <2>3, <2>4 DEF Leaves
  <2> QED
    BY <2>1, <2>2, <2>5 DEF Leaves, Pending
<1>9. ASSUME NEW e \in Endpoint PROVE Received(e)' /\ RemoteOf(e)' /\ CanceledOf(e)'
  <2>1. Received(e) /\ RemoteOf(e) /\ CanceledOf(e)
    BY DEF ReceivedInv
  <2>2. Idles(e)
    BY <1>2, ObjectNumbers DEF Idles
  <2>3. ASSUME NEW q \in 1..Len(payload)
        PROVE  payload'[q].id = payload[q].id /\ Chunks(q)' = Chunks(q) /\ (Over(q) => Over(q)')
    BY <1>2, <1>4, <1>5 DEF Chunks, Over, Sending
  <2>4. ASSUME NEW q \in 1..Len(payload'), Ready(q, e)'
        PROVE  /\ q <= Len(payload) /\ written'[<<q, e>>] = written[<<q, e>>]
               /\ Ready(q, e) /\ SoFar' = SoFar
    <3>1. Loops /\ send' = send /\ q = send.obj /\ q \in 1..Len(payload) /\ payload'[q] = payload[q]
      BY <1>2, <1>4, <1>6, <2>4 DEF Ready, Loops
    <3>2. Ready(q, e)
      BY <1>2, <2>4, <3>1 DEF Ready, Up
    <3>3. SoFar' = SoFar
      BY <3>1 DEF SoFar
    <3> QED
      BY <1>1, <1>2, <3>1, <3>2, <3>3
  <2>5. Onward(e)
    BY <1>1, <1>4, <1>5, <2>3, <2>4 DEF Onward
  <2>6. ASSUME NEW q \in 1..Len(payload'), NEW n \in 1..Len(statusQ'),
               Finishes(statusQ'[n], payload'[q].id, e), statusQ'[n].st = "canceled"
        PROVE  q \in 1..Len(payload) /\ Reported(q, e)
    <3>1. PICK p \in 1..Len(payload) : statusQ[n].i = payload[p].id
      BY <1>2, <2>6 DEF Finishes, ReceivedInv, QueueInv
    <3>2. q \in 1..Len(payload)
      BY <1>1, <1>2, <1>3, <1>4, <2>6, <3>1 DEF Finishes
    <3> QED
      BY <1>2, <1>4, <2>6, <3>2 DEF Reported
  <2>7. \A q \in 1..Len(payload') : q \notin 1..Len(payload) =>
          payload'[q].status[e] # "canceled" /\ \A p \in 1..Len(payload) : payload[p].id # payload'[q].id
    BY <1>1, <1>3, <1>4
  <2>8. back'[e] = back[e] /\ UNCHANGED told /\ \A q \in 1..Len(payload) : payload'[q].status = payload[q].status
    BY <1>2, <1>4
  <2> QED
    BY <2>1, <2>2, <2>5, <2>6, <2>7, <2>8, OnwardEndpoint
<1> QED
  BY <1>7, <1>8, <1>9 DEF ReceivedInv

\* A job starts: nothing of its payload has been seen, and no job that ends it is queued.
LEMMA StartJobReceived ==
  ASSUME IInv, IInv', SentInv, SentInv', ReceivedInv, StartJob PROVE ReceivedInv'
<1> DEFINE i == Head(execQ)
           o == tracked[i]
<1>1. /\ send = Idle /\ execQ # <<>> /\ execQ' = Tail(execQ)
      /\ UNCHANGED <<statusQ, told, written, link, wire, back, broken, in, got, rstatusQ, rtold>>
  BY DEF StartJob, client, links, channels, receiver
<1>2. /\ i \in Id /\ \A n \in 1..Len(execQ') :
           execQ'[n] = execQ[n + 1] /\ n + 1 \in 1..Len(execQ) /\ execQ'[n] # i
  BY <1>1, TakeJobOff
<1>3. /\ Same /\ \A q \in 1..Len(payload) : payload'[q].status = payload[q].status
      /\ \/ send' = Idle
         \/ /\ o \in 1..Len(payload) /\ payload[o].id = i
            /\ send' = [pc |-> "loop", obj |-> o, off |-> 0, lost |-> 0, eps |-> {}, n |-> 0]
  <2>1. CASE UNCHANGED <<payload, send>>
    BY <1>1, <2>1 DEF Same, Later
  <2>2. CASE /\ o # 0 /\ payload' = [payload EXCEPT ![o].refs = @ + 1]
             /\ send' = [pc |-> "loop", obj |-> o, off |-> 0, lost |-> 0, eps |-> {}, n |-> 0]
    <3>1. o \in 1..Len(payload) /\ payload[o].id = i /\ payload[o] \in Object
      BY <1>2, <2>2, TrackedObject
    <3> DEFINE p == [payload[o] EXCEPT !.refs = payload[o].refs + 1]
    <3>2. payload[o].refs + 1 \in Int /\ payload \in Seq(Object)
      <4>1. payload \in Seq(Object)
        BY DEF IInv, Core, SenderType
      <4> QED
        BY <3>1, <4>1, ObjectFields
    <3>3. payload' = [payload EXCEPT ![o] = p]
      BY <2>2
    <3> HIDE DEF i, o
    <3>4. p \in Object /\ Later(payload[o], p) /\ p.status = payload[o].status
      BY <3>1, <3>2, RefsObject, StatusKept
    <3> HIDE DEF p
    <3>5. /\ Len(payload') = Len(payload)
          /\ \A q \in 1..Len(payload) : payload'[q] = IF q = o THEN p ELSE payload[q]
      BY <3>1, <3>2, <3>3, <3>4, ReplaceObject
    <3> QED
      BY <2>2, <3>1, <3>4, <3>5 DEF Same, Later
  <2> QED
    BY <2>1, <2>2 DEF StartJob
<1> HIDE DEF i, o
<1>4. Len(payload') = Len(payload) /\ Len(payload) \in Nat
      /\ \A q \in 1..Len(payload) : payload'[q].id = payload[q].id /\ Chunks(q)' = Chunks(q)
  BY <1>3, ObjectNumbers DEF Same, Later, Chunks
<1>5. Waiting(o) \/ send' = Idle
  <2>1. execQ[1] = i /\ 1 \in 1..Len(execQ)
    BY <1>1 DEF i, IInv, Core, SenderType
  <2> QED
    BY <1>3, <2>1 DEF Waiting
<1>6. ASSUME NEW q \in 1..Len(payload) PROVE (Waiting(q)' => Waiting(q)) /\ (Over(q) => Over(q)')
  <2>1. Waiting(q)' => Waiting(q)
    BY <1>2, <1>4 DEF Waiting
  <2>2. Sending(q)' => q = o /\ send' # Idle
    BY <1>3 DEF Sending
  <2> QED
    BY <1>5, <2>1, <2>2 DEF Over
<1>7. QueueInv'
  <2> SUFFICES ASSUME NEW n \in 1..Len(statusQ), statusQ[n].k = "finished"
               PROVE  \E q \in 1..Len(payload') : statusQ[n].i = payload'[q].id /\ ~Waiting(q)'
    BY <1>1 DEF QueueInv, ReceivedInv
  <2>1. PICK q \in 1..Len(payload) : statusQ[n].i = payload[q].id /\ ~Waiting(q)
    BY DEF ReceivedInv, QueueInv
  <2> QED
    BY <1>4, <1>6, <2>1
<1>8. EpsInv'
  <2> SUFFICES ASSUME Loops', NEW e \in Endpoint, Up(e)' PROVE Leaves(send.obj, e)'
    BY DEF EpsInv
  <2>1. PICK q \in 1..Len(payload) : q = o /\ send'.obj = q /\ send'.pc = "loop" /\ send'.lost = 0 /\ Waiting(q)
    BY <1>3, <1>5 DEF Loops
  <2>2. ~Pending(q, e)'
    <3> SUFFICES ASSUME NEW n \in 1..Len(statusQ), Finishes(statusQ[n], payload[q].id, e) PROVE FALSE
      BY <1>1, <1>4, <2>1 DEF Pending
    <3>1. PICK p \in 1..Len(payload) : statusQ[n].i = payload[p].id /\ ~Waiting(p)
      BY DEF ReceivedInv, QueueInv, Finishes
    <3> QED
      BY <2>1, <3>1, ObjectNumbers DEF Finishes
  <2> QED
    BY <2>1, <2>2 DEF Leaves, Pending
<1>9. ASSUME NEW e \in Endpoint PROVE Received(e)' /\ RemoteOf(e)' /\ CanceledOf(e)'
  <2>1. Received(e) /\ RemoteOf(e) /\ CanceledOf(e)
    BY DEF ReceivedInv
  <2>2. Idles(e)
    BY <1>1, ObjectNumbers DEF Idles
  <2>3. ASSUME NEW q \in 1..Len(payload), Ready(q, e)' PROVE Waiting(q) /\ SoFar' = 0
    BY <1>3, <1>5, <2>3 DEF Ready, Loops, SoFar
  <2>4. Onward(e)
    BY <1>1, <1>4, <1>6, <2>3 DEF Onward
  <2>5. \A q \in 1..Len(payload'), n \in 1..Len(statusQ') :
           Finishes(statusQ'[n], payload'[q].id, e) /\ statusQ'[n].st = "canceled" =>
             q \in 1..Len(payload) /\ Reported(q, e)
    BY <1>1, <1>4 DEF Reported
  <2> QED
    BY <1>1, <1>3, <1>4, <2>1, <2>2, <2>4, <2>5, OnwardEndpoint
<1> QED
  BY <1>7, <1>8, <1>9 DEF ReceivedInv

\* A step of the running job before its end.
JobStep ==
  /\ UNCHANGED <<payload, execQ, told, link, back, broken, in, got, rstatusQ, rtold>>
  /\ Loops /\ send' # Idle /\ send'.obj = send.obj

\* The objects after such a step, and what may be said of the one that is being sent.
LEMMA JobFacts ==
  ASSUME IInv, SentInv, JobStep
  PROVE  /\ send.obj \in 1..Len(payload) /\ Len(payload) \in Nat
         /\ SoFar \in Nat
         /\ \A o \in 1..Len(payload) :
              /\ Chunks(o)' = Chunks(o) /\ (Waiting(o)' <=> Waiting(o)) /\ (Over(o) => Over(o)')
              /\ o = send.obj => ~Over(o) /\ ~Waiting(o)
              /\ o = send.obj /\ send'.pc = "done" => Over(o)'
<1>1. send.obj \in 1..Len(payload) /\ Len(payload) \in Nat /\ send.off \in Nat
  BY RunningJob, ObjectNumbers DEF IInv, JobStep, Loops
<1>2. SoFar \in Nat
  <2>1. PICK o \in 1..Len(payload) : o = send.obj
    BY <1>1
  <2>2. payload[o].resume \in Nat
    BY ObjectNumbers, ObjectFields
  <2>3. send.off = 0 \/ payload[o].resume <= send.off
    BY <2>1 DEF SentInv, SendingInv, JobStep, Loops
  <2> QED
    BY <1>1, <2>1, <2>2, <2>3 DEF SoFar
<1>3. ASSUME NEW o \in 1..Len(payload)
      PROVE  /\ Chunks(o)' = Chunks(o) /\ (Waiting(o)' <=> Waiting(o)) /\ (Over(o) => Over(o)')
             /\ o = send.obj => ~Over(o) /\ ~Waiting(o)
             /\ o = send.obj /\ send'.pc = "done" => Over(o)'
  <2>1. Chunks(o)' = Chunks(o) /\ (Waiting(o)' <=> Waiting(o))
    BY DEF JobStep, Chunks, Waiting
  <2>2. o = send.obj => Sending(o) /\ ~Over(o)
    BY DEF JobStep, Over, Sending, Loops
  <2>3. o = send.obj => ~Waiting(o)
    BY <2>2 DEF SentInv, WaitingInv
  <2>4. Sending(o)' => o = send.obj
    BY DEF Sending, JobStep
  <2> QED
    BY <2>1, <2>2, <2>3, <2>4 DEF Over
<1> QED
  BY <1>1, <1>2, <1>3

\* Nobody reports the object that is being sent as complete.
LEMMA Unfinished ==
  ASSUME IInv, SentInv, JobStep, NEW o \in 1..Len(payload), o = send.obj, NEW e \in Endpoint, Received(e)
  PROVE  NotReported(o, e) /\ \A n \in 1..Len(wire[e]) : ~IsLast(wire[e][n], o)
<1>1. ~Over(o) /\ o \in Payload
  BY JobFacts, ObjectNumbers
<1>2. rtold[<<o, e>>] # "success"
  BY <1>1 DEF Received, SuccessOf, NoMore
<1>3. \A n \in 1..Len(rstatusQ[e]) : ~RLast(rstatusQ[e][n], payload[o].id)
  BY <1>1 DEF Received, LastOf, NoMore
<1>4. \A n \in 1..Len(wire[e]) : ~IsLast(wire[e][n], o)
  BY <1>1 DEF Received, FramesOf, FrameOf, IsLast
<1> QED
  BY <1>2, <1>3, <1>4 DEF NotReported

\* The jobs posted by a step of the running job end its own transfers only; as canceled those
\* whose endpoints have said so, or that end with the job.
Ends(e) ==
  \A n \in 1..Len(statusQ') :
    \/ \E m \in 1..Len(statusQ) : statusQ'[n] = statusQ[m]
    \/ /\ statusQ'[n].k = "finished" =>
            /\ statusQ'[n].i = payload[send.obj].id
            /\ e \in statusQ'[n].es /\ statusQ'[n].st = "canceled" =>
                 payload[send.obj].status[e] = "canceled" \/ send'.pc = "done"
       /\ statusQ'[n].k # "disconnect"

\* What is queued for an endpoint as canceled after such a step.
LEMMA EndsReported ==
  ASSUME IInv, SentInv, JobStep, NEW e \in Endpoint, Ends(e), Received(e), CanceledOf(e),
         \A n \in 1..Len(wire'[e]) :
           \/ \E m \in 1..Len(wire[e]) : wire'[e][n] = wire[e][m]
           \/ wire'[e][n].k # "data" \/ send'.pc # "done"
  PROVE  \A o \in 1..Len(payload), n \in 1..Len(statusQ') :
           Finishes(statusQ'[n], payload[o].id, e) /\ statusQ'[n].st = "canceled" =>
             Reported(o, e) \/ Dead(o, e) \/ Stopped(o, e)'
<1> SUFFICES ASSUME NEW o \in 1..Len(payload), NEW n \in 1..Len(statusQ'),
                    Finishes(statusQ'[n], payload[o].id, e), statusQ'[n].st = "canceled"
             PROVE  Reported(o, e) \/ Dead(o, e) \/ Stopped(o, e)'
  OBVIOUS
<1>1. CASE \E m \in 1..Len(statusQ) : statusQ'[n] = statusQ[m]
  BY <1>1 DEF Reported
<1>2. CASE ~\E m \in 1..Len(statusQ) : statusQ'[n] = statusQ[m]
  <2>1. o = send.obj /\ (payload[send.obj].status[e] = "canceled" \/ send'.pc = "done")
    BY <1>2, JobFacts, ObjectNumbers DEF Ends, Finishes
  <2>2. CASE payload[o].status[e] = "canceled"
    BY <2>2 DEF CanceledOf, Refused
  <2>3. CASE send'.pc = "done"
    <3>1. NotReported(o, e) /\ \A m \in 1..Len(wire[e]) : ~IsLast(wire[e][m], o)
      BY <2>1, Unfinished
    <3>2. NotReported(o, e)'
      BY <3>1 DEF NotReported, JobStep
    <3>3. Over(o)'
      BY <2>1, <2>3, JobFacts
    <3>4. \A m \in 1..Len(wire'[e]) : ~IsLast(wire'[e][m], o)
      BY <2>3, <3>1 DEF IsLast
    <3> QED
      BY <3>2, <3>3, <3>4 DEF Stopped
  <2> QED
    BY <2>1, <2>2, <2>3
<1> QED
  BY <1>1, <1>2

\* An endpoint the job writes no frame to.
LEMMA SkippedReceived ==
  ASSUME IInv, SentInv, IInv', SentInv', JobStep, NEW e \in Endpoint,
         Received(e), RemoteOf(e), CanceledOf(e), Ends(e), wire'[e] = wire[e],
         \A o \in Payload : written'[<<o, e>>] \in Nat /\ written'[<<o, e>>] >= written[<<o, e>>],
         \A o \in 1..Len(payload) : Ready(o, e)' =>
           Ready(o, e) /\ SoFar' = SoFar /\ written'[<<o, e>>] = written[<<o, e>>]
  PROVE  Received(e)' /\ RemoteOf(e)' /\ CanceledOf(e)'
<1>1. Idles(e)
  BY DEF Idles, JobStep
<1>2. Len(payload) \in Nat /\ payload' = payload
  BY JobFacts DEF JobStep
<1>3. Onward(e)
  BY <1>2, JobFacts DEF Onward
<1>4. \A o \in 1..Len(payload), n \in 1..Len(statusQ') :
        Finishes(statusQ'[n], payload[o].id, e) /\ statusQ'[n].st = "canceled" =>
          Reported(o, e) \/ Dead(o, e) \/ Stopped(o, e)'
  BY EndsReported
<1>5. back'[e] = back[e] /\ UNCHANGED told
  BY DEF JobStep
<1> QED
  BY <1>1, <1>2, <1>3, <1>4, <1>5, OnwardEndpoint

\* The frame that the job writes to the channel of an endpoint.
Sends(o, e, f) ==
  /\ wire'[e] = Append(wire[e], f) /\ f \in Frame /\ f.obj = o /\ f.i = payload[o].id
  /\ f.k # "data" => Over(o)'
  /\ f.k = "data" =>
       /\ f.off = SoFar /\ written'[<<o, e>>] > 0
       /\ f.last => Over(o)' /\ f.off = Chunks(o)
  /\ \A q \in 1..Len(payload) : Ready(q, e)' => IsMore(f, o) /\ SoFar' = SoFar + 1

\* An endpoint the job writes a frame to: the frame continues what was written before.
LEMMA AppendedReceived ==
  ASSUME IInv, SentInv, IInv', SentInv', JobStep, NEW e \in Endpoint, e \notin Remote,
         Received(e), CanceledOf(e), NEW o \in 1..Len(payload), o = send.obj, NextOf(o, e),
         NEW f, Sends(o, e, f),
         \A q \in Payload : written'[<<q, e>>] \in Nat /\ written'[<<q, e>>] >= written[<<q, e>>],
         \A q \in 1..Len(payload), n \in 1..Len(statusQ') :
           Finishes(statusQ'[n], payload[q].id, e) /\ statusQ'[n].st = "canceled" =>
             Reported(q, e) \/ Dead(q, e) \/ Stopped(q, e)'
  PROVE  Received(e)' /\ RemoteOf(e)' /\ CanceledOf(e)'
<1>0. PICK N \in Nat : N = Len(wire[e])
  BY DEF IInv, NetType
<1>1. /\ N \in Nat /\ Len(wire'[e]) = N + 1 /\ wire'[e][N + 1] = f
      /\ \A n \in 1..N : wire'[e][n] = wire[e][n]
      /\ \A n \in 1..(N + 1) : n = N + 1 \/ n \in 1..N
      /\ 1..N \subseteq 1..(N + 1)
  <2>1. wire[e] \in Seq(Frame) /\ wire'[e] = Append(wire[e], f) /\ f \in Frame
    BY DEF IInv, NetType, Sends
  <2>2. /\ N \in Nat /\ Len(wire'[e]) = N + 1 /\ wire'[e][N + 1] = f
        /\ \A n \in 1..N : wire'[e][n] = wire[e][n]
    BY <1>0, <2>1
  <2> QED
    BY <2>2
<1>2. UNCHANGED <<payload, told, back, in, got, rstatusQ, rtold>> /\ Len(payload) \in Nat
  BY JobFacts DEF JobStep
<1>3. \A q \in 1..Len(payload) :
        /\ q \in Payload /\ Chunks(q)' = Chunks(q) /\ (Waiting(q)' <=> Waiting(q))
        /\ (Over(q) => Over(q)') /\ (q = o => ~Over(q) /\ ~Waiting(q))
  BY JobFacts, ObjectNumbers
<1>4. \A q \in 1..Len(payload) : (Fresh(q, e)' <=> Fresh(q, e)) /\ (NotReported(q, e)' <=> NotReported(q, e))
  BY <1>2 DEF Fresh, NotReported
<1>5. ASSUME NEW q \in 1..Len(payload), NEW n \in 0..N, NEW k, Precedes(q, e, n, k) PROVE Precedes(q, e, n, k)'
  <2>1. CASE n = 0
    BY <1>2, <1>5, <2>1 DEF Precedes, Spoiled
  <2>2. CASE n # 0
    <3>1. wire'[e][n] = wire[e][n]
      BY <1>1, <2>2
    <3> QED
      BY <1>5, <2>2, <3>1 DEF Precedes
  <2> QED
    BY <2>1, <2>2
<1>6. \A q \in 1..Len(payload) : NoMore(q, e) => NoMore(q, e)'
  <2> SUFFICES ASSUME NEW q \in 1..Len(payload), NoMore(q, e) PROVE NoMore(q, e)'
    OBVIOUS
  <2>1. q # o /\ Over(q)'
    BY <1>3 DEF NoMore
  <2>2. \A n \in 1..Len(wire'[e]) : ~IsData(wire'[e][n], q)
    BY <1>0, <1>1, <2>1 DEF NoMore, IsData, Sends
  <2> QED
    BY <2>1, <2>2 DEF NoMore
<1>7. IncomingOf(e)'
  BY <1>2 DEF IncomingOf, Received
<1>8. WaitingOf(e)'
  <2> SUFFICES ASSUME NEW q \in 1..Len(payload), Waiting(q) PROVE Unsent(q, e)' /\ Fresh(q, e)'
    BY <1>2, <1>3 DEF WaitingOf
  <2>1. q # o /\ Unsent(q, e) /\ Fresh(q, e)
    BY <1>3 DEF Received, WaitingOf
  <2>2. Unsent(q, e)'
    BY <1>0, <1>1, <2>1 DEF Unsent, Sends
  <2> QED
    BY <1>4, <2>1, <2>2
<1>9. LastOf(e)'
  BY <1>2, <1>3, <1>6 DEF LastOf, Received
<1>10. SuccessOf(e)'
  <2> SUFFICES ASSUME NEW q \in Payload, rtold[<<q, e>>] = "success"
               PROVE  q <= Len(payload) /\ NoMore(q, e)' /\ got[<<q, e>>] = Chunks(q)'
    BY <1>2 DEF SuccessOf
  <2>1. q <= Len(payload) /\ NoMore(q, e) /\ got[<<q, e>>] = Chunks(q)
    BY DEF Received, SuccessOf
  <2>2. q \in 1..Len(payload)
    BY <1>2, <2>1 DEF Payload
  <2> QED
    BY <1>3, <1>6, <2>1, <2>2
<1>11. SoFar \in Nat /\ (\A n \in 1..N : wire[e][n].obj = o => IsMore(wire[e][n], o))
  BY <1>0, JobFacts DEF NextOf
<1>12. ReadyOf(e)'
  <2> SUFFICES ASSUME NEW q \in 1..Len(payload), Ready(q, e)' PROVE NextOf(q, e)'
    BY <1>2 DEF ReadyOf
  <2>1. q = o /\ IsMore(f, o) /\ SoFar' = SoFar + 1 /\ f.off = SoFar
    BY DEF Ready, Sends, IsMore, JobStep
  <2>2. SoFar' > 0 /\ SoFar = SoFar' - 1
    BY <1>11, <2>1
  <2>3. Precedes(o, e, Len(wire[e]), SoFar)'
    <3>1. Len(wire'[e]) # 0 /\ wire'[e][Len(wire'[e])] = f
      BY <1>1
    <3> QED
      BY <2>1, <2>2, <3>1 DEF Precedes
  <2>4. \A n \in 1..Len(wire'[e]) : wire'[e][n].obj = o => IsMore(wire'[e][n], o)
    BY <1>1, <1>11, <2>1
  <2> QED
    BY <2>1, <2>2, <2>3, <2>4 DEF NextOf
<1>13. ASSUME NEW n \in 1..N PROVE FrameOf(e, n, wire[e][n])'
  <2>1. PICK g : g = wire[e][n] /\ FrameOf(e, n, g) /\ g = wire'[e][n]
    BY <1>0, <1>1 DEF Received, FramesOf
  <2>2. PICK q \in 1..Len(payload) : q = g.obj
    BY <2>1 DEF FrameOf
  <2>3. \A m \in 1..(n - 1) : m \in 1..N /\ wire'[e][m] = wire[e][m]
    BY <1>1
  <2>4. g.i = payload[q].id /\ ~Waiting(q)' /\ (g.k # "data" => Over(q)')
    BY <1>3, <2>1, <2>2 DEF FrameOf
  <2>5. \A m \in 1..(n - 1) : wire'[e][m].obj = q => IsMore(wire'[e][m], q)
    BY <2>1, <2>2, <2>3 DEF FrameOf
  <2>6. ASSUME g.k = "data"
        PROVE  /\ written'[<<q, e>>] > 0 /\ g.off >= 0
               /\ g.last => Over(q)' /\ g.off = Chunks(q)'
               /\ g.off = 0 => Fresh(q, e)' /\ \A m \in 1..(n - 1) : wire'[e][m].obj # q
               /\ g.off > 0 => Precedes(q, e, n - 1, g.off)'
    <3>1. /\ written[<<q, e>>] > 0 /\ g.off >= 0
          /\ g.last => Over(q) /\ g.off = Chunks(q)
          /\ g.off = 0 => Fresh(q, e) /\ \A m \in 1..(n - 1) : wire[e][m].obj # q
          /\ g.off > 0 => Precedes(q, e, n - 1, g.off)
      BY <2>1, <2>2, <2>6 DEF FrameOf
    <3>2. written'[<<q, e>>] > 0
      BY <1>3, <3>1, ObjectNumbers
    <3>3. n - 1 \in 0..N
      BY <1>1
    <3> QED
      BY <1>3, <1>4, <1>5, <2>3, <3>1, <3>2, <3>3
  <2>7. FrameOf(e, n, g)'
    BY <1>2, <2>2, <2>4, <2>5, <2>6 DEF FrameOf
  <2> QED
    BY <2>1, <2>7
<1>14. FrameOf(e, N + 1, f)'
  <2>1. \A m \in 1..((N + 1) - 1) : m \in 1..N /\ wire'[e][m] = wire[e][m]
    BY <1>1
  <2>2. \A m \in 1..((N + 1) - 1) : wire'[e][m].obj = o => IsMore(wire'[e][m], o)
    BY <1>11, <2>1
  <2>3. ASSUME f.k = "data"
        PROVE  /\ written'[<<o, e>>] > 0 /\ f.off >= 0
               /\ f.last => Over(o)' /\ f.off = Chunks(o)'
               /\ f.off = 0 => Fresh(o, e)' /\ \A m \in 1..((N + 1) - 1) : wire'[e][m].obj # o
               /\ f.off > 0 => Precedes(o, e, (N + 1) - 1, f.off)'
    <3>1. /\ f.off = SoFar /\ written'[<<o, e>>] > 0
          /\ f.last => Over(o)' /\ f.off = Chunks(o)'
      BY <1>3, <2>3 DEF Sends
    <3>2. f.off = 0 => Fresh(o, e)' /\ \A m \in 1..((N + 1) - 1) : wire'[e][m].obj # o
      BY <1>0, <1>4, <2>1, <3>1 DEF NextOf, Unsent
    <3>3. f.off > 0 => Precedes(o, e, (N + 1) - 1, f.off)'
      <4>1. (N + 1) - 1 = N /\ N \in 0..N
        BY <1>1
      <4>2. f.off > 0 => Precedes(o, e, N, f.off)
        BY <1>0, <3>1 DEF NextOf
      <4> QED
        BY <1>5, <4>1, <4>2
    <3> QED
      BY <1>11, <3>1, <3>2, <3>3
  <2>4. f.obj = o /\ f.i = payload'[o].id /\ ~Waiting(o)' /\ (f.k # "data" => Over(o)')
    BY <1>2, <1>3 DEF Sends
  <2> QED
    BY <1>2, <2>2, <2>3, <2>4 DEF FrameOf
<1>15. FramesOf(e)'
  <2> SUFFICES ASSUME NEW n \in 1..(N + 1) PROVE FrameOf(e, n, wire[e][n])'
    BY <1>1 DEF FramesOf
  <2>1. CASE n \in 1..N
    <3>1. FrameOf(e, n, wire[e][n])'
      BY <1>13, <2>1
    <3> QED
      BY <3>1
  <2>2. CASE n = N + 1
    BY <1>1, <1>14, <2>2
  <2> QED
    BY <1>1, <2>1, <2>2
<1>16. \A q \in 1..Len(payload) : Dead(q, e) => Dead(q, e)'
  <2> SUFFICES ASSUME NEW q \in 1..Len(payload), Dead(q, e) PROVE Dead(q, e)'
    OBVIOUS
  <2>1. written[<<q, e>>] > 0 /\ written'[<<q, e>>] > 0 /\ q \in Payload
    BY <1>3, ObjectNumbers DEF Dead
  <2>2. IsData(f, q) => f.off > 0
    <3> SUFFICES ASSUME IsData(f, q) PROVE f.off > 0
      OBVIOUS
    <3>1. q = o /\ f.off = SoFar
      BY DEF IsData, Sends
    <3>2. SoFar # 0
      BY <2>1, <3>1 DEF NextOf
    <3> QED
      BY <1>11, <3>1, <3>2
  <2>3. \A n \in 1..Len(wire'[e]) : IsData(wire'[e][n], q) => wire'[e][n].off > 0
    BY <1>0, <1>1, <2>2 DEF Dead
  <2> QED
    BY <1>2, <1>4, <2>1, <2>3 DEF Dead
<1>17. \A q \in 1..Len(payload) : Stopped(q, e) => Stopped(q, e)'
  <2> SUFFICES ASSUME NEW q \in 1..Len(payload), Stopped(q, e) PROVE Stopped(q, e)'
    OBVIOUS
  <2>1. q # o /\ Over(q)'
    BY <1>3 DEF Stopped
  <2>2. \A n \in 1..Len(wire'[e]) : ~IsLast(wire'[e][n], q)
    BY <1>0, <1>1, <2>1 DEF Stopped, IsLast, Sends
  <2> QED
    BY <1>4, <2>1, <2>2 DEF Stopped
<1>18. CanceledOf(e)'
  <2>1. ASSUME NEW q \in 1..Len(payload), Refused(q, e)' PROVE Dead(q, e)'
    BY <1>2, <1>16, <2>1 DEF Refused, CanceledOf
  <2>2. ASSUME NEW q \in 1..Len(payload), Reported(q, e)' PROVE Dead(q, e)' \/ Stopped(q, e)'
    <3>1. Reported(q, e) \/ Dead(q, e) \/ Stopped(q, e)'
      BY <1>2, <2>2 DEF Reported
    <3> QED
      BY <1>16, <1>17, <3>1 DEF CanceledOf
  <2> QED
    BY <1>2, <2>1, <2>2 DEF CanceledOf
<1>19. RemoteOf(e)'
  BY DEF RemoteOf
<1> QED
  BY <1>7, <1>8, <1>9, <1>10, <1>12, <1>15, <1>18, <1>19 DEF Received

\* Who gets a frame that is written.
LEMMA WriteAt ==
  ASSUME NEW es, NEW f, Write(es, f), NEW e \in Endpoint
  PROVE  wire'[e] = IF e \in es /\ Up(e) /\ e \notin Remote THEN Append(wire[e], f) ELSE wire[e]
BY DEF Write, Up

\* The jobs in the queue when the running job has gone on.
LEMMA JobQueue ==
  ASSUME IInv, SentInv, QueueInv, JobStep,
         \A n \in 1..Len(statusQ') :
           \/ \E m \in 1..Len(statusQ) : statusQ'[n] = statusQ[m]
           \/ /\ statusQ'[n].k = "finished" => statusQ'[n].i = payload[send.obj].id
              /\ statusQ'[n].k # "disconnect"
  PROVE  QueueInv'
<1> SUFFICES ASSUME NEW n \in 1..Len(statusQ')
             PROVE  /\ statusQ'[n].k = "finished" =>
                         \E o \in 1..Len(payload') : statusQ'[n].i = payload'[o].id /\ ~Waiting(o)'
                    /\ statusQ'[n].k = "disconnect" => link'[statusQ'[n].e] # "up"
  BY DEF QueueInv
<1>1. UNCHANGED <<payload, link>> /\ \A o \in 1..Len(payload) : Waiting(o)' <=> Waiting(o)
  BY JobFacts DEF JobStep
<1>2. CASE \E m \in 1..Len(statusQ) : statusQ'[n] = statusQ[m]
  BY <1>1, <1>2 DEF QueueInv
<1>3. CASE /\ statusQ'[n].k = "finished" => statusQ'[n].i = payload[send.obj].id
           /\ statusQ'[n].k # "disconnect"
  BY <1>1, <1>3, JobFacts
<1> QED
  BY <1>2, <1>3

\* The running job goes on without writing.
LEMMA JobGoesOn ==
  ASSUME IInv, IInv', SentInv, SentInv', ReceivedInv, JobStep, UNCHANGED <<wire, written>>, EpsInv',
         QueueInv', \A e \in Endpoint : Ends(e), SoFar' = SoFar,
         \A o \in 1..Len(payload), e \in Endpoint : Ready(o, e)' => Ready(o, e)
  PROVE  ReceivedInv'
<1>1. ASSUME NEW e \in Endpoint PROVE Received(e)' /\ RemoteOf(e)' /\ CanceledOf(e)'
  <2>1. Received(e) /\ RemoteOf(e) /\ CanceledOf(e)
    BY DEF ReceivedInv
  <2>2. \A o \in Payload : written'[<<o, e>>] \in Nat /\ written'[<<o, e>>] >= written[<<o, e>>]
    BY ObjectNumbers
  <2> QED
    BY <2>1, <2>2, SkippedReceived
<1> QED
  BY <1>1 DEF ReceivedInv

\* The running job ends, with a control frame to some endpoints or without.
LEMMA JobIsDone ==
  ASSUME IInv, IInv', SentInv, SentInv', ReceivedInv, JobStep, UNCHANGED written, send'.pc = "done",
         QueueInv', \A e \in Endpoint : Ends(e), NEW es, NEW event \in {"canceled", "error"},
         UNCHANGED wire \/ SendControl(send.obj, es, event),
         \A e \in Endpoint : e \in es /\ Up(e) /\ e \notin Remote => Ready(send.obj, e)
  PROVE  ReceivedInv'
<1>1. EpsInv' /\ \A o \in 1..Len(payload), e \in Endpoint : ~Ready(o, e)'
  BY DEF EpsInv, Ready, Loops
<1>2. PICK o \in 1..Len(payload) : o = send.obj
  BY JobFacts
<1>3. Over(o)'
  BY <1>2, JobFacts
<1>4. ASSUME NEW e \in Endpoint PROVE Received(e)' /\ RemoteOf(e)' /\ CanceledOf(e)'
  <2>1. Received(e) /\ RemoteOf(e) /\ CanceledOf(e) /\ Ends(e)
    BY DEF ReceivedInv
  <2>2. \A q \in Payload : written'[<<q, e>>] \in Nat /\ written'[<<q, e>>] >= written[<<q, e>>]
    BY ObjectNumbers
  <2>3. CASE wire'[e] = wire[e]
    BY <1>1, <2>1, <2>2, <2>3, SkippedReceived
  <2>4. CASE wire'[e] # wire[e]
    <3> DEFINE f == [k |-> event, i |-> payload[o].id, obj |-> o]
    <3>1. Write(es, f)
      BY <1>2, <2>4 DEF SendControl
    <3> HIDE DEF f
    <3>2. e \in es /\ Up(e) /\ e \notin Remote /\ wire'[e] = Append(wire[e], f)
      BY <2>4, <3>1, WriteAt
    <3>3. f \in Frame /\ f.obj = o /\ f.i = payload[o].id /\ f.k # "data"
      BY ObjectNumbers DEF f, Frame, ControlFrame
    <3>4. Sends(o, e, f)
      BY <1>1, <1>3, <3>2, <3>3 DEF Sends
    <3>5. NextOf(o, e)
      BY <1>2, <2>1, <3>2 DEF Received, ReadyOf
    <3>6. \A n \in 1..Len(wire'[e]) : (\E m \in 1..Len(wire[e]) : wire'[e][n] = wire[e][m]) \/ wire'[e][n] = f
      <4>1. PICK w \in Seq(Frame) : w = wire[e]
        BY DEF IInv, NetType
      <4>2. wire'[e] = Append(w, f) /\ Len(w) \in Nat
        BY <3>2, <4>1
      <4>3. Len(wire'[e]) = Len(w) + 1 /\ wire'[e][Len(w) + 1] = f /\ \A n \in 1..Len(w) : wire'[e][n] = w[n]
        BY <3>3, <4>2
      <4>4. \A n \in 1..Len(wire'[e]) : n = Len(w) + 1 \/ n \in 1..Len(w)
        BY <4>2, <4>3
      <4> QED
        BY <4>1, <4>3, <4>4
    <3>7. \A n \in 1..Len(wire'[e]) :
            (\E m \in 1..Len(wire[e]) : wire'[e][n] = wire[e][m]) \/ wire'[e][n].k # "data" \/ send'.pc # "done"
      BY <3>3, <3>6
    <3>8. \A q \in 1..Len(payload), n \in 1..Len(statusQ') :
            Finishes(statusQ'[n], payload[q].id, e) /\ statusQ'[n].st = "canceled" =>
              Reported(q, e) \/ Dead(q, e) \/ Stopped(q, e)'
      BY <2>1, <3>7, EndsReported
    <3> QED
      BY <1>2, <2>1, <2>2, <3>2, <3>4, <3>5, <3>8, AppendedReceived
  <2> QED
    BY <2>3, <2>4
<1> QED
  BY <1>1, <1>4 DEF ReceivedInv

\* GetEndpoints: the endpoints of the payload, unless the manager shuts down.
LEMMA GetEndpointsReceived ==
  ASSUME IInv, IInv', SentInv, SentInv', ReceivedInv, GetEndpoints PROVE ReceivedInv'
<1>1. /\ send.pc = "loop"
      /\ UNCHANGED <<payload, execQ, statusQ, told, written, link, wire, back, broken, in, got, rstatusQ, rtold>>
  BY DEF GetEndpoints, client, links, channels, receiver
<1>2. send # Idle /\ send \in Running /\ send.obj \in 1..Len(payload)
  BY <1>1, SendingObject
<1>3. \A e \in Endpoint : Ends(e)
  BY <1>1 DEF Ends
<1>4. CASE send' = [send EXCEPT !.pc = "done"]
  <2>1. send' # Idle /\ send'.obj = send.obj /\ send'.pc = "done"
    BY <1>2, <1>4 DEF Idle, Running
  <2>2. JobStep
    BY <1>1, <1>2, <2>1 DEF JobStep, Loops
  <2>3. QueueInv'
    BY <1>1, <2>2, JobQueue DEF ReceivedInv
  <2>4. \A e \in Endpoint : e \in {} /\ Up(e) /\ e \notin Remote => Ready(send.obj, e)
    OBVIOUS
  <2> QED
    BY <1>1, <1>3, <2>1, <2>2, <2>3, <2>4, JobIsDone
<1>5. CASE send' = [send EXCEPT !.pc = "check", !.eps = payload[send.obj].in]
  <2>1. /\ send' # Idle /\ send'.obj = send.obj /\ send'.pc = "check" /\ send'.off = send.off
        /\ send'.eps = payload[send.obj].in /\ send'.lost = send.lost
    BY <1>2, <1>5 DEF Idle, Running
  <2>2. JobStep /\ SoFar' = SoFar
    BY <1>1, <1>2, <2>1 DEF JobStep, Loops, SoFar
  <2>3. QueueInv'
    BY <1>1, <2>2, JobQueue DEF ReceivedInv
  <2>4. PICK o \in 1..Len(payload) : o = send.obj
    BY <1>2
  <2>5. EpsInv'
    <3> SUFFICES ASSUME NEW e \in Endpoint, Up(e)' PROVE Leaves(send.obj, e)'
      BY DEF EpsInv
    <3>1. Leaves(o, e) /\ (Pending(o, e)' <=> Pending(o, e))
      BY <1>1, <2>2, <2>4 DEF ReceivedInv, EpsInv, JobStep, Up, Pending
    <3>2. Leaves(o, e)'
      BY <1>1, <2>1, <2>4, <3>1 DEF Leaves
    <3> QED
      BY <2>1, <2>4, <3>2 DEF Leaves, Pending
  <2>6. \A q \in 1..Len(payload), e \in Endpoint : Ready(q, e)' => Ready(q, e)
    BY <1>1, <1>2, <2>1 DEF Ready, Loops, Up
  <2> QED
    BY <1>1, <1>3, <2>2, <2>3, <2>5, <2>6, JobGoesOn
<1> QED
  BY <1>4, <1>5 DEF GetEndpoints

\* DetachNextChunk: the endpoints stay.
LEMMA DetachNextChunkReceived ==
  ASSUME IInv, IInv', SentInv, SentInv', ReceivedInv, NEW n \in {0, 1}, DetachNextChunk(n) PROVE ReceivedInv'
<1>1. /\ send.pc = "detach"
      /\ UNCHANGED <<payload, execQ, statusQ, told, written, link, wire, back, broken, in, got, rstatusQ, rtold>>
  BY DEF DetachNextChunk, client, links, channels, receiver
<1>2. send # Idle /\ send \in Running /\ send.obj \in 1..Len(payload)
  BY <1>1, SendingObject
<1>3. \A e \in Endpoint : Ends(e)
  BY <1>1 DEF Ends
<1>4. CASE send' = [send EXCEPT !.pc = "done"]
  <2>1. send' # Idle /\ send'.obj = send.obj /\ send'.pc = "done"
    BY <1>2, <1>4 DEF Idle, Running
  <2>2. JobStep
    BY <1>1, <1>2, <2>1 DEF JobStep, Loops
  <2>3. QueueInv'
    BY <1>1, <2>2, JobQueue DEF ReceivedInv
  <2>4. \A e \in Endpoint : e \in {} /\ Up(e) /\ e \notin Remote => Ready(send.obj, e)
    OBVIOUS
  <2> QED
    BY <1>1, <1>3, <2>1, <2>2, <2>3, <2>4, JobIsDone
<1>5. CASE send' = [send EXCEPT !.pc = "write", !.n = n]
  <2>1. /\ send' # Idle /\ send'.obj = send.obj /\ send'.pc = "write" /\ send'.off = send.off
        /\ send'.eps = send.eps /\ send'.lost = send.lost
    BY <1>2, <1>5 DEF Idle, Running
  <2>2. JobStep /\ SoFar' = SoFar
    BY <1>1, <1>2, <2>1 DEF JobStep, Loops, SoFar
  <2>3. QueueInv'
    BY <1>1, <2>2, JobQueue DEF ReceivedInv
  <2>4. PICK o \in 1..Len(payload) : o = send.obj
    BY <1>2
  <2>5. EpsInv'
    <3> SUFFICES ASSUME NEW e \in Endpoint, Up(e)' PROVE Leaves(send.obj, e)'
      BY DEF EpsInv
    <3>1. Leaves(o, e) /\ (Pending(o, e)' <=> Pending(o, e))
      BY <1>1, <2>2, <2>4 DEF ReceivedInv, EpsInv, JobStep, Up, Pending
    <3>2. Leaves(o, e)'
      BY <1>1, <2>1, <2>4, <3>1 DEF Leaves
    <3> QED
      BY <2>1, <2>4, <3>2 DEF Leaves, Pending
  <2>6. \A q \in 1..Len(payload), e \in Endpoint : Ready(q, e)' => Ready(q, e)
    BY <1>1, <1>2, <2>1 DEF Ready, Loops, Up
  <2> QED
    BY <1>1, <1>3, <2>2, <2>3, <2>5, <2>6, JobGoesOn
<1> QED
  BY <1>4, <1>5 DEF DetachNextChunk

\* PayloadGrown: the job ends with an error.
LEMMA PayloadGrownReceived ==
  ASSUME IInv, IInv', SentInv, SentInv', ReceivedInv, PayloadGrown PROVE ReceivedInv'
<1>1. /\ send.pc = "write" /\ send' = [send EXCEPT !.pc = "done"]
      /\ UNCHANGED <<payload, execQ, told, written, link, back, broken, in, got, rstatusQ, rtold>>
      /\ Post(<<Finished(send.obj, send.eps, "failure")>>) /\ SendControl(send.obj, send.eps, "error")
  BY DEF PayloadGrown, client, links, receiver
<1>2. send # Idle /\ send \in Running /\ send.obj \in 1..Len(payload)
  BY <1>1, SendingObject
<1>3. send' # Idle /\ send'.obj = send.obj /\ send'.pc = "done"
  BY <1>1, <1>2 DEF Idle, Running
<1>4. JobStep
  BY <1>1, <1>2, <1>3 DEF JobStep, Loops
<1>5. \A n \in 1..Len(statusQ') :
        \/ \E m \in 1..Len(statusQ) : statusQ'[n] = statusQ[m]
        \/ /\ statusQ'[n].k = "finished" /\ statusQ'[n].i = payload[send.obj].id /\ statusQ'[n].st = "failure"
           /\ statusQ'[n].k # "disconnect"
  <2>1. PICK j : j = Finished(send.obj, send.eps, "failure")
    OBVIOUS
  <2>2. j.k = "finished" /\ j.i = payload[send.obj].id /\ j.st = "failure"
    BY <2>1 DEF Finished
  <2>3. \A n \in 1..Len(statusQ') : (\E m \in 1..Len(statusQ) : statusQ'[n] = statusQ[m]) \/ statusQ'[n] = j
    BY <1>1, <2>1, PostedOne DEF IInv, Core
  <2> QED
    BY <2>2, <2>3
<1>6. QueueInv'
  BY <1>4, <1>5, JobQueue DEF ReceivedInv
<1>7. \A e \in Endpoint : Ends(e)
  BY <1>5 DEF Ends
<1>8. \A e \in Endpoint : e \in send.eps /\ Up(e) /\ e \notin Remote => Ready(send.obj, e)
  BY <1>1, <1>2 DEF Ready, Loops
<1>9. PICK es : es = send.eps
  OBVIOUS
<1> QED
  BY <1>1, <1>3, <1>4, <1>6, <1>7, <1>8, <1>9, JobIsDone

\* EndJob: the job is over already.
LEMMA EndJobReceived ==
  ASSUME IInv, IInv', SentInv, SentInv', ReceivedInv, EndJob PROVE ReceivedInv'
<1>1. /\ send.pc = "done" /\ send' = [send EXCEPT !.pc = "release"]
      /\ UNCHANGED <<payload, execQ, told, written, link, wire, back, broken, in, got, rstatusQ, rtold>>
      /\ Post(<<[k |-> "destroy", i |-> payload[send.obj].id]>>)
  BY DEF EndJob, client, links, channels, receiver
<1>2. send # Idle /\ send \in Running
  BY <1>1, RunningJob DEF IInv
<1>3. send' # Idle /\ send'.obj = send.obj /\ send'.pc = "release"
  BY <1>1, <1>2 DEF Idle, Running
<1>4. \A n \in 1..Len(statusQ') :
        \/ \E m \in 1..Len(statusQ) : statusQ'[n] = statusQ[m]
        \/ statusQ'[n].k = "destroy"
  <2>1. PICK j : j = [k |-> "destroy", i |-> payload[send.obj].id]
    OBVIOUS
  <2>2. j.k = "destroy"
    BY <2>1
  <2>3. \A n \in 1..Len(statusQ') : (\E m \in 1..Len(statusQ) : statusQ'[n] = statusQ[m]) \/ statusQ'[n] = j
    BY <1>1, <2>1, PostedOne DEF IInv, Core
  <2> QED
    BY <2>2, <2>3
<1>5. \A o \in 1..Len(payload) : (Waiting(o)' <=> Waiting(o)) /\ (Over(o) => Over(o)') /\ Chunks(o)' = Chunks(o)
  BY <1>1, <1>3 DEF Waiting, Over, Sending, Chunks
<1>6. QueueInv'
  <2> SUFFICES ASSUME NEW n \in 1..Len(statusQ')
               PROVE  /\ statusQ'[n].k = "finished" =>
                           \E o \in 1..Len(payload) : statusQ'[n].i = payload[o].id /\ ~Waiting(o)'
                      /\ statusQ'[n].k = "disconnect" => link'[statusQ'[n].e] # "up"
    BY <1>1 DEF QueueInv
  <2>1. CASE \E m \in 1..Len(statusQ) : statusQ'[n] = statusQ[m]
    BY <1>1, <1>5, <2>1 DEF ReceivedInv, QueueInv
  <2> QED
    BY <1>4, <2>1
<1>7. EpsInv' /\ \A o, e : ~Ready(o, e)'
  BY <1>3 DEF EpsInv, Ready, Loops
<1>8. ASSUME NEW e \in Endpoint PROVE Received(e)' /\ RemoteOf(e)' /\ CanceledOf(e)'
  <2>1. Received(e) /\ RemoteOf(e) /\ CanceledOf(e)
    BY DEF ReceivedInv
  <2>2. Idles(e)
    BY <1>1, ObjectNumbers DEF Idles
  <2>3. Onward(e)
    BY <1>1, <1>5, <1>7, ObjectNumbers DEF Onward
  <2>4. \A o \in 1..Len(payload), n \in 1..Len(statusQ') :
          Finishes(statusQ'[n], payload[o].id, e) /\ statusQ'[n].st = "canceled" => Reported(o, e)
    BY <1>4 DEF Finishes, Reported
  <2> QED
    BY <1>1, <2>1, <2>2, <2>3, <2>4, OnwardEndpoint
<1> QED
  BY <1>6, <1>7, <1>8 DEF ReceivedInv

\* The jobs for the endpoints that have become unavailable, each with its own status.
EachFinished(js, o, s, gone) ==
  \A n \in 1..Len(js) : \E e \in gone : js[n] = Finished(o, {e}, UpdateStatus(s[e]))

\* Those that CheckEndpoints posts.
LEMMA GoneJobsOf ==
  ASSUME NEW o, NEW s, NEW gone \in SUBSET Endpoint
  PROVE  EachFinished(GoneJobs(o, s, gone), o, s, gone)
<1> DEFINE J == {Finished(o, {e}, UpdateStatus(s[e])) : e \in gone}
           f == [e \in gone |-> Finished(o, {e}, UpdateStatus(s[e]))]
<1>1. IsFiniteSet(gone)
  BY PayloadAssumption, FS_Subset
<1>2. f \in Surjection(gone, J)
  BY DEF Surjection
<1>3. IsFiniteSet(J)
  BY <1>1, <1>2, FS_Surjection
<1>4. \A j \in J : \E e \in gone : j = Finished(o, {e}, UpdateStatus(s[e]))
  OBVIOUS
<1>5. GoneJobs(o, s, gone) = SetToSeq(J)
  BY DEF GoneJobs
<1> HIDE DEF J
<1>6. GoneJobs(o, s, gone) \in Seq(J)
  BY <1>3, <1>5, SetToSeqType
<1>7. \A q \in Seq(J) : \A n \in 1..Len(q) : q[n] \in J
  OBVIOUS
<1> QED
  BY <1>4, <1>6, <1>7 DEF EachFinished

\* A queue to which jobs are posted.
LEMMA PostedSome ==
  ASSUME SenderType, NEW js \in Seq(Job), Post(js)
  PROVE  /\ \A n \in 1..Len(statusQ') :
              \/ \E m \in 1..Len(statusQ) : statusQ'[n] = statusQ[m]
              \/ \E m \in 1..Len(js) : statusQ'[n] = js[m]
<1>1. statusQ \in Seq(Job) /\ statusQ' = statusQ \o js
  BY DEF SenderType, Post
<1>2. /\ Len(statusQ') = Len(statusQ) + Len(js) /\ Len(statusQ) \in Nat /\ Len(js) \in Nat
      /\ \A n \in 1..Len(statusQ') :
           statusQ'[n] = IF n <= Len(statusQ) THEN statusQ[n] ELSE js[n - Len(statusQ)]
  BY <1>1
<1>3. ASSUME NEW n \in 1..Len(statusQ')
      PROVE  \/ \E m \in 1..Len(statusQ) : statusQ'[n] = statusQ[m]
             \/ \E m \in 1..Len(js) : statusQ'[n] = js[m]
  <2>1. CASE n <= Len(statusQ)
    BY <1>2, <2>1
  <2>2. CASE ~(n <= Len(statusQ))
    <3>1. n - Len(statusQ) \in 1..Len(js) /\ statusQ'[n] = js[n - Len(statusQ)]
      BY <1>2, <2>2
    <3> QED
      BY <3>1
  <2> QED
    BY <2>1, <2>2
<1> QED
  BY <1>3

\* CheckEndpoints: an endpoint that is left out has said so, and a payload that is canceled has
\* not been completed.
LEMMA CheckEndpointsReceived ==
  ASSUME IInv, IInv', SentInv, SentInv', ReceivedInv, CheckEndpoints PROVE ReceivedInv'
<1>1. /\ send.pc = "check"
      /\ UNCHANGED <<payload, execQ, told, written, link, back, broken, in, got, rstatusQ, rtold>>
  BY DEF CheckEndpoints, client, links, receiver
<1>2. /\ send # Idle /\ send \in Running /\ send.obj \in 1..Len(payload)
      /\ payload[send.obj].id \in Id /\ send.eps \subseteq Endpoint
      /\ payload[send.obj].resume \in Nat /\ send.off \in Nat
  BY <1>1, SendingObject
<1>3. PICK o \in 1..Len(payload) : o = send.obj
  BY <1>2
<1>4. PICK s, eps, i, resume : s = payload[o].status /\ eps = send.eps /\ i = payload[o].id /\ resume = payload[o].resume
  OBVIOUS
<1> DEFINE gone == {e \in eps : s[e] # "available"}
           avail == eps \ gone
           jobs == GoneJobs(o, s, gone)
           skip == send.off = 0 /\ resume > 0
<1>5. \/ Post(jobs) /\ send' = [send EXCEPT !.pc = "done"] /\ UNCHANGED wire
      \/ \E st \in {"failure", "canceled"}, event \in {"canceled", "error"} :
           /\ Post(Append(jobs, Finished(o, avail, st))) /\ SendControl(o, avail, event)
           /\ send' = [send EXCEPT !.pc = "done"]
      \/ /\ Post(jobs) /\ UNCHANGED wire
         /\ send' = [send EXCEPT !.pc = "detach", !.eps = avail, !.off = IF skip THEN resume ELSE @]
  BY <1>3, <1>4 DEF CheckEndpoints, GoneJobs
<1>6. gone \in SUBSET Endpoint /\ avail \in SUBSET Endpoint /\ payload[o].id = i /\ i \in Id
  BY <1>2, <1>3, <1>4
<1>7. /\ jobs \in Seq(Job)
      /\ \A n \in 1..Len(jobs) :
           /\ jobs[n].k = "finished" /\ jobs[n].i = i
           /\ \A e \in jobs[n].es : s[e] # "available" /\ (jobs[n].st = "canceled" => s[e] = "canceled")
  <2>1. \A e \in gone : s[e] # "available"
    OBVIOUS
  <2> HIDE DEF gone
  <2>2. jobs \in Seq(Job) /\ \A n \in 1..Len(jobs) : \E e \in gone : jobs[n] = Finished(o, {e}, UpdateStatus(s[e]))
    <3>1. payload[o].id \in Id /\ gone \in SUBSET Endpoint
      BY <1>6
    <3>2. GoneJobs(o, s, gone) \in Seq(Job)
      BY <3>1, FinishedJobs
    <3>3. EachFinished(GoneJobs(o, s, gone), o, s, gone)
      BY <3>1, GoneJobsOf
    <3> QED
      BY <3>2, <3>3 DEF EachFinished
  <2> HIDE DEF jobs
  <2>3. ASSUME NEW n \in 1..Len(jobs)
        PROVE  /\ jobs[n].k = "finished" /\ jobs[n].i = i
               /\ \A e \in jobs[n].es : s[e] # "available" /\ (jobs[n].st = "canceled" => s[e] = "canceled")
    <3>1. PICK e \in gone : jobs[n] = Finished(o, {e}, UpdateStatus(s[e]))
      BY <2>2
    <3>2. jobs[n].k = "finished" /\ jobs[n].i = i /\ jobs[n].es = {e} /\ jobs[n].st = UpdateStatus(s[e])
      BY <1>6, <3>1 DEF Finished
    <3>3. UpdateStatus(s[e]) = "canceled" => s[e] = "canceled"
      BY DEF UpdateStatus
    <3> QED
      BY <2>1, <3>2, <3>3
  <2> QED
    BY <2>2, <2>3
<1> HIDE DEF jobs
<1>8. ASSUME Post(jobs)
      PROVE  \A n \in 1..Len(statusQ') :
               \/ \E m \in 1..Len(statusQ) : statusQ'[n] = statusQ[m]
               \/ /\ statusQ'[n].k = "finished" /\ statusQ'[n].i = i
                  /\ \A e \in statusQ'[n].es :
                       s[e] # "available" /\ (statusQ'[n].st = "canceled" => s[e] = "canceled")
  <2>1. \A n \in 1..Len(statusQ') :
          (\E m \in 1..Len(statusQ) : statusQ'[n] = statusQ[m]) \/ (\E m \in 1..Len(jobs) : statusQ'[n] = jobs[m])
    BY <1>7, <1>8, PostedSome DEF IInv, Core
  <2> QED
    BY <1>7, <2>1
<1>9. CASE Post(jobs) /\ send' = [send EXCEPT !.pc = "done"] /\ UNCHANGED wire
  <2>1. send' # Idle /\ send'.obj = send.obj /\ send'.pc = "done"
    BY <1>2, <1>9 DEF Idle, Running
  <2>2. JobStep
    BY <1>1, <1>2, <2>1 DEF JobStep, Loops
  <2>3. QueueInv'
    BY <1>3, <1>6, <1>8, <1>9, <2>2, JobQueue DEF ReceivedInv
  <2>4. \A e \in Endpoint : Ends(e)
    BY <1>3, <1>6, <1>8, <1>9, <2>1 DEF Ends
  <2>5. \A e \in Endpoint : e \in {} /\ Up(e) /\ e \notin Remote => Ready(send.obj, e)
    OBVIOUS
  <2> QED
    BY <1>1, <1>9, <2>1, <2>2, <2>3, <2>4, <2>5, JobIsDone
<1>10. ASSUME NEW st \in {"failure", "canceled"}, NEW event \in {"canceled", "error"},
              Post(Append(jobs, Finished(o, avail, st))), SendControl(o, avail, event),
              send' = [send EXCEPT !.pc = "done"]
       PROVE  ReceivedInv'
  <2>1. send' # Idle /\ send'.obj = send.obj /\ send'.pc = "done"
    BY <1>2, <1>10 DEF Idle, Running
  <2>2. JobStep
    BY <1>1, <1>2, <2>1 DEF JobStep, Loops
  <2>3. PICK j \in Job : j = Finished(o, avail, st) /\ j.k = "finished" /\ j.i = i
    <3> HIDE DEF avail
    <3>1. Finished(o, avail, st) \in Job /\ Finished(o, avail, st).k = "finished" /\ Finished(o, avail, st).i = i
      BY <1>6 DEF Finished, Job, FinishedJob
    <3> QED
      BY <3>1
  <2>4. /\ Append(jobs, j) \in Seq(Job)
        /\ \A n \in 1..Len(Append(jobs, j)) : Append(jobs, j)[n].k = "finished" /\ Append(jobs, j)[n].i = i
    <3>1. jobs \in Seq(Job) /\ Len(jobs) \in Nat
      BY <1>7
    <3>2. /\ Append(jobs, j) \in Seq(Job) /\ Len(Append(jobs, j)) = Len(jobs) + 1
          /\ Append(jobs, j)[Len(jobs) + 1] = j /\ \A n \in 1..Len(jobs) : Append(jobs, j)[n] = jobs[n]
      BY <3>1
    <3>3. \A n \in 1..(Len(jobs) + 1) : n = Len(jobs) + 1 \/ n \in 1..Len(jobs)
      BY <3>1
    <3>4. \A n \in 1..Len(jobs) : jobs[n].k = "finished" /\ jobs[n].i = i
      BY <1>7
    <3> QED
      BY <2>3, <3>2, <3>3, <3>4
  <2>5. Post(Append(jobs, j))
    BY <1>10, <2>3
  <2>6. \A n \in 1..Len(statusQ') :
          \/ \E m \in 1..Len(statusQ) : statusQ'[n] = statusQ[m]
          \/ \E m \in 1..Len(Append(jobs, j)) : statusQ'[n] = Append(jobs, j)[m]
    BY <2>4, <2>5, PostedSome DEF IInv, Core
  <2>7. \A n \in 1..Len(statusQ') :
          \/ \E m \in 1..Len(statusQ) : statusQ'[n] = statusQ[m]
          \/ statusQ'[n].k = "finished" /\ statusQ'[n].i = i
    BY <2>4, <2>6
  <2>8. QueueInv'
    BY <1>3, <1>6, <2>2, <2>7, JobQueue DEF ReceivedInv
  <2>9. \A e \in Endpoint : Ends(e)
    BY <1>3, <1>6, <2>1, <2>7 DEF Ends
  <2>10. \A e \in Endpoint : e \in avail /\ Up(e) /\ e \notin Remote => Ready(send.obj, e)
    BY <1>1, <1>2, <1>3, <1>4 DEF Ready, Loops
  <2>11. SendControl(send.obj, avail, event)
    BY <1>3, <1>10
  <2> HIDE DEF avail
  <2> QED
    BY <1>1, <2>1, <2>2, <2>8, <2>9, <2>10, <2>11, JobIsDone
<1>11. CASE /\ Post(jobs) /\ UNCHANGED wire
            /\ send' = [send EXCEPT !.pc = "detach", !.eps = avail, !.off = IF skip THEN resume ELSE @]
  <2>1. /\ send' # Idle /\ send'.obj = send.obj /\ send'.pc = "detach" /\ send'.eps = avail
        /\ send'.off = IF skip THEN resume ELSE send.off
        /\ send'.lost = send.lost
    BY <1>2, <1>11 DEF Idle, Running
  <2>2. JobStep
    BY <1>1, <1>2, <2>1 DEF JobStep, Loops
  <2>3. SoFar' = SoFar
    <3>1. payload'[send'.obj].resume = resume /\ payload[send.obj].resume = resume /\ resume \in Nat
      BY <1>1, <1>2, <1>3, <1>4, <2>1
    <3> QED
      BY <1>2, <2>1, <3>1 DEF SoFar
  <2>4. QueueInv'
    BY <1>3, <1>6, <1>8, <1>11, <2>2, JobQueue DEF ReceivedInv
  <2>5. \A e \in Endpoint : Ends(e)
    BY <1>3, <1>4, <1>6, <1>8, <1>11 DEF Ends
  <2>6. EpsInv'
    <3> SUFFICES ASSUME NEW e \in Endpoint, Up(e)' PROVE Leaves(send.obj, e)'
      BY DEF EpsInv
    <3>1. Leaves(o, e)
      BY <1>3, <2>2 DEF ReceivedInv, EpsInv, JobStep, Up
    <3>2. Pending(o, e)' => s[e] # "available"
      <4> SUFFICES ASSUME NEW n \in 1..Len(statusQ'), Finishes(statusQ'[n], i, e) PROVE s[e] # "available"
        BY <1>1, <1>6 DEF Pending
      <4>1. CASE \E m \in 1..Len(statusQ) : statusQ'[n] = statusQ[m]
        BY <1>4, <1>6, <3>1, <4>1 DEF Leaves, Pending
      <4>2. CASE \A d \in statusQ'[n].es : s[d] # "available"
        BY <4>2 DEF Finishes
      <4> QED
        BY <1>8, <1>11, <4>1, <4>2
    <3>3. e \in avail => e \in payload[o].in /\ s[e] = "available"
      BY <1>1, <1>4, <3>1 DEF Leaves
    <3>4. e \in payload[o].in /\ s[e] = "available" => e \in avail
      BY <1>1, <1>4, <3>1 DEF Leaves
    <3>5. send.lost # 0 => e \notin avail /\ (e \in payload[o].in => s[e] # "available")
      BY <1>1, <1>4, <3>1 DEF Leaves
    <3> HIDE DEF avail
    <3>6. Leaves(o, e)'
      BY <1>1, <1>4, <2>1, <3>2, <3>3, <3>4, <3>5 DEF Leaves
    <3> QED
      BY <1>3, <2>1, <3>6 DEF Leaves, Pending
  <2>7. \A q \in 1..Len(payload), e \in Endpoint : Ready(q, e)' => Ready(q, e)
    BY <1>1, <1>2, <1>3, <1>4, <2>1 DEF Ready, Loops, Up
  <2> QED
    BY <1>1, <1>11, <2>2, <2>3, <2>4, <2>5, <2>6, <2>7, JobGoesOn
<1> QED
  BY <1>5, <1>9, <1>10, <1>11

\* SendPayloadChunk posts chunks, and one failure of those that could not be written to.
LEMMA ChunksAndFailure ==
  ASSUME IInv, send.pc = "write", NEW failed \in SUBSET Endpoint, SendPayloadChunk(failed)
  PROVE  \A n \in 1..Len(statusQ') :
           \/ \E m \in 1..Len(statusQ) : statusQ'[n] = statusQ[m]
           \/ statusQ'[n].k = "chunk"
           \/ statusQ'[n] = Finished(send.obj, failed, "failure")
<1>1. PICK i, ok, last : i = payload[send.obj].id /\ ok = send.eps \ failed /\ last = (send.n = 0)
  OBVIOUS
<1>2. send.eps \subseteq Endpoint /\ i \in Id
  BY <1>1, RunningJob DEF IInv
<1>3. PICK fin : fin = Finished(send.obj, failed, "failure")
  OBVIOUS
<1>4. PICK lost : lost = IF failed = {} THEN <<>> ELSE <<fin>>
  OBVIOUS
<1>5. PICK done : done = DoneJobs(i, ok, last)
  OBVIOUS
<1>6. ok \in SUBSET Endpoint /\ last \in BOOLEAN
  BY <1>1, <1>2
<1>7. done \in Seq(Job) /\ \A n \in 1..Len(done) : done[n].k = "chunk"
  BY <1>2, <1>5, <1>6, ChunkJobs
<1>8. fin \in Job
  BY <1>1, <1>2, <1>3 DEF Finished, Job, FinishedJob
<1>9. lost \in Seq(Job) /\ \A n \in 1..Len(lost) : lost[n] = fin
  BY <1>4, <1>8
<1>10. Post(lost \o done)
  BY <1>1, <1>3, <1>4, <1>5 DEF SendPayloadChunk, DoneJobs
<1>11. PICK js : js = lost \o done
  OBVIOUS
<1>12. js \in Seq(Job)
  BY <1>7, <1>9, <1>11
<1>13. /\ Len(js) = Len(lost) + Len(done) /\ Len(lost) \in Nat /\ Len(done) \in Nat
       /\ \A n \in 1..Len(js) : js[n] = IF n <= Len(lost) THEN lost[n] ELSE done[n - Len(lost)]
  BY <1>7, <1>9, <1>11
<1>14. \A n \in 1..Len(js) : js[n] = fin \/ js[n].k = "chunk"
  <2> SUFFICES ASSUME NEW n \in 1..Len(js) PROVE js[n] = fin \/ js[n].k = "chunk"
    OBVIOUS
  <2>1. n <= Len(lost) => n \in 1..Len(lost)
    BY <1>13
  <2>2. ~(n <= Len(lost)) => n - Len(lost) \in 1..Len(done)
    BY <1>13
  <2> QED
    BY <1>7, <1>9, <1>13, <2>1, <2>2
<1>15. \A n \in 1..Len(statusQ') :
         (\E m \in 1..Len(statusQ) : statusQ'[n] = statusQ[m]) \/ (\E m \in 1..Len(js) : statusQ'[n] = js[m])
  BY <1>10, <1>11, <1>12, PostedSome DEF IInv, Core
<1> QED
  BY <1>3, <1>14, <1>15

\* SendPayloadChunk: every endpoint whose channel works and that is still to get the payload
\* gets the chunk.
LEMMA SendPayloadChunkReceived ==
  ASSUME IInv, IInv', SentInv, SentInv', ReceivedInv, NEW failed \in SUBSET Endpoint,
         SendPayloadChunk(failed)
  PROVE  ReceivedInv'
<1>1. /\ send.pc = "write"
      /\ UNCHANGED <<payload, execQ, told, link, back, broken, in, got, rstatusQ, rtold>>
      /\ failed \subseteq {e \in send.eps : link[e] # "up" \/ e \in broken}
  BY DEF SendPayloadChunk, links, receiver
<1>2. /\ send # Idle /\ send \in Running /\ send.obj \in 1..Len(payload)
      /\ payload[send.obj].len \in Nat /\ payload[send.obj].resume \in Nat
      /\ send.off \in Nat /\ send.lost \in Nat /\ send.n \in {0, 1} /\ send.eps \subseteq Endpoint
  BY <1>1, SendingObject
<1>3. PICK o \in 1..Len(payload) : o = send.obj
  BY <1>2
<1>4. PICK ok, last, i : ok = send.eps \ failed /\ last = (send.n = 0) /\ i = payload[o].id
  OBVIOUS
<1>5. /\ written' = [t \in Transfer |-> IF t \in {o} \X ok THEN written[t] + 1 ELSE written[t]]
      /\ send' = IF ok = {} THEN [send EXCEPT !.pc = "loop", !.lost = @ + send.n]
                 ELSE [send EXCEPT !.pc = IF send.n = 0 THEN "done" ELSE "loop", !.off = @ + send.n]
  BY <1>3, <1>4 DEF SendPayloadChunk
<1>6. PICK f : f = [k |-> "data", i |-> i, obj |-> o, off |-> send.off - payload[o].resume, last |-> last]
  OBVIOUS
<1>7. Write(ok, f)
  BY <1>3, <1>4, <1>6 DEF SendPayloadChunk
<1>8. /\ send' # Idle /\ send'.obj = o
      /\ send'.pc = IF ok # {} /\ send.n = 0 THEN "done" ELSE "loop"
      /\ send'.off = IF ok = {} THEN send.off ELSE send.off + send.n
      /\ send'.lost = IF ok = {} THEN send.lost + send.n ELSE send.lost
  BY <1>2, <1>3, <1>5 DEF Idle, Running
<1>9. JobStep
  BY <1>1, <1>2, <1>3, <1>8 DEF JobStep, Loops
<1>10. /\ payload[o].resume <= send.off /\ send.off <= payload[o].len
       /\ send.n = 0 => send.off + send.lost = payload[o].len \/ payload[o].in = {}
       /\ SoFar = send.off - payload[o].resume
  <2>1. SendingInv
    BY DEF SentInv
  <2>2. /\ payload[o].resume <= send.off /\ send.off <= payload[o].len
        /\ send.n = 0 => send.off + send.lost = payload[o].len \/ payload[o].in = {}
    BY <1>1, <1>2, <1>3, <2>1 DEF SendingInv
  <2>3. SoFar = send.off - payload[o].resume
    BY <1>2, <1>3, <2>2 DEF SoFar
  <2> QED
    BY <2>2, <2>3
<1>11. \A n \in 1..Len(statusQ') :
         \/ \E m \in 1..Len(statusQ) : statusQ'[n] = statusQ[m]
         \/ statusQ'[n].k = "chunk"
         \/ statusQ'[n] = Finished(o, failed, "failure")
  BY <1>1, <1>3, ChunksAndFailure
<1>12. \A j : j = Finished(o, failed, "failure") => j.k = "finished" /\ j.i = i /\ j.es = failed /\ j.st = "failure"
  BY <1>4 DEF Finished
<1>13. QueueInv'
  BY <1>3, <1>4, <1>9, <1>11, <1>12, JobQueue DEF ReceivedInv
<1>14. ASSUME NEW e \in Endpoint, Up(e)
       PROVE  /\ Leaves(o, e) /\ (Pending(o, e)' => Pending(o, e)) /\ e \notin failed
              /\ e \in ok => e \in payload[o].in /\ send.lost = 0
  <2>1. Leaves(o, e)
    BY <1>3, <1>9, <1>14 DEF ReceivedInv, EpsInv, JobStep
  <2>2. e \notin failed
    BY <1>1, <1>14 DEF Up
  <2>3. Pending(o, e)' => Pending(o, e)
    BY <1>1, <1>4, <1>11, <1>12, <2>2 DEF Pending, Finishes
  <2> QED
    BY <1>1, <1>4, <2>1, <2>2, <2>3 DEF Leaves
<1>15. EpsInv'
  <2> SUFFICES ASSUME NEW e \in Endpoint, Up(e)', Loops' PROVE Leaves(send.obj, e)'
    BY DEF EpsInv
  <2>1. Leaves(o, e) /\ (Pending(o, e)' => Pending(o, e))
    BY <1>1, <1>14 DEF Up
  <2>2. send'.pc = "loop"
    BY <1>8 DEF Loops
  <2>3. ASSUME e \in payload[o].in, payload[o].status[e] = "available" PROVE send'.lost = 0
    <3>1. send.lost = 0 /\ e \in send.eps
      BY <1>1, <2>1, <2>3 DEF Leaves
    <3>2. e \in ok
      BY <1>1, <1>4, <1>14, <3>1 DEF Up
    <3> QED
      BY <1>8, <3>1, <3>2
  <2>4. Leaves(o, e)'
    BY <1>1, <2>1, <2>2, <2>3 DEF Leaves
  <2> QED
    BY <1>3, <1>8, <2>4 DEF Leaves, Pending
<1>16. /\ \A q \in Payload, e \in Endpoint :
            written'[<<q, e>>] \in Nat /\ written'[<<q, e>>] >= written[<<q, e>>]
       /\ \A e \in Endpoint : e \in ok => written'[<<o, e>>] > 0
  <2>1. \A q \in Payload, e \in Endpoint : <<q, e>> \in Transfer /\ written[<<q, e>>] \in Nat
    BY ObjectNumbers
  <2>2. \A q \in Payload, e \in Endpoint :
          written'[<<q, e>>] = IF <<q, e>> \in {o} \X ok THEN written[<<q, e>>] + 1 ELSE written[<<q, e>>]
    BY <1>5, <2>1
  <2>3. o \in Payload
    BY ObjectNumbers
  <2> QED
    BY <2>1, <2>2, <2>3
<1>17. ASSUME NEW e \in Endpoint PROVE Received(e)' /\ RemoteOf(e)' /\ CanceledOf(e)'
  <2>1. Received(e) /\ RemoteOf(e) /\ CanceledOf(e)
    BY DEF ReceivedInv
  <2>2. Ends(e)
    BY <1>3, <1>4, <1>11, <1>12 DEF Ends
  <2>3. wire'[e] = IF e \in ok /\ Up(e) /\ e \notin Remote THEN Append(wire[e], f) ELSE wire[e]
    BY <1>7, WriteAt
  <2>4. ASSUME NEW q \in 1..Len(payload), Ready(q, e)'
        PROVE  e \in ok /\ Up(e) /\ e \notin Remote /\ send.n = 1
    <3>1. /\ Up(e) /\ e \notin Remote /\ q = o /\ send'.pc = "loop"
          /\ e \in payload[o].in /\ payload[o].status[e] = "available"
      BY <1>1, <1>8, <2>4 DEF Ready, Loops, Up
    <3>2. e \in send.eps /\ e \notin failed
      BY <1>1, <1>14, <3>1 DEF Leaves
    <3> QED
      BY <1>2, <1>4, <1>8, <3>1, <3>2
  <2>5. CASE ~(e \in ok /\ Up(e) /\ e \notin Remote)
    <3>1. wire'[e] = wire[e] /\ \A q \in 1..Len(payload) : ~Ready(q, e)'
      BY <2>3, <2>4, <2>5
    <3> QED
      BY <1>9, <1>16, <2>1, <2>2, <3>1, SkippedReceived
  <2>6. CASE e \in ok /\ Up(e) /\ e \notin Remote
    <3>1. f.k = "data" /\ f.i = payload[o].id /\ f.obj = o /\ f.off = SoFar /\ f.last = last
      BY <1>4, <1>6, <1>10
    <3>2. f \in Frame
      <4>1. o \in Payload /\ payload[o].id \in Id
        BY ObjectNumbers
      <4>2. send.off - payload[o].resume \in Nat
        BY <1>2, <1>3, <1>10
      <4> QED
        BY <1>4, <1>6, <4>1, <4>2 DEF Frame, DataFrame
    <3>3. f.last => Over(o)' /\ f.off = Chunks(o)
      <4> SUFFICES ASSUME f.last PROVE Over(o)' /\ f.off = Chunks(o)
        OBVIOUS
      <4>1. send.n = 0 /\ send'.pc = "done"
        BY <1>4, <1>8, <2>6, <3>1
      <4>2. Over(o)'
        BY <1>3, <1>9, <4>1, JobFacts
      <4>3. send.off = payload[o].len
        BY <1>2, <1>10, <1>14, <2>6, <4>1
      <4> QED
        BY <1>10, <3>1, <4>2, <4>3 DEF Chunks
    <3>4. ASSUME NEW q \in 1..Len(payload), Ready(q, e)' PROVE IsMore(f, o) /\ SoFar' = SoFar + 1
      <4>1. send.n = 1 /\ send'.off = send.off + 1
        BY <1>8, <2>4, <2>6, <3>4
      <4>2. ~f.last
        <5>1. f.last => send.n = 0
          BY <1>4, <3>1
        <5> QED
          BY <4>1, <5>1
      <4>3. SoFar' = (send.off + 1) - payload[o].resume
        <5>1. payload'[send'.obj].resume = payload[o].resume /\ send'.off # 0
          BY <1>1, <1>2, <1>8, <4>1
        <5>2. SoFar' = send'.off - payload'[send'.obj].resume
          BY <5>1 DEF SoFar
        <5> QED
          BY <4>1, <5>1, <5>2
      <4>4. SoFar' = SoFar + 1
        BY <1>2, <1>3, <1>10, <4>3
      <4> QED
        BY <3>1, <4>2, <4>4 DEF IsMore
    <3>5. Sends(o, e, f)
      BY <1>16, <2>3, <2>6, <3>1, <3>2, <3>3, <3>4 DEF Sends
    <3>6. Ready(o, e)
      BY <1>1, <1>2, <1>3, <1>4, <2>6 DEF Ready, Loops
    <3>7. NextOf(o, e)
      BY <2>1, <3>6 DEF Received, ReadyOf
    <3>8. \A q \in 1..Len(payload), n \in 1..Len(statusQ') :
            Finishes(statusQ'[n], payload[q].id, e) /\ statusQ'[n].st = "canceled" => Reported(q, e)
      BY <1>11, <1>12 DEF Finishes, Reported
    <3> QED
      BY <1>3, <1>9, <1>16, <2>1, <2>6, <3>5, <3>7, <3>8, AppendedReceived
  <2> QED
    BY <2>5, <2>6
<1> QED
  BY <1>13, <1>15, <1>17 DEF ReceivedInv

-----------------------------------------------------------------------------
(* Steps of a receiver.                                                    *)

\* The sender does nothing; a channel may break.
SenderStill ==
  UNCHANGED <<payload, execQ, send, statusQ, told, written, link>> /\ broken \subseteq broken'

\* What is said of the sender then.
LEMMA StillFacts ==
  ASSUME SenderStill
  PROVE  /\ SoFar' = SoFar
         /\ \A o : /\ (Waiting(o)' <=> Waiting(o)) /\ (Over(o)' <=> Over(o)) /\ Chunks(o)' = Chunks(o)
                   /\ \A e : Ready(o, e)' => Ready(o, e)
                   /\ \A e : (Pending(o, e)' <=> Pending(o, e)) /\ (Reported(o, e)' <=> Reported(o, e))
<1>1. UNCHANGED <<payload, execQ, send, statusQ, told, written, link>> /\ broken \subseteq broken'
  BY DEF SenderStill
<1>2. SoFar' = SoFar
  BY <1>1 DEF SoFar
<1>3. \A o : (Waiting(o)' <=> Waiting(o)) /\ (Over(o)' <=> Over(o)) /\ Chunks(o)' = Chunks(o)
  BY <1>1 DEF Waiting, Over, Sending, Chunks
<1>4. \A o, e : Ready(o, e)' => Ready(o, e)
  BY <1>1 DEF Ready, Loops, Up
<1>5. \A o, e : (Pending(o, e)' <=> Pending(o, e)) /\ (Reported(o, e)' <=> Reported(o, e))
  BY <1>1 DEF Pending, Reported
<1> QED
  BY <1>2, <1>3, <1>4, <1>5

\* The sender's part of the invariant.
LEMMA StillSender == ASSUME ReceivedInv, SenderStill PROVE QueueInv' /\ EpsInv'
<1>1. UNCHANGED <<payload, execQ, send, statusQ, told, written, link>> /\ broken \subseteq broken'
  BY DEF SenderStill
<1>2. QueueInv'
  BY <1>1 DEF ReceivedInv, QueueInv, Waiting
<1>3. EpsInv'
  <2> SUFFICES ASSUME Loops, NEW e \in Endpoint, Up(e)' PROVE Leaves(send.obj, e)'
    BY <1>1 DEF EpsInv, Loops
  <2>1. Leaves(send.obj, e)
    BY <1>1 DEF ReceivedInv, EpsInv, Up
  <2> QED
    BY <1>1, <2>1 DEF Leaves, Pending
<1> QED
  BY <1>2, <1>3

\* The other receivers.
LEMMA StillElsewhere ==
  ASSUME IInv, SentInv, IInv', SentInv', ReceivedInv, SenderStill, NEW e \in Endpoint,
         wire'[e] = wire[e], back'[e] = back[e], in'[e] = in[e], rstatusQ'[e] = rstatusQ[e],
         \A o \in Payload : got'[<<o, e>>] = got[<<o, e>>] /\ rtold'[<<o, e>>] = rtold[<<o, e>>]
  PROVE  Received(e)' /\ RemoteOf(e)' /\ CanceledOf(e)'
<1>1. Received(e) /\ RemoteOf(e) /\ CanceledOf(e)
  BY DEF ReceivedInv
<1>2. UNCHANGED <<payload, execQ, send, statusQ, told, written, link>>
  BY DEF SenderStill
<1>3. Idles(e)
  BY <1>2, ObjectNumbers DEF Idles
<1>4. Len(payload) \in Nat
  BY ObjectNumbers
<1>5. Onward(e)
  <2>1. Len(payload) <= Len(payload')
    BY <1>2, <1>4
  <2>2. \A o \in 1..Len(payload) :
          /\ payload'[o].id = payload[o].id /\ Chunks(o)' = Chunks(o)
          /\ Over(o) => Over(o)'
          /\ Waiting(o)' => Waiting(o)
    BY <1>2, StillFacts
  <2>3. ASSUME NEW o \in 1..Len(payload'), Ready(o, e)'
        PROVE  /\ o <= Len(payload) /\ written'[<<o, e>>] = written[<<o, e>>]
               /\ Ready(o, e) /\ SoFar' = SoFar
    <3>1. o <= Len(payload)
      BY <1>2, <1>4
    <3>2. written'[<<o, e>>] = written[<<o, e>>]
      BY <1>2
    <3>3. Ready(o, e) /\ SoFar' = SoFar
      BY <2>3, StillFacts
    <3> QED
      BY <3>1, <3>2, <3>3
  <2> QED
    BY <2>1, <2>2, <2>3 DEF Onward
<1>6. \A o \in 1..Len(payload), n \in 1..Len(statusQ') :
        Finishes(statusQ'[n], payload[o].id, e) /\ statusQ'[n].st = "canceled" => Reported(o, e)
  BY <1>2 DEF Reported
<1> QED
  BY <1>1, <1>2, <1>3, <1>5, <1>6, OnwardEndpoint

\* The jobs of a receiver's queue are those it had; no job that ends a payload it still has was
\* taken away before a last chunk.
KeepsJobs(e, q, r) ==
  \A n \in 1..Len(r) :
    /\ r[n].k # "disconnect" => \E m \in 1..Len(q) : r[n] = q[m]
    /\ \A i \in Id : RLast(r[n], i) =>
         \E m \in 1..Len(q) :
           /\ RLast(q[m], i)
           /\ in'[e][i].on /\ (\A l \in 1..(n - 1) : ~REnds(r[l], i)) => \A l \in 1..(m - 1) : ~REnds(q[l], i)

\* A receiver handles a job, is canceled or loses its channel: it gets no further with any
\* payload, and reports a success only for a last chunk at the head of its queue.
Fades(e) ==
  /\ back'[e] = back[e] /\ Len(wire'[e]) \in Nat /\ Len(wire'[e]) <= Len(wire[e])
  /\ \A n \in 1..Len(wire'[e]) : wire'[e][n] = wire[e][n]
  /\ Len(wire'[e]) # Len(wire[e]) => ~Up(e)'
  /\ \A o \in Payload : got'[<<o, e>>] = got[<<o, e>>]
  /\ \A i \in Id :
       /\ in'[e][i].on => in[e][i].on /\ in'[e][i].obj = in[e][i].obj
       /\ in'[e][i].on /\ in[e][i].canceled => in'[e][i].canceled
       /\ Spoiled(e, i) => Spoiled(e, i)'
  /\ KeepsJobs(e, rstatusQ[e], rstatusQ'[e])
  /\ \A o \in Payload : rtold'[<<o, e>>] = "success" =>
       \/ rtold[<<o, e>>] = "success"
       \/ /\ o \in 1..Len(payload) /\ in[e][payload[o].id].on
          /\ 1 \in 1..Len(rstatusQ[e]) /\ RLast(rstatusQ[e][1], payload[o].id)

\* What such a receiver has stays true.
LEMMA FadesReceived ==
  ASSUME IInv, SentInv, IInv', SentInv', ReceivedInv, SenderStill, NEW e \in Endpoint, e \notin Remote, Fades(e)
  PROVE  Received(e)' /\ RemoteOf(e)' /\ CanceledOf(e)'
<1>1. Received(e) /\ CanceledOf(e)
  BY DEF ReceivedInv
<1>2. UNCHANGED <<payload, execQ, send, statusQ, told, written, link>> /\ Len(payload) \in Nat
  BY ObjectNumbers DEF SenderStill
<1>3. \A o \in 1..Len(payload) : o \in Payload /\ payload[o].id \in Id
  BY ObjectNumbers
<1>4. PICK M, N \in Nat :
        /\ M = Len(wire'[e]) /\ N = Len(wire[e]) /\ M <= N
        /\ \A n \in 1..M : n \in 1..N /\ wire'[e][n] = wire[e][n]
        /\ M # N => ~Up(e)'
  BY DEF Fades, IInv, NetType
<1>5. \A o \in 1..Len(payload) :
        /\ Fresh(o, e) => Fresh(o, e)'
        /\ Unsent(o, e) => Unsent(o, e)'
        /\ NoMore(o, e) => NoMore(o, e)'
        /\ NotReported(o, e) => NotReported(o, e)'
  <2> SUFFICES ASSUME NEW o \in 1..Len(payload)
               PROVE  /\ Fresh(o, e) => Fresh(o, e)'
                      /\ Unsent(o, e) => Unsent(o, e)'
                      /\ NoMore(o, e) => NoMore(o, e)'
                      /\ NotReported(o, e) => NotReported(o, e)'
    OBVIOUS
  <2>1. PICK i \in Id : i = payload[o].id /\ i = payload'[o].id
    BY <1>2, <1>3
  <2>2. Fresh(o, e) => Fresh(o, e)'
    <3> SUFFICES ASSUME Fresh(o, e) PROVE Fresh(o, e)'
      OBVIOUS
    <3>1. ~in'[e][i].on /\ got'[<<o, e>>] = 0
      BY <1>3, <2>1 DEF Fresh, Fades
    <3>2. \A n \in 1..Len(rstatusQ'[e]) : rstatusQ'[e][n].k # "disconnect" => rstatusQ'[e][n].i # i
      BY <2>1 DEF Fresh, Fades, KeepsJobs
    <3> QED
      BY <2>1, <3>1, <3>2 DEF Fresh
  <2>3. (Unsent(o, e) => Unsent(o, e)') /\ (NoMore(o, e) => NoMore(o, e)')
    BY <1>4, StillFacts DEF Unsent, NoMore
  <2>4. NotReported(o, e) => NotReported(o, e)'
    <3> SUFFICES ASSUME NotReported(o, e) PROVE NotReported(o, e)'
      OBVIOUS
    <3>1. rtold'[<<o, e>>] # "success"
      BY <1>3 DEF NotReported, Fades
    <3>2. \A n \in 1..Len(rstatusQ'[e]) : ~RLast(rstatusQ'[e][n], i)
      BY <2>1 DEF NotReported, Fades, KeepsJobs
    <3> QED
      BY <2>1, <3>1, <3>2 DEF NotReported
  <2> QED
    BY <2>2, <2>3, <2>4
<1>6. ASSUME NEW o \in 1..Len(payload), NEW n \in 0..M, NEW k, Precedes(o, e, n, k) PROVE Precedes(o, e, n, k)'
  <2>1. PICK i \in Id : i = payload[o].id /\ i = payload'[o].id
    BY <1>2, <1>3
  <2>2. CASE n = 0
    BY <1>3, <1>6, <2>1, <2>2 DEF Precedes, Fades
  <2>3. CASE n # 0
    <3>1. wire'[e][n] = wire[e][n]
      BY <1>4, <2>3
    <3> QED
      BY <1>6, <2>3, <3>1 DEF Precedes
  <2> QED
    BY <2>2, <2>3
<1>7. IncomingOf(e)'
  <2>1. IncomingOf(e)
    BY <1>1 DEF Received
  <2>2. \A i \in Id : in'[e][i].on => in'[e][i].obj \in 1..Len(payload) /\ payload[in'[e][i].obj].id = i
    BY <2>1 DEF IncomingOf, Fades
  <2>3. \A n \in 1..Len(rstatusQ'[e]) : rstatusQ'[e][n].k # "disconnect" =>
          \E o \in 1..Len(payload) : rstatusQ'[e][n].i = payload[o].id
    <3> SUFFICES ASSUME NEW n \in 1..Len(rstatusQ'[e]), rstatusQ'[e][n].k # "disconnect"
                 PROVE  \E o \in 1..Len(payload) : rstatusQ'[e][n].i = payload[o].id
      OBVIOUS
    <3>1. PICK m \in 1..Len(rstatusQ[e]) : rstatusQ'[e][n] = rstatusQ[e][m]
      BY DEF Fades, KeepsJobs
    <3> QED
      BY <2>1, <3>1 DEF IncomingOf
  <2>4. \A o \in Payload : got'[<<o, e>>] \in Nat /\ (o > Len(payload) => got'[<<o, e>>] = 0)
    BY <2>1 DEF IncomingOf, Fades
  <2> QED
    BY <1>2, <2>2, <2>3, <2>4 DEF IncomingOf
<1>8. FramesOf(e)'
  <2> SUFFICES ASSUME NEW n \in 1..M PROVE FrameOf(e, n, wire[e][n])'
    BY <1>4 DEF FramesOf
  <2>1. PICK f : f = wire[e][n] /\ FrameOf(e, n, f) /\ f = wire'[e][n]
    BY <1>1, <1>4 DEF Received, FramesOf
  <2>2. PICK o \in 1..Len(payload) : o = f.obj
    BY <2>1 DEF FrameOf
  <2>3. n - 1 \in 0..M /\ \A m \in 1..(n - 1) : m \in 1..M /\ wire'[e][m] = wire[e][m]
    BY <1>4
  <2>4. f.i = payload[o].id /\ ~Waiting(o)' /\ (f.k # "data" => Over(o)')
    BY <2>1, <2>2, StillFacts DEF FrameOf
  <2>5. \A m \in 1..(n - 1) : wire'[e][m].obj = o => IsMore(wire'[e][m], o)
    BY <2>1, <2>2, <2>3 DEF FrameOf
  <2>6. ASSUME f.k = "data"
        PROVE  /\ written'[<<o, e>>] > 0 /\ f.off >= 0
               /\ f.last => Over(o)' /\ f.off = Chunks(o)'
               /\ f.off = 0 => Fresh(o, e)' /\ \A m \in 1..(n - 1) : wire'[e][m].obj # o
               /\ f.off > 0 => Precedes(o, e, n - 1, f.off)'
    <3>1. /\ written[<<o, e>>] > 0 /\ f.off >= 0
          /\ f.last => Over(o) /\ f.off = Chunks(o)
          /\ f.off = 0 => Fresh(o, e) /\ \A m \in 1..(n - 1) : wire[e][m].obj # o
          /\ f.off > 0 => Precedes(o, e, n - 1, f.off)
      BY <2>1, <2>2, <2>6 DEF FrameOf
    <3> QED
      BY <1>2, <1>5, <1>6, <2>3, <3>1, StillFacts
  <2>7. FrameOf(e, n, f)'
    BY <1>2, <2>2, <2>4, <2>5, <2>6 DEF FrameOf
  <2> QED
    BY <2>1, <2>7
<1>9. WaitingOf(e)'
  BY <1>1, <1>2, <1>5, StillFacts DEF Received, WaitingOf
<1>10. ReadyOf(e)'
  <2> SUFFICES ASSUME NEW o \in 1..Len(payload), Ready(o, e)' PROVE NextOf(o, e)'
    BY <1>2 DEF ReadyOf
  <2>1. Ready(o, e) /\ Up(e)' /\ SoFar' = SoFar
    BY StillFacts DEF Ready
  <2>2. NextOf(o, e) /\ M = N
    BY <1>1, <1>4, <2>1 DEF Received, ReadyOf
  <2>3. SoFar > 0 => Precedes(o, e, M, SoFar)
    BY <1>4, <2>2 DEF NextOf
  <2>4. SoFar' > 0 => Precedes(o, e, Len(wire[e]), SoFar)'
    <3>1. PICK k : k = SoFar /\ k = SoFar'
      BY <2>1
    <3>2. k > 0 => Precedes(o, e, M, k)'
      BY <1>6, <2>3, <3>1
    <3> QED
      BY <1>4, <3>1, <3>2 DEF Precedes, Spoiled
  <2>5. SoFar' = 0 => written'[<<o, e>>] = 0 /\ Unsent(o, e)' /\ Fresh(o, e)'
    BY <1>2, <1>5, <2>1, <2>2 DEF NextOf
  <2>6. \A n \in 1..Len(wire'[e]) : wire'[e][n].obj = o => IsMore(wire'[e][n], o)
    BY <1>4, <2>2 DEF NextOf
  <2> QED
    BY <2>4, <2>5, <2>6 DEF NextOf
<1>11. LastOf(e)'
  <2> SUFFICES ASSUME NEW o \in 1..Len(payload), NEW n \in 1..Len(rstatusQ'[e]),
                      RLast(rstatusQ'[e][n], payload'[o].id)
               PROVE  /\ NoMore(o, e)'
                      /\ in'[e][payload'[o].id].on
                           /\ (\A m \in 1..(n - 1) : ~REnds(rstatusQ'[e][m], payload'[o].id))
                         => got'[<<o, e>>] = Chunks(o)'
    BY <1>2 DEF LastOf
  <2>1. PICK i \in Id : i = payload[o].id /\ i = payload'[o].id
    BY <1>2, <1>3
  <2>2. PICK m \in 1..Len(rstatusQ[e]) :
          /\ RLast(rstatusQ[e][m], i)
          /\ in'[e][i].on /\ (\A l \in 1..(n - 1) : ~REnds(rstatusQ'[e][l], i)) =>
               \A l \in 1..(m - 1) : ~REnds(rstatusQ[e][l], i)
    <3>1. PICK u, r : u = rstatusQ[e] /\ r = rstatusQ'[e] /\ KeepsJobs(e, u, r)
      BY DEF Fades
    <3>2. n \in 1..Len(r) /\ RLast(r[n], i)
      BY <2>1, <3>1
    <3>3. \E m \in 1..Len(u) :
            /\ RLast(u[m], i)
            /\ in'[e][i].on /\ (\A l \in 1..(n - 1) : ~REnds(r[l], i)) => \A l \in 1..(m - 1) : ~REnds(u[l], i)
      BY <3>1, <3>2 DEF KeepsJobs
    <3> QED
      BY <3>1, <3>3
  <2>3. NoMore(o, e) /\ (in[e][i].on /\ (\A l \in 1..(m - 1) : ~REnds(rstatusQ[e][l], i)) => got[<<o, e>>] = Chunks(o))
    BY <1>1, <2>1, <2>2 DEF Received, LastOf
  <2>4. Chunks(o)' = Chunks(o) /\ got'[<<o, e>>] = got[<<o, e>>] /\ (in'[e][i].on => in[e][i].on)
    BY <1>3, StillFacts DEF Fades
  <2> QED
    BY <1>5, <2>1, <2>2, <2>3, <2>4
<1>12. SuccessOf(e)'
  <2> SUFFICES ASSUME NEW o \in Payload, rtold'[<<o, e>>] = "success"
               PROVE  o <= Len(payload) /\ NoMore(o, e)' /\ got'[<<o, e>>] = Chunks(o)'
    BY <1>2 DEF SuccessOf
  <2>1. o <= Len(payload) /\ NoMore(o, e) /\ got[<<o, e>>] = Chunks(o)
    <3>1. CASE rtold[<<o, e>>] = "success"
      BY <1>1, <3>1 DEF Received, SuccessOf
    <3>2. CASE /\ o \in 1..Len(payload) /\ in[e][payload[o].id].on
               /\ 1 \in 1..Len(rstatusQ[e]) /\ RLast(rstatusQ[e][1], payload[o].id)
      <4>1. \A m \in 1..(1 - 1) : ~REnds(rstatusQ[e][m], payload[o].id)
        OBVIOUS
      <4>2. NoMore(o, e) /\ got[<<o, e>>] = Chunks(o)
        BY <1>1, <3>2, <4>1 DEF Received, LastOf
      <4> QED
        BY <1>2, <3>2, <4>2
    <3> QED
      BY <3>1, <3>2 DEF Fades
  <2>2. o \in 1..Len(payload)
    BY <1>2, <2>1 DEF Payload
  <2> QED
    BY <1>5, <2>1, <2>2, StillFacts DEF Fades
<1>13. ASSUME NEW o \in 1..Len(payload)
       PROVE  (Dead(o, e) => Dead(o, e)') /\ (Stopped(o, e) => Stopped(o, e)')
  <2>1. PICK i \in Id : i = payload[o].id /\ i = payload'[o].id
    BY <1>2, <1>3
  <2>2. ~in[e][i].on \/ in[e][i].canceled => ~in'[e][i].on \/ in'[e][i].canceled
    BY DEF Fades
  <2>3. Dead(o, e) => Dead(o, e)'
    BY <1>2, <1>4, <1>5, <2>1, <2>2 DEF Dead
  <2>4. Stopped(o, e) => Stopped(o, e)'
    BY <1>4, <1>5, StillFacts DEF Stopped
  <2> QED
    BY <2>3, <2>4
<1>14. CanceledOf(e)'
  <2>1. back'[e] = back[e]
    BY DEF Fades
  <2>2. \A o \in 1..Len(payload) : Refused(o, e)' => Refused(o, e)
    BY <1>2, <2>1 DEF Refused
  <2> QED
    BY <1>1, <1>2, <1>13, <2>1, <2>2, StillFacts DEF CanceledOf
<1>15. RemoteOf(e)'
  BY DEF RemoteOf
<1> QED
  BY <1>7, <1>8, <1>9, <1>10, <1>11, <1>12, <1>14, <1>15 DEF Received

\* A receiver's status-update executor handles the job at the head of its queue.
LEMMA HeadTaken ==
  ASSUME IInv, NEW e \in Endpoint, rstatusQ[e] # <<>>, rstatusQ' = [rstatusQ EXCEPT ![e] = Tail(@)],
         UNCHANGED <<wire, back, got>>,
         \A i \in Id :
           /\ in'[e][i].on => in[e][i].on /\ in'[e][i].obj = in[e][i].obj
           /\ in'[e][i].on /\ in[e][i].canceled => in'[e][i].canceled
           /\ REnds(Head(rstatusQ[e]), i) => ~in'[e][i].on,
         \A o \in Payload : rtold'[<<o, e>>] = "success" =>
           \/ rtold[<<o, e>>] = "success"
           \/ o \in 1..Len(payload) /\ in[e][payload[o].id].on /\ RLast(Head(rstatusQ[e]), payload[o].id)
  PROVE  Fades(e)
<1>1. PICK q \in Seq(RJob) : q = rstatusQ[e] /\ q # <<>>
  BY DEF IInv, ReceiverType
<1>2. PICK N \in Nat : N = Len(q) /\ N >= 1 /\ Head(q) = q[1] /\ 1 \in 1..N
  BY <1>1
<1>3. PICK r : r = Tail(q) /\ rstatusQ'[e] = r
  BY <1>1 DEF IInv, ReceiverType
<1>4. Len(r) = N - 1 /\ \A n \in 1..(N - 1) : r[n] = q[n + 1]
  BY <1>1, <1>2, <1>3
<1>5. \A n \in 1..Len(r) : r[n] = q[n + 1] /\ n + 1 \in 1..N
  BY <1>2, <1>4
<1>6. ASSUME NEW i \in Id, Spoiled(e, i) PROVE Spoiled(e, i)'
  <2>1. CASE ~in[e][i].on \/ in[e][i].canceled
    BY <2>1 DEF Spoiled
  <2>2. CASE \E n \in 1..N : REnds(q[n], i)
    <3>1. PICK n \in 1..N : REnds(q[n], i)
      BY <2>2
    <3>2. CASE n = 1
      BY <1>1, <1>2, <3>1, <3>2 DEF Spoiled
    <3>3. CASE n # 1
      <4>1. n - 1 \in 1..Len(r) /\ r[n - 1] = q[(n - 1) + 1] /\ (n - 1) + 1 = n
        BY <1>2, <1>4, <3>3
      <4>2. REnds(r[n - 1], i)
        BY <3>1, <4>1
      <4> QED
        BY <1>3, <4>1, <4>2 DEF Spoiled
    <3> QED
      BY <3>2, <3>3
  <2> QED
    BY <1>1, <1>2, <1>6, <2>1, <2>2 DEF Spoiled
<1>7. ASSUME NEW n \in 1..Len(r), NEW i \in Id, RLast(r[n], i)
      PROVE  \E m \in 1..N :
               /\ RLast(q[m], i)
               /\ in'[e][i].on /\ (\A l \in 1..(n - 1) : ~REnds(r[l], i)) => \A l \in 1..(m - 1) : ~REnds(q[l], i)
  <2>1. n + 1 \in 1..N /\ RLast(q[n + 1], i)
    BY <1>5, <1>7
  <2>2. ASSUME in'[e][i].on, \A l \in 1..(n - 1) : ~REnds(r[l], i), NEW l \in 1..((n + 1) - 1) PROVE ~REnds(q[l], i)
    <3>1. CASE l = 1
      BY <1>1, <1>2, <2>2, <3>1
    <3>2. CASE l # 1
      <4>1. l - 1 \in 1..(n - 1) /\ l - 1 \in 1..Len(r) /\ (l - 1) + 1 = l
        BY <1>2, <1>4, <3>2
      <4>2. r[l - 1] = q[l]
        BY <1>5, <4>1
      <4> QED
        BY <2>2, <4>1, <4>2
    <3> QED
      BY <3>1, <3>2
  <2> QED
    BY <2>1, <2>2
<1>8. KeepsJobs(e, q, r)
  BY <1>2, <1>5, <1>7 DEF KeepsJobs
<1>9. \A o \in Payload : rtold'[<<o, e>>] = "success" =>
       \/ rtold[<<o, e>>] = "success"
       \/ /\ o \in 1..Len(payload) /\ in[e][payload[o].id].on
          /\ 1 \in 1..Len(rstatusQ[e]) /\ RLast(rstatusQ[e][1], payload[o].id)
  BY <1>1, <1>2
<1>10. Len(wire[e]) \in Nat
  BY DEF IInv, NetType
<1> QED
  BY <1>1, <1>3, <1>6, <1>8, <1>9, <1>10 DEF Fades

\* The queue of the receiver and its payloads stay; only its client cancels one.
LEMMA CancelFades ==
  ASSUME IInv, NEW e \in Endpoint, NEW i \in Id, CancelIncomingPayload(e, i) PROVE Fades(e)
<1>1. UNCHANGED <<wire, back, got, rstatusQ, rtold>> /\ in' = [in EXCEPT ![e][i].canceled = TRUE]
  BY DEF CancelIncomingPayload, channels
<1>2. /\ in \in [Endpoint -> [Id -> IncomingPayload]] /\ in'[e] = [in[e] EXCEPT ![i].canceled = TRUE]
      /\ in[e] \in [Id -> IncomingPayload]
  BY <1>1 DEF IInv, ReceiverType
<1>3. \A j \in Id : in'[e][j] = IF j = i THEN [in[e][j] EXCEPT !.canceled = TRUE] ELSE in[e][j]
  BY <1>2
<1>4. ASSUME NEW j \in Id
      PROVE  /\ in'[e][j].on => in[e][j].on /\ in'[e][j].obj = in[e][j].obj
             /\ in'[e][j].on /\ in[e][j].canceled => in'[e][j].canceled
             /\ Spoiled(e, j) => Spoiled(e, j)'
  <2>1. in[e][j] \in IncomingPayload
    BY <1>2
  <2>2. /\ in'[e][j].on = in[e][j].on /\ in'[e][j].obj = in[e][j].obj
        /\ in[e][j].canceled => in'[e][j].canceled
    BY <1>3, <2>1 DEF IncomingPayload
  <2> QED
    BY <1>1, <2>2 DEF Spoiled
<1>5. Len(wire[e]) \in Nat
  BY DEF IInv, NetType
<1>6. KeepsJobs(e, rstatusQ[e], rstatusQ'[e])
  BY <1>1 DEF KeepsJobs
<1> QED
  BY <1>1, <1>4, <1>5, <1>6 DEF Fades

\* OnPayload changes nothing else.
LEMMA OnPayloadFades == ASSUME IInv, NEW e \in Endpoint, OnPayload(e) PROVE Fades(e)
<1>1. /\ UNCHANGED <<wire, back, got, in, rtold>> /\ rstatusQ[e] # <<>> /\ Head(rstatusQ[e]).k = "payload"
      /\ rstatusQ' = [rstatusQ EXCEPT ![e] = Tail(@)]
  BY DEF OnPayload, RTake, channels
<1>2. \A i \in Id : ~REnds(Head(rstatusQ[e]), i)
  BY <1>1 DEF REnds
<1> QED
  BY <1>1, <1>2, HeadTaken

\* SuccessfulIncomingChunk reports a success for a last chunk only.
LEMMA ChunkFades ==
  ASSUME IInv, SentInv, ReceivedInv, NEW e \in Endpoint, SuccessfulIncomingChunk(e) PROVE Fades(e)
<1>1. /\ UNCHANGED <<wire, back, got, in>> /\ rstatusQ[e] # <<>> /\ Head(rstatusQ[e]).k = "chunk"
      /\ rstatusQ' = [rstatusQ EXCEPT ![e] = Tail(@)]
  BY DEF SuccessfulIncomingChunk, RTake, channels
<1>2. \A i \in Id : ~REnds(Head(rstatusQ[e]), i)
  BY <1>1 DEF REnds
<1>3. PICK j : j = Head(rstatusQ[e]) /\ j.k = "chunk"
  BY <1>1
<1>4. j.i \in Id
  BY <1>1, <1>3, RTakeJob DEF RTake, IInv
<1>5. ASSUME NEW o \in Payload, rtold'[<<o, e>>] = "success", rtold[<<o, e>>] # "success"
      PROVE  o \in 1..Len(payload) /\ in[e][payload[o].id].on /\ RLast(Head(rstatusQ[e]), payload[o].id)
  <2>1. in[e][j.i].on
    BY <1>3, <1>5 DEF SuccessfulIncomingChunk
  <2>2. RTell(e, {in[e][j.i].obj}, IF j.last THEN "success" ELSE "progress")
    BY <1>3, <2>1 DEF SuccessfulIncomingChunk
  <2>3. <<o, e>> \in Transfer
    BY DEF Transfer
  <2>4. o = in[e][j.i].obj /\ j.last
    BY <1>5, <2>2, <2>3 DEF RTell
  <2>5. o \in 1..Len(payload) /\ payload[o].id = j.i
    BY <1>4, <2>1, <2>4 DEF ReceivedInv, Received, IncomingOf
  <2> QED
    BY <1>3, <2>1, <2>4, <2>5 DEF RLast
<1> QED
  BY <1>1, <1>2, <1>5, HeadTaken

\* FinishedIncoming drops the payload.
LEMMA FinishedFades ==
  ASSUME IInv, SentInv, ReceivedInv, NEW e \in Endpoint, FinishedIncoming(e) PROVE Fades(e)
<1>1. /\ UNCHANGED <<wire, back, got>> /\ rstatusQ[e] # <<>> /\ Head(rstatusQ[e]).k = "finished"
      /\ rstatusQ' = [rstatusQ EXCEPT ![e] = Tail(@)]
  BY DEF FinishedIncoming, RTake, channels
<1>2. PICK j : j = Head(rstatusQ[e]) /\ j.k = "finished"
  BY <1>1
<1>3. j.i \in Id
  BY <1>1, <1>2, RTakeJob DEF RTake, IInv
<1>4. in \in [Endpoint -> [Id -> IncomingPayload]]
  BY DEF IInv, ReceiverType
<1>5. \A i \in Id : in'[e][i] = in[e][i] \/ in'[e][i] = NoPayload
  BY <1>2, <1>3, <1>4 DEF FinishedIncoming
<1>6. ~in'[e][j.i].on
  <2>1. CASE in[e][j.i].on
    BY <1>2, <1>3, <1>4, <2>1 DEF FinishedIncoming, NoPayload
  <2>2. CASE ~in[e][j.i].on
    BY <1>2, <2>2 DEF FinishedIncoming
  <2> QED
    BY <2>1, <2>2
<1>7. \A i \in Id :
        /\ in'[e][i].on => in[e][i].on /\ in'[e][i].obj = in[e][i].obj
        /\ in'[e][i].on /\ in[e][i].canceled => in'[e][i].canceled
        /\ REnds(Head(rstatusQ[e]), i) => ~in'[e][i].on
  BY <1>2, <1>5, <1>6 DEF REnds, NoPayload
<1>8. \A o \in Payload : rtold'[<<o, e>>] = "success" => rtold[<<o, e>>] = "success"
  <2>1. \A o \in Payload : <<o, e>> \in Transfer
    BY DEF Transfer
  <2>2. j.st # "success"
    <3>1. j \in RJob
      BY <1>1, <1>2, RTakeJob DEF RTake, IInv
    <3> QED
      BY <1>2, <3>1 DEF RJob
  <2>3. PICK os : UNCHANGED rtold \/ RTell(e, os, j.st)
    BY <1>2 DEF FinishedIncoming
  <2> QED
    BY <2>1, <2>2, <2>3 DEF RTell
<1> QED
  BY <1>1, <1>7, <1>8, HeadTaken

\* IncomingDisconnected takes the endpoint off the payloads.
LEMMA IncomingDisconnectedFades ==
  ASSUME IInv, NEW e \in Endpoint, IncomingDisconnected(e) PROVE Fades(e)
<1>1. /\ UNCHANGED <<wire, back, got>> /\ rstatusQ[e] # <<>> /\ Head(rstatusQ[e]).k = "disconnect"
      /\ rstatusQ' = [rstatusQ EXCEPT ![e] = Tail(@)]
  BY DEF IncomingDisconnected, RTake, channels
<1>2. in \in [Endpoint -> [Id -> IncomingPayload]] /\ in[e] \in [Id -> IncomingPayload]
  BY DEF IInv, ReceiverType
<1>3. \A i \in Id : in'[e][i] = in[e][i] \/ in'[e][i] = [in[e][i] EXCEPT !.ep = FALSE]
  BY <1>2 DEF IncomingDisconnected
<1>4. \A p \in IncomingPayload :
        /\ [p EXCEPT !.ep = FALSE].on = p.on /\ [p EXCEPT !.ep = FALSE].obj = p.obj
        /\ [p EXCEPT !.ep = FALSE].canceled = p.canceled
  BY DEF IncomingPayload
<1>5. \A i \in Id : in'[e][i].on = in[e][i].on /\ in'[e][i].obj = in[e][i].obj /\ in'[e][i].canceled = in[e][i].canceled
  BY <1>2, <1>3, <1>4
<1>6. \A i \in Id : ~REnds(Head(rstatusQ[e]), i)
  BY <1>1 DEF REnds
<1>7. \A o \in Payload : rtold'[<<o, e>>] = "success" => rtold[<<o, e>>] = "success"
  <2>1. PICK os : RTell(e, os, "failure")
    BY DEF IncomingDisconnected
  <2>2. \A o \in Payload : <<o, e>> \in Transfer
    BY DEF Transfer
  <2> QED
    BY <2>1, <2>2 DEF RTell
<1> QED
  BY <1>1, <1>5, <1>6, <1>7, HeadTaken

\* RemoveSender closes the channel; of the frames on the way at most one is still handled.
LEMMA RemoveSenderFades == ASSUME IInv, NEW e \in Endpoint, RemoveSender(e) PROVE Fades(e)
<1>1. UNCHANGED <<back, in, got, rtold>> /\ rstatusQ' = [rstatusQ EXCEPT ![e] = @ \o <<[k |-> "disconnect"]>>]
  BY DEF RemoveSender, RPost
<1>2. PICK n0 \in {0, 1} : wire' = [wire EXCEPT ![e] = ReadAlready(@, n0)]
  BY DEF RemoveSender
<1>3. PICK w \in Seq(Frame) : w = wire[e] /\ wire'[e] = ReadAlready(w, n0)
  BY <1>2 DEF IInv, NetType
<1>4. /\ Len(wire'[e]) \in Nat /\ Len(wire'[e]) <= Len(w)
      /\ \A n \in 1..Len(wire'[e]) : wire'[e][n] = w[n]
  <2>1. Len(w) \in Nat
    OBVIOUS
  <2>2. PICK m \in 0..Len(w) : wire'[e] = SubSeq(w, 1, m)
    BY <1>3, <2>1 DEF ReadAlready
  <2>3. m \in Nat /\ m <= Len(w)
    BY <2>1
  <2>4. Len(wire'[e]) = m /\ \A n \in 1..m : wire'[e][n] = w[n]
    BY <2>1, <2>2, <2>3
  <2> QED
    BY <2>3, <2>4
<1>5. ~Up(e)'
  BY DEF RemoveSender, Up
<1>6. PICK q \in Seq(RJob) : q = rstatusQ[e] /\ rstatusQ'[e] = q \o <<[k |-> "disconnect"]>>
  BY <1>1 DEF IInv, ReceiverType
<1>7. PICK d \in RJob : d = [k |-> "disconnect"] /\ d.k = "disconnect"
  <2>1. [k |-> "disconnect"] \in RJob /\ [k |-> "disconnect"].k = "disconnect"
    BY DEF RJob
  <2> QED
    BY <2>1
<1>8. PICK r : r = q \o <<d>> /\ r = rstatusQ'[e]
  BY <1>6, <1>7
<1>9. PICK N \in Nat : N = Len(q) /\ Len(r) = N + 1 /\ r[N + 1] = d /\ \A n \in 1..N : r[n] = q[n]
  <2>1. r = Append(q, d) /\ Len(q) \in Nat
    BY <1>6, <1>7, <1>8
  <2> QED
    BY <2>1
<1>10. \A n \in 1..(N + 1) : n = N + 1 \/ n \in 1..N
  BY <1>9
<1>11. ASSUME NEW n \in 1..Len(r)
       PROVE  /\ r[n].k # "disconnect" => \E m \in 1..N : r[n] = q[m]
              /\ \A i \in Id : RLast(r[n], i) =>
                   \E m \in 1..N :
                     /\ RLast(q[m], i)
                     /\ in'[e][i].on /\ (\A l \in 1..(n - 1) : ~REnds(r[l], i)) => \A l \in 1..(m - 1) : ~REnds(q[l], i)
  <2>1. CASE n = N + 1
    BY <1>7, <1>9, <2>1 DEF RLast
  <2>2. CASE n \in 1..N
    <3>1. r[n] = q[n] /\ \A l \in 1..(n - 1) : r[l] = q[l]
      BY <1>9, <2>2
    <3> QED
      BY <2>2, <3>1
  <2> QED
    BY <1>9, <1>10, <2>1, <2>2
<1>12. \A i \in Id : Spoiled(e, i) => Spoiled(e, i)'
  <2>1. \A n \in 1..N : n \in 1..Len(r) /\ r[n] = q[n]
    BY <1>9
  <2> QED
    BY <1>1, <1>6, <1>8, <1>9, <2>1 DEF Spoiled
<1>13. KeepsJobs(e, q, r)
  BY <1>9, <1>11 DEF KeepsJobs
<1> QED
  BY <1>1, <1>3, <1>4, <1>5, <1>6, <1>8, <1>12, <1>13 DEF Fades

\* A receiver's reader handles the frame f of object q, with id i: the jobs it posts are about i,
\* a chunk that is not the last is stored or the payload is spoiled, and only a payload that is
\* there and not canceled gets a last chunk.
Consumes(e, f, q, i) ==
  /\ wire[e] # <<>> /\ f = Head(wire[e]) /\ wire'[e] = Tail(wire[e])
  /\ \A j \in Id : j # i => in'[e][j] = in[e][j]
  /\ in'[e][i].on => in'[e][i].obj = q
  /\ \A o \in Payload : rtold'[<<o, e>>] = rtold[<<o, e>>] /\ (o # q => got'[<<o, e>>] = got[<<o, e>>])
  /\ got'[<<q, e>>] \in Nat
  /\ f.k # "data" => in'[e][i] = in[e][i] /\ got'[<<q, e>>] = got[<<q, e>>]
  /\ Dead(q, e) => in'[e][i] = in[e][i]
  /\ IsMore(f, q) => Spoiled(e, i)' \/ got'[<<q, e>>] = f.off + 1
  /\ Len(rstatusQ'[e]) \in Nat /\ Len(rstatusQ[e]) <= Len(rstatusQ'[e])
  /\ \A n \in 1..Len(rstatusQ[e]) : rstatusQ'[e][n] = rstatusQ[e][n]
  /\ \A n \in 1..Len(rstatusQ'[e]) : n > Len(rstatusQ[e]) =>
       /\ rstatusQ'[e][n].k # "disconnect" /\ rstatusQ'[e][n].i = i
       /\ RLast(rstatusQ'[e][n], i) =>
            /\ IsLast(f, q) /\ in'[e][i].on /\ ~in'[e][i].canceled
            /\ (\A m \in 1..(n - 1) : ~REnds(rstatusQ'[e][m], i)) => got'[<<q, e>>] = Chunks(q)
  /\ \A n \in 1..Len(back'[e]) :
       \/ \E m \in 1..Len(back[e]) : back'[e][n] = back[e][m]
       \/ /\ back'[e][n].i = i
          /\ back'[e][n].k = "canceled" => IsData(f, q) /\ in'[e][i].canceled

\* f is the first of N frames on the wire, and the others stay; a frame of its object that
\* follows it is not at the start.
First(e, f, q, N) ==
  /\ N >= 1 /\ N = Len(wire[e]) /\ Len(wire'[e]) = N - 1 /\ wire[e][1] = f
  /\ \A n \in 1..(N - 1) : n + 1 \in 1..N /\ wire'[e][n] = wire[e][n + 1]
  /\ 1 \in 1..N /\ q \in 1..Len(payload) /\ f.i = payload[q].id /\ FrameOf(e, 1, f)
  /\ \A n \in 1..(N - 1) : wire'[e][n].obj = q =>
       IsMore(f, q) /\ (wire'[e][n].k = "data" => wire'[e][n].off > 0)

\* The frames after the one that was handled.
LEMMA WireAfter ==
  ASSUME IInv, SentInv, NEW e \in Endpoint, Received(e), NEW f, NEW q, NEW i, f.obj = q, Consumes(e, f, q, i)
  PROVE  \E N \in Nat : First(e, f, q, N)
<1>1. PICK w \in Seq(Frame) : w = wire[e] /\ w # <<>> /\ f = Head(w) /\ wire'[e] = Tail(w)
  BY DEF Consumes, IInv, NetType
<1>2. PICK N \in Nat : N = Len(w) /\ N >= 1
  BY <1>1
<1>3. /\ Len(Tail(w)) = N - 1 /\ w[1] = f /\ 1 \in 1..N
      /\ \A n \in 1..(N - 1) : n + 1 \in 1..N /\ Tail(w)[n] = w[n + 1]
  BY <1>1, <1>2
<1>4. FrameOf(e, 1, f)
  BY <1>1, <1>2, <1>3 DEF Received, FramesOf
<1>5. q \in 1..Len(payload) /\ f.i = payload[q].id
  BY <1>4 DEF FrameOf
<1>6. ASSUME NEW n \in 1..(N - 1), wire'[e][n].obj = q
      PROVE  IsMore(f, q) /\ (wire'[e][n].k = "data" => wire'[e][n].off > 0)
  <2>1. PICK g : g = wire'[e][n] /\ g = wire[e][n + 1] /\ FrameOf(e, n + 1, g)
    BY <1>1, <1>2, <1>3 DEF Received, FramesOf
  <2>2. 1 \in 1..((n + 1) - 1) /\ wire[e][1] = f
    BY <1>1, <1>2, <1>3
  <2>3. IsMore(f, q)
    BY <1>6, <2>1, <2>2 DEF FrameOf
  <2>4. g.k = "data" => g.off >= 0 /\ g.off # 0
    BY <1>6, <2>1, <2>2 DEF FrameOf
  <2>5. g.k = "data" => g.off \in Int
    <3>1. g \in Frame
      BY <1>1, <1>2, <1>3, <2>1
    <3> QED
      BY <3>1 DEF Frame, DataFrame, ControlFrame
  <2> QED
    BY <2>1, <2>3, <2>4, <2>5
<1>7. /\ N >= 1 /\ N = Len(wire[e]) /\ Len(wire'[e]) = N - 1 /\ wire[e][1] = f
      /\ \A n \in 1..(N - 1) : n + 1 \in 1..N /\ wire'[e][n] = wire[e][n + 1]
  BY <1>1, <1>2, <1>3
<1>8. First(e, f, q, N)
  BY <1>3, <1>4, <1>5, <1>6, <1>7 DEF First
<1> QED
  BY <1>8

\* What a receiver has after it has handled a frame.
LEMMA ConsumesReceived ==
  ASSUME IInv, SentInv, IInv', SentInv', ReceivedInv, SenderStill, NEW e \in Endpoint, e \notin Remote,
         NEW f, NEW q, NEW i, f.obj = q, f.i = i, Consumes(e, f, q, i)
  PROVE  Received(e)' /\ RemoteOf(e)' /\ CanceledOf(e)'
<1>1. Received(e) /\ CanceledOf(e)
  BY DEF ReceivedInv
<1>2. UNCHANGED <<payload, execQ, send, statusQ, told, written, link>> /\ Len(payload) \in Nat
  BY ObjectNumbers DEF SenderStill
<1>3. \A o \in 1..Len(payload) : o \in Payload /\ payload[o].id \in Id
  BY ObjectNumbers
<1>0. PICK N \in Nat : First(e, f, q, N)
  BY <1>1, WireAfter
<1>4. /\ N >= 1 /\ N = Len(wire[e]) /\ Len(wire'[e]) = N - 1 /\ wire[e][1] = f
      /\ \A n \in 1..(N - 1) : n + 1 \in 1..N /\ wire'[e][n] = wire[e][n + 1]
      /\ 1 \in 1..N /\ q \in 1..Len(payload) /\ f.i = payload[q].id /\ FrameOf(e, 1, f)
      /\ \A n \in 1..(N - 1) : wire'[e][n].obj = q =>
           IsMore(f, q) /\ (wire'[e][n].k = "data" => wire'[e][n].off > 0)
  BY <1>0 DEF First
<1>5. /\ q \in 1..Len(payload) /\ i = payload[q].id /\ i \in Id /\ ~Waiting(q)
      /\ \A o \in 1..Len(payload) : payload[o].id = i => o = q
  BY <1>3, <1>4, ObjectNumbers DEF FrameOf
<1>6. PICK R \in Nat :
        /\ R = Len(rstatusQ[e]) /\ Len(rstatusQ'[e]) \in Nat /\ R <= Len(rstatusQ'[e])
        /\ \A n \in 1..R : n \in 1..Len(rstatusQ'[e]) /\ rstatusQ'[e][n] = rstatusQ[e][n]
        /\ \A n \in 1..Len(rstatusQ'[e]) : n \in 1..R \/ n > R
  <2>1. Len(rstatusQ[e]) \in Nat
    BY DEF IInv, ReceiverType
  <2> QED
    BY <2>1 DEF Consumes
<1>7. ASSUME NEW o \in 1..Len(payload), o # q
      PROVE  /\ Fresh(o, e) => Fresh(o, e)'
             /\ Unsent(o, e) => Unsent(o, e)'
             /\ NotReported(o, e) => NotReported(o, e)'
  <2>1. PICK j \in Id : j = payload[o].id /\ j = payload'[o].id /\ j # i
    BY <1>2, <1>3, <1>5, <1>7
  <2>2. in'[e][j] = in[e][j] /\ got'[<<o, e>>] = got[<<o, e>>] /\ rtold'[<<o, e>>] = rtold[<<o, e>>]
    BY <1>3, <1>7, <2>1 DEF Consumes
  <2>3. \A n \in 1..Len(rstatusQ'[e]) : n > R => rstatusQ'[e][n].i # j
    BY <1>6, <2>1 DEF Consumes
  <2>4. Fresh(o, e) => Fresh(o, e)'
    BY <1>6, <2>1, <2>2, <2>3 DEF Fresh
  <2>5. NotReported(o, e) => NotReported(o, e)'
    BY <1>6, <2>1, <2>2, <2>3 DEF NotReported, RLast
  <2>6. Unsent(o, e) => Unsent(o, e)'
    BY <1>4 DEF Unsent
  <2> QED
    BY <2>4, <2>5, <2>6
<1>8. ASSUME NEW o \in 1..Len(payload), NoMore(o, e) PROVE NoMore(o, e)' /\ ~IsData(f, o)
  BY <1>4, <1>8, StillFacts DEF NoMore
<1>9. ASSUME NEW o \in 1..Len(payload), NEW n \in 1..N, NEW k \in Int, Precedes(o, e, n, k)
      PROVE  Precedes(o, e, n - 1, k)'
  <2>1. IsMore(wire[e][n], o) /\ wire[e][n].off = k - 1
    BY <1>9 DEF Precedes
  <2>2. CASE n = 1
    <3>1. IsMore(f, o) /\ f.off = k - 1 /\ o = q
      BY <1>4, <2>1, <2>2 DEF IsMore
    <3>2. Spoiled(e, i)' \/ got'[<<q, e>>] = f.off + 1
      BY <3>1 DEF Consumes
    <3>3. Spoiled(e, i)' \/ got'[<<q, e>>] = k
      BY <3>1, <3>2
    <3>4. i = payload'[o].id /\ n - 1 = 0
      BY <1>2, <1>5, <2>2, <3>1
    <3> QED
      BY <3>1, <3>3, <3>4 DEF Precedes, Spoiled
  <2>3. CASE n # 1
    <3>1. n - 1 \in 1..(N - 1) /\ (n - 1) + 1 = n /\ n - 1 # 0
      BY <2>3
    <3>2. wire'[e][n - 1] = wire[e][n]
      BY <1>4, <3>1
    <3> QED
      BY <2>1, <3>1, <3>2 DEF Precedes
  <2> QED
    BY <2>2, <2>3
<1>10. IncomingOf(e)'
  <2>1. IncomingOf(e)
    BY <1>1 DEF Received
  <2>2. \A j \in Id : in'[e][j].on => in'[e][j].obj \in 1..Len(payload) /\ payload[in'[e][j].obj].id = j
    BY <1>5, <2>1 DEF IncomingOf, Consumes
  <2>3. \A n \in 1..Len(rstatusQ'[e]) : rstatusQ'[e][n].k # "disconnect" =>
          \E o \in 1..Len(payload) : rstatusQ'[e][n].i = payload[o].id
    <3> SUFFICES ASSUME NEW n \in 1..Len(rstatusQ'[e]), rstatusQ'[e][n].k # "disconnect"
                 PROVE  \E o \in 1..Len(payload) : rstatusQ'[e][n].i = payload[o].id
      OBVIOUS
    <3>1. CASE n \in 1..R
      BY <1>6, <2>1, <3>1 DEF IncomingOf
    <3>2. CASE n > R
      <4>1. rstatusQ'[e][n].i = i
        BY <1>6, <3>2 DEF Consumes
      <4> QED
        BY <1>5, <4>1
    <3> QED
      BY <1>6, <3>1, <3>2
  <2>4. \A o \in Payload : got'[<<o, e>>] \in Nat /\ (o > Len(payload) => got'[<<o, e>>] = 0)
    <3> SUFFICES ASSUME NEW o \in Payload PROVE got'[<<o, e>>] \in Nat /\ (o > Len(payload) => got'[<<o, e>>] = 0)
      OBVIOUS
    <3>1. CASE o = q
      BY <1>2, <1>5, <3>1 DEF Consumes
    <3>2. CASE o # q
      BY <2>1, <3>2 DEF IncomingOf, Consumes
    <3> QED
      BY <3>1, <3>2
  <2> QED
    BY <1>2, <2>2, <2>3, <2>4 DEF IncomingOf
<1>11. FramesOf(e)'
  <2> SUFFICES ASSUME NEW n \in 1..(N - 1) PROVE FrameOf(e, n, wire[e][n])'
    BY <1>4 DEF FramesOf
  <2>1. PICK g : g = wire[e][n + 1] /\ FrameOf(e, n + 1, g) /\ g = wire'[e][n]
    BY <1>1, <1>4 DEF Received, FramesOf
  <2>2. PICK o \in 1..Len(payload) : o = g.obj
    BY <2>1 DEF FrameOf
  <2>3. \A m \in 1..(n - 1) : m \in 1..(N - 1) /\ m + 1 \in 1..((n + 1) - 1) /\ wire'[e][m] = wire[e][m + 1]
    <3>1. \A m \in 1..(n - 1) : m \in 1..(N - 1) /\ m + 1 \in 1..((n + 1) - 1)
      OBVIOUS
    <3> QED
      BY <1>4, <3>1
  <2>4. g.i = payload[o].id /\ ~Waiting(o)' /\ (g.k # "data" => Over(o)')
    BY <2>1, <2>2, StillFacts DEF FrameOf
  <2>5. \A m \in 1..(n - 1) : wire'[e][m].obj = o => IsMore(wire'[e][m], o)
    BY <2>1, <2>2, <2>3 DEF FrameOf
  <2>6. ASSUME g.k = "data"
        PROVE  /\ written'[<<o, e>>] > 0 /\ g.off >= 0
               /\ g.last => Over(o)' /\ g.off = Chunks(o)'
               /\ g.off = 0 => Fresh(o, e)' /\ \A m \in 1..(n - 1) : wire'[e][m].obj # o
               /\ g.off > 0 => Precedes(o, e, n - 1, g.off)'
    <3>1. /\ written[<<o, e>>] > 0 /\ g.off >= 0
          /\ g.last => Over(o) /\ g.off = Chunks(o)
          /\ g.off = 0 => Fresh(o, e) /\ \A m \in 1..((n + 1) - 1) : wire[e][m].obj # o
          /\ g.off > 0 => Precedes(o, e, (n + 1) - 1, g.off)
      BY <2>1, <2>2, <2>6 DEF FrameOf
    <3>2. g.off \in Int
      <4>1. PICK w \in Seq(Frame) : w = wire[e]
        BY DEF IInv, NetType
      <4>2. n + 1 \in 1..Len(w)
        BY <1>4, <4>1
      <4>3. g \in Frame
        <5>1. w[n + 1] \in Frame
          BY <4>2
        <5> QED
          BY <2>1, <4>1, <5>1
      <4> QED
        BY <2>6, <4>3 DEF Frame, DataFrame, ControlFrame
    <3>3. g.off = 0 => Fresh(o, e)' /\ \A m \in 1..(n - 1) : wire'[e][m].obj # o
      <4>1. g.off = 0 => o # q
        BY <1>4, <2>1, <2>2, <2>6
      <4> QED
        BY <1>7, <2>3, <3>1, <4>1
    <3>4. g.off > 0 => Precedes(o, e, n - 1, g.off)'
      <4>1. (n + 1) - 1 = n /\ n \in 1..N
        BY <1>4
      <4> QED
        BY <1>9, <3>1, <3>2, <4>1
    <3> QED
      BY <1>2, <3>1, <3>3, <3>4, StillFacts
  <2>7. FrameOf(e, n, g)'
    BY <1>2, <2>2, <2>4, <2>5, <2>6 DEF FrameOf
  <2> QED
    BY <2>1, <2>7
<1>12. WaitingOf(e)'
  <2> SUFFICES ASSUME NEW o \in 1..Len(payload), Waiting(o) PROVE Unsent(o, e)' /\ Fresh(o, e)'
    BY <1>2, StillFacts DEF WaitingOf
  <2>1. o # q /\ Unsent(o, e) /\ Fresh(o, e)
    BY <1>1, <1>5 DEF Received, WaitingOf
  <2> QED
    BY <1>7, <2>1
<1>13. ReadyOf(e)'
  <2> SUFFICES ASSUME NEW o \in 1..Len(payload), Ready(o, e)' PROVE NextOf(o, e)'
    BY <1>2 DEF ReadyOf
  <2>1. Ready(o, e) /\ SoFar' = SoFar
    BY StillFacts
  <2>2. NextOf(o, e)
    BY <1>1, <2>1 DEF Received, ReadyOf
  <2>3. PICK k : k = SoFar /\ k = SoFar'
    BY <2>1
  <2>4. k \in Nat
    <3>1. send.off \in Nat /\ send.obj \in 1..Len(payload) /\ send # Idle /\ send.pc \in {"loop", "check", "detach", "write"}
      BY <2>1, RunningJob DEF IInv, Ready, Loops
    <3>2. PICK s \in 1..Len(payload) : s = send.obj
      BY <3>1
    <3>3. payload[s].resume \in Nat
      BY ObjectNumbers, ObjectFields
    <3>4. send.off = 0 \/ payload[s].resume <= send.off
      BY <3>1, <3>2 DEF SentInv, SendingInv
    <3> QED
      BY <2>3, <3>1, <3>2, <3>3, <3>4 DEF SoFar
  <2>5. k = 0 => written'[<<o, e>>] = 0 /\ Unsent(o, e)' /\ Fresh(o, e)'
    <3> SUFFICES ASSUME k = 0 PROVE written'[<<o, e>>] = 0 /\ Unsent(o, e)' /\ Fresh(o, e)'
      OBVIOUS
    <3>1. written[<<o, e>>] = 0 /\ Unsent(o, e) /\ Fresh(o, e)
      BY <2>2, <2>3 DEF NextOf
    <3>2. o # q
      BY <1>4, <3>1 DEF Unsent
    <3> QED
      BY <1>2, <1>7, <3>1, <3>2
  <2>6. k > 0 => Precedes(o, e, N - 1, k)'
    <3>1. k > 0 => Precedes(o, e, N, k)
      BY <1>4, <2>2, <2>3 DEF NextOf
    <3> QED
      BY <1>4, <1>9, <2>4, <3>1
  <2>7. SoFar' > 0 => Precedes(o, e, Len(wire[e]), SoFar)'
    BY <1>4, <2>3, <2>6 DEF Precedes, Spoiled
  <2>8. \A n \in 1..Len(wire'[e]) : wire'[e][n].obj = o => IsMore(wire'[e][n], o)
    BY <1>4, <2>2 DEF NextOf
  <2> QED
    BY <2>3, <2>5, <2>7, <2>8 DEF NextOf
<1>14. LastOf(e)'
  <2> SUFFICES ASSUME NEW o \in 1..Len(payload), NEW n \in 1..Len(rstatusQ'[e]),
                      RLast(rstatusQ'[e][n], payload'[o].id)
               PROVE  /\ NoMore(o, e)'
                      /\ in'[e][payload'[o].id].on
                           /\ (\A m \in 1..(n - 1) : ~REnds(rstatusQ'[e][m], payload'[o].id))
                         => got'[<<o, e>>] = Chunks(o)'
    BY <1>2 DEF LastOf
  <2>1. PICK j \in Id : j = payload[o].id /\ j = payload'[o].id
    BY <1>2, <1>3
  <2>2. Chunks(o)' = Chunks(o)
    BY StillFacts
  <2>3. CASE n \in 1..R
    <3>1. RLast(rstatusQ[e][n], j) /\ \A m \in 1..(n - 1) : rstatusQ'[e][m] = rstatusQ[e][m]
      BY <1>6, <2>1, <2>3
    <3>2. /\ NoMore(o, e)
          /\ in[e][j].on /\ (\A m \in 1..(n - 1) : ~REnds(rstatusQ[e][m], j)) => got[<<o, e>>] = Chunks(o)
      BY <1>1, <1>6, <2>1, <2>3, <3>1 DEF Received, LastOf
    <3>3. NoMore(o, e)' /\ ~IsData(f, o)
      BY <1>8, <3>2
    <3>4. in'[e][j] = in[e][j] /\ got'[<<o, e>>] = got[<<o, e>>]
      <4>1. CASE o = q
        BY <1>5, <2>1, <3>3, <4>1 DEF IsData, Consumes
      <4>2. CASE o # q
        BY <1>3, <1>5, <2>1, <4>2 DEF Consumes
      <4> QED
        BY <4>1, <4>2
    <3> QED
      BY <2>1, <2>2, <3>1, <3>2, <3>3, <3>4
  <2>4. CASE n > R
    <3>1. o = q /\ j = i
      <4>1. rstatusQ'[e][n].i = i
        BY <1>6, <2>4 DEF Consumes
      <4>2. rstatusQ'[e][n].i = j
        BY <2>1 DEF RLast
      <4> QED
        BY <1>5, <2>1, <4>1, <4>2
    <3>2. /\ IsLast(f, q)
          /\ (\A m \in 1..(n - 1) : ~REnds(rstatusQ'[e][m], i)) => got'[<<q, e>>] = Chunks(q)
      BY <1>6, <2>1, <2>4, <3>1 DEF Consumes
    <3>3. Over(q)'
      BY <1>4, <3>2, StillFacts DEF FrameOf, IsLast
    <3>4. \A m \in 1..Len(wire'[e]) : ~IsData(wire'[e][m], q)
      BY <1>4, <3>2 DEF IsLast, IsMore, IsData
    <3> QED
      BY <2>1, <2>2, <3>1, <3>2, <3>3, <3>4 DEF NoMore
  <2> QED
    BY <1>6, <2>3, <2>4
<1>15. SuccessOf(e)'
  <2> SUFFICES ASSUME NEW o \in Payload, rtold'[<<o, e>>] = "success"
               PROVE  o <= Len(payload) /\ NoMore(o, e)' /\ got'[<<o, e>>] = Chunks(o)'
    BY <1>2 DEF SuccessOf
  <2>1. o <= Len(payload) /\ NoMore(o, e) /\ got[<<o, e>>] = Chunks(o)
    BY <1>1 DEF Received, SuccessOf, Consumes
  <2>2. o \in 1..Len(payload)
    BY <1>2, <2>1 DEF Payload
  <2>3. NoMore(o, e)' /\ ~IsData(f, o)
    BY <1>8, <2>1, <2>2
  <2>4. got'[<<o, e>>] = got[<<o, e>>]
    BY <2>3 DEF Consumes, IsData
  <2> QED
    BY <2>1, <2>3, <2>4, StillFacts
<1>16. ASSUME IsData(f, q) PROVE NotReported(q, e)
  <2>1. ~NoMore(q, e)
    BY <1>5, <1>8, <1>16
  <2> QED
    BY <1>1, <1>3, <1>5, <2>1 DEF NotReported, Received, LastOf, SuccessOf
<1>17. ASSUME NotReported(q, e), ~in'[e][i].on \/ in'[e][i].canceled \/ ~IsLast(f, q) PROVE NotReported(q, e)'
  <2>1. rtold'[<<q, e>>] # "success"
    BY <1>3, <1>5, <1>17 DEF NotReported, Consumes
  <2>2. \A n \in 1..Len(rstatusQ'[e]) : ~RLast(rstatusQ'[e][n], i)
    BY <1>5, <1>6, <1>17 DEF NotReported, Consumes
  <2> QED
    BY <1>2, <1>5, <2>1, <2>2 DEF NotReported
<1>18. ASSUME NEW o \in 1..Len(payload), Dead(o, e) PROVE Dead(o, e)'
  <2>1. PICK j \in Id : j = payload[o].id /\ j = payload'[o].id
    BY <1>2, <1>3
  <2>2. in'[e][j] = in[e][j]
    BY <1>5, <1>18, <2>1 DEF Consumes
  <2>3. ~in'[e][j].on \/ in'[e][j].canceled
    BY <1>18, <2>1, <2>2 DEF Dead
  <2>4. NotReported(o, e)'
    <3>1. NotReported(o, e)
      BY <1>18 DEF Dead
    <3> QED
      BY <1>5, <1>7, <1>17, <2>1, <2>3, <3>1
  <2>5. \A n \in 1..Len(wire'[e]) : IsData(wire'[e][n], o) => wire'[e][n].off > 0
    BY <1>4, <1>18 DEF Dead
  <2> QED
    BY <1>2, <1>18, <2>1, <2>3, <2>4, <2>5 DEF Dead
<1>19. ASSUME NEW o \in 1..Len(payload), Stopped(o, e) PROVE Stopped(o, e)'
  <2>1. NotReported(o, e) /\ Over(o)' /\ ~IsLast(f, o)
    BY <1>4, <1>19, StillFacts DEF Stopped
  <2>2. NotReported(o, e)'
    BY <1>7, <1>17, <2>1
  <2>3. \A n \in 1..Len(wire'[e]) : ~IsLast(wire'[e][n], o)
    BY <1>4, <1>19 DEF Stopped
  <2> QED
    BY <2>1, <2>2, <2>3 DEF Stopped
<1>20. CanceledOf(e)'
  <2>1. \A n \in 1..Len(back'[e]) : \E o \in 1..Len(payload) : back'[e][n].i = payload[o].id
    <3> SUFFICES ASSUME NEW n \in 1..Len(back'[e]) PROVE \E o \in 1..Len(payload) : back'[e][n].i = payload[o].id
      OBVIOUS
    <3>1. (\E m \in 1..Len(back[e]) : back'[e][n] = back[e][m]) \/ back'[e][n].i = i
      BY DEF Consumes
    <3> QED
      BY <1>1, <1>5, <3>1 DEF CanceledOf
  <2>2. ASSUME NEW o \in 1..Len(payload), Refused(o, e)' PROVE Dead(o, e)'
    <3>1. CASE Refused(o, e)
      BY <1>1, <1>18, <3>1 DEF CanceledOf
    <3>2. CASE ~Refused(o, e)
      <4>1. PICK n \in 1..Len(back'[e]) : back'[e][n].k = "canceled" /\ back'[e][n].i = payload[o].id
        BY <1>2, <2>2, <3>2 DEF Refused
      <4>2. ~\E m \in 1..Len(back[e]) : back'[e][n] = back[e][m]
        BY <3>2, <4>1 DEF Refused
      <4>3. back'[e][n].i = i /\ IsData(f, q) /\ in'[e][i].canceled
        BY <4>1, <4>2 DEF Consumes
      <4>4. o = q
        BY <1>5, <4>1, <4>3
      <4>5. NotReported(q, e)'
        BY <1>16, <1>17, <4>3
      <4>6. written'[<<q, e>>] > 0
        BY <1>2, <1>4, <4>3 DEF FrameOf, IsData
      <4>7. \A m \in 1..Len(wire'[e]) : IsData(wire'[e][m], q) => wire'[e][m].off > 0
        BY <1>4 DEF IsData
      <4>8. Dead(q, e)'
        BY <1>2, <1>5, <4>3, <4>5, <4>6, <4>7 DEF Dead
      <4> QED
        BY <4>4, <4>8
    <3> QED
      BY <3>1, <3>2
  <2>3. ASSUME NEW o \in 1..Len(payload), Reported(o, e)' PROVE Dead(o, e)' \/ Stopped(o, e)'
    BY <1>1, <1>18, <1>19, <2>3, StillFacts DEF CanceledOf
  <2> QED
    BY <1>1, <1>2, <2>1, <2>2, <2>3 DEF CanceledOf
<1>21. RemoteOf(e)'
  BY DEF RemoteOf
<1> QED
  BY <1>10, <1>11, <1>12, <1>13, <1>14, <1>15, <1>20, <1>21 DEF Received

\* The queue of a receiver after its reader has posted jobs.
LEMMA RPosted ==
  ASSUME ReceiverType, NEW e \in Endpoint, NEW js \in Seq(RJob), RPost(e, js)
  PROVE  /\ Len(rstatusQ[e]) \in Nat /\ Len(rstatusQ'[e]) = Len(rstatusQ[e]) + Len(js)
         /\ \A n \in 1..Len(rstatusQ[e]) : rstatusQ'[e][n] = rstatusQ[e][n]
         /\ \A n \in 1..Len(rstatusQ'[e]) : n > Len(rstatusQ[e]) =>
              n - Len(rstatusQ[e]) \in 1..Len(js) /\ rstatusQ'[e][n] = js[n - Len(rstatusQ[e])]
<1>1. PICK q \in Seq(RJob) : q = rstatusQ[e] /\ rstatusQ'[e] = q \o js
  BY DEF ReceiverType, RPost
<1>2. /\ Len(q) \in Nat /\ Len(js) \in Nat /\ Len(q \o js) = Len(q) + Len(js)
      /\ \A n \in 1..Len(q \o js) : (q \o js)[n] = IF n <= Len(q) THEN q[n] ELSE js[n - Len(q)]
  OBVIOUS
<1>3. PICK r : r = q \o js /\ r = rstatusQ'[e]
  BY <1>1
<1>4. /\ Len(r) = Len(q) + Len(js) /\ \A n \in 1..Len(q) : r[n] = q[n]
      /\ \A n \in 1..Len(r) : n > Len(q) => n - Len(q) \in 1..Len(js) /\ r[n] = js[n - Len(q)]
  BY <1>2, <1>3
<1> QED
  BY <1>1, <1>2, <1>3, <1>4

\* The first frame on the wire is of an object of the sender.
LEMMA HeadFrame ==
  ASSUME IInv, SentInv, NEW e \in Endpoint, Received(e), wire[e] # <<>>
  PROVE  \E f \in Frame, q \in 1..Len(payload), i \in Id :
           f = Head(wire[e]) /\ f.obj = q /\ f.i = i /\ i = payload[q].id /\ FrameOf(e, 1, f) /\ q \in Payload
<1>1. PICK w \in Seq(Frame) : w = wire[e] /\ w # <<>>
  BY DEF IInv, NetType
<1>2. 1 \in 1..Len(w) /\ Head(w) = w[1] /\ w[1] \in Frame
  BY <1>1
<1>3. PICK f \in Frame : f = w[1]
  BY <1>2
<1>4. FrameOf(e, 1, f)
  BY <1>1, <1>2, <1>3 DEF Received, FramesOf
<1>5. f.obj \in 1..Len(payload) /\ f.i = payload[f.obj].id
  BY <1>4 DEF FrameOf
<1>6. f.obj \in Payload /\ payload[f.obj].id \in Id
  BY <1>5, ObjectNumbers
<1> QED
  BY <1>1, <1>2, <1>3, <1>4, <1>5, <1>6

\* ProcessIncomingControl posts the end of a payload that is there.
LEMMA ControlConsumes ==
  ASSUME IInv, SentInv, ReceivedInv, NEW e \in Endpoint, ProcessIncomingControl(e),
         NEW f \in Frame, NEW q \in 1..Len(payload), NEW i \in Id,
         f = Head(wire[e]), f.obj = q, f.i = i, i = payload[q].id, q \in Payload
  PROVE  Consumes(e, f, q, i)
<1>1. /\ wire[e] # <<>> /\ f.k # "data" /\ wire' = [wire EXCEPT ![e] = Tail(@)]
      /\ UNCHANGED <<back, in, got, rtold>>
  BY DEF ProcessIncomingControl
<1>2. wire'[e] = Tail(wire[e])
  BY <1>1 DEF IInv, NetType
<1>3. PICK j : j = [k |-> "finished", i |-> i, st |-> UpdateStatus(f.k)]
  OBVIOUS
<1>4. j.k = "finished" /\ j.i = i /\ j \in RJob
  BY <1>3 DEF UpdateStatus, RJob
<1>5. UNCHANGED rstatusQ \/ RPost(e, <<j>>)
  BY <1>3 DEF ProcessIncomingControl
<1>6. /\ Len(rstatusQ'[e]) \in Nat /\ Len(rstatusQ[e]) <= Len(rstatusQ'[e])
      /\ \A n \in 1..Len(rstatusQ[e]) : rstatusQ'[e][n] = rstatusQ[e][n]
      /\ \A n \in 1..Len(rstatusQ'[e]) : n > Len(rstatusQ[e]) => rstatusQ'[e][n] = j
  <2>1. CASE UNCHANGED rstatusQ
    <3>1. Len(rstatusQ[e]) \in Nat
      BY DEF IInv, ReceiverType
    <3> QED
      BY <2>1, <3>1
  <2>2. CASE RPost(e, <<j>>)
    <3>0. PICK js : js = <<j>>
      OBVIOUS
    <3>1. js \in Seq(RJob) /\ Len(js) = 1 /\ js[1] = j
      BY <1>4, <3>0
    <3>2. /\ Len(rstatusQ[e]) \in Nat /\ Len(rstatusQ'[e]) = Len(rstatusQ[e]) + Len(js)
          /\ \A n \in 1..Len(rstatusQ[e]) : rstatusQ'[e][n] = rstatusQ[e][n]
          /\ \A n \in 1..Len(rstatusQ'[e]) : n > Len(rstatusQ[e]) =>
               n - Len(rstatusQ[e]) \in 1..Len(js) /\ rstatusQ'[e][n] = js[n - Len(rstatusQ[e])]
      BY <2>2, <3>0, <3>1, RPosted DEF IInv
    <3>3. \A n \in 1..Len(js) : js[n] = j
      BY <3>1
    <3>4. \A n \in 1..Len(rstatusQ'[e]) : n > Len(rstatusQ[e]) => rstatusQ'[e][n] = j
      BY <3>2, <3>3
    <3>5. Len(rstatusQ'[e]) = Len(rstatusQ[e]) + 1
      BY <3>1, <3>2
    <3>6. Len(rstatusQ'[e]) \in Nat /\ Len(rstatusQ[e]) <= Len(rstatusQ'[e])
      BY <3>2, <3>5
    <3> QED
      BY <3>2, <3>4, <3>6
  <2> QED
    BY <1>5, <2>1, <2>2
<1>7. in[e][i].on => in[e][i].obj = q
  BY ObjectNumbers DEF ReceivedInv, Received, IncomingOf
<1>8. got[<<q, e>>] \in Nat
  BY DEF ReceivedInv, Received, IncomingOf
<1> QED
  BY <1>1, <1>2, <1>4, <1>6, <1>7, <1>8 DEF Consumes, IsMore, RLast

\* The queue of a receiver after a data frame: a job that hands the payload over, for its first
\* frame, and the job j.
Posts(e, i, j) ==
  /\ Len(rstatusQ[e]) \in Nat /\ Len(rstatusQ'[e]) \in Nat /\ Len(rstatusQ[e]) < Len(rstatusQ'[e])
  /\ \A n \in 1..Len(rstatusQ[e]) : rstatusQ'[e][n] = rstatusQ[e][n]
  /\ rstatusQ'[e][Len(rstatusQ'[e])] = j
  /\ \A n \in 1..Len(rstatusQ'[e]) : n > Len(rstatusQ[e]) /\ n # Len(rstatusQ'[e]) =>
       rstatusQ'[e][n].k = "payload" /\ rstatusQ'[e][n].i = i

\* One job, or two.
LEMMA DataPosts ==
  ASSUME ReceiverType, NEW e \in Endpoint, NEW i \in Id, NEW q \in Payload, NEW j \in RJob, NEW first,
         first = <<>> \/ first = <<[k |-> "payload", i |-> i, obj |-> q]>>, RPost(e, Append(first, j))
  PROVE  Posts(e, i, j)
<1>1. PICK h : h = [k |-> "payload", i |-> i, obj |-> q]
  OBVIOUS
<1>2. h \in RJob /\ h.k = "payload" /\ h.i = i
  BY <1>1 DEF RJob
<1>3. first \in Seq(RJob) /\ (Len(first) = 0 \/ (Len(first) = 1 /\ first[1] = h))
  <2>1. CASE first = <<>>
    BY <2>1
  <2>2. CASE first = <<h>>
    BY <1>2, <2>2
  <2> QED
    BY <1>1, <2>1, <2>2
<1>4. PICK js : js = Append(first, j)
  OBVIOUS
<1>5. js \in Seq(RJob)
  BY <1>3, <1>4
<1>6. PICK K \in Nat : K = Len(js) /\ K >= 1 /\ js[K] = j
  BY <1>3, <1>4
<1>7. \A n \in 1..K : n # K => js[n] = h
  BY <1>3, <1>4, <1>6
<1>8. PICK N \in Nat : N = Len(rstatusQ[e])
  BY DEF ReceiverType
<1>9. /\ Len(rstatusQ'[e]) = N + K
      /\ \A n \in 1..N : rstatusQ'[e][n] = rstatusQ[e][n]
      /\ \A n \in 1..(N + K) : n > N => n - N \in 1..K /\ rstatusQ'[e][n] = js[n - N]
  <2>1. RPost(e, js)
    BY <1>4
  <2>2. /\ Len(rstatusQ'[e]) = Len(rstatusQ[e]) + Len(js)
        /\ \A n \in 1..Len(rstatusQ[e]) : rstatusQ'[e][n] = rstatusQ[e][n]
        /\ \A n \in 1..Len(rstatusQ'[e]) : n > Len(rstatusQ[e]) =>
             n - Len(rstatusQ[e]) \in 1..Len(js) /\ rstatusQ'[e][n] = js[n - Len(rstatusQ[e])]
    BY <1>5, <2>1, RPosted
  <2> QED
    BY <1>6, <1>8, <2>2
<1>10. PICK M \in Nat : M = N + K /\ M \in 1..(N + K) /\ M > N /\ M - N = K
  BY <1>6
<1>11. rstatusQ'[e][M] = j
  BY <1>6, <1>9, <1>10
<1>12. ASSUME NEW n \in 1..M, n > N, n # M PROVE rstatusQ'[e][n] = h
  <2>1. n \in 1..(N + K) /\ n - N \in 1..K /\ n - N # K
    BY <1>10, <1>12
  <2> QED
    BY <1>7, <1>9, <1>12, <2>1
<1> QED
  BY <1>2, <1>8, <1>9, <1>10, <1>11, <1>12 DEF Posts

\* What SendBack adds to the control frames.
LEMMA SentBack ==
  ASSUME NetType, NEW e \in Endpoint, NEW i \in Id, NEW event \in {"canceled", "error"}, SendBack(e, event, i)
  PROVE  \A n \in 1..Len(back'[e]) :
           \/ \E m \in 1..Len(back[e]) : back'[e][n] = back[e][m]
           \/ back'[e][n].i = i /\ back'[e][n].k = event
<1>1. PICK a : a = [k |-> event, i |-> i]
  OBVIOUS
<1>2. a \in Answer /\ a.k = event /\ a.i = i
  BY <1>1 DEF Answer
<1>3. PICK b \in Seq(Answer) : b = back[e]
  BY DEF NetType
<1>4. back'[e] = b \/ back'[e] = Append(b, a)
  BY <1>1, <1>3 DEF SendBack, NetType
<1>5. CASE back'[e] = b
  BY <1>3, <1>5
<1>6. CASE back'[e] = Append(b, a)
  <2>1. PICK c : c = Append(b, a) /\ c = back'[e]
    BY <1>6
  <2>2. \A n \in 1..Len(c) : (\E m \in 1..Len(b) : c[n] = b[m]) \/ c[n] = a
    <3>1. /\ Len(Append(b, a)) = Len(b) + 1 /\ Len(b) \in Nat /\ Append(b, a)[Len(b) + 1] = a
          /\ \A n \in 1..Len(b) : Append(b, a)[n] = b[n]
      BY <1>2
    <3>2. \A n \in 1..(Len(b) + 1) : n \in 1..Len(b) \/ n = Len(b) + 1
      BY <3>1
    <3> QED
      BY <2>1, <3>1, <3>2
  <2> QED
    BY <1>2, <1>3, <2>1, <2>2
<1> QED
  BY <1>4, <1>5, <1>6

\* What the reader knows of the payload a data frame belongs to.
LEMMA DataIncoming ==
  ASSUME IInv, SentInv, NEW e \in Endpoint, Received(e), NEW f \in Frame, NEW q \in 1..Len(payload), NEW i \in Id,
         f.obj = q, f.i = i, i = payload[q].id, f.k = "data", FrameOf(e, 1, f), q \in Payload, NEW p, p = Incoming(e, f),
         wire[e] # <<>>, f = Head(wire[e])
  PROVE  /\ p.on => p.obj = q
         /\ f.off \in Nat /\ (f.off # 0 => p = in[e][i]) /\ got[<<q, e>>] \in Nat
         /\ \/ got[<<q, e>>] = f.off
            \/ ~p.on \/ p.canceled \/ \E n \in 1..Len(rstatusQ[e]) : REnds(rstatusQ[e][n], i)
         /\ Dead(q, e) => p = in[e][i]
         /\ f.last => f.off = Chunks(q)
<1>1. f.off \in Int /\ f.off >= 0 /\ (f.last => f.off = Chunks(q))
  <2>1. f.off \in Int
    BY DEF Frame, DataFrame, ControlFrame
  <2> QED
    BY <2>1 DEF FrameOf
<1>2. IncomingOf(e) /\ got[<<q, e>>] \in Nat
  BY DEF Received, IncomingOf
<1>3. Dead(q, e) => f.off > 0
  <2>1. 1 \in 1..Len(wire[e]) /\ wire[e][1] = f
    BY DEF IInv, NetType
  <2> QED
    BY <2>1 DEF Dead, IsData
<1>4. CASE f.off = 0
  BY <1>1, <1>2, <1>3, <1>4 DEF Incoming, FrameOf, Fresh
<1>5. CASE f.off # 0
  <2>1. f.off > 0 /\ p = in[e][i]
    BY <1>1, <1>5 DEF Incoming
  <2>2. Precedes(q, e, 0, f.off)
    <3>1. Precedes(q, e, 1 - 1, f.off)
      BY <2>1 DEF FrameOf
    <3> QED
      BY <3>1
  <2>3. Spoiled(e, i) \/ got[<<q, e>>] = f.off
    BY <2>2 DEF Precedes
  <2>4. p.on => p.obj = q
    BY <1>2, <2>1, ObjectNumbers DEF IncomingOf
  <2> QED
    BY <1>1, <1>2, <2>1, <2>3, <2>4 DEF Spoiled
<1> QED
  BY <1>4, <1>5

\* What ProcessDataPacket posts, sends back and stores: nothing, an end, or a chunk.
LEMMA DataStep ==
  ASSUME IInv, NEW e \in Endpoint, ProcessDataPacket(e), NEW f \in Frame, NEW q \in Payload, NEW i \in Id,
         f = Head(wire[e]), f.obj = q, f.i = i, NEW p, p = Incoming(e, f), p.on => p.obj = q
  PROVE  /\ wire[e] # <<>> /\ f.k = "data" /\ wire' = [wire EXCEPT ![e] = Tail(@)]
         /\ in' = [in EXCEPT ![e][i] = p] /\ UNCHANGED rtold
         /\ \/ ~p.on /\ UNCHANGED <<rstatusQ, back, got>>
            \/ /\ p.on /\ UNCHANGED got
               /\ \E event \in {"canceled", "error"}, j \in RJob :
                    /\ event = "canceled" => p.canceled
                    /\ REnds(j, i) /\ Posts(e, i, j) /\ SendBack(e, event, i)
            \/ /\ p.on /\ ~p.canceled /\ UNCHANGED back
               /\ got' = IF f.last THEN got ELSE [got EXCEPT ![<<q, e>>] = @ + 1]
               /\ \E j \in RJob : j.k = "chunk" /\ j.i = i /\ j.last = f.last /\ Posts(e, i, j)
<1>1. /\ wire[e] # <<>> /\ f.k = "data" /\ wire' = [wire EXCEPT ![e] = Tail(@)]
      /\ in' = [in EXCEPT ![e][i] = p] /\ UNCHANGED rtold
  BY DEF ProcessDataPacket
<1>2. PICK first : first = IF f.off = 0 THEN <<[k |-> "payload", i |-> f.i, obj |-> f.obj]>> ELSE <<>>
  OBVIOUS
<1>3. first = <<>> \/ first = <<[k |-> "payload", i |-> i, obj |-> q]>>
  BY <1>2
<1>4. f.last \in BOOLEAN
  BY <1>1 DEF Frame, DataFrame, ControlFrame
<1>5. PICK c : c = [k |-> "finished", i |-> i, st |-> "canceled"]
  OBVIOUS
<1>6. PICK r : r = [k |-> "finished", i |-> i, st |-> "failure"]
  OBVIOUS
<1>7. PICK h : h = [k |-> "chunk", i |-> i, last |-> f.last]
  OBVIOUS
<1>8. c \in RJob /\ REnds(c, i) /\ r \in RJob /\ REnds(r, i)
  BY <1>5, <1>6 DEF RJob, REnds
<1>9. h \in RJob /\ h.k = "chunk" /\ h.i = i /\ h.last = f.last
  BY <1>4, <1>7 DEF RJob
<1>10. \/ ~p.on /\ UNCHANGED <<rstatusQ, back, got>>
       \/ p.on /\ p.canceled /\ RPost(e, <<c>>) /\ SendBack(e, "canceled", i) /\ UNCHANGED got
       \/ p.on /\ RPost(e, Append(first, r)) /\ SendBack(e, "error", i) /\ UNCHANGED got
       \/ /\ p.on /\ ~p.canceled /\ UNCHANGED back /\ RPost(e, Append(first, h))
          /\ got' = IF f.last THEN got ELSE [got EXCEPT ![<<p.obj, e>>] = @ + 1]
  BY <1>2, <1>5, <1>6, <1>7 DEF ProcessDataPacket
<1>11. CASE p.on /\ p.canceled /\ RPost(e, <<c>>) /\ SendBack(e, "canceled", i) /\ UNCHANGED got
  <2>1. RPost(e, Append(<<>>, c))
    BY <1>8, <1>11
  <2>2. Posts(e, i, c)
    BY <1>8, <2>1, DataPosts DEF IInv
  <2> QED
    BY <1>1, <1>8, <1>11, <2>2
<1>12. CASE p.on /\ RPost(e, Append(first, r)) /\ SendBack(e, "error", i) /\ UNCHANGED got
  <2>1. Posts(e, i, r)
    BY <1>3, <1>8, <1>12, DataPosts DEF IInv
  <2> QED
    BY <1>1, <1>8, <1>12, <2>1
<1>13. CASE /\ p.on /\ ~p.canceled /\ UNCHANGED back /\ RPost(e, Append(first, h))
            /\ got' = IF f.last THEN got ELSE [got EXCEPT ![<<p.obj, e>>] = @ + 1]
  <2>1. Posts(e, i, h)
    BY <1>3, <1>9, <1>13, DataPosts DEF IInv
  <2> QED
    BY <1>1, <1>9, <1>13, <2>1
<1> QED
  BY <1>1, <1>10, <1>11, <1>12, <1>13

\* ProcessDataPacket stores the chunk that continues what it has, or spoils the payload.
LEMMA DataConsumes ==
  ASSUME IInv, SentInv, ReceivedInv, NEW e \in Endpoint, ProcessDataPacket(e),
         NEW f \in Frame, NEW q \in 1..Len(payload), NEW i \in Id,
         f = Head(wire[e]), f.obj = q, f.i = i, i = payload[q].id, FrameOf(e, 1, f), q \in Payload
  PROVE  Consumes(e, f, q, i)
<1>1. Received(e) /\ <<q, e>> \in Transfer /\ \A o \in Payload : <<o, e>> \in Transfer
  BY ObjectNumbers DEF ReceivedInv
<1>2. wire[e] # <<>> /\ f.k = "data"
  BY DEF ProcessDataPacket
<1>3. PICK p : p = Incoming(e, f)
  OBVIOUS
<1>4. /\ p.on => p.obj = q
      /\ f.off \in Nat /\ (f.off # 0 => p = in[e][i]) /\ got[<<q, e>>] \in Nat
      /\ \/ got[<<q, e>>] = f.off
         \/ ~p.on \/ p.canceled \/ \E n \in 1..Len(rstatusQ[e]) : REnds(rstatusQ[e][n], i)
      /\ Dead(q, e) => p = in[e][i]
      /\ f.last => f.off = Chunks(q)
  BY <1>1, <1>2, <1>3, DataIncoming
<1>5. /\ wire' = [wire EXCEPT ![e] = Tail(@)]
      /\ in' = [in EXCEPT ![e][i] = p] /\ UNCHANGED rtold
      /\ \/ ~p.on /\ UNCHANGED <<rstatusQ, back, got>>
         \/ /\ p.on /\ UNCHANGED got
            /\ \E event \in {"canceled", "error"}, j \in RJob :
                 /\ event = "canceled" => p.canceled
                 /\ REnds(j, i) /\ Posts(e, i, j) /\ SendBack(e, event, i)
         \/ /\ p.on /\ ~p.canceled /\ UNCHANGED back
            /\ got' = IF f.last THEN got ELSE [got EXCEPT ![<<q, e>>] = @ + 1]
            /\ \E j \in RJob : j.k = "chunk" /\ j.i = i /\ j.last = f.last /\ Posts(e, i, j)
  BY <1>3, <1>4, DataStep
<1>6. wire'[e] = Tail(wire[e]) /\ in'[e][i] = p /\ \A j \in Id : j # i => in'[e][j] = in[e][j]
  BY <1>5 DEF IInv, NetType, ReceiverType
<1>7. /\ wire[e] # <<>> /\ f = Head(wire[e]) /\ wire'[e] = Tail(wire[e])
      /\ \A j \in Id : j # i => in'[e][j] = in[e][j]
      /\ in'[e][i].on => in'[e][i].obj = q
      /\ \A o \in Payload : rtold'[<<o, e>>] = rtold[<<o, e>>]
      /\ f.k # "data" => in'[e][i] = in[e][i] /\ got'[<<q, e>>] = got[<<q, e>>]
      /\ Dead(q, e) => in'[e][i] = in[e][i]
  BY <1>2, <1>4, <1>5, <1>6
<1>8. PICK R \in Nat : R = Len(rstatusQ[e])
  <2>1. Len(rstatusQ[e]) \in Nat
    BY DEF IInv, ReceiverType
  <2> QED
    BY <2>1
<1>9. \A j : Posts(e, i, j) =>
        /\ Len(rstatusQ'[e]) \in Nat /\ R <= Len(rstatusQ'[e]) /\ Len(rstatusQ'[e]) \in 1..Len(rstatusQ'[e])
        /\ \A n \in 1..R : n \in 1..Len(rstatusQ'[e]) /\ rstatusQ'[e][n] = rstatusQ[e][n]
        /\ rstatusQ'[e][Len(rstatusQ'[e])] = j
        /\ \A n \in 1..Len(rstatusQ'[e]) : n > R /\ n # Len(rstatusQ'[e]) =>
             rstatusQ'[e][n].k = "payload" /\ rstatusQ'[e][n].i = i
  BY <1>8 DEF Posts
<1>10. CASE ~p.on /\ UNCHANGED <<rstatusQ, back, got>>
  <2>1. Spoiled(e, i)'
    BY <1>6, <1>10 DEF Spoiled
  <2> QED
    BY <1>4, <1>7, <1>8, <1>10, <2>1 DEF Consumes
<1>11. ASSUME p.on, UNCHANGED got, NEW event \in {"canceled", "error"}, NEW j \in RJob,
              event = "canceled" => p.canceled, REnds(j, i), Posts(e, i, j), SendBack(e, event, i)
       PROVE  Consumes(e, f, q, i)
  <2>1. Spoiled(e, i)'
    BY <1>9, <1>11 DEF Spoiled
  <2>2. \A n \in 1..Len(back'[e]) :
          \/ \E m \in 1..Len(back[e]) : back'[e][n] = back[e][m]
          \/ back'[e][n].i = i /\ back'[e][n].k = event
    BY <1>11, SentBack DEF IInv
  <2>3. \A n \in 1..Len(back'[e]) :
          \/ \E m \in 1..Len(back[e]) : back'[e][n] = back[e][m]
          \/ /\ back'[e][n].i = i
             /\ back'[e][n].k = "canceled" => IsData(f, q) /\ in'[e][i].canceled
    BY <1>2, <1>6, <1>11, <2>2 DEF IsData
  <2>4. \A n \in 1..Len(rstatusQ'[e]) : n > R =>
          rstatusQ'[e][n].k \in {"payload", "finished"} /\ rstatusQ'[e][n].i = i
    BY <1>9, <1>11 DEF REnds
  <2>5. \A n \in 1..Len(rstatusQ'[e]) : n > R =>
          rstatusQ'[e][n].k # "disconnect" /\ rstatusQ'[e][n].i = i /\ ~RLast(rstatusQ'[e][n], i)
    BY <2>4 DEF RLast
  <2> QED
    BY <1>4, <1>7, <1>8, <1>9, <1>11, <2>1, <2>3, <2>5 DEF Consumes
<1>12. ASSUME p.on, ~p.canceled, UNCHANGED back, got' = IF f.last THEN got ELSE [got EXCEPT ![<<q, e>>] = @ + 1],
              NEW j \in RJob, j.k = "chunk", j.i = i, j.last = f.last, Posts(e, i, j)
       PROVE  Consumes(e, f, q, i)
  <2>1. got \in [Transfer -> Nat]
    BY DEF IInv, ReceiverType
  <2>2. /\ \A o \in Payload : o # q => got'[<<o, e>>] = got[<<o, e>>]
        /\ got'[<<q, e>>] = IF f.last THEN got[<<q, e>>] ELSE got[<<q, e>>] + 1
    BY <1>1, <1>12, <2>1
  <2>3. \A n \in 1..R : REnds(rstatusQ[e][n], i) => n \in 1..Len(rstatusQ'[e]) /\ REnds(rstatusQ'[e][n], i)
    BY <1>9, <1>12
  <2>4. IsMore(f, q) => Spoiled(e, i)' \/ got'[<<q, e>>] = f.off + 1
    BY <1>4, <1>6, <1>8, <1>12, <2>2, <2>3 DEF IsMore, Spoiled
  <2>5. ASSUME NEW n \in 1..Len(rstatusQ'[e]), n > R
        PROVE  /\ rstatusQ'[e][n].k # "disconnect" /\ rstatusQ'[e][n].i = i
               /\ RLast(rstatusQ'[e][n], i) =>
                    /\ IsLast(f, q) /\ in'[e][i].on /\ ~in'[e][i].canceled
                    /\ (\A m \in 1..(n - 1) : ~REnds(rstatusQ'[e][m], i)) => got'[<<q, e>>] = Chunks(q)
    <3>1. rstatusQ'[e][n] = j \/ (rstatusQ'[e][n].k = "payload" /\ rstatusQ'[e][n].i = i)
      BY <1>9, <1>12, <2>5
    <3>2. CASE rstatusQ'[e][n].k = "payload" /\ rstatusQ'[e][n].i = i
      BY <3>2 DEF RLast
    <3>3. CASE rstatusQ'[e][n] = j
      <4>1. RLast(rstatusQ'[e][n], i) => f.last
        BY <1>12, <3>3 DEF RLast
      <4>2. ASSUME f.last, \A m \in 1..(n - 1) : ~REnds(rstatusQ'[e][m], i) PROVE got'[<<q, e>>] = Chunks(q)
        <5>1. \A m \in 1..R : m \in 1..(n - 1) /\ rstatusQ'[e][m] = rstatusQ[e][m]
          BY <1>9, <1>12, <2>5
        <5>2. \A m \in 1..R : ~REnds(rstatusQ[e][m], i)
          BY <4>2, <5>1
        <5> QED
          BY <1>4, <1>8, <1>12, <2>2, <4>2, <5>2
      <4>3. f.last => IsLast(f, q)
        BY <1>2 DEF IsLast
      <4> QED
        BY <1>6, <1>12, <3>3, <4>1, <4>2, <4>3
    <3> QED
      BY <3>1, <3>2, <3>3
  <2>6. \A n \in 1..Len(back'[e]) : \E m \in 1..Len(back[e]) : back'[e][n] = back[e][m]
    BY <1>12
  <2>7. got'[<<q, e>>] \in Nat
    BY <1>4, <2>2
  <2> QED
    BY <1>7, <1>8, <1>9, <1>12, <2>2, <2>4, <2>5, <2>6, <2>7 DEF Consumes
<1> QED
  BY <1>5, <1>10, <1>11, <1>12

-----------------------------------------------------------------------------
(* Every step, and the theorems.                                           *)

\* The steps of a receiver that has its PayloadManager modelled.
ReceiverActs(e) ==
  \/ ReceiverReader(e) \/ ReceiverStatusUpdate(e) \/ RemoveSender(e)
  \/ \E i \in Id : CancelIncomingPayload(e, i)

\* Nothing happens elsewhere.
Elsewhere(e) ==
  \A d \in Endpoint : d # e =>
    /\ wire'[d] = wire[d] /\ back'[d] = back[d] /\ in'[d] = in[d] /\ rstatusQ'[d] = rstatusQ[d]
    /\ \A o \in Payload : got'[<<o, d>>] = got[<<o, d>>] /\ rtold'[<<o, d>>] = rtold[<<o, d>>]

\* A receiver's client is told of its own transfers.
LEMMA RTellElsewhere ==
  ASSUME NEW e \in Endpoint, NEW os, NEW st, RTell(e, os, st)
  PROVE  \A d \in Endpoint, o \in Payload : d # e => rtold'[<<o, d>>] = rtold[<<o, d>>]
<1> SUFFICES ASSUME NEW d \in Endpoint, NEW o \in Payload, d # e PROVE rtold'[<<o, d>>] = rtold[<<o, d>>]
  OBVIOUS
<1>1. <<o, d>> \in Transfer /\ <<o, d>> \notin os \X {e} /\ <<o, d>> \notin {}
  BY DEF Transfer
<1> QED
  BY <1>1 DEF RTell

\* The sender does nothing in a step of a receiver.
LEMMA ReceiverStill == ASSUME NEW e \in Endpoint, ReceiverActs(e) PROVE SenderStill
<1>1. UNCHANGED others
  BY DEF ReceiverActs, ReceiverReader, ProcessDataPacket, ProcessIncomingControl, ReceiverStatusUpdate, OnPayload,
     SuccessfulIncomingChunk, FinishedIncoming, IncomingDisconnected, RemoveSender, CancelIncomingPayload
<1>2. broken \subseteq broken'
  BY DEF ReceiverActs, ReceiverReader, ProcessDataPacket, ProcessIncomingControl, ReceiverStatusUpdate, OnPayload,
     SuccessfulIncomingChunk, FinishedIncoming, IncomingDisconnected, RemoveSender, CancelIncomingPayload, channels
<1> QED
  BY <1>1, <1>2 DEF SenderStill, others, sender, client, links

\* Nor do the other receivers.
LEMMA ReceiverAlone == ASSUME IInv, NEW e \in Endpoint, ReceiverActs(e) PROVE Elsewhere(e)
<1>1. /\ wire \in [Endpoint -> Seq(Frame)] /\ back \in [Endpoint -> Seq(Answer)]
      /\ in \in [Endpoint -> [Id -> IncomingPayload]] /\ rstatusQ \in [Endpoint -> Seq(RJob)]
      /\ got \in [Transfer -> Nat]
  BY DEF IInv, NetType, ReceiverType
<1>2. \A js : \A d \in Endpoint : RPost(e, js) /\ d # e => rstatusQ'[d] = rstatusQ[d]
  BY <1>1 DEF RPost
<1>3. CASE ProcessDataPacket(e)
  <2>1. PICK i, p : in' = [in EXCEPT ![e][i] = p]
    BY <1>3 DEF ProcessDataPacket
  <2>2. wire' = [wire EXCEPT ![e] = Tail(@)] /\ UNCHANGED rtold
    BY <1>3 DEF ProcessDataPacket
  <2>3. UNCHANGED rstatusQ \/ \E js : RPost(e, js)
    BY <1>3 DEF ProcessDataPacket
  <2>4. UNCHANGED back \/ \E event, j : SendBack(e, event, j)
    BY <1>3 DEF ProcessDataPacket
  <2>5. UNCHANGED got \/ \E q : got' = [got EXCEPT ![<<q, e>>] = @ + 1]
    BY <1>3 DEF ProcessDataPacket
  <2>6. \A d \in Endpoint, o \in Payload : d # e => got'[<<o, d>>] = got[<<o, d>>]
    <3> SUFFICES ASSUME NEW d \in Endpoint, NEW o \in Payload, d # e PROVE got'[<<o, d>>] = got[<<o, d>>]
      OBVIOUS
    <3>1. <<o, d>> \in Transfer /\ \A q : <<q, e>> # <<o, d>>
      BY DEF Transfer
    <3> QED
      BY <1>1, <2>5, <3>1
  <2>7. \A d \in Endpoint : d # e => back'[d] = back[d]
    BY <1>1, <2>4 DEF SendBack
  <2>8. \A d \in Endpoint : d # e => wire'[d] = wire[d] /\ in'[d] = in[d] /\ rstatusQ'[d] = rstatusQ[d]
    BY <1>1, <1>2, <2>1, <2>2, <2>3
  <2> QED
    BY <2>2, <2>6, <2>7, <2>8 DEF Elsewhere
<1>4. CASE ProcessIncomingControl(e)
  <2>1. wire' = [wire EXCEPT ![e] = Tail(@)] /\ UNCHANGED <<back, in, got, rtold>>
    BY <1>4 DEF ProcessIncomingControl
  <2>2. UNCHANGED rstatusQ \/ \E js : RPost(e, js)
    BY <1>4 DEF ProcessIncomingControl
  <2> QED
    BY <1>1, <1>2, <2>1, <2>2 DEF Elsewhere
<1>5. CASE OnPayload(e)
  BY <1>1, <1>5 DEF OnPayload, Elsewhere, channels
<1>6. CASE SuccessfulIncomingChunk(e)
  <2>1. UNCHANGED <<wire, back, in, got>> /\ rstatusQ' = [rstatusQ EXCEPT ![e] = Tail(@)]
    BY <1>6 DEF SuccessfulIncomingChunk, channels
  <2>2. UNCHANGED rtold \/ \E os, st : RTell(e, os, st)
    BY <1>6 DEF SuccessfulIncomingChunk
  <2>3. \A d \in Endpoint, o \in Payload : d # e => rtold'[<<o, d>>] = rtold[<<o, d>>]
    BY <2>2, RTellElsewhere
  <2> QED
    BY <1>1, <2>1, <2>3 DEF Elsewhere
<1>7. CASE FinishedIncoming(e)
  <2>1. UNCHANGED <<wire, back, got>> /\ rstatusQ' = [rstatusQ EXCEPT ![e] = Tail(@)]
    BY <1>7 DEF FinishedIncoming, channels
  <2>2. UNCHANGED rtold \/ \E os, st : RTell(e, os, st)
    BY <1>7 DEF FinishedIncoming
  <2>3. \A d \in Endpoint, o \in Payload : d # e => rtold'[<<o, d>>] = rtold[<<o, d>>]
    BY <2>2, RTellElsewhere
  <2>4. UNCHANGED in \/ \E i : in' = [in EXCEPT ![e][i] = NoPayload]
    BY <1>7 DEF FinishedIncoming
  <2> QED
    BY <1>1, <2>1, <2>3, <2>4 DEF Elsewhere
<1>8. CASE IncomingDisconnected(e)
  <2>1. UNCHANGED <<wire, back, got>> /\ rstatusQ' = [rstatusQ EXCEPT ![e] = Tail(@)]
    BY <1>8 DEF IncomingDisconnected, channels
  <2>2. \E os, st : RTell(e, os, st)
    BY <1>8 DEF IncomingDisconnected
  <2>3. \A d \in Endpoint, o \in Payload : d # e => rtold'[<<o, d>>] = rtold[<<o, d>>]
    BY <2>2, RTellElsewhere
  <2>4. \E g : in' = [in EXCEPT ![e] = g]
    BY <1>8 DEF IncomingDisconnected
  <2> QED
    BY <1>1, <2>1, <2>3, <2>4 DEF Elsewhere
<1>9. CASE RemoveSender(e)
  <2>1. UNCHANGED <<back, in, got, rtold>> /\ \E js : RPost(e, js)
    BY <1>9 DEF RemoveSender
  <2>2. \E n \in {0, 1} : wire' = [wire EXCEPT ![e] = ReadAlready(@, n)]
    BY <1>9 DEF RemoveSender
  <2> QED
    BY <1>1, <1>2, <2>1, <2>2 DEF Elsewhere
<1>10. ASSUME NEW i \in Id, CancelIncomingPayload(e, i) PROVE Elsewhere(e)
  BY <1>1, <1>10 DEF CancelIncomingPayload, Elsewhere, channels
<1> QED
  BY <1>3, <1>4, <1>5, <1>6, <1>7, <1>8, <1>9, <1>10 DEF ReceiverActs, ReceiverReader, ReceiverStatusUpdate

\* A device whose PayloadManager is not modelled takes none of these steps.
LEMMA NotRemote == ASSUME IInv, ReceivedInv, NEW e \in Endpoint, ReceiverActs(e) PROVE e \notin Remote
<1> SUFFICES ASSUME e \in Remote PROVE FALSE
  OBVIOUS
<1>1. wire[e] = <<>> /\ rstatusQ[e] = <<>> /\ \A i \in Id : ~in[e][i].on
  BY DEF ReceivedInv, RemoteOf
<1>2. ~ReceiverReader(e) /\ ~RemoveSender(e)
  BY <1>1 DEF ReceiverReader, ProcessDataPacket, ProcessIncomingControl, RemoveSender
<1>3. ~ReceiverStatusUpdate(e)
  BY <1>1 DEF ReceiverStatusUpdate, OnPayload, SuccessfulIncomingChunk, FinishedIncoming, IncomingDisconnected, RTake
<1>4. \A i \in Id : ~CancelIncomingPayload(e, i)
  BY <1>1 DEF CancelIncomingPayload
<1> QED
  BY <1>2, <1>3, <1>4 DEF ReceiverActs

\* The receivers' steps.
LEMMA ReceiverActsReceived ==
  ASSUME IInv, IInv', SentInv, SentInv', ReceivedInv, NEW e \in Endpoint, ReceiverActs(e) PROVE ReceivedInv'
<1>1. SenderStill /\ Elsewhere(e) /\ e \notin Remote
  BY ReceiverStill, ReceiverAlone, NotRemote
<1>2. QueueInv' /\ EpsInv'
  BY <1>1, StillSender
<1>3. ASSUME NEW d \in Endpoint, d # e PROVE Received(d)' /\ RemoteOf(d)' /\ CanceledOf(d)'
  BY <1>1, <1>3, StillElsewhere DEF Elsewhere
<1>4. ASSUME ReceiverReader(e) PROVE Received(e)' /\ RemoteOf(e)' /\ CanceledOf(e)'
  <2>1. wire[e] # <<>> /\ Received(e)
    BY <1>4 DEF ReceivedInv, ReceiverReader, ProcessDataPacket, ProcessIncomingControl
  <2>2. PICK f \in Frame, q \in 1..Len(payload), i \in Id :
          f = Head(wire[e]) /\ f.obj = q /\ f.i = i /\ i = payload[q].id /\ FrameOf(e, 1, f) /\ q \in Payload
    BY <2>1, HeadFrame
  <2>3. ASSUME ProcessDataPacket(e) PROVE Consumes(e, f, q, i)
    BY <2>2, <2>3, DataConsumes
  <2>4. ASSUME ProcessIncomingControl(e) PROVE Consumes(e, f, q, i)
    BY <2>2, <2>4, ControlConsumes
  <2>5. Consumes(e, f, q, i)
    BY <1>4, <2>3, <2>4 DEF ReceiverReader
  <2> QED
    BY <1>1, <2>2, <2>5, ConsumesReceived
<1>5. ASSUME ~ReceiverReader(e) PROVE Received(e)' /\ RemoteOf(e)' /\ CanceledOf(e)'
  <2>1. Fades(e)
    BY <1>5, CancelFades, OnPayloadFades, ChunkFades, FinishedFades, IncomingDisconnectedFades, RemoveSenderFades
       DEF ReceiverActs, ReceiverStatusUpdate
  <2> QED
    BY <1>1, <2>1, FadesReceived
<1> QED
  BY <1>2, <1>3, <1>4, <1>5 DEF ReceivedInv

\* Nothing is received before the first payload.
LEMMA InitReceived == Init => ReceivedInv
<1> SUFFICES ASSUME Init PROVE ReceivedInv
  OBVIOUS
<1>1. /\ payload = <<>> /\ send = Idle /\ statusQ = <<>> /\ \A e \in Endpoint : wire[e] = <<>> /\ back[e] = <<>>
      /\ \A e \in Endpoint : rstatusQ[e] = <<>> /\ \A i \in Id : in[e][i] = NoPayload
      /\ told = [t \in Transfer |-> "none"] /\ got = [t \in Transfer |-> 0] /\ rtold = told
  BY DEF Init
<1>2. Len(payload) = 0 /\ Len(statusQ) = 0
  BY <1>1
<1>3. QueueInv /\ EpsInv
  BY <1>1, <1>2 DEF QueueInv, EpsInv, Loops
<1>4. ASSUME NEW e \in Endpoint PROVE Received(e) /\ RemoteOf(e) /\ CanceledOf(e)
  <2>1. Len(wire[e]) = 0 /\ Len(back[e]) = 0 /\ Len(rstatusQ[e]) = 0
    BY <1>1
  <2>2. \A o \in Payload : <<o, e>> \in Transfer
    BY DEF Transfer
  <2>3. \A o \in Payload : told[<<o, e>>] = "none" /\ rtold[<<o, e>>] = "none" /\ got[<<o, e>>] = 0
    BY <1>1, <2>2
  <2>4. \A i \in Id : ~in[e][i].on
    BY <1>1 DEF NoPayload
  <2>5. Received(e)
    BY <1>2, <2>1, <2>3, <2>4 DEF Received, IncomingOf, FramesOf, WaitingOf, ReadyOf, LastOf, SuccessOf
  <2>6. RemoteOf(e)
    BY <1>1, <2>3, <2>4 DEF RemoteOf
  <2> QED
    BY <1>2, <2>1, <2>3, <2>5, <2>6 DEF CanceledOf
<1> QED
  BY <1>3, <1>4 DEF ReceivedInv

\* Every step preserves what is said of the receivers when ids are not used again.
LEMMA NextReceived ==
  ASSUME "reuse" \notin Events
  PROVE  IInv /\ SentInv /\ ReceivedInv /\ [Next]_vars => IInv' /\ SentInv' /\ ReceivedInv'
<1> SUFFICES ASSUME IInv, SentInv, ReceivedInv, [Next]_vars PROVE IInv' /\ SentInv' /\ ReceivedInv'
  OBVIOUS
<1>1. IInv' /\ SentInv'
  BY NextSent
<1>2. ASSUME Passive PROVE ReceivedInv'
  BY <1>1, <1>2, PassiveReceived
<1>3. CASE SendJob
  BY <1>1, <1>2, <1>3, StartJobReceived, GetEndpointsReceived, CheckEndpointsReceived, PayloadGrownReceived,
     DetachNextChunkReceived, SendPayloadChunkReceived, EndJobReceived, DestroyPassive DEF SendJob
<1>4. CASE StatusUpdate
  BY <1>1, <1>2, <1>4, FinishedOutgoingPassive, SuccessfulOutgoingChunkPassive, DestroyPassive, DisconnectedPassive,
     ShutdownPassive DEF StatusUpdate
<1>5. ASSUME NEW i \in Id, NEW es \in SUBSET Endpoint \ {{}}, NEW len \in Lengths, NEW resume \in Resumes,
             SendPayload(i, es, len, resume)
      PROVE  ReceivedInv'
  BY <1>1, <1>5, SendPayloadReceived
<1>6. ASSUME NEW i \in Id, CancelPayload(i) PROVE ReceivedInv'
  BY <1>2, <1>6, CancelPayloadPassive
<1>7. CASE CancelAllPayloads
  BY <1>1, <1>2, <1>7, CancelAllPayloadsPassive
<1>8. ASSUME NEW e \in Endpoint, ProcessControlPacket(e) \/ RemoveEndpoint(e) PROVE ReceivedInv'
  BY <1>2, <1>8, ProcessControlPacketPassive, RemoveEndpointPassive
<1>9. ASSUME NEW e \in Endpoint, NEW i \in Id, NEW event \in {"canceled", "error"}, RemoteControl(e, i, event)
      PROVE  ReceivedInv'
  BY <1>2, <1>9, RemoteControlPassive
<1>10. ASSUME NEW e \in Endpoint, ReceiverActs(e) PROVE ReceivedInv'
  BY <1>1, <1>10, ReceiverActsReceived
<1>11. CASE \/ UNCHANGED vars
            \/ DisconnectFromEndpointManager \/ StopStatusUpdates
            \/ \E e \in Endpoint : OnDisconnected(e) \/ ChannelBreaks(e) \/ OnSenderDisconnected(e)
  BY <1>1, <1>2, <1>11, RestPassive
<1> QED
  BY <1>1, <1>3, <1>4, <1>5, <1>6, <1>7, <1>8, <1>9, <1>10, <1>11 DEF Next, ReceiverActs

\* The invariant of sender and receivers, when payload ids are not used again.
THEOREM ReceivedInvariance == ASSUME "reuse" \notin Events PROVE Spec => [](IInv /\ SentInv /\ ReceivedInv)
<1>1. Init => IInv /\ SentInv /\ ReceivedInv
  BY InitInv, InitSent, InitReceived
<1>2. IInv /\ SentInv /\ ReceivedInv /\ [Next]_vars => (IInv /\ SentInv /\ ReceivedInv)'
  BY NextReceived
<1> QED
  BY <1>1, <1>2, PTL DEF Spec

\* SuccessMeansComplete, when payload ids are not used again: whatever is canceled, fails, breaks
\* or is cut off on the way, the client of a receiver is told of a success only if every chunk
\* the sender could read was attached.
THEOREM SuccessesComplete == ASSUME "reuse" \notin Events PROVE Spec => []SuccessMeansComplete
<1>1. ASSUME IInv, SentInv, ReceivedInv PROVE SuccessMeansComplete
  <2> SUFFICES ASSUME NEW t \in Transfer, rtold[t] = "success"
               PROVE  got[t] = payload[t[1]].len - payload[t[1]].resume
    BY DEF SuccessMeansComplete
  <2>1. PICK o \in Payload, e \in Endpoint : o = t[1] /\ e = t[2] /\ t = <<o, e>>
    BY <1>1, ObjectNumbers
  <2> QED
    BY <1>1, <2>1 DEF ReceivedInv, Received, SuccessOf, Chunks
<1> QED
  BY <1>1, ReceivedInvariance, PTL

\* NotCanceledWhenReceived, when payload ids are not used again: the sender's client is told that
\* a transfer was canceled only if the receiver refused it or the sender stopped before its end,
\* and neither receiver ever reports a success.
THEOREM ReceivedNotCanceled == ASSUME "reuse" \notin Events PROVE Spec => []NotCanceledWhenReceived
<1>1. ASSUME IInv, SentInv, ReceivedInv PROVE NotCanceledWhenReceived
  <2> SUFFICES ASSUME NEW t \in Transfer, rtold[t] = "success", told[t] = "canceled" PROVE FALSE
    BY DEF NotCanceledWhenReceived
  <2>1. PICK o \in Payload, e \in Endpoint : o = t[1] /\ e = t[2] /\ t = <<o, e>>
    BY <1>1, ObjectNumbers
  <2>2. CanceledOf(e) /\ o <= Len(payload)
    BY <1>1, <2>1 DEF ReceivedInv, CanceledOf
  <2>3. o \in 1..Len(payload)
    BY <1>1, <2>2, PayloadAssumption, ObjectNumbers DEF Payload
  <2>4. NotReported(o, e)
    BY <2>1, <2>2, <2>3 DEF CanceledOf, Reported, Dead, Stopped
  <2> QED
    BY <2>1, <2>4 DEF NotReported
<1> QED
  BY <1>1, ReceivedInvariance, PTL
=============================================================================
