----------------------- MODULE PayloadManagerProofs -----------------------
(***************************************************************************)
(* Proofs about the PayloadManager.  Whatever the threads of the sender do *)
(* with the PendingPayload objects, the references to an object are the    *)
(* handle of the running job and the entry in pending_payloads_, and an    *)
(* endpoint whose transfer has ended is no longer with its payload: so no  *)
(* object is used after it was destroyed, and no transfer ends twice.      *)
(***************************************************************************)
EXTENDS PayloadManager, FiniteSetTheorems, TLAPS

Status == {"available", "canceled", "error"}

Object ==
  [id : Id, to : SUBSET Endpoint, in : SUBSET Endpoint, status : [Endpoint -> Status],
   len : Nat, resume : Nat, canceled : BOOLEAN, closed : BOOLEAN, refs : Int]

Running ==
  [pc : {"loop", "check", "detach", "write", "done", "release"}, obj : Payload, off : Nat,
   lost : Nat, eps : SUBSET Endpoint, n : {0, 1}]

\* The jobs of the sender's status-update executor and of a receiver's.
FinishedJob   == [k : {"finished"}, i : Id, es : SUBSET Endpoint, st : {"failure", "canceled"}]
ChunkJob      == [k : {"chunk"}, i : Id, e : Endpoint, last : BOOLEAN]
DestroyJob    == [k : {"destroy"}, i : Id]
DisconnectJob == [k : {"disconnect"}, e : Endpoint]
OtherJob      == [k : {"notify", "stop"}]
Job == FinishedJob \cup ChunkJob \cup DestroyJob \cup DisconnectJob \cup OtherJob

RJob ==
  [k : {"payload"}, i : Id, obj : Payload] \cup [k : {"chunk"}, i : Id, last : BOOLEAN]
    \cup [k : {"finished"}, i : Id, st : {"failure", "canceled"}] \cup [k : {"disconnect"}]

DataFrame    == [k : {"data"}, i : Id, obj : Payload, off : Int, last : BOOLEAN]
ControlFrame == [k : {"canceled", "error"}, i : Id, obj : Payload]
Frame        == DataFrame \cup ControlFrame
Answer       == [k : {"canceled", "error"}, i : Id]
IncomingPayload == [on : BOOLEAN, canceled : BOOLEAN, ep : BOOLEAN, obj : 0..MaxPayload]

SenderType ==
  /\ payload \in Seq(Object) /\ Len(payload) <= MaxPayload
  /\ tracked \in [Id -> 0..MaxPayload] /\ execQ \in Seq(Id)
  /\ send \in Running \cup {Idle}
  /\ statusQ \in Seq(Job) /\ latch \in 0..MaxPayload

ClientType ==
  /\ told \in [Transfer -> {"none", "progress"} \cup Final]
  /\ finals \in [Transfer -> {0, 1}]
  /\ link \in [Endpoint -> Device]

NetType ==
  /\ wire \in [Endpoint -> Seq(Frame)] /\ back \in [Endpoint -> Seq(Answer)]
  /\ broken \subseteq Endpoint

ReceiverType ==
  /\ in \in [Endpoint -> [Id -> IncomingPayload]] /\ handed \subseteq Transfer
  /\ rstatusQ \in [Endpoint -> Seq(RJob)] /\ rlink \in [Endpoint -> Device]
  /\ got \in [Transfer -> Nat] /\ rfinals \in [Transfer -> Nat]

\* An id leads to the object that was created with it.
TrackedInv ==
  /\ \A i \in Id : tracked[i] # 0 => tracked[i] <= Len(payload) /\ payload[tracked[i]].id = i
  /\ send # Idle => send.obj <= Len(payload)
  /\ \A o \in 1..Len(payload) : payload[o].in \subseteq payload[o].to

\* The references to an object: pending_payloads_ and the handle of the running job.
Tracks(o) == IF tracked[payload[o].id] = o THEN 1 ELSE 0
Handles(o) == IF send # Idle /\ send.obj = o THEN 1 ELSE 0
RefInv == \A o \in 1..Len(payload) : payload[o].refs = Tracks(o) + Handles(o)

\* The endpoint of a transfer that has ended has left the payload.
EndedInv ==
  \A t \in Transfer :
    finals[t] = 1 => t[1] <= Len(payload) /\ t[2] \notin payload[t[1]].in

Core == SenderType /\ ClientType /\ TrackedInv /\ RefInv /\ EndedInv
IInv == Core /\ NetType /\ ReceiverType

-----------------------------------------------------------------------------
(* What the operators of the model return.                                 *)

\* SetToSeq lists the elements of a finite set, and all of them.
LEMMA SetToSeqType ==
  ASSUME NEW S, IsFiniteSet(S)
  PROVE  /\ SetToSeq(S) \in Seq(S)
         /\ \A x \in S : \E n \in 1..Len(SetToSeq(S)) : SetToSeq(S)[n] = x
<1>1. PICK n \in Nat : n = Cardinality(S) /\ ExistsBijection(1..n, S)
  BY FS_CardinalityType
<1>2. PICK f \in [1..n -> S] : \A a, b \in 1..n : f[a] = f[b] => a = b
  BY <1>1 DEF ExistsBijection, Bijection, Injection, IsInjective
<1>3. IsInjective(f)
  BY <1>2 DEF IsInjective
<1>4. SetToSeq(S) \in [1..n -> S] /\ IsInjective(SetToSeq(S))
  BY <1>1, <1>2, <1>3 DEF SetToSeq
<1>5. SetToSeq(S) \in Surjection(1..n, S)
  <2>1. SetToSeq(S) \in Injection(1..n, S)
    BY <1>4 DEF Injection
  <2>2. Cardinality(1..n) = Cardinality(S)
    BY <1>1, FS_Interval
  <2> QED
    BY <2>1, <2>2, FS_Injection
<1>6. SetToSeq(S) \in Seq(S) /\ Len(SetToSeq(S)) = n
  BY <1>4
<1> QED
  BY <1>5, <1>6 DEF Surjection

\* The jobs CheckEndpoints posts for the endpoints that have become unavailable.
GoneJobs(o, s, gone) == SetToSeq({Finished(o, {e}, UpdateStatus(s[e])) : e \in gone})

\* They are finished jobs, one for each of the endpoints.
LEMMA FinishedJobs ==
  ASSUME NEW o, payload[o].id \in Id, NEW gone \in SUBSET Endpoint, NEW s
  PROVE  /\ GoneJobs(o, s, gone) \in Seq(Job)
         /\ \A n \in 1..Len(GoneJobs(o, s, gone)) : GoneJobs(o, s, gone)[n].k # "chunk"
         /\ \A e \in gone : \E n \in 1..Len(GoneJobs(o, s, gone)) :
              GoneJobs(o, s, gone)[n] = Finished(o, {e}, UpdateStatus(s[e]))
<1> DEFINE J == {Finished(o, {e}, UpdateStatus(s[e])) : e \in gone}
           f == [e \in gone |-> Finished(o, {e}, UpdateStatus(s[e]))]
<1>1. IsFiniteSet(gone)
  BY PayloadAssumption, FS_Subset
<1>2. f \in Surjection(gone, J)
  BY DEF Surjection
<1>3. IsFiniteSet(J)
  BY <1>1, <1>2, FS_Surjection
<1>4. J \subseteq Job /\ \A j \in J : j.k # "chunk"
  BY DEF Job, FinishedJob, Finished, UpdateStatus, Final
<1>5. \A e \in gone : Finished(o, {e}, UpdateStatus(s[e])) \in J
  OBVIOUS
<1>6. GoneJobs(o, s, gone) = SetToSeq(J)
  BY DEF GoneJobs
<1> HIDE DEF J
<1>7. /\ GoneJobs(o, s, gone) \in Seq(J)
      /\ \A x \in J : \E n \in 1..Len(GoneJobs(o, s, gone)) : GoneJobs(o, s, gone)[n] = x
  BY <1>3, <1>6, SetToSeqType
<1>8. \A q \in Seq(J) : q \in Seq(Job) /\ \A n \in 1..Len(q) : q[n] \in J
  BY <1>4
<1> QED
  BY <1>4, <1>5, <1>7, <1>8

\* The jobs SendPayloadChunk posts for the endpoints it has written to.
DoneJobs(i, ok, last) == SetToSeq({[k |-> "chunk", i |-> i, e |-> e, last |-> last] : e \in ok})

\* They are chunk jobs of endpoints that were written to.
LEMMA ChunkJobs ==
  ASSUME NEW i \in Id, NEW ok \in SUBSET Endpoint, NEW last \in BOOLEAN
  PROVE  /\ DoneJobs(i, ok, last) \in Seq(Job)
         /\ \A n \in 1..Len(DoneJobs(i, ok, last)) :
              LET j == DoneJobs(i, ok, last)[n]
              IN j.k = "chunk" /\ j.i = i /\ j.e \in ok /\ j.last = last
<1> DEFINE J == {[k |-> "chunk", i |-> i, e |-> e, last |-> last] : e \in ok}
           f == [e \in ok |-> [k |-> "chunk", i |-> i, e |-> e, last |-> last]]
<1>1. IsFiniteSet(ok)
  BY PayloadAssumption, FS_Subset
<1>2. f \in Surjection(ok, J)
  BY DEF Surjection
<1>3. IsFiniteSet(J)
  BY <1>1, <1>2, FS_Surjection
<1>4. J \subseteq Job /\ \A j \in J : j.k = "chunk" /\ j.i = i /\ j.e \in ok /\ j.last = last
  BY DEF Job, ChunkJob
<1>5. DoneJobs(i, ok, last) = SetToSeq(J)
  BY DEF DoneJobs
<1> HIDE DEF J
<1>6. DoneJobs(i, ok, last) \in Seq(J)
  BY <1>3, <1>5, SetToSeqType
<1>7. \A q \in Seq(J) : q \in Seq(Job) /\ \A n \in 1..Len(q) : q[n] \in J
  BY <1>4
<1> QED
  BY <1>4, <1>6, <1>7

-----------------------------------------------------------------------------
(* What a step may do to an object: its id, its endpoints and what can be  *)
(* read of it stay, and an endpoint may leave it.                          *)

Later(p, q) ==
  /\ q.id = p.id /\ q.to = p.to /\ q.in \subseteq p.in
  /\ q.len = p.len /\ q.resume = p.resume

Evolves ==
  /\ payload' \in Seq(Object) /\ Len(payload') = Len(payload)
  /\ \A o \in 1..Len(payload) : Later(payload[o], payload'[o])

\* The types of an object's fields, and that the objects of the sender are such.
LEMMA ObjectFields ==
  ASSUME NEW p \in Object
  PROVE  /\ p.id \in Id /\ p.refs \in Int /\ p.to \subseteq Endpoint /\ p.in \subseteq Endpoint
         /\ p.len \in Nat /\ p.resume \in Nat /\ p.closed \in BOOLEAN /\ p.canceled \in BOOLEAN
         /\ p.status \in [Endpoint -> Status]
BY DEF Object

\* The objects of the sender are such, with an id of the model.
LEMMA SenderObjects ==
  ASSUME SenderType
  PROVE  /\ Len(payload) \in Nat /\ DOMAIN payload = 1..Len(payload)
         /\ \A o \in 1..Len(payload) : payload[o] \in Object /\ payload[o].id \in Id
BY ObjectFields DEF SenderType

\* Replacing one object.
LEMMA ReplaceObject ==
  ASSUME NEW ps \in Seq(Object), NEW o \in 1..Len(ps), NEW p \in Object,
         NEW qs, qs = [ps EXCEPT ![o] = p]
  PROVE  /\ qs \in Seq(Object) /\ Len(qs) = Len(ps)
         /\ \A q \in 1..Len(ps) : qs[q] = IF q = o THEN p ELSE ps[q]
<1> HIDE DEF Object
<1> QED
  OBVIOUS

\* Replacing any number of them.
LEMMA ReplaceObjects ==
  ASSUME NEW ps \in Seq(Object), NEW qs, NEW f,
         qs = [o \in DOMAIN ps |-> f[o]], \A o \in 1..Len(ps) : f[o] \in Object
  PROVE  /\ qs \in Seq(Object) /\ Len(qs) = Len(ps)
         /\ \A q \in 1..Len(ps) : qs[q] = f[q]
<1>1. DOMAIN ps = 1..Len(ps) /\ Len(ps) \in Nat
  OBVIOUS
<1>2. qs \in [1..Len(ps) -> Object]
  BY <1>1
<1>3. qs \in Seq(Object)
  BY <1>1, <1>2
<1> QED
  BY <1>1, <1>2, <1>3

\* Counting references leaves the rest of the object alone.
LEMMA RefsObject ==
  ASSUME NEW p \in Object, NEW n \in Int
  PROVE  LET q == [p EXCEPT !.refs = n] IN
           q \in Object /\ Later(p, q) /\ q.refs = n /\ q.in = p.in
                        /\ q.closed = p.closed /\ q.canceled = p.canceled
BY DEF Object, Later

\* DropRef takes one reference from one object.
LEMMA DropRefObject ==
  ASSUME NEW ps \in Seq(Object), NEW o \in 1..Len(ps)
  PROVE  /\ DropRef(ps, o) \in Seq(Object) /\ Len(DropRef(ps, o)) = Len(ps)
         /\ \A q \in 1..Len(ps) : Later(ps[q], DropRef(ps, o)[q])
         /\ \A q \in 1..Len(ps) :
              DropRef(ps, o)[q].refs = IF q = o THEN ps[q].refs - 1 ELSE ps[q].refs
         /\ \A q \in 1..Len(ps) : DropRef(ps, o)[q].in = ps[q].in
<1> DEFINE p == [ps[o] EXCEPT !.refs = ps[o].refs - 1]
<1>1. ps[o] \in Object /\ ps[o].refs - 1 \in Int
  <2>1. ps[o] \in Object
    OBVIOUS
  <2>2. \A q \in Object : q.refs \in Int
    BY DEF Object
  <2> QED
    BY <2>1, <2>2
<1>2. p \in Object /\ Later(ps[o], p) /\ p.refs = ps[o].refs - 1 /\ p.in = ps[o].in
  BY <1>1, RefsObject
<1>3. DropRef(ps, o) = [ps EXCEPT ![o] = p]
  BY DEF DropRef
<1> HIDE DEF p
<1>4. /\ DropRef(ps, o) \in Seq(Object) /\ Len(DropRef(ps, o)) = Len(ps)
      /\ \A q \in 1..Len(ps) : DropRef(ps, o)[q] = IF q = o THEN p ELSE ps[q]
  BY <1>2, <1>3, ReplaceObject
<1>5. \A q : Later(ps[q], ps[q])
  BY DEF Later
<1> QED
  BY <1>2, <1>4, <1>5

\* RemoveEndpoints takes endpoints from the object.
LEMMA RemoveEndpointsObject ==
  ASSUME NEW p \in Object, NEW es
  PROVE  /\ RemoveEndpoints(p, es) \in Object /\ Later(p, RemoveEndpoints(p, es))
         /\ RemoveEndpoints(p, es).refs = p.refs
         /\ RemoveEndpoints(p, es).in = p.in \ es
         /\ RemoveEndpoints(p, es).closed = (p.closed \/ p.in \subseteq es)
         /\ RemoveEndpoints(p, es).canceled = p.canceled
BY DEF RemoveEndpoints, Object, Later

\* The client is told of transfers that have not ended; the ones that end now have ended.
LEMMA TellUpdates ==
  ASSUME ClientType, NEW ts \in SUBSET Transfer, NEW st \in {"progress"} \cup Final,
         Tell(ts, st), \A t \in ts : finals[t] = 0,
         st = "progress" => \E t \in Transfer : ts = {t}
  PROVE  /\ told' \in [Transfer -> {"none", "progress"} \cup Final]
         /\ finals' \in [Transfer -> {0, 1}]
         /\ \A t \in Transfer : finals'[t] = 1 => finals[t] = 1 \/ (t \in ts /\ st \in Final)
         /\ [Updates!Next]_<<told, finals>>
<1> DEFINE now == {t \in ts : link[t[2]] # "down"}
<1>1. /\ told' = [t \in Transfer |-> IF t \in now THEN st ELSE told[t]]
      /\ finals' = [t \in Transfer |->
           IF t \in now /\ st \in Final THEN finals[t] + 1 ELSE finals[t]]
  BY DEF Tell
<1>2. now \in SUBSET Transfer /\ now \subseteq ts
  OBVIOUS
<1> HIDE DEF now
<1>3. /\ told' \in [Transfer -> {"none", "progress"} \cup Final]
      /\ finals' \in [Transfer -> {0, 1}]
      /\ \A t \in Transfer : finals'[t] = 1 => finals[t] = 1 \/ (t \in ts /\ st \in Final)
  BY <1>1, <1>2 DEF ClientType
<1>4. [Updates!Next]_<<told, finals>>
  <2>1. CASE st \in Final
    <3>1. finals' = [t \in Transfer |-> IF t \in now THEN 1 ELSE finals[t]]
      BY <1>1, <1>2, <2>1
    <3>2. Updates!ReportAll(now, st)
      BY <1>1, <1>2, <3>1 DEF Updates!ReportAll
    <3> QED
      BY <1>2, <2>1, <3>2 DEF Updates!Next, Updates!Final, Final
  <2>2. CASE st = "progress" /\ now = {}
    BY <1>1, <2>2 DEF ClientType, Final
  <2>3. CASE st = "progress" /\ now # {}
    <3>1. PICK t \in Transfer : now = {t} /\ finals[t] = 0
      BY <1>2, <2>3
    <3>2. told' = [told EXCEPT ![t] = st]
      BY <1>1, <3>1 DEF ClientType
    <3>3. finals' = [finals EXCEPT ![t] = 0]
      BY <1>1, <2>3, <3>1 DEF ClientType, Final
    <3>4. Updates!Report(t, st)
      BY <2>3, <3>1, <3>2, <3>3 DEF Updates!Report, Updates!Final
    <3> QED
      BY <2>3, <3>4 DEF Updates!Next
  <2> QED
    BY <2>1, <2>2, <2>3
<1> QED
  BY <1>3, <1>4

-----------------------------------------------------------------------------
(* The sender: one lemma per step.                                         *)

\* What the client may see in a step.
Told == [Updates!Next]_<<told, finals>>

\* Ids lead to their objects, and ended transfers stay ended, when objects only evolve.
LEMMA EvolvesInv ==
  ASSUME Core, Evolves, tracked' \in [Id -> 0..MaxPayload],
         \A i \in Id : tracked'[i] \in {0, tracked[i]},
         send' # Idle => send'.obj \in 1..Len(payload),
         \A t \in Transfer : finals'[t] = 1 =>
           finals[t] = 1 \/ (t[1] <= Len(payload) /\ t[2] \notin payload'[t[1]].in)
  PROVE  TrackedInv' /\ EndedInv'
<1>1. TrackedInv'
  <2>1. \A i \in Id : tracked'[i] # 0 => tracked'[i] <= Len(payload') /\ payload'[tracked'[i]].id = i
    <3> SUFFICES ASSUME NEW i \in Id, tracked'[i] # 0
                 PROVE  tracked'[i] <= Len(payload') /\ payload'[tracked'[i]].id = i
      OBVIOUS
    <3>1. tracked'[i] = tracked[i] /\ tracked[i] \in 1..Len(payload) /\ payload[tracked[i]].id = i
      BY DEF Core, TrackedInv, SenderType
    <3> QED
      BY <3>1 DEF Evolves, Later
  <2>2. \A o \in 1..Len(payload') : payload'[o].in \subseteq payload'[o].to
    BY DEF Core, TrackedInv, Evolves, Later
  <2>3. send' # Idle => send'.obj <= Len(payload')
    BY DEF Evolves
  <2> QED
    BY <2>1, <2>2, <2>3 DEF TrackedInv
<1>2. ASSUME NEW t \in Transfer, finals'[t] = 1
      PROVE  t[1] <= Len(payload') /\ t[2] \notin payload'[t[1]].in
  <2>1. CASE finals[t] = 1
    <3>1. t[1] \in 1..Len(payload) /\ t[2] \notin payload[t[1]].in
      BY <2>1 DEF Core, EndedInv, Transfer, Payload, SenderType
    <3> QED
      BY <3>1 DEF Evolves, Later
  <2> QED
    BY <1>2, <2>1 DEF Evolves
<1> QED
  BY <1>1, <1>2 DEF EndedInv

\* The jobs posted when an object is destroyed.
LEMMA DestroyJobsType == \A o : DestroyJobs(o) \in Seq(Job)
<1>1. [k |-> "notify"] \in Job
  BY DEF Job, OtherJob
<1> QED
  BY <1>1 DEF DestroyJobs

\* Queues of jobs.
LEMMA JobQueues ==
  /\ \A a, b \in Seq(Job) : a \o b \in Seq(Job)
  /\ \A a \in Seq(Job), j \in Job : Append(a, j) \in Seq(Job) /\ <<j>> \in Seq(Job)
  /\ \A a \in Seq(Job) : a # <<>> => Tail(a) \in Seq(Job) /\ Head(a) \in Job
OBVIOUS

\* References are counted as before when nothing is said of them.
LEMMA RefFrame ==
  ASSUME Core, Evolves, UNCHANGED <<tracked, send>>,
         \A o \in 1..Len(payload) : payload'[o].refs = payload[o].refs
  PROVE  RefInv'
BY DEF Core, RefInv, Evolves, Later, Tracks, Handles

\* SendPayload appends an object with one reference; the object tracked under the id before
\* loses its own.
LEMMA SendPayloadCore ==
  ASSUME Core, NEW i \in Id, NEW es \in SUBSET Endpoint, NEW len \in Lengths, NEW resume \in Resumes,
         SendPayload(i, es, len, resume)
  PROVE  Core' /\ Told
<1> DEFINE o == Len(payload) + 1
           new == [id |-> i, to |-> es, in |-> es, status |-> [e \in Endpoint |-> "available"],
                   len |-> len, resume |-> resume, canceled |-> FALSE, closed |-> FALSE, refs |-> 1]
           ps == IF tracked[i] = 0 THEN payload ELSE DropRef(payload, tracked[i])
<1>1. /\ payload' = Append(ps, new) /\ tracked' = [tracked EXCEPT ![i] = o]
      /\ execQ' = Append(execQ, i) /\ o <= MaxPayload
      /\ UNCHANGED <<send, told, finals, written, link, barrier, latch>>
  BY DEF SendPayload, client, links, shut
<1>2. statusQ' = statusQ \/ statusQ' = statusQ \o DestroyJobs(tracked[i])
  BY DEF SendPayload, Post
<1>3. /\ new \in Object /\ new.id = i /\ new.in = es /\ new.to = es /\ new.refs = 1
  BY PayloadAssumption DEF Object, Status
<1>4. tracked[i] \in Nat /\ (tracked[i] # 0 => tracked[i] \in 1..Len(payload))
  BY DEF Core, SenderType, TrackedInv
<1>5. /\ ps \in Seq(Object) /\ Len(ps) = Len(payload)
      /\ \A q \in 1..Len(payload) :
           /\ Later(payload[q], ps[q]) /\ ps[q].in = payload[q].in
           /\ ps[q].refs = IF tracked[i] = q THEN payload[q].refs - 1 ELSE payload[q].refs
  <2>1. \A q : Later(payload[q], payload[q])
    BY DEF Later
  <2> QED
    BY <1>4, <2>1, DropRefObject DEF Core, SenderType
<1> HIDE DEF ps, new
<1>6. /\ payload' \in Seq(Object) /\ Len(payload') = o
      /\ payload'[o] = new /\ \A q \in 1..Len(payload) : payload'[q] = ps[q]
  BY <1>1, <1>3, <1>5
<1>7. SenderType'
  <2>1. statusQ' \in Seq(Job)
    BY <1>2, DestroyJobsType, JobQueues DEF Core, SenderType
  <2>2. tracked' \in [Id -> 0..MaxPayload] /\ execQ' \in Seq(Id)
    BY <1>1 DEF Core, SenderType
  <2> QED
    BY <1>1, <1>6, <2>1, <2>2 DEF Core, SenderType
<1>8. ClientType'
  BY <1>1 DEF Core, ClientType
<1>9. TrackedInv'
  <2>1. \A j \in Id : tracked'[j] # 0 => tracked'[j] <= Len(payload') /\ payload'[tracked'[j]].id = j
    <3> SUFFICES ASSUME NEW j \in Id, tracked'[j] # 0
                 PROVE  tracked'[j] <= Len(payload') /\ payload'[tracked'[j]].id = j
      OBVIOUS
    <3>1. CASE j = i
      BY <1>1, <1>3, <1>6, <3>1 DEF Core, SenderType
    <3>2. CASE j # i
      <4>1. tracked'[j] = tracked[j] /\ tracked[j] \in 1..Len(payload) /\ payload[tracked[j]].id = j
        BY <1>1, <3>2 DEF Core, TrackedInv, SenderType
      <4> QED
        BY <1>5, <1>6, <4>1 DEF Later
    <3> QED
      BY <3>1, <3>2
  <2>2. send' # Idle => send'.obj <= Len(payload')
    BY <1>1, <1>6 DEF Core, TrackedInv, SenderType, Running, Payload
  <2>3. \A q \in 1..Len(payload') : payload'[q].in \subseteq payload'[q].to
    <3>1. ASSUME NEW q \in 1..Len(payload) PROVE payload'[q].in \subseteq payload'[q].to
      BY <1>5, <1>6 DEF Core, TrackedInv, Later
    <3>2. \A q \in 1..Len(payload') : q = o \/ q \in 1..Len(payload)
      BY <1>6 DEF Core, SenderType
    <3> QED
      BY <1>3, <1>6, <3>1, <3>2
  <2> QED
    BY <2>1, <2>2, <2>3 DEF TrackedInv
<1>10. RefInv'
  <2> SUFFICES ASSUME NEW q \in 1..Len(payload') PROVE payload'[q].refs = Tracks(q)' + Handles(q)'
    BY DEF RefInv
  <2>1. CASE q = o
    <3>1. Tracks(q)' = 1
      BY <1>1, <1>3, <1>6, <2>1 DEF Tracks, Core, SenderType
    <3>2. Handles(q)' = 0
      BY <1>1, <2>1 DEF Handles, Core, SenderType, TrackedInv, Running, Payload
    <3> QED
      BY <1>3, <1>6, <2>1, <3>1, <3>2
  <2>2. CASE q # o
    <3>1. q \in 1..Len(payload) /\ payload'[q] = ps[q] /\ payload'[q].id = payload[q].id
      BY <1>5, <1>6, <2>2 DEF Later
    <3>2. payload[q].refs = Tracks(q) + Handles(q) /\ payload[q].id \in Id
      BY <3>1, SenderObjects DEF Core, RefInv
    <3>3. Handles(q)' = Handles(q)
      BY <1>1 DEF Handles
    <3>4. Tracks(q)' = IF tracked[i] = q THEN Tracks(q) - 1 ELSE Tracks(q)
      BY <1>1, <1>4, <2>2, <3>1, <3>2 DEF Tracks, Core, SenderType, TrackedInv
    <3> QED
      BY <1>5, <3>1, <3>2, <3>3, <3>4 DEF Tracks, Handles
  <2> QED
    BY <2>1, <2>2
<1>11. EndedInv'
  BY <1>1, <1>5, <1>6 DEF Core, EndedInv, SenderType, Transfer, Payload, Later
<1> QED
  BY <1>1, <1>7, <1>8, <1>9, <1>10, <1>11 DEF Core, Told

\* CancelPayload marks an object.
LEMMA CancelPayloadCore == ASSUME Core, NEW i \in Id, CancelPayload(i) PROVE Core' /\ Told
<1> DEFINE o == tracked[i]
           p == [payload[o] EXCEPT !.canceled = TRUE]
<1>1. o \in 1..Len(payload)
  BY DEF CancelPayload, Core, SenderType, TrackedInv
<1>2. payload[o] \in Object
  BY <1>1 DEF Core, SenderType
<1>3. p \in Object /\ Later(payload[o], p) /\ p.refs = payload[o].refs
  BY <1>2 DEF Object, Later
<1>4. payload' = [payload EXCEPT ![o] = p]
  BY DEF CancelPayload
<1>5. UNCHANGED <<tracked, execQ, send, statusQ, told, finals, link, latch>>
  BY DEF CancelPayload, client, links, shut
<1> HIDE DEF p
<1>6. /\ payload' \in Seq(Object) /\ Len(payload') = Len(payload)
      /\ \A q \in 1..Len(payload) : payload'[q] = IF q = o THEN p ELSE payload[q]
  BY <1>1, <1>3, <1>4, ReplaceObject DEF Core, SenderType
<1>7. Evolves /\ \A q \in 1..Len(payload) : payload'[q].refs = payload[q].refs
  BY <1>3, <1>6 DEF Evolves, Later
<1>8. SenderType' /\ ClientType'
  BY <1>5, <1>6 DEF Core, SenderType, ClientType
<1>9. TrackedInv' /\ EndedInv'
  BY <1>5, <1>7, EvolvesInv DEF Core, SenderType, TrackedInv, Running, Payload
<1>10. RefInv'
  BY <1>5, <1>7, RefFrame
<1> QED
  BY <1>5, <1>8, <1>9, <1>10 DEF Core, Told

\* The running job goes on with the same object.
LEMMA RunningCore ==
  ASSUME Core, send # Idle, send' \in Running, send'.obj = send.obj, statusQ' \in Seq(Job),
         UNCHANGED <<payload, tracked, execQ, told, finals, link, latch>>
  PROVE  Core' /\ Told
<1>1. send' # Idle
  BY DEF Running, Idle
<1>2. SenderType' /\ ClientType'
  BY DEF Core, SenderType, ClientType
<1>3. TrackedInv' /\ EndedInv'
  BY <1>1 DEF Core, TrackedInv, EndedInv
<1>4. RefInv'
  BY <1>1 DEF Core, RefInv, Tracks, Handles
<1> QED
  BY <1>2, <1>3, <1>4 DEF Core, Told

\* What is known of a running job.
LEMMA RunningJob ==
  ASSUME Core, send.pc # "idle"
  PROVE  /\ send # Idle /\ send \in Running /\ send.obj \in 1..Len(payload)
         /\ payload[send.obj] \in Object /\ payload[send.obj].id \in Id
         /\ payload[send.obj].in \subseteq Endpoint
         /\ send.eps \subseteq Endpoint /\ send.off \in Nat /\ send.lost \in Nat /\ send.n \in {0, 1}
<1>1. send # Idle /\ send \in Running
  BY DEF Idle, Core, SenderType
<1>2. /\ send.obj \in 1..Len(payload) /\ send.eps \subseteq Endpoint
      /\ send.off \in Nat /\ send.lost \in Nat /\ send.n \in {0, 1}
  BY <1>1 DEF Running, Payload, Core, TrackedInv, SenderType
<1> QED
  BY <1>1, <1>2, SenderObjects, ObjectFields DEF Core

\* StartJob takes a handle to the object tracked under the id.
LEMMA StartJobCore == ASSUME Core, StartJob PROVE Core' /\ Told
<1> DEFINE o == tracked[Head(execQ)]
<1>1. /\ send = Idle /\ execQ # <<>> /\ execQ' = Tail(execQ)
      /\ UNCHANGED <<tracked, statusQ, told, finals, link, latch>>
  BY DEF StartJob, client, links, shut
<1>2. Head(execQ) \in Id /\ execQ' \in Seq(Id)
  BY <1>1 DEF Core, SenderType
<1>3. CASE UNCHANGED <<payload, send>>
  <2>1. SenderType' /\ ClientType'
    BY <1>1, <1>2, <1>3 DEF Core, SenderType, ClientType
  <2>2. TrackedInv' /\ EndedInv' /\ RefInv'
    BY <1>1, <1>3 DEF Core, TrackedInv, EndedInv, RefInv, Tracks, Handles
  <2> QED
    BY <1>1, <2>1, <2>2 DEF Core, Told
<1>4. CASE /\ o # 0 /\ payload' = [payload EXCEPT ![o].refs = @ + 1]
           /\ send' = [pc |-> "loop", obj |-> o, off |-> 0, lost |-> 0, eps |-> {}, n |-> 0]
  <2> DEFINE p == [payload[o] EXCEPT !.refs = payload[o].refs + 1]
  <2>1. o \in 1..Len(payload) /\ payload[o] \in Object /\ payload[o].refs + 1 \in Int
    <3>1. o \in 1..Len(payload)
      BY <1>2, <1>4 DEF Core, SenderType, TrackedInv
    <3> QED
      BY <3>1, SenderObjects, ObjectFields DEF Core
  <2>2. p \in Object /\ Later(payload[o], p) /\ p.refs = payload[o].refs + 1
    BY <2>1, RefsObject
  <2>3. payload' = [payload EXCEPT ![o] = p]
    BY <1>4
  <2> HIDE DEF p
  <2>4. /\ payload' \in Seq(Object) /\ Len(payload') = Len(payload)
        /\ \A q \in 1..Len(payload) : payload'[q] = IF q = o THEN p ELSE payload[q]
    BY <2>1, <2>2, <2>3, ReplaceObject DEF Core, SenderType
  <2>5. Evolves
    BY <2>2, <2>4 DEF Evolves, Later
  <2>6. send' \in Running /\ send' # Idle /\ send'.obj = o
    <3>1. o \in Payload
      BY <2>1, PayloadAssumption, SenderObjects DEF Payload, Core, SenderType
    <3>2. send' \in Running /\ send'.obj = o
      BY <1>4, <3>1 DEF Running
    <3> QED
      BY <3>2 DEF Running, Idle
  <2>7. SenderType' /\ ClientType'
    BY <1>1, <1>2, <2>4, <2>6 DEF Core, SenderType, ClientType
  <2>8. TrackedInv' /\ EndedInv'
    BY <1>1, <2>1, <2>5, <2>6, EvolvesInv DEF Core, SenderType
  <2>9. RefInv'
    <3> SUFFICES ASSUME NEW q \in 1..Len(payload) PROVE payload'[q].refs = Tracks(q)' + Handles(q)'
      BY <2>4 DEF RefInv
    <3>1. Tracks(q)' = Tracks(q)
      BY <1>1, <2>5 DEF Tracks, Evolves, Later
    <3>2. Handles(q) = 0 /\ Handles(q)' = IF q = o THEN 1 ELSE 0
      BY <1>1, <2>6 DEF Handles
    <3>3. payload[q].refs = Tracks(q) + Handles(q)
      BY DEF Core, RefInv
    <3> QED
      BY <2>2, <2>4, <3>1, <3>2, <3>3 DEF Tracks
  <2> QED
    BY <1>1, <2>7, <2>8, <2>9 DEF Core, Told
<1> QED
  BY <1>3, <1>4 DEF StartJob

\* SendPayloadLoop up to the check of the endpoints.
LEMMA GetEndpointsCore == ASSUME Core, GetEndpoints PROVE Core' /\ Told
<1>1. /\ send # Idle /\ send \in Running /\ payload[send.obj].in \subseteq Endpoint
  BY RunningJob DEF GetEndpoints
<1>2. send' \in Running /\ send'.obj = send.obj
  BY <1>1 DEF GetEndpoints, Running
<1> QED
  BY <1>1, <1>2, RunningCore DEF GetEndpoints, client, links, shut, Core, SenderType

\* The check of the endpoints posts jobs about this object's id.
LEMMA CheckEndpointsCore == ASSUME Core, CheckEndpoints PROVE Core' /\ Told
<1> DEFINE o == send.obj
           p == payload[o]
           gone == {e \in send.eps : p.status[e] # "available"}
           avail == send.eps \ gone
           jobs == SetToSeq({Finished(o, {e}, UpdateStatus(p.status[e])) : e \in gone})
<1>1. /\ send # Idle /\ send \in Running /\ send.eps \subseteq Endpoint /\ p.id \in Id
      /\ p.resume \in Nat
  BY RunningJob, ObjectFields DEF CheckEndpoints
<1>2. jobs \in Seq(Job)
  <2>1. gone \in SUBSET Endpoint
    BY <1>1
  <2>2. jobs = GoneJobs(o, p.status, gone)
    BY DEF GoneJobs
  <2> HIDE DEF gone, jobs
  <2> QED
    BY <1>1, <2>1, <2>2, FinishedJobs
<1>3. avail \subseteq Endpoint
  BY <1>1
<1>4. \A st \in {"failure", "canceled"} : Finished(o, avail, st) \in Job
  BY <1>1, <1>3 DEF Finished, Job, FinishedJob
<1>5. \/ Post(jobs) \/ Post(Append(jobs, Finished(o, avail, "canceled")))
      \/ Post(Append(jobs, Finished(o, avail, "failure")))
  BY DEF CheckEndpoints
<1> HIDE DEF jobs
<1>6. statusQ' \in Seq(Job)
  BY <1>2, <1>4, <1>5, JobQueues DEF Post, Core, SenderType, Final
<1>7. \/ send' = [send EXCEPT !.pc = "done"]
      \/ \E n \in Nat : send' = [send EXCEPT !.pc = "detach", !.eps = avail, !.off = n]
  BY <1>1 DEF CheckEndpoints, Running
<1>8. send' \in Running /\ send'.obj = send.obj
  BY <1>1, <1>3, <1>7 DEF Running
<1> QED
  BY <1>1, <1>6, <1>8, RunningCore DEF CheckEndpoints, client, links, shut

\* DetachNextChunk
LEMMA DetachNextChunkCore ==
  ASSUME Core, NEW n \in {0, 1}, DetachNextChunk(n) PROVE Core' /\ Told
<1>1. send # Idle /\ send \in Running
  BY RunningJob DEF DetachNextChunk
<1>2. send' \in Running /\ send'.obj = send.obj
  BY <1>1 DEF DetachNextChunk, Running
<1> QED
  BY <1>1, <1>2, RunningCore DEF DetachNextChunk, client, links, shut, Core, SenderType

\* The transfer to the remaining endpoints fails.
LEMMA PayloadGrownCore == ASSUME Core, PayloadGrown PROVE Core' /\ Told
<1>1. /\ send # Idle /\ send \in Running /\ send.eps \subseteq Endpoint /\ payload[send.obj].id \in Id
  BY RunningJob DEF PayloadGrown
<1>2. Finished(send.obj, send.eps, "failure") \in Job
  BY <1>1 DEF Finished, Job, FinishedJob, Final
<1>3. statusQ' \in Seq(Job)
  BY <1>2, JobQueues DEF PayloadGrown, Post, Core, SenderType
<1>4. send' \in Running /\ send'.obj = send.obj
  BY <1>1 DEF PayloadGrown, Running
<1> QED
  BY <1>1, <1>3, <1>4, RunningCore DEF PayloadGrown, client, links, shut

\* A chunk is written, or not, to each endpoint.
LEMMA SendPayloadChunkCore ==
  ASSUME Core, NEW failed \in SUBSET Endpoint, SendPayloadChunk(failed) PROVE Core' /\ Told
<1> DEFINE o == send.obj
           ok == send.eps \ failed
           last == send.n = 0
           done == SetToSeq({[k |-> "chunk", i |-> payload[o].id, e |-> e, last |-> last] : e \in ok})
           lost == IF failed = {} THEN <<>> ELSE <<Finished(o, failed, "failure")>>
<1>1. /\ send # Idle /\ send \in Running /\ send.eps \subseteq Endpoint /\ payload[o].id \in Id
  BY RunningJob DEF SendPayloadChunk
<1>2. done \in Seq(Job)
  <2>1. ok \in SUBSET Endpoint /\ last \in BOOLEAN
    BY <1>1
  <2>2. done = DoneJobs(payload[o].id, ok, last)
    BY DEF DoneJobs
  <2> HIDE DEF ok, last, done
  <2> QED
    BY <1>1, <2>1, <2>2, ChunkJobs
<1>3. lost \in Seq(Job)
  <2>1. Finished(o, failed, "failure") \in Job
    BY <1>1 DEF Finished, Job, FinishedJob, Final
  <2> QED
    BY <2>1
<1>4. statusQ' = statusQ \o (lost \o done)
  BY DEF SendPayloadChunk, Post
<1> HIDE DEF done, lost
<1>5. statusQ' \in Seq(Job)
  BY <1>2, <1>3, <1>4, JobQueues DEF Core, SenderType
<1>6. send' \in Running /\ send'.obj = send.obj
  <2>1. \/ send' = [send EXCEPT !.pc = "loop", !.lost = @ + send.n]
        \/ \E pc \in {"done", "loop"} : send' = [send EXCEPT !.pc = pc, !.off = @ + send.n]
    BY DEF SendPayloadChunk
  <2>2. send.off + send.n \in Nat /\ send.lost + send.n \in Nat
    BY <1>1 DEF Running
  <2>3. \/ \E n \in Nat : send' = [send EXCEPT !.pc = "loop", !.lost = n]
        \/ \E pc \in {"done", "loop"}, n \in Nat : send' = [send EXCEPT !.pc = pc, !.off = n]
    BY <2>1, <2>2
  <2> QED
    BY <1>1, <2>3 DEF Running
<1> QED
  BY <1>1, <1>5, <1>6, RunningCore DEF SendPayloadChunk, client, links, shut

\* The end of the job.
LEMMA EndJobCore == ASSUME Core, EndJob PROVE Core' /\ Told
<1>1. send # Idle /\ send \in Running /\ payload[send.obj].id \in Id
  BY RunningJob DEF EndJob
<1>2. [k |-> "destroy", i |-> payload[send.obj].id] \in Job
  BY <1>1 DEF Job, DestroyJob
<1>3. statusQ' \in Seq(Job)
  BY <1>2, JobQueues DEF EndJob, Post, Core, SenderType
<1>4. send' \in Running /\ send'.obj = send.obj
  BY <1>1 DEF EndJob, Running
<1> QED
  BY <1>1, <1>3, <1>4, RunningCore DEF EndJob, client, links, shut

\* The handle is given back.
LEMMA ReleaseHandleCore == ASSUME Core, ReleaseHandle PROVE Core' /\ Told
<1> DEFINE o == send.obj
<1>1. send # Idle /\ o \in 1..Len(payload)
  BY RunningJob DEF ReleaseHandle
<1>2. /\ payload' = DropRef(payload, o) /\ send' = Idle
      /\ UNCHANGED <<tracked, execQ, told, finals, link, latch>>
  BY DEF ReleaseHandle, client, links, shut
<1>3. /\ Evolves
      /\ \A q \in 1..Len(payload) :
           payload'[q].refs = IF q = o THEN payload[q].refs - 1 ELSE payload[q].refs
  BY <1>1, <1>2, DropRefObject DEF Evolves, Core, SenderType
<1>4. statusQ' \in Seq(Job)
  BY DestroyJobsType, JobQueues DEF ReleaseHandle, Post, Core, SenderType
<1>5. SenderType' /\ ClientType'
  BY <1>2, <1>3, <1>4 DEF Evolves, Core, SenderType, ClientType
<1>6. TrackedInv' /\ EndedInv'
  BY <1>2, <1>3, EvolvesInv DEF Core, SenderType
<1>7. RefInv'
  <2> SUFFICES ASSUME NEW q \in 1..Len(payload) PROVE payload'[q].refs = Tracks(q)' + Handles(q)'
    BY <1>3 DEF RefInv, Evolves
  <2>1. Tracks(q)' = Tracks(q)
    BY <1>2, <1>3 DEF Tracks, Evolves, Later
  <2>2. Handles(q)' = 0 /\ Handles(q) = IF q = o THEN 1 ELSE 0
    BY <1>1, <1>2 DEF Handles
  <2>3. payload[q].refs = Tracks(q) + Handles(q)
    BY DEF Core, RefInv
  <2> QED
    BY <1>3, <2>1, <2>2, <2>3 DEF Tracks
<1> QED
  BY <1>2, <1>5, <1>6, <1>7 DEF Core, Told

\* A job of the status-update executor.
LEMMA TakeJob ==
  ASSUME Core, NEW k, Take(k)
  PROVE  /\ Tail(statusQ) \in Seq(Job) /\ Head(statusQ) \in Job
         /\ k = "finished" => Head(statusQ) \in FinishedJob
         /\ k = "chunk" => Head(statusQ) \in ChunkJob
         /\ k = "destroy" => Head(statusQ) \in DestroyJob
         /\ k = "disconnect" => Head(statusQ) \in DisconnectJob
<1>1. Tail(statusQ) \in Seq(Job) /\ Head(statusQ) \in Job /\ Head(statusQ).k = k
  BY JobQueues DEF Take, Core, SenderType
<1>2. \A j \in Job :
        /\ j.k = "finished" => j \in FinishedJob
        /\ j.k = "chunk" => j \in ChunkJob
        /\ j.k = "destroy" => j \in DestroyJob
        /\ j.k = "disconnect" => j \in DisconnectJob
  BY DEF Job, FinishedJob, ChunkJob, DestroyJob, DisconnectJob, OtherJob
<1> QED
  BY <1>1, <1>2

\* Objects lose endpoints, and the transfers of those endpoints may end: the only way a
\* transfer ends.
LEMMA LeaveCore ==
  ASSUME Core, statusQ' \in Seq(Job), UNCHANGED <<tracked, execQ, send, link, latch>>,
         Evolves, \A q \in 1..Len(payload) : payload'[q].refs = payload[q].refs,
         NEW ts \in SUBSET Transfer, NEW st \in {"progress"} \cup Final, Tell(ts, st),
         \A t \in ts : t[1] \in 1..Len(payload) /\ t[2] \in payload[t[1]].in,
         \A t \in ts : st \in Final => t[2] \notin payload'[t[1]].in,
         st = "progress" => \E t \in Transfer : ts = {t}
  PROVE  Core' /\ Told
<1>1. \A t \in ts : finals[t] = 0
  BY DEF Core, EndedInv, ClientType
<1>2. /\ told' \in [Transfer -> {"none", "progress"} \cup Final]
      /\ finals' \in [Transfer -> {0, 1}]
      /\ \A t \in Transfer : finals'[t] = 1 => finals[t] = 1 \/ (t \in ts /\ st \in Final)
      /\ [Updates!Next]_<<told, finals>>
  BY <1>1, TellUpdates DEF Core
<1>3. SenderType' /\ ClientType'
  BY <1>2 DEF Evolves, Core, SenderType, ClientType
<1>4. \A t \in Transfer : finals'[t] = 1 =>
        finals[t] = 1 \/ (t[1] <= Len(payload) /\ t[2] \notin payload'[t[1]].in)
  BY <1>2
<1>5. send' # Idle => send'.obj \in 1..Len(payload)
  BY DEF Core, SenderType, TrackedInv, Running, Payload
<1>6. TrackedInv' /\ EndedInv'
  BY <1>4, <1>5, EvolvesInv DEF Core, SenderType
<1>7. RefInv'
  BY RefFrame
<1> QED
  BY <1>2, <1>3, <1>6, <1>7 DEF Core, Told

\* The client sees nothing, and the objects stay.
LEMMA QuietCore ==
  ASSUME Core, UNCHANGED <<payload, tracked, execQ, send, told, finals>>,
         statusQ' \in Seq(Job), latch' \in 0..MaxPayload, link' \in [Endpoint -> Device]
  PROVE  Core' /\ Told
BY DEF Core, SenderType, ClientType, TrackedInv, RefInv, EndedInv, Tracks, Handles, Told

\* An object is replaced by a later version of it.
LEMMA EvolvesOne ==
  ASSUME Core, NEW o \in 1..Len(payload), NEW p \in Object, Later(payload[o], p),
         p.refs = payload[o].refs, payload' = [payload EXCEPT ![o] = p]
  PROVE  /\ Evolves /\ \A q \in 1..Len(payload) : payload'[q].refs = payload[q].refs
         /\ payload'[o] = p
<1>1. /\ payload' \in Seq(Object) /\ Len(payload') = Len(payload)
      /\ \A q \in 1..Len(payload) : payload'[q] = IF q = o THEN p ELSE payload[q]
  BY ReplaceObject DEF Core, SenderType
<1> QED
  BY <1>1 DEF Evolves, Later

\* SendClientCallbacksForFinishedOutgoingPayload
LEMMA FinishedOutgoingCore == ASSUME Core, FinishedOutgoing PROVE Core' /\ Told
<1> DEFINE j == Head(statusQ)
           o == tracked[j.i]
           ts == {o} \X (j.es \cap payload[o].in)
<1>1. j \in FinishedJob /\ statusQ' \in Seq(Job) /\ UNCHANGED <<tracked, execQ, send, link, latch>>
  BY TakeJob DEF FinishedOutgoing, links, shut
<1>2. j.i \in Id /\ j.st \in Final
  BY <1>1 DEF FinishedJob, Final
<1>3. CASE o = 0
  <2>1. UNCHANGED <<payload, told, finals>>
    BY <1>3 DEF FinishedOutgoing, client
  <2> QED
    BY <1>1, <2>1, QuietCore DEF Core, SenderType, ClientType
<1>4. CASE o # 0
  <2>1. o \in 1..Len(payload) /\ o \in Payload
    BY <1>2, <1>4 DEF Core, TrackedInv, SenderType, Payload
  <2>2. payload[o] \in Object /\ payload[o].in \subseteq Endpoint
    BY <2>1, SenderObjects, ObjectFields DEF Core
  <2>3. payload' = [payload EXCEPT ![o] = RemoveEndpoints(payload[o], j.es)] /\ Tell(ts, j.st)
    BY <1>4 DEF FinishedOutgoing
  <2>4. /\ RemoveEndpoints(payload[o], j.es) \in Object
        /\ Later(payload[o], RemoveEndpoints(payload[o], j.es))
        /\ RemoveEndpoints(payload[o], j.es).refs = payload[o].refs
        /\ RemoveEndpoints(payload[o], j.es).in = payload[o].in \ j.es
    BY <2>2, RemoveEndpointsObject
  <2>5. /\ Evolves /\ \A q \in 1..Len(payload) : payload'[q].refs = payload[q].refs
        /\ payload'[o].in = payload[o].in \ j.es
    BY <2>1, <2>3, <2>4, EvolvesOne
  <2>6. ts \in SUBSET Transfer /\ \A t \in ts : t[1] = o /\ t[2] \in j.es /\ t[2] \in payload[o].in
    BY <2>1, <2>2 DEF Transfer
  <2>7. \A t \in ts : t[2] \notin payload'[t[1]].in
    BY <2>5, <2>6
  <2>8. j.st \in {"progress"} \cup Final /\ j.st # "progress"
    BY <1>2 DEF Final
  <2> HIDE DEF ts
  <2> QED
    BY <1>1, <2>1, <2>3, <2>5, <2>6, <2>7, <2>8, LeaveCore
<1> QED
  BY <1>3, <1>4

\* HandleSuccessfulOutgoingChunk
LEMMA SuccessfulOutgoingChunkCore == ASSUME Core, SuccessfulOutgoingChunk PROVE Core' /\ Told
<1> DEFINE j == Head(statusQ)
           o == tracked[j.i]
           ts == {<<o, j.e>>}
           st == IF j.last THEN "success" ELSE "progress"
<1>1. j \in ChunkJob /\ statusQ' \in Seq(Job) /\ UNCHANGED <<tracked, execQ, send, link, latch>>
  BY TakeJob DEF SuccessfulOutgoingChunk, links, shut
<1>2. j.i \in Id /\ j.e \in Endpoint /\ j.last \in BOOLEAN
  BY <1>1 DEF ChunkJob
<1>3. CASE UNCHANGED <<payload, client>>
  BY <1>1, <1>3, QuietCore DEF Core, SenderType, ClientType, client
<1>4. CASE /\ o # 0 /\ j.e \in payload[o].in /\ Tell(ts, st)
           /\ payload' = IF j.last THEN [payload EXCEPT ![o] = RemoveEndpoints(@, {j.e})] ELSE payload
  <2>1. o \in 1..Len(payload) /\ o \in Payload
    BY <1>2, <1>4 DEF Core, TrackedInv, SenderType, Payload
  <2>2. payload[o] \in Object
    BY <2>1, SenderObjects DEF Core
  <2>3. /\ Evolves /\ \A q \in 1..Len(payload) : payload'[q].refs = payload[q].refs
        /\ j.last => j.e \notin payload'[o].in
    <3>1. CASE j.last
      <4>1. /\ RemoveEndpoints(payload[o], {j.e}) \in Object
            /\ Later(payload[o], RemoveEndpoints(payload[o], {j.e}))
            /\ RemoveEndpoints(payload[o], {j.e}).refs = payload[o].refs
            /\ RemoveEndpoints(payload[o], {j.e}).in = payload[o].in \ {j.e}
        BY <2>2, RemoveEndpointsObject
      <4>2. payload' = [payload EXCEPT ![o] = RemoveEndpoints(payload[o], {j.e})]
        BY <1>4, <3>1
      <4> QED
        BY <2>1, <4>1, <4>2, EvolvesOne
    <3>2. CASE ~j.last
      BY <1>4, <3>2 DEF Evolves, Later, Core, SenderType
    <3> QED
      BY <3>1, <3>2
  <2>4. ts \in SUBSET Transfer /\ <<o, j.e>> \in Transfer
    BY <1>2, <2>1 DEF Transfer
  <2>5. st \in {"progress"} \cup Final /\ (st \in Final => j.last)
    BY DEF Final
  <2>6. \A t \in ts : t[1] = o /\ t[2] = j.e
    OBVIOUS
  <2>7. \E t \in Transfer : ts = {t}
    BY <2>4
  <2> HIDE DEF ts, st
  <2> QED
    BY <1>1, <1>4, <2>1, <2>3, <2>4, <2>5, <2>6, <2>7, LeaveCore
<1> QED
  BY <1>3, <1>4 DEF SuccessfulOutgoingChunk

\* DestroyPendingPayload gives up the reference of pending_payloads_.
LEMMA DestroyPendingPayloadCore == ASSUME Core, DestroyPendingPayload PROVE Core' /\ Told
<1> DEFINE i == Head(statusQ).i
           o == tracked[i]
<1>1. /\ Head(statusQ) \in DestroyJob /\ Tail(statusQ) \in Seq(Job)
      /\ UNCHANGED <<execQ, send, told, finals, link, latch>>
  BY TakeJob DEF DestroyPendingPayload, client, links, shut
<1>2. i \in Id
  BY <1>1 DEF DestroyJob
<1>3. CASE o = 0
  BY <1>1, <1>3, QuietCore DEF DestroyPendingPayload, Core, SenderType, ClientType
<1>4. CASE o # 0
  <2>1. o \in 1..Len(payload)
    BY <1>2, <1>4 DEF Core, TrackedInv, SenderType
  <2>2. /\ payload' = DropRef(payload, o) /\ tracked' = [tracked EXCEPT ![i] = 0]
        /\ statusQ' = Tail(statusQ) \o DestroyJobs(o)
    BY <1>4 DEF DestroyPendingPayload
  <2>3. /\ Evolves
        /\ \A q \in 1..Len(payload) :
             payload'[q].refs = IF q = o THEN payload[q].refs - 1 ELSE payload[q].refs
    BY <2>1, <2>2, DropRefObject DEF Evolves, Core, SenderType
  <2>4. statusQ' \in Seq(Job)
    BY <1>1, <2>2, DestroyJobsType, JobQueues
  <2>5. tracked' \in [Id -> 0..MaxPayload] /\ \A n \in Id : tracked'[n] \in {0, tracked[n]}
    <3>1. 0 \in 0..MaxPayload /\ tracked \in [Id -> 0..MaxPayload]
      BY PayloadAssumption DEF Core, SenderType
    <3> QED
      BY <2>2, <3>1
  <2>6. SenderType' /\ ClientType'
    BY <1>1, <2>3, <2>4, <2>5 DEF Evolves, Core, SenderType, ClientType
  <2>7. send' # Idle => send'.obj \in 1..Len(payload)
    BY <1>1 DEF Core, SenderType, TrackedInv, Running, Payload
  <2>8. TrackedInv' /\ EndedInv'
    BY <1>1, <2>3, <2>5, <2>7, EvolvesInv
  <2>9. RefInv'
    <3> SUFFICES ASSUME NEW q \in 1..Len(payload) PROVE payload'[q].refs = Tracks(q)' + Handles(q)'
      BY <2>3 DEF RefInv, Evolves
    <3>1. payload'[q].id = payload[q].id /\ payload[q].id \in Id
      BY <2>3, SenderObjects DEF Evolves, Later, Core
    <3>2. Tracks(q)' = IF q = o THEN Tracks(q) - 1 ELSE Tracks(q)
      BY <1>2, <2>1, <2>2, <3>1 DEF Tracks, Core, SenderType, TrackedInv
    <3>3. Handles(q)' = Handles(q)
      BY <1>1 DEF Handles
    <3>4. payload[q].refs = Tracks(q) + Handles(q)
      BY DEF Core, RefInv
    <3> QED
      BY <2>3, <3>2, <3>3, <3>4 DEF Tracks, Handles
  <2> QED
    BY <1>1, <2>6, <2>8, <2>9 DEF Core, Told
<1> QED
  BY <1>3, <1>4

\* OnEndpointDisconnect fails the transfers of one endpoint.
LEMMA DisconnectedCore == ASSUME Core, Disconnected PROVE Core' /\ Told
<1> DEFINE e == Head(statusQ).e
           hit == {o \in {tracked[i] : i \in Id} \ {0} : e \in payload[o].in}
           ts == hit \X {e}
           f == [o \in 1..Len(payload) |->
                   IF o \in hit THEN RemoveEndpoints(payload[o], {e}) ELSE payload[o]]
<1>1. /\ Head(statusQ) \in DisconnectJob /\ statusQ' \in Seq(Job)
      /\ UNCHANGED <<tracked, execQ, send, link, latch>>
  BY TakeJob DEF Disconnected, shut
<1>2. e \in Endpoint
  BY <1>1 DEF DisconnectJob
<1>3. hit \subseteq 1..Len(payload) /\ \A o \in hit : e \in payload[o].in
  BY DEF Core, TrackedInv, SenderType
<1>4. DOMAIN payload = 1..Len(payload) /\ Len(payload) \in Nat
      /\ \A o \in 1..Len(payload) : payload[o] \in Object /\ o \in Payload
  BY SenderObjects, PayloadAssumption DEF Core, SenderType, Payload
<1>5. Tell(ts, "failure") /\ payload' = [o \in DOMAIN payload |-> f[o]]
  BY <1>4 DEF Disconnected
<1> HIDE DEF hit
<1>6. \A o \in 1..Len(payload) :
        /\ f[o] \in Object /\ Later(payload[o], f[o]) /\ f[o].refs = payload[o].refs
        /\ o \in hit => e \notin f[o].in
  <2> SUFFICES ASSUME NEW o \in 1..Len(payload)
               PROVE  /\ f[o] \in Object /\ Later(payload[o], f[o]) /\ f[o].refs = payload[o].refs
                      /\ o \in hit => e \notin f[o].in
    OBVIOUS
  <2>1. CASE o \in hit
    BY <1>4, <2>1, RemoveEndpointsObject
  <2>2. CASE o \notin hit
    BY <1>4, <2>2 DEF Later
  <2> QED
    BY <2>1, <2>2
<1> HIDE DEF f
<1>7. /\ payload' \in Seq(Object) /\ Len(payload') = Len(payload)
      /\ \A q \in 1..Len(payload) : payload'[q] = f[q]
  <2>1. payload \in Seq(Object)
    BY DEF Core, SenderType
  <2>2. \A o \in 1..Len(payload) : f[o] \in Object
    BY <1>6
  <2> QED
    BY <1>5, <2>1, <2>2, ReplaceObjects
<1>8. Evolves /\ \A q \in 1..Len(payload) : payload'[q].refs = payload[q].refs
  BY <1>6, <1>7 DEF Evolves
<1>9. ts \in SUBSET Transfer /\ \A t \in ts : t[1] \in hit /\ t[2] = e
  BY <1>2, <1>3, <1>4 DEF Transfer
<1>10. \A t \in ts : t[2] \notin payload'[t[1]].in
  BY <1>3, <1>6, <1>7, <1>9
<1>11. "failure" \in {"progress"} \cup Final
  BY DEF Final
<1> HIDE DEF ts
<1> QED
  BY <1>1, <1>3, <1>5, <1>8, <1>9, <1>10, <1>11, LeaveCore

\* StopTrackingAllPayloads gives up every reference of pending_payloads_.
LEMMA StopTrackingAllCore == ASSUME Core, StopTrackingAll PROVE Core' /\ Told
<1> DEFINE os == {tracked[i] : i \in Id} \ {0}
           f == [o \in 1..Len(payload) |-> IF o \in os THEN DropRef(payload, o)[o] ELSE payload[o]]
<1>1. /\ statusQ' = <<>> /\ tracked' = [i \in Id |-> 0]
      /\ UNCHANGED <<execQ, send, told, finals, link, latch>>
  BY DEF StopTrackingAll, client, links
<1>2. DOMAIN payload = 1..Len(payload)
      /\ \A o \in 1..Len(payload) : payload[o] \in Object /\ payload[o].id \in Id
  BY SenderObjects DEF Core
<1>3. payload' = [o \in DOMAIN payload |-> f[o]]
  BY <1>2 DEF StopTrackingAll
<1>4. \A o \in 1..Len(payload) : o \in os <=> tracked[payload[o].id] = o
  BY <1>2 DEF Core, SenderType, TrackedInv
<1> HIDE DEF os
<1>5. \A o \in 1..Len(payload) :
        /\ f[o] \in Object /\ Later(payload[o], f[o])
        /\ f[o].refs = payload[o].refs - Tracks(o)
  <2> SUFFICES ASSUME NEW o \in 1..Len(payload)
               PROVE  f[o] \in Object /\ Later(payload[o], f[o]) /\ f[o].refs = payload[o].refs - Tracks(o)
    OBVIOUS
  <2>1. CASE o \in os
    <3>1. /\ DropRef(payload, o) \in Seq(Object) /\ Len(DropRef(payload, o)) = Len(payload)
          /\ Later(payload[o], DropRef(payload, o)[o])
          /\ DropRef(payload, o)[o].refs = payload[o].refs - 1
      BY DropRefObject DEF Core, SenderType
    <3>2. f[o] = DropRef(payload, o)[o] /\ Tracks(o) = 1
      BY <1>4, <2>1 DEF Tracks
    <3> QED
      BY <3>1, <3>2
  <2>2. CASE o \notin os
    <3>1. f[o] = payload[o] /\ Tracks(o) = 0
      BY <1>4, <2>2 DEF Tracks
    <3>2. payload[o].refs \in Int
      BY <1>2, ObjectFields
    <3> QED
      BY <1>2, <3>1, <3>2 DEF Later
  <2> QED
    BY <2>1, <2>2
<1> HIDE DEF f
<1>6. /\ payload' \in Seq(Object) /\ Len(payload') = Len(payload)
      /\ \A q \in 1..Len(payload) : payload'[q] = f[q]
  <2>1. payload \in Seq(Object)
    BY DEF Core, SenderType
  <2> QED
    BY <1>3, <1>5, <2>1, ReplaceObjects
<1>7. Evolves
  BY <1>5, <1>6 DEF Evolves
<1>8. tracked' \in [Id -> 0..MaxPayload] /\ \A i \in Id : tracked'[i] = 0
  BY <1>1, PayloadAssumption
<1>9. SenderType' /\ ClientType'
  BY <1>1, <1>6, <1>8 DEF Core, SenderType, ClientType
<1>10. send' # Idle => send'.obj \in 1..Len(payload)
  BY <1>1 DEF Core, SenderType, TrackedInv, Running, Payload
<1>11. TrackedInv' /\ EndedInv'
  BY <1>1, <1>7, <1>8, <1>10, EvolvesInv
<1>12. RefInv'
  <2> SUFFICES ASSUME NEW q \in 1..Len(payload) PROVE payload'[q].refs = Tracks(q)' + Handles(q)'
    BY <1>6 DEF RefInv
  <2>1. Tracks(q)' = 0 /\ Handles(q)' = Handles(q)
    BY <1>1, <1>2, <1>7, <1>8 DEF Tracks, Handles, Evolves, Later
  <2>2. payload[q].refs = Tracks(q) + Handles(q)
    BY DEF Core, RefInv
  <2> QED
    BY <1>5, <1>6, <2>1, <2>2 DEF Tracks, Handles
<1> QED
  BY <1>1, <1>9, <1>11, <1>12 DEF Core, Told

\* CancelAllPayloads marks and closes what is tracked, and waits for as many objects.
LEMMA CancelAllPayloadsCore == ASSUME Core, CancelAllPayloads PROVE Core' /\ Told
<1> DEFINE os == {tracked[i] : i \in Id} \ {0}
           f == [o \in 1..Len(payload) |->
                   IF o \in os THEN [payload[o] EXCEPT !.canceled = TRUE, !.closed = TRUE]
                   ELSE payload[o]]
<1>1. /\ latch' = Cardinality(os)
      /\ UNCHANGED <<tracked, execQ, send, statusQ, told, finals, link>>
  BY DEF CancelAllPayloads, client, links
<1>2. DOMAIN payload = 1..Len(payload) /\ \A o \in 1..Len(payload) : payload[o] \in Object
  BY SenderObjects DEF Core
<1>3. payload' = [o \in DOMAIN payload |-> f[o]]
  BY <1>2 DEF CancelAllPayloads
<1>4. latch' \in 0..MaxPayload
  <2>1. os \in SUBSET (1..MaxPayload)
    BY PayloadAssumption DEF Core, SenderType
  <2>2. IsFiniteSet(1..MaxPayload) /\ Cardinality(1..MaxPayload) = MaxPayload
    BY PayloadAssumption, FS_Interval
  <2> HIDE DEF os
  <2>3. IsFiniteSet(os) /\ Cardinality(os) <= MaxPayload
    BY <2>1, <2>2, FS_Subset
  <2>4. Cardinality(os) \in Nat
    BY <2>3, FS_CardinalityType
  <2> QED
    BY <1>1, <2>3, <2>4, PayloadAssumption
<1> HIDE DEF os
<1>5. \A o \in 1..Len(payload) :
        f[o] \in Object /\ Later(payload[o], f[o]) /\ f[o].refs = payload[o].refs
  <2>1. \A p \in Object :
          LET q == [p EXCEPT !.canceled = TRUE, !.closed = TRUE]
          IN q \in Object /\ Later(p, q) /\ q.refs = p.refs
    BY DEF Object, Later
  <2>2. \A p : Later(p, p)
    BY DEF Later
  <2> QED
    BY <1>2, <2>1, <2>2
<1> HIDE DEF f
<1>6. /\ payload' \in Seq(Object) /\ Len(payload') = Len(payload)
      /\ \A q \in 1..Len(payload) : payload'[q] = f[q]
  <2>1. payload \in Seq(Object)
    BY DEF Core, SenderType
  <2> QED
    BY <1>3, <1>5, <2>1, ReplaceObjects
<1>7. Evolves /\ \A q \in 1..Len(payload) : payload'[q].refs = payload[q].refs
  BY <1>5, <1>6 DEF Evolves
<1>8. SenderType' /\ ClientType'
  BY <1>1, <1>4, <1>6 DEF Core, SenderType, ClientType
<1>9. send' # Idle => send'.obj \in 1..Len(payload)
  BY <1>1 DEF Core, SenderType, TrackedInv, Running, Payload
<1>10. TrackedInv' /\ EndedInv'
  BY <1>1, <1>7, <1>9, EvolvesInv DEF Core, SenderType
<1>11. RefInv'
  BY <1>1, <1>7, RefFrame
<1> QED
  BY <1>1, <1>8, <1>10, <1>11 DEF Core, Told

\* ProcessControlPacket sets the status of one endpoint of one object.
LEMMA ProcessControlPacketCore ==
  ASSUME Core, NetType, NEW e \in Endpoint, ProcessControlPacket(e) PROVE Core' /\ Told
<1> DEFINE f == Head(back[e])
           o == tracked[f.i]
<1>1. UNCHANGED <<tracked, execQ, send, statusQ, told, finals, link, latch>>
  BY DEF ProcessControlPacket, client, links, shut
<1>2. f \in Answer
  BY DEF ProcessControlPacket, NetType
<1>3. f.i \in Id /\ f.k \in Status
  BY <1>2 DEF Answer, Status
<1>4. CASE payload' = payload
  BY <1>1, <1>4, QuietCore DEF Core, SenderType, ClientType
<1>5. CASE o # 0 /\ payload' = [payload EXCEPT ![o].status[e] = f.k]
  <2> DEFINE p == [payload[o] EXCEPT !.status = [payload[o].status EXCEPT ![e] = f.k]]
  <2>1. o \in 1..Len(payload)
    <3>1. tracked[f.i] \in 0..MaxPayload /\ tracked[f.i] <= Len(payload)
      BY <1>3, <1>5 DEF Core, TrackedInv, SenderType
    <3>2. tracked[f.i] # 0
      BY <1>5
    <3> QED
      BY <3>1, <3>2
  <2>2. payload[o] \in Object
    BY <2>1, SenderObjects DEF Core
  <2>3. p \in Object /\ Later(payload[o], p) /\ p.refs = payload[o].refs
    BY <1>3, <2>2 DEF Object, Later
  <2>4. payload' = [payload EXCEPT ![o] = p]
    BY <1>5
  <2> HIDE DEF p
  <2>5. Evolves /\ \A q \in 1..Len(payload) : payload'[q].refs = payload[q].refs
    BY <2>1, <2>3, <2>4, EvolvesOne
  <2>6. SenderType' /\ ClientType'
    BY <1>1, <2>5 DEF Core, SenderType, ClientType, Evolves
  <2>7. send' # Idle => send'.obj \in 1..Len(payload)
    BY <1>1 DEF Core, SenderType, TrackedInv, Running, Payload
  <2>8. TrackedInv' /\ EndedInv'
    BY <1>1, <2>5, <2>7, EvolvesInv DEF Core, SenderType
  <2>9. RefInv'
    BY <1>1, <2>5, RefFrame
  <2> QED
    BY <1>1, <2>6, <2>8, <2>9 DEF Core, Told
<1> QED
  BY <1>4, <1>5 DEF ProcessControlPacket

-----------------------------------------------------------------------------
(* The channels and the receivers.                                         *)

\* A frame written to some endpoints, and one read from or cut off a channel.
LEMMA FrameQueues ==
  ASSUME NEW S
  PROVE  /\ \A q \in Seq(S), f \in S : Append(q, f) \in Seq(S)
         /\ \A q, r \in Seq(S) : q \o r \in Seq(S)
         /\ \A q \in Seq(S) : q # <<>> => Tail(q) \in Seq(S) /\ Head(q) \in S
         /\ \A q \in Seq(S), n \in {0, 1} : ReadAlready(q, n) \in Seq(S)
<1>1. ASSUME NEW q \in Seq(S), NEW n \in {0, 1} PROVE ReadAlready(q, n) \in Seq(S)
  <2>1. PICK m \in 0..Len(q) : ReadAlready(q, n) = SubSeq(q, 1, m)
    BY DEF ReadAlready
  <2> QED
    BY <2>1
<1> QED
  BY <1>1

\* Write leaves every channel a queue of frames.
LEMMA WriteType ==
  ASSUME NetType, NEW es, NEW f \in Frame, Write(es, f)
  PROVE  wire' \in [Endpoint -> Seq(Frame)]
BY FrameQueues DEF NetType, Write

\* The frame of a control message about an object.
LEMMA SendControlType ==
  ASSUME Core, NetType, NEW o \in 1..Len(payload), NEW es, NEW event \in {"canceled", "error"},
         SendControl(o, es, event)
  PROVE  wire' \in [Endpoint -> Seq(Frame)]
<1>1. o \in Payload /\ payload[o].id \in Id
  BY PayloadAssumption, SenderObjects DEF Payload, Core, SenderType
<1>2. [k |-> event, i |-> payload[o].id, obj |-> o] \in Frame
  BY <1>1 DEF Frame, ControlFrame
<1> QED
  BY <1>2, WriteType DEF SendControl

\* What the sender's job writes.
LEMMA SendJobNet ==
  ASSUME IInv,
         CheckEndpoints \/ PayloadGrown \/ \E failed \in SUBSET Endpoint : SendPayloadChunk(failed)
  PROVE  NetType' /\ ReceiverType'
<1>1. send.obj \in 1..Len(payload) /\ payload[send.obj].id \in Id
  BY RunningJob DEF IInv, CheckEndpoints, PayloadGrown, SendPayloadChunk
<1>2. UNCHANGED <<back, broken, receiver>>
  BY DEF CheckEndpoints, PayloadGrown, SendPayloadChunk
<1>3. wire' \in [Endpoint -> Seq(Frame)]
  <2>1. CASE CheckEndpoints
    BY <1>1, <2>1, SendControlType DEF CheckEndpoints, IInv, NetType
  <2>2. CASE PayloadGrown
    BY <1>1, <2>2, SendControlType DEF PayloadGrown, IInv
  <2>3. ASSUME NEW failed \in SUBSET Endpoint, SendPayloadChunk(failed)
        PROVE  wire' \in [Endpoint -> Seq(Frame)]
    <3> DEFINE f == [k |-> "data", i |-> payload[send.obj].id, obj |-> send.obj,
                     off |-> send.off - payload[send.obj].resume, last |-> send.n = 0]
    <3>1. send.obj \in Payload
      BY <1>1, PayloadAssumption, SenderObjects DEF Payload, Core, SenderType, IInv
    <3>2. send.off - payload[send.obj].resume \in Int
      <4>1. send.off \in Nat /\ payload[send.obj] \in Object
        BY <2>3, RunningJob DEF IInv, SendPayloadChunk
      <4> QED
        BY <4>1, ObjectFields
    <3>3. f \in Frame
      BY <1>1, <3>1, <3>2 DEF Frame, DataFrame
    <3>4. Write(send.eps \ failed, f)
      BY <2>3 DEF SendPayloadChunk
    <3> QED
      BY <3>3, <3>4, WriteType DEF IInv
  <2> QED
    BY <2>1, <2>2, <2>3
<1> QED
  BY <1>2, <1>3 DEF NetType, IInv, ReceiverType, receiver

\* A frame from the sender.
LEMMA WireFrame ==
  ASSUME NetType, NEW e \in Endpoint, wire[e] # <<>>
  PROVE  /\ Head(wire[e]) \in Frame /\ Head(wire[e]).i \in Id /\ Head(wire[e]).obj \in Payload
         /\ Head(wire[e]).k = "data" => Head(wire[e]).last \in BOOLEAN
         /\ [wire EXCEPT ![e] = Tail(@)] \in [Endpoint -> Seq(Frame)]
<1>1. Head(wire[e]) \in Frame /\ Tail(wire[e]) \in Seq(Frame)
  BY FrameQueues DEF NetType
<1>2. \A f \in Frame : f.i \in Id /\ f.obj \in Payload /\ (f.k = "data" => f.last \in BOOLEAN)
  BY DEF Frame, DataFrame, ControlFrame
<1> QED
  BY <1>1, <1>2 DEF NetType

\* The jobs of a receiver and its control frames are of their types.
LEMMA RPostType ==
  ASSUME ReceiverType, NEW e \in Endpoint, NEW js \in Seq(RJob), RPost(e, js)
  PROVE  rstatusQ' \in [Endpoint -> Seq(RJob)]
BY FrameQueues DEF ReceiverType, RPost

\* A control frame to the sender is an answer in its queue.
LEMMA SendBackType ==
  ASSUME NetType, NEW e \in Endpoint, NEW event \in {"canceled", "error"}, NEW i \in Id,
         SendBack(e, event, i)
  PROVE  back' \in [Endpoint -> Seq(Answer)]
<1>1. [k |-> event, i |-> i] \in Answer
  BY DEF Answer
<1> QED
  BY <1>1, FrameQueues DEF SendBack, NetType

\* RTell counts the updates of a receiver.
LEMMA RTellType ==
  ASSUME ReceiverType, NEW e \in Endpoint, NEW os, NEW st, RTell(e, os, st)
  PROVE  rfinals' \in [Transfer -> Nat]
BY DEF ReceiverType, RTell

\* The incoming payload a frame belongs to.
LEMMA IncomingType ==
  ASSUME ReceiverType, NEW e \in Endpoint, NEW f, f.i \in Id, f.obj \in Payload
  PROVE  Incoming(e, f) \in IncomingPayload
<1>1. in[e][f.i] \in IncomingPayload
  BY DEF ReceiverType
<1>2. f.obj \in 0..MaxPayload
  BY DEF Payload
<1> QED
  BY <1>1, <1>2 DEF Incoming, IncomingPayload

\* ProcessDataPacket
LEMMA ProcessDataPacketNet ==
  ASSUME NetType, ReceiverType, NEW e \in Endpoint, ProcessDataPacket(e)
  PROVE  NetType' /\ ReceiverType'
<1> DEFINE f == Head(wire[e])
           p == Incoming(e, f)
           first == IF f.off = 0 THEN <<[k |-> "payload", i |-> f.i, obj |-> f.obj]>> ELSE <<>>
           end(st) == [k |-> "finished", i |-> f.i, st |-> st]
           chunk == [k |-> "chunk", i |-> f.i, last |-> f.last]
<1>1. /\ wire' = [wire EXCEPT ![e] = Tail(@)] /\ in' = [in EXCEPT ![e][f.i] = p]
      /\ wire[e] # <<>> /\ f.k = "data"
      /\ UNCHANGED <<broken, handed, rlink, rbarrier, rtold, rfinals>>
  BY DEF ProcessDataPacket
<1>2. /\ f.i \in Id /\ f.obj \in Payload /\ f.last \in BOOLEAN
      /\ wire' \in [Endpoint -> Seq(Frame)]
  BY <1>1, WireFrame
<1>3. p \in IncomingPayload
  BY <1>2, IncomingType
<1>4. in' \in [Endpoint -> [Id -> IncomingPayload]]
  <2> HIDE DEF p
  <2> QED
    BY <1>1, <1>2, <1>3 DEF ReceiverType
<1>5. /\ chunk \in RJob /\ end("canceled") \in RJob /\ end("failure") \in RJob
      /\ [k |-> "payload", i |-> f.i, obj |-> f.obj] \in RJob
  BY <1>2 DEF RJob
<1>6. first \in Seq(RJob)
  BY <1>5
<1>7. \/ UNCHANGED <<rstatusQ, back>>
      \/ RPost(e, <<end("canceled")>>) /\ SendBack(e, "canceled", f.i)
      \/ RPost(e, Append(first, end("failure"))) /\ SendBack(e, "error", f.i)
      \/ RPost(e, Append(first, chunk)) /\ UNCHANGED back
  BY DEF ProcessDataPacket
<1> HIDE DEF first, end, chunk, f
<1>8. /\ <<end("canceled")>> \in Seq(RJob) /\ Append(first, end("failure")) \in Seq(RJob)
      /\ Append(first, chunk) \in Seq(RJob)
  BY <1>5, <1>6
<1>9. rstatusQ' \in [Endpoint -> Seq(RJob)] /\ back' \in [Endpoint -> Seq(Answer)]
  <2>1. CASE UNCHANGED <<rstatusQ, back>>
    BY <2>1 DEF NetType, ReceiverType
  <2>2. CASE RPost(e, <<end("canceled")>>) /\ SendBack(e, "canceled", f.i)
    BY <1>2, <1>8, <2>2, RPostType, SendBackType
  <2>3. CASE RPost(e, Append(first, end("failure"))) /\ SendBack(e, "error", f.i)
    BY <1>2, <1>8, <2>3, RPostType, SendBackType
  <2>4. CASE RPost(e, Append(first, chunk)) /\ UNCHANGED back
    BY <1>8, <2>4, RPostType DEF NetType
  <2> QED
    BY <1>7, <2>1, <2>2, <2>3, <2>4
<1>10. got' \in [Transfer -> Nat]
  <2>1. PICK t : UNCHANGED got \/ got' = [got EXCEPT ![t] = @ + 1]
    BY DEF ProcessDataPacket
  <2>2. got \in [Transfer -> Nat]
    BY DEF ReceiverType
  <2>3. [got EXCEPT ![t] = @ + 1] = [u \in Transfer |-> IF u = t THEN got[t] + 1 ELSE got[u]]
    BY <2>2
  <2>4. [got EXCEPT ![t] = @ + 1] \in [Transfer -> Nat]
    <3>1. \A u \in Transfer : (IF u = t THEN got[t] + 1 ELSE got[u]) \in Nat
      BY <2>2
    <3> QED
      BY <2>3, <3>1
  <2> QED
    BY <2>1, <2>2, <2>4
<1> QED
  BY <1>1, <1>2, <1>4, <1>9, <1>10 DEF NetType, ReceiverType

\* ProcessControlPacket at a receiver.
LEMMA ProcessIncomingControlNet ==
  ASSUME NetType, ReceiverType, NEW e \in Endpoint, ProcessIncomingControl(e)
  PROVE  NetType' /\ ReceiverType'
<1> DEFINE f == Head(wire[e])
           j == [k |-> "finished", i |-> f.i, st |-> UpdateStatus(f.k)]
<1>1. /\ wire' = [wire EXCEPT ![e] = Tail(@)] /\ wire[e] # <<>>
      /\ UNCHANGED <<back, broken, in, got, handed, rlink, rfinals>>
  BY DEF ProcessIncomingControl
<1>2. f.i \in Id /\ wire' \in [Endpoint -> Seq(Frame)]
  BY <1>1, WireFrame
<1>3. j \in RJob
  BY <1>2 DEF RJob, UpdateStatus
<1>4. RPost(e, <<j>>) \/ UNCHANGED rstatusQ
  BY DEF ProcessIncomingControl
<1> HIDE DEF j
<1>5. <<j>> \in Seq(RJob)
  BY <1>3
<1>6. rstatusQ' \in [Endpoint -> Seq(RJob)]
  BY <1>4, <1>5, RPostType DEF ReceiverType
<1> QED
  BY <1>1, <1>2, <1>6 DEF NetType, ReceiverType

\* A job of a receiver's status-update executor.
LEMMA RTakeJob ==
  ASSUME ReceiverType, NEW e \in Endpoint, NEW k, RTake(e, k)
  PROVE  /\ [rstatusQ EXCEPT ![e] = Tail(@)] \in [Endpoint -> Seq(RJob)]
         /\ Head(rstatusQ[e]) \in RJob
         /\ k = "payload" => Head(rstatusQ[e]).obj \in Payload
         /\ k \in {"chunk", "finished"} => Head(rstatusQ[e]).i \in Id
<1>1. /\ Head(rstatusQ[e]) \in RJob /\ Tail(rstatusQ[e]) \in Seq(RJob) /\ Head(rstatusQ[e]).k = k
  BY FrameQueues DEF RTake, ReceiverType
<1>2. \A j \in RJob : /\ j.k = "payload" => j.obj \in Payload
                      /\ j.k \in {"chunk", "finished"} => j.i \in Id
  BY DEF RJob
<1> QED
  BY <1>1, <1>2 DEF ReceiverType

\* The callbacks of a receiver.
LEMMA ReceiverStatusUpdateNet ==
  ASSUME NetType, ReceiverType, NEW e \in Endpoint, ReceiverStatusUpdate(e)
  PROVE  NetType' /\ ReceiverType'
<1>1. NetType'
  BY DEF ReceiverStatusUpdate, OnPayload, SuccessfulIncomingChunk, FinishedIncoming,
         IncomingDisconnected, channels, NetType
<1>2. CASE OnPayload(e)
  <2>1. /\ Head(rstatusQ[e]).obj \in Payload /\ rstatusQ' \in [Endpoint -> Seq(RJob)]
    BY <1>2, RTakeJob DEF OnPayload
  <2>2. handed' \subseteq Transfer
    BY <1>2, <2>1 DEF OnPayload, ReceiverType, Transfer
  <2> QED
    BY <1>1, <1>2, <2>1, <2>2 DEF OnPayload, ReceiverType
<1>3. CASE SuccessfulIncomingChunk(e)
  <2>1. rstatusQ' \in [Endpoint -> Seq(RJob)]
    BY <1>3, RTakeJob DEF SuccessfulIncomingChunk
  <2>2. rfinals' \in [Transfer -> Nat]
    BY <1>3, RTellType DEF SuccessfulIncomingChunk, ReceiverType
  <2> QED
    BY <1>1, <1>3, <2>1, <2>2 DEF SuccessfulIncomingChunk, ReceiverType
<1>4. CASE FinishedIncoming(e)
  <2>1. rstatusQ' \in [Endpoint -> Seq(RJob)] /\ Head(rstatusQ[e]).i \in Id
    BY <1>4, RTakeJob DEF FinishedIncoming
  <2>2. rfinals' \in [Transfer -> Nat]
    BY <1>4, RTellType DEF FinishedIncoming, ReceiverType
  <2>3. NoPayload \in IncomingPayload
    BY PayloadAssumption DEF NoPayload, IncomingPayload
  <2>4. in' \in [Endpoint -> [Id -> IncomingPayload]]
    <3> DEFINE i == Head(rstatusQ[e]).i
    <3>1. in' = in \/ in' = [in EXCEPT ![e][i] = NoPayload]
      BY <1>4 DEF FinishedIncoming
    <3>2. i \in Id
      BY <2>1
    <3> HIDE DEF i
    <3>3. [in[e] EXCEPT ![i] = NoPayload] \in [Id -> IncomingPayload]
      BY <2>3, <3>2 DEF ReceiverType
    <3>4. in' = in \/ in' = [in EXCEPT ![e] = [in[e] EXCEPT ![i] = NoPayload]]
      BY <3>1
    <3> QED
      BY <3>3, <3>4 DEF ReceiverType
  <2> QED
    BY <1>1, <1>4, <2>1, <2>2, <2>4 DEF FinishedIncoming, ReceiverType
<1>5. CASE IncomingDisconnected(e)
  <2> DEFINE hit == {i \in Id : in[e][i].on /\ in[e][i].ep}
             new == [i \in Id |-> IF i \in hit THEN [in[e][i] EXCEPT !.ep = FALSE] ELSE in[e][i]]
  <2>1. rstatusQ' \in [Endpoint -> Seq(RJob)]
    BY <1>5, RTakeJob DEF IncomingDisconnected
  <2>2. rfinals' \in [Transfer -> Nat]
    BY <1>5, RTellType DEF IncomingDisconnected
  <2>3. new \in [Id -> IncomingPayload]
    <3>1. \A p \in IncomingPayload : [p EXCEPT !.ep = FALSE] \in IncomingPayload
      BY DEF IncomingPayload
    <3>2. \A i \in Id : in[e][i] \in IncomingPayload
      BY DEF ReceiverType
    <3> QED
      BY <3>1, <3>2
  <2>4. in' = [in EXCEPT ![e] = new]
    BY <1>5 DEF IncomingDisconnected
  <2> HIDE DEF new
  <2>5. in' \in [Endpoint -> [Id -> IncomingPayload]]
    BY <2>3, <2>4 DEF ReceiverType
  <2> QED
    BY <1>1, <1>5, <2>1, <2>2, <2>5 DEF IncomingDisconnected, ReceiverType
<1> QED
  BY <1>1, <1>2, <1>3, <1>4, <1>5 DEF ReceiverStatusUpdate

\* A receiver cancels a payload, or removes the sender.
LEMMA ReceiverEndsNet ==
  ASSUME NetType, ReceiverType, NEW e \in Endpoint,
         RemoveSender(e) \/ OnSenderDisconnected(e) \/ \E i \in Id : CancelIncomingPayload(e, i)
  PROVE  NetType' /\ ReceiverType'
<1>1. CASE RemoveSender(e)
  <2>1. PICK n \in {0, 1} : wire' = [wire EXCEPT ![e] = ReadAlready(@, n)]
    BY <1>1 DEF RemoveSender
  <2>2. wire' \in [Endpoint -> Seq(Frame)]
    BY <2>1, FrameQueues DEF NetType
  <2>3. <<[k |-> "disconnect"]>> \in Seq(RJob)
    <3>1. [k |-> "disconnect"] \in RJob
      BY DEF RJob
    <3> QED
      BY <3>1
  <2>4. rstatusQ' \in [Endpoint -> Seq(RJob)]
    BY <1>1, <2>3, RPostType DEF RemoveSender
  <2> QED
    BY <1>1, <2>2, <2>4 DEF RemoveSender, NetType, ReceiverType, Device
<1>2. CASE OnSenderDisconnected(e)
  BY <1>2 DEF OnSenderDisconnected, channels, NetType, ReceiverType, Device
<1>3. ASSUME NEW i \in Id, CancelIncomingPayload(e, i) PROVE NetType' /\ ReceiverType'
  <2> DEFINE p == [in[e][i] EXCEPT !.canceled = TRUE]
  <2>1. in[e][i] \in IncomingPayload
    BY DEF ReceiverType
  <2>2. p \in IncomingPayload
    BY <2>1 DEF IncomingPayload
  <2>3. in' = [in EXCEPT ![e][i] = p]
    BY <1>3 DEF CancelIncomingPayload
  <2> HIDE DEF p
  <2>4. in' \in [Endpoint -> [Id -> IncomingPayload]]
    BY <2>2, <2>3 DEF ReceiverType
  <2> QED
    BY <1>3, <2>4 DEF CancelIncomingPayload, channels, NetType, ReceiverType
<1> QED
  BY <1>1, <1>2, <1>3

-----------------------------------------------------------------------------
(* The invariant.                                                          *)

\* Nothing is sent yet.
LEMMA InitInv == Init => IInv /\ Updates!Init
<1> SUFFICES ASSUME Init PROVE IInv /\ Updates!Init
  OBVIOUS
<1>1. SenderType
  BY PayloadAssumption DEF Init, SenderType
<1>2. ClientType
  BY DEF Init, ClientType, Device
<1>3. TrackedInv /\ RefInv /\ EndedInv
  BY DEF Init, TrackedInv, RefInv, EndedInv
<1>4. NetType
  BY DEF Init, NetType
<1>5. ReceiverType
  <2>1. NoPayload \in IncomingPayload
    BY PayloadAssumption DEF NoPayload, IncomingPayload
  <2>2. <<>> \in Seq(RJob)
    OBVIOUS
  <2> QED
    BY <2>1, <2>2 DEF Init, ReceiverType, Device
<1>6. Updates!Init
  BY DEF Init, Updates!Init
<1> QED
  BY <1>1, <1>2, <1>3, <1>4, <1>5, <1>6 DEF IInv, Core

\* The sender's threads.
LEMMA SenderStep == ASSUME IInv, SendJob \/ StatusUpdate PROVE IInv' /\ Told
<1>1. CASE CheckEndpoints \/ PayloadGrown \/ \E failed \in SUBSET Endpoint : SendPayloadChunk(failed)
  BY <1>1, SendJobNet, CheckEndpointsCore, PayloadGrownCore, SendPayloadChunkCore DEF IInv
<1>2. CASE \/ StartJob \/ GetEndpoints \/ (\E n \in {0, 1} : DetachNextChunk(n))
           \/ EndJob \/ ReleaseHandle \/ FinishedOutgoing \/ SuccessfulOutgoingChunk
           \/ DestroyPendingPayload \/ Disconnected \/ NotifyShutdown \/ StopTrackingAll
  <2>1. UNCHANGED <<channels, receiver>>
    BY <1>2 DEF StartJob, GetEndpoints, DetachNextChunk, EndJob, ReleaseHandle, FinishedOutgoing,
                SuccessfulOutgoingChunk, DestroyPendingPayload, Disconnected, NotifyShutdown,
                StopTrackingAll
  <2>2. NetType' /\ ReceiverType'
    BY <2>1 DEF IInv, NetType, ReceiverType, channels, receiver
  <2>3. CASE NotifyShutdown
    <3>1. statusQ' \in Seq(Job)
      BY <2>3, TakeJob DEF NotifyShutdown, IInv
    <3>2. latch' \in 0..MaxPayload
      <4>1. latch' = latch \/ (latch # 0 /\ latch' = latch - 1)
        BY <2>3 DEF NotifyShutdown
      <4> QED
        BY <4>1, PayloadAssumption DEF IInv, Core, SenderType
    <3>3. Core' /\ Told
      BY <2>3, <3>1, <3>2, QuietCore DEF NotifyShutdown, sender, client, links, IInv, Core, ClientType
    <3> QED
      BY <2>2, <3>3 DEF IInv
  <2> QED
    BY <1>2, <2>2, <2>3, StartJobCore, GetEndpointsCore, DetachNextChunkCore, EndJobCore,
       ReleaseHandleCore, FinishedOutgoingCore, SuccessfulOutgoingChunkCore,
       DestroyPendingPayloadCore, DisconnectedCore, StopTrackingAllCore DEF IInv
<1> QED
  BY <1>1, <1>2 DEF SendJob, StatusUpdate

\* The channels and the disconnection of an endpoint, at the sender.
LEMMA EndpointStep ==
  ASSUME IInv, NEW e \in Endpoint,
         \/ ProcessControlPacket(e) \/ RemoveEndpoint(e) \/ OnDisconnected(e) \/ ChannelBreaks(e)
         \/ \E i \in Id, event \in {"canceled", "error"} : RemoteControl(e, i, event)
  PROVE  IInv' /\ Told
<1>1. UNCHANGED <<wire, receiver>>
  BY DEF ProcessControlPacket, RemoveEndpoint, OnDisconnected, ChannelBreaks, RemoteControl, channels
<1>2. ReceiverType'
  BY <1>1 DEF IInv, ReceiverType, receiver
<1>3. CASE ProcessControlPacket(e)
  <2>1. back' \in [Endpoint -> Seq(Answer)]
    BY <1>3, FrameQueues DEF ProcessControlPacket, IInv, NetType
  <2>2. NetType'
    BY <1>1, <1>3, <2>1 DEF ProcessControlPacket, IInv, NetType
  <2> QED
    BY <1>2, <1>3, <2>2, ProcessControlPacketCore DEF IInv
<1>4. CASE RemoveEndpoint(e)
  <2>1. PICK n \in {0, 1} : back' = [back EXCEPT ![e] = ReadAlready(@, n)]
    BY <1>4 DEF RemoveEndpoint
  <2>2. back' \in [Endpoint -> Seq(Answer)]
    BY <2>1, FrameQueues DEF IInv, NetType
  <2>3. NetType'
    BY <1>1, <1>4, <2>2 DEF RemoveEndpoint, IInv, NetType
  <2>4. [k |-> "disconnect", e |-> e] \in Job
    BY DEF Job, DisconnectJob
  <2>5. statusQ' \in Seq(Job)
    BY <1>4, <2>4, JobQueues DEF RemoveEndpoint, Post, IInv, Core, SenderType
  <2>6. link' \in [Endpoint -> Device]
    BY <1>4 DEF RemoveEndpoint, Device, IInv, Core, ClientType
  <2>7. Core' /\ Told
    BY <1>4, <2>5, <2>6, QuietCore DEF RemoveEndpoint, sender, client, shut, IInv, Core, SenderType
  <2> QED
    BY <1>2, <2>3, <2>7 DEF IInv
<1>5. CASE OnDisconnected(e)
  <2>1. link' \in [Endpoint -> Device]
    BY <1>5 DEF OnDisconnected, Device, IInv, Core, ClientType
  <2>2. Core' /\ Told
    BY <1>5, <2>1, QuietCore DEF OnDisconnected, sender, client, shut, IInv, Core, SenderType
  <2> QED
    BY <1>2, <1>5, <2>2 DEF OnDisconnected, channels, IInv, NetType
<1>6. CASE ChannelBreaks(e)
  <2>1. Core' /\ Told
    BY <1>6, QuietCore DEF ChannelBreaks, sender, client, links, shut, IInv, Core, SenderType, ClientType
  <2> QED
    BY <1>2, <1>6, <2>1 DEF ChannelBreaks, IInv, NetType
<1>7. ASSUME NEW i \in Id, NEW event \in {"canceled", "error"}, RemoteControl(e, i, event)
      PROVE  IInv' /\ Told
  <2>1. Core' /\ Told
    BY <1>7, QuietCore DEF RemoteControl, sender, client, links, shut, IInv, Core, SenderType, ClientType
  <2>2. [k |-> event, i |-> i] \in Answer
    BY DEF Answer
  <2>3. back' \in [Endpoint -> Seq(Answer)]
    BY <1>7, <2>2, FrameQueues DEF RemoteControl, IInv, NetType
  <2> QED
    BY <1>2, <1>7, <2>1, <2>3 DEF RemoteControl, IInv, NetType
<1> QED
  BY <1>3, <1>4, <1>5, <1>6, <1>7

\* The receivers do not touch the sender's state.
LEMMA ReceiverStep ==
  ASSUME IInv, NEW e \in Endpoint,
         \/ ReceiverReader(e) \/ ReceiverStatusUpdate(e) \/ RemoveSender(e)
         \/ OnSenderDisconnected(e) \/ \E i \in Id : CancelIncomingPayload(e, i)
  PROVE  IInv' /\ Told
<1>1. UNCHANGED others
  BY DEF ReceiverReader, ProcessDataPacket, ProcessIncomingControl, ReceiverStatusUpdate, OnPayload,
         SuccessfulIncomingChunk, FinishedIncoming, IncomingDisconnected, RemoveSender,
         OnSenderDisconnected, CancelIncomingPayload
<1>2. Core' /\ Told
  BY <1>1, QuietCore DEF others, sender, client, links, shut, IInv, Core, SenderType, ClientType
<1>3. NetType' /\ ReceiverType'
  BY ProcessDataPacketNet, ProcessIncomingControlNet, ReceiverStatusUpdateNet, ReceiverEndsNet
     DEF ReceiverReader, IInv
<1> QED
  BY <1>2, <1>3 DEF IInv

\* ~PayloadManager
LEMMA ShutdownStep ==
  ASSUME IInv, DisconnectFromEndpointManager \/ CancelAllPayloads \/ StopStatusUpdates
  PROVE  IInv' /\ Told
<1>1. UNCHANGED <<channels, receiver>>
  BY DEF DisconnectFromEndpointManager, CancelAllPayloads, StopStatusUpdates
<1>2. NetType' /\ ReceiverType'
  BY <1>1 DEF IInv, NetType, ReceiverType, channels, receiver
<1>3. CASE DisconnectFromEndpointManager
  BY <1>2, <1>3, QuietCore
     DEF DisconnectFromEndpointManager, sender, client, links, IInv, Core, SenderType, ClientType
<1>4. CASE CancelAllPayloads
  BY <1>2, <1>4, CancelAllPayloadsCore DEF IInv
<1>5. CASE StopStatusUpdates
  <2>1. [k |-> "stop"] \in Job
    BY DEF Job, OtherJob
  <2>2. statusQ' \in Seq(Job)
    BY <1>5, <2>1, JobQueues DEF StopStatusUpdates, Post, IInv, Core, SenderType
  <2> QED
    BY <1>2, <1>5, <2>2, QuietCore
       DEF StopStatusUpdates, sender, client, links, IInv, Core, SenderType, ClientType
<1> QED
  BY <1>3, <1>4, <1>5

\* Every step preserves the invariant and is one the client may see.
LEMMA NextInv == IInv /\ [Next]_vars => IInv' /\ Told
<1> SUFFICES ASSUME IInv, [Next]_vars PROVE IInv' /\ Told
  OBVIOUS
<1>1. CASE UNCHANGED vars
  <2>1. Core' /\ Told
    BY <1>1, QuietCore DEF vars, sender, client, links, shut, IInv, Core, SenderType, ClientType
  <2> QED
    BY <1>1, <2>1 DEF vars, channels, receiver, IInv, NetType, ReceiverType
<1>2. ASSUME NEW i \in Id, NEW es \in SUBSET Endpoint \ {{}}, NEW len \in Lengths, NEW resume \in Resumes,
             SendPayload(i, es, len, resume)
      PROVE  IInv' /\ Told
  <2>1. Core' /\ Told
    BY <1>2, SendPayloadCore DEF IInv
  <2> QED
    BY <1>2, <2>1 DEF SendPayload, channels, receiver, IInv, NetType, ReceiverType
<1>3. ASSUME NEW i \in Id, CancelPayload(i) PROVE IInv' /\ Told
  <2>1. Core' /\ Told
    BY <1>3, CancelPayloadCore DEF IInv
  <2> QED
    BY <1>3, <2>1 DEF CancelPayload, channels, receiver, IInv, NetType, ReceiverType
<1> QED
  BY <1>1, <1>2, <1>3, SenderStep, EndpointStep, ReceiverStep, ShutdownStep DEF Next

\* The inductive invariant holds in every reachable state.
THEOREM Invariance == Spec => []IInv
<1>1. Init => IInv
  BY InitInv
<1>2. IInv /\ [Next]_vars => IInv'
  BY NextInv
<1> QED
  BY <1>1, <1>2, PTL DEF Spec

\* Type correctness, with the count of references bounded by two and the barrier of the
\* destructor by the number of payloads.
THEOREM TypeCorrect == Spec => []TypeOK
<1>1. IInv => TypeOK
  <2> SUFFICES ASSUME IInv PROVE TypeOK
    OBVIOUS
  <2>1. DOMAIN payload = 1..Len(payload) /\ \A o \in 1..Len(payload) : payload[o].id \in Id
    BY SenderObjects DEF IInv, Core
  <2>2. \A o \in 1..Len(payload) : payload[o].in \subseteq payload[o].to /\ payload[o].refs \in 0..2
    <3>1. \A o \in 1..Len(payload) : payload[o].in \subseteq payload[o].to
      BY DEF IInv, Core, TrackedInv
    <3>2. \A o \in 1..Len(payload) : Tracks(o) \in {0, 1} /\ Handles(o) \in {0, 1}
      BY DEF Tracks, Handles
    <3>3. \A o \in 1..Len(payload) : payload[o].refs = Tracks(o) + Handles(o)
      BY DEF IInv, Core, RefInv
    <3> QED
      BY <3>1, <3>2, <3>3
  <2>3. send.pc \in {"idle", "loop", "check", "detach", "write", "done", "release"}
    BY DEF IInv, Core, SenderType, Running, Idle
  <2>4. \A e \in Endpoint, i \in Id : in[e][i].obj \in 0..MaxPayload
    BY DEF IInv, ReceiverType, IncomingPayload
  <2>5. finals \in [Transfer -> Nat]
    BY DEF IInv, Core, ClientType
  <2> QED
    BY <2>1, <2>2, <2>3, <2>4, <2>5 DEF TypeOK, IInv, Core, SenderType, ClientType, NetType, ReceiverType
<1> QED
  BY <1>1, Invariance, PTL

\* HandleKeepsPayload: no object is destroyed while a job holds its handle or it is tracked.
THEOREM HandlesKeepPayloads == Spec => []HandleKeepsPayload
<1>1. IInv => HandleKeepsPayload
  <2> SUFFICES ASSUME IInv PROVE HandleKeepsPayload
    OBVIOUS
  <2>1. ASSUME send.pc # "idle" PROVE ~Freed(send.obj)
    <3>1. send # Idle /\ send.obj \in 1..Len(payload)
      BY <2>1, RunningJob DEF IInv
    <3> QED
      BY <3>1 DEF Freed, IInv, Core, RefInv, Tracks, Handles
  <2>2. ASSUME NEW i \in Id, tracked[i] # 0 PROVE ~Freed(tracked[i])
    <3>1. tracked[i] \in 1..Len(payload) /\ payload[tracked[i]].id = i
      BY <2>2 DEF IInv, Core, TrackedInv, SenderType
    <3> QED
      BY <3>1 DEF Freed, IInv, Core, RefInv, Tracks, Handles
  <2> QED
    BY <2>1, <2>2 DEF HandleKeepsPayload
<1> QED
  BY <1>1, Invariance, PTL

\* UpdatesEndOnce: what the sender's client sees of every transfer is a behaviour of
\* PayloadUpdates.
THEOREM UpdatesRefined == Spec => UpdatesEndOnce
<1>1. Init => Updates!Init
  BY InitInv
<1>2. IInv /\ [Next]_vars => [Updates!Next]_<<told, finals>>
  BY NextInv DEF Told
<1> QED
  BY <1>1, <1>2, Invariance, PTL DEF Spec, UpdatesEndOnce, Updates!Spec
=============================================================================
