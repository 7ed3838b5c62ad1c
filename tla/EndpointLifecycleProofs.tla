---------------------- MODULE EndpointLifecycleProofs ----------------------
(***************************************************************************)
(* Proofs about EndpointLifecycle, for any sets of endpoints and any number*)
(* of channels.                                                            *)
(*                                                                         *)
(* All maps are keyed by endpoint id, so what has to be shown is that the  *)
(* entries of one id belong together.  The invariant follows a channel     *)
(* from the handshake to its removal: a pending channel is fresh until it  *)
(* is registered (NewInv, RegInv), its workers are the only ones of the    *)
(* endpoint (WorkerInv), the client's connection is that channel (ConnInv) *)
(* and only its own answer and key count (HeardInv, KeyInv), and whoever   *)
(* ends leaves a job that removes what is left (CtxInv, LeftInv).          *)
(***************************************************************************)
EXTENDS EndpointLifecycle, TLAPS

Remote == {"remoteAccepted", "remoteRejected"}
Local  == {"localAccepted", "localRejected"}
Bits   == Remote \cup Local \cup {"connected"}
Crashed == pcp.k = "crashed"

PcpJob ==
  [k : {"request"}, e : Endpoint] \cup [k : {"answer"}, e : Endpoint, a : Local]
    \cup [k : {"encrypted", "failed"}, e : Endpoint, c : Chan]
    \cup [k : {"response"}, e : Endpoint, c : Chan, a : Remote]
    \cup [k : {"disconnect"}, e : Endpoint, live : BOOLEAN]
PcpState ==
  {Idle} \cup [k : {"locking", "registering"}, e : Endpoint]
    \cup [k : {"accepting"}, e : Endpoint, c : Ref]
EmJob == [k : {"register", "unregister", "discard"}, e : Endpoint, c : Ref]
Removing == {"remove", "notify", "barrier", "gone", "clear", "joining"}
Removal == [k : Removing, e : Endpoint, notify : BOOLEAN, c : Ref, call : BOOLEAN]
EmState == {Idle} \cup [k : {"duplicate"}, e : Endpoint, c : Chan] \cup Removal

ChanType ==
  /\ chan \in Seq([e : Endpoint, in : BOOLEAN]) /\ Len(chan) <= MaxChan
  /\ closed \subseteq 1..Len(chan) /\ runner \subseteq 1..Len(chan)
  /\ moved \subseteq 1..Len(chan) /\ asked \subseteq 1..Len(chan)

MapType ==
  /\ pending \in [Endpoint -> Ref] /\ ukey2 \in [Endpoint -> Ref] /\ state \in [Endpoint -> Ref]
  /\ ecm \in [Endpoint -> [in : BOOLEAN, chan : Ref, ctx : Ref]]
  /\ conn \in [Endpoint -> [bits : SUBSET Bits, chan : Ref]]
  /\ reader \in [Chan -> {"none", "reading", "locking", "handling", "done"}]
  /\ keep \in [Chan -> {"none", "running", "done"}]
  /\ heard \in [Chan -> {"none"} \cup Remote]
  /\ told \in [Chan -> {"none", "initiated", "accepted", "rejected", "disconnected"}]
  /\ future \in Ref /\ api \in {"idle", "busy"}

QueueType == pcpQ \in Seq(PcpJob) /\ emQ \in Seq(EmJob)
ThreadType == pcp \in PcpState /\ em \in EmState

Types == ChanType /\ MapType /\ QueueType /\ ThreadType

-----------------------------------------------------------------------------
(* The queues.                                                             *)

Own(c, e) == c \in 1..Len(chan) /\ chan[c].e = e

ApiJob(j)  == j.k \in {"request", "answer"}
LiveJob(j) == j.k = "disconnect" /\ j.live
KeyJob(j)  == j.k \in {"encrypted", "failed"}
Removes(j, e) == j.k \in {"discard", "unregister"} /\ j.e = e

\* Jobs of which there is one at a time.
Rival(i, j) ==
  \/ i.k = "response" /\ j.k = "response"
  \/ ApiJob(i) /\ ApiJob(j)
  \/ LiveJob(i) /\ LiveJob(j)
EmRival(i, j) == i.k = j.k /\ i.k \in {"register", "unregister"}

PcpJobs ==
  /\ \A n \in 1..Len(pcpQ) : pcpQ[n].k \in {"encrypted", "failed", "response"} =>
       Own(pcpQ[n].c, pcpQ[n].e)
  /\ \A n \in 1..Len(pcpQ) : pcpQ[n].k = "response" => pcpQ[n].a = heard[pcpQ[n].c]
  /\ \A m, n \in 1..Len(pcpQ) : Rival(pcpQ[m], pcpQ[n]) => m = n
EmJobs == \A m, n \in 1..Len(emQ) : EmRival(emQ[m], emQ[n]) => m = n

\* What waits in the queue of the PCP handler thread.
ResponseDue(c) == \E n \in 1..Len(pcpQ) : pcpQ[n].k = "response" /\ pcpQ[n].c = c
RequestDue(e)  == \E n \in 1..Len(pcpQ) : pcpQ[n].k = "request" /\ pcpQ[n].e = e
LiveDue        == \E n \in 1..Len(pcpQ) : LiveJob(pcpQ[n])
ApiDue         == \E n \in 1..Len(pcpQ) : ApiJob(pcpQ[n])

\* The outcome of the channel's handshake, before an answer read from it.
KeyDue(c) ==
  \E n \in 1..Len(pcpQ) :
    /\ KeyJob(pcpQ[n]) /\ pcpQ[n].c = c
    /\ \A m \in 1..Len(pcpQ) : pcpQ[m].k = "response" /\ pcpQ[m].c = c => m > n

\* What waits in the queue of the EndpointManager thread.
RegisterDue(e, c) == \E n \in 1..Len(emQ) : emQ[n].k = "register" /\ emQ[n].e = e /\ emQ[n].c = c
UnregisterDue == \E n \in 1..Len(emQ) : emQ[n].k = "unregister"
RemovalDue(e) == \E n \in 1..Len(emQ) : Removes(emQ[n], e)

\* The endpoint is removed before it is registered again.
RemovalFirst(e) ==
  \E n \in 1..Len(emQ) :
    /\ Removes(emQ[n], e)
    /\ \A m \in 1..Len(emQ) : emQ[m].k = "register" /\ emQ[m].e = e => m > n

-----------------------------------------------------------------------------
(* The invariant.                                                          *)

Fresh(c) == reader[c] = "none" /\ keep[c] = "none" /\ heard[c] = "none"

OwnInv ==
  /\ \A e \in Endpoint : pending[e] # 0 => Own(pending[e], e)
  /\ \A e \in Endpoint : state[e] # 0 => Own(state[e], e)

\* A reader waits for the one answer that is being handled.
HandlerInv ==
  /\ \A c \in Chan : ResponseDue(c) => reader[c] = "handling"
  /\ pcp.k = "accepting" /\ pcp.c # 0 =>
       reader[pcp.c] = "handling" /\ \A c \in Chan : ~ResponseDue(c)

WorkerInv ==
  /\ \A c \in 1..Len(chan) : ~WorkersDone(c) => state[chan[c].e] = c
  /\ \A c \in Chan : c > Len(chan) => Fresh(c)
  /\ \A e \in Endpoint : state[e] # 0 => reader[state[e]] # "none"

\* A pending channel that is not registered is fresh, and the client has no connection.
New(e) == pending[e] # 0 /\ (pending[e] \notin moved \/ (pcp.k = "registering" /\ pcp.e = e))
NewInv == \A e \in Endpoint : New(e) => Fresh(pending[e]) /\ conn[e].chan = 0

\* The PCP handler thread waits for the channel that is being registered.
Registers(e, c) == pcp.k = "registering" /\ pcp.e = e /\ pending[e] = c
RegInv ==
  /\ pcp.k \in {"locking", "registering"} => pending[pcp.e] # 0
  /\ pcp.k = "locking" => pending[pcp.e] \notin moved
  /\ pcp.k = "registering" => pending[pcp.e] \in moved
  /\ \A e \in Endpoint, c \in Ref : RegisterDue(e, c) => Registers(e, c)
  /\ em.k = "duplicate" =>
       /\ Registers(em.e, em.c) /\ state[em.e] # 0 /\ ecm[em.e] = NoEntry
       /\ \A e \in Endpoint, c \in Ref : ~RegisterDue(e, c)

BarrierInv == LiveDue => em.k = "barrier"

Accepting(e) == pcp.k = "accepting" /\ pcp.e = e
Accepted == {"localAccepted", "remoteAccepted"}

\* The client's connection is the channel of the EndpointState; it is pending, being
\* accepted or connected.
ConnOf(e) ==
  /\ conn[e].chan = 0 => conn[e].bits = {}
  /\ "connected" \in conn[e].bits => conn[e].bits = {"connected"}
  /\ conn[e].chan # 0 => conn[e].chan = state[e]
  /\ pending[e] = 0 /\ conn[e].chan # 0 => IsConnected(e) \/ Accepting(e)
  /\ pending[e] # 0 /\ conn[e].chan # 0 => pending[e] = conn[e].chan /\ ~IsConnected(e)
  /\ Accepting(e) => pending[e] = 0
  /\ Accepting(e) /\ conn[e].chan # 0 => Accepted \subseteq conn[e].bits
  /\ RequestDue(e) => "localAccepted" \notin conn[e].bits /\ ~IsConnected(e)
ConnInv == \A e \in Endpoint : ConnOf(e)

EmInv ==
  /\ em.k \in {"clear", "joining"} => conn[em.e].chan = 0
  /\ em.k = "joining" => ecm[em.e].chan = 0 /\ state[em.e] # 0
  /\ \A e \in Endpoint : ecm[e].chan # 0 => ecm[e].chan = state[e]
  /\ \A e \in Endpoint : conn[e].chan # 0 =>
       ecm[e].in \/ (em.k \in {"notify", "barrier", "gone"} /\ em.e = e)

\* The peer's answer on the channel is not read, or not handled.
Unheard(c) == heard[c] = "none" \/ reader[c] = "locking" \/ ResponseDue(c)
HeardInv ==
  /\ \A c \in Chan : reader[c] = "locking" => heard[c] # "none"
  /\ \A c \in runner : heard[c] = "none"
  /\ \A e \in Endpoint, c \in Chan : conn[e].chan = c /\ Unheard(c)
       => conn[e].bits \cap (Remote \cup {"connected"}) = {}
  /\ RemoteAnswerOwn

\* Until the entry holds the key of its own channel, the outcome of that channel's handshake
\* is due and no answer of the peer counts.
KeyInv ==
  /\ \A e \in Endpoint, c \in Chan : pending[e] = c /\ ukey2[e] # c =>
       /\ c \in runner \/ KeyDue(c)
       /\ conn[e].bits \cap Remote = {}
  /\ \A e \in Endpoint : pending[e] # 0 /\ ukey2[e] = pending[e] /\ pending[e] \notin moved =>
       pcp.k = "locking" /\ pcp.e = e
  /\ \A e \in Endpoint : (IsConnected(e) \/ Accepting(e)) /\ conn[e].chan # 0 /\ ecm[e].chan # 0
       => ecm[e].ctx = conn[e].chan

\* A context without a channel is removed before the endpoint is registered again.
CtxInv ==
  \A e \in Endpoint :
    /\ ecm[e].chan # 0 /\ ecm[e].ctx # 0 => IsConnected(e) \/ Accepting(e) \/ conn[e].chan = 0
    /\ ecm[e].chan = 0 /\ ecm[e].ctx # 0 => RemovalFirst(e) \/ (em.k = "remove" /\ em.e = e)

\* Workers that have ended, and entries without workers, will be removed.
LeftInv ==
  \A e \in Endpoint :
    /\ state[e] # 0 /\ (reader[state[e]] = "done" \/ keep[state[e]] = "done")
         => RemovalDue(e) \/ (em.k # "idle" /\ em.e = e)
    /\ ecm[e] # NoEntry => state[e] # 0 \/ RemovalDue(e) \/ (em.k = "remove" /\ em.e = e)
    /\ em.k = "joining" /\ em.e = e /\ ecm[e] # NoEntry
         => reader[state[e]] # "done" \/ RemovalDue(e)

\* The API thread waits for one call at a time.
InRemoval == em.k \in Removing /\ em.call
InAccept  == pcp.k = "accepting" /\ pcp.c = 0
CallInv ==
  /\ ApiDue => ~UnregisterDue /\ ~InRemoval /\ future = 0 /\ ~InAccept
  /\ UnregisterDue => ~InRemoval /\ future = 0 /\ ~InAccept
  /\ InRemoval => future = 0 /\ ~InAccept
  /\ future # 0 => ~InAccept
  /\ api = "idle" => ~ApiDue /\ ~UnregisterDue /\ ~InRemoval /\ future = 0 /\ ~InAccept

Links == OwnInv /\ HandlerInv /\ WorkerInv /\ NewInv /\ RegInv /\ BarrierInv
Connection == ConnInv /\ EmInv /\ HeardInv /\ KeyInv /\ CtxInv /\ LeftInv /\ CallInv
Full == Types /\ PcpJobs /\ EmJobs /\ Links /\ Connection

-----------------------------------------------------------------------------
(* Queues.                                                                 *)

\* Appending to a queue.
LEMMA QueueAdd ==
  ASSUME NEW S, NEW q \in Seq(S), NEW j \in S, NEW r, r = Append(q, j)
  PROVE  /\ r \in Seq(S) /\ Len(q) \in Nat /\ Len(r) = Len(q) + 1 /\ r[Len(q) + 1] = j
         /\ \A n \in 1..Len(q) : r[n] = q[n]
OBVIOUS

\* Taking the head of a queue.
LEMMA QueueTake ==
  ASSUME NEW S, NEW q \in Seq(S), q # <<>>, NEW r, r = Tail(q)
  PROVE  /\ r \in Seq(S) /\ Len(q) \in Nat /\ Len(q) >= 1 /\ Len(r) = Len(q) - 1
         /\ Head(q) = q[1] /\ Head(q) \in S
         /\ \A n \in 1..Len(r) : r[n] = q[n + 1]
<1>1. Len(q) \in Nat /\ Len(q) # 0
  OBVIOUS
<1>2. r \in Seq(S) /\ Len(r) = Len(q) - 1 /\ Head(q) = q[1] /\ Head(q) \in S
  BY <1>1
<1>3. \A n \in 1..Len(r) : r[n] = q[n + 1]
  BY <1>1, <1>2
<1> QED
  BY <1>1, <1>2, <1>3

\* The fields of the jobs of the PCP handler thread.
LEMMA PcpJobFields ==
  ASSUME NEW j \in PcpJob
  PROVE  /\ j.e \in Endpoint
         /\ j.k \in {"request", "answer", "encrypted", "failed", "response", "disconnect"}
         /\ j.k \in {"encrypted", "failed", "response"} => j.c \in Chan
         /\ j.k = "response" => j.a \in Remote
         /\ j.k = "answer" => j.a \in Local
         /\ j.k = "disconnect" => j.live \in BOOLEAN
BY DEF PcpJob

\* The fields of the jobs of the EndpointManager thread.
LEMMA EmJobFields ==
  ASSUME NEW j \in EmJob
  PROVE  j.e \in Endpoint /\ j.c \in Ref /\ j.k \in {"register", "unregister", "discard"}
BY DEF EmJob

\* A job is posted to the PCP handler thread.
LEMMA PcpPosted ==
  ASSUME QueueType, NEW j \in PcpJob, pcpQ' = Append(pcpQ, j)
  PROVE  /\ pcpQ' \in Seq(PcpJob)
         /\ \A c : ResponseDue(c)' <=> ResponseDue(c) \/ (j.k = "response" /\ j.c = c)
         /\ \A e : RequestDue(e)' <=> RequestDue(e) \/ (j.k = "request" /\ j.e = e)
         /\ LiveDue' <=> LiveDue \/ LiveJob(j)
         /\ ApiDue' <=> ApiDue \/ ApiJob(j)
         /\ \A c : KeyDue(c) \/ (KeyJob(j) /\ j.c = c /\ ~ResponseDue(c)) => KeyDue(c)'
<1>1. /\ pcpQ' \in Seq(PcpJob) /\ Len(pcpQ) \in Nat /\ Len(pcpQ') = Len(pcpQ) + 1
      /\ pcpQ'[Len(pcpQ) + 1] = j /\ \A n \in 1..Len(pcpQ) : pcpQ'[n] = pcpQ[n]
  BY QueueAdd DEF QueueType
<1>2. /\ \A n \in 1..Len(pcpQ') : n \in 1..Len(pcpQ) \/ n = Len(pcpQ) + 1
      /\ \A n \in 1..Len(pcpQ) : n \in 1..Len(pcpQ') /\ n < Len(pcpQ) + 1
      /\ Len(pcpQ) + 1 \in 1..Len(pcpQ')
  BY <1>1
<1>3. \A c : ResponseDue(c)' <=> ResponseDue(c) \/ (j.k = "response" /\ j.c = c)
  BY <1>1, <1>2 DEF ResponseDue
<1>4. \A e : RequestDue(e)' <=> RequestDue(e) \/ (j.k = "request" /\ j.e = e)
  BY <1>1, <1>2 DEF RequestDue
<1>5. (LiveDue' <=> LiveDue \/ LiveJob(j)) /\ (ApiDue' <=> ApiDue \/ ApiJob(j))
  BY <1>1, <1>2 DEF LiveDue, ApiDue
<1>6. ASSUME NEW c, KeyDue(c) PROVE KeyDue(c)'
  <2>1. PICK n \in 1..Len(pcpQ) :
          /\ KeyJob(pcpQ[n]) /\ pcpQ[n].c = c
          /\ \A m \in 1..Len(pcpQ) : pcpQ[m].k = "response" /\ pcpQ[m].c = c => m > n
    BY <1>6 DEF KeyDue
  <2>2. \A m \in 1..Len(pcpQ') : pcpQ'[m].k = "response" /\ pcpQ'[m].c = c => m > n
    BY <1>1, <1>2, <2>1
  <2> QED
    BY <1>1, <1>2, <2>1, <2>2 DEF KeyDue
<1>7. ASSUME NEW c, KeyJob(j), j.c = c, ~ResponseDue(c) PROVE KeyDue(c)'
  <2>1. \A m \in 1..Len(pcpQ') : ~(pcpQ'[m].k = "response" /\ pcpQ'[m].c = c)
    BY <1>1, <1>2, <1>7 DEF KeyJob, ResponseDue
  <2> QED
    BY <1>1, <1>2, <1>7, <2>1 DEF KeyDue
<1> QED
  BY <1>1, <1>3, <1>4, <1>5, <1>6, <1>7

\* Its rivals are handled before it is posted.
LEMMA PcpPostedJobs ==
  ASSUME QueueType, PcpJobs, NEW j \in PcpJob, pcpQ' = Append(pcpQ, j), UNCHANGED <<chan, heard>>,
         j.k \in {"encrypted", "failed", "response"} => Own(j.c, j.e),
         j.k = "response" => j.a = heard[j.c] /\ \A c \in Chan : ~ResponseDue(c),
         ApiJob(j) => ~ApiDue, LiveJob(j) => ~LiveDue
  PROVE  PcpJobs'
<1>1. /\ pcpQ' \in Seq(PcpJob) /\ Len(pcpQ) \in Nat /\ Len(pcpQ') = Len(pcpQ) + 1
      /\ pcpQ'[Len(pcpQ) + 1] = j /\ \A n \in 1..Len(pcpQ) : pcpQ'[n] = pcpQ[n]
  BY QueueAdd DEF QueueType
<1>2. \A n \in 1..Len(pcpQ') : n \in 1..Len(pcpQ) \/ n = Len(pcpQ) + 1
  BY <1>1
<1>3. \A n \in 1..Len(pcpQ') : pcpQ'[n].k \in {"encrypted", "failed", "response"} =>
        Own(pcpQ[n].c, pcpQ[n].e)'
  BY <1>1, <1>2 DEF PcpJobs, Own
<1>4. \A n \in 1..Len(pcpQ') : pcpQ'[n].k = "response" => pcpQ'[n].a = heard'[pcpQ'[n].c]
  BY <1>1, <1>2 DEF PcpJobs
<1>5. \A n \in 1..Len(pcpQ) : ~Rival(pcpQ[n], j) /\ ~Rival(j, pcpQ[n])
  <2>1. \A n \in 1..Len(pcpQ) : pcpQ[n].k = "response" => pcpQ[n].c \in Chan
    BY PcpJobFields DEF QueueType
  <2> QED
    BY <2>1 DEF Rival, ResponseDue, ApiDue, LiveDue
<1>6. \A m, n \in 1..Len(pcpQ') : Rival(pcpQ'[m], pcpQ'[n]) => m = n
  BY <1>1, <1>2, <1>5 DEF PcpJobs
<1> QED
  BY <1>3, <1>4, <1>6 DEF PcpJobs

\* The PCP handler thread takes a job.
LEMMA PcpTaken ==
  ASSUME QueueType, PcpJobs, pcpQ # <<>>, pcpQ' = Tail(pcpQ), NEW j, j = Head(pcpQ)
  PROVE  /\ pcpQ' \in Seq(PcpJob) /\ j \in PcpJob
         /\ \A c : ResponseDue(c)' <=> ResponseDue(c) /\ j.k # "response"
         /\ \A e : RequestDue(e)' => RequestDue(e)
         /\ LiveDue' <=> LiveDue /\ ~LiveJob(j)
         /\ ApiDue' <=> ApiDue /\ ~ApiJob(j)
         /\ (j.k = "request" => RequestDue(j.e)) /\ (j.k = "response" => ResponseDue(j.c))
         /\ (LiveJob(j) => LiveDue) /\ (ApiJob(j) => ApiDue)
         /\ \A c : KeyDue(c) /\ ~(KeyJob(j) /\ j.c = c) => KeyDue(c)'
         /\ j.k = "response" => ~KeyDue(j.c)
         /\ j.k \in {"encrypted", "failed", "response"} => Own(j.c, j.e)
         /\ j.k = "response" => j.a = heard[j.c]
<1>1. /\ pcpQ' \in Seq(PcpJob) /\ Len(pcpQ) \in Nat /\ Len(pcpQ) >= 1 /\ Len(pcpQ') = Len(pcpQ) - 1
      /\ j = pcpQ[1] /\ j \in PcpJob /\ \A n \in 1..Len(pcpQ') : pcpQ'[n] = pcpQ[n + 1]
  BY QueueTake DEF QueueType
<1>2. /\ 1 \in 1..Len(pcpQ) /\ \A n \in 1..Len(pcpQ') : n + 1 \in 1..Len(pcpQ) /\ n + 1 # 1
      /\ \A n \in 1..Len(pcpQ) : n = 1 \/ (n - 1 \in 1..Len(pcpQ') /\ pcpQ'[n - 1] = pcpQ[n])
  BY <1>1
<1>3. \A n \in 1..Len(pcpQ') : ~Rival(j, pcpQ'[n])
  BY <1>1, <1>2 DEF PcpJobs
<1>4. \A c : ResponseDue(c)' <=> ResponseDue(c) /\ j.k # "response"
  <2>1. ASSUME NEW c, ResponseDue(c)' PROVE ResponseDue(c) /\ j.k # "response"
    BY <1>1, <1>2, <1>3, <2>1 DEF ResponseDue, Rival
  <2>2. ASSUME NEW c, ResponseDue(c), j.k # "response" PROVE ResponseDue(c)'
    <3>1. PICK n \in 1..Len(pcpQ) : pcpQ[n].k = "response" /\ pcpQ[n].c = c
      BY <2>2 DEF ResponseDue
    <3>2. n - 1 \in 1..Len(pcpQ') /\ pcpQ'[n - 1] = pcpQ[n]
      BY <1>1, <1>2, <2>2, <3>1
    <3> QED
      BY <3>1, <3>2 DEF ResponseDue
  <2> QED
    BY <2>1, <2>2
<1>5. \A e : RequestDue(e)' => RequestDue(e)
  BY <1>1, <1>2 DEF RequestDue
<1>6. (LiveDue' <=> LiveDue /\ ~LiveJob(j)) /\ (LiveJob(j) => LiveDue)
  <2>1. ASSUME LiveDue' PROVE LiveDue /\ ~LiveJob(j)
    BY <1>1, <1>2, <1>3, <2>1 DEF LiveDue, Rival
  <2>2. ASSUME LiveDue, ~LiveJob(j) PROVE LiveDue'
    BY <1>1, <1>2, <2>2 DEF LiveDue
  <2> QED
    BY <1>1, <1>2, <2>1, <2>2 DEF LiveDue
<1>7. (ApiDue' <=> ApiDue /\ ~ApiJob(j)) /\ (ApiJob(j) => ApiDue)
  <2>1. ASSUME ApiDue' PROVE ApiDue /\ ~ApiJob(j)
    BY <1>1, <1>2, <1>3, <2>1 DEF ApiDue, Rival
  <2>2. ASSUME ApiDue, ~ApiJob(j) PROVE ApiDue'
    BY <1>1, <1>2, <2>2 DEF ApiDue
  <2> QED
    BY <1>1, <1>2, <2>1, <2>2 DEF ApiDue
<1>8. (j.k = "request" => RequestDue(j.e)) /\ (j.k = "response" => ResponseDue(j.c))
  BY <1>1, <1>2 DEF RequestDue, ResponseDue
<1>9. ASSUME NEW c, KeyDue(c) PROVE /\ ~(KeyJob(j) /\ j.c = c) => KeyDue(c)'
                                    /\ ~(j.k = "response" /\ j.c = c)
  <2>1. PICK n \in 1..Len(pcpQ) :
          /\ KeyJob(pcpQ[n]) /\ pcpQ[n].c = c
          /\ \A m \in 1..Len(pcpQ) : pcpQ[m].k = "response" /\ pcpQ[m].c = c => m > n
    BY <1>9 DEF KeyDue
  <2>2. ~(j.k = "response" /\ j.c = c)
    BY <1>1, <1>2, <2>1
  <2>3. ASSUME ~(KeyJob(j) /\ j.c = c) PROVE KeyDue(c)'
    <3>1. n - 1 \in 1..Len(pcpQ') /\ pcpQ'[n - 1] = pcpQ[n]
      BY <1>1, <1>2, <2>1, <2>3
    <3>2. \A m \in 1..Len(pcpQ') : pcpQ'[m].k = "response" /\ pcpQ'[m].c = c => m > n - 1
      BY <1>1, <1>2, <2>1
    <3> QED
      BY <2>1, <3>1, <3>2 DEF KeyDue
  <2> QED
    BY <2>2, <2>3
<1>10. /\ j.k \in {"encrypted", "failed", "response"} => Own(j.c, j.e)
       /\ j.k = "response" => j.a = heard[j.c]
  BY <1>1, <1>2 DEF PcpJobs
<1> QED
  BY <1>1, <1>4, <1>5, <1>6, <1>7, <1>8, <1>9, <1>10

\* Channels are only added.
Grows == \A c, e : Own(c, e) => Own(c, e)'

\* The jobs that are left keep their channels and their answers.
LEMMA PcpTakenJobs ==
  ASSUME QueueType, PcpJobs, pcpQ # <<>>, pcpQ' = Tail(pcpQ), Grows, UNCHANGED heard
  PROVE  PcpJobs'
<1>1. /\ Len(pcpQ) \in Nat /\ Len(pcpQ) >= 1 /\ Len(pcpQ') = Len(pcpQ) - 1
      /\ \A n \in 1..Len(pcpQ') : pcpQ'[n] = pcpQ[n + 1]
  BY QueueTake DEF QueueType
<1>2. \A n \in 1..Len(pcpQ') : n + 1 \in 1..Len(pcpQ)
  BY <1>1
<1>3. ASSUME NEW n \in 1..Len(pcpQ'), pcpQ'[n].k \in {"encrypted", "failed", "response"}
      PROVE  Own(pcpQ[n].c, pcpQ[n].e)'
  <2>1. PICK c, e : c = pcpQ'[n].c /\ e = pcpQ'[n].e
    OBVIOUS
  <2>2. Own(c, e)
    BY <1>1, <1>2, <1>3, <2>1 DEF PcpJobs
  <2> QED
    BY <2>1, <2>2 DEF Grows, Own
<1>4. \A n \in 1..Len(pcpQ') : pcpQ'[n].k = "response" => pcpQ'[n].a = heard'[pcpQ'[n].c]
  BY <1>1, <1>2 DEF PcpJobs
<1>5. \A m, n \in 1..Len(pcpQ') : Rival(pcpQ'[m], pcpQ'[n]) => m = n
  BY <1>1, <1>2 DEF PcpJobs
<1> QED
  BY <1>3, <1>4, <1>5 DEF PcpJobs

\* The queue of the PCP handler thread is as it was.
LEMMA PcpSame ==
  ASSUME UNCHANGED pcpQ
  PROVE  /\ \A c : ResponseDue(c)' <=> ResponseDue(c)
         /\ \A e : RequestDue(e)' <=> RequestDue(e)
         /\ LiveDue' <=> LiveDue
         /\ ApiDue' <=> ApiDue
         /\ \A c : KeyDue(c)' <=> KeyDue(c)
         /\ PcpJobs /\ Grows /\ UNCHANGED heard => PcpJobs'
<1>1. /\ \A c : (ResponseDue(c)' <=> ResponseDue(c)) /\ (KeyDue(c)' <=> KeyDue(c))
      /\ \A e : RequestDue(e)' <=> RequestDue(e)
      /\ (LiveDue' <=> LiveDue) /\ (ApiDue' <=> ApiDue)
  BY DEF ResponseDue, KeyDue, RequestDue, LiveDue, ApiDue
<1>2. ASSUME PcpJobs, Grows, UNCHANGED heard PROVE PcpJobs'
  <2>1. ASSUME NEW n \in 1..Len(pcpQ), pcpQ[n].k \in {"encrypted", "failed", "response"}
        PROVE  Own(pcpQ[n].c, pcpQ[n].e)'
    <3>1. PICK c, e : c = pcpQ[n].c /\ e = pcpQ[n].e
      OBVIOUS
    <3>2. Own(c, e)'
      BY <1>2, <2>1, <3>1 DEF PcpJobs, Grows
    <3> QED
      BY <3>1, <3>2 DEF Own
  <2> QED
    BY <1>2, <2>1 DEF PcpJobs
<1> QED
  BY <1>1, <1>2

\* A job is posted to the EndpointManager thread.
LEMMA EmPosted ==
  ASSUME QueueType, NEW j \in EmJob, emQ' = Append(emQ, j)
  PROVE  /\ emQ' \in Seq(EmJob)
         /\ \A e, c : RegisterDue(e, c)' <=> RegisterDue(e, c) \/ (j.k = "register" /\ j.e = e /\ j.c = c)
         /\ UnregisterDue' <=> UnregisterDue \/ j.k = "unregister"
         /\ \A e : RemovalDue(e)' <=> RemovalDue(e) \/ Removes(j, e)
         /\ \A e : RemovalFirst(e) => RemovalFirst(e)'
         /\ \A e : Removes(j, e) /\ (\A c \in Ref : ~RegisterDue(e, c)) => RemovalFirst(e)'
         /\ EmJobs /\ (j.k = "register" => \A e \in Endpoint, c \in Ref : ~RegisterDue(e, c))
                   /\ (j.k = "unregister" => ~UnregisterDue) => EmJobs'
<1>1. /\ emQ' \in Seq(EmJob) /\ Len(emQ) \in Nat /\ Len(emQ') = Len(emQ) + 1
      /\ emQ'[Len(emQ) + 1] = j /\ \A n \in 1..Len(emQ) : emQ'[n] = emQ[n]
  BY QueueAdd DEF QueueType
<1>2. /\ \A n \in 1..Len(emQ') : n \in 1..Len(emQ) \/ n = Len(emQ) + 1
      /\ \A n \in 1..Len(emQ) : n \in 1..Len(emQ') /\ n < Len(emQ) + 1
      /\ Len(emQ) + 1 \in 1..Len(emQ')
  BY <1>1
<1>3. \A e, c : RegisterDue(e, c)' <=> RegisterDue(e, c) \/ (j.k = "register" /\ j.e = e /\ j.c = c)
  BY <1>1, <1>2 DEF RegisterDue
<1>4. UnregisterDue' <=> UnregisterDue \/ j.k = "unregister"
  BY <1>1, <1>2 DEF UnregisterDue
<1>5. \A e : RemovalDue(e)' <=> RemovalDue(e) \/ Removes(j, e)
  BY <1>1, <1>2 DEF RemovalDue
<1>6. ASSUME NEW e, RemovalFirst(e) PROVE RemovalFirst(e)'
  <2>1. PICK n \in 1..Len(emQ) :
          /\ Removes(emQ[n], e)
          /\ \A m \in 1..Len(emQ) : emQ[m].k = "register" /\ emQ[m].e = e => m > n
    BY <1>6 DEF RemovalFirst
  <2>2. \A m \in 1..Len(emQ') : emQ'[m].k = "register" /\ emQ'[m].e = e => m > n
    BY <1>1, <1>2, <2>1
  <2> QED
    BY <1>1, <1>2, <2>1, <2>2 DEF RemovalFirst
<1>7. \A n \in 1..Len(emQ) : emQ[n].c \in Ref /\ emQ[n].e \in Endpoint
  BY EmJobFields DEF QueueType
<1>8. ASSUME NEW e, Removes(j, e), \A c \in Ref : ~RegisterDue(e, c) PROVE RemovalFirst(e)'
  <2>1. \A m \in 1..Len(emQ') : ~(emQ'[m].k = "register" /\ emQ'[m].e = e)
    BY <1>1, <1>2, <1>7, <1>8 DEF RegisterDue, Removes
  <2> QED
    BY <1>1, <1>2, <1>8, <2>1 DEF RemovalFirst
<1>9. ASSUME EmJobs, j.k = "register" => \A e \in Endpoint, c \in Ref : ~RegisterDue(e, c),
             j.k = "unregister" => ~UnregisterDue
      PROVE  EmJobs'
  <2>1. \A n \in 1..Len(emQ) : ~EmRival(emQ[n], j) /\ ~EmRival(j, emQ[n])
    BY <1>7, <1>9 DEF EmRival, RegisterDue, UnregisterDue
  <2> QED
    BY <1>1, <1>2, <1>9, <2>1 DEF EmJobs
<1> QED
  BY <1>1, <1>3, <1>4, <1>5, <1>6, <1>8, <1>9

\* The EndpointManager thread takes a job.
LEMMA EmTaken ==
  ASSUME QueueType, EmJobs, emQ # <<>>, emQ' = Tail(emQ), NEW j, j = Head(emQ)
  PROVE  /\ emQ' \in Seq(EmJob) /\ j \in EmJob /\ EmJobs'
         /\ \A e, c : RegisterDue(e, c)' <=> RegisterDue(e, c) /\ j.k # "register"
         /\ UnregisterDue' <=> UnregisterDue /\ j.k # "unregister"
         /\ (j.k = "register" => RegisterDue(j.e, j.c)) /\ (j.k = "unregister" => UnregisterDue)
         /\ \A e : RemovalDue(e) /\ ~Removes(j, e) => RemovalDue(e)'
         /\ \A e : RemovalFirst(e) /\ ~Removes(j, e) => RemovalFirst(e)'
         /\ j.k = "register" => ~RemovalFirst(j.e)
<1>1. /\ emQ' \in Seq(EmJob) /\ Len(emQ) \in Nat /\ Len(emQ) >= 1 /\ Len(emQ') = Len(emQ) - 1
      /\ j = emQ[1] /\ j \in EmJob /\ \A n \in 1..Len(emQ') : emQ'[n] = emQ[n + 1]
  BY QueueTake DEF QueueType
<1>2. /\ 1 \in 1..Len(emQ) /\ \A n \in 1..Len(emQ') : n + 1 \in 1..Len(emQ) /\ n + 1 # 1
      /\ \A n \in 1..Len(emQ) : n = 1 \/ (n - 1 \in 1..Len(emQ') /\ emQ'[n - 1] = emQ[n])
  BY <1>1
<1>3. \A n \in 1..Len(emQ') : ~EmRival(j, emQ'[n])
  BY <1>1, <1>2 DEF EmJobs
<1>4. ASSUME NEW e, NEW c PROVE RegisterDue(e, c)' <=> RegisterDue(e, c) /\ j.k # "register"
  <2>1. ASSUME RegisterDue(e, c)' PROVE RegisterDue(e, c) /\ j.k # "register"
    BY <1>1, <1>2, <1>3, <2>1 DEF RegisterDue, EmRival
  <2>2. ASSUME RegisterDue(e, c), j.k # "register" PROVE RegisterDue(e, c)'
    <3>1. PICK n \in 1..Len(emQ) : emQ[n].k = "register" /\ emQ[n].e = e /\ emQ[n].c = c
      BY <2>2 DEF RegisterDue
    <3>2. n - 1 \in 1..Len(emQ') /\ emQ'[n - 1] = emQ[n]
      BY <1>1, <1>2, <2>2, <3>1
    <3> QED
      BY <3>1, <3>2 DEF RegisterDue
  <2> QED
    BY <2>1, <2>2
<1>5. UnregisterDue' <=> UnregisterDue /\ j.k # "unregister"
  <2>1. ASSUME UnregisterDue' PROVE UnregisterDue /\ j.k # "unregister"
    BY <1>1, <1>2, <1>3, <2>1 DEF UnregisterDue, EmRival
  <2>2. ASSUME UnregisterDue, j.k # "unregister" PROVE UnregisterDue'
    <3>1. PICK n \in 1..Len(emQ) : emQ[n].k = "unregister"
      BY <2>2 DEF UnregisterDue
    <3>2. n - 1 \in 1..Len(emQ') /\ emQ'[n - 1] = emQ[n]
      BY <1>1, <1>2, <2>2, <3>1
    <3> QED
      BY <3>1, <3>2 DEF UnregisterDue
  <2> QED
    BY <2>1, <2>2
<1>6. (j.k = "register" => RegisterDue(j.e, j.c)) /\ (j.k = "unregister" => UnregisterDue)
  BY <1>1, <1>2 DEF RegisterDue, UnregisterDue
<1>7. ASSUME NEW e, RemovalDue(e), ~Removes(j, e) PROVE RemovalDue(e)'
  <2>1. PICK n \in 1..Len(emQ) : Removes(emQ[n], e)
    BY <1>7 DEF RemovalDue
  <2>2. n - 1 \in 1..Len(emQ') /\ emQ'[n - 1] = emQ[n]
    BY <1>1, <1>2, <1>7, <2>1
  <2> QED
    BY <2>1, <2>2 DEF RemovalDue
<1>8. ASSUME NEW e, RemovalFirst(e)
      PROVE  (~Removes(j, e) => RemovalFirst(e)') /\ ~(j.k = "register" /\ j.e = e)
  <2>1. PICK n \in 1..Len(emQ) :
          /\ Removes(emQ[n], e)
          /\ \A m \in 1..Len(emQ) : emQ[m].k = "register" /\ emQ[m].e = e => m > n
    BY <1>8 DEF RemovalFirst
  <2>2. ~(j.k = "register" /\ j.e = e)
    BY <1>1, <1>2, <2>1
  <2>3. ASSUME ~Removes(j, e) PROVE RemovalFirst(e)'
    <3>1. n - 1 \in 1..Len(emQ') /\ emQ'[n - 1] = emQ[n]
      BY <1>1, <1>2, <2>1, <2>3
    <3>2. \A m \in 1..Len(emQ') : emQ'[m].k = "register" /\ emQ'[m].e = e => m > n - 1
      BY <1>1, <1>2, <2>1
    <3> QED
      BY <2>1, <3>1, <3>2 DEF RemovalFirst
  <2> QED
    BY <2>2, <2>3
<1>9. EmJobs'
  BY <1>1, <1>2 DEF EmJobs
<1> QED
  BY <1>1, <1>4, <1>5, <1>6, <1>7, <1>8, <1>9

\* The queue of the EndpointManager thread is as it was.
LEMMA EmSame ==
  ASSUME UNCHANGED emQ
  PROVE  /\ \A e, c : RegisterDue(e, c)' <=> RegisterDue(e, c)
         /\ UnregisterDue' <=> UnregisterDue
         /\ \A e : (RemovalDue(e)' <=> RemovalDue(e)) /\ (RemovalFirst(e)' <=> RemovalFirst(e))
         /\ EmJobs' <=> EmJobs
BY DEF RegisterDue, UnregisterDue, RemovalDue, RemovalFirst, EmJobs

-----------------------------------------------------------------------------
(* The threads.                                                            *)

\* Where the PCP handler thread is.
LEMMA PcpFields ==
  ASSUME ThreadType
  PROVE  /\ pcp.k \in {"idle", "locking", "registering", "accepting"}
         /\ pcp.k = "idle" <=> pcp = Idle
         /\ pcp.k # "idle" => pcp.e \in Endpoint
         /\ pcp.k = "accepting" => pcp.c \in Ref
BY DEF ThreadType, PcpState, Idle

\* Where the EndpointManager thread is.
LEMMA EmFields ==
  ASSUME ThreadType
  PROVE  /\ em.k \in {"idle", "duplicate"} \cup Removing
         /\ em.k = "idle" <=> em = Idle
         /\ em.k # "idle" => em.e \in Endpoint
         /\ em.k = "duplicate" => em.c \in Chan
         /\ em.k \in Removing => em \in Removal /\ em.call \in BOOLEAN
BY DEF ThreadType, EmState, Removal, Removing, Idle

\* The removal of an endpoint goes on.
LEMMA RemovalStep ==
  ASSUME em \in Removal, NEW k \in Removing, em' = [em EXCEPT !.k = k]
  PROVE  /\ em' \in EmState /\ em'.k = k /\ em'.e = em.e /\ em'.call = em.call
         /\ InRemoval' <=> InRemoval
BY DEF EmState, Removal, InRemoval

\* Nobody has the mutex: no answer of a peer waits.
LEMMA NoAnswerDue ==
  ASSUME HandlerInv, ProcessorFree
  PROVE  \A c \in Chan : ~ResponseDue(c)
BY DEF HandlerInv, ProcessorFree

-----------------------------------------------------------------------------
(* What each part of the invariant depends on.                             *)

\* Parts about the channels, the workers and the registration.
LEMMA LinkFrame ==
  ASSUME Links
  PROVE  /\ UNCHANGED <<pending, state>> /\ Grows => OwnInv'
         /\ UNCHANGED <<pcp, reader>> /\ (\A c \in Chan : ResponseDue(c)' => ResponseDue(c))
              => HandlerInv'
         /\ UNCHANGED <<chan, state, reader, keep, heard>> => WorkerInv'
         /\ UNCHANGED <<pending, moved, pcp, reader, keep, heard, conn>> => NewInv'
         /\ UNCHANGED <<pcp, pending, moved, em, state, ecm>>
              /\ (\A e \in Endpoint, c \in Ref : RegisterDue(e, c)' => RegisterDue(e, c)) => RegInv'
         /\ UNCHANGED em /\ (LiveDue' => LiveDue) => BarrierInv'
<1>1. UNCHANGED <<pending, state>> /\ Grows => OwnInv'
  BY DEF Links, OwnInv, Grows
<1>2. UNCHANGED <<pcp, reader>> /\ (\A c \in Chan : ResponseDue(c)' => ResponseDue(c))
        => HandlerInv'
  BY DEF Links, HandlerInv
<1>3. UNCHANGED <<chan, state, reader, keep, heard>> => WorkerInv'
  BY DEF Links, WorkerInv, WorkersDone, Fresh
<1>4. UNCHANGED <<pending, moved, pcp, reader, keep, heard, conn>> => NewInv'
  BY DEF Links, NewInv, New, Fresh
<1>5. UNCHANGED <<pcp, pending, moved, em, state, ecm>>
        /\ (\A e \in Endpoint, c \in Ref : RegisterDue(e, c)' => RegisterDue(e, c)) => RegInv'
  BY DEF Links, RegInv, Registers
<1>6. UNCHANGED em /\ (LiveDue' => LiveDue) => BarrierInv'
  BY DEF Links, BarrierInv
<1> QED
  BY <1>1, <1>2, <1>3, <1>4, <1>5, <1>6

\* Parts about the connection of the client.
LEMMA ConnectionFrame ==
  ASSUME Connection
  PROVE  /\ UNCHANGED <<conn, state, pending, pcp>>
              /\ (\A e \in Endpoint : RequestDue(e)' => RequestDue(e)) => ConnInv'
         /\ UNCHANGED <<em, conn, ecm, state>> => EmInv'
         /\ UNCHANGED <<reader, heard, runner, conn>>
              /\ (\A c \in Chan : ResponseDue(c)' => ResponseDue(c)) => HeardInv'
         /\ UNCHANGED <<pending, ukey2, runner, conn, moved, pcp, ecm>>
              /\ (\A c \in Chan : KeyDue(c) => KeyDue(c)') => KeyInv'
         /\ UNCHANGED <<ecm, conn, pcp, em>>
              /\ (\A e \in Endpoint : RemovalFirst(e) => RemovalFirst(e)') => CtxInv'
         /\ UNCHANGED <<state, reader, keep, em, ecm>>
              /\ (\A e \in Endpoint : RemovalDue(e) => RemovalDue(e)') => LeftInv'
         /\ UNCHANGED <<em, future, pcp, api>> /\ (ApiDue' => ApiDue)
              /\ (UnregisterDue' => UnregisterDue) => CallInv'
<1>1. UNCHANGED <<conn, state, pending, pcp>>
        /\ (\A e \in Endpoint : RequestDue(e)' => RequestDue(e)) => ConnInv'
  BY DEF Connection, ConnInv, ConnOf, IsConnected, Accepting
<1>2. UNCHANGED <<em, conn, ecm, state>> => EmInv'
  BY DEF Connection, EmInv
<1>3. UNCHANGED <<reader, heard, runner, conn>>
        /\ (\A c \in Chan : ResponseDue(c)' => ResponseDue(c)) => HeardInv'
  BY DEF Connection, HeardInv, Unheard, RemoteAnswerOwn
<1>4. UNCHANGED <<pending, ukey2, runner, conn, moved, pcp, ecm>>
        /\ (\A c \in Chan : KeyDue(c) => KeyDue(c)') => KeyInv'
  BY DEF Connection, KeyInv, IsConnected, Accepting
<1>5. UNCHANGED <<ecm, conn, pcp, em>>
        /\ (\A e \in Endpoint : RemovalFirst(e) => RemovalFirst(e)') => CtxInv'
  BY DEF Connection, CtxInv, IsConnected, Accepting
<1>6. UNCHANGED <<state, reader, keep, em, ecm>>
        /\ (\A e \in Endpoint : RemovalDue(e) => RemovalDue(e)') => LeftInv'
  BY DEF Connection, LeftInv, NoEntry
<1>7. UNCHANGED <<em, future, pcp, api>> /\ (ApiDue' => ApiDue)
        /\ (UnregisterDue' => UnregisterDue) => CallInv'
  BY DEF Connection, CallInv, InRemoval, InAccept
<1> QED
  BY <1>1, <1>2, <1>3, <1>4, <1>5, <1>6, <1>7

\* Types of what is left alone.
LEMMA TypeFrame ==
  ASSUME Types
  PROVE  /\ UNCHANGED <<chan, closed, runner, moved, asked>> => ChanType'
         /\ UNCHANGED <<pending, ukey2, state, ecm, conn, reader, keep, heard, told, caller>> => MapType'
         /\ UNCHANGED <<pcp, em>> => ThreadType'
         /\ UNCHANGED chan => Grows
BY DEF Types, ChanType, MapType, ThreadType, PcpState, EmState, Grows, Own, caller

\* The types that a step on one map has to establish again.
LEMMA Accessors ==
  ASSUME Types
  PROVE  /\ Len(chan) \in Nat /\ \A c \in 1..Len(chan) : c \in Chan /\ c \in Ref /\ c # 0
                                                      /\ chan[c].e \in Endpoint
         /\ \A c \in Chan : c \in Ref /\ c # 0
         /\ \A c \in Ref : c # 0 => c \in Chan
         /\ 0 \in Ref
         /\ \A e \in Endpoint : /\ pending[e] \in Ref /\ ukey2[e] \in Ref /\ state[e] \in Ref
                                /\ conn[e].chan \in Ref /\ conn[e].bits \subseteq Bits
                                /\ ecm[e].chan \in Ref /\ ecm[e].ctx \in Ref /\ ecm[e].in \in BOOLEAN
<1>1. Len(chan) \in Nat /\ Len(chan) <= MaxChan
      /\ \A c \in 1..Len(chan) : chan[c] \in [e : Endpoint, in : BOOLEAN]
  <2>1. PICK S : S = [e : Endpoint, in : BOOLEAN]
    OBVIOUS
  <2>2. chan \in Seq(S)
    BY <2>1 DEF Types, ChanType
  <2>3. Len(chan) \in Nat /\ \A c \in 1..Len(chan) : chan[c] \in S
    BY <2>2
  <2> QED
    BY <2>1, <2>3 DEF Types, ChanType
<1>2. \A c \in 1..Len(chan) : c \in Chan /\ c \in Ref /\ c # 0 /\ chan[c].e \in Endpoint
  BY <1>1, MaxChanAssumption DEF Chan, Ref
<1>3. /\ \A c \in Chan : c \in Ref /\ c # 0
      /\ \A c \in Ref : c # 0 => c \in Chan
      /\ 0 \in Ref
  BY MaxChanAssumption DEF Chan, Ref
<1>4. \A e \in Endpoint : /\ pending[e] \in Ref /\ ukey2[e] \in Ref /\ state[e] \in Ref
                          /\ conn[e].chan \in Ref /\ conn[e].bits \subseteq Bits
                          /\ ecm[e].chan \in Ref /\ ecm[e].ctx \in Ref /\ ecm[e].in \in BOOLEAN
  BY DEF Types, MapType
<1> QED
  BY <1>1, <1>2, <1>3, <1>4

-----------------------------------------------------------------------------
(* The application's calls.                                                *)

\* RequestConnection is called for an endpoint without a connection.
LEMMA CallRequestKeeps ==
  ASSUME Full, NEW x \in Endpoint, CallRequest(x)
  PROVE  Full'
<1> DEFINE j == [k |-> "request", e |-> x]
<1>1. j \in PcpJob /\ pcpQ' = Append(pcpQ, j) /\ ApiJob(j) /\ j.k = "request" /\ j.e = x
  BY DEF PcpJob, CallRequest, ApiJob
<1> HIDE DEF j
<1>2. /\ UNCHANGED <<chan, closed, runner, pending, ukey2, moved, conn, asked, told, ecm, state,
                     reader, keep, heard, pcp, em, emQ, future>>
      /\ api = "idle" /\ api' = "busy" /\ conn[x].chan = 0
  BY DEF CallRequest, chans, pcpVars, client, workers
<1>3. /\ pcpQ' \in Seq(PcpJob)
      /\ \A c : (ResponseDue(c)' <=> ResponseDue(c)) /\ (KeyDue(c) => KeyDue(c)')
      /\ \A e : RequestDue(e)' <=> RequestDue(e) \/ e = x
      /\ LiveDue' <=> LiveDue
  BY <1>1, PcpPosted DEF Full, Types, LiveJob
<1>4. ~ApiDue /\ ~UnregisterDue /\ ~InRemoval /\ future = 0 /\ ~InAccept
  BY <1>2 DEF Full, Connection, CallInv
<1>5. PcpJobs'
  BY <1>1, <1>2, <1>4, PcpPostedJobs DEF Full, Types, LiveJob
<1>6. Types' /\ EmJobs'
  BY <1>2, <1>3, TypeFrame, EmSame DEF Full, Types, MapType, QueueType, caller
<1>7. Links'
  BY <1>2, <1>3, LinkFrame, EmSame, TypeFrame DEF Full, Links
<1>8. ConnInv'
  BY <1>2, <1>3 DEF Full, Connection, ConnInv, ConnOf, IsConnected, Accepting
<1>9. CallInv'
  BY <1>2, <1>4, EmSame DEF CallInv, InRemoval, InAccept
<1> QED
  BY <1>2, <1>3, <1>5, <1>6, <1>7, <1>8, <1>9, ConnectionFrame, EmSame DEF Full, Connection

\* AcceptConnection or RejectConnection is called.
LEMMA CallAnswerKeeps ==
  ASSUME Full, NEW c0 \in Chan, NEW a \in Local, CallAnswer(c0, a)
  PROVE  Full'
<1>1. /\ UNCHANGED <<chan, closed, runner, pending, ukey2, moved, conn, told, ecm, state,
                     reader, keep, heard, pcp, em, emQ, future>>
      /\ api = "idle" /\ asked' \subseteq asked /\ c0 \in asked
  BY DEF CallAnswer, chans, pcpVars, workers
<1>2. ~ApiDue /\ ~UnregisterDue /\ ~InRemoval /\ future = 0 /\ ~InAccept
  BY <1>1 DEF Full, Connection, CallInv
<1>3. c0 \in 1..Len(chan) /\ chan[c0].e \in Endpoint
  BY <1>1, Accessors DEF Full, Types, ChanType
<1>4. /\ pcpQ' \in Seq(PcpJob) /\ PcpJobs'
      /\ \A c : (ResponseDue(c)' <=> ResponseDue(c)) /\ (KeyDue(c) => KeyDue(c)')
      /\ \A e : RequestDue(e)' <=> RequestDue(e)
      /\ LiveDue' <=> LiveDue
      /\ UNCHANGED <<api, pcpQ>> \/ api' = "busy"
  <2>1. CASE UNCHANGED <<api, pcpQ>>
    BY <1>1, <2>1, PcpSame, TypeFrame DEF Full, Types, QueueType
  <2>2. CASE api' = "busy" /\ pcpQ' = Append(pcpQ, [k |-> "answer", e |-> chan[c0].e, a |-> a])
    <3> DEFINE j == [k |-> "answer", e |-> chan[c0].e, a |-> a]
    <3>1. j \in PcpJob /\ pcpQ' = Append(pcpQ, j) /\ ApiJob(j) /\ j.k = "answer"
      BY <1>3, <2>2 DEF PcpJob, ApiJob
    <3> HIDE DEF j
    <3>2. PcpJobs'
      BY <1>1, <1>2, <3>1, PcpPostedJobs DEF Full, Types, LiveJob
    <3> QED
      BY <2>2, <3>1, <3>2, PcpPosted DEF Full, Types, LiveJob, KeyJob
  <2> QED
    BY <2>1, <2>2 DEF CallAnswer
<1>5. Types' /\ EmJobs'
  BY <1>1, <1>4, TypeFrame, EmSame DEF Full, Types, ChanType, MapType, QueueType
<1>6. Links'
  BY <1>1, <1>4, LinkFrame, EmSame, TypeFrame DEF Full, Links
<1>7. CallInv'
  BY <1>1, <1>2, <1>4, EmSame, PcpSame DEF CallInv, InRemoval, InAccept
<1> QED
  BY <1>1, <1>4, <1>5, <1>6, <1>7, ConnectionFrame, EmSame DEF Full, Connection

\* DisconnectFromEndpoint is called.
LEMMA CallDisconnectKeeps ==
  ASSUME Full, NEW x \in Endpoint, CallDisconnect(x)
  PROVE  Full'
<1> DEFINE j == [k |-> "unregister", e |-> x, c |-> 0]
<1>1. j \in EmJob /\ emQ' = Append(emQ, j) /\ j.k = "unregister"
  BY Accessors DEF Full, EmJob, CallDisconnect
<1> HIDE DEF j
<1>2. /\ UNCHANGED <<chan, closed, runner, pending, ukey2, moved, conn, asked, told, ecm, state,
                     reader, keep, heard, pcp, pcpQ, em, future>>
      /\ api = "idle" /\ api' = "busy"
  BY DEF CallDisconnect, chans, pcpVars, client, workers
<1>3. ~ApiDue /\ ~UnregisterDue /\ ~InRemoval /\ future = 0 /\ ~InAccept
  BY <1>2 DEF Full, Connection, CallInv
<1>4. /\ emQ' \in Seq(EmJob) /\ EmJobs'
      /\ \A e, c : RegisterDue(e, c)' <=> RegisterDue(e, c)
      /\ \A e : (RemovalDue(e) => RemovalDue(e)') /\ (RemovalFirst(e) => RemovalFirst(e)')
  BY <1>1, <1>3, EmPosted DEF Full, Types
<1>5. Types' /\ PcpJobs'
  BY <1>2, <1>4, TypeFrame, PcpSame DEF Full, Types, MapType, QueueType, caller
<1>6. Links'
  BY <1>2, <1>4, LinkFrame, PcpSame, TypeFrame DEF Full, Links
<1>7. CallInv'
  BY <1>2, <1>3, PcpSame DEF CallInv, InRemoval, InAccept
<1> QED
  BY <1>2, <1>4, <1>5, <1>6, <1>7, ConnectionFrame, PcpSame DEF Full, Connection

-----------------------------------------------------------------------------
(* The alarm, the peer and the workers.                                    *)

\* A discard-endpoint job is posted, and nothing else happens to the queues.
LEMMA Discarded ==
  ASSUME Full, NEW x \in Endpoint, NEW y \in Ref, Discard(x, y)
  PROVE  /\ emQ' \in Seq(EmJob) /\ EmJobs'
         /\ \A e, c : RegisterDue(e, c)' <=> RegisterDue(e, c)
         /\ UnregisterDue' <=> UnregisterDue
         /\ \A e : (RemovalDue(e) => RemovalDue(e)') /\ (RemovalFirst(e) => RemovalFirst(e)')
         /\ RemovalDue(x)'
         /\ (\A c \in Ref : ~RegisterDue(x, c)) => RemovalFirst(x)'
<1> DEFINE j == [k |-> "discard", e |-> x, c |-> y]
<1>1. j \in EmJob /\ emQ' = Append(emQ, j) /\ j.k = "discard" /\ Removes(j, x)
  BY DEF EmJob, Discard, Removes
<1> HIDE DEF j
<1> QED
  BY <1>1, EmPosted DEF Full, Types

\* The alarm posts a discard-endpoint job.
LEMMA DelayedCloseKeeps ==
  ASSUME Full, NEW x \in Endpoint, DelayedClose(x)
  PROVE  Full'
<1>1. /\ UNCHANGED <<chan, closed, runner, pending, ukey2, moved, conn, asked, told, ecm, state,
                     reader, keep, heard, pcp, pcpQ, em, caller>>
      /\ Discard(x, 0)
  BY DEF DelayedClose, chans, pcpVars, client, workers
<1>2. /\ emQ' \in Seq(EmJob) /\ EmJobs'
      /\ \A e, c : RegisterDue(e, c)' <=> RegisterDue(e, c)
      /\ UnregisterDue' <=> UnregisterDue
      /\ \A e : (RemovalDue(e) => RemovalDue(e)') /\ (RemovalFirst(e) => RemovalFirst(e)')
  BY <1>1, Discarded, Accessors DEF Full
<1>3. Types' /\ PcpJobs'
  BY <1>1, <1>2, TypeFrame, PcpSame DEF Full, Types, QueueType
<1>4. Links'
  BY <1>1, <1>2, LinkFrame, PcpSame, TypeFrame DEF Full, Links
<1> QED
  BY <1>1, <1>2, <1>3, <1>4, ConnectionFrame, PcpSame DEF Full, Connection, caller

\* Nothing depends on which channels are open.
LEMMA PeerClosesKeeps ==
  ASSUME Full, NEW c0 \in Chan, PeerCloses(c0)
  PROVE  Full'
<1>1. /\ UNCHANGED <<chan, runner, pending, ukey2, moved, conn, asked, told, ecm, state,
                     reader, keep, heard, pcp, pcpQ, em, emQ, caller>>
      /\ c0 \in 1..Len(chan) /\ closed' = closed \cup {c0}
  BY DEF PeerCloses, chans, pcpVars, client, workers
<1>2. ChanType'
  BY <1>1 DEF Full, Types, ChanType
<1>3. Types' /\ PcpJobs' /\ EmJobs'
  BY <1>1, <1>2, TypeFrame, PcpSame, EmSame DEF Full, Types, QueueType
<1>4. Links'
  BY <1>1, LinkFrame, PcpSame, EmSame, TypeFrame DEF Full, Links
<1> QED
  BY <1>1, <1>3, <1>4, ConnectionFrame, PcpSame, EmSame DEF Full, Connection, caller

\* A worker belongs to an open channel that is not waiting to be registered.
LEMMA Worker ==
  ASSUME Full, NEW c0 \in Chan, reader[c0] # "none" \/ keep[c0] # "none"
  PROVE  /\ c0 \in 1..Len(chan) /\ chan[c0].e \in Endpoint /\ c0 \in Ref /\ c0 # 0
         /\ \A e \in Endpoint : New(e) => pending[e] # c0
         /\ \A e \in Endpoint : state[e] = c0 => e = chan[c0].e
         /\ ~WorkersDone(c0) => state[chan[c0].e] = c0
<1>1. c0 \in 1..Len(chan)
  <2>1. ~(c0 > Len(chan))
    BY DEF Full, Links, WorkerInv, Fresh
  <2> QED
    BY <2>1, Accessors, MaxChanAssumption DEF Full, Chan
<1> QED
  BY <1>1, Accessors DEF Full, Links, WorkerInv, NewInv, Fresh, OwnInv, Own

\* The reader ends and posts a discard-endpoint job.
LEMMA ReaderEndsKeeps ==
  ASSUME Full, NEW c0 \in Chan, ReaderEnds(c0)
  PROVE  Full'
<1>1. /\ UNCHANGED <<chan, closed, runner, pending, ukey2, moved, conn, asked, told, ecm, state,
                     keep, heard, pcp, pcpQ, em, caller>>
      /\ reader[c0] = "reading" /\ reader' = [reader EXCEPT ![c0] = "done"]
      /\ Discard(chan[c0].e, c0)
  BY DEF ReaderEnds, chans, pcpVars, client, workers
<1>2. PICK x \in Endpoint : /\ x = chan[c0].e /\ c0 \in 1..Len(chan) /\ c0 \in Ref
                            /\ \A e \in Endpoint : New(e) => pending[e] # c0
                            /\ \A e \in Endpoint : state[e] = c0 => e = x
  BY <1>1, Worker
<1>3. /\ emQ' \in Seq(EmJob) /\ EmJobs'
      /\ \A e, c : RegisterDue(e, c)' <=> RegisterDue(e, c)
      /\ UnregisterDue' <=> UnregisterDue
      /\ \A e : (RemovalDue(e) => RemovalDue(e)') /\ (RemovalFirst(e) => RemovalFirst(e)')
      /\ RemovalDue(x)'
  BY <1>1, <1>2, Discarded
<1>4. /\ reader'[c0] = "done" /\ \A c \in Chan : c # c0 => reader'[c] = reader[c]
      /\ reader' \in [Chan -> {"none", "reading", "locking", "handling", "done"}]
  BY <1>1 DEF Full, Types, MapType
<1>5. MapType'
  BY <1>1, <1>4 DEF Full, Types, MapType, caller
<1>6. Types' /\ PcpJobs'
  BY <1>1, <1>3, <1>5, TypeFrame, PcpSame DEF Full, Types, QueueType
<1>7. HandlerInv'
  BY <1>1, <1>4, PcpSame, PcpFields, Accessors DEF Full, Links, HandlerInv, Types
<1>8. WorkerInv' /\ NewInv'
  BY <1>1, <1>2, <1>4, Accessors DEF Full, Links, WorkerInv, WorkersDone, NewInv, New, Fresh
<1>9. Links'
  BY <1>1, <1>3, <1>7, <1>8, LinkFrame, PcpSame, TypeFrame DEF Full, Links
<1>10. HeardInv'
  BY <1>1, <1>4, PcpSame DEF Full, Connection, HeardInv, Unheard, RemoteAnswerOwn
<1>11. LeftInv'
  BY <1>1, <1>2, <1>3, <1>4, Accessors DEF Full, Connection, LeftInv, NoEntry
<1> QED
  BY <1>1, <1>3, <1>6, <1>9, <1>10, <1>11, ConnectionFrame, PcpSame DEF Full, Connection, caller

\* The keep-alive worker ends and posts a discard-endpoint job.
LEMMA KeepAliveEndsKeeps ==
  ASSUME Full, NEW c0 \in Chan, KeepAliveEnds(c0)
  PROVE  Full'
<1>1. /\ UNCHANGED <<chan, closed, runner, pending, ukey2, moved, conn, asked, told, ecm, state,
                     reader, heard, pcp, pcpQ, em, caller>>
      /\ keep[c0] = "running" /\ keep' = [keep EXCEPT ![c0] = "done"]
      /\ Discard(chan[c0].e, c0)
  BY DEF KeepAliveEnds, chans, pcpVars, client, workers
<1>2. PICK x \in Endpoint : /\ x = chan[c0].e /\ c0 \in 1..Len(chan) /\ c0 \in Ref
                            /\ \A e \in Endpoint : New(e) => pending[e] # c0
                            /\ \A e \in Endpoint : state[e] = c0 => e = x
  BY <1>1, Worker
<1>3. /\ emQ' \in Seq(EmJob) /\ EmJobs'
      /\ \A e, c : RegisterDue(e, c)' <=> RegisterDue(e, c)
      /\ UnregisterDue' <=> UnregisterDue
      /\ \A e : (RemovalDue(e) => RemovalDue(e)') /\ (RemovalFirst(e) => RemovalFirst(e)')
      /\ RemovalDue(x)'
  BY <1>1, <1>2, Discarded
<1>4. /\ keep'[c0] = "done" /\ \A c \in Chan : c # c0 => keep'[c] = keep[c]
      /\ keep' \in [Chan -> {"none", "running", "done"}]
  BY <1>1 DEF Full, Types, MapType
<1>5. MapType'
  BY <1>1, <1>4 DEF Full, Types, MapType, caller
<1>6. Types' /\ PcpJobs'
  BY <1>1, <1>3, <1>5, TypeFrame, PcpSame DEF Full, Types, QueueType
<1>7. WorkerInv' /\ NewInv'
  BY <1>1, <1>2, <1>4, Accessors DEF Full, Links, WorkerInv, WorkersDone, NewInv, New, Fresh
<1>8. Links'
  BY <1>1, <1>3, <1>7, LinkFrame, PcpSame, TypeFrame DEF Full, Links
<1>9. LeftInv'
  BY <1>1, <1>2, <1>3, <1>4, Accessors DEF Full, Connection, LeftInv, NoEntry
<1> QED
  BY <1>1, <1>3, <1>6, <1>8, <1>9, ConnectionFrame, PcpSame DEF Full, Connection, caller

\* An answer is read; what was on record for the connection is not the peer's.
LEMMA ReadResponseKeeps ==
  ASSUME Full, NEW c0 \in Chan, NEW a \in Remote, ReadResponse(c0, a)
  PROVE  Full'
<1>1. /\ UNCHANGED <<chan, closed, runner, pending, ukey2, moved, conn, asked, told, ecm, state,
                     keep, pcp, pcpQ, em, emQ, caller>>
      /\ reader[c0] = "reading" /\ c0 \notin runner /\ heard[c0] = "none"
      /\ reader' = [reader EXCEPT ![c0] = "locking"] /\ heard' = [heard EXCEPT ![c0] = a]
  BY DEF ReadResponse, chans, pcpVars, client, workers
<1>2. /\ c0 \in 1..Len(chan) /\ c0 \in Ref /\ state[chan[c0].e] = c0
      /\ \A e \in Endpoint : New(e) => pending[e] # c0
  BY <1>1, Worker DEF WorkersDone
<1>3. /\ reader'[c0] = "locking" /\ heard'[c0] = a /\ a # "none"
      /\ \A c \in Chan : c # c0 => reader'[c] = reader[c] /\ heard'[c] = heard[c]
      /\ reader' \in [Chan -> {"none", "reading", "locking", "handling", "done"}]
      /\ heard' \in [Chan -> {"none"} \cup Remote]
  BY <1>1 DEF Full, Types, MapType, Remote
<1>4. MapType'
  BY <1>1, <1>3 DEF Full, Types, MapType, caller
<1>5. PcpJobs'
  <2>1. \A n \in 1..Len(pcpQ) : pcpQ[n].k = "response" => pcpQ[n].c \in Chan /\ pcpQ[n].c # c0
    <3>1. \A n \in 1..Len(pcpQ) : pcpQ[n].k = "response" => pcpQ[n].c \in Chan
      BY PcpJobFields DEF Full, Types, QueueType
    <3>2. ~ResponseDue(c0)
      BY <1>1 DEF Full, Links, HandlerInv
    <3> QED
      BY <3>1, <3>2 DEF ResponseDue
  <2> QED
    BY <1>1, <1>3, <2>1 DEF Full, PcpJobs, Own
<1>6. Types' /\ EmJobs'
  BY <1>1, <1>4, TypeFrame, EmSame DEF Full, Types, QueueType
<1>7. HandlerInv'
  BY <1>1, <1>3, PcpSame, PcpFields, Accessors DEF Full, Links, HandlerInv, Types
<1>8. WorkerInv' /\ NewInv'
  BY <1>1, <1>2, <1>3, Accessors DEF Full, Links, WorkerInv, WorkersDone, NewInv, New, Fresh
<1>9. Links'
  BY <1>1, <1>7, <1>8, LinkFrame, PcpSame, EmSame, TypeFrame DEF Full, Links
<1>10. HeardInv'
  <2>1. \A c \in Chan : Unheard(c)' => Unheard(c)
    BY <1>1, <1>3, PcpSame DEF Unheard
  <2>2. \A e \in Endpoint : conn[e].chan = c0 => conn[e].bits \cap Remote = {}
    BY <1>1 DEF Full, Connection, HeardInv, Unheard
  <2>3. RemoteAnswerOwn'
    BY <1>1, <1>3, <2>2, Accessors DEF Full, Connection, HeardInv, RemoteAnswerOwn, Remote
  <2> QED
    BY <1>1, <1>3, <2>1, <2>3, Accessors DEF Full, Types, ChanType, Connection, HeardInv
<1>11. LeftInv'
  BY <1>1, <1>3, EmSame, Accessors DEF Full, Connection, LeftInv, NoEntry
<1> QED
  BY <1>1, <1>5, <1>6, <1>9, <1>10, <1>11, ConnectionFrame, PcpSame, EmSame
  DEF Full, Connection, caller

\* The reader posts the answer and waits for the job.
LEMMA HandleResponseKeeps ==
  ASSUME Full, NEW c0 \in Chan, HandleResponse(c0)
  PROVE  Full'
<1>1. /\ UNCHANGED <<chan, closed, runner, pending, ukey2, moved, conn, asked, told, ecm, state,
                     keep, heard, pcp, em, emQ, caller>>
      /\ reader[c0] = "locking" /\ ProcessorFree
      /\ reader' = [reader EXCEPT ![c0] = "handling"]
      /\ pcpQ' = Append(pcpQ, [k |-> "response", e |-> chan[c0].e, c |-> c0, a |-> heard[c0]])
  BY DEF HandleResponse, chans, pcpVars, client, workers
<1>2. /\ c0 \in 1..Len(chan) /\ c0 \in Ref /\ chan[c0].e \in Endpoint /\ state[chan[c0].e] = c0
      /\ \A e \in Endpoint : New(e) => pending[e] # c0
  BY <1>1, Worker DEF WorkersDone
<1>3. /\ heard[c0] \in Remote
      /\ \A c \in Chan : ~ResponseDue(c)
  BY <1>1, NoAnswerDue DEF Full, Links, Types, MapType, Connection, HeardInv
<1> DEFINE j == [k |-> "response", e |-> chan[c0].e, c |-> c0, a |-> heard[c0]]
<1>4. /\ j \in PcpJob /\ pcpQ' = Append(pcpQ, j) /\ j.k = "response" /\ j.c = c0
      /\ j.e = chan[c0].e /\ j.a = heard[c0]
  BY <1>1, <1>2, <1>3 DEF PcpJob
<1> HIDE DEF j
<1>5. /\ pcpQ' \in Seq(PcpJob)
      /\ \A c : (ResponseDue(c)' <=> ResponseDue(c) \/ c = c0) /\ (KeyDue(c) => KeyDue(c)')
      /\ \A e : RequestDue(e)' <=> RequestDue(e)
      /\ (LiveDue' <=> LiveDue) /\ (ApiDue' <=> ApiDue)
  BY <1>4, PcpPosted DEF Full, Types, LiveJob, ApiJob
<1>6. PcpJobs'
  BY <1>1, <1>2, <1>3, <1>4, PcpPostedJobs DEF Full, Types, LiveJob, ApiJob, Own
<1>7. /\ reader'[c0] = "handling" /\ \A c \in Chan : c # c0 => reader'[c] = reader[c]
      /\ reader' \in [Chan -> {"none", "reading", "locking", "handling", "done"}]
  BY <1>1 DEF Full, Types, MapType
<1>8. MapType'
  BY <1>1, <1>7 DEF Full, Types, MapType, caller
<1>9. Types' /\ EmJobs'
  BY <1>1, <1>5, <1>8, TypeFrame, EmSame DEF Full, Types, QueueType
<1>10. HandlerInv'
  BY <1>1, <1>3, <1>5, <1>7, PcpFields, Accessors DEF Full, Links, HandlerInv, Types, ProcessorFree
<1>11. WorkerInv' /\ NewInv'
  BY <1>1, <1>2, <1>7, Accessors DEF Full, Links, WorkerInv, WorkersDone, NewInv, New, Fresh
<1>12. Links'
  BY <1>1, <1>5, <1>10, <1>11, LinkFrame, EmSame, TypeFrame DEF Full, Links
<1>13. HeardInv'
  BY <1>1, <1>5, <1>7 DEF Full, Connection, HeardInv, Unheard, RemoteAnswerOwn
<1>14. LeftInv'
  BY <1>1, <1>7, EmSame, Accessors DEF Full, Connection, LeftInv, NoEntry
<1> QED
  BY <1>1, <1>5, <1>6, <1>9, <1>12, <1>13, <1>14, ConnectionFrame, EmSame
  DEF Full, Connection, caller

\* The handshake ends and its outcome is posted, before any answer is read.
LEMMA EncryptionEndsKeeps ==
  ASSUME Full, NEW c0 \in Chan, NEW o \in {"encrypted", "failed"}, EncryptionEnds(c0, o)
  PROVE  Full'
<1>1. /\ UNCHANGED <<chan, closed, pending, ukey2, moved, conn, asked, told, ecm, state,
                     reader, keep, heard, pcp, em, emQ, caller>>
      /\ c0 \in runner /\ runner' = runner \ {c0}
      /\ pcpQ' = Append(pcpQ, [k |-> o, e |-> chan[c0].e, c |-> c0])
  BY DEF EncryptionEnds, chans, pcpVars, client, workers
<1>2. c0 \in 1..Len(chan) /\ chan[c0].e \in Endpoint /\ heard[c0] = "none"
  BY <1>1, Accessors DEF Full, Types, ChanType, Connection, HeardInv
<1>3. ~ResponseDue(c0)
  <2>1. \A n \in 1..Len(pcpQ) : pcpQ[n].k = "response" =>
          pcpQ[n].a \in Remote /\ pcpQ[n].a = heard[pcpQ[n].c]
    BY PcpJobFields DEF Full, Types, QueueType, PcpJobs
  <2> QED
    BY <1>2, <2>1 DEF ResponseDue, Remote
<1> DEFINE j == [k |-> o, e |-> chan[c0].e, c |-> c0]
<1>4. /\ j \in PcpJob /\ pcpQ' = Append(pcpQ, j) /\ j.k \in {"encrypted", "failed"} /\ j.c = c0
      /\ j.e = chan[c0].e
  BY <1>1, <1>2 DEF PcpJob
<1> HIDE DEF j
<1>5. /\ pcpQ' \in Seq(PcpJob)
      /\ \A c : (ResponseDue(c)' <=> ResponseDue(c)) /\ (KeyDue(c) => KeyDue(c)')
      /\ KeyDue(c0)'
      /\ \A e : RequestDue(e)' <=> RequestDue(e)
      /\ (LiveDue' <=> LiveDue) /\ (ApiDue' <=> ApiDue)
  BY <1>3, <1>4, PcpPosted DEF Full, Types, LiveJob, ApiJob, KeyJob
<1>6. PcpJobs'
  BY <1>1, <1>2, <1>4, PcpPostedJobs DEF Full, Types, LiveJob, ApiJob, Own
<1>7. ChanType'
  BY <1>1 DEF Full, Types, ChanType
<1>8. Types' /\ EmJobs'
  BY <1>1, <1>5, <1>7, TypeFrame, EmSame DEF Full, Types, QueueType
<1>9. Links'
  BY <1>1, <1>5, LinkFrame, EmSame, TypeFrame DEF Full, Links
<1>10. HeardInv'
  BY <1>1, <1>5 DEF Full, Connection, HeardInv, Unheard, RemoteAnswerOwn
<1>11. KeyInv'
  BY <1>1, <1>5 DEF Full, Connection, KeyInv, IsConnected, Accepting
<1> QED
  BY <1>1, <1>5, <1>6, <1>8, <1>9, <1>10, <1>11, ConnectionFrame, EmSame
  DEF Full, Connection, caller

-----------------------------------------------------------------------------
(* New channels.                                                           *)

\* A channel is opened: it is new, and so are all that follow.
LEMMA ChannelAdded ==
  ASSUME Types, NEW x \in Endpoint, NEW i \in BOOLEAN, OpenPending(x, i)
  PROVE  /\ chan' \in Seq([e : Endpoint, in : BOOLEAN]) /\ Len(chan) \in Nat
         /\ Len(chan') = Len(chan) + 1 /\ Len(chan') <= MaxChan
         /\ chan'[Len(chan) + 1].e = x
         /\ \A c \in 1..Len(chan) : c \in 1..Len(chan') /\ chan'[c] = chan[c]
         /\ \A c \in 1..Len(chan') : c \in 1..Len(chan) \/ c = Len(chan) + 1
         /\ Len(chan) + 1 \in Chan /\ Len(chan) + 1 \in 1..Len(chan')
         /\ Grows
<1>1. PICK S : S = [e : Endpoint, in : BOOLEAN]
  OBVIOUS
<1>2. PICK r \in S : r = [e |-> x, in |-> i] /\ r.e = x
  <2>1. [e |-> x, in |-> i] \in S /\ [e |-> x, in |-> i].e = x
    BY <1>1
  <2> QED
    BY <2>1, Zenon
<1>3. chan \in Seq(S) /\ chan' = Append(chan, r)
  BY <1>1, <1>2 DEF Types, ChanType, OpenPending
<1>4. /\ chan' \in Seq(S) /\ Len(chan) \in Nat /\ Len(chan') = Len(chan) + 1
      /\ chan'[Len(chan) + 1] = r /\ \A n \in 1..Len(chan) : chan'[n] = chan[n]
  BY <1>3, QueueAdd
<1>5. Len(chan) + 1 <= MaxChan
  BY DEF OpenPending
<1>6. /\ \A c \in 1..Len(chan) : c \in 1..Len(chan')
      /\ \A c \in 1..Len(chan') : c \in 1..Len(chan) \/ c = Len(chan) + 1
      /\ Len(chan) + 1 \in Chan /\ Len(chan) + 1 \in 1..Len(chan')
  BY <1>4, <1>5, MaxChanAssumption DEF Chan
<1>7. Grows
  BY <1>4, <1>6 DEF Grows, Own
<1> QED
  BY <1>1, <1>2, <1>4, <1>5, <1>6, <1>7

\* The entry of an endpoint without a connection is made or replaced.
LEMMA Opened ==
  ASSUME Full, NEW x \in Endpoint, NEW i \in BOOLEAN, OpenPending(x, i), pcp = Idle,
         conn[x].chan = 0, UNCHANGED <<moved, conn, state, reader, keep, heard, ecm, em, pcp>>,
         \A c \in Chan : (ResponseDue(c)' => ResponseDue(c)) /\ (KeyDue(c) => KeyDue(c)'),
         \A e \in Endpoint : RequestDue(e)' => RequestDue(e), LiveDue' => LiveDue,
         \A e \in Endpoint, c \in Ref : RegisterDue(e, c)' => RegisterDue(e, c),
         \A e \in Endpoint : (RemovalDue(e) => RemovalDue(e)') /\ (RemovalFirst(e) => RemovalFirst(e)')
  PROVE  /\ Links' /\ ConnInv' /\ EmInv' /\ HeardInv' /\ KeyInv' /\ CtxInv' /\ LeftInv'
         /\ pending' \in [Endpoint -> Ref] /\ ukey2' \in [Endpoint -> Ref]
         /\ runner' \subseteq 1..Len(chan')
<1> DEFINE c0 == Len(chan) + 1
<1>1. /\ Len(chan) \in Nat /\ Len(chan') = c0 /\ chan'[c0].e = x
      /\ \A c \in 1..Len(chan) : c \in 1..Len(chan') /\ chan'[c] = chan[c]
      /\ \A c \in 1..Len(chan') : c \in 1..Len(chan) \/ c = c0
      /\ c0 \in Chan /\ c0 \in 1..Len(chan') /\ Grows
      /\ c0 > Len(chan) /\ c0 \notin 1..Len(chan)
  BY ChannelAdded DEF Full
<1>2. /\ pending'[x] = c0 /\ ukey2'[x] = 0 /\ runner' = runner \cup {c0} /\ c0 \in Ref /\ c0 # 0
      /\ \A e \in Endpoint : e # x => pending'[e] = pending[e] /\ ukey2'[e] = ukey2[e]
      /\ pending' \in [Endpoint -> Ref] /\ ukey2' \in [Endpoint -> Ref]
  BY <1>1, Accessors DEF OpenPending, Full, Types, MapType
<1>3. runner' \subseteq 1..Len(chan') /\ c0 \notin moved
  BY <1>1, <1>2 DEF Full, Types, ChanType
<1>4. Fresh(c0) /\ conn[x].bits = {}
  BY <1>1 DEF Full, Links, WorkerInv, Connection, ConnInv, ConnOf
<1>5. pcp.k = "idle" /\ \A e \in Endpoint, c \in Ref : ~RegisterDue(e, c) /\ em.k # "duplicate"
  BY DEF Idle, Full, Links, RegInv, Registers
<1> HIDE DEF c0
<1>6. OwnInv'
  <2>1. \A e \in Endpoint : state[e] # 0 => Own(state[e], e)'
    <3> SUFFICES ASSUME NEW e \in Endpoint, state[e] # 0 PROVE Own(state[e], e)'
      OBVIOUS
    <3>1. PICK c : c = state[e]
      OBVIOUS
    <3>2. Own(c, e)'
      BY <1>1, <3>1 DEF Full, Links, OwnInv, Grows
    <3> QED
      BY <3>1, <3>2 DEF Own
  <2>2. \A e \in Endpoint : e # x /\ pending[e] # 0 => Own(pending[e], e)'
    BY <1>1, <1>2 DEF Full, Links, OwnInv, Own
  <2> QED
    BY <1>1, <1>2, <2>1, <2>2 DEF OwnInv, Own
<1>7. HandlerInv'
  BY <1>5 DEF Full, Links, HandlerInv
<1>8. WorkerInv'
  BY <1>1, <1>4 DEF Full, Links, WorkerInv, WorkersDone, Fresh, Chan
<1>9. NewInv'
  BY <1>2, <1>4, <1>5 DEF Full, Links, NewInv, New, Fresh
<1>10. RegInv' /\ BarrierInv'
  BY <1>5 DEF Full, Links, RegInv, BarrierInv, Registers
<1>11. ConnInv'
  BY <1>2, <1>4, <1>5 DEF Full, Connection, ConnInv, ConnOf, IsConnected, Accepting
<1>12. EmInv' /\ CtxInv' /\ LeftInv'
  BY ConnectionFrame DEF Full, Connection
<1>13. HeardInv'
  BY <1>2, <1>4 DEF Full, Connection, HeardInv, Unheard, RemoteAnswerOwn, Fresh
<1>14. KeyInv'
  BY <1>2, <1>4, <1>5 DEF Full, Connection, KeyInv, IsConnected, Accepting
<1> QED
  BY <1>2, <1>3, <1>6, <1>7, <1>8, <1>9, <1>10, <1>11, <1>12, <1>13, <1>14 DEF Links

\* An endpoint connects to us.
LEMMA OnIncomingConnectionKeeps ==
  ASSUME Full, NEW x \in Endpoint, OnIncomingConnection(x)
  PROVE  Full'
<1>1. /\ UNCHANGED <<closed, moved, conn, asked, told, ecm, state, reader, keep, heard,
                     pcp, pcpQ, em, emQ, caller>>
      /\ pcp = Idle /\ ~IsConnected(x) /\ pending[x] = 0 /\ OpenPending(x, TRUE)
  BY DEF OnIncomingConnection, client, workers
<1>2. conn[x].chan = 0
  BY <1>1 DEF Full, Connection, ConnInv, ConnOf, Accepting, Idle
<1>3. /\ Links' /\ ConnInv' /\ EmInv' /\ HeardInv' /\ KeyInv' /\ CtxInv' /\ LeftInv'
      /\ pending' \in [Endpoint -> Ref] /\ ukey2' \in [Endpoint -> Ref]
      /\ runner' \subseteq 1..Len(chan')
  BY <1>1, <1>2, Opened, PcpSame, EmSame
<1>4. /\ chan' \in Seq([e : Endpoint, in : BOOLEAN]) /\ Len(chan') <= MaxChan /\ Grows
      /\ \A c \in 1..Len(chan) : c \in 1..Len(chan')
  BY <1>1, ChannelAdded DEF Full
<1>5. ChanType'
  BY <1>1, <1>3, <1>4 DEF Full, Types, ChanType
<1>6. MapType'
  BY <1>1, <1>3 DEF Full, Types, MapType, caller
<1>7. Types' /\ PcpJobs' /\ EmJobs'
  BY <1>1, <1>4, <1>5, <1>6, TypeFrame, PcpSame, EmSame DEF Full, Types, QueueType
<1> QED
  BY <1>1, <1>3, <1>7, ConnectionFrame, PcpSame, EmSame DEF Full, Connection, caller

\* The request-connection job, refused or not.
LEMMA RequestConnectionKeeps ==
  ASSUME Full, RequestConnection
  PROVE  Full'
<1>1. PICK j : j = Head(pcpQ)
  OBVIOUS
<1>2. /\ UNCHANGED <<closed, moved, conn, asked, told, ecm, state, reader, keep, heard,
                     pcp, em, emQ>>
      /\ pcp = Idle /\ pcpQ # <<>> /\ pcpQ' = Tail(pcpQ) /\ j.k = "request"
  BY <1>1 DEF RequestConnection, NextJob, client, workers
<1>3. /\ pcpQ' \in Seq(PcpJob) /\ j \in PcpJob /\ j.e \in Endpoint /\ RequestDue(j.e)
      /\ \A c : (ResponseDue(c)' <=> ResponseDue(c)) /\ (KeyDue(c) => KeyDue(c)')
      /\ \A e : RequestDue(e)' => RequestDue(e)
      /\ (LiveDue' => LiveDue) /\ ~ApiDue' /\ ApiDue
  BY <1>1, <1>2, PcpTaken, PcpJobFields DEF Full, Types, ApiJob, KeyJob, LiveJob
<1>4. ~UnregisterDue /\ ~InRemoval /\ future = 0 /\ ~InAccept /\ api # "idle"
  BY <1>3 DEF Full, Connection, CallInv
<1>5. PICK x \in Endpoint : x = j.e
  BY <1>3
<1>6. CASE api' = "idle" /\ UNCHANGED <<chan, runner, pending, ukey2, future>>
  <2>1. PcpJobs' /\ EmJobs'
    BY <1>2, <1>6, PcpTakenJobs, TypeFrame, EmSame DEF Full, Types
  <2>2. Types'
    BY <1>2, <1>3, <1>6, TypeFrame DEF Full, Types, MapType, QueueType
  <2>3. Links'
    BY <1>2, <1>3, <1>6, LinkFrame, EmSame, TypeFrame DEF Full, Links
  <2>4. CallInv'
    BY <1>2, <1>3, <1>4, <1>6, EmSame DEF CallInv, InRemoval, InAccept
  <2> QED
    BY <1>2, <1>3, <1>6, <2>1, <2>2, <2>3, <2>4, ConnectionFrame, EmSame DEF Full, Connection
<1>7. CASE pending[x] = 0 /\ OpenPending(x, FALSE) /\ future' = Len(chan) + 1 /\ api' = api
  <2>1. conn[x].chan = 0
    BY <1>2, <1>3, <1>5, <1>7 DEF Full, Connection, ConnInv, ConnOf, Accepting, Idle
  <2>2. /\ Links' /\ ConnInv' /\ EmInv' /\ HeardInv' /\ KeyInv' /\ CtxInv' /\ LeftInv'
        /\ pending' \in [Endpoint -> Ref] /\ ukey2' \in [Endpoint -> Ref]
        /\ runner' \subseteq 1..Len(chan')
    BY <1>2, <1>3, <1>7, <2>1, Opened, EmSame
  <2>3. /\ chan' \in Seq([e : Endpoint, in : BOOLEAN]) /\ Len(chan') <= MaxChan /\ Grows
        /\ \A c \in 1..Len(chan) : c \in 1..Len(chan')
        /\ Len(chan) + 1 \in Ref
    BY <1>7, ChannelAdded, Accessors DEF Full
  <2>4. ChanType'
    BY <1>2, <2>2, <2>3 DEF Full, Types, ChanType
  <2>5. MapType'
    BY <1>2, <1>7, <2>2, <2>3 DEF Full, Types, MapType
  <2>6. PcpJobs' /\ EmJobs'
    BY <1>2, <2>3, PcpTakenJobs, EmSame DEF Full, Types
  <2>7. Types'
    BY <1>2, <1>3, <2>4, <2>5, TypeFrame DEF Full, Types, QueueType
  <2>8. CallInv'
    BY <1>2, <1>3, <1>4, <1>7, EmSame DEF CallInv, InRemoval, InAccept
  <2> QED
    BY <2>2, <2>6, <2>7, <2>8 DEF Full, Connection
<1> QED
  BY <1>1, <1>5, <1>6, <1>7 DEF RequestConnection

\* The result of a request is set: the API thread goes on.
LEMMA ResultSet ==
  ASSUME Types, NEW c \in Ref, SetResult(c)
  PROVE  /\ UNCHANGED caller \/ (api' = "idle" /\ future' = 0 /\ future # 0)
         /\ api' \in {"idle", "busy"} /\ future' \in Ref
BY Accessors DEF Types, MapType, SetResult, caller

\* What the API thread waits for after that.
LEMMA ResultCall ==
  ASSUME Full, NEW c \in Ref, SetResult(c), InRemoval' => InRemoval, InAccept' => InAccept,
         (ApiDue' => ApiDue) /\ (UnregisterDue' => UnregisterDue)
  PROVE  CallInv'
<1>1. UNCHANGED caller \/ (api' = "idle" /\ future' = 0 /\ future # 0)
  BY ResultSet DEF Full
<1>2. CASE UNCHANGED caller
  BY <1>2 DEF Full, Connection, CallInv, caller
<1>3. CASE api' = "idle" /\ future' = 0 /\ future # 0
  BY <1>3 DEF Full, Connection, CallInv
<1> QED
  BY <1>1, <1>2, <1>3

\* The tie is broken: the pending channel goes, and theirs may take its place.
LEMMA BreakTieKeeps ==
  ASSUME Full, NEW x \in Endpoint, BreakTie(x), ~Crashed'
  PROVE  Full'
<1>1. /\ UNCHANGED <<moved, asked, ecm, state, reader, keep, heard, pcpQ, em>>
      /\ pcp = Idle /\ pcp' = pcp /\ pending[x] # 0 /\ pending[x] \notin moved
      /\ closed' = closed \cup {pending[x]} /\ SetResult(pending[x]) /\ Discard(x, 0)
      /\ OnConnectionRejected(x)
      /\ \/ OpenPending(x, TRUE)
         \/ pending' = [pending EXCEPT ![x] = 0] /\ UNCHANGED <<chan, runner, ukey2>>
  <2>1. ~Crash("BreakTie")
    BY DEF Crash, Crashed
  <2> QED
    BY <2>1 DEF BreakTie, client, workers
<1>2. conn[x].chan = 0 /\ Own(pending[x], x) /\ pending[x] \in Ref
  BY <1>1, Accessors DEF Full, Links, NewInv, New, OwnInv
<1>3. UNCHANGED <<told, conn>>
  BY <1>1, <1>2 DEF OnConnectionRejected, HasPending
<1>4. /\ emQ' \in Seq(EmJob) /\ EmJobs'
      /\ \A e, c : RegisterDue(e, c)' <=> RegisterDue(e, c)
      /\ UnregisterDue' <=> UnregisterDue
      /\ \A e : (RemovalDue(e) => RemovalDue(e)') /\ (RemovalFirst(e) => RemovalFirst(e)')
  BY <1>1, Discarded, Accessors DEF Full
<1>5. api' \in {"idle", "busy"} /\ future' \in Ref
  BY <1>1, <1>2, ResultSet DEF Full
<1>6. CallInv'
  BY <1>1, <1>2, <1>4, ResultCall, PcpSame DEF InRemoval, InAccept
<1>7. CASE OpenPending(x, TRUE)
  <2>1. /\ Links' /\ ConnInv' /\ EmInv' /\ HeardInv' /\ KeyInv' /\ CtxInv' /\ LeftInv'
        /\ pending' \in [Endpoint -> Ref] /\ ukey2' \in [Endpoint -> Ref]
        /\ runner' \subseteq 1..Len(chan')
    BY <1>1, <1>2, <1>3, <1>4, <1>7, Opened, PcpSame
  <2>2. /\ chan' \in Seq([e : Endpoint, in : BOOLEAN]) /\ Len(chan') <= MaxChan /\ Grows
        /\ \A c \in 1..Len(chan) : c \in 1..Len(chan')
    BY <1>7, ChannelAdded DEF Full
  <2>3. ChanType'
    BY <1>1, <1>2, <2>1, <2>2 DEF Full, Types, ChanType, Own
  <2>4. MapType'
    BY <1>1, <1>3, <1>5, <2>1 DEF Full, Types, MapType
  <2> QED
    BY <1>1, <1>4, <1>6, <2>1, <2>2, <2>3, <2>4, TypeFrame, PcpSame
    DEF Full, Types, QueueType, Connection
<1>8. CASE pending' = [pending EXCEPT ![x] = 0] /\ UNCHANGED <<chan, runner, ukey2>>
  <2>1. /\ pending'[x] = 0 /\ \A e \in Endpoint : e # x => pending'[e] = pending[e]
        /\ pending' \in [Endpoint -> Ref]
    BY <1>8, Accessors DEF Full, Types, MapType
  <2>2. ChanType'
    BY <1>1, <1>2, <1>8 DEF Full, Types, ChanType, Own
  <2>3. MapType'
    BY <1>1, <1>3, <1>5, <1>8, <2>1 DEF Full, Types, MapType
  <2>4. Types' /\ PcpJobs'
    BY <1>1, <1>4, <1>8, <2>2, <2>3, TypeFrame, PcpSame DEF Full, Types, QueueType
  <2>5. pcp.k = "idle" /\ \A e \in Endpoint, c \in Ref : ~RegisterDue(e, c) /\ em.k # "duplicate"
    BY <1>1 DEF Idle, Full, Links, RegInv, Registers
  <2>6. OwnInv' /\ NewInv' /\ RegInv'
    BY <1>1, <1>3, <1>4, <1>8, <2>1, <2>5, Accessors
    DEF Full, Links, OwnInv, Own, NewInv, New, Fresh, RegInv, Registers
  <2>7. Links'
    BY <1>1, <1>8, <2>6, LinkFrame, PcpSame DEF Full, Links
  <2>8. ConnInv'
    BY <1>1, <1>2, <1>3, <2>1, <2>5, PcpSame DEF Full, Connection, ConnInv, ConnOf, IsConnected, Accepting
  <2>9. KeyInv'
    BY <1>1, <1>3, <1>8, <2>1, <2>5, PcpSame, Accessors
    DEF Full, Connection, KeyInv, IsConnected, Accepting
  <2> QED
    BY <1>1, <1>3, <1>4, <1>6, <1>8, <2>4, <2>7, <2>8, <2>9, ConnectionFrame, PcpSame
    DEF Full, Connection
<1> QED
  BY <1>1, <1>7, <1>8

-----------------------------------------------------------------------------
(* The outcome of the handshake.                                           *)

\* While the PCP handler thread is idle nothing is being registered.
LEMMA IdlePcp ==
  ASSUME Full, pcp = Idle
  PROVE  /\ pcp.k = "idle" /\ em.k # "duplicate"
         /\ \A e \in Endpoint, c \in Ref : ~RegisterDue(e, c)
         /\ \A e \in Endpoint : ~Accepting(e)
         /\ pcp' = pcp /\ em'.k # "duplicate"
              /\ (\A e \in Endpoint, c \in Ref : RegisterDue(e, c)' => RegisterDue(e, c)) => RegInv'
<1>1. pcp.k = "idle"
  BY DEF Idle
<1>2. /\ em.k # "duplicate" /\ \A e \in Endpoint, c \in Ref : ~RegisterDue(e, c)
      /\ \A e \in Endpoint : ~Accepting(e)
  BY <1>1 DEF Full, Links, RegInv, Registers, Accepting
<1> QED
  BY <1>1, <1>2 DEF RegInv

\* A channel belongs to one endpoint.
LEMMA OwnOne ==
  ASSUME Full, NEW c, NEW x \in Endpoint, Own(c, x)
  PROVE  \A e \in Endpoint : (pending[e] # 0 /\ pending[e] = c) \/ (state[e] # 0 /\ state[e] = c) => e = x
BY DEF Full, Links, OwnInv, Own

\* The handshake succeeded: the entry takes the key, whichever channel it is of.
LEMMA OnEncryptionSuccessKeeps ==
  ASSUME Full, OnEncryptionSuccess, ~Crashed'
  PROVE  Full'
<1>1. PICK j : j = Head(pcpQ)
  OBVIOUS
<1>2. /\ UNCHANGED <<chan, closed, runner, pending, moved, conn, asked, told, ecm, state, reader,
                     keep, heard, em, emQ, caller>>
      /\ pcp = Idle /\ pcpQ # <<>> /\ pcpQ' = Tail(pcpQ) /\ j.k = "encrypted"
      /\ \/ pending[j.e] = 0 /\ UNCHANGED <<pcp, ukey2>>
         \/ /\ pending[j.e] # 0 /\ pending[j.e] \notin moved
            /\ ukey2' = [ukey2 EXCEPT ![j.e] = j.c] /\ pcp' = [k |-> "locking", e |-> j.e]
  <2>1. ~Crash("OnEncryptionSuccess")
    BY DEF Crash, Crashed
  <2> QED
    BY <1>1, <2>1 DEF OnEncryptionSuccess, NextJob, chans, client, workers
<1>3. /\ pcpQ' \in Seq(PcpJob) /\ j \in PcpJob /\ j.e \in Endpoint /\ j.c \in Chan /\ Own(j.c, j.e)
      /\ \A c : (ResponseDue(c)' <=> ResponseDue(c)) /\ (KeyDue(c) /\ c # j.c => KeyDue(c)')
      /\ \A e : RequestDue(e)' => RequestDue(e)
      /\ (LiveDue' => LiveDue) /\ (ApiDue' => ApiDue)
  BY <1>1, <1>2, PcpTaken, PcpJobFields DEF Full, Types
<1>4. PcpJobs' /\ EmJobs'
  BY <1>2, PcpTakenJobs, TypeFrame, EmSame DEF Full, Types
<1>5. PICK x \in Endpoint : x = j.e
  BY <1>3
<1>6. \A e \in Endpoint : pending[e] # 0 /\ pending[e] = j.c => e = x
  BY <1>3, <1>5, OwnOne
<1>7. /\ pcp.k = "idle" /\ em.k # "duplicate"
      /\ \A e \in Endpoint, c \in Ref : ~RegisterDue(e, c)
      /\ \A e \in Endpoint : ~Accepting(e)
  BY <1>2, IdlePcp
<1>8. CASE pending[x] = 0 /\ UNCHANGED <<pcp, ukey2>>
  <2>1. Types' /\ Links'
    BY <1>2, <1>3, <1>8, TypeFrame, LinkFrame, EmSame DEF Full, Types, QueueType, Links
  <2>2. KeyInv'
    BY <1>2, <1>3, <1>6, <1>8, Accessors DEF Full, Connection, KeyInv, IsConnected, Accepting
  <2> QED
    BY <1>2, <1>3, <1>4, <1>8, <2>1, <2>2, ConnectionFrame, EmSame DEF Full, Connection, caller
<1>9. CASE /\ pending[x] # 0 /\ pending[x] \notin moved
           /\ ukey2' = [ukey2 EXCEPT ![x] = j.c] /\ pcp' = [k |-> "locking", e |-> x]
  <2>1. /\ pcp'.k = "locking" /\ pcp'.e = x /\ pcp' \in PcpState
        /\ ukey2'[x] = j.c /\ ukey2' \in [Endpoint -> Ref]
        /\ \A e \in Endpoint : e # x => ukey2'[e] = ukey2[e]
    BY <1>3, <1>9, Accessors DEF PcpState, Full, Types, MapType
  <2>2. MapType'
    BY <1>2, <2>1 DEF Full, Types, MapType, caller
  <2>3. ThreadType'
    BY <1>2, <2>1 DEF Full, Types, ThreadType
  <2>4. Types'
    BY <1>2, <1>3, <2>2, <2>3, TypeFrame DEF Full, Types, QueueType
  <2>5. HandlerInv' /\ NewInv'
    BY <1>2, <1>3, <1>7, <2>1 DEF Full, Links, HandlerInv, NewInv, New, Fresh
  <2>6. RegInv'
    BY <1>2, <1>7, <1>9, <2>1, EmSame DEF RegInv
  <2>7. Links'
    BY <1>2, <1>3, <2>5, <2>6, LinkFrame, TypeFrame DEF Full, Links
  <2>8. ConnInv' /\ CtxInv'
    BY <1>2, <1>3, <1>7, <2>1, EmSame
    DEF Full, Connection, ConnInv, ConnOf, CtxInv, IsConnected, Accepting
  <2>9. KeyInv'
    <3>1. \A e \in Endpoint, c \in Chan : pending[e] = c /\ ukey2'[e] # c =>
            ukey2[e] # c /\ c # j.c
      BY <1>2, <1>6, <1>7, <1>9, <2>1, Accessors DEF Full, Connection, KeyInv
    <3>2. \A e \in Endpoint, c \in Chan : pending[e] = c /\ ukey2'[e] # c =>
            (c \in runner \/ KeyDue(c)') /\ conn[e].bits \cap Remote = {}
      BY <1>3, <3>1 DEF Full, Connection, KeyInv
    <3>3. \A e \in Endpoint : pending[e] # 0 /\ ukey2'[e] = pending[e] /\ pending[e] \notin moved => e = x
      BY <1>7, <2>1 DEF Full, Connection, KeyInv
    <3>4. \A e \in Endpoint : ~Accepting(e)'
      BY <2>1 DEF Accepting
    <3> QED
      BY <1>2, <1>7, <2>1, <3>2, <3>3, <3>4 DEF Full, Connection, KeyInv, IsConnected
  <2>10. CallInv'
    BY <1>2, <1>3, <1>7, <2>1, EmSame DEF Full, Connection, CallInv, InRemoval, InAccept, caller
  <2> QED
    BY <1>2, <1>3, <1>4, <2>4, <2>7, <2>8, <2>9, <2>10, ConnectionFrame, EmSame DEF Full, Connection
<1> QED
  BY <1>2, <1>5, <1>8, <1>9

\* The channel is handed over to be registered.
LEMMA RegisterEndpointKeeps ==
  ASSUME Full, RegisterEndpoint
  PROVE  Full'
<1>1. /\ UNCHANGED <<chan, closed, runner, pending, ukey2, conn, asked, told, ecm, state, reader,
                     keep, heard, pcpQ, em, caller>>
      /\ pcp.k = "locking"
      /\ pcp' = [k |-> "registering", e |-> pcp.e] /\ moved' = moved \cup {pending[pcp.e]}
      /\ emQ' = Append(emQ, [k |-> "register", e |-> pcp.e, c |-> pending[pcp.e]])
  BY DEF RegisterEndpoint, chans, client, workers
<1>2. PICK x \in Endpoint : x = pcp.e
  BY <1>1, PcpFields DEF Full, Types
<1>3. PICK p \in Chan : p = pending[x] /\ p \notin moved /\ Own(p, x) /\ p \in Ref
  BY <1>1, <1>2, Accessors DEF Full, Links, RegInv, OwnInv
<1>4. (\A e \in Endpoint, c \in Ref : ~RegisterDue(e, c)) /\ em.k # "duplicate"
  BY <1>1 DEF Full, Links, RegInv, Registers
<1> DEFINE j == [k |-> "register", e |-> x, c |-> p]
<1>5. j \in EmJob /\ emQ' = Append(emQ, j) /\ j.k = "register" /\ j.e = x /\ j.c = p
  BY <1>1, <1>2, <1>3 DEF EmJob
<1> HIDE DEF j
<1>6. /\ emQ' \in Seq(EmJob) /\ EmJobs'
      /\ \A e, c : RegisterDue(e, c)' <=> RegisterDue(e, c) \/ (e = x /\ c = p)
      /\ UnregisterDue' <=> UnregisterDue
      /\ \A e : (RemovalDue(e) => RemovalDue(e)') /\ (RemovalFirst(e) => RemovalFirst(e)')
  BY <1>4, <1>5, EmPosted DEF Full, Types
<1>7. /\ pcp'.k = "registering" /\ pcp'.e = x /\ pcp' \in PcpState /\ moved' = moved \cup {p}
  BY <1>1, <1>2, <1>3 DEF PcpState
<1>8. ChanType' /\ ThreadType'
  BY <1>1, <1>3, <1>7 DEF Full, Types, ChanType, ThreadType, Own
<1>9. Types' /\ PcpJobs'
  BY <1>1, <1>6, <1>8, TypeFrame, PcpSame DEF Full, Types, QueueType
<1>10. HandlerInv' /\ NewInv'
  BY <1>1, <1>2, <1>3, <1>7, PcpSame DEF Full, Links, HandlerInv, NewInv, New, Fresh
<1>11. RegInv'
  BY <1>1, <1>2, <1>3, <1>4, <1>6, <1>7, Accessors DEF Full, RegInv, Registers
<1>12. Links'
  BY <1>1, <1>10, <1>11, LinkFrame, PcpSame, TypeFrame DEF Full, Links
<1>13. ConnInv' /\ CtxInv'
  BY <1>1, <1>6, <1>7, PcpSame
  DEF Full, Connection, ConnInv, ConnOf, CtxInv, IsConnected, Accepting
<1>14. KeyInv'
  <2>1. \A e \in Endpoint : pending[e] # 0 /\ ukey2[e] = pending[e] => pending[e] \in moved'
    BY <1>1, <1>2, <1>3, <1>7 DEF Full, Connection, KeyInv
  <2>2. \A e \in Endpoint : ~Accepting(e) /\ ~Accepting(e)'
    BY <1>1, <1>7 DEF Accepting
  <2> QED
    BY <1>1, <2>1, <2>2, PcpSame DEF Full, Connection, KeyInv, IsConnected
<1>15. CallInv'
  BY <1>1, <1>6, <1>7, PcpSame DEF Full, Connection, CallInv, InRemoval, InAccept, caller
<1> QED
  BY <1>1, <1>6, <1>9, <1>12, <1>13, <1>14, <1>15, ConnectionFrame, PcpSame DEF Full, Connection

\* The entry of an endpoint leaves pending_connections_, and a connection that was pending is
\* rejected.
LEMMA Dropped ==
  ASSUME Full, NEW x \in Endpoint, pcp = Idle, DropPending(x), OnConnectionRejected(x),
         UNCHANGED <<pcp, chan, runner, moved, state, keep, heard>>,
         \A c \in Chan : reader'[c] = reader[c] \/ (reader[c] = "handling" /\ reader'[c] = "reading"),
         \A e \in Endpoint : (ecm'[e].chan = ecm[e].chan /\ ecm'[e].ctx = ecm[e].ctx) \/ ecm'[e].chan = 0,
         \A c \in Chan : ResponseDue(c)' => ResponseDue(c),
         \A c \in Chan : KeyDue(c) /\ ~Own(c, x) => KeyDue(c)',
         \A e \in Endpoint : RequestDue(e)' => RequestDue(e)
  PROVE  /\ OwnInv' /\ NewInv' /\ ConnInv' /\ HeardInv' /\ KeyInv'
         /\ pending' \in [Endpoint -> Ref] /\ ukey2' \in [Endpoint -> Ref]
         /\ conn' \in [Endpoint -> [bits : SUBSET Bits, chan : Ref]]
         /\ told' \in [Chan -> {"none", "initiated", "accepted", "rejected", "disconnected"}]
         /\ closed' \subseteq 1..Len(chan)
         /\ \A e \in Endpoint : conn'[e] = conn[e] \/ conn'[e] = NoConn
<1>1. /\ pending'[x] = 0 /\ ukey2'[x] = 0
      /\ \A e \in Endpoint : e # x => pending'[e] = pending[e] /\ ukey2'[e] = ukey2[e]
      /\ pending' \in [Endpoint -> Ref] /\ ukey2' \in [Endpoint -> Ref]
  BY Accessors DEF DropPending, Full, Types, MapType
<1>2. closed' \subseteq 1..Len(chan)
  BY DEF DropPending, Full, Types, ChanType, Links, OwnInv, Own
<1>3. /\ \A e \in Endpoint : conn'[e] = conn[e] \/ (e = x /\ conn'[e] = NoConn)
      /\ conn'[x] = NoConn \/ (conn'[x] = conn[x] /\ ~HasPending(x))
      /\ conn' \in [Endpoint -> [bits : SUBSET Bits, chan : Ref]]
  <2>1. PICK S : S = [bits : SUBSET Bits, chan : Ref]
    OBVIOUS
  <2>2. NoConn \in S
    BY <2>1, Accessors DEF Full, NoConn
  <2>3. conn \in [Endpoint -> S]
    BY <2>1 DEF Full, Types, MapType
  <2> QED
    BY <2>1, <2>2, <2>3 DEF OnConnectionRejected
<1>4. told' \in [Chan -> {"none", "initiated", "accepted", "rejected", "disconnected"}]
  BY Accessors DEF OnConnectionRejected, Full, Types, MapType
<1>5. NoConn.chan = 0 /\ NoConn.bits = {}
  BY DEF NoConn
<1>6. /\ pcp.k = "idle" /\ \A e \in Endpoint : ~Accepting(e) /\ ~Accepting(e)'
  BY IdlePcp DEF Accepting
<1>7. OwnInv'
  BY <1>1 DEF Full, Links, OwnInv, Own
<1>8. NewInv'
  <2>1. \A c \in Chan : Fresh(c) => Fresh(c)'
    BY DEF Fresh
  <2>2. \A e \in Endpoint : New(e)' => New(e) /\ e # x
    BY <1>1, <1>6 DEF New
  <2> QED
    BY <1>1, <1>3, <1>5, <2>1, <2>2, Accessors DEF Full, Links, NewInv, New, Fresh
<1>9. ConnInv'
  <2>1. ConnOf(x)'
    BY <1>1, <1>3, <1>5, <1>6 DEF Full, Connection, ConnInv, ConnOf, HasPending, IsConnected
  <2>2. ASSUME NEW e \in Endpoint, e # x PROVE ConnOf(e)'
    BY <1>1, <1>3, <1>5, <1>6, <2>2 DEF Full, Connection, ConnInv, ConnOf, IsConnected
  <2> QED
    BY <2>1, <2>2 DEF ConnInv
<1>10. HeardInv'
  <2>1. \A c \in Chan : (Unheard(c)' => Unheard(c)) /\ (reader'[c] = "locking" => reader[c] = "locking")
    BY DEF Unheard
  <2> QED
    BY <1>3, <1>5, <2>1, Accessors DEF Full, Connection, HeardInv, RemoteAnswerOwn
<1>11. KeyInv'
  <2>1. \A e \in Endpoint, c \in Chan : pending'[e] = c => e # x /\ pending[e] = c /\ ~Own(c, x)
    BY <1>1, Accessors, OwnOne DEF Full
  <2>2. \A e \in Endpoint, c \in Chan : pending'[e] = c /\ ukey2'[e] # c =>
          (c \in runner' \/ KeyDue(c)') /\ conn'[e].bits \cap Remote = {}
    BY <1>1, <1>3, <1>5, <2>1 DEF Full, Connection, KeyInv
  <2>3. \A e \in Endpoint : pending'[e] # 0 /\ ukey2'[e] = pending'[e] => pending'[e] \in moved'
    BY <1>1, <1>6 DEF Full, Connection, KeyInv
  <2>4. \A e \in Endpoint : IsConnected(e)' => IsConnected(e) /\ conn'[e] = conn[e]
    BY <1>3, <1>5 DEF IsConnected
  <2>5. \A e \in Endpoint : IsConnected(e)' /\ ecm'[e].chan # 0 => ecm'[e].ctx = conn'[e].chan
    BY <2>4 DEF Full, Connection, KeyInv, IsConnected
  <2> QED
    BY <1>6, <2>2, <2>3, <2>5 DEF KeyInv
<1> QED
  BY <1>1, <1>2, <1>3, <1>4, <1>7, <1>8, <1>9, <1>10, <1>11

\* The handshake failed: the entry goes, if it is the one of that channel.
LEMMA OnEncryptionFailureKeeps ==
  ASSUME Full, OnEncryptionFailure, ~Crashed'
  PROVE  Full'
<1>1. PICK j : j = Head(pcpQ)
  OBVIOUS
<1>2. /\ UNCHANGED <<chan, runner, moved, conn, asked, told, ecm, state, reader,
                     keep, heard, em, emQ, pcp>>
      /\ pcp = Idle /\ pcpQ # <<>> /\ pcpQ' = Tail(pcpQ) /\ j.k = "failed"
      /\ \/ /\ pending[j.e] = 0 \/ ~SameChannel(j.c, pending[j.e])
            /\ UNCHANGED <<closed, pending, ukey2, caller>>
         \/ /\ pending[j.e] # 0 /\ pending[j.e] \notin moved
            /\ DropPending(j.e) /\ SetResult(pending[j.e])
  <2>1. ~Crash("OnEncryptionFailure")
    BY DEF Crash, Crashed
  <2> QED
    BY <1>1, <2>1 DEF OnEncryptionFailure, NextJob, client, workers
<1>3. /\ pcpQ' \in Seq(PcpJob) /\ j \in PcpJob /\ j.e \in Endpoint /\ j.c \in Chan /\ Own(j.c, j.e)
      /\ \A c : (ResponseDue(c)' <=> ResponseDue(c)) /\ (KeyDue(c) /\ c # j.c => KeyDue(c)')
      /\ \A e : RequestDue(e)' => RequestDue(e)
      /\ (LiveDue' => LiveDue) /\ (ApiDue' => ApiDue)
  BY <1>1, <1>2, PcpTaken, PcpJobFields DEF Full, Types
<1>4. PcpJobs' /\ EmJobs'
  BY <1>2, PcpTakenJobs, TypeFrame, EmSame DEF Full, Types
<1>5. PICK x \in Endpoint : x = j.e
  BY <1>3
<1>6. \A e \in Endpoint : pending[e] # 0 /\ pending[e] = j.c => e = x
  BY <1>3, <1>5, OwnOne
<1>7. CASE /\ pending[x] = 0 \/ ~SameChannel(j.c, pending[x])
           /\ UNCHANGED <<closed, pending, ukey2, caller>>
  <2>1. \A e \in Endpoint : pending[e] # 0 => pending[e] # j.c
    BY <1>6, <1>7 DEF SameChannel
  <2>2. Types' /\ Links'
    BY <1>2, <1>3, <1>7, TypeFrame, LinkFrame, EmSame DEF Full, Types, QueueType, Links
  <2>3. KeyInv'
    BY <1>2, <1>3, <1>7, <2>1, Accessors DEF Full, Connection, KeyInv, IsConnected, Accepting
  <2> QED
    BY <1>2, <1>3, <1>4, <1>7, <2>2, <2>3, ConnectionFrame, EmSame DEF Full, Connection, caller
<1>8. CASE /\ pending[x] # 0 /\ pending[x] \notin moved
           /\ DropPending(x) /\ SetResult(pending[x])
  <2>1. OnConnectionRejected(x)
    BY <1>2, <1>8 DEF Full, Links, NewInv, New, OnConnectionRejected, HasPending
  <2>2. \A c \in Chan : KeyDue(c) /\ ~Own(c, x) => KeyDue(c)'
    BY <1>3, <1>5
  <2>3. /\ OwnInv' /\ NewInv' /\ ConnInv' /\ HeardInv' /\ KeyInv'
        /\ pending' \in [Endpoint -> Ref] /\ ukey2' \in [Endpoint -> Ref]
        /\ closed' \subseteq 1..Len(chan)
    BY <1>2, <1>3, <1>8, <2>1, <2>2, Dropped
  <2>4. api' \in {"idle", "busy"} /\ future' \in Ref /\ CallInv'
    BY <1>2, <1>3, <1>8, Accessors, ResultSet, ResultCall, EmSame DEF Full, InRemoval, InAccept
  <2>5. ChanType' /\ MapType'
    BY <1>2, <2>3, <2>4 DEF Full, Types, ChanType, MapType
  <2>6. Types'
    BY <1>2, <1>3, <2>5, TypeFrame DEF Full, Types, QueueType
  <2>7. RegInv'
    BY <1>2, IdlePcp, EmSame
  <2>8. Links'
    BY <1>2, <1>3, <2>3, <2>7, LinkFrame, EmSame DEF Full, Links
  <2> QED
    BY <1>2, <1>4, <2>3, <2>4, <2>6, <2>8, ConnectionFrame, EmSame DEF Full, Connection
<1> QED
  BY <1>2, <1>5, <1>7, <1>8

\* The entry goes with the endpoint, and the EndpointManager thread is released.
LEMMA OnEndpointDisconnectKeeps ==
  ASSUME Full, OnEndpointDisconnect
  PROVE  Full'
<1>1. PICK j : j = Head(pcpQ)
  OBVIOUS
<1>2. /\ UNCHANGED <<chan, runner, moved, asked, ecm, state, reader, keep, heard, pcp, emQ>>
      /\ pcp = Idle /\ pcpQ # <<>> /\ pcpQ' = Tail(pcpQ) /\ j.k = "disconnect"
      /\ DropPending(j.e) /\ SetResult(pending[j.e]) /\ OnConnectionRejected(j.e)
      /\ em' = IF j.live THEN [em EXCEPT !.k = "gone"] ELSE em
  BY <1>1 DEF OnEndpointDisconnect, NextJob, workers
<1>3. /\ pcpQ' \in Seq(PcpJob) /\ j \in PcpJob /\ j.e \in Endpoint /\ j.live \in BOOLEAN
      /\ \A c : (ResponseDue(c)' <=> ResponseDue(c)) /\ (KeyDue(c) => KeyDue(c)')
      /\ \A e : RequestDue(e)' => RequestDue(e)
      /\ LiveDue' <=> LiveDue /\ ~j.live
      /\ j.live => LiveDue
      /\ ApiDue' => ApiDue
  BY <1>1, <1>2, PcpTaken, PcpJobFields DEF Full, Types, KeyJob, LiveJob
<1>4. PcpJobs' /\ EmJobs'
  BY <1>2, PcpTakenJobs, TypeFrame, EmSame DEF Full, Types
<1>5. PICK x \in Endpoint : x = j.e
  BY <1>3
<1>6. /\ OwnInv' /\ NewInv' /\ ConnInv' /\ HeardInv' /\ KeyInv'
      /\ pending' \in [Endpoint -> Ref] /\ ukey2' \in [Endpoint -> Ref]
      /\ conn' \in [Endpoint -> [bits : SUBSET Bits, chan : Ref]]
      /\ told' \in [Chan -> {"none", "initiated", "accepted", "rejected", "disconnected"}]
      /\ closed' \subseteq 1..Len(chan)
      /\ \A e \in Endpoint : conn'[e] = conn[e] \/ conn'[e] = NoConn
  BY <1>2, <1>3, <1>5, Dropped
<1>7. /\ em' \in EmState /\ (InRemoval' <=> InRemoval)
      /\ em' = em \/ (em.k = "barrier" /\ em'.k = "gone" /\ em'.e = em.e)
      /\ LiveDue' => em' = em
  <2>1. CASE ~j.live
    BY <1>2, <2>1 DEF Full, Types, ThreadType, InRemoval
  <2>2. CASE j.live
    <3>1. em.k = "barrier" /\ em \in Removal
      BY <1>3, <2>2, EmFields DEF Full, Links, BarrierInv, Types, Removing
    <3>2. em' = [em EXCEPT !.k = "gone"] /\ "gone" \in Removing
      BY <1>2, <2>2 DEF Removing
    <3> QED
      BY <1>3, <2>2, <3>1, <3>2, RemovalStep
  <2> QED
    BY <1>3, <2>1, <2>2
<1>8. api' \in {"idle", "busy"} /\ future' \in Ref /\ CallInv'
  BY <1>2, <1>3, <1>5, <1>7, Accessors, ResultSet, ResultCall, EmSame DEF Full, InAccept
<1>9. ChanType' /\ MapType' /\ ThreadType'
  BY <1>2, <1>6, <1>7, <1>8 DEF Full, Types, ChanType, MapType, ThreadType
<1>10. Types'
  BY <1>3, <1>2, <1>9 DEF Full, Types, QueueType
<1>11. RegInv' /\ BarrierInv'
  BY <1>2, <1>3, <1>7, IdlePcp, EmSame DEF Full, Links, BarrierInv
<1>12. Links'
  BY <1>2, <1>3, <1>6, <1>11, LinkFrame DEF Full, Links
<1>13. NoConn.chan = 0
  BY DEF NoConn
<1>14. EmInv'
  <2>1. em.k # "idle" => em.e \in Endpoint
    BY EmFields DEF Full, Types
  <2> QED
    BY <1>2, <1>6, <1>7, <1>13, <2>1 DEF Full, Connection, EmInv
<1>15. CtxInv'
  BY <1>2, <1>6, <1>7, <1>13, IdlePcp, EmSame DEF Full, Connection, CtxInv, IsConnected
<1>16. LeftInv'
  BY <1>2, <1>7, EmSame DEF Full, Connection, LeftInv, NoEntry
<1> QED
  BY <1>4, <1>6, <1>8, <1>10, <1>12, <1>14, <1>15, <1>16 DEF Full, Connection

-----------------------------------------------------------------------------
(* Answers.                                                                *)

\* What the evaluation of a connection finds: the caller waits, the new status is that of
\* the client's connection with the answer added, and the peer's answer counts only on
\* the connection it was read from, when the entry holds that connection's key.
Evaluable(x, bits, y, c) ==
  /\ bits \subseteq Bits \ {"connected"} /\ (conn[x].chan = 0 => bits = {})
  /\ conn[x].chan # 0 => pending[x] # 0 /\ "connected" \notin conn[x].bits
  /\ conn[x].chan # 0 => bits \cap Remote \subseteq {heard[conn[x].chan]}
  /\ conn[x].chan # 0 /\ ukey2[x] # pending[x] => bits \cap Remote = {}
  /\ y \in [in : BOOLEAN, chan : Ref, ctx : Ref]
  /\ y.chan = ecm[x].chan /\ y.ctx = ecm[x].ctx /\ (ecm[x].in => y.in)
  /\ y = ecm[x] \/ (state[x] = c /\ c # 0)
  /\ c # 0 => reader[c] = "handling"
  /\ c = 0 => ApiDue

\* Nothing waits for the caller any more.
Evaluated(x, bits, c) ==
  /\ pcpQ' \in Seq(PcpJob) /\ PcpJobs'
  /\ \A d \in Chan : (KeyDue(d) => KeyDue(d)') /\ (ResponseDue(d)' => ResponseDue(d))
  /\ c # 0 => \A d \in Chan : ~ResponseDue(d)'
  /\ \A e \in Endpoint : RequestDue(e)' => RequestDue(e)
  /\ RequestDue(x)' => "localAccepted" \notin bits
  /\ (LiveDue' => LiveDue) /\ (ApiDue' => ApiDue) /\ (c = 0 => ~ApiDue')
  /\ \A d \in Chan : conn[x].chan = d
       /\ (heard[d] = "none" \/ reader[d] = "locking" \/ ResponseDue(d)') => bits \cap Remote = {}

\* What the evaluation leaves alone.
EvaluationRest == UNCHANGED <<chan, runner, moved, asked, state, keep, heard, em, future>>

\* The caller goes on.
LEMMA Returned ==
  ASSUME Full, NEW c \in Ref, Return(c), c # 0 => reader[c] = "handling"
  PROVE  /\ \A d \in Chan : reader'[d] = reader[d] \/ (reader[d] = "handling" /\ reader'[d] = "reading")
         /\ reader' \in [Chan -> {"none", "reading", "locking", "handling", "done"}]
         /\ \A d \in Chan : d # c => reader'[d] = reader[d]
         /\ api' = IF c = 0 THEN "idle" ELSE api
         /\ api' \in {"idle", "busy"}
         /\ c = 0 => UNCHANGED reader
BY Accessors DEF Full, Types, MapType, Return

\* Whoever waits has returned: parts about the workers and the caller.
LEMMA ReturnKeeps ==
  ASSUME Full, NEW x \in Endpoint, NEW bits, NEW y, NEW c \in Ref, Evaluable(x, bits, y, c),
         Evaluated(x, bits, c), EvaluationRest, pcp = Idle, UNCHANGED pcp, Return(c),
         \A e \in Endpoint, d \in Ref : RegisterDue(e, d)' => RegisterDue(e, d),
         UnregisterDue' => UnregisterDue
  PROVE  HandlerInv' /\ WorkerInv' /\ RegInv' /\ BarrierInv' /\ CallInv'
<1>1. /\ \A d \in Chan : reader'[d] = reader[d] \/ (reader[d] = "handling" /\ reader'[d] = "reading")
      /\ \A d \in Chan : d # c => reader'[d] = reader[d]
      /\ api' = IF c = 0 THEN "idle" ELSE api
      /\ c = 0 => UNCHANGED reader
  BY Returned DEF Evaluable
<1>2. /\ pcp.k = "idle" /\ em.k # "duplicate"
  BY IdlePcp
<1>3. HandlerInv'
  BY <1>1, <1>2 DEF Full, Links, HandlerInv, Evaluated
<1>4. WorkerInv'
  <2>1. \A d \in Chan : WorkersDone(d) => WorkersDone(d)'
    BY <1>1 DEF WorkersDone, EvaluationRest
  <2>2. \A d \in Chan : (Fresh(d) => Fresh(d)') /\ (reader[d] # "none" => reader'[d] # "none")
    BY <1>1 DEF Fresh, EvaluationRest
  <2> QED
    BY <2>1, <2>2, Accessors DEF Full, Links, WorkerInv, EvaluationRest
<1>5. RegInv' /\ BarrierInv'
  BY <1>2, IdlePcp, LinkFrame DEF Full, EvaluationRest, Evaluated
<1>6. CallInv'
  BY <1>1, <1>2 DEF Full, Connection, CallInv, InRemoval, InAccept, EvaluationRest, Evaluated, Evaluable
<1> QED
  BY <1>3, <1>4, <1>5, <1>6

\* The other side has not answered: the status is recorded.
LEMMA UndecidedKeeps ==
  ASSUME Full, NEW x \in Endpoint, NEW bits, NEW y, NEW c \in Ref, Evaluable(x, bits, y, c),
         Evaluated(x, bits, c), EvaluationRest, pcp = Idle,
         conn' = [conn EXCEPT ![x].bits = bits], ecm' = [ecm EXCEPT ![x] = y], Return(c),
         UNCHANGED <<closed, pending, ukey2, told, emQ, pcp>>
  PROVE  Full'
<1>1. /\ conn'[x].chan = conn[x].chan /\ conn'[x].bits = bits
      /\ \A e \in Endpoint : e # x => conn'[e] = conn[e]
      /\ conn' \in [Endpoint -> [bits : SUBSET Bits, chan : Ref]]
  BY Accessors DEF Full, Types, MapType, Evaluable
<1>2. /\ ecm'[x] = y /\ \A e \in Endpoint : e # x => ecm'[e] = ecm[e]
      /\ ecm' \in [Endpoint -> [in : BOOLEAN, chan : Ref, ctx : Ref]]
  BY DEF Full, Types, MapType, Evaluable
<1>3. /\ \A d \in Chan : reader'[d] = reader[d] \/ (reader[d] = "handling" /\ reader'[d] = "reading")
      /\ reader' \in [Chan -> {"none", "reading", "locking", "handling", "done"}]
      /\ api' \in {"idle", "busy"}
  BY Returned DEF Evaluable
<1>4. HandlerInv' /\ WorkerInv' /\ RegInv' /\ BarrierInv' /\ CallInv'
  BY ReturnKeeps, EmSame
<1>5. MapType'
  BY <1>1, <1>2, <1>3 DEF Full, Types, MapType, EvaluationRest
<1>6. Types' /\ EmJobs'
  BY <1>5, TypeFrame, EmSame DEF Full, Types, QueueType, EvaluationRest, Evaluated
<1>7. /\ pcp.k = "idle" /\ \A e \in Endpoint : ~Accepting(e) /\ ~Accepting(e)'
  BY IdlePcp DEF Accepting
<1>8. OwnInv' /\ NewInv'
  <2>1. OwnInv'
    BY LinkFrame, TypeFrame DEF Full, EvaluationRest
  <2>2. \A d \in Chan : Fresh(d) => Fresh(d)'
    BY <1>3 DEF Fresh, EvaluationRest
  <2>3. \A e \in Endpoint : (New(e)' => New(e)) /\ conn'[e].chan = conn[e].chan
    BY <1>1 DEF New, EvaluationRest
  <2>4. \A e \in Endpoint : New(e)' => Fresh(pending[e])' /\ conn'[e].chan = 0
    BY <2>2, <2>3, Accessors DEF Full, Links, NewInv, New, Fresh
  <2> QED
    BY <2>1, <2>4 DEF NewInv
<1>9. ConnInv'
  <2>1. ConnOf(x)'
    BY <1>1, <1>7 DEF Full, Connection, ConnInv, ConnOf, IsConnected, Evaluable, Evaluated, EvaluationRest
  <2>2. ASSUME NEW e \in Endpoint, e # x PROVE ConnOf(e)'
    BY <1>1, <1>7, <2>2 DEF Full, Connection, ConnInv, ConnOf, IsConnected, Evaluated, EvaluationRest
  <2> QED
    BY <2>1, <2>2 DEF ConnInv
<1>10. \A e \in Endpoint : IsConnected(e)' => IsConnected(e) /\ e # x
  BY <1>1 DEF IsConnected, Evaluable
<1>11. EmInv'
  BY <1>1, <1>2, EmFields DEF Full, Types, Connection, EmInv, Evaluable, EvaluationRest
<1>12. HeardInv'
  <2>1. \A d \in Chan : (Unheard(d)' => Unheard(d)) /\ (reader'[d] = "locking" => reader[d] = "locking")
    BY <1>3 DEF Unheard, Evaluated, EvaluationRest
  <2>2. \A d \in Chan : conn[x].chan = d /\ Unheard(d)' => bits \cap (Remote \cup {"connected"}) = {}
    BY <1>3 DEF Unheard, Evaluated, Evaluable, EvaluationRest
  <2>3. RemoteAnswerOwn'
    BY <1>1 DEF Full, Connection, HeardInv, RemoteAnswerOwn, Evaluable, EvaluationRest, Remote
  <2> QED
    BY <1>1, <2>1, <2>2, <2>3 DEF Full, Connection, HeardInv, EvaluationRest
<1>13. KeyInv'
  <2>1. \A e \in Endpoint, d \in Chan : pending[e] = d /\ ukey2[e] # d =>
          (d \in runner \/ KeyDue(d)') /\ conn'[e].bits \cap Remote = {}
    BY <1>1 DEF Full, Connection, KeyInv, Evaluable, Evaluated
  <2>2. \A e \in Endpoint : IsConnected(e)' /\ conn'[e].chan # 0 /\ ecm'[e].chan # 0 => ecm'[e].ctx = conn'[e].chan
    BY <1>1, <1>2, <1>10 DEF Full, Connection, KeyInv
  <2> QED
    BY <1>7, <2>1, <2>2 DEF Full, Connection, KeyInv, EvaluationRest
<1>14. CtxInv'
  BY <1>1, <1>2, <1>7, <1>10, EmSame DEF Full, Connection, CtxInv, IsConnected, Evaluable, EvaluationRest
<1>15. LeftInv'
  <2>1. UNCHANGED <<state, em, keep>> /\ \A e \in Endpoint : RemovalDue(e)' <=> RemovalDue(e)
    BY EmSame DEF EvaluationRest
  <2>2. \A d \in Chan : reader'[d] = "done" <=> reader[d] = "done"
    BY <1>3
  <2>3. ecm'[x] = ecm[x] \/ (state[x] # 0 /\ reader[state[x]] = "handling")
    BY <1>2 DEF Evaluable
  <2>4. \A e \in Endpoint : state[e] # 0 => state[e] \in Chan
    BY Accessors DEF Full
  <2>5. em.k = "joining" => state[em.e] # 0
    BY DEF Full, Connection, EmInv
  <2>6. LeftInv
    BY DEF Full, Connection
  <2>7. ASSUME NEW e \in Endpoint, state[e] # 0, reader'[state[e]] = "done" \/ keep[state[e]] = "done"
        PROVE  RemovalDue(e) \/ (em.k # "idle" /\ em.e = e)
    BY <2>2, <2>4, <2>6, <2>7 DEF LeftInv
  <2>8. ASSUME NEW e \in Endpoint, ecm'[e] # NoEntry
        PROVE  state[e] # 0 \/ RemovalDue(e) \/ (em.k = "remove" /\ em.e = e)
    <3>1. e # x => ecm'[e] = ecm[e]
      BY <1>2
    <3> QED
      BY <2>3, <2>6, <2>8, <3>1 DEF LeftInv
  <2>9. ASSUME NEW e \in Endpoint, em.k = "joining", em.e = e, ecm'[e] # NoEntry
        PROVE  reader'[state[e]] # "done" \/ RemovalDue(e)
    <3>1. CASE ecm'[e] = ecm[e]
      BY <2>2, <2>4, <2>5, <2>6, <2>9, <3>1 DEF LeftInv
    <3>2. CASE e = x /\ reader[state[x]] = "handling"
      BY <2>2, <2>4, <2>5, <2>9, <3>2
    <3>3. e # x => ecm'[e] = ecm[e]
      BY <1>2
    <3> QED
      BY <2>3, <3>1, <3>2, <3>3
  <2> QED
    BY <2>1, <2>7, <2>8, <2>9 DEF LeftInv, NoEntry
<1> QED
  BY <1>4, <1>6, <1>8, <1>9, <1>11, <1>12, <1>13, <1>14, <1>15
  DEF Full, Links, Connection, Evaluated

\* Both sides have accepted: the channel is encrypted with the key of the entry.
LEMMA AcceptedKeeps ==
  ASSUME Full, NEW x \in Endpoint, NEW bits, NEW y, NEW c \in Ref, Evaluable(x, bits, y, c),
         Evaluated(x, bits, c), EvaluationRest, pcp = Idle,
         Accepted \subseteq bits, y.chan # 0, DropPending(x),
         conn' = [conn EXCEPT ![x].bits = bits],
         ecm' = [ecm EXCEPT ![x] = [y EXCEPT !.ctx = ukey2[x]]],
         pcp' = [k |-> "accepting", e |-> x, c |-> c],
         UNCHANGED <<told, emQ, api, reader>>
  PROVE  Full'
<1>1. /\ conn'[x].chan = conn[x].chan /\ conn'[x].bits = bits
      /\ \A e \in Endpoint : e # x => conn'[e] = conn[e]
      /\ conn' \in [Endpoint -> [bits : SUBSET Bits, chan : Ref]]
  BY Accessors DEF Full, Types, MapType, Evaluable
<1>2. /\ ecm'[x].in = y.in /\ ecm'[x].chan = y.chan /\ ecm'[x].ctx = ukey2[x]
      /\ \A e \in Endpoint : e # x => ecm'[e] = ecm[e]
      /\ ecm' \in [Endpoint -> [in : BOOLEAN, chan : Ref, ctx : Ref]]
  <2>1. PICK S : S = [in : BOOLEAN, chan : Ref, ctx : Ref]
    OBVIOUS
  <2>2. PICK z \in S : z = [y EXCEPT !.ctx = ukey2[x]] /\ z.in = y.in /\ z.chan = y.chan /\ z.ctx = ukey2[x]
    <3>1. ukey2[x] \in Ref /\ y \in S
      BY <2>1, Accessors DEF Full, Evaluable
    <3>2. /\ [y EXCEPT !.ctx = ukey2[x]] \in S
          /\ [y EXCEPT !.ctx = ukey2[x]].in = y.in
          /\ [y EXCEPT !.ctx = ukey2[x]].chan = y.chan
          /\ [y EXCEPT !.ctx = ukey2[x]].ctx = ukey2[x]
      BY <2>1, <3>1
    <3> QED
      BY <3>2, Zenon
  <2>3. ecm \in [Endpoint -> S] /\ ecm' = [ecm EXCEPT ![x] = z]
    BY <2>1, <2>2 DEF Full, Types, MapType
  <2> QED
    BY <2>1, <2>2, <2>3
<1>3. /\ pending'[x] = 0 /\ ukey2'[x] = 0
      /\ \A e \in Endpoint : e # x => pending'[e] = pending[e] /\ ukey2'[e] = ukey2[e]
      /\ pending' \in [Endpoint -> Ref] /\ ukey2' \in [Endpoint -> Ref]
      /\ closed' \subseteq 1..Len(chan)
  <2>1. closed' \subseteq 1..Len(chan)
    BY DEF DropPending, Full, Types, ChanType, Links, OwnInv, Own
  <2> QED
    BY <2>1, Accessors DEF DropPending, Full, Types, MapType
<1>4. pcp'.k = "accepting" /\ pcp'.e = x /\ pcp'.c = c /\ pcp' \in PcpState
  BY DEF PcpState
<1>5. /\ pcp.k = "idle" /\ em.k # "duplicate" /\ \A e \in Endpoint, d \in Ref : ~RegisterDue(e, d)
      /\ \A e \in Endpoint : ~Accepting(e) /\ (Accepting(e)' <=> e = x)
  BY <1>4, IdlePcp DEF Accepting
<1>6. /\ conn[x].chan # 0 /\ pending[x] = conn[x].chan /\ ukey2[x] = conn[x].chan
      /\ y.chan = conn[x].chan
  <2>1. conn[x].chan # 0 /\ bits \cap Remote # {}
    BY DEF Evaluable, Accepted, Remote
  <2> QED
    BY <2>1 DEF Evaluable, Full, Connection, ConnInv, ConnOf, EmInv
<1>7. ChanType' /\ MapType' /\ ThreadType'
  BY <1>1, <1>2, <1>3, <1>4 DEF Full, Types, ChanType, MapType, ThreadType, EvaluationRest
<1>8. Types' /\ EmJobs'
  BY <1>7, EmSame DEF Full, Types, QueueType, Evaluated
<1>9. OwnInv'
  BY <1>3 DEF Full, Links, OwnInv, Own, EvaluationRest
<1>10. HandlerInv'
  BY <1>4 DEF Full, Links, HandlerInv, Evaluable, Evaluated
<1>11. WorkerInv' /\ BarrierInv'
  BY LinkFrame DEF Full, EvaluationRest, Evaluated
<1>12. NewInv'
  <2>1. \A e \in Endpoint : New(e)' => New(e) /\ e # x
    BY <1>3, <1>4 DEF New, EvaluationRest
  <2> QED
    BY <1>1, <1>3, <2>1 DEF Full, Links, NewInv, New, Fresh, EvaluationRest
<1>13. RegInv'
  BY <1>4, <1>5, EmSame DEF RegInv, EvaluationRest
<1>14. ConnInv'
  <2>1. ConnOf(x)'
    BY <1>1, <1>3, <1>5, <1>6
    DEF Full, Connection, ConnInv, ConnOf, IsConnected, Evaluable, Evaluated, EvaluationRest
  <2>2. ASSUME NEW e \in Endpoint, e # x PROVE ConnOf(e)'
    BY <1>1, <1>3, <1>5, <2>2 DEF Full, Connection, ConnInv, ConnOf, IsConnected, Evaluated, EvaluationRest
  <2> QED
    BY <2>1, <2>2 DEF ConnInv
<1>15. \A e \in Endpoint : IsConnected(e)' <=> IsConnected(e) /\ e # x
  BY <1>1 DEF IsConnected, Evaluable
<1>16. EmInv'
  BY <1>1, <1>2, EmFields DEF Full, Types, Connection, EmInv, Evaluable, EvaluationRest
<1>17. HeardInv'
  <2>1. \A d \in Chan : Unheard(d)' => Unheard(d)
    BY DEF Unheard, Evaluated, EvaluationRest
  <2>2. \A d \in Chan : conn[x].chan = d /\ Unheard(d)' => bits \cap (Remote \cup {"connected"}) = {}
    BY DEF Unheard, Evaluated, Evaluable, EvaluationRest
  <2>3. RemoteAnswerOwn'
    BY <1>1 DEF Full, Connection, HeardInv, RemoteAnswerOwn, Evaluable, EvaluationRest, Remote
  <2> QED
    BY <1>1, <2>1, <2>2, <2>3 DEF Full, Connection, HeardInv, EvaluationRest
<1>18. KeyInv'
  <2>1. \A e \in Endpoint, d \in Chan : pending'[e] = d /\ ukey2'[e] # d =>
          (d \in runner \/ KeyDue(d)') /\ conn'[e].bits \cap Remote = {}
    <3>1. \A d \in Chan : d # 0
      BY Accessors DEF Full
    <3> QED
      BY <1>1, <1>3, <3>1 DEF Full, Connection, KeyInv, Evaluated
  <2>2. \A e \in Endpoint : pending'[e] # 0 /\ ukey2'[e] = pending'[e] => pending'[e] \in moved
    BY <1>3, <1>5 DEF Full, Connection, KeyInv
  <2>3. \A e \in Endpoint : (IsConnected(e)' \/ Accepting(e)') /\ ecm'[e].chan # 0 => ecm'[e].ctx = conn'[e].chan
    BY <1>1, <1>2, <1>5, <1>6, <1>15 DEF Full, Connection, KeyInv, IsConnected
  <2> QED
    BY <2>1, <2>2, <2>3 DEF KeyInv, EvaluationRest
<1>19. CtxInv'
  BY <1>1, <1>2, <1>5, <1>15, EmSame DEF Full, Connection, CtxInv, EvaluationRest
<1>20. LeftInv'
  <2>1. ecm[x] # NoEntry
    BY DEF Evaluable, NoEntry
  <2>2. UNCHANGED <<state, em, keep, reader>> /\ \A e \in Endpoint : RemovalDue(e)' <=> RemovalDue(e)
    BY EmSame DEF EvaluationRest
  <2> QED
    BY <1>2, <2>1, <2>2 DEF Full, Connection, LeftInv
<1>21. CallInv'
  BY <1>4, <1>5, EmSame
  DEF Full, Connection, CallInv, InRemoval, InAccept, Evaluable, Evaluated, EvaluationRest
<1> QED
  BY <1>8, <1>9, <1>10, <1>11, <1>12, <1>13, <1>14, <1>16, <1>17, <1>18, <1>19, <1>20, <1>21
  DEF Full, Links, Connection, Evaluated

\* Either side has rejected, or the connection cannot go on: it is rejected.
LEMMA RejectedKeeps ==
  ASSUME Full, NEW x \in Endpoint, NEW bits, NEW y, NEW c \in Ref, Evaluable(x, bits, y, c),
         Evaluated(x, bits, c), EvaluationRest, pcp = Idle,
         DropPending(x), OnConnectionRejected(x), Return(c), UNCHANGED pcp,
         NEW z \in [in : BOOLEAN, chan : Ref, ctx : Ref], ecm' = [ecm EXCEPT ![x] = z],
         z = y \/ (c # 0 /\ z.in /\ z.chan = 0),
         Discard(x, 0) \/ (c = 0 /\ UNCHANGED emQ)
  PROVE  Full'
<1>1. /\ ecm'[x] = z /\ \A e \in Endpoint : e # x => ecm'[e] = ecm[e]
      /\ ecm' \in [Endpoint -> [in : BOOLEAN, chan : Ref, ctx : Ref]]
  BY DEF Full, Types, MapType
<1>2. /\ \A d \in Chan : reader'[d] = reader[d] \/ (reader[d] = "handling" /\ reader'[d] = "reading")
      /\ reader' \in [Chan -> {"none", "reading", "locking", "handling", "done"}]
      /\ api' \in {"idle", "busy"}
  BY Returned DEF Evaluable
<1>3. /\ emQ' \in Seq(EmJob) /\ EmJobs'
      /\ \A e, d : RegisterDue(e, d)' <=> RegisterDue(e, d)
      /\ UnregisterDue' <=> UnregisterDue
      /\ \A e : (RemovalDue(e) => RemovalDue(e)') /\ (RemovalFirst(e) => RemovalFirst(e)')
      /\ c # 0 => RemovalDue(x)' /\ RemovalFirst(x)'
  <2>1. \A d \in Ref : ~RegisterDue(x, d)
    BY IdlePcp
  <2>2. CASE Discard(x, 0)
    BY <2>1, <2>2, Discarded, Accessors DEF Full
  <2>3. CASE c = 0 /\ UNCHANGED emQ
    BY <2>3, EmSame DEF Full, Types, QueueType
  <2> QED
    BY <2>2, <2>3
<1>4. HandlerInv' /\ WorkerInv' /\ RegInv' /\ BarrierInv' /\ CallInv'
  BY <1>3, ReturnKeeps
<1>5. \A e \in Endpoint : (ecm'[e].chan = ecm[e].chan /\ ecm'[e].ctx = ecm[e].ctx) \/ ecm'[e].chan = 0
  BY <1>1 DEF Evaluable
<1>6. /\ OwnInv' /\ NewInv' /\ ConnInv' /\ HeardInv' /\ KeyInv'
      /\ pending' \in [Endpoint -> Ref] /\ ukey2' \in [Endpoint -> Ref]
      /\ conn' \in [Endpoint -> [bits : SUBSET Bits, chan : Ref]]
      /\ told' \in [Chan -> {"none", "initiated", "accepted", "rejected", "disconnected"}]
      /\ closed' \subseteq 1..Len(chan)
      /\ \A e \in Endpoint : conn'[e] = conn[e] \/ conn'[e] = NoConn
  BY <1>2, <1>5, Dropped DEF EvaluationRest, Evaluated
<1>7. NoConn.chan = 0 /\ conn'[x].chan = 0
  <2>1. conn[x].chan # 0 => HasPending(x)
    BY DEF Evaluable, HasPending
  <2> QED
    BY <2>1 DEF OnConnectionRejected, NoConn, Full, Types, MapType
<1>8. ChanType' /\ MapType'
  BY <1>1, <1>2, <1>6 DEF Full, Types, ChanType, MapType, EvaluationRest
<1>9. Types'
  BY <1>3, <1>8, TypeFrame DEF Full, Types, QueueType, EvaluationRest, Evaluated
<1>10. /\ pcp.k = "idle" /\ \A e \in Endpoint : ~Accepting(e) /\ ~Accepting(e)'
  BY IdlePcp DEF Accepting
<1>11. EmInv'
  <2>1. em.k # "idle" => em.e \in Endpoint
    BY EmFields DEF Full, Types
  <2> QED
    BY <1>1, <1>5, <1>6, <1>7, <2>1 DEF Full, Connection, EmInv, EvaluationRest
<1>12. CtxInv'
  <2>1. \A e \in Endpoint : IsConnected(e) /\ conn'[e].chan # 0 => IsConnected(e)'
    BY <1>6, <1>7 DEF IsConnected
  <2>2. ASSUME NEW e \in Endpoint, e # x
        PROVE  /\ ecm'[e].chan # 0 /\ ecm'[e].ctx # 0 => IsConnected(e)' \/ conn'[e].chan = 0
               /\ ecm'[e].chan = 0 /\ ecm'[e].ctx # 0 => RemovalFirst(e)' \/ (em.k = "remove" /\ em.e = e)
    BY <1>1, <1>3, <1>6, <1>7, <1>10, <2>1, <2>2 DEF Full, Connection, CtxInv
  <2>3. ecm'[x].chan = 0 /\ ecm'[x].ctx # 0 => RemovalFirst(x)' \/ (em.k = "remove" /\ em.e = x)
    BY <1>1, <1>3 DEF Full, Connection, CtxInv, Evaluable
  <2> QED
    BY <1>7, <2>2, <2>3 DEF CtxInv, EvaluationRest
<1>13. LeftInv'
  <2>1. UNCHANGED <<state, em, keep>>
    BY DEF EvaluationRest
  <2>2. \A d \in Chan : reader'[d] = "done" <=> reader[d] = "done"
    BY <1>2
  <2>3. ecm'[x] = ecm[x] \/ RemovalDue(x)'
    BY <1>1, <1>3 DEF Evaluable
  <2>4. \A e \in Endpoint : state[e] # 0 => state[e] \in Chan
    BY Accessors DEF Full
  <2>5. em.k = "joining" => state[em.e] # 0
    BY DEF Full, Connection, EmInv
  <2> QED
    BY <1>1, <1>3, <2>1, <2>2, <2>3, <2>4, <2>5 DEF Full, Connection, LeftInv
<1> QED
  BY <1>3, <1>4, <1>6, <1>9, <1>11, <1>12, <1>13 DEF Full, Links, Connection, Evaluated

\* The connection is evaluated.
LEMMA EvaluationKeeps ==
  ASSUME Full, NEW x \in Endpoint, NEW bits, NEW y, NEW c \in Ref, Evaluable(x, bits, y, c),
         Evaluated(x, bits, c), EvaluationRest, pcp = Idle, c = 0 => y.chan # 0,
         EvaluateConnectionResult(x, bits, y, c)
  PROVE  Full'
<1> DEFINE Undecided ==
             /\ conn' = [conn EXCEPT ![x].bits = bits] /\ ecm' = [ecm EXCEPT ![x] = y] /\ Return(c)
             /\ UNCHANGED <<closed, pending, ukey2, told, emQ, alarms, pcp>>
           Accepts ==
             /\ Accepted \subseteq bits /\ y.chan # 0 /\ DropPending(x)
             /\ conn' = [conn EXCEPT ![x].bits = bits]
             /\ ecm' = [ecm EXCEPT ![x] = [y EXCEPT !.ctx = ukey2[x]]]
             /\ pcp' = [k |-> "accepting", e |-> x, c |-> c]
             /\ UNCHANGED <<told, emQ, alarms, api, reader>>
           Rejects ==
             /\ ~(Accepted \subseteq bits /\ y.chan # 0) /\ DropPending(x)
             /\ ecm' = [ecm EXCEPT ![x] =
                  IF Accepted \subseteq bits THEN [in |-> TRUE, chan |-> 0, ctx |-> ukey2[x]] ELSE y]
             /\ OnConnectionRejected(x)
             /\ Discard(x, 0) \/ (c = 0 /\ UNCHANGED emQ)
             /\ Return(c) /\ UNCHANGED pcp
<1>0. Undecided \/ Accepts \/ Rejects
  BY Zenon DEF EvaluateConnectionResult, Accepted
<1>1. CASE Undecided
  BY <1>1, UndecidedKeeps
<1>2. CASE Accepts
  BY <1>2, AcceptedKeeps
<1>3. CASE Rejects
  <2>1. CASE Accepted \subseteq bits
    <3> DEFINE z == [in |-> TRUE, chan |-> 0, ctx |-> ukey2[x]]
    <3>1. /\ z \in [in : BOOLEAN, chan : Ref, ctx : Ref] /\ c # 0 /\ z.in /\ z.chan = 0
          /\ ecm' = [ecm EXCEPT ![x] = z]
      BY <1>3, <2>1, Accessors DEF Full
    <3> HIDE DEF z
    <3> QED
      BY <1>3, <3>1, RejectedKeeps
  <2>2. CASE ~(Accepted \subseteq bits)
    <3>1. y \in [in : BOOLEAN, chan : Ref, ctx : Ref] /\ ecm' = [ecm EXCEPT ![x] = y]
      BY <1>3, <2>2 DEF Evaluable
    <3> QED
      BY <1>3, <3>1, RejectedKeeps
  <2> QED
    BY <2>1, <2>2
<1> QED
  BY <1>0, <1>1, <1>2, <1>3

\* The application's answer is handled.
LEMMA AnswerConnectionKeeps ==
  ASSUME Full, AnswerConnection
  PROVE  Full'
<1>1. PICK j : j = Head(pcpQ)
  OBVIOUS
<1>2. /\ EvaluationRest /\ pcp = Idle /\ pcpQ # <<>> /\ pcpQ' = Tail(pcpQ) /\ j.k = "answer"
  BY <1>1 DEF AnswerConnection, NextJob, EvaluationRest
<1>3. /\ pcpQ' \in Seq(PcpJob) /\ j \in PcpJob /\ j.e \in Endpoint /\ j.a \in Local
      /\ \A c : (ResponseDue(c)' <=> ResponseDue(c)) /\ (KeyDue(c) => KeyDue(c)')
      /\ (LiveDue' => LiveDue) /\ ApiDue /\ ~ApiDue'
  BY <1>1, <1>2, PcpTaken, PcpJobFields DEF Full, Types, KeyJob, ApiJob
<1>4. \A e \in Endpoint : ~RequestDue(e)'
  BY <1>3 DEF RequestDue, ApiDue, ApiJob
<1>5. PcpJobs'
  BY <1>2, PcpTakenJobs, TypeFrame DEF Full, Types, EvaluationRest
<1>6. PICK x \in Endpoint : x = j.e
  BY <1>3
<1>7. ecm[x] \in [in : BOOLEAN, chan : Ref, ctx : Ref] /\ ecm = [ecm EXCEPT ![x] = ecm[x]] /\ 0 \in Ref
  BY Accessors DEF Full, Types, MapType
<1>8. pending[x] # 0 /\ conn[x].chan # 0 => "connected" \notin conn[x].bits
  BY DEF Full, Connection, ConnInv, ConnOf, IsConnected
<1>9. CASE pending[x] = 0 /\ Return(0) /\ UNCHANGED <<closed, pending, ukey2, conn, told, ecm, emQ, pcp>>
  <2>1. UNCHANGED <<chan, runner, moved, asked, state, keep, heard, em, future, reader>> /\ api' = "idle"
    BY <1>2, <1>9 DEF EvaluationRest, Return
  <2>2. Types' /\ EmJobs'
    BY <1>3, <1>9, <2>1, TypeFrame, EmSame DEF Full, Types, MapType, QueueType
  <2>3. Links'
    BY <1>3, <1>9, <2>1, LinkFrame, TypeFrame, EmSame DEF Full, Links
  <2>4. CallInv'
    BY <1>3, <1>9, <2>1, EmSame DEF Full, Connection, CallInv, InRemoval, InAccept
  <2> QED
    BY <1>3, <1>4, <1>5, <1>9, <2>1, <2>2, <2>3, <2>4, ConnectionFrame, EmSame DEF Full, Connection
<1>10. CASE /\ pending[x] # 0 /\ DropPending(x) /\ Discard(x, 0) /\ OnConnectionRejected(x)
            /\ Return(0) /\ UNCHANGED <<ecm, alarms, pcp>>
  <2>1. Evaluable(x, {}, ecm[x], 0) /\ Evaluated(x, {}, 0)
    BY <1>3, <1>4, <1>5, <1>7, <1>8, <1>10 DEF Evaluable, Evaluated
  <2> QED
    BY <1>2, <1>7, <1>10, <2>1, RejectedKeeps
<1> DEFINE bits == IF conn[x].chan = 0 \/ Contains(x, {"localAccepted", "localRejected"})
                     THEN conn[x].bits ELSE conn[x].bits \cup {j.a}
<1>11. CASE /\ pending[x] # 0 /\ ecm[x].chan # 0
            /\ EvaluateConnectionResult(x, bits, ecm[x], 0)
  <2>1. PICK b : b = bits
    OBVIOUS
  <2>2. /\ b \subseteq Bits /\ b \cap Remote = conn[x].bits \cap Remote
        /\ conn[x].chan = 0 => b = {}
        /\ "connected" \in b <=> "connected" \in conn[x].bits
    <3>1. conn[x].bits \subseteq Bits /\ (conn[x].chan = 0 => conn[x].bits = {})
      BY Accessors DEF Full, Connection, ConnInv, ConnOf
    <3> QED
      BY <1>3, <2>1, <3>1 DEF Bits, Local, Remote
  <2>3. Evaluable(x, b, ecm[x], 0)
    <3>1. conn[x].chan # 0 => b \cap Remote \subseteq {heard[conn[x].chan]}
      BY <2>2 DEF Full, Connection, HeardInv, RemoteAnswerOwn, Remote
    <3>2. conn[x].chan # 0 /\ ukey2[x] # pending[x] => b \cap Remote = {}
      BY <1>11, <2>2, Accessors DEF Full, Connection, KeyInv
    <3> QED
      BY <1>3, <1>7, <1>8, <1>11, <2>2, <3>1, <3>2 DEF Evaluable
  <2>4. Evaluated(x, b, 0)
    BY <1>3, <1>4, <1>5, <2>2 DEF Evaluated, Full, Connection, HeardInv, Unheard
  <2> QED
    BY <1>2, <1>7, <1>11, <2>1, <2>3, <2>4, EvaluationKeeps
<1> QED
  BY <1>1, <1>6, <1>9, <1>10, <1>11 DEF AnswerConnection

\* The peer's answer is handled.
LEMMA OnConnectionResponseKeeps ==
  ASSUME Full, OnConnectionResponse
  PROVE  Full'
<1>1. PICK j : j = Head(pcpQ)
  OBVIOUS
<1>2. /\ EvaluationRest /\ pcp = Idle /\ pcpQ # <<>> /\ pcpQ' = Tail(pcpQ) /\ j.k = "response"
  BY <1>1 DEF OnConnectionResponse, NextJob, EvaluationRest
<1>3. /\ pcpQ' \in Seq(PcpJob) /\ j \in PcpJob /\ j.e \in Endpoint /\ j.c \in Chan /\ j.a \in Remote
      /\ Own(j.c, j.e) /\ j.a = heard[j.c] /\ ResponseDue(j.c) /\ ~KeyDue(j.c)
      /\ \A c : ~ResponseDue(c)' /\ (KeyDue(c) => KeyDue(c)')
      /\ \A e : RequestDue(e)' => RequestDue(e)
      /\ (LiveDue' => LiveDue) /\ (ApiDue' => ApiDue)
  BY <1>1, <1>2, PcpTaken, PcpJobFields DEF Full, Types, KeyJob
<1>4. PcpJobs'
  BY <1>2, PcpTakenJobs, TypeFrame DEF Full, Types, EvaluationRest
<1>5. PICK x \in Endpoint : x = j.e
  BY <1>3
<1>6. PICK c \in Chan : c = j.c /\ c \in Ref /\ c # 0
  BY <1>3, Accessors DEF Full
<1>7. CASE /\ Contains(x, {"remoteAccepted", "remoteRejected"})
           /\ UNCHANGED <<closed, pending, ukey2, conn, told, ecm, reader, alarms, emQ, api, pcp>>
  <2>1. UNCHANGED <<chan, runner, moved, asked, state, keep, heard, em, future>>
    BY <1>2 DEF EvaluationRest
  <2>2. Types' /\ EmJobs'
    BY <1>3, <1>7, <2>1, TypeFrame, EmSame DEF Full, Types, QueueType, caller
  <2>3. Links'
    BY <1>3, <1>7, <2>1, LinkFrame, TypeFrame, EmSame DEF Full, Links
  <2> QED
    BY <1>3, <1>4, <1>7, <2>1, <2>2, <2>3, ConnectionFrame, EmSame DEF Full, Connection
<1> DEFINE bits == IF conn[x].chan = 0 THEN {} ELSE conn[x].bits \cup {j.a}
           y == [ecm[x] EXCEPT !.in = TRUE]
<1>8. CASE /\ ~Contains(x, {"remoteAccepted", "remoteRejected"})
           /\ EvaluateConnectionResult(x, bits, y, c)
  <2>1. PICK b : b = bits
    OBVIOUS
  <2>2. PICK z \in [in : BOOLEAN, chan : Ref, ctx : Ref] :
          z = y /\ z.in /\ z.chan = ecm[x].chan /\ z.ctx = ecm[x].ctx
    <3>1. ecm[x] \in [in : BOOLEAN, chan : Ref, ctx : Ref]
      BY DEF Full, Types, MapType
    <3>2. /\ y \in [in : BOOLEAN, chan : Ref, ctx : Ref]
          /\ y.in /\ y.chan = ecm[x].chan /\ y.ctx = ecm[x].ctx
      BY <3>1
    <3> QED
      BY <3>2, Zenon
  <2>3. reader[c] = "handling" /\ state[x] = c /\ heard[c] = j.a /\ heard[c] # "none"
    <3>1. reader[c] = "handling" /\ heard[c] = j.a /\ heard[c] # "none"
      BY <1>3, <1>6 DEF Full, Links, HandlerInv, Remote
    <3> QED
      BY <1>3, <1>5, <1>6, <3>1 DEF Full, Links, WorkerInv, WorkersDone, Own
  <2>4. conn[x].chan # 0 =>
          /\ conn[x].chan = c /\ conn[x].bits \cap (Remote \cup {"connected"}) = {}
          /\ pending[x] = c /\ ukey2[x] = c
    <3>1. conn[x].chan # 0 => conn[x].chan = c
      BY <2>3 DEF Full, Connection, ConnInv, ConnOf
    <3>2. conn[x].chan # 0 => conn[x].bits \cap (Remote \cup {"connected"}) = {}
      BY <1>3, <1>6, <3>1 DEF Full, Connection, HeardInv, Unheard
    <3>3. conn[x].chan # 0 => pending[x] = c
      BY <1>2, <3>1, <3>2, IdlePcp DEF Full, Connection, ConnInv, ConnOf, IsConnected
    <3>4. c \notin runner /\ ~KeyDue(c)
      BY <1>3, <1>6, <2>3 DEF Full, Connection, HeardInv
    <3> QED
      BY <3>1, <3>2, <3>3, <3>4 DEF Full, Connection, KeyInv
  <2>5. /\ b \subseteq Bits \ {"connected"} /\ (conn[x].chan = 0 => b = {})
        /\ conn[x].chan # 0 => b \cap Remote = {heard[c]}
        /\ "localAccepted" \in b => "localAccepted" \in conn[x].bits
    <3>1. conn[x].bits \subseteq Bits
      BY Accessors DEF Full
    <3>2. j.a \in Remote /\ j.a \notin {"connected", "localAccepted"}
      BY <1>3 DEF Remote
    <3> QED
      BY <2>1, <2>3, <2>4, <3>1, <3>2 DEF Bits
  <2>6. Evaluable(x, b, z, c)
    BY <1>6, <2>2, <2>3, <2>4, <2>5 DEF Evaluable
  <2>7. Evaluated(x, b, c)
    <3>1. RequestDue(x)' => "localAccepted" \notin b
      BY <1>3, <2>5 DEF Full, Connection, ConnInv, ConnOf
    <3> QED
      BY <1>3, <1>4, <1>6, <2>3, <2>4, <2>5, <3>1 DEF Evaluated
  <2> QED
    BY <1>2, <1>6, <1>8, <2>1, <2>2, <2>6, <2>7, EvaluationKeeps
<1> QED
  BY <1>1, <1>5, <1>6, <1>7, <1>8 DEF OnConnectionResponse

\* The client is told of the connection that both sides have accepted.
LEMMA OnConnectionAcceptedKeeps ==
  ASSUME Full, OnConnectionAccepted, ~Crashed'
  PROVE  Full'
<1>1. PICK x \in Endpoint : x = pcp.e
  BY PcpFields DEF OnConnectionAccepted, Full, Types
<1>2. PICK c \in Ref : c = pcp.c
  BY PcpFields DEF OnConnectionAccepted, Full, Types
<1>3. /\ UNCHANGED <<chan, closed, runner, pending, ukey2, moved, asked, ecm, state, keep, heard,
                     pcpQ, em, emQ, future>>
      /\ pcp.k = "accepting" /\ ecm[x].chan # 0 /\ pcp' = Idle /\ Return(c)
      /\ IF HasPending(x)
           THEN /\ conn' = [conn EXCEPT ![x].bits = {"connected"}]
                /\ told' = [told EXCEPT ![conn[x].chan] = "accepted"]
           ELSE UNCHANGED <<conn, told>>
  <2>1. ~Crash("OnConnectionAccepted")
    BY DEF Crash, Crashed
  <2> QED
    BY <1>1, <1>2, <2>1 DEF OnConnectionAccepted, chans, pcpVars
<1>4. /\ pending[x] = 0 /\ ~IsConnected(x)
      /\ conn[x].chan # 0 => /\ Accepted \subseteq conn[x].bits /\ HasPending(x)
                             /\ ~RequestDue(x) /\ ecm[x].ctx = conn[x].chan
  BY <1>1, <1>3
  DEF Full, Connection, ConnInv, ConnOf, KeyInv, Accepting, Accepted, HasPending, IsConnected
<1>5. /\ \A e \in Endpoint : conn'[e].chan = conn[e].chan
      /\ conn'[x].bits = IF conn[x].chan # 0 THEN {"connected"} ELSE conn[x].bits
      /\ \A e \in Endpoint : e # x => conn'[e] = conn[e]
      /\ conn' \in [Endpoint -> [bits : SUBSET Bits, chan : Ref]]
  <2>1. CASE conn[x].chan # 0
    <3>1. PICK b : b = {"connected"} /\ b \subseteq Bits
      BY DEF Bits
    <3>2. conn' = [conn EXCEPT ![x].bits = b]
      BY <1>3, <1>4, <2>1, <3>1
    <3>3. /\ conn'[x].chan = conn[x].chan /\ conn'[x].bits = b
          /\ \A e \in Endpoint : e # x => conn'[e] = conn[e]
          /\ conn' \in [Endpoint -> [bits : SUBSET Bits, chan : Ref]]
      BY <3>1, <3>2, Accessors DEF Full, Types, MapType
    <3> QED
      BY <2>1, <3>1, <3>3
  <2>2. CASE conn[x].chan = 0
    BY <1>3, <2>2 DEF Full, Types, MapType, HasPending
  <2> QED
    BY <2>1, <2>2
<1>6. told' \in [Chan -> {"none", "initiated", "accepted", "rejected", "disconnected"}]
  BY <1>3, Accessors DEF Full, Types, MapType
<1>7. c # 0 => reader[c] = "handling" /\ \A d \in Chan : ~ResponseDue(d)
  BY <1>2, <1>3 DEF Full, Links, HandlerInv
<1>8. /\ \A d \in Chan : reader'[d] = reader[d] \/ (reader[d] = "handling" /\ reader'[d] = "reading")
      /\ reader' \in [Chan -> {"none", "reading", "locking", "handling", "done"}]
      /\ api' = IF c = 0 THEN "idle" ELSE api
      /\ api' \in {"idle", "busy"}
      /\ c = 0 => UNCHANGED reader
  BY <1>3, <1>7, Returned
<1>9. pcp'.k = "idle" /\ pcp' \in PcpState
  BY <1>3 DEF Idle, PcpState
<1>10. MapType' /\ ThreadType'
  BY <1>3, <1>5, <1>6, <1>8, <1>9 DEF Full, Types, MapType, ThreadType
<1>11. Types' /\ PcpJobs' /\ EmJobs'
  BY <1>3, <1>10, TypeFrame, PcpSame, EmSame DEF Full, Types, QueueType
<1>12. HandlerInv'
  BY <1>3, <1>7, <1>8, <1>9, PcpSame DEF Full, Links, HandlerInv
<1>13. WorkerInv'
  <2>1. \A d \in Chan : WorkersDone(d) => WorkersDone(d)'
    BY <1>3, <1>8 DEF WorkersDone
  <2>2. \A d \in Chan : (Fresh(d) => Fresh(d)') /\ (reader[d] # "none" => reader'[d] # "none")
    BY <1>3, <1>8 DEF Fresh
  <2> QED
    BY <1>3, <2>1, <2>2, Accessors DEF Full, Links, WorkerInv
<1>14. NewInv'
  <2>1. \A d \in Chan : Fresh(d) => Fresh(d)'
    BY <1>3, <1>8 DEF Fresh
  <2>2. \A e \in Endpoint : New(e)' => New(e)
    BY <1>3, <1>9 DEF New
  <2> QED
    BY <1>3, <1>5, <2>1, <2>2, Accessors DEF Full, Links, NewInv, New, Fresh
<1>15. RegInv'
  BY <1>3, <1>9, EmSame DEF Full, Links, RegInv, Registers
<1>16. Links'
  BY <1>3, <1>12, <1>13, <1>14, <1>15, LinkFrame, TypeFrame, PcpSame DEF Full, Links
<1>17. \A e \in Endpoint : ~Accepting(e)' /\ (Accepting(e) => e = x)
  BY <1>1, <1>9 DEF Accepting
<1>18. \A e \in Endpoint : e # x => (IsConnected(e)' <=> IsConnected(e))
  BY <1>5 DEF IsConnected
<1>19. ConnInv'
  <2>1. ConnOf(x)'
    BY <1>3, <1>4, <1>5, <1>17, PcpSame DEF Full, Connection, ConnInv, ConnOf, IsConnected
  <2>2. ASSUME NEW e \in Endpoint, e # x PROVE ConnOf(e)'
    BY <1>3, <1>5, <1>17, <1>18, <2>2, PcpSame DEF Full, Connection, ConnInv, ConnOf
  <2> QED
    BY <2>1, <2>2 DEF ConnInv
<1>20. EmInv'
  BY <1>3, <1>5, EmFields DEF Full, Types, Connection, EmInv
<1>21. HeardInv'
  <2>1. \A d \in Chan : (Unheard(d)' => Unheard(d)) /\ (reader'[d] = "locking" => reader[d] = "locking")
    BY <1>3, <1>8, PcpSame DEF Unheard
  <2>2. \A d \in Chan : conn[x].chan = d => ~Unheard(d)
    BY <1>4, Accessors DEF Full, Connection, HeardInv, Accepted, Remote
  <2>3. RemoteAnswerOwn'
    BY <1>3, <1>5 DEF Full, Connection, HeardInv, RemoteAnswerOwn
  <2> QED
    BY <1>3, <1>5, <2>1, <2>2, <2>3 DEF Full, Connection, HeardInv
<1>22. KeyInv'
  <2>1. \A d \in Chan : d # 0
    BY Accessors DEF Full
  <2>2. \A e \in Endpoint, d \in Chan : pending[e] = d /\ ukey2[e] # d =>
          (d \in runner \/ KeyDue(d)') /\ conn'[e].bits \cap Remote = {}
    BY <1>3, <1>4, <1>5, <2>1, PcpSame DEF Full, Connection, KeyInv
  <2>3. \A e \in Endpoint : pending[e] # 0 /\ ukey2[e] = pending[e] => pending[e] \in moved
    BY <1>3 DEF Full, Connection, KeyInv
  <2>4. \A e \in Endpoint : IsConnected(e)' /\ ecm[e].chan # 0 => ecm[e].ctx = conn'[e].chan
    BY <1>4, <1>5, <1>18 DEF Full, Connection, KeyInv, IsConnected
  <2> QED
    BY <1>3, <1>17, <2>2, <2>3, <2>4 DEF KeyInv
<1>23. CtxInv'
  <2>1. IsConnected(x)' \/ conn'[x].chan = 0
    BY <1>5 DEF IsConnected
  <2> QED
    BY <1>3, <1>5, <1>17, <1>18, <2>1, EmSame DEF Full, Connection, CtxInv
<1>24. LeftInv'
  <2>1. \A d \in Chan : reader'[d] = "done" <=> reader[d] = "done"
    BY <1>8
  <2>2. \A e \in Endpoint : state[e] # 0 => state[e] \in Chan
    BY Accessors DEF Full
  <2>3. em.k = "joining" => state[em.e] # 0
    BY DEF Full, Connection, EmInv
  <2> QED
    BY <1>3, <2>1, <2>2, <2>3, EmSame DEF Full, Connection, LeftInv
<1>25. CallInv'
  BY <1>2, <1>3, <1>8, <1>9, EmSame, PcpSame DEF Full, Connection, CallInv, InRemoval, InAccept
<1> QED
  BY <1>11, <1>16, <1>19, <1>20, <1>21, <1>22, <1>23, <1>24, <1>25 DEF Full, Connection

-----------------------------------------------------------------------------
(* The EndpointManager thread.                                             *)

\* Workers start on a fresh channel, when those of the old one have ended and no encryption
\* context is left.
LEMMA StartWorkersKeeps ==
  ASSUME Full, NEW x \in Endpoint, NEW c \in Ref, Registers(x, c), StartWorkers(x, c),
         em.k \in {"idle", "duplicate"}, em.k = "duplicate" => em.e = x,
         state[x] = 0 \/ WorkersDone(state[x]), ecm[x].chan = 0, ecm[x].ctx = 0,
         UNCHANGED <<chan, closed, runner, pending, ukey2, moved, heard, pcpQ>>,
         emQ' \in Seq(EmJob) /\ EmJobs', \A e \in Endpoint, d \in Ref : ~RegisterDue(e, d)',
         \A e \in Endpoint : (RemovalDue(e) => RemovalDue(e)') /\ (RemovalFirst(e) => RemovalFirst(e)'),
         UnregisterDue' => UnregisterDue
  PROVE  Full'
<1>1. /\ pcp.k = "registering" /\ pcp.e = x /\ pending[x] = c /\ c # 0 /\ c \in Chan /\ Own(c, x)
      /\ c \in moved /\ Fresh(c) /\ conn[x].chan = 0
      /\ \A e \in Endpoint : pending[e] # 0 /\ pending[e] = c => e = x
  <2>1. pcp.k = "registering" /\ pcp.e = x /\ pending[x] = c /\ c # 0
    BY DEF Registers, Full, Links, RegInv
  <2>2. c \in Chan /\ Own(c, x) /\ c \in moved /\ Fresh(c) /\ conn[x].chan = 0
    BY <2>1, Accessors DEF Full, Links, RegInv, OwnInv, NewInv, New
  <2> QED
    BY <2>1, <2>2, OwnOne
<1>2. /\ ecm'[x].in /\ ecm'[x].chan = c /\ ecm'[x].ctx = 0 /\ ecm'[x] # NoEntry
      /\ \A e \in Endpoint : e # x => ecm'[e] = ecm[e]
      /\ ecm' \in [Endpoint -> [in : BOOLEAN, chan : Ref, ctx : Ref]]
  <2>1. PICK S : S = [in : BOOLEAN, chan : Ref, ctx : Ref]
    OBVIOUS
  <2>2. ecm[x] \in S /\ ecm \in [Endpoint -> S]
    BY <2>1 DEF Full, Types, MapType
  <2>3. PICK z \in S : z = [ecm[x] EXCEPT !.in = TRUE, !.chan = c] /\ z.in /\ z.chan = c /\ z.ctx = 0
    <3>1. /\ [ecm[x] EXCEPT !.in = TRUE, !.chan = c] \in S
          /\ [ecm[x] EXCEPT !.in = TRUE, !.chan = c].in
          /\ [ecm[x] EXCEPT !.in = TRUE, !.chan = c].chan = c
          /\ [ecm[x] EXCEPT !.in = TRUE, !.chan = c].ctx = 0
      BY <2>1, <2>2
    <3> QED
      BY <3>1, Zenon
  <2>4. ecm' = [ecm EXCEPT ![x] = z]
    BY <2>2, <2>3 DEF StartWorkers
  <2> QED
    BY <1>1, <2>1, <2>2, <2>3, <2>4 DEF NoEntry
<1>3. /\ conn'[x].chan = c /\ conn'[x].bits = {}
      /\ \A e \in Endpoint : e # x => conn'[e] = conn[e]
      /\ conn' \in [Endpoint -> [bits : SUBSET Bits, chan : Ref]]
  <2>1. conn' = [conn EXCEPT ![x] = [bits |-> {}, chan |-> c]]
    BY <1>1 DEF StartWorkers
  <2> QED
    BY <2>1 DEF Full, Types, MapType
<1>4. /\ state'[x] = c /\ \A e \in Endpoint : e # x => state'[e] = state[e]
      /\ state' \in [Endpoint -> Ref]
  BY DEF StartWorkers, Full, Types, MapType
<1>5. /\ reader'[c] = "reading" /\ keep'[c] = "running"
      /\ \A d \in Chan : d # c => reader'[d] = reader[d] /\ keep'[d] = keep[d]
      /\ reader' \in [Chan -> {"none", "reading", "locking", "handling", "done"}]
      /\ keep' \in [Chan -> {"none", "running", "done"}]
      /\ told' \in [Chan -> {"none", "initiated", "accepted", "rejected", "disconnected"}]
      /\ asked' = asked \cup {c}
  BY <1>1 DEF StartWorkers, Full, Types, MapType
<1>6. /\ pcp'.k = "idle" /\ pcp' \in PcpState /\ em'.k = "idle" /\ em' \in EmState
  BY DEF StartWorkers, PcpState, EmState, Idle
<1>7. api' \in {"idle", "busy"} /\ future' \in Ref /\ CallInv'
  <2>1. SetResult(c) /\ ~InRemoval' /\ ~InAccept' /\ (ApiDue' <=> ApiDue)
    BY <1>6, PcpSame DEF StartWorkers, InRemoval, InAccept, Removing
  <2> QED
    BY <2>1, ResultSet, ResultCall DEF Full
<1>8. ChanType' /\ MapType' /\ ThreadType'
  BY <1>1, <1>2, <1>3, <1>4, <1>5, <1>6, <1>7 DEF Full, Types, ChanType, MapType, ThreadType, Own
<1>9. Types' /\ PcpJobs'
  BY <1>8, TypeFrame, PcpSame DEF Full, Types, QueueType
<1>10. OwnInv'
  BY <1>1, <1>4 DEF Full, Links, OwnInv, Own
<1>11. HandlerInv'
  <2>1. \A d \in Chan : ResponseDue(d)' => d # c /\ ResponseDue(d)
    BY <1>1, PcpSame DEF Full, Links, HandlerInv, Fresh
  <2> QED
    BY <1>5, <1>6, <2>1 DEF Full, Links, HandlerInv
<1>12. WorkerInv'
  <2>1. \A d \in 1..Len(chan) : d # c /\ ~WorkersDone(d)' => state'[chan[d].e] = d
    <3> SUFFICES ASSUME NEW d \in 1..Len(chan), d # c, ~WorkersDone(d)' PROVE state'[chan[d].e] = d
      OBVIOUS
    <3>1. ~WorkersDone(d) /\ d \in Chan /\ chan[d].e \in Endpoint /\ d # 0
      BY <1>5, Accessors DEF WorkersDone, Full
    <3>2. state[chan[d].e] = d
      BY <3>1 DEF Full, Links, WorkerInv
    <3> QED
      BY <1>4, <3>1, <3>2
  <2>2. \A d \in Chan : d > Len(chan) => d # c /\ Fresh(d)'
    <3>1. c <= Len(chan) /\ Len(chan) \in Nat /\ c \in Nat
      BY <1>1, Accessors, MaxChanAssumption DEF Own, Full, Chan
    <3>2. \A d \in Chan : d > Len(chan) => d # c
      BY <3>1, MaxChanAssumption DEF Chan
    <3> QED
      BY <1>5, <3>2 DEF Full, Links, WorkerInv, Fresh
  <2>3. \A e \in Endpoint : state'[e] # 0 => reader'[state'[e]] # "none"
    BY <1>4, <1>5, Accessors DEF Full, Links, WorkerInv
  <2> QED
    BY <1>1, <1>4, <2>1, <2>2, <2>3 DEF WorkerInv, Own
<1>13. NewInv'
  <2>1. \A e \in Endpoint : New(e)' => New(e) /\ e # x /\ pending[e] # c /\ pending[e] \in Chan
    BY <1>1, <1>6, Accessors DEF New, Full
  <2> QED
    BY <1>3, <1>5, <2>1 DEF Full, Links, NewInv, Fresh
<1>14. RegInv' /\ BarrierInv'
  BY <1>6, PcpSame DEF Full, Links, RegInv, BarrierInv
<1>15. \A e \in Endpoint : ~Accepting(e) /\ ~Accepting(e)'
  BY <1>1, <1>6 DEF Accepting
<1>16. \A e \in Endpoint : IsConnected(e)' <=> IsConnected(e) /\ e # x
  BY <1>1, <1>3 DEF IsConnected
<1>17. ConnInv'
  <2>1. ConnOf(x)'
    BY <1>1, <1>3, <1>4, <1>15, <1>16 DEF ConnOf
  <2>2. ASSUME NEW e \in Endpoint, e # x PROVE ConnOf(e)'
    BY <1>3, <1>4, <1>15, <1>16, <2>2, PcpSame DEF Full, Connection, ConnInv, ConnOf
  <2> QED
    BY <2>1, <2>2 DEF ConnInv
<1>18. EmInv'
  <2>1. \A e \in Endpoint : /\ ecm[e].chan # 0 => ecm[e].chan = state[e]
                            /\ conn[e].chan # 0 => ecm[e].in
    BY DEF Full, Connection, EmInv
  <2>2. \A e \in Endpoint : /\ ecm'[e].chan # 0 => ecm'[e].chan = state'[e]
                            /\ conn'[e].chan # 0 => ecm'[e].in
    BY <1>2, <1>3, <1>4, <2>1
  <2> QED
    BY <1>6, <2>2 DEF EmInv
<1>19. HeardInv'
  <2>1. \A d \in Chan : (Unheard(d)' => Unheard(d)) /\ (reader'[d] = "locking" => reader[d] = "locking")
    BY <1>5, PcpSame DEF Unheard
  <2>2. RemoteAnswerOwn'
    BY <1>3 DEF Full, Connection, HeardInv, RemoteAnswerOwn
  <2> QED
    BY <1>3, <2>1, <2>2 DEF Full, Connection, HeardInv
<1>20. KeyInv'
  <2>1. \A e \in Endpoint, d \in Chan : pending[e] = d /\ ukey2[e] # d =>
          (d \in runner \/ KeyDue(d)') /\ conn'[e].bits \cap Remote = {}
    BY <1>3, PcpSame DEF Full, Connection, KeyInv
  <2>2. \A e \in Endpoint : pending[e] # 0 /\ ukey2[e] = pending[e] => pending[e] \in moved
    BY <1>1 DEF Full, Connection, KeyInv
  <2>3. \A e \in Endpoint : IsConnected(e)' /\ conn'[e].chan # 0 /\ ecm'[e].chan # 0 => ecm'[e].ctx = conn'[e].chan
    BY <1>2, <1>3, <1>16 DEF Full, Connection, KeyInv
  <2> QED
    BY <1>15, <2>1, <2>2, <2>3 DEF KeyInv
<1>21. CtxInv'
  BY <1>2, <1>3, <1>15, <1>16 DEF Full, Connection, CtxInv
<1>22. LeftInv'
  <2>1. ASSUME NEW e \in Endpoint, e # x
        PROVE  /\ state'[e] # 0 /\ (reader'[state'[e]] = "done" \/ keep'[state'[e]] = "done") => RemovalDue(e)'
               /\ ecm'[e] # NoEntry => state'[e] # 0 \/ RemovalDue(e)'
    BY <1>2, <1>4, <1>5, <2>1, Accessors DEF Full, Connection, LeftInv
  <2> QED
    BY <1>1, <1>2, <1>4, <1>5, <1>6, <2>1 DEF LeftInv
<1> QED
  BY <1>7, <1>9, <1>10, <1>11, <1>12, <1>13, <1>14, <1>17, <1>18, <1>19, <1>20, <1>21, <1>22
  DEF Full, Links, Connection

\* The ECM entry goes, and its channel is closed.
LEMMA Unregistered ==
  ASSUME Full, NEW x \in Endpoint, Unregister(x)
  PROVE  /\ ecm'[x] = NoEntry /\ ecm'[x].chan = 0 /\ ecm'[x].ctx = 0 /\ ~ecm'[x].in
         /\ \A e \in Endpoint : e # x => ecm'[e] = ecm[e]
         /\ ecm' \in [Endpoint -> [in : BOOLEAN, chan : Ref, ctx : Ref]]
         /\ closed' \subseteq 1..Len(chan)
<1>1. closed' \subseteq 1..Len(chan)
  <2>1. ecm[x].chan # 0 => ecm[x].chan \in 1..Len(chan)
    BY DEF Full, Connection, EmInv, Links, OwnInv, Own
  <2> QED
    BY <2>1 DEF Unregister, Full, Types, ChanType
<1>2. NoEntry \in [in : BOOLEAN, chan : Ref, ctx : Ref] /\ NoEntry.chan = 0 /\ NoEntry.ctx = 0 /\ ~NoEntry.in
  BY Accessors DEF NoEntry, Full
<1>3. ecm \in [Endpoint -> [in : BOOLEAN, chan : Ref, ctx : Ref]] /\ ecm' = [ecm EXCEPT ![x] = NoEntry]
  BY DEF Unregister, Full, Types, MapType
<1> QED
  BY <1>1, <1>2, <1>3

\* The register-endpoint job: the workers start, or the old ones are waited for.
LEMMA RegisterJobKeeps ==
  ASSUME Full, RegisterJob
  PROVE  Full'
<1>1. PICK j : j = Head(emQ)
  OBVIOUS
<1>2. /\ UNCHANGED <<chan, runner, pending, ukey2, moved, heard, pcpQ>>
      /\ em = Idle /\ emQ # <<>> /\ emQ' = Tail(emQ) /\ j.k = "register"
  BY <1>1 DEF RegisterJob, NextEmJob, pcpVars
<1>3. /\ emQ' \in Seq(EmJob) /\ EmJobs' /\ j.e \in Endpoint /\ j.c \in Ref
      /\ \A e, d : ~RegisterDue(e, d)'
      /\ UnregisterDue' <=> UnregisterDue
      /\ RegisterDue(j.e, j.c) /\ ~RemovalFirst(j.e)
      /\ \A e : (RemovalDue(e) => RemovalDue(e)') /\ (RemovalFirst(e) => RemovalFirst(e)')
  BY <1>1, <1>2, EmTaken, EmJobFields DEF Full, Types, Removes
<1>4. PICK x \in Endpoint, c \in Ref : x = j.e /\ c = j.c
  BY <1>3
<1>5. Registers(x, c) /\ em.k = "idle"
  BY <1>2, <1>3, <1>4 DEF Full, Links, RegInv, Idle
<1>6. CASE state[x] = 0 /\ StartWorkers(x, c) /\ UNCHANGED closed
  <2>1. ecm[x].chan = 0 /\ ecm[x].ctx = 0
    BY <1>3, <1>4, <1>5, <1>6 DEF Full, Connection, EmInv, CtxInv
  <2> QED
    BY <1>2, <1>3, <1>5, <1>6, <2>1, StartWorkersKeeps
<1>7. CASE /\ state[x] # 0 /\ em' = [k |-> "duplicate", e |-> x, c |-> c] /\ Unregister(x)
           /\ UNCHANGED <<state, reader, keep, conn, told, asked, caller, pcp>>
  <2>1. /\ pcp.k = "registering" /\ pcp.e = x /\ pending[x] = c /\ c # 0 /\ c \in Chan /\ conn[x].chan = 0
    BY <1>5, Accessors DEF Registers, Full, Links, RegInv, NewInv, New
  <2>2. em'.k = "duplicate" /\ em'.e = x /\ em'.c = c /\ em' \in EmState
    BY <1>7, <2>1 DEF EmState
  <2>3. /\ ecm'[x] = NoEntry /\ ecm'[x].chan = 0 /\ ecm'[x].ctx = 0 /\ ~ecm'[x].in
        /\ \A e \in Endpoint : e # x => ecm'[e] = ecm[e]
        /\ ecm' \in [Endpoint -> [in : BOOLEAN, chan : Ref, ctx : Ref]]
        /\ closed' \subseteq 1..Len(chan)
    BY <1>7, Unregistered
  <2>4. ChanType' /\ MapType' /\ ThreadType'
    BY <1>2, <1>7, <2>2, <2>3 DEF Full, Types, ChanType, MapType, ThreadType, caller
  <2>5. Types' /\ PcpJobs'
    BY <1>2, <1>3, <2>4, TypeFrame, PcpSame, <1>7 DEF Full, Types, QueueType
  <2>6. RegInv'
    BY <1>2, <1>3, <1>7, <2>1, <2>2, <2>3 DEF Full, Links, RegInv, Registers
  <2>7. BarrierInv'
    BY <1>2, <1>5, PcpSame DEF Full, Links, BarrierInv
  <2>8. Links'
    BY <1>2, <1>7, <2>6, <2>7, LinkFrame, TypeFrame, PcpSame DEF Full, Links
  <2>9. EmInv'
    BY <1>5, <1>7, <2>1, <2>2, <2>3 DEF Full, Connection, EmInv
  <2>10. KeyInv'
    BY <1>2, <1>7, <2>3, PcpSame DEF Full, Connection, KeyInv, IsConnected, Accepting
  <2>11. CtxInv'
    BY <1>3, <1>5, <1>7, <2>3 DEF Full, Connection, CtxInv, IsConnected, Accepting
  <2>12. LeftInv'
    BY <1>3, <1>5, <1>7, <2>2, <2>3 DEF Full, Connection, LeftInv
  <2>13. CallInv'
    BY <1>2, <1>3, <1>7, <2>2, PcpSame
    DEF Full, Connection, CallInv, InRemoval, InAccept, Removing, caller
  <2> QED
    BY <1>2, <1>3, <1>7, <2>5, <2>8, <2>9, <2>10, <2>11, <2>12, <2>13, ConnectionFrame, PcpSame
    DEF Full, Connection
<1> QED
  BY <1>1, <1>4, <1>6, <1>7 DEF RegisterJob

\* The old workers have ended and the new ones start.
LEMMA RegisterDuplicateKeeps ==
  ASSUME Full, RegisterDuplicate
  PROVE  Full'
<1>1. PICK x \in Endpoint, c \in Ref : x = em.e /\ c = em.c
  BY EmFields, Accessors DEF RegisterDuplicate, Full, Types
<1>2. /\ UNCHANGED <<chan, closed, runner, pending, ukey2, moved, heard, pcpQ, emQ>>
      /\ em.k = "duplicate" /\ WorkersDone(state[x]) /\ StartWorkers(x, c)
  BY <1>1 DEF RegisterDuplicate, chans, pcpVars
<1>3. /\ Registers(x, c) /\ ecm[x].chan = 0 /\ ecm[x].ctx = 0
      /\ \A e \in Endpoint, d \in Ref : ~RegisterDue(e, d)
  BY <1>1, <1>2 DEF Full, Links, RegInv, NoEntry
<1>4. emQ \in Seq(EmJob) /\ EmJobs
  BY DEF Full, Types, QueueType
<1> QED
  BY <1>1, <1>2, <1>3, <1>4, StartWorkersKeeps, EmSame

\* A removal starts.
LEMMA RemoveJobKeeps ==
  ASSUME Full, RemoveJob
  PROVE  Full'
<1>1. PICK j : j = Head(emQ)
  OBVIOUS
<1>2. /\ UNCHANGED <<chan, closed, runner, pending, ukey2, moved, conn, asked, told, ecm, state,
                     reader, keep, heard, pcp, pcpQ, caller>>
      /\ em = Idle /\ emQ # <<>> /\ emQ' = Tail(emQ) /\ j.k \in {"unregister", "discard"}
      /\ em' = [k |-> "remove", e |-> j.e, notify |-> IsConnected(j.e), c |-> j.c,
                call |-> j.k = "unregister"]
  BY <1>1 DEF RemoveJob, NextEmJob, chans, pcpVars, client, workers
<1>3. /\ emQ' \in Seq(EmJob) /\ EmJobs' /\ j.e \in Endpoint /\ j.c \in Ref
      /\ \A e, d : RegisterDue(e, d)' <=> RegisterDue(e, d)
      /\ UnregisterDue' <=> UnregisterDue /\ j.k # "unregister"
      /\ j.k = "unregister" => UnregisterDue
      /\ \A e : e # j.e => /\ (RemovalDue(e) => RemovalDue(e)')
                           /\ (RemovalFirst(e) => RemovalFirst(e)')
  BY <1>1, <1>2, EmTaken, EmJobFields DEF Full, Types, Removes
<1>4. em.k = "idle" /\ em'.k = "remove" /\ em'.e = j.e /\ (em'.call <=> j.k = "unregister")
  BY <1>2 DEF Idle
<1>5. em' \in EmState
  <2>1. PICK n \in BOOLEAN : n = IsConnected(j.e)
    BY DEF IsConnected
  <2>2. PICK b \in BOOLEAN : b = (j.k = "unregister")
    OBVIOUS
  <2>3. em' = [k |-> "remove", e |-> j.e, notify |-> n, c |-> j.c, call |-> b]
    BY <1>2, <2>1, <2>2
  <2> QED
    BY <1>3, <2>3 DEF EmState, Removal, Removing
<1>6. Types' /\ PcpJobs'
  BY <1>2, <1>3, <1>5, TypeFrame, PcpSame DEF Full, Types, QueueType, ThreadType
<1>7. RegInv' /\ BarrierInv'
  BY <1>2, <1>3, <1>4, PcpSame DEF Full, Links, RegInv, Registers, BarrierInv
<1>8. Links'
  BY <1>2, <1>7, LinkFrame, TypeFrame, PcpSame DEF Full, Links
<1>9. EmInv'
  BY <1>2, <1>4 DEF Full, Connection, EmInv
<1>10. CtxInv'
  BY <1>2, <1>3, <1>4 DEF Full, Connection, CtxInv, IsConnected, Accepting
<1>11. LeftInv'
  BY <1>2, <1>3, <1>4 DEF Full, Connection, LeftInv, NoEntry
<1>12. CallInv'
  BY <1>2, <1>3, <1>4, PcpSame DEF Full, Connection, CallInv, InRemoval, InAccept, Removing, caller
<1> QED
  BY <1>2, <1>3, <1>6, <1>8, <1>9, <1>10, <1>11, <1>12, ConnectionFrame, PcpSame DEF Full, Connection

\* The channel of the endpoint goes.
LEMMA UnregisterChannelKeeps ==
  ASSUME Full, UnregisterChannel
  PROVE  Full'
<1>1. /\ UNCHANGED <<chan, runner, pending, ukey2, moved, conn, asked, told, state,
                     reader, keep, heard, pcp, pcpQ, emQ, caller>>
      /\ em.k = "remove" /\ em' = [em EXCEPT !.k = IF ecm[em.e].in THEN "notify" ELSE "clear"]
      /\ Unregister(em.e)
  BY DEF UnregisterChannel, pcpVars, client, workers
<1>2. em \in Removal /\ em.e \in Endpoint
  BY <1>1, EmFields DEF Full, Types, Removing
<1>3. PICK x \in Endpoint : x = em.e
  BY <1>2
<1>4. PICK k \in Removing : k = IF ecm[x].in THEN "notify" ELSE "clear"
  BY DEF Removing
<1>5. em' \in EmState /\ em'.k = k /\ em'.e = x /\ (InRemoval' <=> InRemoval)
  BY <1>1, <1>2, <1>3, <1>4, RemovalStep
<1>6. /\ ecm'[x] = NoEntry /\ ecm'[x].chan = 0 /\ ecm'[x].ctx = 0 /\ ~ecm'[x].in
      /\ \A e \in Endpoint : e # x => ecm'[e] = ecm[e]
      /\ ecm' \in [Endpoint -> [in : BOOLEAN, chan : Ref, ctx : Ref]]
      /\ closed' \subseteq 1..Len(chan)
  BY <1>1, <1>3, Unregistered
<1>7. ChanType' /\ MapType' /\ ThreadType'
  BY <1>1, <1>5, <1>6 DEF Full, Types, ChanType, MapType, ThreadType, caller
<1>8. Types' /\ PcpJobs' /\ EmJobs'
  BY <1>1, <1>7, TypeFrame, PcpSame, EmSame DEF Full, Types, QueueType
<1>9. RegInv' /\ BarrierInv'
  BY <1>1, <1>4, <1>5, PcpSame, EmSame DEF Full, Links, RegInv, Registers, BarrierInv
<1>10. Links'
  BY <1>1, <1>9, LinkFrame, TypeFrame, PcpSame DEF Full, Links
<1>11. EmInv'
  BY <1>1, <1>3, <1>4, <1>5, <1>6 DEF Full, Connection, EmInv
<1>12. KeyInv'
  BY <1>1, <1>6, PcpSame DEF Full, Connection, KeyInv, IsConnected, Accepting
<1>13. CtxInv'
  BY <1>1, <1>3, <1>6, EmSame DEF Full, Connection, CtxInv, IsConnected, Accepting
<1>14. LeftInv'
  BY <1>1, <1>3, <1>4, <1>5, <1>6, EmSame DEF Full, Connection, LeftInv
<1>15. CallInv'
  BY <1>1, <1>5, PcpSame, EmSame DEF Full, Connection, CallInv, InAccept, caller
<1> QED
  BY <1>1, <1>8, <1>10, <1>11, <1>12, <1>13, <1>14, <1>15, ConnectionFrame, PcpSame DEF Full, Connection

\* A removal goes on to the next step, and only the queue of the PCP handler thread changes.
LEMMA RemovalGoesOn ==
  ASSUME Full, em.k \in Removing, NEW k \in Removing, em' = [em EXCEPT !.k = k],
         em.k \in {"notify", "barrier"}, k \in {"barrier", "gone"},
         UNCHANGED <<chan, closed, runner, pending, ukey2, moved, conn, asked, told, ecm, state,
                     reader, keep, heard, pcp, emQ, caller>>,
         pcpQ' \in Seq(PcpJob), PcpJobs',
         \A c \in Chan : (ResponseDue(c)' => ResponseDue(c)) /\ (KeyDue(c) => KeyDue(c)'),
         \A e \in Endpoint : RequestDue(e)' => RequestDue(e),
         LiveDue' => k = "barrier", ApiDue' => ApiDue
  PROVE  Full'
<1>1. em \in Removal
  BY EmFields DEF Full, Types
<1>2. em' \in EmState /\ em'.k = k /\ em'.e = em.e /\ (InRemoval' <=> InRemoval)
  BY <1>1, RemovalStep
<1>3. Types' /\ EmJobs'
  BY <1>2, TypeFrame, EmSame DEF Full, Types, QueueType, ThreadType
<1>4. RegInv' /\ BarrierInv'
  BY <1>2, EmSame DEF Full, Links, RegInv, Registers, BarrierInv
<1>5. Links'
  BY <1>4, LinkFrame, TypeFrame DEF Full, Links
<1>6. EmInv' /\ CtxInv' /\ LeftInv'
  BY <1>2, EmSame DEF Full, Connection, EmInv, CtxInv, LeftInv, IsConnected, Accepting, NoEntry
<1>7. CallInv'
  BY <1>2, EmSame DEF Full, Connection, CallInv, InAccept, caller
<1> QED
  BY <1>3, <1>5, <1>6, <1>7, ConnectionFrame DEF Full, Connection

\* The frame processors are notified.
LEMMA NotifyProcessorsKeeps ==
  ASSUME Full, NotifyProcessors
  PROVE  Full'
<1>1. /\ UNCHANGED <<chan, closed, runner, pending, ukey2, moved, conn, asked, told, ecm, state,
                     reader, keep, heard, pcp, emQ, caller>>
      /\ em.k = "notify" /\ em' = [em EXCEPT !.k = "barrier"]
      /\ pcpQ' = Append(pcpQ, [k |-> "disconnect", e |-> em.e, live |-> TRUE])
  BY DEF NotifyProcessors, chans, pcpVars, client, workers
<1>2. em.k \in Removing /\ "barrier" \in Removing /\ em.e \in Endpoint
  BY <1>1, EmFields DEF Full, Types, Removing
<1> DEFINE j == [k |-> "disconnect", e |-> em.e, live |-> TRUE]
<1>3. j \in PcpJob /\ pcpQ' = Append(pcpQ, j) /\ j.k = "disconnect"
  BY <1>1, <1>2 DEF PcpJob
<1> HIDE DEF j
<1>4. ~LiveDue
  BY <1>1 DEF Full, Links, BarrierInv
<1>5. PcpJobs'
  BY <1>1, <1>3, <1>4, PcpPostedJobs DEF Full, Types, ApiJob
<1>6. /\ pcpQ' \in Seq(PcpJob)
      /\ \A c : (ResponseDue(c)' => ResponseDue(c)) /\ (KeyDue(c) => KeyDue(c)')
      /\ \A e : RequestDue(e)' => RequestDue(e)
      /\ ApiDue' => ApiDue
  BY <1>3, PcpPosted DEF Full, Types, ApiJob
<1> QED
  BY <1>1, <1>2, <1>5, <1>6, RemovalGoesOn

\* The barrier is no longer waited for.
LEMMA BarrierTimeoutKeeps ==
  ASSUME Full, BarrierTimeout
  PROVE  Full'
<1>1. /\ UNCHANGED <<chan, closed, runner, pending, ukey2, moved, conn, asked, told, ecm, state,
                     reader, keep, heard, pcp, emQ, caller>>
      /\ em.k = "barrier" /\ em' = [em EXCEPT !.k = "gone"]
      /\ pcpQ' = [i \in 1..Len(pcpQ) |-> IF pcpQ[i].k = "disconnect" THEN [pcpQ[i] EXCEPT !.live = FALSE]
                                                                     ELSE pcpQ[i]]
  BY DEF BarrierTimeout, chans, pcpVars, client, workers
<1>2. em.k \in Removing /\ "gone" \in Removing
  BY <1>1 DEF Removing
<1>3. ASSUME NEW j \in PcpJob, j.k = "disconnect"
      PROVE  /\ [j EXCEPT !.live = FALSE] \in PcpJob /\ [j EXCEPT !.live = FALSE].k = "disconnect"
             /\ ~[j EXCEPT !.live = FALSE].live
  <2>1. j \in [k : {"disconnect"}, e : Endpoint, live : BOOLEAN]
    BY <1>3 DEF PcpJob
  <2>2. [j EXCEPT !.live = FALSE] \in [k : {"disconnect"}, e : Endpoint, live : BOOLEAN]
    BY <2>1
  <2> QED
    BY <2>1, <2>2 DEF PcpJob
<1>4. /\ Len(pcpQ) \in Nat /\ pcpQ' \in Seq(PcpJob) /\ Len(pcpQ') = Len(pcpQ)
      /\ \A n \in 1..Len(pcpQ) :
           /\ pcpQ[n] \in PcpJob
           /\ pcpQ[n].k # "disconnect" => pcpQ'[n] = pcpQ[n]
           /\ pcpQ[n].k = "disconnect" => pcpQ'[n].k = "disconnect" /\ ~pcpQ'[n].live
  <2>1. pcpQ \in Seq(PcpJob) /\ Len(pcpQ) \in Nat /\ \A n \in 1..Len(pcpQ) : pcpQ[n] \in PcpJob
    BY DEF Full, Types, QueueType
  <2>2. \A n \in 1..Len(pcpQ) :
          /\ pcpQ'[n] \in PcpJob
          /\ pcpQ[n].k # "disconnect" => pcpQ'[n] = pcpQ[n]
          /\ pcpQ[n].k = "disconnect" => pcpQ'[n].k = "disconnect" /\ ~pcpQ'[n].live
    BY <1>1, <1>3, <2>1
  <2>3. pcpQ' \in [1..Len(pcpQ) -> PcpJob]
    BY <1>1, <2>2
  <2>4. pcpQ' \in Seq(PcpJob) /\ Len(pcpQ') = Len(pcpQ)
    BY <2>1, <2>3
  <2> QED
    BY <2>1, <2>2, <2>4
<1>5. \A n \in 1..Len(pcpQ) : pcpQ[n].k = pcpQ'[n].k /\ (pcpQ'[n].k # "disconnect" => pcpQ'[n] = pcpQ[n])
  BY <1>4
<1>6. /\ \A c : (ResponseDue(c)' <=> ResponseDue(c)) /\ (KeyDue(c) => KeyDue(c)')
      /\ \A e : RequestDue(e)' <=> RequestDue(e)
      /\ (ApiDue' <=> ApiDue) /\ ~LiveDue'
  <2>1. \A c : ResponseDue(c)' <=> ResponseDue(c)
    BY <1>4, <1>5 DEF ResponseDue
  <2>2. ASSUME NEW c, KeyDue(c) PROVE KeyDue(c)'
    <3>1. PICK n \in 1..Len(pcpQ) :
            /\ KeyJob(pcpQ[n]) /\ pcpQ[n].c = c
            /\ \A m \in 1..Len(pcpQ) : pcpQ[m].k = "response" /\ pcpQ[m].c = c => m > n
      BY <2>2 DEF KeyDue
    <3>2. pcpQ'[n] = pcpQ[n]
      BY <1>5, <3>1 DEF KeyJob
    <3> QED
      BY <1>4, <1>5, <3>1, <3>2 DEF KeyDue
  <2>3. \A e : RequestDue(e)' <=> RequestDue(e)
    BY <1>4, <1>5 DEF RequestDue
  <2>4. ApiDue' <=> ApiDue
    BY <1>4, <1>5 DEF ApiDue, ApiJob
  <2>5. ~LiveDue'
    BY <1>4, <1>5 DEF LiveDue, LiveJob
  <2> QED
    BY <2>1, <2>2, <2>3, <2>4, <2>5
<1>7. PcpJobs'
  <2>1. \A m, n \in 1..Len(pcpQ) : Rival(pcpQ'[m], pcpQ'[n]) => Rival(pcpQ[m], pcpQ[n])
    BY <1>4, <1>5 DEF Rival, ApiJob, LiveJob
  <2>2. \A n \in 1..Len(pcpQ) : pcpQ'[n].k \in {"encrypted", "failed", "response"} => pcpQ'[n] = pcpQ[n]
    BY <1>5
  <2> QED
    BY <1>1, <1>4, <2>1, <2>2 DEF Full, PcpJobs, Own
<1> QED
  BY <1>1, <1>2, <1>4, <1>6, <1>7, RemovalGoesOn

\* The client's connection goes.
LEMMA OnDisconnectedKeeps ==
  ASSUME Full, OnDisconnected
  PROVE  Full'
<1>1. /\ UNCHANGED <<chan, closed, runner, pending, ukey2, moved, asked, ecm, state,
                     reader, keep, heard, pcp, pcpQ, emQ, caller>>
      /\ em.k = "gone" /\ em' = [em EXCEPT !.k = "clear"]
      /\ conn' = [conn EXCEPT ![em.e] = NoConn]
      /\ told' = IF conn[em.e].chan # 0 /\ em.notify
                   THEN [told EXCEPT ![conn[em.e].chan] = "disconnected"] ELSE told
  BY DEF OnDisconnected, chans, pcpVars, workers
<1>2. em \in Removal /\ em.e \in Endpoint /\ "clear" \in Removing
  BY <1>1, EmFields DEF Full, Types, Removing
<1>3. PICK x \in Endpoint : x = em.e
  BY <1>2
<1>4. em' \in EmState /\ em'.k = "clear" /\ em'.e = x /\ (InRemoval' <=> InRemoval)
  BY <1>1, <1>2, <1>3, RemovalStep
<1>5. /\ conn'[x].chan = 0 /\ conn'[x].bits = {}
      /\ \A e \in Endpoint : e # x => conn'[e] = conn[e]
      /\ conn' \in [Endpoint -> [bits : SUBSET Bits, chan : Ref]]
  <2>1. NoConn \in [bits : SUBSET Bits, chan : Ref] /\ NoConn.chan = 0 /\ NoConn.bits = {}
    BY Accessors DEF NoConn, Full
  <2> QED
    BY <1>1, <1>3, <2>1 DEF Full, Types, MapType
<1>6. told' \in [Chan -> {"none", "initiated", "accepted", "rejected", "disconnected"}]
  BY <1>1, <1>3, Accessors DEF Full, Types, MapType
<1>7. MapType' /\ ThreadType'
  BY <1>1, <1>4, <1>5, <1>6 DEF Full, Types, MapType, ThreadType, caller
<1>8. Types' /\ PcpJobs' /\ EmJobs'
  BY <1>1, <1>7, TypeFrame, PcpSame, EmSame DEF Full, Types, QueueType
<1>9. NewInv'
  BY <1>1, <1>5 DEF Full, Links, NewInv, New, Fresh
<1>10. RegInv' /\ BarrierInv'
  BY <1>1, <1>4, PcpSame, EmSame DEF Full, Links, RegInv, Registers, BarrierInv
<1>11. Links'
  BY <1>1, <1>9, <1>10, LinkFrame, TypeFrame, PcpSame DEF Full, Links
<1>12. ConnInv'
  <2>1. ConnOf(x)'
    BY <1>1, <1>5, PcpSame DEF Full, Connection, ConnInv, ConnOf, IsConnected, Accepting
  <2>2. ASSUME NEW e \in Endpoint, e # x PROVE ConnOf(e)'
    BY <1>1, <1>5, <2>2, PcpSame DEF Full, Connection, ConnInv, ConnOf, IsConnected, Accepting
  <2> QED
    BY <2>1, <2>2 DEF ConnInv
<1>13. EmInv'
  BY <1>1, <1>3, <1>4, <1>5 DEF Full, Connection, EmInv
<1>14. HeardInv'
  <2>1. RemoteAnswerOwn'
    BY <1>1, <1>5 DEF Full, Connection, HeardInv, RemoteAnswerOwn
  <2>2. \A d \in Chan : Unheard(d)' <=> Unheard(d)
    BY <1>1, PcpSame DEF Unheard
  <2> QED
    BY <1>1, <1>5, <2>1, <2>2, Accessors DEF Full, Connection, HeardInv
<1>15. KeyInv'
  BY <1>1, <1>5, PcpSame DEF Full, Connection, KeyInv, IsConnected, Accepting
<1>16. CtxInv'
  BY <1>1, <1>5, EmSame DEF Full, Connection, CtxInv, IsConnected, Accepting
<1>17. LeftInv'
  BY <1>1, <1>3, <1>4, EmSame DEF Full, Connection, LeftInv, NoEntry
<1>18. CallInv'
  BY <1>1, <1>4, PcpSame, EmSame DEF Full, Connection, CallInv, InAccept, caller
<1> QED
  BY <1>8, <1>11, <1>12, <1>13, <1>14, <1>15, <1>16, <1>17, <1>18 DEF Full, Connection

\* The removal is over, and its caller goes on.
LEMMA RemovalDone ==
  ASSUME Full, EmDone, em.k \in {"clear", "joining"}, UNCHANGED <<future, pcp, pcpQ, emQ>>
  PROVE  /\ em'.k = "idle" /\ em' \in EmState /\ api' \in {"idle", "busy"} /\ CallInv'
<1>1. em'.k = "idle" /\ em' \in EmState
  BY DEF EmDone, Idle, EmState
<1>2. em.k \in Removing /\ em.call \in BOOLEAN
  BY EmFields DEF Full, Types, Removing
<1>3. IF em.call THEN api' = "idle" ELSE UNCHANGED api
  BY DEF EmDone
<1>4. CallInv'
  BY <1>1, <1>2, <1>3, PcpSame, EmSame DEF Full, Connection, CallInv, InRemoval, InAccept, Removing
<1> QED
  BY <1>1, <1>3, <1>4 DEF Full, Types, MapType

\* The EndpointState is taken down, if there is one.
LEMMA RemoveEndpointStateKeeps ==
  ASSUME Full, RemoveEndpointState
  PROVE  Full'
<1>1. /\ UNCHANGED <<chan, runner, pending, ukey2, moved, conn, asked, told, state,
                     reader, keep, heard, pcp, pcpQ, emQ, future>>
      /\ em.k = "clear"
  BY DEF RemoveEndpointState, pcpVars, client, workers
<1>2. em \in Removal /\ em.e \in Endpoint /\ "joining" \in Removing
  BY <1>1, EmFields DEF Full, Types, Removing
<1>3. PICK x \in Endpoint : x = em.e
  BY <1>2
<1>4. CASE state[x] = 0 /\ EmDone /\ UNCHANGED <<ecm, closed>>
  <2>1. em'.k = "idle" /\ em' \in EmState /\ api' \in {"idle", "busy"} /\ CallInv'
    BY <1>1, <1>4, RemovalDone
  <2>2. Types' /\ PcpJobs' /\ EmJobs'
    BY <1>1, <1>4, <2>1, TypeFrame, PcpSame, EmSame DEF Full, Types, MapType, QueueType, ThreadType
  <2>3. RegInv' /\ BarrierInv'
    BY <1>1, <2>1, PcpSame, EmSame DEF Full, Links, RegInv, Registers, BarrierInv
  <2>4. Links'
    BY <1>1, <2>3, LinkFrame, TypeFrame, PcpSame DEF Full, Links
  <2>5. EmInv' /\ CtxInv'
    BY <1>1, <1>4, <2>1, EmSame DEF Full, Connection, EmInv, CtxInv, IsConnected, Accepting
  <2>6. LeftInv'
    BY <1>1, <1>3, <1>4, <2>1, EmSame DEF Full, Connection, LeftInv, NoEntry
  <2> QED
    BY <1>1, <1>4, <2>1, <2>2, <2>4, <2>5, <2>6, ConnectionFrame, PcpSame DEF Full, Connection
<1>5. CASE state[x] # 0 /\ em' = [em EXCEPT !.k = "joining"] /\ Unregister(x) /\ UNCHANGED api
  <2>1. em' \in EmState /\ em'.k = "joining" /\ em'.e = x /\ (InRemoval' <=> InRemoval)
    BY <1>2, <1>3, <1>5, RemovalStep
  <2>2. /\ ecm'[x] = NoEntry /\ ecm'[x].chan = 0 /\ ecm'[x].ctx = 0 /\ ~ecm'[x].in
        /\ \A e \in Endpoint : e # x => ecm'[e] = ecm[e]
        /\ ecm' \in [Endpoint -> [in : BOOLEAN, chan : Ref, ctx : Ref]]
        /\ closed' \subseteq 1..Len(chan)
    BY <1>5, Unregistered
  <2>3. ChanType' /\ MapType' /\ ThreadType'
    BY <1>1, <1>5, <2>1, <2>2 DEF Full, Types, ChanType, MapType, ThreadType
  <2>4. Types' /\ PcpJobs' /\ EmJobs'
    BY <1>1, <2>3, TypeFrame, PcpSame, EmSame DEF Full, Types, QueueType
  <2>5. RegInv' /\ BarrierInv'
    BY <1>1, <2>1, PcpSame, EmSame DEF Full, Links, RegInv, Registers, BarrierInv
  <2>6. Links'
    BY <1>1, <2>5, LinkFrame, TypeFrame, PcpSame DEF Full, Links
  <2>7. EmInv'
    BY <1>1, <1>3, <1>5, <2>1, <2>2 DEF Full, Connection, EmInv
  <2>8. KeyInv'
    BY <1>1, <2>2, PcpSame DEF Full, Connection, KeyInv, IsConnected, Accepting
  <2>9. CtxInv'
    BY <1>1, <2>1, <2>2, EmSame DEF Full, Connection, CtxInv, IsConnected, Accepting
  <2>10. LeftInv'
    BY <1>1, <1>3, <2>1, <2>2, EmSame DEF Full, Connection, LeftInv
  <2>11. CallInv'
    BY <1>1, <1>5, <2>1, PcpSame, EmSame DEF Full, Connection, CallInv, InAccept
  <2> QED
    BY <1>1, <2>4, <2>6, <2>7, <2>8, <2>9, <2>10, <2>11, ConnectionFrame, PcpSame DEF Full, Connection
<1> QED
  BY <1>3, <1>4, <1>5 DEF RemoveEndpointState

\* The workers of the endpoint have ended.
LEMMA WorkersJoinedKeeps ==
  ASSUME Full, WorkersJoined
  PROVE  Full'
<1>1. /\ UNCHANGED <<chan, closed, runner, pending, ukey2, moved, conn, asked, told, ecm,
                     reader, keep, heard, pcp, pcpQ, emQ, future>>
      /\ em.k = "joining" /\ WorkersDone(state[em.e]) /\ state' = [state EXCEPT ![em.e] = 0] /\ EmDone
  BY DEF WorkersJoined, chans, pcpVars, client
<1>2. PICK x \in Endpoint : x = em.e
  BY <1>1, EmFields DEF Full, Types
<1>3. em'.k = "idle" /\ em' \in EmState /\ api' \in {"idle", "busy"} /\ CallInv'
  BY <1>1, RemovalDone
<1>4. /\ state'[x] = 0 /\ \A e \in Endpoint : e # x => state'[e] = state[e]
      /\ state' \in [Endpoint -> Ref]
  BY <1>1, <1>2, Accessors DEF Full, Types, MapType
<1>5. conn[x].chan = 0 /\ ecm[x].chan = 0 /\ state[x] # 0 /\ WorkersDone(state[x])
  BY <1>1, <1>2 DEF Full, Connection, EmInv
<1>6. Types' /\ PcpJobs' /\ EmJobs'
  BY <1>1, <1>3, <1>4, TypeFrame, PcpSame, EmSame DEF Full, Types, MapType, QueueType, ThreadType
<1>7. OwnInv'
  BY <1>1, <1>4 DEF Full, Links, OwnInv, Own
<1>8. WorkerInv'
  <2>1. \A d \in 1..Len(chan) : ~WorkersDone(d) => state'[chan[d].e] = d
    BY <1>4, <1>5, Accessors DEF Full, Links, WorkerInv
  <2> QED
    BY <1>1, <1>4, <2>1 DEF Full, Links, WorkerInv, WorkersDone, Fresh
<1>9. RegInv' /\ BarrierInv'
  BY <1>1, <1>3, PcpSame, EmSame DEF Full, Links, RegInv, Registers, BarrierInv
<1>10. Links'
  BY <1>1, <1>7, <1>8, <1>9, LinkFrame, PcpSame DEF Full, Links
<1>11. ConnInv'
  BY <1>1, <1>4, <1>5, PcpSame DEF Full, Connection, ConnInv, ConnOf, IsConnected, Accepting
<1>12. EmInv' /\ CtxInv'
  BY <1>1, <1>2, <1>3, <1>4, <1>5, EmSame DEF Full, Connection, EmInv, CtxInv, IsConnected, Accepting
<1>13. LeftInv'
  <2>1. ecm[x] # NoEntry => RemovalDue(x)
    BY <1>1, <1>2, <1>5 DEF Full, Connection, LeftInv, Links, WorkerInv, WorkersDone
  <2> QED
    BY <1>1, <1>2, <1>3, <1>4, <2>1, EmSame DEF Full, Connection, LeftInv
<1> QED
  BY <1>1, <1>3, <1>6, <1>10, <1>11, <1>12, <1>13, ConnectionFrame, PcpSame DEF Full, Connection

-----------------------------------------------------------------------------
(* The theorems.                                                           *)

\* The properties that outlive a crash of the program.
Safe ==
  TypeOK /\ RemoteAnswerOwn /\ OneWorkerSet /\ ConnectedKey /\ NotEncryptedEarly /\ NothingLeft
IInv == Safe /\ (~Crashed => Full)

\* Nothing has happened yet.
LEMMA InitFull ==
  ASSUME Init
  PROVE  Full /\ ~Crashed
<1>1. /\ chan = <<>> /\ Len(chan) = 0 /\ closed = {} /\ runner = {} /\ moved = {} /\ asked = {}
      /\ pcp.k = "idle" /\ pcp = Idle /\ em.k = "idle" /\ em = Idle
      /\ pcpQ = <<>> /\ emQ = <<>> /\ Len(pcpQ) = 0 /\ Len(emQ) = 0 /\ api = "idle" /\ future = 0
      /\ \A c \in Chan : reader[c] = "none" /\ keep[c] = "none" /\ heard[c] = "none"
      /\ \A e \in Endpoint : /\ pending[e] = 0 /\ ukey2[e] = 0 /\ state[e] = 0
                             /\ conn[e].chan = 0 /\ conn[e].bits = {}
                             /\ ecm[e] = NoEntry /\ ecm[e].chan = 0 /\ ecm[e].ctx = 0
  BY DEF Init, Idle, NoConn, NoEntry
<1>2. 0 \in Ref
  BY MaxChanAssumption DEF Ref
<1>3. ChanType
  BY <1>1, MaxChanAssumption DEF ChanType
<1>4. MapType
  <2>1. NoEntry \in [in : BOOLEAN, chan : Ref, ctx : Ref] /\ NoConn \in [bits : SUBSET Bits, chan : Ref]
    BY <1>2 DEF NoEntry, NoConn
  <2> QED
    BY <1>2, <2>1 DEF Init, MapType
<1>5. QueueType /\ ThreadType
  BY <1>1 DEF QueueType, ThreadType, PcpState, EmState
<1>6. /\ \A c : ~ResponseDue(c)
      /\ \A e : ~RequestDue(e)
      /\ \A e, d : ~RegisterDue(e, d)
      /\ ~LiveDue /\ ~ApiDue /\ ~UnregisterDue /\ PcpJobs /\ EmJobs
  BY <1>1 DEF ResponseDue, RequestDue, RegisterDue, LiveDue, ApiDue, UnregisterDue, PcpJobs, EmJobs
<1>7. Links
  BY <1>1, <1>6
  DEF Links, OwnInv, HandlerInv, WorkerInv, WorkersDone, NewInv, New, Fresh, RegInv, BarrierInv
<1>8. ConnInv /\ EmInv /\ HeardInv
  BY <1>1, <1>6
  DEF ConnInv, ConnOf, IsConnected, Accepting, EmInv, HeardInv, Unheard, RemoteAnswerOwn
<1>9. \A c \in Chan : c # 0
  BY MaxChanAssumption DEF Chan
<1>10. KeyInv /\ CtxInv /\ LeftInv /\ CallInv
  BY <1>1, <1>6, <1>9
  DEF KeyInv, IsConnected, Accepting, CtxInv, LeftInv, CallInv, InRemoval, InAccept, Removing
<1> QED
  BY <1>1, <1>3, <1>4, <1>5, <1>6, <1>7, <1>8, <1>10 DEF Full, Types, Connection, Crashed

\* The invariant implies the properties.
LEMMA FullSafe ==
  ASSUME Full
  PROVE  Safe
<1>1. TypeOK
  <2>1. PICK S : S = [e : Endpoint, in : BOOLEAN]
    OBVIOUS
  <2>2. chan \in Seq(S)
    BY <2>1 DEF Full, Types, ChanType
  <2>3. \A c \in 1..Len(chan) : chan[c] \in S
    BY <2>2
  <2>4. 1..Len(chan) \subseteq Chan
    BY Accessors DEF Full
  <2> QED
    BY <2>1, <2>3, <2>4, Accessors DEF TypeOK, Full, Types, ChanType, MapType
<1>2. RemoteAnswerOwn /\ OneWorkerSet
  BY DEF Full, Connection, HeardInv, Links, WorkerInv, OneWorkerSet
<1>3. ConnectedKey
  BY DEF Full, Connection, ConnInv, ConnOf, EmInv, KeyInv, ConnectedKey, IsConnected
<1>4. NotEncryptedEarly
  BY DEF Full, Connection, CtxInv, Accepting, NotEncryptedEarly
<1>5. NothingLeft
  <2> SUFFICES ASSUME pcp = Idle, pcpQ = <<>>, em = Idle, emQ = <<>>, \A c \in Chan : WorkersDone(c),
                      NEW e \in Endpoint
               PROVE  ecm[e] = NoEntry /\ state[e] = 0 /\ conn[e] = NoConn
    BY DEF NothingLeft
  <2>1. em.k = "idle" /\ ~RemovalDue(e)
    BY DEF Idle, RemovalDue
  <2>2. state[e] = 0
    BY <2>1, Accessors DEF Full, Links, WorkerInv, WorkersDone, Connection, LeftInv
  <2>3. ecm[e] = NoEntry
    BY <2>1, <2>2 DEF Full, Connection, LeftInv
  <2>4. conn[e].chan = 0 /\ conn[e].bits = {}
    BY <2>2 DEF Full, Connection, ConnInv, ConnOf
  <2>5. conn[e] \in [bits : SUBSET Bits, chan : Ref]
    BY DEF Full, Types, MapType
  <2>6. conn[e] = NoConn
    BY <2>4, <2>5 DEF NoConn
  <2> QED
    BY <2>2, <2>3, <2>6
<1> QED
  BY <1>1, <1>2, <1>3, <1>4, <1>5 DEF Safe

\* A crash changes where the PCP handler thread is and its queue, and nothing else; where the
\* channel was looked up again it is not there.
LEMMA CrashSafe ==
  ASSUME Full, Next, Crashed'
  PROVE  Safe'
<1>1. /\ UNCHANGED <<chan, closed, runner, pending, ukey2, moved, conn, asked, ecm, state, reader,
                     keep, heard, future>>
      /\ pcp = Idle \/ (pcp.k = "accepting" /\ ecm[pcp.e].chan = 0)
  <2>1. ~Crashed /\ pcp'.k = "crashed"
    BY PcpFields DEF Crashed, Full, Types
  <2>2. pcp' # pcp /\ pcp' # Idle
    BY <2>1 DEF Crashed, Idle
  <2>3. CASE PcpNext
    <3>1. CASE RequestConnection \/ OnEndpointDisconnect
      BY <2>2, <3>1 DEF RequestConnection, OnEndpointDisconnect
    <3>2. CASE RegisterEndpoint
      BY <2>1, <3>2 DEF RegisterEndpoint
    <3>3. CASE OnEncryptionSuccess
      BY <2>1, <3>3 DEF OnEncryptionSuccess, NextJob, chans, client, workers, caller
    <3>4. CASE OnEncryptionFailure
      BY <2>2, <3>4 DEF OnEncryptionFailure, NextJob, client, workers, caller
    <3>a. ASSUME NEW e, NEW bits, NEW x, NEW c, EvaluateConnectionResult(e, bits, x, c)
          PROVE  FALSE
      <4>1. pcp' = pcp \/ pcp' = [k |-> "accepting", e |-> e, c |-> c]
        BY <3>a, Zenon DEF EvaluateConnectionResult
      <4> QED
        BY <2>1, <2>2, <4>1
    <3>5. CASE AnswerConnection
      <4>1. \E e, bits, x : EvaluateConnectionResult(e, bits, x, 0) \/ pcp' = pcp
        BY <3>5 DEF AnswerConnection
      <4> QED
        BY <2>2, <3>a, <4>1
    <3>6. CASE OnConnectionResponse
      <4>1. \E e, bits, x, c : EvaluateConnectionResult(e, bits, x, c) \/ pcp' = pcp
        BY <3>6, Zenon DEF OnConnectionResponse
      <4> QED
        BY <2>2, <3>a, <4>1
    <3>7. CASE OnConnectionAccepted
      BY <2>2, <3>7 DEF OnConnectionAccepted, chans, pcpVars
    <3> QED
      BY <2>3, <3>1, <3>2, <3>3, <3>4, <3>5, <3>6, <3>7 DEF PcpNext
  <2>4. CASE EmNext
    BY <2>2, <2>4 DEF EmNext, RegisterJob, RegisterDuplicate, StartWorkers, RemoveJob, UnregisterChannel,
      NotifyProcessors, BarrierTimeout, OnDisconnected, RemoveEndpointState, WorkersJoined
  <2>5. CASE EnvNext
    <3>1. ASSUME NEW e \in Endpoint, BreakTie(e)
          PROVE  /\ UNCHANGED <<chan, closed, runner, pending, ukey2, moved, conn, asked, ecm, state,
                                reader, keep, heard, future>>
                 /\ pcp = Idle
      BY <2>2, <3>1 DEF BreakTie, chans, workers, caller
    <3>2. ASSUME NEW e \in Endpoint, CallRequest(e) \/ CallDisconnect(e) \/ DelayedClose(e)
                                       \/ OnIncomingConnection(e)
          PROVE  FALSE
      BY <2>2, <3>2 DEF CallRequest, CallDisconnect, DelayedClose, OnIncomingConnection
    <3>3. ASSUME NEW c \in Chan, NEW a,
                 CallAnswer(c, a) \/ ReadResponse(c, a) \/ EncryptionEnds(c, a) \/ PeerCloses(c)
          PROVE  FALSE
      BY <2>2, <3>3 DEF CallAnswer, ReadResponse, EncryptionEnds, PeerCloses
    <3> QED
      BY <2>5, <3>1, <3>2, <3>3 DEF EnvNext
  <2>6. ASSUME NEW c \in Chan, WorkerNext(c) PROVE FALSE
    BY <2>2, <2>6 DEF WorkerNext, HandleResponse, ReaderEnds, KeepAliveEnds
  <2> QED
    BY <2>3, <2>4, <2>5, <2>6 DEF Next
<1>2. Safe
  BY FullSafe
<1>3. TypeOK' /\ RemoteAnswerOwn' /\ OneWorkerSet' /\ ConnectedKey'
  BY <1>1, <1>2 DEF Safe, TypeOK, RemoteAnswerOwn, OneWorkerSet, WorkersDone, ConnectedKey, IsConnected
<1>4. NotEncryptedEarly'
  BY <1>1, <1>2 DEF Safe, NotEncryptedEarly, IsConnected, Idle
<1>5. NothingLeft'
  BY DEF NothingLeft, Crashed, Idle
<1> QED
  BY <1>3, <1>4, <1>5 DEF Safe

\* Every step that does not crash the program keeps the invariant.
LEMMA NextFull ==
  ASSUME Full, Next, ~Crashed'
  PROVE  Full'
<1>1. CASE PcpNext
  BY <1>1, RequestConnectionKeeps, OnEncryptionSuccessKeeps, RegisterEndpointKeeps,
     OnEncryptionFailureKeeps, AnswerConnectionKeeps, OnConnectionResponseKeeps,
     OnConnectionAcceptedKeeps, OnEndpointDisconnectKeeps, Zenon DEF PcpNext
<1>2. CASE EmNext
  BY <1>2, RegisterJobKeeps, RegisterDuplicateKeeps, RemoveJobKeeps, UnregisterChannelKeeps,
     NotifyProcessorsKeeps, BarrierTimeoutKeeps, OnDisconnectedKeeps, RemoveEndpointStateKeeps,
     WorkersJoinedKeeps, Zenon DEF EmNext
<1>3. CASE \E e \in Endpoint : \/ CallRequest(e) \/ CallDisconnect(e) \/ DelayedClose(e)
                               \/ OnIncomingConnection(e) \/ BreakTie(e)
  BY <1>3, CallRequestKeeps, CallDisconnectKeeps, DelayedCloseKeeps, OnIncomingConnectionKeeps,
     BreakTieKeeps, Zenon
<1>4. CASE \E c \in Chan : \/ \E a \in Local : CallAnswer(c, a)
                           \/ \E a \in Remote : ReadResponse(c, a)
                           \/ \E o \in {"encrypted", "failed"} : EncryptionEnds(c, o)
                           \/ PeerCloses(c)
  BY <1>4, CallAnswerKeeps, ReadResponseKeeps, EncryptionEndsKeeps, PeerClosesKeeps, Zenon
<1>5. CASE \E c \in Chan : WorkerNext(c)
  BY <1>5, HandleResponseKeeps, ReaderEndsKeeps, KeepAliveEndsKeeps, Zenon DEF WorkerNext
<1> QED
  BY <1>1, <1>2, <1>3, <1>4, <1>5, Zenon DEF Next, EnvNext, Local, Remote

\* A step that changes nothing keeps the invariant.
LEMMA StutterKeeps ==
  ASSUME IInv, UNCHANGED vars
  PROVE  IInv'
<1>1. UNCHANGED <<chan, closed, runner, pending, ukey2, moved, conn, asked, told, ecm, state,
                  reader, keep, heard, pcp, pcpQ, em, emQ, api, future>>
  BY DEF vars, chans, pcpVars, client, workers, caller
<1>2. Crashed' <=> Crashed
  BY <1>1 DEF Crashed
<1>3. Full => Full'
  <2> SUFFICES ASSUME Full PROVE Full'
    OBVIOUS
  <2>1. Types'
    BY <1>1 DEF Full, Types, ChanType, MapType, QueueType, ThreadType
  <2>2. PcpJobs' /\ EmJobs'
    BY <1>1 DEF Full, PcpJobs, EmJobs, Own
  <2>3. Links'
    BY <1>1 DEF Full, Links, OwnInv, Own, HandlerInv, ResponseDue, WorkerInv, WorkersDone, Fresh,
      NewInv, New, RegInv, RegisterDue, Registers, BarrierInv, LiveDue
  <2>4. ConnInv' /\ EmInv' /\ HeardInv' /\ CallInv'
    BY <1>1 DEF Full, Connection, ConnInv, ConnOf, IsConnected, Accepting, RequestDue, EmInv,
      HeardInv, Unheard, ResponseDue, RemoteAnswerOwn, CallInv, ApiDue, UnregisterDue, InRemoval, InAccept
  <2>5. KeyInv' /\ CtxInv' /\ LeftInv'
    BY <1>1 DEF Full, Connection, KeyInv, KeyDue, IsConnected, Accepting, CtxInv, RemovalFirst,
      RemovalDue, LeftInv
  <2> QED
    BY <2>1, <2>2, <2>3, <2>4, <2>5 DEF Full, Connection
<1>4. Safe'
  BY <1>1
  DEF IInv, Safe, TypeOK, RemoteAnswerOwn, OneWorkerSet, WorkersDone, ConnectedKey, IsConnected,
    NotEncryptedEarly, NothingLeft
<1> QED
  BY <1>2, <1>3, <1>4 DEF IInv

\* IInv is an invariant of the specification.  No step follows a crash.
THEOREM Invariance == Spec => []IInv
<1>1. Init => IInv
  BY InitFull, FullSafe DEF IInv
<1>2. IInv /\ [Next]_vars => IInv'
  <2>1. ASSUME IInv, Next PROVE IInv'
    <3>1. Full
      BY <2>1 DEF IInv, Next, Crashed
    <3>2. CASE Crashed'
      BY <2>1, <3>1, <3>2, CrashSafe DEF IInv
    <3>3. CASE ~Crashed'
      <4>1. Full'
        BY <2>1, <3>1, <3>3, NextFull
      <4>2. Safe'
        BY <4>1, FullSafe, PTL
      <4> QED
        BY <4>1, <4>2 DEF IInv
    <3> QED
      BY <3>2, <3>3
  <2> QED
    BY <2>1, StutterKeeps
<1> QED
  BY <1>1, <1>2, PTL DEF Spec

\* The state of every channel and every map is within its type.
THEOREM TypeCorrect == Spec => []TypeOK
BY Invariance, PTL DEF IInv, Safe

\* The remote answer on record for a connection was read from that connection's channel, so an
\* old reader never answers for a new connection (endpoint_manager.cc, RegisterEndpoint).
THEOREM AnswersOwn == Spec => []RemoteAnswerOwn
BY Invariance, PTL DEF IInv, Safe

\* Whoever reads from or pings a channel belongs to the EndpointState of its endpoint.
THEOREM WorkersOne == Spec => []OneWorkerSet
BY Invariance, PTL DEF IInv, Safe

\* A connected client talks through its own channel, encrypted with that channel's own key,
\* although the encryption callback names only the endpoint (base_pcp_handler.cc).
THEOREM KeysOwn == Spec => []ConnectedKey
BY Invariance, PTL DEF IInv, Safe

\* A channel in the ECM is encrypted only once both sides have accepted the connection.
THEOREM EncryptedAfterAcceptance == Spec => []NotEncryptedEarly
BY Invariance, PTL DEF IInv, Safe

\* When all threads are idle and all workers have ended, nothing is left of any endpoint.
THEOREM NothingRemains == Spec => []NothingLeft
BY Invariance, PTL DEF IInv, Safe

-----------------------------------------------------------------------------
(* Announcements.                                                          *)

\* No channel is announced in this step.
Quiet == \A c \in Chan : told'[c] = "initiated" => told[c] = "initiated"

\* The other callbacks of the client announce nothing.
LEMMA CallbackQuiet ==
  ASSUME Types, NEW e, NEW w \in {"accepted", "rejected", "disconnected"},
         told' = told \/ told' = [told EXCEPT ![conn[e].chan] = w]
  PROVE  Quiet
BY DEF Types, MapType, Quiet

\* Neither does an evaluation of the two answers.
LEMMA EvaluationQuiet ==
  ASSUME Types, NEW e, NEW bits, NEW x, NEW c, EvaluateConnectionResult(e, bits, x, c)
  PROVE  Quiet
<1>1. told' = told \/ told' = [told EXCEPT ![conn[e].chan] = "rejected"]
  BY Zenon DEF EvaluateConnectionResult, OnConnectionRejected
<1> QED
  BY <1>1, CallbackQuiet

\* The PCP handler thread announces nothing.
LEMMA PcpQuiet ==
  ASSUME Types, PcpNext
  PROVE  Quiet
<1>1. CASE RequestConnection \/ OnEncryptionSuccess \/ RegisterEndpoint \/ OnEncryptionFailure
  BY <1>1 DEF RequestConnection, OnEncryptionSuccess, RegisterEndpoint, OnEncryptionFailure, client, Quiet
<1>2. CASE AnswerConnection
  <2>1. \/ told' = told
        \/ \E e : told' = [told EXCEPT ![conn[e].chan] = "rejected"]
        \/ \E e, bits, x : EvaluateConnectionResult(e, bits, x, 0)
    BY <1>2, Zenon DEF AnswerConnection, OnConnectionRejected
  <2> QED
    BY <2>1, CallbackQuiet, EvaluationQuiet
<1>3. CASE OnConnectionResponse
  <2>1. told' = told \/ \E e, bits, x, c : EvaluateConnectionResult(e, bits, x, c)
    BY <1>3, Zenon DEF OnConnectionResponse
  <2> QED
    BY <2>1, CallbackQuiet, EvaluationQuiet
<1>4. CASE OnConnectionAccepted
  <2>1. told' = told \/ told' = [told EXCEPT ![conn[pcp.e].chan] = "accepted"]
    BY <1>4, Zenon DEF OnConnectionAccepted
  <2> QED
    BY <2>1, CallbackQuiet
<1>5. CASE OnEndpointDisconnect
  <2>1. \E e : told' = told \/ told' = [told EXCEPT ![conn[e].chan] = "rejected"]
    BY <1>5, Zenon DEF OnEndpointDisconnect, OnConnectionRejected
  <2> QED
    BY <2>1, CallbackQuiet
<1> QED
  BY <1>1, <1>2, <1>3, <1>4, <1>5 DEF PcpNext

\* Neither do the callers, the peers and the workers.
LEMMA EnvQuiet ==
  ASSUME Types, EnvNext \/ \E c \in Chan : WorkerNext(c)
  PROVE  Quiet
<1>1. ASSUME NEW e \in Endpoint, BreakTie(e) PROVE Quiet
  <2>1. told' = told \/ told' = [told EXCEPT ![conn[e].chan] = "rejected"]
    BY <1>1, Zenon DEF BreakTie, OnConnectionRejected
  <2> QED
    BY <2>1, CallbackQuiet
<1>2. ASSUME NEW e \in Endpoint, CallRequest(e) \/ CallDisconnect(e) \/ DelayedClose(e)
                                   \/ OnIncomingConnection(e)
      PROVE  Quiet
  BY <1>2 DEF CallRequest, CallDisconnect, DelayedClose, OnIncomingConnection, client, Quiet
<1>3. ASSUME NEW c \in Chan, NEW a,
             CallAnswer(c, a) \/ ReadResponse(c, a) \/ EncryptionEnds(c, a) \/ PeerCloses(c)
      PROVE  Quiet
  BY <1>3 DEF CallAnswer, ReadResponse, EncryptionEnds, PeerCloses, client, Quiet
<1>4. ASSUME NEW c \in Chan, WorkerNext(c) PROVE Quiet
  BY <1>4 DEF WorkerNext, HandleResponse, ReaderEnds, KeepAliveEnds, client, Quiet
<1> QED
  BY <1>1, <1>2, <1>3, <1>4 DEF EnvNext

\* Workers are started for a fresh channel of an endpoint the client has no connection to.
LEMMA StartAnnounces ==
  ASSUME Full, NEW x \in Endpoint, NEW d \in Ref, Registers(x, d), StartWorkers(x, d)
  PROVE  \A c \in Chan : told[c] # "initiated" /\ told'[c] = "initiated" => conn[chan[c].e] = NoConn
<1>1. d # 0 /\ Own(d, x) /\ conn[x].chan = 0
  BY DEF Registers, Full, Links, RegInv, OwnInv, NewInv, New
<1>2. conn[x] \in [bits : SUBSET Bits, chan : Ref] /\ conn[x].bits = {}
  BY <1>1 DEF Full, Types, MapType, Connection, ConnInv, ConnOf
<1>3. conn[x] = NoConn /\ chan[d].e = x
  BY <1>1, <1>2 DEF NoConn, Own
<1>4. \A c \in Chan : told[c] # "initiated" /\ told'[c] = "initiated" => c = d
  BY DEF StartWorkers, Full, Types, MapType
<1> QED
  BY <1>3, <1>4

\* OnConnectionInitiated finds no entry of the endpoint in connections_ (DCHECK(inserted) in
\* client_proxy.cc): a new channel is announced only when the client has no connection to it.
THEOREM AnnouncementsOnce == Spec => AnnouncedOnce
<1> DEFINE A == \A c \in Chan : told[c] = "none" /\ told'[c] = "initiated" => conn[chan[c].e] = NoConn
<1>1. IInv /\ [Next]_vars => [A]_vars
  <2> SUFFICES ASSUME IInv, Next PROVE A
    OBVIOUS
  <2>1. Full /\ Types
    BY DEF IInv, Next, Crashed, Full
  <2>2. Quiet => A
    BY DEF Quiet
  <2>3. CASE EmNext
    <3>1. CASE RegisterJob
      <4>1. /\ em = Idle /\ emQ # <<>> /\ emQ' = Tail(emQ) /\ Head(emQ).k = "register"
            /\ told' = told \/ StartWorkers(Head(emQ).e, Head(emQ).c)
        BY <3>1, Zenon DEF RegisterJob, NextEmJob
      <4>2. PICK j : j = Head(emQ)
        OBVIOUS
      <4>3. j.e \in Endpoint /\ j.c \in Ref /\ RegisterDue(j.e, j.c)
        BY <2>1, <4>1, <4>2, EmTaken, EmJobFields DEF Full, Types
      <4>4. Registers(j.e, j.c)
        BY <2>1, <4>3 DEF Full, Links, RegInv
      <4>5. CASE told' = told
        BY <4>5
      <4>6. CASE StartWorkers(j.e, j.c)
        BY <2>1, <4>3, <4>4, <4>6, StartAnnounces
      <4> QED
        BY <4>1, <4>2, <4>5, <4>6
    <3>2. CASE RegisterDuplicate
      <4>1. em.k = "duplicate" /\ StartWorkers(em.e, em.c)
        BY <3>2 DEF RegisterDuplicate
      <4>2. em.e \in Endpoint /\ em.c \in Ref /\ Registers(em.e, em.c)
        BY <2>1, <4>1, EmFields, Accessors DEF Full, Types, Links, RegInv
      <4> QED
        BY <2>1, <4>1, <4>2, StartAnnounces
    <3>3. CASE OnDisconnected
      <4>1. told' = told \/ told' = [told EXCEPT ![conn[em.e].chan] = "disconnected"]
        BY <3>3, Zenon DEF OnDisconnected
      <4> QED
        BY <2>1, <2>2, <4>1, CallbackQuiet
    <3>4. CASE RemoveJob \/ UnregisterChannel \/ NotifyProcessors \/ BarrierTimeout
                 \/ RemoveEndpointState \/ WorkersJoined
      BY <3>4 DEF RemoveJob, UnregisterChannel, NotifyProcessors, BarrierTimeout, RemoveEndpointState,
        WorkersJoined, client
    <3> QED
      BY <2>3, <3>1, <3>2, <3>3, <3>4 DEF EmNext
  <2> QED
    BY <2>1, <2>2, <2>3, PcpQuiet, EnvQuiet DEF Next
<1> QED
  BY <1>1, Invariance, PTL DEF Spec, AnnouncedOnce
=============================================================================
