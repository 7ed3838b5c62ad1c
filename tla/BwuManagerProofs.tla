-------------------------- MODULE BwuManagerProofs --------------------------
(***************************************************************************)
(* Proofs about BwuManager, for any number of upgrades and payload frames, *)
(* with and without late writes, faults and acknowledged introductions.    *)
(*                                                                         *)
(* There is one new socket, hence at most one LAST_WRITE of each device.   *)
(* The invariant follows it (Turn): the device has not replaced its        *)
(* channel yet, is about to write LAST_WRITE, LAST_WRITE is on its way,    *)
(* queued or remembered at the peer, the peer's SAFE_TO_CLOSE is on its    *)
(* way or queued, the device drains the old channel.  It is in one of      *)
(* these places at most (TurnInv).  A device that has not replaced its     *)
(* channel has not answered LAST_WRITE, so that the peer's new channel is  *)
(* still paused, or closed (AgreedInv).                                    *)
(*                                                                         *)
(* Without late writes and faults the frames stay in order and none is     *)
(* lost.  Until the new socket only the old channel is used, numbered      *)
(* without a gap (Quiet), or both devices have offered the upgrade at once *)
(* and have closed it (Torn); afterwards the old channel's frames, the     *)
(* peer's DISCONNECTION and the new channel's frames continue each other   *)
(* (Moving), since a device resumes the new channel only after the peer    *)
(* has answered LAST_WRITE and so writes on the old one no more.           *)
(***************************************************************************)
EXTENDS BwuManager, FiniteSetTheorems, TLAPS

Frame == [k : Kinds, s : Nat]
Job   == {"init", "path", "incoming", "fail", "lastWrite", "safeToClose", "removed"}

NetType ==
  /\ wire \in [Channel -> [Device -> Seq(Frame)]]
  /\ shut \subseteq Channel \X Device
  /\ enc \in [Device -> Nat] /\ plain \subseteq Device
  /\ intro \in {"none", "connected", "posted", "acked", "dead"}
  /\ dialer \in Device \cup {"none"}

DeviceType ==
  /\ dec \in [Device -> Nat] /\ paused \subseteq Device
  /\ active \in [Device -> Channel \cup {"none"}]
  /\ prev \in [Device -> {"none", "null", "old"}]
  /\ upgraded \subseteq Device /\ progress \subseteq Device
  /\ reader \in [Device -> Channel \cup {"gone"}]
  /\ writer \in [Device -> Channel \cup {"idle", "over"}]

ThreadType ==
  /\ bwu \in [Device -> {"idle", "awaitAck", "lastWrite", "draining", "crashed"}]
  /\ bwuQ \in [Device -> Seq(Job)]
  /\ tries \in 0..MaxTries

Types == NetType /\ DeviceType /\ ThreadType

OnWire(c, d, k)   == \E i \in 1..Len(wire[c][d]) : wire[c][d][i].k = k
WireOnce(c, d, k) == \A i, j \in 1..Len(wire[c][d]) : wire[c][d][i].k = k /\ wire[c][d][j].k = k => i = j
Queued(d, k)      == \E i \in 1..Len(bwuQ[d]) : bwuQ[d][i] = k
QueuedOnce(d, k)  == \A i, j \in 1..Len(bwuQ[d]) : bwuQ[d][i] = k /\ bwuQ[d][j] = k => i = j

\* The number of payload frames among the frames of q.
Count(q) == Cardinality(PayloadFrames(q))

\* No payload frame is received that was not written.
DataInv ==
  /\ sent \in [Device -> 0..MaxData] /\ got \in [Device -> Nat]
  /\ \A d \in Device : writer[d] \in Channel => sent[d] < MaxData
  /\ \A d \in Device : got[d] + Count(wire["old"][d]) + Count(wire["new"][d]) <= sent[Peer(d)]

\* The device has yet to replace its channel by the new one.
Start(d) ==
  \/ intro = "none" \/ (intro = "connected" /\ dialer # d)
  \/ Queued(d, "incoming") \/ bwu[d] = "awaitAck"
IntroInv ==
  /\ intro # "none" => dialer \in Device
  /\ \A d \in Device : bwu[d] = "awaitAck" => intro # "none" /\ dialer = d
  /\ \A d \in Device : Queued(d, "incoming") => intro \notin {"none", "connected"} /\ dialer = Peer(d)
  /\ \A d \in Device : QueuedOnce(d, "incoming")

\* Where LAST_WRITE of d, or the peer's answer to it, is.
Turn(d, n) ==
  \/ n = 0 /\ Start(d)
  \/ n = 1 /\ bwu[d] = "lastWrite"
  \/ n = 2 /\ OnWire("old", Peer(d), "lastWrite")
  \/ n = 3 /\ Queued(Peer(d), "lastWrite")
  \/ n = 4 /\ Peer(d) \in upgraded
  \/ n = 5 /\ OnWire("old", d, "safeToClose")
  \/ n = 6 /\ Queued(d, "safeToClose")
  \/ n = 7 /\ bwu[d] = "draining"
TurnInv ==
  /\ \A d \in Device : \A m, n \in 0..7 : Turn(d, m) /\ Turn(d, n) => m = n
  /\ \A d \in Device : \A k \in {"lastWrite", "safeToClose"} :
       WireOnce("old", d, k) /\ QueuedOnce(d, k) /\ ~OnWire("new", d, k)

\* While d has its old channel, nothing is written on the new one but what ends it.
Barred(d) == d \in paused \/ Closed("new", d)
AgreedInv ==
  \A d \in Device :
    /\ bwu[d] = "lastWrite" => active[d] # "old"
    /\ writer[d] = "new" => active[d] # "old"
    /\ active[d] = "old" =>
         /\ prev[d] # "old" /\ ~OnWire("new", d, "data")
         /\ active[Peer(d)] = "new" \/ writer[Peer(d)] = "new" => Barred(Peer(d))
         /\ bwu[Peer(d)] # "draining" /\ ~Queued(Peer(d), "safeToClose")
         /\ ~OnWire("old", Peer(d), "safeToClose")

IInv == Types /\ DataInv /\ IntroInv /\ TurnInv /\ AgreedInv

-----------------------------------------------------------------------------
(* Devices, queues and wires.                                              *)

\* Each device is the other's peer.
LEMMA Peers ==
  \A d \in Device : /\ Peer(d) \in Device /\ Peer(d) # d /\ Peer(Peer(d)) = d
                    /\ \A p \in Device : p = d \/ p = Peer(d)
<1>1. "a" \in Device /\ "b" \in Device /\ "a" # "b" /\ \A d \in Device : d = "a" \/ d = "b"
  BY DEF Device
<1>2. \A d \in Device : \E p \in Device : p # d
  BY <1>1
<1>3. \A d \in Device : Peer(d) \in Device /\ Peer(d) # d
  BY <1>2 DEF Peer
<1> QED
  BY <1>1, <1>3

\* Appending to a sequence.
LEMMA SeqAdd ==
  ASSUME NEW S, NEW q \in Seq(S), NEW x \in S, NEW r, r = Append(q, x)
  PROVE  /\ r \in Seq(S) /\ Len(q) \in Nat /\ Len(r) = Len(q) + 1 /\ r[Len(q) + 1] = x
         /\ \A n \in 1..Len(q) : r[n] = q[n]
OBVIOUS

\* Taking the head of a sequence.
LEMMA SeqTake ==
  ASSUME NEW S, NEW q \in Seq(S), q # <<>>, NEW r, r = Tail(q)
  PROVE  /\ r \in Seq(S) /\ Len(q) \in Nat /\ Len(q) >= 1 /\ Len(r) = Len(q) - 1
         /\ Head(q) = q[1] /\ Head(q) \in S
         /\ \A n \in 1..Len(r) : r[n] = q[n + 1]
<1>1. Len(q) \in Nat /\ Len(q) # 0
  OBVIOUS
<1>2. r \in Seq(S) /\ Len(r) = Len(q) - 1 /\ Head(q) = q[1] /\ Head(q) \in S
  BY <1>1
<1>3. \A n \in 1..Len(r) : r[n] = q[n + 1]
  BY <1>1, <1>2
<1> QED
  BY <1>1, <1>2, <1>3

\* Putting an element in front of a sequence.
LEMMA SeqFront ==
  ASSUME NEW S, NEW q \in Seq(S), NEW x \in S, NEW r, r = <<x>> \o q
  PROVE  /\ r \in Seq(S) /\ Len(q) \in Nat /\ Len(r) = Len(q) + 1 /\ r[1] = x
         /\ \A n \in 1..Len(q) : r[n + 1] = q[n]
<1>1. <<x>> \in Seq(S) /\ Len(<<x>>) = 1 /\ <<x>>[1] = x /\ Len(q) \in Nat
  OBVIOUS
<1>2. PICK h : h = <<x>>
  OBVIOUS
<1>3. h \in Seq(S) /\ Len(h) = 1 /\ h[1] = x /\ r = h \o q
  BY <1>1, <1>2
<1>4. /\ r \in Seq(S) /\ Len(r) = 1 + Len(q)
      /\ \A n \in 1..(1 + Len(q)) : r[n] = IF n <= 1 THEN h[n] ELSE q[n - 1]
  BY <1>1, <1>3
<1> QED
  BY <1>1, <1>3, <1>4

\* The payload frames of a sequence are finitely many.
LEMMA CountType ==
  ASSUME NEW S, NEW q \in Seq(S)
  PROVE  IsFiniteSet(PayloadFrames(q)) /\ Count(q) \in Nat
<1>1. Len(q) \in Nat
  OBVIOUS
<1>2. IsFiniteSet(1..Len(q))
  BY <1>1, FS_Interval
<1>3. PayloadFrames(q) \in SUBSET (1..Len(q))
  BY DEF PayloadFrames
<1> QED
  BY <1>2, <1>3, FS_Subset, FS_CardinalityType DEF Count

\* An appended frame counts if it is a payload frame.
LEMMA CountAdd ==
  ASSUME NEW S, NEW q \in Seq(S), NEW x \in S, NEW r, r = Append(q, x)
  PROVE  Count(r) = IF x.k = "data" THEN Count(q) + 1 ELSE Count(q)
<1>1. /\ Len(q) \in Nat /\ Len(r) = Len(q) + 1 /\ r[Len(q) + 1] = x
      /\ \A n \in 1..Len(q) : r[n] = q[n]
  BY SeqAdd
<1>2. PayloadFrames(r) = IF x.k = "data" THEN PayloadFrames(q) \cup {Len(q) + 1} ELSE PayloadFrames(q)
  BY <1>1 DEF PayloadFrames
<1>3. Len(q) + 1 \notin PayloadFrames(q)
  BY <1>1 DEF PayloadFrames
<1> QED
  BY <1>2, <1>3, CountType, FS_AddElement DEF Count

\* What is read no longer counts.
LEMMA CountTake ==
  ASSUME NEW S, NEW q \in Seq(S), q # <<>>, NEW r, r = Tail(q)
  PROVE  Count(r) + (IF Head(q).k = "data" THEN 1 ELSE 0) = Count(q)
<1>1. /\ r \in Seq(S) /\ Len(q) \in Nat /\ Len(q) >= 1 /\ Len(r) = Len(q) - 1 /\ Head(q) = q[1]
      /\ \A n \in 1..Len(r) : r[n] = q[n + 1]
  BY SeqTake
<1> DEFINE T == PayloadFrames(q) \ {1}
           f == [n \in PayloadFrames(r) |-> n + 1]
<1>2. \A n \in PayloadFrames(r) : n \in Nat /\ n + 1 \in T
  BY <1>1 DEF PayloadFrames
<1>3. f \in Injection(PayloadFrames(r), T)
  <2>1. f \in [PayloadFrames(r) -> T]
    BY <1>2
  <2>2. \A m, n \in PayloadFrames(r) : f[m] = f[n] => m = n
    BY <1>2
  <2> QED
    BY <2>1, <2>2 DEF Injection, IsInjective
<1>4. f \in Surjection(PayloadFrames(r), T)
  <2>1. ASSUME NEW t \in T PROVE \E n \in PayloadFrames(r) : f[n] = t
    <3>1. t \in 1..Len(q) /\ t # 1 /\ q[t].k = "data"
      BY <2>1 DEF PayloadFrames
    <3>2. t - 1 \in 1..Len(r) /\ (t - 1) + 1 = t
      BY <1>1, <3>1
    <3>3. t - 1 \in PayloadFrames(r)
      BY <1>1, <3>1, <3>2 DEF PayloadFrames
    <3> QED
      BY <3>2, <3>3
  <2>2. f \in [PayloadFrames(r) -> T]
    BY <1>2
  <2> QED
    BY <2>1, <2>2 DEF Surjection
<1>5. IsFiniteSet(T) /\ Cardinality(T) = IF 1 \in PayloadFrames(q) THEN Count(q) - 1 ELSE Count(q)
  BY CountType, FS_RemoveElement DEF Count
<1>6. 1 \in PayloadFrames(q) <=> Head(q).k = "data"
  BY <1>1 DEF PayloadFrames
<1> HIDE DEF T, f
<1>7. Count(r) = Cardinality(T)
  BY <1>3, <1>4, <1>5, FS_Injection DEF Count
<1>8. Count(r) \in Nat /\ Count(q) \in Nat
  BY <1>1, CountType
<1> QED
  BY <1>5, <1>6, <1>7, <1>8

Tokens == {"lastWrite", "safeToClose"}

\* At most a frame k0 to d0 on c0 is new on the wires.
Wired(c0, d0, k0) ==
  /\ wire' \in [Channel -> [Device -> Seq(Frame)]]
  /\ \A c \in Channel, d \in Device, k \in Kinds :
       /\ OnWire(c, d, k)' => OnWire(c, d, k) \/ (c = c0 /\ d = d0 /\ k = k0)
       /\ WireOnce(c, d, k) /\ ~(c = c0 /\ d = d0 /\ k = k0 /\ OnWire(c, d, k)) => WireOnce(c, d, k)'
  /\ \A c \in Channel, d \in Device :
       Count(wire'[c][d]) <= Count(wire[c][d]) + IF k0 = "data" /\ c = c0 /\ d = d0 THEN 1 ELSE 0

\* At most a job k0 of d0 is new in the queues of the BwuManager threads.
Posted(d0, k0) ==
  /\ bwuQ' \in [Device -> Seq(Job)]
  /\ \A d \in Device, k \in Job :
       /\ Queued(d, k)' => Queued(d, k) \/ (d = d0 /\ k = k0)
       /\ QueuedOnce(d, k) /\ ~(d = d0 /\ k = k0 /\ Queued(d, k)) => QueuedOnce(d, k)'

\* The counts of all wires are numbers.
LEMMA Counts ==
  ASSUME wire \in [Channel -> [Device -> Seq(Frame)]]
  PROVE  \A c \in Channel, d \in Device : wire[c][d] \in Seq(Frame) /\ Count(wire[c][d]) \in Nat
<1>1. \A c \in Channel, d \in Device : wire[c][d] \in Seq(Frame)
  OBVIOUS
<1> QED
  BY <1>1, CountType

\* Wires that do not change.
LEMMA WireSame ==
  ASSUME NetType, UNCHANGED wire, NEW c0, NEW d0, NEW k0
  PROVE  Wired(c0, d0, k0)
<1>1. \A c \in Channel, d \in Device : Count(wire[c][d]) \in Nat
  BY Counts DEF NetType
<1> QED
  BY <1>1 DEF Wired, NetType, OnWire, WireOnce

\* Queues that do not change.
LEMMA QueueSame ==
  ASSUME ThreadType, UNCHANGED bwuQ, NEW d0, NEW k0
  PROVE  Posted(d0, k0)
BY DEF Posted, ThreadType, Queued, QueuedOnce

\* A frame is put on a wire.
LEMMA WireAdd ==
  ASSUME NetType, NEW c0 \in Channel, NEW d0 \in Device, NEW f \in Frame,
         wire' = [wire EXCEPT ![c0][d0] = Append(@, f)]
  PROVE  Wired(c0, d0, f.k)
<1>1. PICK q \in Seq(Frame) : q = wire[c0][d0]
  BY Counts DEF NetType
<1>2. PICK r : r = Append(q, f)
  OBVIOUS
<1>3. /\ r \in Seq(Frame) /\ Len(q) \in Nat /\ Len(r) = Len(q) + 1 /\ r[Len(q) + 1] = f
      /\ \A n \in 1..Len(q) : r[n] = q[n]
  BY <1>2, SeqAdd
<1>4. Count(r) = IF f.k = "data" THEN Count(q) + 1 ELSE Count(q)
  BY <1>2, CountAdd
<1>5. /\ wire'[c0][d0] = r
      /\ \A c \in Channel, d \in Device : ~(c = c0 /\ d = d0) => wire'[c][d] = wire[c][d]
      /\ wire' \in [Channel -> [Device -> Seq(Frame)]]
  BY <1>1, <1>2, <1>3 DEF NetType
<1>6. \A c \in Channel, d \in Device : Count(wire[c][d]) \in Nat
  BY Counts DEF NetType
<1>7. \A n \in 1..Len(r) : n \in 1..Len(q) \/ n = Len(q) + 1
  BY <1>3
<1>8. \A k \in Kinds :
        /\ OnWire(c0, d0, k)' => OnWire(c0, d0, k) \/ k = f.k
        /\ WireOnce(c0, d0, k) /\ ~(k = f.k /\ OnWire(c0, d0, k)) => WireOnce(c0, d0, k)'
  BY <1>1, <1>3, <1>5, <1>7 DEF OnWire, WireOnce
<1>9. \A c \in Channel, d \in Device, k \in Kinds : ~(c = c0 /\ d = d0) =>
        /\ OnWire(c, d, k)' <=> OnWire(c, d, k)
        /\ WireOnce(c, d, k)' <=> WireOnce(c, d, k)
  BY <1>5 DEF OnWire, WireOnce
<1>10. \A c \in Channel, d \in Device :
         Count(wire'[c][d]) <= Count(wire[c][d]) + IF f.k = "data" /\ c = c0 /\ d = d0 THEN 1 ELSE 0
  <2> SUFFICES ASSUME NEW c \in Channel, NEW d \in Device
               PROVE  Count(wire'[c][d]) <= Count(wire[c][d]) + IF f.k = "data" /\ c = c0 /\ d = d0 THEN 1 ELSE 0
    OBVIOUS
  <2>1. CASE c = c0 /\ d = d0
    <3>1. Count(wire'[c][d]) = Count(r) /\ Count(wire[c][d]) = Count(q) /\ Count(q) \in Nat
      BY <1>1, <1>5, <1>6, <2>1
    <3> QED
      BY <1>4, <1>6, <2>1, <3>1
  <2>2. CASE ~(c = c0 /\ d = d0)
    BY <1>5, <1>6, <2>2
  <2> QED
    BY <2>1, <2>2
<1> QED
  BY <1>5, <1>8, <1>9, <1>10 DEF Wired

\* A frame is read from a wire; if there was one of its kind, there is none now.
LEMMA WireTake ==
  ASSUME NetType, NEW c0 \in Channel, NEW d0 \in Device, wire[c0][d0] # <<>>,
         wire' = [wire EXCEPT ![c0][d0] = Tail(@)], NEW f, f = Head(wire[c0][d0])
  PROVE  /\ f \in Frame /\ f.k \in Kinds /\ f.s \in Nat
         /\ OnWire(c0, d0, f.k) /\ (WireOnce(c0, d0, f.k) => ~OnWire(c0, d0, f.k)')
         /\ \A c1, d1, k1 : Wired(c1, d1, k1)
         /\ Count(wire'[c0][d0]) + (IF f.k = "data" THEN 1 ELSE 0) <= Count(wire[c0][d0])
<1>1. PICK q \in Seq(Frame) : q = wire[c0][d0]
  BY Counts DEF NetType
<1>2. PICK r : r = Tail(q)
  OBVIOUS
<1>3. /\ r \in Seq(Frame) /\ Len(q) \in Nat /\ Len(q) >= 1 /\ Len(r) = Len(q) - 1
      /\ f = q[1] /\ f \in Frame
      /\ \A n \in 1..Len(r) : r[n] = q[n + 1]
  BY <1>1, <1>2, SeqTake
<1>4. Count(r) + (IF f.k = "data" THEN 1 ELSE 0) <= Count(q)
  <2>1. Count(r) + (IF f.k = "data" THEN 1 ELSE 0) = Count(q)
    BY <1>1, <1>2, CountTake
  <2>2. Count(q) \in Nat
    BY CountType
  <2> QED
    BY <2>1, <2>2
<1>5. /\ wire'[c0][d0] = r
      /\ \A c \in Channel, d \in Device : ~(c = c0 /\ d = d0) => wire'[c][d] = wire[c][d]
      /\ wire' \in [Channel -> [Device -> Seq(Frame)]]
  BY <1>1, <1>2, <1>3 DEF NetType
<1>6. /\ \A c \in Channel, d \in Device : Count(wire[c][d]) \in Nat
      /\ Count(r) \in Nat
  BY <1>3, Counts, CountType DEF NetType
<1>7. /\ \A n \in 1..Len(r) : n \in Nat /\ n + 1 \in 1..Len(q) /\ n + 1 # 1
      /\ 1 \in 1..Len(q)
  BY <1>3
<1>8. \A k \in Kinds :
        /\ OnWire(c0, d0, k)' => OnWire(c0, d0, k)
        /\ WireOnce(c0, d0, k) => WireOnce(c0, d0, k)'
  BY <1>1, <1>3, <1>5, <1>7 DEF OnWire, WireOnce
<1>9. \A c \in Channel, d \in Device, k \in Kinds : ~(c = c0 /\ d = d0) =>
        /\ OnWire(c, d, k)' <=> OnWire(c, d, k)
        /\ WireOnce(c, d, k)' <=> WireOnce(c, d, k)
  BY <1>5 DEF OnWire, WireOnce
<1>10. \A c \in Channel, d \in Device : Count(wire'[c][d]) <= Count(wire[c][d])
  <2> SUFFICES ASSUME NEW c \in Channel, NEW d \in Device
               PROVE  Count(wire'[c][d]) <= Count(wire[c][d])
    OBVIOUS
  <2>1. CASE c = c0 /\ d = d0
    <3>1. Count(wire'[c][d]) = Count(r) /\ Count(wire[c][d]) = Count(q) /\ Count(q) \in Nat
      BY <1>1, <1>5, <1>6, <2>1
    <3> QED
      BY <1>4, <1>6, <2>1, <3>1
  <2>2. CASE ~(c = c0 /\ d = d0)
    BY <1>5, <1>6, <2>2
  <2> QED
    BY <2>1, <2>2
<1>11. \A c1, d1, k1 : Wired(c1, d1, k1)
  <2> SUFFICES ASSUME NEW c1, NEW d1, NEW k1
               PROVE  Wired(c1, d1, k1)
    OBVIOUS
  <2>1. wire' \in [Channel -> [Device -> Seq(Frame)]]
    BY <1>5
  <2>2. \A c \in Channel, d \in Device : wire'[c][d] \in Seq(Frame)
    BY <2>1
  <2>3. \A c \in Channel, d \in Device : Count(wire'[c][d]) \in Nat
    BY <2>2, CountType
  <2>4. \A c \in Channel, d \in Device : Count(wire'[c][d]) <=
          Count(wire[c][d]) + IF k1 = "data" /\ c = c1 /\ d = d1 THEN 1 ELSE 0
    BY <1>6, <1>10, <2>3
  <2> QED
    BY <1>5, <1>8, <1>9, <2>4 DEF Wired
<1>12. OnWire(c0, d0, f.k) /\ (WireOnce(c0, d0, f.k) => ~OnWire(c0, d0, f.k)')
  BY <1>1, <1>3, <1>5, <1>7 DEF OnWire, WireOnce
<1>13. f.k \in Kinds /\ f.s \in Nat
  BY <1>3 DEF Frame
<1> QED
  BY <1>1, <1>3, <1>4, <1>5, <1>11, <1>12, <1>13

\* A job is posted.
LEMMA JobPosted ==
  ASSUME ThreadType, NEW d0 \in Device, NEW x \in Job, Post(d0, x)
  PROVE  Posted(d0, x)
<1>1. PICK q \in Seq(Job) : q = bwuQ[d0]
  BY DEF ThreadType
<1>2. PICK r : r = Append(q, x)
  OBVIOUS
<1>3. /\ r \in Seq(Job) /\ Len(q) \in Nat /\ Len(r) = Len(q) + 1 /\ r[Len(q) + 1] = x
      /\ \A n \in 1..Len(q) : r[n] = q[n]
  BY <1>2, SeqAdd
<1>4. /\ bwuQ'[d0] = r /\ \A d \in Device : d # d0 => bwuQ'[d] = bwuQ[d]
      /\ bwuQ' \in [Device -> Seq(Job)]
  BY <1>1, <1>2, <1>3 DEF ThreadType, Post
<1>5. \A n \in 1..Len(r) : n \in 1..Len(q) \/ n = Len(q) + 1
  BY <1>3
<1>6. \A k \in Job : /\ Queued(d0, k)' => Queued(d0, k) \/ k = x
                     /\ QueuedOnce(d0, k) /\ ~(k = x /\ Queued(d0, k)) => QueuedOnce(d0, k)'
  BY <1>1, <1>3, <1>4, <1>5 DEF Queued, QueuedOnce
<1>7. \A d \in Device, k \in Job : d # d0 => /\ Queued(d, k)' <=> Queued(d, k)
                                             /\ QueuedOnce(d, k)' <=> QueuedOnce(d, k)
  BY <1>4 DEF Queued, QueuedOnce
<1> QED
  BY <1>4, <1>6, <1>7 DEF Posted

\* A job is put before all others.
LEMMA JobFirst ==
  ASSUME ThreadType, NEW d0 \in Device, NEW x \in Job, bwuQ' = [bwuQ EXCEPT ![d0] = <<x>> \o @]
  PROVE  Posted(d0, x)
<1>1. PICK q \in Seq(Job) : q = bwuQ[d0]
  BY DEF ThreadType
<1>2. PICK r : r = <<x>> \o q
  OBVIOUS
<1>3. /\ r \in Seq(Job) /\ Len(q) \in Nat /\ Len(r) = Len(q) + 1 /\ r[1] = x
      /\ \A n \in 1..Len(q) : r[n + 1] = q[n]
  BY <1>2, SeqFront
<1>4. /\ bwuQ'[d0] = r /\ \A d \in Device : d # d0 => bwuQ'[d] = bwuQ[d]
      /\ bwuQ' \in [Device -> Seq(Job)]
  BY <1>1, <1>2, <1>3 DEF ThreadType
<1>5. \A n \in 1..Len(r) : n = 1 \/ (n \in Nat /\ n - 1 \in 1..Len(q) /\ r[n] = q[n - 1])
  <2> SUFFICES ASSUME NEW n \in 1..Len(r), n # 1
               PROVE  n \in Nat /\ n - 1 \in 1..Len(q) /\ r[n] = q[n - 1]
    OBVIOUS
  <2>1. n \in Nat /\ n - 1 \in 1..Len(q) /\ (n - 1) + 1 = n
    BY <1>3
  <2>2. r[(n - 1) + 1] = q[n - 1]
    BY <1>3, <2>1
  <2> QED
    BY <2>1, <2>2
<1>6. \A k \in Job : /\ Queued(d0, k)' => Queued(d0, k) \/ k = x
                     /\ QueuedOnce(d0, k) /\ ~(k = x /\ Queued(d0, k)) => QueuedOnce(d0, k)'
  <2> SUFFICES ASSUME NEW k \in Job
               PROVE  /\ Queued(d0, k)' => Queued(d0, k) \/ k = x
                      /\ QueuedOnce(d0, k) /\ ~(k = x /\ Queued(d0, k)) => QueuedOnce(d0, k)'
    OBVIOUS
  <2>1. Queued(d0, k)' => Queued(d0, k) \/ k = x
    BY <1>1, <1>3, <1>4, <1>5 DEF Queued
  <2>2. ASSUME QueuedOnce(d0, k), ~(k = x /\ Queued(d0, k)), NEW i \in 1..Len(r), NEW j \in 1..Len(r),
               r[i] = k, r[j] = k
        PROVE  i = j
    <3>1. k # x => i # 1 /\ j # 1
      BY <1>3, <2>2
    <3>2. k = x => i = 1 /\ j = 1
      BY <1>1, <1>5, <2>2 DEF Queued
    <3>3. k # x => i - 1 = j - 1 /\ i \in Nat /\ j \in Nat
      BY <1>1, <1>5, <2>2, <3>1 DEF QueuedOnce
    <3> QED
      BY <3>2, <3>3
  <2>3. QueuedOnce(d0, k) /\ ~(k = x /\ Queued(d0, k)) => QueuedOnce(d0, k)'
    BY <1>4, <2>2 DEF QueuedOnce
  <2> QED
    BY <2>1, <2>3
<1>7. \A d \in Device, k \in Job : d # d0 => /\ Queued(d, k)' <=> Queued(d, k)
                                             /\ QueuedOnce(d, k)' <=> QueuedOnce(d, k)
  BY <1>4 DEF Queued, QueuedOnce
<1> QED
  BY <1>4, <1>6, <1>7 DEF Posted

\* A job is taken from the queue, and another may be posted; if there was one of its kind,
\* there is none now.
LEMMA JobTaken ==
  ASSUME ThreadType, NEW d0 \in Device, NEW x, NextJob(d0, x),
         JobDone(d0) \/ bwuQ' = [bwuQ EXCEPT ![d0] = Append(Tail(@), "init")]
  PROVE  /\ x \in Job /\ bwu[d0] = "idle" /\ Posted(d0, "init")
         /\ Queued(d0, x) /\ (QueuedOnce(d0, x) /\ x # "init" => ~Queued(d0, x)')
<1>1. PICK q \in Seq(Job) : q = bwuQ[d0]
  BY DEF ThreadType
<1>2. PICK t : t = Tail(q)
  OBVIOUS
<1>3. q # <<>> /\ x = Head(q) /\ bwu[d0] = "idle"
  BY <1>1 DEF NextJob
<1>4. /\ t \in Seq(Job) /\ Len(q) \in Nat /\ Len(q) >= 1 /\ Len(t) = Len(q) - 1
      /\ x = q[1] /\ x \in Job /\ \A n \in 1..Len(t) : t[n] = q[n + 1]
  BY <1>2, <1>3, SeqTake
<1>5. PICK u : u = Append(t, "init")
  OBVIOUS
<1>6. /\ u \in Seq(Job) /\ Len(t) \in Nat /\ Len(u) = Len(t) + 1 /\ u[Len(t) + 1] = "init"
      /\ \A n \in 1..Len(t) : u[n] = t[n]
  <2>1. "init" \in Job
    BY DEF Job
  <2> QED
    BY <1>4, <1>5, <2>1, SeqAdd
<1>7. PICK r \in {t, u} : bwuQ'[d0] = r
  BY <1>1, <1>2, <1>5 DEF JobDone, ThreadType
<1>8. /\ \A d \in Device : d # d0 => bwuQ'[d] = bwuQ[d]
      /\ bwuQ' \in [Device -> Seq(Job)]
  BY <1>1, <1>2, <1>4, <1>5, <1>6 DEF JobDone, ThreadType
<1>9. \A n \in 1..Len(r) : \/ n \in Nat /\ n + 1 \in 1..Len(q) /\ n + 1 # 1 /\ r[n] = q[n + 1]
                           \/ r[n] = "init"
  BY <1>4, <1>6, <1>7
<1>10. \A k \in Job \ {"init"} : /\ Queued(d0, k)' => Queued(d0, k)
                                 /\ QueuedOnce(d0, k) => QueuedOnce(d0, k)'
  BY <1>1, <1>7, <1>9 DEF Queued, QueuedOnce
<1>11. QueuedOnce(d0, "init") /\ ~Queued(d0, "init") => QueuedOnce(d0, "init")'
  <2> SUFFICES ASSUME ~Queued(d0, "init"), NEW i \in 1..Len(r), NEW j \in 1..Len(r),
                      r[i] = "init", r[j] = "init"
               PROVE  i = j
    BY <1>7 DEF QueuedOnce
  <2>1. \A n \in 1..Len(t) : t[n] # "init"
    BY <1>1, <1>4 DEF Queued
  <2>2. r = u
    BY <1>7, <2>1
  <2> QED
    BY <1>6, <2>1, <2>2
<1>12. \A d \in Device, k \in Job : d # d0 => /\ Queued(d, k)' <=> Queued(d, k)
                                              /\ QueuedOnce(d, k)' <=> QueuedOnce(d, k)
  BY <1>8 DEF Queued, QueuedOnce
<1>13. Posted(d0, "init")
  BY <1>8, <1>10, <1>11, <1>12 DEF Posted
<1>14. Queued(d0, x) /\ (QueuedOnce(d0, x) /\ x # "init" => ~Queued(d0, x)')
  BY <1>1, <1>4, <1>7, <1>9 DEF Queued, QueuedOnce
<1> QED
  BY <1>3, <1>4, <1>13, <1>14

\* A frame is sent.
LEMMA Sending ==
  ASSUME NetType, NEW d0 \in Device, NEW c0 \in Channel, NEW k0 \in Kinds, NEW s \in Nat, NEW ends,
         Send(d0, c0, k0, s, ends)
  PROVE  Wired(c0, Peer(d0), k0) /\ ~Closed(c0, d0) /\ shut' = shut \cup ends /\ enc' \in [Device -> Nat]
<1>1. Peer(d0) \in Device
  BY Peers
<1>2. PICK f : f = [k |-> k0, s |-> s]
  OBVIOUS
<1>3. f \in Frame /\ f.k = k0
  BY <1>2 DEF Frame
<1>4. ~Closed(c0, d0) /\ shut' = shut \cup ends /\ enc' \in [Device -> Nat]
  BY DEF Send, NetType
<1>5. CASE Closed(c0, Peer(d0))
  <2>1. wire' = wire
    BY <1>1, <1>5 DEF Send, NetType
  <2> QED
    BY <1>4, <2>1, WireSame
<1>6. CASE ~Closed(c0, Peer(d0))
  <2>1. wire' = [wire EXCEPT ![c0][Peer(d0)] = Append(@, f)]
    BY <1>2, <1>6 DEF Send
  <2> QED
    BY <1>1, <1>3, <1>4, <2>1, WireAdd
<1> QED
  BY <1>5, <1>6

\* A frame is not sent.
LEMMA NotSending ==
  ASSUME NetType, NEW d0 \in Device, NEW c0 \in Channel, NEW s \in Nat, NEW ends,
         SendFails(d0, c0, s, ends)
  PROVE  wire' = wire /\ shut' = shut \cup ends /\ enc' \in [Device -> Nat]
BY DEF SendFails, NetType

\* A frame is encrypted and sent, or not sent.
LEMMA Writing ==
  ASSUME NetType, NEW d0 \in Device, NEW c0 \in Channel, NEW ends
  PROVE  /\ \A k0 \in Kinds : Write(d0, c0, k0, ends) =>
              Wired(c0, Peer(d0), k0) /\ ~Closed(c0, d0) /\ shut' = shut \cup ends /\ enc' \in [Device -> Nat]
         /\ WriteFails(d0, c0, ends) => wire' = wire /\ shut' = shut \cup ends /\ enc' \in [Device -> Nat]
<1>1. EncodeMessageToPeer(d0, c0) \in Nat
  BY DEF EncodeMessageToPeer, NetType
<1>2. PICK s \in Nat : s = EncodeMessageToPeer(d0, c0)
  BY <1>1
<1> QED
  BY <1>2, Sending, NotSending DEF Write, WriteFails

-----------------------------------------------------------------------------
(* What a part of the invariant depends on.                                *)

\* No payload frame is written or read.
LEMMA DataFrame ==
  ASSUME NetType, DataInv, NEW c0, NEW d0, NEW k0, k0 # "data", Wired(c0, d0, k0),
         UNCHANGED <<sent, got, writer>>
  PROVE  DataInv'
<1>1. wire' \in [Channel -> [Device -> Seq(Frame)]]
  BY DEF Wired
<1>2. \A c \in Channel, d \in Device : wire'[c][d] \in Seq(Frame)
  BY <1>1
<1>3. \A c \in Channel, d \in Device : Count(wire'[c][d]) \in Nat /\ Count(wire[c][d]) \in Nat
  BY <1>2, Counts, CountType DEF NetType
<1>4. \A c \in Channel, d \in Device : Count(wire'[c][d]) <= Count(wire[c][d])
  BY <1>3 DEF Wired
<1>5. "old" \in Channel /\ "new" \in Channel
  BY DEF Channel
<1>6. \A d \in Device : got[d] \in Nat /\ sent[Peer(d)] \in Nat
  BY Peers, BwuAssumption DEF DataInv
<1>7. \A d \in Device : got'[d] + Count(wire'["old"][d]) + Count(wire'["new"][d]) <= sent'[Peer(d)]
  BY <1>3, <1>4, <1>5, <1>6 DEF DataInv
<1> QED
  BY <1>7 DEF DataInv

\* The new socket does not change and nobody starts to wait for the acknowledgement.
LEMMA IntroFrame ==
  ASSUME IntroInv, UNCHANGED <<intro, dialer>>,
         \A d \in Device : bwu'[d] = "awaitAck" => bwu[d] = "awaitAck",
         NEW d0, NEW k0, k0 # "incoming", Posted(d0, k0)
  PROVE  IntroInv' /\ \A d \in Device : Start(d)' => Start(d)
<1>1. "incoming" \in Job
  BY DEF Job
<1>2. \A d \in Device : /\ Queued(d, "incoming")' => Queued(d, "incoming")
                        /\ QueuedOnce(d, "incoming") => QueuedOnce(d, "incoming")'
  BY <1>1 DEF Posted
<1> QED
  BY <1>2 DEF IntroInv, Start

\* No LAST_WRITE and no SAFE_TO_CLOSE moves on.
LEMMA TurnFrame ==
  ASSUME TurnInv, NEW c0, NEW d0, NEW k0, k0 \notin Tokens, Wired(c0, d0, k0),
         NEW d1, NEW k1, k1 \notin Tokens, Posted(d1, k1),
         \A d \in Device : Start(d)' => Start(d),
         \A d \in Device : bwu'[d] \in {"lastWrite", "draining"} => bwu'[d] = bwu[d],
         upgraded' \subseteq upgraded
  PROVE  TurnInv'
<1>1. /\ Tokens \subseteq Kinds /\ Tokens \subseteq Job /\ "old" \in Channel /\ "new" \in Channel
      /\ "lastWrite" \in Tokens /\ "safeToClose" \in Tokens
  BY DEF Tokens, Kinds, Job, Channel
<1>2. \A d \in Device, k \in Tokens : \A c \in Channel :
        /\ OnWire(c, d, k)' => OnWire(c, d, k)
        /\ WireOnce(c, d, k) => WireOnce(c, d, k)'
  BY <1>1 DEF Wired
<1>3. \A d \in Device, k \in Tokens :
        /\ Queued(d, k)' => Queued(d, k)
        /\ QueuedOnce(d, k) => QueuedOnce(d, k)'
  BY <1>1 DEF Posted
<1>4. \A d \in Device, n \in 0..7 : Turn(d, n)' => Turn(d, n)
  BY <1>1, <1>2, <1>3, Peers DEF Turn
<1> QED
  BY <1>1, <1>2, <1>3, <1>4 DEF TurnInv, Tokens

\* Nobody changes channels, and nobody writes payload frames on the new one.
LEMMA AgreedFrame ==
  ASSUME AgreedInv, NEW c0, NEW d0, NEW k0, k0 # "safeToClose", ~(c0 = "new" /\ k0 = "data"),
         Wired(c0, d0, k0), NEW d1, NEW k1, k1 # "safeToClose", Posted(d1, k1),
         \A d \in Device : bwu'[d] \in {"lastWrite", "draining"} => bwu'[d] = bwu[d],
         \A d \in Device : active'[d] \in Channel => active'[d] = active[d],
         \A d \in Device : writer'[d] = "new" => writer[d] = "new",
         \A d \in Device : prev'[d] = "old" => prev[d] = "old",
         \A d \in Device : active[Peer(d)] = "old" /\ (active[d] = "new" \/ writer[d] = "new")
                            => (Barred(d) => Barred(d)')
  PROVE  AgreedInv'
<1>1. /\ "safeToClose" \in Kinds /\ "data" \in Kinds /\ "safeToClose" \in Job
      /\ "old" \in Channel /\ "new" \in Channel
  BY DEF Kinds, Job, Channel
<1>2. \A d \in Device : /\ OnWire("old", d, "safeToClose")' => OnWire("old", d, "safeToClose")
                        /\ OnWire("new", d, "data")' => OnWire("new", d, "data")
                        /\ Queued(d, "safeToClose")' => Queued(d, "safeToClose")
  BY <1>1 DEF Wired, Posted
<1> QED
  BY <1>1, <1>2, Peers DEF AgreedInv

-----------------------------------------------------------------------------
(* The steps.                                                              *)

\* What steps that only read, write and post other frames and jobs have in common.
Plain ==
  /\ UNCHANGED <<intro, dialer, sent, got, writer>> /\ upgraded' \subseteq upgraded
  /\ \A d \in Device : bwu'[d] \in {"awaitAck", "lastWrite", "draining"} => bwu'[d] = bwu[d]
  /\ \A d \in Device : active'[d] \in Channel => active'[d] = active[d]
  /\ \A d \in Device : prev'[d] = "old" => prev[d] = "old"
  /\ \A d \in Device : active[Peer(d)] = "old" /\ (active[d] = "new" \/ writer[d] = "new")
                        => (Barred(d) => Barred(d)')

\* Such steps keep the invariant.
LEMMA PlainKeeps ==
  ASSUME IInv, Types', Plain,
         NEW c0, NEW d0, NEW k0, k0 \notin Tokens \cup {"data"}, Wired(c0, d0, k0),
         NEW d1, NEW k1, k1 \notin Tokens \cup {"incoming"}, Posted(d1, k1)
  PROVE  IInv'
<1>1. DataInv'
  BY DataFrame DEF IInv, Types, Plain
<1>2. IntroInv' /\ \A d \in Device : Start(d)' => Start(d)
  BY IntroFrame DEF IInv, Plain
<1>3. TurnInv'
  BY <1>2, TurnFrame DEF IInv, Plain
<1>4. AgreedInv'
  BY AgreedFrame DEF IInv, Plain, Tokens
<1> QED
  BY <1>1, <1>2, <1>3, <1>4 DEF IInv

\* Kinds of frames and jobs.
LEMMA Names ==
  /\ "old" \in Channel /\ "new" \in Channel
  /\ \A k \in {"path", "fail", "disconnect"} : k \in Kinds /\ k \notin Tokens \cup {"data"}
  /\ \A k \in {"init", "removed"} : k \in Job /\ k \notin Tokens \cup {"incoming"}
  /\ "none" \notin Tokens \cup {"data", "incoming"}
BY DEF Channel, Kinds, Job, Tokens

\* An upgrade is asked for.
LEMMA InitiateBwuForEndpointKeeps ==
  ASSUME IInv, NEW d0 \in Device, InitiateBwuForEndpoint(d0)
  PROVE  IInv'
<1>1. Posted(d0, "init") /\ tries' \in 0..MaxTries
  BY Names, JobPosted, BwuAssumption DEF InitiateBwuForEndpoint, IInv, Types, ThreadType
<1>2. UNCHANGED <<wire, shut, enc, plain, intro, dialer, dec, active, paused, prev, upgraded, progress, bwu,
                  reader, writer, sent, got>>
  BY DEF InitiateBwuForEndpoint, net, mgr, data
<1>3. Types'
  BY <1>1, <1>2 DEF IInv, Types, NetType, DeviceType, ThreadType, Posted
<1>4. Plain
  BY <1>2 DEF Plain, Barred, Closed
<1>5. Wired("old", d0, "path")
  BY <1>2, WireSame DEF IInv, Types
<1> QED
  BY <1>1, <1>3, <1>4, <1>5, Names, PlainKeeps

\* bwu-init
LEMMA InitiateKeeps ==
  ASSUME IInv, NEW d0 \in Device, Initiate(d0)
  PROVE  IInv'
<1>1. Posted(d0, "init")
  BY JobTaken DEF Initiate, IInv, Types
<1>2. UNCHANGED <<plain, intro, dialer, dec, active, paused, prev, upgraded, bwu, reader,
                 writer, sent, got, tries>>
  BY DEF Initiate, data
<1>3. Wired("old", Peer(d0), "path") /\ shut' = shut /\ enc' \in [Device -> Nat] /\ progress' \subseteq Device
  <2>1. NetType
    BY DEF IInv, Types
  <2>2. CASE UNCHANGED <<wire, enc, shut, progress>>
    BY <2>1, <2>2, WireSame DEF IInv, Types, NetType, DeviceType
  <2>3. CASE Write(d0, "old", "path", {}) /\ progress' = progress \cup {d0}
    <3>1. Wired("old", Peer(d0), "path") /\ shut' = shut \cup {} /\ enc' \in [Device -> Nat]
      BY <2>1, <2>3, Names, Writing
    <3> QED
      BY <2>3, <3>1 DEF IInv, Types, DeviceType
  <2>4. CASE WriteFails(d0, "old", {}) /\ UNCHANGED progress
    <3>1. wire' = wire /\ shut' = shut \cup {} /\ enc' \in [Device -> Nat]
      BY <2>1, <2>4, Names, Writing
    <3> QED
      BY <2>1, <2>4, <3>1, WireSame DEF IInv, Types, DeviceType
  <2> QED
    BY <2>2, <2>3, <2>4 DEF Initiate
<1>4. Types'
  BY <1>1, <1>2, <1>3 DEF IInv, Types, NetType, DeviceType, ThreadType, Posted, Wired
<1>5. Plain
  BY <1>2, <1>3 DEF Plain, Barred, Closed
<1> QED
  BY <1>1, <1>3, <1>4, <1>5, Names, PlainKeeps

\* UPGRADE_PATH_AVAILABLE during an upgrade.
LEMMA DuplicatePathKeeps ==
  ASSUME IInv, NEW d0 \in Device, DuplicatePath(d0)
  PROVE  IInv'
<1>1. Posted(d0, "init")
  BY JobTaken DEF DuplicatePath, IInv, Types
<1>2. UNCHANGED <<wire, enc, plain, intro, dialer, dec, active, upgraded, progress, bwu, reader,
                  writer, sent, got, tries>>
  BY DEF DuplicatePath, data
<1>3. /\ shut \subseteq shut' /\ shut' \subseteq Channel \X Device
      /\ active[d0] = "new" => <<"new", d0>> \in shut'
      /\ active[d0] # "new" => paused' = paused
      /\ paused \ {d0} \subseteq paused' /\ paused' \subseteq paused
  BY Names DEF DuplicatePath, IInv, Types, NetType
<1>4. prev' \in [Device -> {"none", "null", "old"}] /\ \A d \in Device : prev'[d] = "old" => prev[d] = "old"
  BY DEF DuplicatePath, IInv, Types, DeviceType
<1>5. Types'
  BY <1>1, <1>2, <1>3, <1>4 DEF IInv, Types, NetType, DeviceType, ThreadType, Posted
<1>6. Plain
  BY <1>2, <1>3, <1>4 DEF Plain, Barred, Closed
<1>7. Wired("old", d0, "path")
  BY <1>2, WireSame DEF IInv, Types
<1> QED
  BY <1>1, <1>5, <1>6, <1>7, Names, PlainKeeps

\* RunUpgradeFailedProtocol writes a frame at most, and closes channels.
LEMMA UpgradeFailed ==
  ASSUME NetType, DeviceType, NEW d0 \in Device, NEW ends \in SUBSET (Channel \X Device),
         RunUpgradeFailedProtocol(d0, ends)
  PROVE  /\ \E c0 : Wired(c0, Peer(d0), "fail")
         /\ shut \subseteq shut' /\ shut' \subseteq Channel \X Device
         /\ enc' \in [Device -> Nat] /\ progress' \subseteq Device
<1>1. CASE active[d0] = "none"
  <2>1. UNCHANGED <<wire, enc, progress>> /\ shut' = shut \cup ends
    BY <1>1, Names DEF RunUpgradeFailedProtocol, Channel
  <2>2. Wired("old", Peer(d0), "fail")
    BY <2>1, WireSame
  <2> QED
    BY <2>1, <2>2 DEF NetType, DeviceType
<1>2. CASE active[d0] # "none"
  <2>1. PICK c0 \in Channel : c0 = active[d0]
    BY <1>2 DEF DeviceType
  <2>2. \/ Write(d0, c0, "fail", ends) /\ progress' = progress \ {d0}
        \/ WriteFails(d0, c0, ends \cup {<<c0, d0>>}) /\ UNCHANGED progress
    BY <1>2, <2>1 DEF RunUpgradeFailedProtocol
  <2>3. CASE Write(d0, c0, "fail", ends) /\ progress' = progress \ {d0}
    <3>1. Wired(c0, Peer(d0), "fail") /\ shut' = shut \cup ends /\ enc' \in [Device -> Nat]
      BY <2>3, Names, Writing
    <3> QED
      BY <2>3, <3>1 DEF NetType, DeviceType
  <2>4. CASE WriteFails(d0, c0, ends \cup {<<c0, d0>>}) /\ UNCHANGED progress
    <3>1. wire' = wire /\ shut' = shut \cup (ends \cup {<<c0, d0>>}) /\ enc' \in [Device -> Nat]
      BY <2>4, Writing
    <3>2. Wired(c0, Peer(d0), "fail")
      BY <3>1, WireSame
    <3> QED
      BY <2>4, <3>1, <3>2 DEF NetType, DeviceType
  <2> QED
    BY <2>2, <2>3, <2>4
<1> QED
  BY <1>1, <1>2

\* The responder connects, or fails to.
LEMMA ProcessBwuPathAvailableKeeps ==
  ASSUME IInv, NEW d0 \in Device, ProcessBwuPathAvailable(d0)
  PROVE  IInv'
<1>1. Posted(d0, "init") /\ bwu[d0] = "idle"
  BY JobTaken DEF ProcessBwuPathAvailable, IInv, Types
<1>2. UNCHANGED <<plain, dec, active, paused, prev, upgraded, reader, writer, sent, got, tries>>
  BY DEF ProcessBwuPathAvailable, data
<1>3. CASE RunUpgradeFailedProtocol(d0, {}) /\ UNCHANGED <<intro, dialer, bwu>>
  <2>1. PICK c0 : Wired(c0, Peer(d0), "fail")
    BY <1>3, UpgradeFailed DEF IInv, Types
  <2>2. /\ shut \subseteq shut' /\ shut' \subseteq Channel \X Device
        /\ enc' \in [Device -> Nat] /\ progress' \subseteq Device
    BY <1>3, UpgradeFailed DEF IInv, Types
  <2>3. Types'
    BY <1>1, <1>2, <1>3, <2>1, <2>2 DEF IInv, Types, NetType, DeviceType, ThreadType, Posted, Wired
  <2>4. Plain
    BY <1>2, <1>3, <2>2 DEF Plain, Barred, Closed
  <2> QED
    BY <1>1, <2>1, <2>3, <2>4, Names, PlainKeeps
<1>4. CASE /\ intro = "none" /\ intro' = "connected" /\ dialer' = d0
           /\ bwu' = [bwu EXCEPT ![d0] = "awaitAck"] /\ UNCHANGED <<wire, enc, shut, progress>>
  <2>1. Types'
    BY <1>1, <1>2, <1>4 DEF IInv, Types, NetType, DeviceType, ThreadType, Posted
  <2>2. Wired("old", d0, "path")
    BY <1>4, WireSame DEF IInv, Types
  <2>3. DataInv'
    BY <1>2, <2>2, Names, DataFrame DEF IInv, Types
  <2>4. /\ bwu'[d0] = "awaitAck" /\ \A d \in Device : d # d0 => bwu'[d] = bwu[d]
    BY <1>4 DEF IInv, Types, ThreadType
  <2>5. IntroInv'
    <3>1. \A d \in Device : ~Queued(d, "incoming") /\ QueuedOnce(d, "incoming") /\ bwu[d] # "awaitAck"
      BY <1>4 DEF IInv, IntroInv
    <3>2. \A d \in Device : ~Queued(d, "incoming")' /\ QueuedOnce(d, "incoming")'
      BY <1>1, <3>1 DEF Posted, Job
    <3> QED
      BY <1>4, <2>4, <3>1, <3>2 DEF IntroInv
  <2>6. TurnInv'
    <3>1. \A d \in Device : Start(d)
      BY <1>4 DEF Start
    <3> QED
      BY <1>1, <1>2, <2>2, <2>4, <3>1, Names, TurnFrame DEF IInv
  <2>7. AgreedInv'
    BY <1>1, <1>2, <1>4, <2>2, <2>4, Names, AgreedFrame DEF IInv, Barred, Closed, Tokens
  <2> QED
    BY <2>1, <2>3, <2>5, <2>6, <2>7 DEF IInv
<1> QED
  BY <1>3, <1>4 DEF ProcessBwuPathAvailable

\* The initiator's accept thread posts the new socket.
LEMMA OnIncomingConnectionKeeps ==
  ASSUME IInv, NEW d0 \in Device, OnIncomingConnection(d0)
  PROVE  IInv'
<1>1. "incoming" \in Job /\ "incoming" \notin Tokens /\ "incoming" # "safeToClose"
  BY DEF Job, Tokens
<1>2. Posted(d0, "incoming")
  BY <1>1, JobPosted DEF OnIncomingConnection, IInv, Types
<1>3. /\ UNCHANGED <<wire, shut, enc, plain, dialer, dec, active, paused, prev, upgraded, progress, bwu,
                     reader, writer, sent, got, tries>>
      /\ intro = "connected" /\ dialer = Peer(d0) /\ intro' = "posted"
  BY DEF OnIncomingConnection, mgr, data
<1>4. Types'
  BY <1>2, <1>3 DEF IInv, Types, NetType, DeviceType, ThreadType, Posted
<1>5. Wired("old", d0, "path")
  BY <1>3, WireSame DEF IInv, Types
<1>6. DataInv'
  BY <1>3, <1>5, Names, DataFrame DEF IInv, Types
<1>7. IntroInv'
  <2>1. \A d \in Device : ~Queued(d, "incoming") /\ QueuedOnce(d, "incoming")
    BY <1>3 DEF IInv, IntroInv
  <2>2. \A d \in Device : (Queued(d, "incoming")' => d = d0) /\ QueuedOnce(d, "incoming")'
    BY <1>1, <1>2, <2>1 DEF Posted
  <2> QED
    BY <1>3, <2>2 DEF IInv, IntroInv
<1>8. \A d \in Device : Start(d)' => Start(d)
  BY <1>1, <1>2, <1>3, Peers DEF Start, Posted
<1>9. TurnInv'
  BY <1>1, <1>2, <1>3, <1>5, <1>8, Names, TurnFrame DEF IInv
<1>10. AgreedInv'
  BY <1>1, <1>2, <1>3, <1>5, Names, AgreedFrame DEF IInv, Barred, Closed, Tokens
<1> QED
  BY <1>4, <1>6, <1>7, <1>9, <1>10 DEF IInv

\* A device that has yet to replace its channel does so, or finds that the endpoint is gone.
LEMMA Replaced ==
  ASSUME IInv, NEW d0 \in Device, RunUpgradeProtocol(d0), UNCHANGED <<wire, prev, upgraded, writer>>,
         Posted(d0, "init"), Start(d0), ~Start(d0)', \A d \in Device : Start(d)' => Start(d)
  PROVE  /\ TurnInv' /\ AgreedInv'
         /\ shut' \subseteq Channel \X Device /\ paused' \subseteq Device
         /\ active' \in [Device -> Channel \cup {"none"}]
         /\ bwu' \in [Device -> {"idle", "awaitAck", "lastWrite", "draining", "crashed"}]
         /\ \A d \in Device : bwu'[d] = "awaitAck" => bwu[d] = "awaitAck" /\ d # d0
<1>1. /\ bwu'[d0] \in {"idle", "lastWrite"} /\ \A d \in Device : d # d0 => bwu'[d] = bwu[d]
      /\ bwu' \in [Device -> {"idle", "awaitAck", "lastWrite", "draining", "crashed"}]
  BY DEF RunUpgradeProtocol, IInv, Types, ThreadType
<1>2. /\ shut \subseteq shut' /\ shut' \subseteq Channel \X Device
      /\ paused \subseteq paused' /\ paused' \subseteq Device
  BY Names DEF RunUpgradeProtocol, IInv, Types, NetType, DeviceType
<1>3. /\ active' \in [Device -> Channel \cup {"none"}]
      /\ \A d \in Device : d # d0 => active'[d] = active[d]
      /\ active'[d0] # "old" /\ (active'[d0] = "new" => d0 \in paused')
  <2>1. active[d0] = "none" \/ active[d0] \in Channel
    BY DEF IInv, Types, DeviceType
  <2> QED
    BY <2>1, Names DEF RunUpgradeProtocol, IInv, Types, DeviceType, Channel
<1>4. Wired("old", d0, "path")
  BY WireSame DEF IInv, Types
<1>5. TurnInv'
  <2>1. /\ Tokens \subseteq Kinds /\ Tokens \subseteq Job /\ "old" \in Channel /\ "new" \in Channel
        /\ "lastWrite" \in Tokens /\ "safeToClose" \in Tokens /\ "init" \notin Tokens
    BY DEF Tokens, Kinds, Job, Channel
  <2>2. \A d \in Device, k \in Tokens : \A c \in Channel :
          /\ OnWire(c, d, k)' <=> OnWire(c, d, k)
          /\ WireOnce(c, d, k)' <=> WireOnce(c, d, k)
    BY DEF OnWire, WireOnce
  <2>3. \A d \in Device, k \in Tokens :
          /\ Queued(d, k)' => Queued(d, k)
          /\ QueuedOnce(d, k) => QueuedOnce(d, k)'
    BY <2>1 DEF Posted
  <2>4. \A d \in Device, n \in 0..7 : d # d0 => (Turn(d, n)' => Turn(d, n))
    BY <1>1, <2>1, <2>2, <2>3, Peers DEF Turn
  <2>5. \A n \in 0..7 : Turn(d0, n) => n = 0
    BY DEF IInv, TurnInv, Turn
  <2>6. \A n \in 0..7 : Turn(d0, n)' => n = 1
    <3>1. \A n \in 0..7 : n # 1 => (Turn(d0, n)' => Turn(d0, n))
      BY <1>1, <2>1, <2>2, <2>3, Peers DEF Turn
    <3>2. ~Turn(d0, 0)'
      BY DEF Turn
    <3> QED
      BY <2>5, <3>1, <3>2
  <2>7. \A d \in Device : \A m, n \in 0..7 : Turn(d, m)' /\ Turn(d, n)' => m = n
    BY <2>4, <2>6 DEF IInv, TurnInv
  <2> QED
    BY <2>1, <2>2, <2>3, <2>7 DEF IInv, TurnInv, Tokens
<1>6. AgreedInv'
  <2>1. \A d \in Device : /\ OnWire("old", d, "safeToClose")' <=> OnWire("old", d, "safeToClose")
                          /\ OnWire("new", d, "data")' <=> OnWire("new", d, "data")
                          /\ Queued(d, "safeToClose")' => Queued(d, "safeToClose")
    BY DEF OnWire, Posted, Job
  <2>2. \A d \in Device : Barred(d) => Barred(d)'
    BY <1>2 DEF Barred, Closed
  <2>3. active'[d0] = "new" => Barred(d0)'
    BY <1>3 DEF Barred
  <2> QED
    BY <1>1, <1>3, <2>1, <2>2, <2>3, Peers DEF IInv, AgreedInv
<1> QED
  BY <1>1, <1>2, <1>3, <1>5, <1>6

\* bwu-on-incoming-connection
LEMMA ReadClientIntroductionKeeps ==
  ASSUME IInv, NEW d0 \in Device, ReadClientIntroduction(d0)
  PROVE  IInv'
<1>1. Posted(d0, "init") /\ bwu[d0] = "idle" /\ Queued(d0, "incoming")
      /\ (QueuedOnce(d0, "incoming") => ~Queued(d0, "incoming")')
  BY JobTaken DEF ReadClientIntroduction, IInv, Types
<1>2. /\ intro \notin {"none", "connected"} /\ dialer = Peer(d0) /\ ~Queued(d0, "incoming")'
      /\ \A d \in Device : Queued(d, "incoming") => d = d0
  BY <1>1, Peers DEF IInv, IntroInv
<1>3. UNCHANGED <<wire, enc, plain, dialer, dec, prev, upgraded, progress, reader, writer, sent, got, tries>>
  BY DEF ReadClientIntroduction, mgr, data
<1>4. intro' \in {"none", "connected", "posted", "acked", "dead"} /\ intro' \notin {"none", "connected"}
  BY <1>2 DEF ReadClientIntroduction, IInv, Types, NetType
<1>5. Wired("old", d0, "path")
  BY <1>3, WireSame DEF IInv, Types
<1>6. DataInv'
  BY <1>3, <1>5, Names, DataFrame DEF IInv, Types
<1>7. /\ \A d \in Device : Queued(d, "incoming")' => Queued(d, "incoming")
      /\ \A d \in Device : QueuedOnce(d, "incoming")'
  BY <1>1 DEF Posted, Job, IInv, IntroInv
<1>8. CASE shut' = shut \cup {<<"new", d0>>} /\ UNCHANGED <<active, paused, bwu>>
  <2>0. shut' \subseteq Channel \X Device
    BY <1>8, Names DEF IInv, Types, NetType
  <2>1. Types'
    BY <1>1, <1>3, <1>4, <1>8, <2>0 DEF IInv, Types, NetType, DeviceType, ThreadType, Posted
  <2>2. IntroInv'
    BY <1>2, <1>3, <1>4, <1>7, <1>8 DEF IInv, IntroInv
  <2>3. \A d \in Device : Start(d)' => Start(d)
    BY <1>4, <1>7, <1>8 DEF Start
  <2>4. TurnInv'
    BY <1>1, <1>3, <1>5, <1>8, <2>3, Names, TurnFrame DEF IInv
  <2>5. AgreedInv'
    BY <1>1, <1>3, <1>5, <1>8, Names, AgreedFrame DEF IInv, Barred, Closed, Tokens
  <2> QED
    BY <1>6, <2>1, <2>2, <2>4, <2>5 DEF IInv
<1>9. CASE RunUpgradeProtocol(d0)
  <2>1. /\ bwu'[d0] # "awaitAck" /\ \A d \in Device : bwu'[d] = "awaitAck" => bwu[d] = "awaitAck"
    BY <1>9 DEF RunUpgradeProtocol, IInv, Types, ThreadType
  <2>2. Start(d0) /\ ~Start(d0)' /\ \A d \in Device : Start(d)' => Start(d)
    BY <1>1, <1>2, <1>4, <1>7, <2>1 DEF Start
  <2>3. /\ TurnInv' /\ AgreedInv'
        /\ shut' \subseteq Channel \X Device /\ paused' \subseteq Device
        /\ active' \in [Device -> Channel \cup {"none"}]
        /\ bwu' \in [Device -> {"idle", "awaitAck", "lastWrite", "draining", "crashed"}]
    BY <1>1, <1>3, <1>9, <2>2, Replaced
  <2>4. Types'
    BY <1>1, <1>3, <1>4, <2>3 DEF IInv, Types, NetType, DeviceType, ThreadType, Posted
  <2>5. IntroInv'
    BY <1>2, <1>3, <1>4, <1>7, <2>1 DEF IInv, IntroInv
  <2> QED
    BY <1>6, <2>3, <2>4, <2>5 DEF IInv
<1> QED
  BY <1>8, <1>9 DEF ReadClientIntroduction

\* The responder has read the acknowledgement.
LEMMA ReadClientIntroductionAckKeeps ==
  ASSUME IInv, NEW d0 \in Device, ReadClientIntroductionAck(d0)
  PROVE  IInv'
<1>1. /\ UNCHANGED <<wire, enc, plain, intro, dialer, dec, prev, upgraded, bwuQ, reader, writer, sent, got,
                     tries>>
      /\ bwu[d0] = "awaitAck" /\ progress' = progress \cup {d0} /\ RunUpgradeProtocol(d0)
  BY DEF ReadClientIntroductionAck, data
<1>2. Posted(d0, "init")
  BY <1>1, QueueSame DEF IInv, Types
<1>3. intro # "none" /\ dialer = d0 /\ ~Queued(d0, "incoming")
  BY <1>1, Peers DEF IInv, IntroInv
<1>4. Wired("old", d0, "path")
  BY <1>1, WireSame DEF IInv, Types
<1>5. DataInv'
  BY <1>1, <1>4, Names, DataFrame DEF IInv, Types
<1>6. \A d \in Device : (Queued(d, "incoming")' <=> Queued(d, "incoming"))
                          /\ (QueuedOnce(d, "incoming")' <=> QueuedOnce(d, "incoming"))
  BY <1>1 DEF Queued, QueuedOnce
<1>7. /\ bwu'[d0] # "awaitAck" /\ \A d \in Device : bwu'[d] = "awaitAck" => bwu[d] = "awaitAck"
  BY <1>1 DEF RunUpgradeProtocol, IInv, Types, ThreadType
<1>8. Start(d0) /\ ~Start(d0)' /\ \A d \in Device : Start(d)' => Start(d)
  BY <1>1, <1>3, <1>6, <1>7 DEF Start
<1>9. /\ TurnInv' /\ AgreedInv'
      /\ shut' \subseteq Channel \X Device /\ paused' \subseteq Device
      /\ active' \in [Device -> Channel \cup {"none"}]
      /\ bwu' \in [Device -> {"idle", "awaitAck", "lastWrite", "draining", "crashed"}]
  BY <1>1, <1>2, <1>8, Replaced
<1>10. Types'
  BY <1>1, <1>9 DEF IInv, Types, NetType, DeviceType, ThreadType
<1>11. IntroInv'
  BY <1>1, <1>6, <1>7 DEF IInv, IntroInv
<1> QED
  BY <1>5, <1>9, <1>10, <1>11 DEF IInv

\* The responder waits for the acknowledgement in vain.
LEMMA AckFailsKeeps ==
  ASSUME IInv, NEW d0 \in Device, AckFails(d0)
  PROVE  IInv'
<1>1. /\ UNCHANGED <<plain, dialer, dec, active, paused, prev, upgraded, bwuQ, reader, writer, sent, got, tries>>
      /\ bwu[d0] = "awaitAck" /\ intro' = "dead" /\ bwu' = [bwu EXCEPT ![d0] = "idle"]
      /\ RunUpgradeFailedProtocol(d0, {<<"new", d0>>})
  BY DEF AckFails, data
<1>2. Posted(d0, "init")
  BY <1>1, QueueSame DEF IInv, Types
<1>3. PICK ends \in SUBSET (Channel \X Device) : ends = {<<"new", d0>>}
  <2>1. {<<"new", d0>>} \subseteq Channel \X Device
    BY Names
  <2> QED
    BY <2>1, Zenon
<1>4. PICK c0 : Wired(c0, Peer(d0), "fail")
  BY <1>1, <1>3, UpgradeFailed DEF IInv, Types
<1>5. /\ shut \subseteq shut' /\ shut' \subseteq Channel \X Device
      /\ enc' \in [Device -> Nat] /\ progress' \subseteq Device
  BY <1>1, <1>3, UpgradeFailed DEF IInv, Types
<1>6. /\ bwu'[d0] = "idle" /\ \A d \in Device : d # d0 => bwu'[d] = bwu[d]
      /\ bwu' \in [Device -> {"idle", "awaitAck", "lastWrite", "draining", "crashed"}]
  BY <1>1 DEF IInv, Types, ThreadType
<1>7. Types'
  BY <1>1, <1>4, <1>5, <1>6 DEF IInv, Types, NetType, DeviceType, ThreadType, Wired
<1>8. DataInv'
  BY <1>1, <1>4, Names, DataFrame DEF IInv, Types
<1>9. \A d \in Device : (Queued(d, "incoming")' <=> Queued(d, "incoming"))
                          /\ (QueuedOnce(d, "incoming")' <=> QueuedOnce(d, "incoming"))
  BY <1>1 DEF Queued, QueuedOnce
<1>10. IntroInv'
  BY <1>1, <1>6, <1>9 DEF IInv, IntroInv
<1>11. \A d \in Device : Start(d)' => Start(d)
  BY <1>1, <1>6, <1>9 DEF Start
<1>12. TurnInv'
  BY <1>1, <1>2, <1>4, <1>6, <1>11, Names, TurnFrame DEF IInv
<1>13. AgreedInv'
  BY <1>1, <1>2, <1>4, <1>5, <1>6, Names, AgreedFrame DEF IInv, Barred, Closed, Tokens
<1> QED
  BY <1>7, <1>8, <1>10, <1>12, <1>13 DEF IInv

\* The peer could not upgrade.
LEMMA ProcessUpgradeFailureKeeps ==
  ASSUME IInv, NEW d0 \in Device, ProcessUpgradeFailure(d0)
  PROVE  IInv'
<1>1. Posted(d0, "init")
  BY JobTaken DEF ProcessUpgradeFailure, IInv, Types
<1>2. /\ UNCHANGED <<wire, shut, enc, plain, intro, dialer, dec, active, paused, prev, upgraded, bwu,
                     reader, writer, sent, got>>
      /\ progress' = progress \ {d0} /\ tries' \in 0..MaxTries
  BY BwuAssumption DEF ProcessUpgradeFailure, net, data, IInv, Types, ThreadType
<1>3. Types'
  BY <1>1, <1>2 DEF IInv, Types, NetType, DeviceType, ThreadType, Posted
<1>4. Plain
  BY <1>2 DEF Plain, Barred, Closed
<1>5. Wired("old", d0, "path")
  BY <1>2, WireSame DEF IInv, Types
<1> QED
  BY <1>1, <1>3, <1>4, <1>5, Names, PlainKeeps

\* The reader fails.
LEMMA ReadFailsKeeps ==
  ASSUME IInv, NEW d0 \in Device, ReadFails(d0)
  PROVE  IInv'
<1>1. UNCHANGED <<wire, shut, enc, plain, intro, dialer, dec, active, paused, prev, upgraded, progress, bwu,
                  bwuQ, writer, sent, got, tries>>
  BY DEF ReadFails, net, mgr, data
<1>2. reader' \in [Device -> Channel \cup {"gone"}]
  BY Names DEF ReadFails, Refetch, IInv, Types, DeviceType
<1>3. Types'
  BY <1>1, <1>2 DEF IInv, Types, NetType, DeviceType, ThreadType
<1>4. Plain
  BY <1>1 DEF Plain, Barred, Closed
<1>5. Wired("old", d0, "path") /\ Posted(d0, "init")
  BY <1>1, WireSame, QueueSame DEF IInv, Types
<1> QED
  BY <1>3, <1>4, <1>5, Names, PlainKeeps

\* The endpoint is removed.
LEMMA RemoveEndpointKeeps ==
  ASSUME IInv, NEW d0 \in Device, RemoveEndpoint(d0)
  PROVE  IInv'
<1>1. /\ UNCHANGED <<plain, intro, dialer, dec, prev, upgraded, progress, bwu, reader, writer, sent, got, tries>>
      /\ active' = [active EXCEPT ![d0] = "none"] /\ paused' = paused \ {d0}
  BY DEF RemoveEndpoint, mgr, data
<1>2. Posted(d0, "removed")
  BY Names, JobPosted DEF RemoveEndpoint, IInv, Types
<1>3. PICK c0 \in Channel : c0 = active[d0]
  BY DEF RemoveEndpoint
<1>4. Write(d0, c0, "disconnect", {<<c0, d0>>}) \/ WriteFails(d0, c0, {<<c0, d0>>})
  BY <1>3 DEF RemoveEndpoint
<1>5. Wired(c0, Peer(d0), "disconnect") /\ shut' = shut \cup {<<c0, d0>>} /\ enc' \in [Device -> Nat]
  <2>1. CASE Write(d0, c0, "disconnect", {<<c0, d0>>})
    BY <2>1, Names, Writing DEF IInv, Types
  <2>2. CASE WriteFails(d0, c0, {<<c0, d0>>})
    <3>1. wire' = wire /\ shut' = shut \cup {<<c0, d0>>} /\ enc' \in [Device -> Nat]
      BY <2>2, Writing DEF IInv, Types
    <3> QED
      BY <3>1, WireSame DEF IInv, Types
  <2> QED
    BY <1>4, <2>1, <2>2
<1>6. /\ shut' \subseteq Channel \X Device /\ active' \in [Device -> Channel \cup {"none"}]
      /\ \A d \in Device : active'[d] = IF d = d0 THEN "none" ELSE active[d]
  BY <1>1, <1>5 DEF IInv, Types, NetType, DeviceType
<1>7. Types'
  BY <1>1, <1>2, <1>5, <1>6 DEF IInv, Types, NetType, DeviceType, ThreadType, Posted, Wired
<1>8. \A d \in Device : active[d] = "new" \/ writer[d] = "new" => (Barred(d) => Barred(d)')
  <2>1. writer[d0] = "new" => active[d0] = "new"
    BY <1>3 DEF IInv, AgreedInv, Channel
  <2> QED
    BY <1>1, <1>3, <1>5, <2>1 DEF Barred, Closed
<1>9. Plain
  <2>1. "none" \notin Channel
    BY DEF Channel
  <2> QED
    BY <1>1, <1>6, <1>8, <2>1 DEF Plain
<1> QED
  BY <1>2, <1>5, <1>7, <1>9, Names, PlainKeeps

\* bwu-on-endpoint-disconnect
LEMMA OnEndpointDisconnectKeeps ==
  ASSUME IInv, NEW d0 \in Device, OnEndpointDisconnect(d0)
  PROVE  IInv'
<1>1. Posted(d0, "init")
  BY JobTaken DEF OnEndpointDisconnect, IInv, Types
<1>2. /\ UNCHANGED <<wire, enc, plain, intro, dialer, dec, active, paused, bwu, reader, writer,
                     sent, got, tries>>
      /\ prev' = [prev EXCEPT ![d0] = "none"] /\ progress' = progress \ {d0} /\ upgraded' = upgraded \ {d0}
  BY DEF OnEndpointDisconnect, data
<1>3. shut \subseteq shut' /\ shut' \subseteq Channel \X Device
  BY DEF OnEndpointDisconnect, IInv, Types, NetType
<1>4. prev' \in [Device -> {"none", "null", "old"}] /\ \A d \in Device : prev'[d] = "old" => prev[d] = "old"
  BY <1>2 DEF IInv, Types, DeviceType
<1>5. Types'
  BY <1>1, <1>2, <1>3, <1>4 DEF IInv, Types, NetType, DeviceType, ThreadType, Posted
<1>6. Plain
  BY <1>2, <1>3, <1>4 DEF Plain, Barred, Closed
<1>7. Wired("old", d0, "path")
  BY <1>2, WireSame DEF IInv, Types
<1> QED
  BY <1>1, <1>5, <1>6, <1>7, Names, PlainKeeps

\* A medium loses its connection.
LEMMA ChannelBreaksKeeps ==
  ASSUME IInv, NEW c0 \in Channel, ChannelBreaks(c0)
  PROVE  IInv'
<1>1. UNCHANGED <<wire, enc, plain, intro, dialer, dec, active, paused, prev, upgraded, progress, bwu, bwuQ,
                  reader, writer, sent, got, tries>>
  BY DEF ChannelBreaks, mgr, data
<1>2. shut \subseteq shut' /\ shut' \subseteq Channel \X Device
  BY DEF ChannelBreaks, IInv, Types, NetType
<1>3. Types'
  BY <1>1, <1>2 DEF IInv, Types, NetType, DeviceType, ThreadType
<1>4. Plain
  BY <1>1, <1>2 DEF Plain, Barred, Closed
<1>5. Wired("old", "a", "path") /\ Posted("a", "init")
  BY <1>1, WireSame, QueueSame DEF IInv, Types
<1> QED
  BY <1>3, <1>4, <1>5, Names, PlainKeeps

\* The old channel is closed and the new one resumed.
LEMMA ClosePriorChannelKeeps ==
  ASSUME IInv, NEW d0 \in Device, ClosePriorChannel(d0)
  PROVE  IInv'
<1>1. /\ UNCHANGED <<enc, plain, intro, dialer, dec, active, prev, upgraded, bwuQ, reader, writer, sent, got,
                     tries>>
      /\ bwu[d0] = "draining" /\ bwu' = [bwu EXCEPT ![d0] = "idle"] /\ paused' = paused \ {d0}
      /\ shut' = shut \cup {<<"old", d0>>}
  BY DEF ClosePriorChannel, data
<1>2. Wired("old", d0, "path")
  <2>1. CASE UNCHANGED wire
    BY <2>1, WireSame DEF IInv, Types
  <2>2. CASE wire["old"][d0] # <<>> /\ wire' = [wire EXCEPT !["old"][d0] = Tail(@)]
    BY <2>2, Names, WireTake DEF IInv, Types
  <2> QED
    BY <2>1, <2>2 DEF ClosePriorChannel
<1>3. shut' \subseteq Channel \X Device /\ progress' \subseteq Device
  BY <1>1, Names DEF ClosePriorChannel, IInv, Types, NetType, DeviceType
<1>4. /\ bwu'[d0] = "idle" /\ \A d \in Device : d # d0 => bwu'[d] = bwu[d]
      /\ bwu' \in [Device -> {"idle", "awaitAck", "lastWrite", "draining", "crashed"}]
  BY <1>1 DEF IInv, Types, ThreadType
<1>5. Types'
  BY <1>1, <1>2, <1>3, <1>4 DEF IInv, Types, NetType, DeviceType, ThreadType, Wired
<1>6. active[Peer(d0)] # "old"
  BY <1>1, Peers DEF IInv, AgreedInv
<1>7. \A d \in Device : active[Peer(d)] = "old" => (Barred(d) => Barred(d)')
  BY <1>1, <1>6 DEF Barred, Closed
<1>8. Plain
  BY <1>1, <1>4, <1>7 DEF Plain
<1>9. Posted(d0, "init")
  BY <1>1, QueueSame DEF IInv, Types
<1> QED
  BY <1>2, <1>5, <1>8, <1>9, Names, PlainKeeps

\* LAST_WRITE of d, or the answer to it, moves from one place to another at most.
Moves(d) ==
  \/ \A n \in 0..7 : Turn(d, n)' => Turn(d, n)
  \/ \E m, n \in 0..7 : Turn(d, m) /\ \A i \in 0..7 : Turn(d, i)' => i = n \/ (i # m /\ Turn(d, i))

\* Then it is still in one place.
LEMMA TurnMoves ==
  ASSUME TurnInv, \A d \in Device : Moves(d),
         \A d \in Device, k \in Tokens :
           WireOnce("old", d, k)' /\ QueuedOnce(d, k)' /\ ~OnWire("new", d, k)'
  PROVE  TurnInv'
<1>1. ASSUME NEW d \in Device, NEW i \in 0..7, NEW j \in 0..7, Turn(d, i)', Turn(d, j)' PROVE i = j
  <2>1. CASE \A n \in 0..7 : Turn(d, n)' => Turn(d, n)
    BY <1>1, <2>1 DEF TurnInv
  <2>2. CASE \E m, n \in 0..7 :
               Turn(d, m) /\ \A l \in 0..7 : Turn(d, l)' => l = n \/ (l # m /\ Turn(d, l))
    BY <1>1, <2>2 DEF TurnInv
  <2> QED
    BY <2>1, <2>2 DEF Moves
<1> QED
  BY <1>1 DEF TurnInv, Tokens

\* Facts about the names of the places.
LEMMA TokenNames ==
  /\ Tokens \subseteq Kinds /\ Tokens \subseteq Job /\ "old" \in Channel /\ "new" \in Channel
  /\ "lastWrite" \in Tokens /\ "safeToClose" \in Tokens /\ "init" \notin Tokens /\ "init" # "incoming"
  /\ "lastWrite" # "safeToClose" /\ "old" # "new"
  /\ "data" \notin Tokens /\ "incoming" \notin Tokens /\ "disconnect" \notin Tokens
  /\ \A k \in Tokens : k = "lastWrite" \/ k = "safeToClose"
BY DEF Tokens, Kinds, Job, Channel

\* LAST_WRITE goes out.
LEMMA WriteLastWriteKeeps ==
  ASSUME IInv, NEW d0 \in Device, WriteLastWrite(d0)
  PROVE  IInv'
<1>1. /\ UNCHANGED <<plain, intro, dialer, dec, active, paused, progress, reader, writer, sent, got, tries>>
      /\ bwu[d0] = "lastWrite" /\ bwu' = [bwu EXCEPT ![d0] = "idle"]
  BY DEF WriteLastWrite, data
<1>2. /\ bwu'[d0] = "idle" /\ \A d \in Device : d # d0 => bwu'[d] = bwu[d]
      /\ bwu' \in [Device -> {"idle", "awaitAck", "lastWrite", "draining", "crashed"}]
  BY <1>1 DEF IInv, Types, ThreadType
<1>3. CASE WriteFails(d0, "old", {}) /\ UNCHANGED <<prev, upgraded, bwuQ>>
  <2>1. wire' = wire /\ shut' = shut \cup {} /\ enc' \in [Device -> Nat]
    BY <1>3, Names, Writing DEF IInv, Types
  <2>2. Types'
    BY <1>1, <1>2, <1>3, <2>1 DEF IInv, Types, NetType, DeviceType, ThreadType
  <2>3. Plain
    BY <1>1, <1>2, <1>3, <2>1 DEF Plain, Barred, Closed
  <2>4. Wired("old", d0, "path") /\ Posted(d0, "init")
    BY <1>3, <2>1, WireSame, QueueSame DEF IInv, Types
  <2> QED
    BY <2>2, <2>3, <2>4, Names, PlainKeeps
<1>4. CASE /\ Write(d0, "old", "lastWrite", {})
           /\ prev' = [prev EXCEPT ![d0] = IF @ = "none" THEN "old" ELSE @]
           /\ upgraded' = upgraded \ {d0}
           /\ bwuQ' = [bwuQ EXCEPT ![d0] = IF d0 \in upgraded THEN <<"lastWrite">> \o @ ELSE @]
  <2>1. Wired("old", Peer(d0), "lastWrite") /\ shut' = shut \cup {} /\ enc' \in [Device -> Nat]
    BY <1>4, TokenNames, Writing DEF IInv, Types
  <2>2. Posted(d0, "lastWrite") /\ (d0 \notin upgraded => bwuQ' = bwuQ)
    <3>1. CASE d0 \in upgraded
      <4>1. bwuQ' = [bwuQ EXCEPT ![d0] = <<"lastWrite">> \o @]
        BY <1>4, <3>1
      <4> QED
        BY <3>1, <4>1, TokenNames, JobFirst DEF IInv, Types
    <3>2. CASE d0 \notin upgraded
      <4>1. bwuQ' = bwuQ
        BY <1>4, <3>2 DEF IInv, Types, ThreadType
      <4> QED
        BY <4>1, QueueSame DEF IInv, Types
    <3> QED
      BY <3>1, <3>2
  <2>3. /\ prev' \in [Device -> {"none", "null", "old"}] /\ active[d0] # "old"
        /\ \A d \in Device : d # d0 => prev'[d] = prev[d]
    BY <1>1, <1>4 DEF IInv, Types, DeviceType, AgreedInv
  <2>4. Types'
    BY <1>1, <1>2, <1>4, <2>1, <2>2, <2>3 DEF IInv, Types, NetType, DeviceType, ThreadType, Wired, Posted
  <2>5. DataInv'
    BY <1>1, <2>1, DataFrame DEF IInv, Types
  <2>6. IntroInv' /\ \A d \in Device : Start(d)' => Start(d)
    BY <1>1, <1>2, <2>2, IntroFrame DEF IInv
  <2>7. \A n \in 0..7 : Turn(d0, n) => n = 1
    BY <1>1 DEF IInv, TurnInv, Turn
  <2>8. ~OnWire("old", Peer(d0), "lastWrite")
    BY <2>7 DEF Turn
  <2>9. d0 \in upgraded => ~Queued(d0, "lastWrite") /\ \A n \in 0..7 : Turn(Peer(d0), n) => n = 4
    <3>1. d0 \in upgraded => Turn(Peer(d0), 4)
      BY Peers DEF Turn
    <3>2. Queued(d0, "lastWrite") => Turn(Peer(d0), 3)
      BY Peers DEF Turn
    <3> QED
      BY <3>1, <3>2, Peers DEF IInv, TurnInv
  <2>10. /\ \A d \in Device, k \in Tokens : \A c \in Channel :
              /\ OnWire(c, d, k)' => OnWire(c, d, k) \/ (c = "old" /\ d = Peer(d0) /\ k = "lastWrite")
              /\ WireOnce(c, d, k) => WireOnce(c, d, k)'
         /\ \A d \in Device, k \in Tokens :
              /\ Queued(d, k)' => Queued(d, k) \/ (d0 \in upgraded /\ d = d0 /\ k = "lastWrite")
              /\ QueuedOnce(d, k) => QueuedOnce(d, k)'
    <3>1. \A d \in Device, k \in Tokens : \A c \in Channel :
              /\ OnWire(c, d, k)' => OnWire(c, d, k) \/ (c = "old" /\ d = Peer(d0) /\ k = "lastWrite")
              /\ WireOnce(c, d, k) => WireOnce(c, d, k)'
      BY <2>1, <2>8, TokenNames DEF Wired
    <3>2. CASE d0 \in upgraded
      BY <2>2, <2>9, <3>1, <3>2, TokenNames DEF Posted
    <3>3. CASE d0 \notin upgraded
      BY <2>2, <3>1, <3>3 DEF Queued, QueuedOnce
    <3> QED
      BY <3>2, <3>3
  <2>11. Moves(d0)
    <3>1. \A n \in 0..7 : Turn(d0, n)' => n = 2 \/ (n # 1 /\ Turn(d0, n))
      BY <1>2, <1>4, <2>6, <2>10, TokenNames, Peers DEF Turn
    <3>2. Turn(d0, 1)
      BY <1>1 DEF Turn
    <3> QED
      BY <3>1, <3>2 DEF Moves
  <2>12. Moves(Peer(d0))
    <3>1. \A n \in 0..7 : n # 3 /\ Turn(Peer(d0), n)' => n # 4 /\ Turn(Peer(d0), n)
      BY <1>2, <1>4, <2>6, <2>10, TokenNames, Peers DEF Turn
    <3>2. CASE d0 \in upgraded
      <4>1. Turn(Peer(d0), 4)
        BY <3>2, Peers DEF Turn
      <4> QED
        BY <3>1, <4>1 DEF Moves
    <3>3. CASE d0 \notin upgraded
      <4>1. Turn(Peer(d0), 3)' => Turn(Peer(d0), 3)
        BY <2>10, <3>3, TokenNames, Peers DEF Turn
      <4> QED
        BY <3>1, <4>1 DEF Moves
    <3> QED
      BY <3>2, <3>3
  <2>13. TurnInv'
    <3>1. \A d \in Device : Moves(d)
      BY <2>11, <2>12, Peers
    <3> QED
      BY <2>10, <3>1, TokenNames, TurnMoves DEF IInv, TurnInv
  <2>14. AgreedInv'
    <3>1. \A d \in Device : /\ OnWire("old", d, "safeToClose")' => OnWire("old", d, "safeToClose")
                            /\ OnWire("new", d, "data")' => OnWire("new", d, "data")
                            /\ Queued(d, "safeToClose")' => Queued(d, "safeToClose")
      BY <2>1, <2>10, TokenNames DEF Wired, Kinds
    <3>2. \A d \in Device : Barred(d)' <=> Barred(d)
      BY <1>1, <2>1 DEF Barred, Closed
    <3> QED
      BY <1>1, <1>2, <2>3, <3>1, <3>2, Peers DEF IInv, AgreedInv
  <2> QED
    BY <2>4, <2>5, <2>6, <2>13, <2>14 DEF IInv
<1> QED
  BY <1>3, <1>4 DEF WriteLastWrite

\* LAST_WRITE of the peer is remembered, or answered.
LEMMA ProcessLastWriteToPriorChannelKeeps ==
  ASSUME IInv, NEW d0 \in Device, ProcessLastWriteToPriorChannel(d0)
  PROVE  IInv'
<1>1. /\ Posted(d0, "init") /\ bwu[d0] = "idle" /\ Queued(d0, "lastWrite")
      /\ QueuedOnce(d0, "lastWrite") => ~Queued(d0, "lastWrite")'
  BY JobTaken DEF ProcessLastWriteToPriorChannel, IInv, Types
<1>2. UNCHANGED <<plain, intro, dialer, dec, active, paused, progress, bwu, reader, writer, sent, got, tries>>
  BY DEF ProcessLastWriteToPriorChannel, data
<1>3. \/ /\ prev[d0] # "old" /\ prev' = [prev EXCEPT ![d0] = "null"]
         /\ upgraded' = upgraded \cup {d0} /\ UNCHANGED <<wire, enc, shut>>
      \/ /\ prev[d0] = "old" /\ upgraded' = upgraded
         /\ Write(d0, "old", "safeToClose", {}) /\ prev' = prev
      \/ /\ prev[d0] = "old" /\ upgraded' = upgraded
         /\ WriteFails(d0, "old", {<<"old", d0>>}) /\ prev' = [prev EXCEPT ![d0] = "none"]
  BY DEF ProcessLastWriteToPriorChannel
<1>4. /\ Wired("old", Peer(d0), "safeToClose") /\ enc' \in [Device -> Nat]
      /\ shut \subseteq shut' /\ shut' \subseteq Channel \X Device
      /\ prev[d0] # "old" => wire' = wire
  <2>1. CASE UNCHANGED <<wire, enc, shut>>
    BY <2>1, WireSame DEF IInv, Types, NetType
  <2>2. CASE Write(d0, "old", "safeToClose", {}) /\ prev[d0] = "old"
    <3>1. Wired("old", Peer(d0), "safeToClose") /\ shut' = shut \cup {} /\ enc' \in [Device -> Nat]
      BY <2>2, TokenNames, Writing DEF IInv, Types
    <3> QED
      BY <2>2, <3>1 DEF IInv, Types, NetType
  <2>3. CASE WriteFails(d0, "old", {<<"old", d0>>})
    <3>1. wire' = wire /\ shut' = shut \cup {<<"old", d0>>} /\ enc' \in [Device -> Nat]
      BY <2>3, Names, Writing DEF IInv, Types
    <3>2. Wired("old", Peer(d0), "safeToClose")
      BY <3>1, WireSame DEF IInv, Types
    <3> QED
      BY <3>1, <3>2, Names DEF IInv, Types, NetType
  <2> QED
    BY <1>3, <2>1, <2>2, <2>3
<1>5. /\ prev' \in [Device -> {"none", "null", "old"}] /\ upgraded' \subseteq Device
      /\ \A d \in Device : prev'[d] = "old" => prev[d] = "old"
      /\ \A d \in Device : d # d0 => (d \in upgraded' <=> d \in upgraded)
      /\ prev[d0] = "old" => upgraded' = upgraded
  BY <1>3 DEF IInv, Types, DeviceType
<1>6. Types'
  BY <1>1, <1>2, <1>4, <1>5 DEF IInv, Types, NetType, DeviceType, ThreadType, Wired, Posted
<1>7. DataInv'
  BY <1>2, <1>4, DataFrame DEF IInv, Types
<1>8. IntroInv' /\ \A d \in Device : Start(d)' => Start(d)
  BY <1>1, <1>2, TokenNames, IntroFrame DEF IInv
<1>9. ~Queued(d0, "lastWrite")' /\ Turn(Peer(d0), 3) /\ \A n \in 0..7 : Turn(Peer(d0), n) => n = 3
  <2>1. Turn(Peer(d0), 3)
    BY <1>1, Peers DEF Turn
  <2> QED
    BY <1>1, <2>1, Peers DEF IInv, TurnInv
<1>10. ~OnWire("old", Peer(d0), "safeToClose")
  BY <1>9 DEF Turn
<1>11. /\ \A d \in Device, k \in Tokens : \A c \in Channel :
            /\ OnWire(c, d, k)' => OnWire(c, d, k) \/ (c = "old" /\ d = Peer(d0) /\ k = "safeToClose")
            /\ WireOnce(c, d, k) => WireOnce(c, d, k)'
       /\ \A d \in Device, k \in Tokens :
            /\ Queued(d, k)' => Queued(d, k)
            /\ QueuedOnce(d, k) => QueuedOnce(d, k)'
  BY <1>1, <1>4, <1>10, TokenNames DEF Wired, Posted
<1>12. Moves(d0)
  <2>1. \A n \in 0..7 : Turn(d0, n)' => Turn(d0, n)
    BY <1>2, <1>5, <1>8, <1>11, TokenNames, Peers DEF Turn
  <2> QED
    BY <2>1 DEF Moves
<1>13. Moves(Peer(d0))
  <2>1. \A n \in 0..7 : n \notin {4, 5} /\ Turn(Peer(d0), n)' => n # 3 /\ Turn(Peer(d0), n)
    BY <1>2, <1>5, <1>8, <1>9, <1>11, TokenNames, Peers DEF Turn
  <2>2. CASE prev[d0] # "old"
    <3>1. Turn(Peer(d0), 5)' => Turn(Peer(d0), 5)
      BY <1>4, <2>2 DEF Turn, OnWire
    <3>2. \A n \in 0..7 : Turn(Peer(d0), n)' => n = 4 \/ (n # 3 /\ Turn(Peer(d0), n))
      BY <2>1, <3>1
    <3> QED
      BY <1>9, <3>2 DEF Moves
  <2>3. CASE prev[d0] = "old"
    <3>1. Turn(Peer(d0), 4)' => Turn(Peer(d0), 4)
      BY <1>5, <2>3 DEF Turn
    <3>2. \A n \in 0..7 : Turn(Peer(d0), n)' => n = 5 \/ (n # 3 /\ Turn(Peer(d0), n))
      BY <2>1, <3>1
    <3> QED
      BY <1>9, <3>2 DEF Moves
  <2> QED
    BY <2>2, <2>3
<1>14. TurnInv'
  <2>1. \A d \in Device : Moves(d)
    BY <1>12, <1>13, Peers
  <2> QED
    BY <1>11, <2>1, TokenNames, TurnMoves DEF IInv, TurnInv
<1>15. AgreedInv'
  <2>1. \A d \in Device : active[d] = "old" => prev[d] # "old"
    BY DEF IInv, AgreedInv
  <2>2. \A d \in Device : OnWire("new", d, "data")' => OnWire("new", d, "data")
    BY <1>4, TokenNames DEF Wired, Kinds
  <2>3. \A d \in Device : active[d] = "old" =>
          (OnWire("old", Peer(d), "safeToClose")' => OnWire("old", Peer(d), "safeToClose"))
    <3> SUFFICES ASSUME NEW d \in Device, active[d] = "old"
                 PROVE  OnWire("old", Peer(d), "safeToClose")' => OnWire("old", Peer(d), "safeToClose")
      OBVIOUS
    <3>1. CASE d = d0
      BY <1>4, <2>1, <3>1 DEF OnWire
    <3>2. CASE d # d0
      BY <1>11, <3>2, TokenNames, Peers
    <3> QED
      BY <3>1, <3>2
  <2>4. \A d \in Device : Barred(d) => Barred(d)'
    BY <1>2, <1>4 DEF Barred, Closed
  <2> QED
    BY <1>2, <1>5, <1>11, <2>2, <2>3, <2>4, TokenNames, Peers DEF IInv, AgreedInv
<1> QED
  BY <1>6, <1>7, <1>8, <1>14, <1>15 DEF IInv

\* The peer's SAFE_TO_CLOSE.
LEMMA ProcessSafeToClosePriorChannelKeeps ==
  ASSUME IInv, NEW d0 \in Device, ProcessSafeToClosePriorChannel(d0)
  PROVE  IInv'
<1>1. /\ Posted(d0, "init") /\ bwu[d0] = "idle" /\ Queued(d0, "safeToClose")
      /\ QueuedOnce(d0, "safeToClose") => ~Queued(d0, "safeToClose")'
  BY JobTaken DEF ProcessSafeToClosePriorChannel, IInv, Types
<1>2. UNCHANGED <<intro, dialer, dec, active, paused, upgraded, progress, reader, writer, sent, got, tries>>
  BY DEF ProcessSafeToClosePriorChannel, data
<1>3. /\ prev' \in [Device -> {"none", "null", "old"}] /\ plain' \subseteq Device
      /\ \A d \in Device : prev'[d] = "old" => prev[d] = "old"
      /\ bwu' \in [Device -> {"idle", "awaitAck", "lastWrite", "draining", "crashed"}]
      /\ bwu'[d0] \in {"idle", "crashed", "draining"} /\ \A d \in Device : d # d0 => bwu'[d] = bwu[d]
  BY <1>1 DEF ProcessSafeToClosePriorChannel, IInv, Types, NetType, DeviceType, ThreadType
<1>4. Wired("old", Peer(d0), "disconnect") /\ enc' \in [Device -> Nat] /\ shut' = shut
  <2>1. CASE UNCHANGED <<wire, enc, shut>>
    BY <2>1, WireSame DEF IInv, Types, NetType
  <2>2. CASE Send(d0, "old", "disconnect", 0, {})
    <3>1. Wired("old", Peer(d0), "disconnect") /\ shut' = shut \cup {} /\ enc' \in [Device -> Nat]
      BY <2>2, Names, Sending DEF IInv, Types
    <3> QED
      BY <3>1
  <2>3. CASE SendFails(d0, "old", 0, {})
    <3>1. wire' = wire /\ shut' = shut \cup {} /\ enc' \in [Device -> Nat]
      BY <2>3, Names, NotSending DEF IInv, Types
    <3> QED
      BY <3>1, WireSame DEF IInv, Types
  <2> QED
    BY <2>1, <2>2, <2>3 DEF ProcessSafeToClosePriorChannel
<1>5. Types'
  BY <1>1, <1>2, <1>3, <1>4 DEF IInv, Types, NetType, DeviceType, ThreadType, Wired, Posted
<1>6. DataInv'
  BY <1>2, <1>4, DataFrame DEF IInv, Types
<1>7. IntroInv' /\ \A d \in Device : Start(d)' => Start(d)
  BY <1>1, <1>2, <1>3, TokenNames, IntroFrame DEF IInv
<1>8. ~Queued(d0, "safeToClose")' /\ Turn(d0, 6)
  BY <1>1 DEF IInv, TurnInv, Turn
<1>9. /\ \A d \in Device, k \in Tokens : \A c \in Channel :
           /\ OnWire(c, d, k)' => OnWire(c, d, k)
           /\ WireOnce(c, d, k) => WireOnce(c, d, k)'
      /\ \A d \in Device, k \in Tokens :
           /\ Queued(d, k)' => Queued(d, k)
           /\ QueuedOnce(d, k) => QueuedOnce(d, k)'
  BY <1>1, <1>4, TokenNames DEF Wired, Posted
<1>10. Moves(d0)
  <2>1. \A n \in 0..7 : Turn(d0, n)' => n = 7 \/ (n # 6 /\ Turn(d0, n))
    BY <1>2, <1>3, <1>7, <1>8, <1>9, TokenNames, Peers DEF Turn
  <2> QED
    BY <1>8, <2>1 DEF Moves
<1>11. Moves(Peer(d0))
  <2>1. \A n \in 0..7 : Turn(Peer(d0), n)' => Turn(Peer(d0), n)
    BY <1>2, <1>3, <1>7, <1>9, TokenNames, Peers DEF Turn
  <2> QED
    BY <2>1 DEF Moves
<1>12. TurnInv'
  <2>1. \A d \in Device : Moves(d)
    BY <1>10, <1>11, Peers
  <2> QED
    BY <1>9, <2>1, TokenNames, TurnMoves DEF IInv, TurnInv
<1>13. AgreedInv'
  <2>1. active[Peer(d0)] # "old"
    BY <1>1, Peers DEF IInv, AgreedInv
  <2>2. \A d \in Device : OnWire("new", d, "data")' => OnWire("new", d, "data")
    BY <1>4 DEF Wired, Kinds, Channel
  <2>3. \A d \in Device : Barred(d) <=> Barred(d)'
    BY <1>2, <1>4 DEF Barred, Closed
  <2> QED
    BY <1>2, <1>3, <1>9, <2>1, <2>2, <2>3, TokenNames, Peers DEF IInv, AgreedInv
<1> QED
  BY <1>5, <1>6, <1>7, <1>12, <1>13 DEF IInv

\* A payload frame is read.
LEMMA ReadDataKeeps ==
  ASSUME IInv, Types', NEW c0 \in Channel, NEW d0 \in Device,
         UNCHANGED <<shut, intro, dialer, active, paused, prev, upgraded, bwu, bwuQ, writer, sent>>,
         got' = [got EXCEPT ![d0] = @ + 1], \A c1, d1, k1 : Wired(c1, d1, k1),
         Count(wire'[c0][d0]) + 1 <= Count(wire[c0][d0])
  PROVE  IInv'
<1>1. Wired("old", d0, "path") /\ Posted(d0, "init")
  BY QueueSame DEF IInv, Types
<1>2. IntroInv' /\ \A d \in Device : Start(d)' => Start(d)
  BY <1>1, TokenNames, IntroFrame DEF IInv
<1>3. TurnInv'
  BY <1>1, <1>2, Names, TurnFrame DEF IInv
<1>4. \A d \in Device : Barred(d)' <=> Barred(d)
  BY DEF Barred, Closed
<1>5. AgreedInv'
  BY <1>1, <1>4, AgreedFrame DEF IInv
<1>6. DataInv'
  <2>1. wire' \in [Channel -> [Device -> Seq(Frame)]] /\ NetType
    BY DEF IInv, Types, NetType
  <2>2. \A c \in Channel, d \in Device : wire'[c][d] \in Seq(Frame)
    BY <2>1
  <2>3. \A c \in Channel, d \in Device : Count(wire'[c][d]) \in Nat /\ Count(wire[c][d]) \in Nat
    BY <2>1, <2>2, Counts, CountType DEF NetType
  <2>4. \A c \in Channel, d \in Device : Count(wire'[c][d]) <= Count(wire[c][d])
    BY <1>1, <2>3 DEF Wired
  <2>5. "old" \in Channel /\ "new" \in Channel /\ (c0 = "old" \/ c0 = "new")
    BY DEF Channel
  <2>6. /\ \A d \in Device : got[d] \in Nat /\ sent[Peer(d)] \in Nat
        /\ got' \in [Device -> Nat] /\ got'[d0] = got[d0] + 1 /\ \A d \in Device : d # d0 => got'[d] = got[d]
    BY Peers, BwuAssumption DEF IInv, DataInv
  <2>7. ASSUME NEW d \in Device
        PROVE  got'[d] + Count(wire'["old"][d]) + Count(wire'["new"][d]) <= sent[Peer(d)]
    <3>1. got[d] + Count(wire["old"][d]) + Count(wire["new"][d]) <= sent[Peer(d)]
      BY DEF IInv, DataInv
    <3>2. CASE d = d0
      BY <2>3, <2>4, <2>5, <2>6, <3>1, <3>2
    <3>3. CASE d # d0
      BY <2>3, <2>4, <2>5, <2>6, <3>1, <3>3
    <3> QED
      BY <3>2, <3>3
  <2> QED
    BY <2>6, <2>7 DEF IInv, DataInv
<1> QED
  BY <1>2, <1>3, <1>5, <1>6 DEF IInv

\* LAST_WRITE or SAFE_TO_CLOSE is read and handed to the BwuManager thread.
LEMMA ReadTokenKeeps ==
  ASSUME IInv, Types', NEW d0 \in Device, NEW k0 \in Tokens,
         UNCHANGED <<shut, intro, dialer, active, paused, prev, upgraded, bwu, writer, sent, got>>,
         \A c1, d1, k1 : Wired(c1, d1, k1), Posted(d0, k0),
         OnWire("old", d0, k0), ~OnWire("old", d0, k0)'
  PROVE  IInv'
<1>1. Wired("old", d0, "path") /\ "path" # "data"
  OBVIOUS
<1>2. IntroInv' /\ \A d \in Device : Start(d)' => Start(d)
  BY TokenNames, IntroFrame DEF IInv
<1>3. DataInv'
  BY <1>1, DataFrame DEF IInv, Types
<1>4. Peer(d0) \in Device /\ Peer(Peer(d0)) = d0 /\ d0 # Peer(d0)
  BY Peers
<1>5. ~Queued(d0, k0)
  <2>1. CASE k0 = "lastWrite"
    <3>1. Turn(Peer(d0), 2) /\ (Queued(d0, k0) => Turn(Peer(d0), 3))
      BY <1>4, <2>1 DEF Turn
    <3> QED
      BY <1>4, <3>1 DEF IInv, TurnInv
  <2>2. CASE k0 = "safeToClose"
    <3>1. Turn(d0, 5) /\ (Queued(d0, k0) => Turn(d0, 6))
      BY <2>2 DEF Turn
    <3> QED
      BY <3>1 DEF IInv, TurnInv
  <2> QED
    BY <2>1, <2>2, TokenNames
<1>6. /\ \A d \in Device, k \in Tokens : \A c \in Channel :
           /\ OnWire(c, d, k)' => OnWire(c, d, k)
           /\ WireOnce(c, d, k) => WireOnce(c, d, k)'
      /\ \A d \in Device, k \in Tokens :
           /\ Queued(d, k)' => Queued(d, k) \/ (d = d0 /\ k = k0)
           /\ QueuedOnce(d, k) => QueuedOnce(d, k)'
  <2>1. \A d \in Device, k \in Tokens : \A c \in Channel :
           /\ OnWire(c, d, k)' => OnWire(c, d, k)
           /\ WireOnce(c, d, k) => WireOnce(c, d, k)'
    BY <1>1, TokenNames DEF Wired, Tokens
  <2>2. \A d \in Device, k \in Tokens :
           /\ Queued(d, k)' => Queued(d, k) \/ (d = d0 /\ k = k0)
           /\ QueuedOnce(d, k) => QueuedOnce(d, k)'
    BY <1>5, TokenNames DEF Posted
  <2> QED
    BY <2>1, <2>2
<1>7. Moves(d0)
  <2>1. CASE k0 = "lastWrite"
    <3>1. \A n \in 0..7 : Turn(d0, n)' => Turn(d0, n)
      BY <1>2, <1>4, <1>6, <2>1, TokenNames DEF Turn
    <3> QED
      BY <3>1 DEF Moves
  <2>2. CASE k0 = "safeToClose"
    <3>1. \A n \in 0..7 : Turn(d0, n)' => n = 6 \/ (n # 5 /\ Turn(d0, n))
      BY <1>2, <1>4, <1>6, <2>2, TokenNames DEF Turn
    <3>2. Turn(d0, 5)
      BY <2>2 DEF Turn
    <3> QED
      BY <3>1, <3>2 DEF Moves
  <2> QED
    BY <2>1, <2>2, TokenNames
<1>8. Moves(Peer(d0))
  <2>1. CASE k0 = "lastWrite"
    <3>1. \A n \in 0..7 : Turn(Peer(d0), n)' => n = 3 \/ (n # 2 /\ Turn(Peer(d0), n))
      BY <1>2, <1>4, <1>6, <2>1, TokenNames DEF Turn
    <3>2. Turn(Peer(d0), 2)
      BY <1>4, <2>1 DEF Turn
    <3> QED
      BY <3>1, <3>2 DEF Moves
  <2>2. CASE k0 = "safeToClose"
    <3>1. \A n \in 0..7 : Turn(Peer(d0), n)' => Turn(Peer(d0), n)
      BY <1>2, <1>4, <1>6, <2>2, TokenNames DEF Turn
    <3> QED
      BY <3>1 DEF Moves
  <2> QED
    BY <2>1, <2>2, TokenNames
<1>9. TurnInv'
  <2>1. \A d \in Device : Moves(d)
    BY <1>7, <1>8, Peers
  <2> QED
    BY <1>6, <2>1, TokenNames, TurnMoves DEF IInv, TurnInv
<1>10. AgreedInv'
  <2>1. k0 = "safeToClose" => active[Peer(d0)] # "old"
    BY <1>4 DEF IInv, AgreedInv
  <2>2. \A d \in Device : OnWire("new", d, "data")' => OnWire("new", d, "data")
    BY <1>1 DEF Wired, Kinds, Channel
  <2>3. \A d \in Device : Barred(d)' <=> Barred(d)
    BY DEF Barred, Closed
  <2>4. \A d \in Device : active[d] = "old" => (Queued(Peer(d), "safeToClose")' => Queued(Peer(d), "safeToClose"))
    BY <1>4, <1>6, <2>1, TokenNames, Peers
  <2> QED
    BY <1>6, <2>2, <2>3, <2>4, TokenNames, Peers DEF IInv, AgreedInv
<1> QED
  BY <1>2, <1>3, <1>9, <1>10 DEF IInv

\* HandleData
LEMMA HandleDataKeeps ==
  ASSUME IInv, NEW d0 \in Device, HandleData(d0)
  PROVE  IInv'
<1>1. PICK c0 \in Channel : c0 = reader[d0]
  BY DEF HandleData
<1>2. PICK f : f = Head(wire[c0][d0])
  OBVIOUS
<1>3. /\ UNCHANGED <<enc, plain, intro, dialer, active, prev, upgraded, progress, bwu, writer, sent, tries>>
      /\ wire[c0][d0] # <<>> /\ wire' = [wire EXCEPT ![c0][d0] = Tail(@)]
  BY <1>1 DEF HandleData, mgr
<1>4. /\ f.k \in Kinds /\ OnWire(c0, d0, f.k) /\ (WireOnce(c0, d0, f.k) => ~OnWire(c0, d0, f.k)')
      /\ \A c1, d1, k1 : Wired(c1, d1, k1)
      /\ Count(wire'[c0][d0]) + (IF f.k = "data" THEN 1 ELSE 0) <= Count(wire[c0][d0])
  BY <1>2, <1>3, WireTake DEF IInv, Types
<1>5. \/ Deliver(d0, c0, f)
      \/ UNCHANGED <<got, shut, paused, bwuQ>>
  BY <1>1, <1>2 DEF HandleData
<1>6. dec' \in [Device -> Nat] /\ reader' \in [Device -> Channel \cup {"gone"}]
  <2>1. \/ dec' = [dec EXCEPT ![d0] = @ + 1] /\ reader' = reader
        \/ dec' = dec /\ reader' = reader
        \/ dec' = dec /\ Refetch(d0)
    BY DEF HandleData
  <2> QED
    BY <2>1, Names DEF Refetch, IInv, Types, DeviceType
<1>7. wire' \in [Channel -> [Device -> Seq(Frame)]]
  BY <1>4 DEF Wired
<1>8. CASE UNCHANGED <<got, shut, paused, bwuQ>>
  <2>1. Types'
    BY <1>3, <1>6, <1>7, <1>8 DEF IInv, Types, NetType, DeviceType, ThreadType
  <2>2. Plain
    BY <1>3, <1>8 DEF Plain, Barred, Closed
  <2>3. Posted(d0, "init") /\ Wired("old", d0, "path")
    BY <1>4, <1>8, QueueSame DEF IInv, Types
  <2> QED
    BY <2>1, <2>2, <2>3, Names, PlainKeeps
<1>9. CASE Deliver(d0, c0, f) /\ f.k = "data"
  <2>1. UNCHANGED <<shut, paused, bwuQ>> /\ got' = [got EXCEPT ![d0] = @ + 1]
    BY <1>9 DEF Deliver
  <2>2. Types'
    BY <1>3, <1>6, <1>7, <2>1 DEF IInv, Types, NetType, DeviceType, ThreadType
  <2>3. Count(wire'[c0][d0]) + 1 <= Count(wire[c0][d0])
    BY <1>4, <1>9
  <2> QED
    BY <1>3, <1>4, <2>1, <2>2, <2>3, ReadDataKeeps
<1>10. CASE Deliver(d0, c0, f) /\ f.k \in Tokens
  <2>1. UNCHANGED <<shut, paused>> /\ got' = got /\ Posted(d0, f.k)
    <3>1. UNCHANGED <<shut, paused>> /\ Post(d0, f.k) /\ got' = [got EXCEPT ![d0] = @]
      BY <1>10, TokenNames DEF Deliver, Post
    <3>2. got' = got
      BY <3>1 DEF IInv, DataInv
    <3> QED
      BY <1>10, <3>1, <3>2, TokenNames, JobPosted DEF IInv, Types
  <2>2. Types'
    BY <1>3, <1>6, <1>7, <2>1 DEF IInv, Types, NetType, DeviceType, ThreadType, Posted
  <2>3. c0 = "old" /\ WireOnce(c0, d0, f.k)
    BY <1>4, <1>10 DEF IInv, TurnInv, Channel, Tokens
  <2> QED
    BY <1>3, <1>4, <1>10, <2>1, <2>2, <2>3, ReadTokenKeeps
<1>11. CASE Deliver(d0, c0, f) /\ f.k \notin Tokens /\ f.k # "data"
  <2>1. f.k \in {"path", "fail", "disconnect"}
    BY <1>4, <1>11 DEF Kinds, Tokens
  <2>2. got' = got
    BY <1>11 DEF Deliver, IInv, DataInv
  <2>3. \E k1 : k1 \notin Tokens \cup {"incoming"} /\ Posted(d0, k1)
    <3>1. CASE f.k = "disconnect"
      <4>1. bwuQ' = bwuQ
        BY <1>11, <3>1 DEF Deliver
      <4>2. Posted(d0, "init")
        BY <4>1, QueueSame DEF IInv, Types
      <4> QED
        BY <4>2, Names
    <3>2. CASE f.k \in {"path", "fail"}
      <4>1. Post(d0, f.k) /\ f.k \in Job /\ f.k # "incoming"
        BY <1>11, <3>2 DEF Deliver, Post, Job
      <4>2. Posted(d0, f.k)
        BY <4>1, JobPosted DEF IInv, Types
      <4> QED
        BY <1>11, <4>1, <4>2
    <3> QED
      BY <2>1, <3>1, <3>2
  <2>4. /\ shut \subseteq shut' /\ shut' \subseteq Channel \X Device
        /\ paused' \subseteq paused /\ \A d \in Device : d # d0 /\ d \in paused => d \in paused'
        /\ paused' = paused \/ <<"new", d0>> \in shut'
    BY <1>11 DEF Deliver, IInv, Types, NetType
  <2>5. bwuQ' \in [Device -> Seq(Job)]
    BY <2>3 DEF Posted
  <2>6. Types'
    BY <1>3, <1>6, <1>7, <2>4, <2>5 DEF IInv, Types, NetType, DeviceType, ThreadType
  <2>7. \A d \in Device : Barred(d) => Barred(d)'
    BY <2>4 DEF Barred, Closed
  <2>8. Plain
    BY <1>3, <2>2, <2>7 DEF Plain
  <2>9. Wired("old", d0, "path")
    BY <1>4
  <2> QED
    BY <2>3, <2>6, <2>8, <2>9, Names, PlainKeeps
<1> QED
  BY <1>5, <1>8, <1>9, <1>10, <1>11

\* The writer fetches the endpoint's channel.
LEMMA FetchChannelKeeps ==
  ASSUME IInv, NEW d0 \in Device, FetchChannel(d0)
  PROVE  IInv'
<1>1. /\ UNCHANGED <<wire, shut, enc, plain, intro, dialer, dec, active, paused, prev, upgraded, progress, bwu,
                     bwuQ, reader, sent, got, tries>>
      /\ active[d0] \in Channel /\ sent[d0] < MaxData /\ writer' = [writer EXCEPT ![d0] = active[d0]]
  BY DEF FetchChannel, net, mgr, data
<1>2. /\ writer' \in [Device -> Channel \cup {"idle", "over"}]
      /\ writer'[d0] = active[d0] /\ \A d \in Device : d # d0 => writer'[d] = writer[d]
  BY <1>1 DEF IInv, Types, DeviceType
<1>3. Types'
  BY <1>1, <1>2 DEF IInv, Types, NetType, DeviceType, ThreadType
<1>4. DataInv'
  BY <1>1, <1>2 DEF IInv, DataInv
<1>5. Wired("old", d0, "path") /\ Posted(d0, "init")
  BY <1>1, WireSame, QueueSame DEF IInv, Types
<1>6. IntroInv' /\ \A d \in Device : Start(d)' => Start(d)
  BY <1>1, <1>5, TokenNames, IntroFrame DEF IInv
<1>7. TurnInv'
  BY <1>1, <1>5, <1>6, Names, TurnFrame DEF IInv
<1>8. AgreedInv'
  <2>1. \A d \in Device, k \in Kinds : \A c \in Channel : OnWire(c, d, k)' <=> OnWire(c, d, k)
    BY <1>1 DEF OnWire
  <2>2. \A d \in Device, k \in Job : Queued(d, k)' <=> Queued(d, k)
    BY <1>1 DEF Queued
  <2>3. \A d \in Device : Barred(d)' <=> Barred(d)
    BY <1>1 DEF Barred, Closed
  <2>4. "data" \in Kinds /\ "safeToClose" \in Kinds /\ "safeToClose" \in Job
    BY DEF Kinds, Job
  <2>5. ASSUME NEW d \in Device, active[d] = "old", active[Peer(d)] = "new" \/ writer'[Peer(d)] = "new"
        PROVE  Barred(Peer(d))
    <3>1. writer'[Peer(d)] = "new" => writer[Peer(d)] = "new" \/ active[Peer(d)] = "new"
      BY <1>2, <2>5, Peers
    <3> QED
      BY <2>5, <3>1 DEF IInv, AgreedInv
  <2>6. \A d \in Device : writer'[d] = "new" => active[d] # "old"
    BY <1>2, TokenNames DEF IInv, AgreedInv
  <2> QED
    BY <1>1, <2>1, <2>2, <2>3, <2>4, <2>5, <2>6, Names, Peers DEF IInv, AgreedInv
<1> QED
  BY <1>3, <1>4, <1>6, <1>7, <1>8 DEF IInv

\* A payload frame is written, or the payload ends.
LEMMA WriteDataKeeps ==
  ASSUME IInv, NEW d0 \in Device, WriteData(d0)
  PROVE  IInv'
<1>1. PICK c0 \in Channel : c0 = writer[d0]
  BY DEF WriteData
<1>2. /\ UNCHANGED <<plain, intro, dialer, dec, active, paused, prev, upgraded, progress, bwu, bwuQ, reader,
                     got, tries>>
      /\ ~Blocked(d0, c0)
  BY <1>1 DEF WriteData, mgr
<1>3. \/ /\ Write(d0, c0, "data", {}) /\ sent' = [sent EXCEPT ![d0] = @ + 1]
         /\ writer' = [writer EXCEPT ![d0] = "idle"]
      \/ WriteFails(d0, c0, {}) /\ writer' = [writer EXCEPT ![d0] = "over"] /\ sent' = sent
  BY <1>1 DEF WriteData
<1>4. /\ writer' \in [Device -> Channel \cup {"idle", "over"}]
      /\ writer'[d0] \notin Channel /\ \A d \in Device : d # d0 => writer'[d] = writer[d]
  BY <1>3 DEF IInv, Types, DeviceType, Channel
<1>5. Wired(c0, Peer(d0), "data") /\ shut' = shut /\ enc' \in [Device -> Nat]
  <2>1. CASE Write(d0, c0, "data", {})
    <3>1. "data" \in Kinds
      BY DEF Kinds
    <3>2. Wired(c0, Peer(d0), "data") /\ shut' = shut \cup {} /\ enc' \in [Device -> Nat]
      BY <2>1, <3>1, Writing DEF IInv, Types
    <3> QED
      BY <3>2
  <2>2. CASE WriteFails(d0, c0, {})
    <3>1. wire' = wire /\ shut' = shut \cup {} /\ enc' \in [Device -> Nat]
      BY <2>2, Writing DEF IInv, Types
    <3> QED
      BY <3>1, WireSame DEF IInv, Types
  <2> QED
    BY <1>3, <2>1, <2>2
<1>6. c0 = "new" => active[Peer(d0)] # "old" \/ wire' = wire
  <2>1. CASE Write(d0, c0, "data", {})
    <3>1. ~Closed(c0, d0)
      BY <2>1 DEF Write, Send
    <3>2. c0 = "new" => ~Barred(d0)
      BY <1>2, <3>1 DEF Barred, Blocked
    <3> QED
      BY <1>1, <3>2, Peers DEF IInv, AgreedInv
  <2>2. CASE WriteFails(d0, c0, {})
    BY <2>2 DEF WriteFails, SendFails
  <2> QED
    BY <1>3, <2>1, <2>2
<1>7. Types'
  BY <1>2, <1>4, <1>5 DEF IInv, Types, NetType, DeviceType, ThreadType, Wired
<1>8. Posted(d0, "init")
  BY <1>2, QueueSame DEF IInv, Types
<1>9. IntroInv' /\ \A d \in Device : Start(d)' => Start(d)
  BY <1>2, <1>8, TokenNames, IntroFrame DEF IInv
<1>10. TurnInv'
  BY <1>2, <1>5, <1>8, <1>9, TokenNames, TurnFrame DEF IInv
<1>11. AgreedInv'
  <2>1. \A d \in Device : /\ OnWire("old", d, "safeToClose")' => OnWire("old", d, "safeToClose")
                          /\ Queued(d, "safeToClose")' => Queued(d, "safeToClose")
    BY <1>5, <1>8, TokenNames DEF Wired, Posted
  <2>2. \A d \in Device : active[d] = "old" => (OnWire("new", d, "data")' => OnWire("new", d, "data"))
    <3>1. \A d \in Device : OnWire("new", d, "data")' => OnWire("new", d, "data") \/ (c0 = "new" /\ d = Peer(d0))
      BY <1>5 DEF Wired, Kinds, Channel
    <3>2. wire' = wire => \A d \in Device : OnWire("new", d, "data")' => OnWire("new", d, "data")
      BY DEF OnWire
    <3> QED
      BY <1>6, <3>1, <3>2
  <2>3. \A d \in Device : (Barred(d)' <=> Barred(d)) /\ (writer'[d] = "new" => writer[d] = "new")
    BY <1>2, <1>4, <1>5, Names DEF Barred, Closed
  <2> QED
    BY <1>2, <2>1, <2>2, <2>3, Peers DEF IInv, AgreedInv
<1>12. DataInv'
  <2>1. wire' \in [Channel -> [Device -> Seq(Frame)]] /\ NetType
    BY <1>5 DEF IInv, Types, Wired
  <2>2. \A c \in Channel, d \in Device : wire'[c][d] \in Seq(Frame)
    BY <2>1
  <2>3. \A c \in Channel, d \in Device : Count(wire'[c][d]) \in Nat /\ Count(wire[c][d]) \in Nat
    BY <2>1, <2>2, Counts, CountType DEF NetType
  <2>4. "old" \in Channel /\ "new" \in Channel /\ "old" # "new" /\ (c0 = "old" \/ c0 = "new")
    BY DEF Channel
  <2>5. sent[d0] < MaxData /\ sent \in [Device -> 0..MaxData] /\ MaxData \in Nat
    BY <1>1, BwuAssumption DEF IInv, DataInv
  <2>6. CASE WriteFails(d0, c0, {}) /\ sent' = sent
    <3>1. wire' = wire
      BY <2>6 DEF WriteFails, SendFails
    <3> QED
      BY <1>2, <1>4, <2>6, <3>1 DEF IInv, DataInv
  <2>7. CASE sent' = [sent EXCEPT ![d0] = @ + 1]
    <3>1. /\ sent' \in [Device -> 0..MaxData] /\ sent'[d0] = sent[d0] + 1
          /\ \A d \in Device : d # d0 => sent'[d] = sent[d]
      BY <2>5, <2>7
    <3>2. \A d \in Device : writer'[d] \in Channel => sent'[d] < MaxData
      BY <1>4, <3>1 DEF IInv, DataInv
    <3>3. ASSUME NEW d \in Device
          PROVE  got[d] + Count(wire'["old"][d]) + Count(wire'["new"][d]) <= sent'[Peer(d)]
      <4>1. got[d] + Count(wire["old"][d]) + Count(wire["new"][d]) <= sent[Peer(d)]
        BY DEF IInv, DataInv
      <4>2. got[d] \in Nat /\ Peer(d) \in Device /\ sent[Peer(d)] \in Nat
        BY <2>5, Peers DEF IInv, DataInv
      <4>3. CASE d = Peer(d0)
        <5>1. Peer(d) = d0
          BY <4>3, Peers
        <5>2. /\ c0 = "old" => /\ Count(wire'["old"][d]) <= Count(wire["old"][d]) + 1
                               /\ Count(wire'["new"][d]) <= Count(wire["new"][d])
              /\ c0 = "new" => /\ Count(wire'["new"][d]) <= Count(wire["new"][d]) + 1
                               /\ Count(wire'["old"][d]) <= Count(wire["old"][d])
          <6>1. \A c \in Channel : Count(wire'[c][d]) <= Count(wire[c][d]) + IF c = c0 THEN 1 ELSE 0
            BY <1>5, <4>3 DEF Wired
          <6>2. CASE c0 = "old"
            BY <2>3, <2>4, <6>1, <6>2
          <6>3. CASE c0 = "new"
            BY <2>3, <2>4, <6>1, <6>3
          <6> QED
            BY <2>4, <6>2, <6>3
        <5> QED
          BY <2>3, <2>4, <3>1, <4>1, <4>2, <5>1, <5>2
      <4>4. CASE d # Peer(d0)
        <5>1. Peer(d) # d0
          BY <4>4, Peers
        <5>2. /\ Count(wire'["old"][d]) <= Count(wire["old"][d])
              /\ Count(wire'["new"][d]) <= Count(wire["new"][d])
          <6>1. \A c \in Channel : Count(wire'[c][d]) <= Count(wire[c][d]) + 0
            BY <1>5, <4>4 DEF Wired
          <6> QED
            BY <2>3, <2>4, <6>1
        <5> QED
          BY <2>3, <2>4, <3>1, <4>1, <4>2, <5>1, <5>2
      <4> QED
        BY <4>3, <4>4
    <3> QED
      BY <1>2, <3>1, <3>2, <3>3 DEF IInv, DataInv
  <2> QED
    BY <1>3, <2>6, <2>7
<1> QED
  BY <1>7, <1>9, <1>10, <1>11, <1>12 DEF IInv

-----------------------------------------------------------------------------
(* The invariant and what follows from it.                                 *)

\* The invariant holds initially: nothing is on its way and nobody has upgraded.
LEMMA InitInv == Init => IInv
<1> SUFFICES ASSUME Init PROVE IInv
  OBVIOUS
<1>1. /\ \A c \in Channel, d \in Device : wire[c][d] = <<>>
      /\ \A d \in Device : bwuQ[d] = <<>> /\ bwu[d] = "idle" /\ active[d] = "old" /\ prev[d] = "none"
                           /\ writer[d] = "idle" /\ sent[d] = 0 /\ got[d] = 0
      /\ upgraded = {} /\ intro = "none"
  BY DEF Init
<1>2. Types
  <2>1. NetType
    BY Names DEF Init, NetType
  <2>2. DeviceType
    BY Names DEF Init, DeviceType
  <2>3. ThreadType
    BY BwuAssumption DEF Init, ThreadType
  <2> QED
    BY <2>1, <2>2, <2>3 DEF Types
<1>3. DataInv
  <2>1. PayloadFrames(<<>>) = {}
    BY DEF PayloadFrames
  <2>2. Count(<<>>) = 0
    BY <2>1, FS_EmptySet DEF Count
  <2>3. \A d \in Device : Count(wire["old"][d]) = 0 /\ Count(wire["new"][d]) = 0
    BY <1>1, <2>2, Names
  <2>4. sent \in [Device -> 0..MaxData] /\ got \in [Device -> Nat]
    BY BwuAssumption DEF Init
  <2>5. \A d \in Device : writer[d] \notin Channel
    BY <1>1 DEF Channel
  <2> QED
    BY <1>1, <2>3, <2>4, <2>5, Peers DEF DataInv
<1>4. /\ \A c \in Channel, d \in Device, k \in Kinds : ~OnWire(c, d, k) /\ WireOnce(c, d, k)
      /\ \A d \in Device, k \in Job : ~Queued(d, k) /\ QueuedOnce(d, k)
  BY <1>1 DEF OnWire, WireOnce, Queued, QueuedOnce
<1>5. IntroInv
  <2>1. "incoming" \in Job
    BY DEF Job
  <2> QED
    BY <1>1, <1>4, <2>1 DEF IntroInv
<1>6. \A d \in Device, n \in 0..7 : Turn(d, n) => n = 0
  BY <1>1, <1>4, TokenNames, Peers DEF Turn
<1>7. TurnInv
  BY <1>4, <1>6, TokenNames DEF TurnInv
<1>8. AgreedInv
  <2>1. "data" \in Kinds
    BY DEF Kinds
  <2> QED
    BY <1>1, <1>4, <2>1, TokenNames, Peers DEF AgreedInv
<1> QED
  BY <1>2, <1>3, <1>5, <1>7, <1>8 DEF IInv

\* Every step keeps it.
LEMMA NextInv == IInv /\ [Next]_vars => IInv'
<1> SUFFICES ASSUME IInv, [Next]_vars PROVE IInv'
  OBVIOUS
<1>1. ASSUME NEW d \in Device, InitiateBwuForEndpoint(d) \/ OnIncomingConnection(d) PROVE IInv'
  BY <1>1, InitiateBwuForEndpointKeeps, OnIncomingConnectionKeeps
<1>2. ASSUME NEW d \in Device, BwuNext(d) PROVE IInv'
  BY <1>2, InitiateKeeps, DuplicatePathKeeps, ProcessBwuPathAvailableKeeps, ReadClientIntroductionKeeps,
     ReadClientIntroductionAckKeeps, AckFailsKeeps, ProcessUpgradeFailureKeeps, WriteLastWriteKeeps,
     ProcessLastWriteToPriorChannelKeeps, ProcessSafeToClosePriorChannelKeeps, ClosePriorChannelKeeps,
     OnEndpointDisconnectKeeps DEF BwuNext
<1>3. ASSUME NEW d \in Device, ReaderNext(d) PROVE IInv'
  BY <1>3, HandleDataKeeps, ReadFailsKeeps DEF ReaderNext
<1>4. ASSUME NEW d \in Device, FetchChannel(d) \/ WriteData(d) \/ RemoveEndpoint(d) PROVE IInv'
  BY <1>4, FetchChannelKeeps, WriteDataKeeps, RemoveEndpointKeeps
<1>5. ASSUME NEW c \in Channel, ChannelBreaks(c) PROVE IInv'
  BY <1>5, ChannelBreaksKeeps
<1>6. CASE UNCHANGED vars
  <2>1. UNCHANGED <<wire, shut, enc, plain, intro, dialer, dec, active, paused, prev, upgraded, progress, bwu,
                    bwuQ, reader, writer, sent, got, tries>>
    BY <1>6 DEF vars, net, mgr, data
  <2>2. Types'
    BY <2>1 DEF IInv, Types, NetType, DeviceType, ThreadType
  <2>3. Plain
    BY <2>1 DEF Plain, Barred, Closed
  <2>4. Wired("old", "a", "path") /\ Posted("a", "init")
    BY <2>1, WireSame, QueueSame DEF IInv, Types
  <2> QED
    BY <2>2, <2>3, <2>4, Names, PlainKeeps
<1> QED
  BY <1>1, <1>2, <1>3, <1>4, <1>5, <1>6 DEF Next

\* LAST_WRITE of each device, or the answer to it, is in one place, and a device's new
\* channel carries nothing while the peer has not replaced its own.
THEOREM Invariance == Spec => []IInv
<1>1. IInv /\ [Next]_vars => IInv'
  BY NextInv
<1> QED
  BY InitInv, <1>1, PTL DEF Spec

\* BwuManager's state has its types; no more payload frames are received than written.
THEOREM TypeCorrect == Spec => []TypeOK
<1>1. IInv => TypeOK
  <2> SUFFICES ASSUME IInv PROVE TypeOK
    OBVIOUS
  <2>1. \A c \in Channel, d \in Device : wire[c][d] \in Seq(Frame) /\ Count(wire[c][d]) \in Nat
    BY Counts DEF IInv, Types, NetType
  <2>2. \A c \in Channel, d \in Device :
          \A i \in 1..Len(wire[c][d]) : wire[c][d][i] \in [k : Kinds, s : Nat]
    <3> SUFFICES ASSUME NEW c \in Channel, NEW d \in Device, NEW i \in 1..Len(wire[c][d])
                 PROVE  wire[c][d][i] \in Frame
      BY DEF Frame
    <3>1. PICK q \in Seq(Frame) : q = wire[c][d]
      BY <2>1
    <3>2. q[i] \in Frame
      BY <3>1
    <3> QED
      BY <3>1, <3>2
  <2>3. got \in [Device -> 0..MaxData]
    <3> SUFFICES ASSUME NEW d \in Device PROVE got[d] \in 0..MaxData
      BY DEF IInv, DataInv
    <3>1. got[d] + Count(wire["old"][d]) + Count(wire["new"][d]) <= sent[Peer(d)]
      BY DEF IInv, DataInv
    <3>2. got[d] \in Nat /\ sent[Peer(d)] \in 0..MaxData /\ MaxData \in Nat
      BY Peers, BwuAssumption DEF IInv, DataInv
    <3>3. Count(wire["old"][d]) \in Nat /\ Count(wire["new"][d]) \in Nat
      BY <2>1, Names
    <3> QED
      BY <3>1, <3>2, <3>3
  <2> QED
    BY <2>2, <2>3 DEF IInv, Types, NetType, DeviceType, ThreadType, DataInv, TypeOK
<1> QED
  BY Invariance, <1>1, PTL

\* A device that closes the old channel has had its LAST_WRITE read by the peer.
THEOREM LastWritesRead == Spec => []LastWriteRead
<1>1. IInv => LastWriteRead
  <2> SUFFICES ASSUME IInv, NEW d \in Device, bwu[d] = "draining"
               PROVE  ~OnWire("old", Peer(d), "lastWrite")
    BY DEF LastWriteRead, OnWire
  <2>1. Turn(d, 7) /\ (OnWire("old", Peer(d), "lastWrite") => Turn(d, 2))
    BY DEF Turn
  <2> QED
    BY <2>1 DEF IInv, TurnInv
<1> QED
  BY Invariance, <1>1, PTL

\* No payload frame travels on the new channel to a device that still has the old one.
THEOREM NewChannelsAgreed == Spec => []NewChannelAgreed
<1>1. IInv => NewChannelAgreed
  BY DEF IInv, AgreedInv, NewChannelAgreed, OnWire
<1> QED
  BY Invariance, <1>1, PTL

-----------------------------------------------------------------------------
(* The order of the frames, without late writes and faults.                *)

\* The frames of o, on the old channel, then those of w, on the new one, are what a
\* device is to read that has decoded up to r from a peer that has encoded up to e:
\* z frames numbered from r + 1, the peer's DISCONNECTION, payload numbered after them.
Chained(o, w, z, e, r) ==
  /\ z \in Nat /\ z <= Len(o) /\ e = r + z + Len(w)
  /\ \A i \in 1..Len(o) :
       /\ i <= z => o[i].s = r + i /\ o[i].k # "disconnect"
       /\ z < i => o[i].s = 0 /\ o[i].k = "disconnect"
       /\ o[i].k = "safeToClose" => i = z
  /\ \A i \in 1..Len(w) : w[i].s = r + z + i /\ w[i].k = "data"

Flow(d, z) == Chained(wire["old"][d], wire["new"][d], z, enc[Peer(d)], dec[d])

\* Every payload frame written has been received or is on its way.
Exact(d) == got[d] + Count(wire["old"][d]) + Count(wire["new"][d]) = sent[Peer(d)]

\* Where UPGRADE_PATH_AVAILABLE of x, or the peer's answer that it failed, is.
Offer(x, n) ==
  \/ n = 1 /\ OnWire("old", Peer(x), "path")
  \/ n = 2 /\ Queued(Peer(x), "path")
  \/ n = 3 /\ OnWire("old", x, "fail")
  \/ n = 4 /\ Queued(x, "fail")
OfferInv ==
  /\ \A x \in Device : \A m, n \in 1..4 : Offer(x, m) /\ Offer(x, n) => m = n
  /\ \A x \in Device : \A k \in {"path", "fail"} : WireOnce("old", x, k) /\ QueuedOnce(x, k)
  /\ \A x \in Device, n \in 1..4 : Offer(x, n) => x \in progress

\* That it failed is heard before the peer's own offer.
WFirst(q) == \A i, j \in 1..Len(q) : q[i].k = "fail" /\ q[j].k = "path" => i < j
QFirst(q) == \A i, j \in 1..Len(q) : q[i] = "fail" /\ q[j] = "path" => i < j
FailFirst(d) ==
  /\ WFirst(wire["old"][d]) /\ QFirst(bwuQ[d])
  /\ OnWire("old", d, "fail") => ~Queued(d, "path")

\* Before the new socket: only the old channel is used.
QuietSide(d) ==
  /\ active[d] = "old" /\ reader[d] = "old" /\ writer[d] # "new" /\ ~Queued(d, "removed")
  /\ wire["new"][d] = <<>> /\ Flow(d, Len(wire["old"][d])) /\ Exact(d) /\ FailFirst(d)
Quiet ==
  /\ intro = "none" /\ shut = {} /\ plain = {} /\ paused = {}
  /\ OfferInv /\ \A d \in Device : QuietSide(d)

\* Both devices have offered the upgrade at once and the old channel is closed: nobody
\* can upgrade any more and nothing more is heard.
TornSide(d) ==
  /\ active[d] # "new" /\ reader[d] # "new" /\ writer[d] # "new"
  /\ d \in progress \/ active[d] = "none"
  /\ Queued(d, "removed") => active[d] = "none"
  /\ ~OnWire("old", d, "fail") /\ ~Queued(d, "fail") /\ wire["new"][d] = <<>>
  /\ \A i \in 1..Len(wire["old"][d]) : wire["old"][d][i].s = dec[d] + i
Torn ==
  /\ intro = "none" /\ plain = {} /\ paused = {}
  /\ \E d \in Device : Closed("old", d)
  /\ \A d \in Device : TornSide(d)

\* The peer has answered LAST_WRITE of d: it writes nothing encrypted on the old
\* channel any more.
Answered(d) == OnWire("old", d, "safeToClose") \/ Queued(d, "safeToClose") \/ d \in plain

\* After the new socket.
MovingSide(d) ==
  /\ active[d] \in Channel /\ reader[d] \in Channel /\ ~Closed("new", d)
  /\ Closed("old", d) => plain = Device
  /\ writer[d] = "old" => active[d] = "old"
  /\ active[d] = "old" => d \in progress \/ bwu[d] = "awaitAck"
  /\ active[d] = "new" => ~Start(d) /\ (d \in paused \/ d \in plain)
  /\ reader[d] = "new" => active[d] = "new" /\ Peer(d) \in plain
  /\ bwu[d] = "draining" => d \in plain
  /\ d \in plain => active[d] = "new" /\ prev[d] # "old" /\ \A n \in 0..6 : ~Turn(d, n)
  /\ Answered(d) => active[Peer(d)] = "new" /\ bwu[Peer(d)] # "lastWrite"
  /\ \A k \in {"path", "fail"} : ~OnWire("old", d, k) /\ ~Queued(d, k)
  /\ ~Queued(d, "removed")
Ordered(d) ==
  \E z \in Nat :
    /\ Flow(d, z)
    /\ Peer(d) \notin plain => z = Len(wire["old"][d]) /\ wire["new"][d] = <<>>
    /\ Queued(d, "safeToClose") \/ d \in plain \/ reader[d] = "new" => z = 0
Moving ==
  /\ intro \in {"connected", "posted", "acked"}
  /\ \A d \in Device : MovingSide(d) /\ Ordered(d) /\ Exact(d)

OrderInv == Quiet \/ Torn \/ Moving

-----------------------------------------------------------------------------
\* A numbered frame is written on the old channel.
LEMMA ChainOld ==
  ASSUME NEW o \in Seq(Frame), NEW e \in Nat, NEW r \in Nat, NEW x \in Frame, NEW z,
         Chained(o, <<>>, z, e, r), z = Len(o), x.s = e + 1, x.k # "disconnect",
         \A i \in 1..Len(o) : o[i].k # "safeToClose", NEW u, u = Append(o, x)
  PROVE  Chained(u, <<>>, Len(u), e + 1, r)
<1>1. /\ u \in Seq(Frame) /\ Len(o) \in Nat /\ Len(u) = Len(o) + 1 /\ u[Len(o) + 1] = x
      /\ \A n \in 1..Len(o) : u[n] = o[n]
  BY SeqAdd
<1>2. e = r + Len(o) /\ Len(<<>>) = 0
  BY <1>1 DEF Chained
<1>3. ASSUME NEW i \in 1..Len(u)
      PROVE  u[i].s = r + i /\ u[i].k # "disconnect" /\ (u[i].k = "safeToClose" => i = Len(u))
  <2>1. CASE i = Len(o) + 1
    BY <1>1, <1>2, <2>1
  <2>2. CASE i \in 1..Len(o)
    BY <1>1, <2>2 DEF Chained
  <2> QED
    BY <1>1, <2>1, <2>2
<1>4. e + 1 = r + Len(u) + 0
  BY <1>1, <1>2
<1> QED
  BY <1>1, <1>2, <1>3, <1>4 DEF Chained

\* The DISCONNECTION that is not encrypted is.
LEMMA ChainLast ==
  ASSUME NEW o \in Seq(Frame), NEW w, NEW e, NEW r, NEW x \in Frame, NEW z,
         Chained(o, w, z, e, r), x.s = 0, x.k = "disconnect", NEW u, u = Append(o, x)
  PROVE  Chained(u, w, z, e, r)
<1>1. /\ u \in Seq(Frame) /\ Len(o) \in Nat /\ Len(u) = Len(o) + 1 /\ u[Len(o) + 1] = x
      /\ \A n \in 1..Len(o) : u[n] = o[n]
  BY SeqAdd
<1>2. z \in Nat /\ z <= Len(u)
  BY <1>1 DEF Chained
<1>3. ASSUME NEW i \in 1..Len(u)
      PROVE  /\ i <= z => u[i].s = r + i /\ u[i].k # "disconnect"
             /\ z < i => u[i].s = 0 /\ u[i].k = "disconnect"
             /\ u[i].k = "safeToClose" => i = z
  <2>1. CASE i = Len(o) + 1
    BY <1>1, <2>1 DEF Chained
  <2>2. CASE i \in 1..Len(o)
    BY <1>1, <2>2 DEF Chained
  <2> QED
    BY <1>1, <2>1, <2>2
<1> QED
  BY <1>2, <1>3 DEF Chained

\* A payload frame is written on the new channel.
LEMMA ChainNew ==
  ASSUME NEW o \in Seq(Frame), NEW w \in Seq(Frame), NEW e \in Nat, NEW r \in Nat, NEW x \in Frame, NEW z,
         Chained(o, w, z, e, r), x.s = e + 1, x.k = "data", NEW u, u = Append(w, x)
  PROVE  Chained(o, u, z, e + 1, r)
<1>1. /\ u \in Seq(Frame) /\ Len(w) \in Nat /\ Len(u) = Len(w) + 1 /\ u[Len(w) + 1] = x
      /\ \A n \in 1..Len(w) : u[n] = w[n]
  BY SeqAdd
<1>2. z \in Nat /\ e = r + z + Len(w)
  BY DEF Chained
<1>3. ASSUME NEW i \in 1..Len(u) PROVE u[i].s = r + z + i /\ u[i].k = "data"
  <2>1. CASE i = Len(w) + 1
    BY <1>1, <1>2, <2>1
  <2>2. CASE i \in 1..Len(w)
    BY <1>1, <2>2 DEF Chained
  <2> QED
    BY <1>1, <2>1, <2>2
<1>4. e + 1 = r + z + Len(u)
  BY <1>1, <1>2
<1> QED
  BY <1>3, <1>4 DEF Chained

\* What is left when x has been read from the old channel.
Rest(x, u, w, z, e, r) ==
  /\ x.s = r + 1 => /\ Chained(u, w, z - 1, e, r + 1) /\ z > 0 /\ x.k # "disconnect"
                    /\ x.k = "safeToClose" => z = 1
                    /\ \A i \in 1..Len(u) : u[i].k = "safeToClose" => z > 1
  /\ x.s # r + 1 => Chained(u, w, 0, e, r) /\ z = 0 /\ x.s = 0 /\ x.k = "disconnect"

\* A frame is read from the old channel.
LEMMA ChainTake ==
  ASSUME NEW o \in Seq(Frame), NEW w, NEW e, NEW r \in Nat, NEW z, o # <<>>, Len(w) \in Nat,
         Chained(o, w, z, e, r), NEW u, u = Tail(o), NEW x, x = Head(o)
  PROVE  Rest(x, u, w, z, e, r) /\ Len(u) = Len(o) - 1
<1>1. /\ u \in Seq(Frame) /\ Len(o) \in Nat /\ Len(o) >= 1 /\ Len(u) = Len(o) - 1 /\ x = o[1]
      /\ \A n \in 1..Len(u) : u[n] = o[n + 1]
  BY SeqTake
<1>2. z \in Nat /\ z <= Len(o) /\ e = r + z + Len(w) /\ 1 \in 1..Len(o)
  BY <1>1 DEF Chained
<1>3. \A n \in 1..Len(u) : n + 1 \in 1..Len(o) /\ n \in Nat /\ n >= 1
  BY <1>1
<1>4. CASE z = 0
  <2>1. x.s = 0 /\ x.k = "disconnect"
    BY <1>1, <1>2, <1>4 DEF Chained
  <2>2. ASSUME NEW i \in 1..Len(u)
        PROVE  ~(i <= 0) /\ u[i].s = 0 /\ u[i].k = "disconnect"
    BY <1>1, <1>2, <1>3, <1>4 DEF Chained
  <2>3. Chained(u, w, 0, e, r)
    BY <1>1, <1>2, <1>4, <2>2 DEF Chained
  <2> QED
    BY <1>1, <1>4, <2>1, <2>3 DEF Rest
<1>5. CASE z # 0
  <2>1. x.s = r + 1 /\ x.k # "disconnect" /\ (x.k = "safeToClose" => z = 1)
    BY <1>1, <1>2, <1>5 DEF Chained
  <2>2. ASSUME NEW i \in 1..Len(u)
        PROVE  /\ i <= z - 1 => u[i].s = (r + 1) + i /\ u[i].k # "disconnect"
               /\ z - 1 < i => u[i].s = 0 /\ u[i].k = "disconnect"
               /\ u[i].k = "safeToClose" => i = z - 1
    <3>1. PICK j \in 1..Len(o) : j = i + 1
      BY <1>3
    <3>2. /\ j <= z => o[j].s = r + j /\ o[j].k # "disconnect"
          /\ z < j => o[j].s = 0 /\ o[j].k = "disconnect"
          /\ o[j].k = "safeToClose" => j = z
      BY DEF Chained
    <3>3. u[i] = o[j] /\ r + j = (r + 1) + i /\ (i <= z - 1 <=> j <= z) /\ (z - 1 < i <=> z < j)
          /\ (j = z => i = z - 1)
      BY <1>1, <1>2, <1>3, <3>1
    <3> QED
      BY <3>2, <3>3
  <2>3. z - 1 \in Nat /\ z - 1 <= Len(u) /\ e = (r + 1) + (z - 1) + Len(w)
    BY <1>1, <1>2, <1>5
  <2>4. \A i \in 1..Len(w) : w[i].s = (r + 1) + (z - 1) + i /\ w[i].k = "data"
    <3>1. \A i \in 1..Len(w) : r + z + i = (r + 1) + (z - 1) + i
      BY <1>2
    <3> QED
      BY <3>1 DEF Chained
  <2>5. Chained(u, w, z - 1, e, r + 1)
    BY <2>2, <2>3, <2>4 DEF Chained
  <2>6. \A i \in 1..Len(u) : u[i].k = "safeToClose" => z > 1
    BY <1>2, <1>3, <2>2
  <2> QED
    BY <1>1, <1>2, <1>5, <2>1, <2>5, <2>6 DEF Rest
<1> QED
  BY <1>4, <1>5

\* What is left when x has been read from the new channel.
RestNew(x, o, u, z, e, r) == x.s = r + 1 /\ x.k = "data" /\ Chained(o, u, z, e, r + 1)

\* A frame is read from the new channel.
LEMMA ChainTakeNew ==
  ASSUME NEW o \in Seq(Frame), NEW w \in Seq(Frame), NEW e, NEW r \in Nat, w # <<>>, NEW z, z = 0,
         Chained(o, w, z, e, r), NEW u, u = Tail(w), NEW x, x = Head(w)
  PROVE  RestNew(x, o, u, z, e, r)
<1>0. Len(o) \in Nat /\ Chained(o, w, 0, e, r)
  OBVIOUS
<1>1. /\ u \in Seq(Frame) /\ Len(w) \in Nat /\ Len(w) >= 1 /\ Len(u) = Len(w) - 1 /\ x = w[1]
      /\ \A n \in 1..Len(u) : u[n] = w[n + 1]
  BY SeqTake
<1>2. e = r + 0 + Len(w) /\ 1 \in 1..Len(w) /\ \A i \in 1..Len(w) : w[i].s = r + 0 + i /\ w[i].k = "data"
  BY <1>0, <1>1 DEF Chained
<1>3. \A n \in 1..Len(u) : n + 1 \in 1..Len(w) /\ n \in Nat /\ n >= 1
  BY <1>1
<1>4. \A i \in 1..Len(u) : u[i].s = (r + 1) + 0 + i /\ u[i].k = "data"
  <2> SUFFICES ASSUME NEW i \in 1..Len(u) PROVE u[i].s = (r + 1) + 0 + i /\ u[i].k = "data"
    OBVIOUS
  <2>1. PICK j \in 1..Len(w) : j = i + 1 /\ i \in Nat
    BY <1>3
  <2>2. u[i] = w[j] /\ w[j].s = r + 0 + j /\ w[j].k = "data"
    BY <1>1, <1>2, <2>1
  <2>3. r + 0 + j = (r + 1) + 0 + i
    BY <2>1
  <2> QED
    BY <2>2, <2>3
<1>5. e = (r + 1) + 0 + Len(u)
  BY <1>1, <1>2
<1>6. x.s = r + 1 /\ x.k = "data"
  BY <1>1, <1>2
<1>7. \A i \in 1..Len(o) : /\ i <= 0 => o[i].s = (r + 1) + i /\ o[i].k # "disconnect"
                           /\ 0 < i => o[i].s = 0 /\ o[i].k = "disconnect"
                           /\ o[i].k = "safeToClose" => i = 0
  BY <1>0 DEF Chained
<1> QED
  BY <1>0, <1>4, <1>5, <1>6, <1>7 DEF Chained, RestNew

\* The numbers of such frames.
Sequenced(o, w, z, r) ==
  /\ z <= Len(o) /\ \A i \in 1..Len(o) : (i <= z => o[i].s = r + i) /\ (z < i => o[i].s = 0)
  /\ \A i \in 1..Len(w) : w[i].s = r + z + i

\* The encrypted frames of fs are numbered from r + 1.
Ascending(fs, r) == \A i \in Encrypted(fs, Len(fs)) : fs[i].s = r + Cardinality(Encrypted(fs, i))

\* The encrypted frames of both channels come in the sequence expected.
LEMMA ChainOrder ==
  ASSUME NEW o \in Seq(Frame), NEW w \in Seq(Frame), NEW z \in Nat, NEW r \in Nat,
         Sequenced(o, w, z, r), NEW fs, fs = o \o w
  PROVE  Ascending(fs, r)
<1> USE DEF Sequenced, Ascending
<1>1. /\ fs \in Seq(Frame) /\ Len(o) \in Nat /\ Len(w) \in Nat /\ Len(fs) = Len(o) + Len(w)
      /\ \A i \in 1..Len(fs) : fs[i] = IF i <= Len(o) THEN o[i] ELSE w[i - Len(o)]
  OBVIOUS
<1>2. \A i \in 1..Len(o) : /\ i \in 1..Len(fs) /\ (i <= z => fs[i].s = r + i /\ fs[i].s # 0)
                           /\ z < i => fs[i].s = 0
  BY <1>1
<1>3. ASSUME NEW i \in 1..Len(fs), i > Len(o) PROVE fs[i].s = r + z + (i - Len(o)) /\ fs[i].s # 0
  <2>1. PICK j \in 1..Len(w) : j = i - Len(o)
    BY <1>1, <1>3
  <2>2. fs[i] = w[j] /\ w[j].s = r + z + j /\ j >= 1
    BY <1>1, <1>3, <2>1
  <2> QED
    BY <2>1, <2>2
<1> SUFFICES ASSUME NEW i \in 1..Len(fs), fs[i].s # 0
             PROVE  fs[i].s = r + Cardinality(Encrypted(fs, i))
  BY DEF Encrypted
<1>4. CASE i <= Len(o)
  <2>1. i \in 1..Len(o) /\ i <= z /\ i \in Int /\ i >= 1
    BY <1>1, <1>2, <1>4
  <2>2. Encrypted(fs, i) = 1..i
    BY <1>1, <1>2, <2>1 DEF Encrypted
  <2>3. Cardinality(1..i) = i
    BY <2>1, FS_Interval
  <2> QED
    BY <1>2, <2>1, <2>2, <2>3
<1>5. CASE i > Len(o)
  <2>1. i \in Int /\ Len(o) + 1 \in Int /\ z \in Int
    BY <1>1
  <2> DEFINE A == 1..z  B == (Len(o) + 1)..i
  <2>2. \A j \in 1..i : j \in 1..Len(fs) /\ (fs[j].s # 0 <=> j <= z \/ j > Len(o))
    <3> SUFFICES ASSUME NEW j \in 1..i PROVE j \in 1..Len(fs) /\ (fs[j].s # 0 <=> j <= z \/ j > Len(o))
      OBVIOUS
    <3>1. j \in 1..Len(fs)
      BY <1>1
    <3>2. CASE j <= Len(o)
      BY <1>1, <1>2, <3>1, <3>2
    <3>3. CASE j > Len(o)
      BY <1>3, <3>1, <3>3
    <3> QED
      BY <1>1, <3>1, <3>2, <3>3
  <2>3. Encrypted(fs, i) = A \cup B
    <3>1. \A j : j \in A => j \in 1..i /\ j <= z
      BY <1>1, <1>5, <2>1
    <3>2. \A j : j \in B => j \in 1..i /\ j > Len(o)
      BY <1>1, <1>5, <2>1
    <3>3. \A j \in 1..i : (j <= z => j \in A) /\ (j > Len(o) => j \in B)
      BY <1>1, <1>5, <2>1
    <3> HIDE DEF A, B
    <3> QED
      BY <2>2, <3>1, <3>2, <3>3 DEF Encrypted
  <2>4. A \cap B = {}
    BY <1>1
  <2>5. IsFiniteSet(A) /\ Cardinality(A) = z /\ IsFiniteSet(B) /\ Cardinality(B) = i - Len(o)
    <3>1. IsFiniteSet(A) /\ Cardinality(A) = IF 1 > z THEN 0 ELSE z - 1 + 1
      BY <2>1, FS_Interval
    <3>2. IsFiniteSet(B) /\ Cardinality(B) = IF Len(o) + 1 > i THEN 0 ELSE i - (Len(o) + 1) + 1
      BY <2>1, FS_Interval
    <3> HIDE DEF A, B
    <3> QED
      BY <1>1, <1>5, <2>1, <3>1, <3>2
  <2> HIDE DEF A, B
  <2>6. Cardinality(A \cup B) = Cardinality(A) + Cardinality(B) - Cardinality({})
    <3>1. Cardinality(A \cup B) = Cardinality(A) + Cardinality(B) - Cardinality(A \cap B)
      BY <2>5, FS_Union
    <3> QED
      BY <2>4, <3>1, Zenon
  <2>7. Cardinality(A \cup B) = z + (i - Len(o))
    BY <1>1, <2>1, <2>5, <2>6, FS_EmptySet
  <2>8. fs[i].s = r + z + (i - Len(o))
    BY <1>3, <1>5
  <2> QED
    BY <1>1, <2>1, <2>3, <2>7, <2>8
<1> QED
  BY <1>1, <1>4, <1>5

\* The payload frames of both channels.
LEMMA CountBoth ==
  ASSUME NEW o \in Seq(Frame), NEW w \in Seq(Frame), NEW fs, fs = o \o w
  PROVE  Count(fs) = Count(o) + Count(w)
<1>1. /\ Len(o) \in Nat /\ Len(w) \in Nat /\ Len(fs) = Len(o) + Len(w)
      /\ \A i \in 1..Len(fs) : fs[i] = IF i <= Len(o) THEN o[i] ELSE w[i - Len(o)]
  OBVIOUS
<1> DEFINE A == PayloadFrames(o)
           B == {i \in PayloadFrames(fs) : i > Len(o)}
           f == [n \in PayloadFrames(w) |-> n + Len(o)]
<1>2. \A n \in PayloadFrames(w) : n \in Nat /\ n + Len(o) \in B
  <2> SUFFICES ASSUME NEW n \in 1..Len(w), w[n].k = "data" PROVE n \in Nat /\ n + Len(o) \in B
    BY DEF PayloadFrames
  <2>1. PICK m : m = n + Len(o)
    OBVIOUS
  <2>2. m \in 1..Len(fs) /\ ~(m <= Len(o)) /\ m - Len(o) = n /\ m > Len(o)
    BY <1>1, <2>1
  <2>3. fs[m] = w[n]
    BY <1>1, <2>2
  <2> QED
    BY <2>1, <2>2, <2>3 DEF PayloadFrames
<1>3. f \in [PayloadFrames(w) -> B]
  BY <1>2
<1>4. f \in Injection(PayloadFrames(w), B)
  <2>1. \A m, n \in PayloadFrames(w) : f[m] = f[n] => m = n
    BY <1>1, <1>2
  <2> QED
    BY <1>3, <2>1 DEF Injection, IsInjective
<1>5. f \in Surjection(PayloadFrames(w), B)
  <2>1. ASSUME NEW t \in B PROVE \E n \in PayloadFrames(w) : f[n] = t
    <3>1. t \in 1..Len(fs) /\ t > Len(o) /\ fs[t].k = "data"
      BY DEF PayloadFrames
    <3>2. PICK n \in 1..Len(w) : n = t - Len(o) /\ t = n + Len(o)
      BY <1>1, <3>1
    <3>3. fs[t] = w[n]
      BY <1>1, <3>1, <3>2
    <3>4. n \in PayloadFrames(w)
      BY <3>1, <3>2, <3>3 DEF PayloadFrames
    <3> QED
      BY <3>2, <3>4
  <2> QED
    BY <1>3, <2>1 DEF Surjection
<1>6. PayloadFrames(fs) = A \cup B /\ A \cap B = {}
  <2>1. \A i \in 1..Len(o) : i \in 1..Len(fs) /\ fs[i] = o[i] /\ ~(i > Len(o))
    BY <1>1
  <2>2. \A i \in 1..Len(fs) : i > Len(o) \/ i \in 1..Len(o)
    BY <1>1
  <2> QED
    BY <2>1, <2>2 DEF PayloadFrames
<1>7. IsFiniteSet(A) /\ Count(o) = Cardinality(A) /\ Count(o) \in Nat
  BY CountType DEF Count
<1>8. IsFiniteSet(PayloadFrames(w)) /\ Count(w) = Cardinality(PayloadFrames(w)) /\ Count(w) \in Nat
  BY CountType DEF Count
<1>9. IsFiniteSet(PayloadFrames(fs)) /\ B \in SUBSET PayloadFrames(fs)
  <2>1. fs \in Seq(Frame)
    OBVIOUS
  <2> QED
    BY <2>1, CountType
<1> HIDE DEF A, B, f
<1>10. IsFiniteSet(B)
  BY <1>9, FS_Subset
<1>11. Cardinality(B) = Count(w)
  BY <1>4, <1>5, <1>8, <1>10, FS_Injection
<1>12. Cardinality(A \cup B) = Cardinality(A) + Cardinality(B) - Cardinality({})
  BY <1>6, <1>7, <1>10, FS_Union
<1> QED
  BY <1>6, <1>7, <1>8, <1>11, <1>12, FS_EmptySet DEF Count

\* Nothing but DISCONNECTION is on the old channel.
LEMMA NoneCount ==
  ASSUME NEW o, \A i \in 1..Len(o) : o[i].k # "data"
  PROVE  Count(o) = 0
<1>1. PayloadFrames(o) = {}
  BY DEF PayloadFrames
<1> QED
  BY <1>1, FS_EmptySet DEF Count

\* The wires, and the numbers of the frames on them.
LEMMA Wires ==
  ASSUME IInv, NEW d \in Device
  PROVE  /\ wire["old"][d] \in Seq(Frame) /\ wire["new"][d] \in Seq(Frame)
         /\ Len(wire["old"][d]) \in Nat /\ Len(wire["new"][d]) \in Nat
         /\ enc[d] \in Nat /\ enc[Peer(d)] \in Nat /\ dec[d] \in Nat
         /\ Count(wire["old"][d]) \in Nat /\ Count(wire["new"][d]) \in Nat
         /\ got[d] \in Nat /\ sent[d] \in Nat /\ sent[Peer(d)] \in Nat
<1>1. wire["old"][d] \in Seq(Frame) /\ wire["new"][d] \in Seq(Frame)
  BY Names DEF IInv, Types, NetType
<1>2. Count(wire["old"][d]) \in Nat /\ Count(wire["new"][d]) \in Nat
  BY <1>1, CountType
<1>3. enc[d] \in Nat /\ enc[Peer(d)] \in Nat /\ dec[d] \in Nat
  BY Peers DEF IInv, Types, NetType, DeviceType
<1>4. got[d] \in Nat /\ sent[d] \in Nat /\ sent[Peer(d)] \in Nat
  BY Peers, BwuAssumption DEF IInv, DataInv
<1> QED
  BY <1>1, <1>2, <1>3, <1>4

\* Frames are read in the order in which they were encrypted.
LEMMA OrderGivesInOrder ==
  ASSUME IInv, OrderInv
  PROVE  InOrder
<1> SUFFICES ASSUME NEW d \in Device, NEW fs, fs = Unread(d)
             PROVE  Ascending(fs, dec[d])
  BY DEF InOrder, Ascending
<1>1. PICK o \in Seq(Frame) : o = wire["old"][d]
  BY Wires
<1>2. PICK w \in Seq(Frame) : w = wire["new"][d]
  BY Wires
<1>3. PICK r \in Nat : r = dec[d]
  BY Wires
<1>9. Len(o) \in Nat /\ Len(w) \in Nat
  OBVIOUS
<1>4. CASE reader[d] = "old" /\ active[d] # "none"
  <2>1. fs = o \o w
    BY <1>1, <1>2, <1>4 DEF Unread
  <2>2. PICK z \in Nat : Sequenced(o, w, z, r)
    <3>1. CASE Quiet
      <4>1. Chained(o, w, Len(o), enc[Peer(d)], r)
        BY <1>1, <1>2, <1>3, <3>1 DEF Quiet, QuietSide, Flow
      <4> QED
        BY <1>9, <4>1 DEF Chained, Sequenced
    <3>2. CASE Torn
      <4>1. w = <<>> /\ \A i \in 1..Len(o) : o[i].s = r + i
        BY <1>1, <1>2, <1>3, <3>2 DEF Torn, TornSide
      <4>2. \A i \in 1..Len(o) : i <= Len(o)
        BY <1>9
      <4>3. Sequenced(o, w, Len(o), r)
        BY <1>9, <4>1, <4>2 DEF Sequenced
      <4> QED
        BY <1>9, <4>3, Zenon
    <3>3. CASE Moving
      <4>1. PICK z \in Nat : Chained(o, w, z, enc[Peer(d)], r)
        BY <1>1, <1>2, <1>3, <3>3 DEF Moving, Ordered, Flow
      <4> QED
        BY <4>1 DEF Chained, Sequenced
    <3> QED
      BY <3>1, <3>2, <3>3 DEF OrderInv
  <2>3. Ascending(fs, r)
    BY <2>1, <2>2, ChainOrder
  <2> QED
    BY <1>3, <2>3
<1>5. CASE reader[d] = "new"
  <2>1. Moving
    BY <1>5 DEF OrderInv, Quiet, QuietSide, Torn, TornSide
  <2>2. Chained(o, w, 0, enc[Peer(d)], r)
    BY <1>1, <1>2, <1>3, <1>5, <2>1 DEF Moving, Ordered, Flow
  <2>3. PICK e \in Seq(Frame) : e = <<>>
    <3>1. <<>> \in Seq(Frame)
      OBVIOUS
    <3> QED
      BY <3>1, Zenon
  <2>4. Len(e) = 0 /\ e \o w = w /\ fs = w
    BY <1>2, <1>5, <2>3 DEF Unread
  <2>5. \A i \in 1..Len(w) : w[i].s = r + 0 + i
    BY <2>2 DEF Chained
  <2>6. \A i \in 1..Len(e) : (i <= 0 => e[i].s = r + i) /\ (0 < i => e[i].s = 0)
    BY <2>4
  <2>7. 0 \in Nat /\ 0 <= Len(e)
    BY <2>4
  <2>8. fs = e \o w
    BY <2>4
  <2>9. Ascending(fs, r)
    <3>1. PICK z \in Nat : z = 0
      OBVIOUS
    <3>2. Sequenced(e, w, z, r)
      BY <2>5, <2>6, <2>7, <3>1 DEF Sequenced
    <3> QED
      BY <2>8, <3>2, ChainOrder
  <2> QED
    BY <1>3, <2>9
<1>6. CASE ~(reader[d] = "old" /\ active[d] # "none") /\ reader[d] # "new"
  <2>1. fs = <<>>
    BY <1>6 DEF Unread
  <2>2. Len(fs) = 0 /\ 1..0 = {}
    BY <2>1
  <2> QED
    BY <2>2 DEF Encrypted, Ascending
<1> QED
  BY <1>4, <1>5, <1>6

\* What was written has been received or will be.
LEMMA OrderGivesNoDataLoss ==
  ASSUME IInv, OrderInv
  PROVE  NoDataLoss
<1> SUFFICES ASSUME \A x \in Device : active[x] # "none" /\ reader[x] # "gone" /\ ~Closed(active[x], x),
                    NEW d \in Device
             PROVE  sent[Peer(d)] = got[d] + Count(Unread(d))
  BY DEF NoDataLoss, Count
<1>1. ~Torn
  <2>1. ASSUME Torn PROVE FALSE
    <3>1. \A x \in Device : active[x] = "old"
      BY <2>1 DEF Torn, TornSide, IInv, Types, DeviceType, Channel
    <3> QED
      BY <2>1, <3>1 DEF Torn
  <2> QED
    BY <2>1
<1>2. PICK o \in Seq(Frame) : o = wire["old"][d]
  BY Wires
<1>3. PICK w \in Seq(Frame) : w = wire["new"][d]
  BY Wires
<1>4. /\ got[d] + Count(o) + Count(w) = sent[Peer(d)]
      /\ got[d] \in Nat /\ Count(o) \in Nat /\ Count(w) \in Nat
  BY <1>1, <1>2, <1>3, Wires DEF OrderInv, Quiet, QuietSide, Moving, Exact
<1>5. CASE reader[d] = "old"
  <2>1. Unread(d) = o \o w
    BY <1>2, <1>3, <1>5 DEF Unread
  <2>2. Count(Unread(d)) = Count(o) + Count(w)
    BY <2>1, CountBoth
  <2> QED
    BY <1>4, <2>2
<1>6. CASE reader[d] = "new"
  <2>1. Moving
    BY <1>6 DEF OrderInv, Quiet, QuietSide, Torn, TornSide
  <2>2. Chained(o, w, 0, enc[Peer(d)], dec[d])
    BY <1>2, <1>3, <1>6, <2>1 DEF Moving, Ordered, Flow
  <2>3. Count(o) = 0
    <3>1. \A i \in 1..Len(o) : o[i].k # "data"
      BY <2>2 DEF Chained
    <3> QED
      BY <3>1, NoneCount
  <2>4. Unread(d) = w
    BY <1>3, <1>6 DEF Unread
  <2> QED
    BY <1>4, <2>3, <2>4
<1> QED
  BY <1>5, <1>6 DEF IInv, Types, DeviceType, Channel

-----------------------------------------------------------------------------
(* One frame more, one frame less.                                         *)

\* The frame f is put on a wire.
Appended(c0, d0, f) ==
  /\ wire'[c0][d0] = Append(wire[c0][d0], f)
  /\ \A c \in Channel, d \in Device : ~(c = c0 /\ d = d0) => wire'[c][d] = wire[c][d]

\* A frame is written on an open channel and encrypted.
LEMMA WriteAppends ==
  ASSUME IInv, NEW d0 \in Device, NEW c0 \in Channel, NEW k0 \in Kinds, NEW ends,
         Write(d0, c0, k0, ends), ~Closed(c0, Peer(d0)), ~(c0 = "old" /\ d0 \in plain)
  PROVE  \E f \in Frame : /\ f.k = k0 /\ f.s = enc[d0] + 1 /\ Appended(c0, Peer(d0), f)
                          /\ enc'[d0] = enc[d0] + 1 /\ enc'[Peer(d0)] = enc[Peer(d0)]
                          /\ shut' = shut \cup ends
<1>1. enc[d0] \in Nat /\ Peer(d0) \in Device /\ Peer(d0) # d0
  BY Wires, Peers
<1>2. PICK s : s = enc[d0] + 1
  OBVIOUS
<1>3. PICK f : f = [k |-> k0, s |-> s]
  OBVIOUS
<1>4. f \in Frame /\ f.k = k0 /\ f.s = s /\ s # 0 /\ s \in Nat
  BY <1>1, <1>2, <1>3 DEF Frame
<1>5. Send(d0, c0, k0, s, ends)
  BY <1>2 DEF Write, EncodeMessageToPeer
<1>6. /\ enc' = [enc EXCEPT ![d0] = s] /\ shut' = shut \cup ends
      /\ wire' = [wire EXCEPT ![c0][Peer(d0)] = Append(@, f)]
  BY <1>3, <1>4, <1>5 DEF Send
<1>7. Appended(c0, Peer(d0), f)
  BY <1>1, <1>6 DEF Appended, IInv, Types, NetType
<1>8. enc'[d0] = s /\ enc'[Peer(d0)] = enc[Peer(d0)]
  BY <1>1, <1>6 DEF IInv, Types, NetType
<1> QED
  BY <1>2, <1>4, <1>6, <1>7, <1>8

\* A frame is written on a channel of which one end is closed.
LEMMA WriteLost ==
  ASSUME IInv, NEW d0 \in Device, NEW c0 \in Channel, NEW k0, NEW ends,
         (Write(d0, c0, k0, ends) /\ Closed(c0, Peer(d0))) \/ WriteFails(d0, c0, ends)
  PROVE  wire' = wire /\ shut' = shut \cup ends
<1>1. Peer(d0) \in Device
  BY Peers
<1>2. CASE WriteFails(d0, c0, ends)
  BY <1>2 DEF WriteFails, SendFails
<1>3. CASE Write(d0, c0, k0, ends) /\ Closed(c0, Peer(d0))
  BY <1>1, <1>3 DEF Write, Send, IInv, Types, NetType
<1> QED
  BY <1>2, <1>3

\* The payload frames that were written and not received, one frame more.
LEMMA ExactAdd ==
  ASSUME IInv, NEW c0 \in Channel, NEW d0 \in Device, NEW f \in Frame, Appended(c0, d0, f), Exact(d0),
         got'[d0] = got[d0], sent'[Peer(d0)] = IF f.k = "data" THEN sent[Peer(d0)] + 1 ELSE sent[Peer(d0)]
  PROVE  Exact(d0)'
<1>1. /\ \A c \in Channel : wire[c][d0] \in Seq(Frame) /\ Count(wire[c][d0]) \in Nat
      /\ got[d0] \in Nat /\ sent[Peer(d0)] \in Nat
  BY Wires DEF Channel
<1>2. Count(wire'[c0][d0]) = IF f.k = "data" THEN Count(wire[c0][d0]) + 1 ELSE Count(wire[c0][d0])
  <2>1. PICK q \in Seq(Frame) : q = wire[c0][d0]
    BY <1>1
  <2>2. PICK r : r = Append(q, f)
    OBVIOUS
  <2>3. Count(r) = IF f.k = "data" THEN Count(q) + 1 ELSE Count(q)
    BY <2>2, CountAdd
  <2> QED
    BY <2>1, <2>2, <2>3 DEF Appended
<1>3. CASE c0 = "old"
  <2>1. wire'["new"][d0] = wire["new"][d0]
    BY <1>3, Names DEF Appended
  <2>2. /\ Count(wire["old"][d0]) \in Nat /\ Count(wire["new"][d0]) \in Nat
        /\ Count(wire'["old"][d0]) = IF f.k = "data" THEN Count(wire["old"][d0]) + 1 ELSE Count(wire["old"][d0])
    BY <1>1, <1>2, <1>3, Names
  <2> QED
    BY <1>1, <2>1, <2>2 DEF Exact
<1>4. CASE c0 = "new"
  <2>1. wire'["old"][d0] = wire["old"][d0]
    BY <1>4, Names DEF Appended
  <2>2. /\ Count(wire["old"][d0]) \in Nat /\ Count(wire["new"][d0]) \in Nat
        /\ Count(wire'["new"][d0]) = IF f.k = "data" THEN Count(wire["new"][d0]) + 1 ELSE Count(wire["new"][d0])
    BY <1>1, <1>2, <1>4, Names
  <2> QED
    BY <1>1, <2>1, <2>2 DEF Exact
<1> QED
  BY <1>3, <1>4 DEF Channel

\* The head of a wire is read.
Taken(c0, d0, f) ==
  /\ wire[c0][d0] # <<>> /\ f = Head(wire[c0][d0]) /\ wire'[c0][d0] = Tail(wire[c0][d0])
  /\ \A c \in Channel, d \in Device : ~(c = c0 /\ d = d0) => wire'[c][d] = wire[c][d]

\* One frame less.
LEMMA ExactTake ==
  ASSUME IInv, NEW c0 \in Channel, NEW d0 \in Device, NEW f, Taken(c0, d0, f), Exact(d0),
         got'[d0] = (IF f.k = "data" THEN got[d0] + 1 ELSE got[d0]), sent'[Peer(d0)] = sent[Peer(d0)]
  PROVE  Exact(d0)'
<1>1. /\ \A c \in Channel : wire[c][d0] \in Seq(Frame) /\ Count(wire[c][d0]) \in Nat
      /\ got[d0] \in Nat /\ sent[Peer(d0)] \in Nat
  BY Wires DEF Channel
<1>6. PICK n \in Nat : n = (IF f.k = "data" THEN 1 ELSE 0)
  OBVIOUS
<1>7. got'[d0] = got[d0] + n
  BY <1>1, <1>6
<1>2. wire'[c0][d0] \in Seq(Frame)
  BY <1>1 DEF Taken
<1>3. /\ Count(wire'[c0][d0]) + n = Count(wire[c0][d0])
      /\ Count(wire'[c0][d0]) \in Nat
  BY <1>1, <1>2, <1>6, CountTake, CountType DEF Taken
<1>4. CASE c0 = "old"
  <2>1. wire'["new"][d0] = wire["new"][d0]
    BY <1>4, Names DEF Taken
  <2>2. /\ Count(wire["old"][d0]) \in Nat /\ Count(wire["new"][d0]) \in Nat
        /\ Count(wire'["old"][d0]) + n = Count(wire["old"][d0])
        /\ Count(wire'["old"][d0]) \in Nat
    BY <1>1, <1>3, <1>4, Names
  <2> QED
    BY <1>1, <1>7, <2>1, <2>2 DEF Exact
<1>5. CASE c0 = "new"
  <2>1. wire'["old"][d0] = wire["old"][d0]
    BY <1>5, Names DEF Taken
  <2>2. /\ Count(wire["old"][d0]) \in Nat /\ Count(wire["new"][d0]) \in Nat
        /\ Count(wire'["new"][d0]) + n = Count(wire["new"][d0])
        /\ Count(wire'["new"][d0]) \in Nat
    BY <1>1, <1>3, <1>5, Names
  <2> QED
    BY <1>1, <1>7, <2>1, <2>2 DEF Exact
<1> QED
  BY <1>4, <1>5 DEF Channel

\* A frame or a job is appended, and nothing said that it would fail comes after an offer.
LEMMA FirstAdd ==
  /\ \A q \in Seq(Frame), x \in Frame :
       WFirst(q) /\ (x.k # "fail" \/ \A i \in 1..Len(q) : q[i].k # "path") => WFirst(Append(q, x))
  /\ \A q \in Seq(Job), x \in Job :
       QFirst(q) /\ (x # "fail" \/ \A i \in 1..Len(q) : q[i] # "path") => QFirst(Append(q, x))
<1>1. ASSUME NEW q \in Seq(Frame), NEW x \in Frame, WFirst(q),
             x.k # "fail" \/ \A i \in 1..Len(q) : q[i].k # "path"
      PROVE  WFirst(Append(q, x))
  <2>1. PICK r : r = Append(q, x)
    OBVIOUS
  <2>2. /\ Len(q) \in Nat /\ Len(r) = Len(q) + 1 /\ r[Len(q) + 1] = x
        /\ \A n \in 1..Len(q) : r[n] = q[n]
    BY <2>1, SeqAdd
  <2>3. \A n \in 1..Len(r) : n = Len(q) + 1 \/ n \in 1..Len(q)
    BY <2>2
  <2>4. ASSUME NEW i \in 1..Len(r), NEW j \in 1..Len(r), r[i].k = "fail", r[j].k = "path" PROVE i < j
    BY <1>1, <2>2, <2>3, <2>4 DEF WFirst
  <2> QED
    BY <2>1, <2>4 DEF WFirst
<1>2. ASSUME NEW q \in Seq(Job), NEW x \in Job, QFirst(q),
             x # "fail" \/ \A i \in 1..Len(q) : q[i] # "path"
      PROVE  QFirst(Append(q, x))
  <2>1. PICK r : r = Append(q, x)
    OBVIOUS
  <2>2. /\ Len(q) \in Nat /\ Len(r) = Len(q) + 1 /\ r[Len(q) + 1] = x
        /\ \A n \in 1..Len(q) : r[n] = q[n]
    BY <2>1, SeqAdd
  <2>3. \A n \in 1..Len(r) : n = Len(q) + 1 \/ n \in 1..Len(q)
    BY <2>2
  <2>4. ASSUME NEW i \in 1..Len(r), NEW j \in 1..Len(r), r[i] = "fail", r[j] = "path" PROVE i < j
    BY <1>2, <2>2, <2>3, <2>4 DEF QFirst
  <2> QED
    BY <2>1, <2>4 DEF QFirst
<1> QED
  BY <1>1, <1>2

\* One is taken; after an offer, nothing is left that says the other failed.
LEMMA FirstTake ==
  /\ \A q \in Seq(Frame) : WFirst(q) /\ q # <<>> =>
       WFirst(Tail(q)) /\ (Head(q).k = "path" => \A i \in 1..Len(q) : q[i].k # "fail")
  /\ \A q \in Seq(Job) : QFirst(q) /\ q # <<>> =>
       QFirst(Tail(q)) /\ (Head(q) = "path" => \A i \in 1..Len(q) : q[i] # "fail")
<1>1. ASSUME NEW q \in Seq(Frame), WFirst(q), q # <<>>
      PROVE  WFirst(Tail(q)) /\ (Head(q).k = "path" => \A i \in 1..Len(q) : q[i].k # "fail")
  <2>1. PICK r : r = Tail(q)
    OBVIOUS
  <2>2. /\ Len(q) \in Nat /\ Len(q) >= 1 /\ Len(r) = Len(q) - 1 /\ Head(q) = q[1]
        /\ \A n \in 1..Len(r) : r[n] = q[n + 1]
    BY <1>1, <2>1, SeqTake
  <2>3. /\ \A n \in 1..Len(r) : n + 1 \in 1..Len(q) /\ n \in Nat
        /\ 1 \in 1..Len(q) /\ \A i \in 1..Len(q) : ~(i < 1)
    BY <2>2
  <2>4. ASSUME NEW i \in 1..Len(r), NEW j \in 1..Len(r), r[i].k = "fail", r[j].k = "path" PROVE i < j
    <3>1. i + 1 < j + 1
      BY <1>1, <2>2, <2>3, <2>4 DEF WFirst
    <3> QED
      BY <2>3, <3>1
  <2>5. Head(q).k = "path" => \A i \in 1..Len(q) : q[i].k # "fail"
    BY <1>1, <2>2, <2>3 DEF WFirst
  <2> QED
    BY <2>1, <2>4, <2>5 DEF WFirst
<1>2. ASSUME NEW q \in Seq(Job), QFirst(q), q # <<>>
      PROVE  QFirst(Tail(q)) /\ (Head(q) = "path" => \A i \in 1..Len(q) : q[i] # "fail")
  <2>1. PICK r : r = Tail(q)
    OBVIOUS
  <2>2. /\ Len(q) \in Nat /\ Len(q) >= 1 /\ Len(r) = Len(q) - 1 /\ Head(q) = q[1]
        /\ \A n \in 1..Len(r) : r[n] = q[n + 1]
    BY <1>2, <2>1, SeqTake
  <2>3. /\ \A n \in 1..Len(r) : n + 1 \in 1..Len(q) /\ n \in Nat
        /\ 1 \in 1..Len(q) /\ \A i \in 1..Len(q) : ~(i < 1)
    BY <2>2
  <2>4. ASSUME NEW i \in 1..Len(r), NEW j \in 1..Len(r), r[i] = "fail", r[j] = "path" PROVE i < j
    <3>1. i + 1 < j + 1
      BY <1>2, <2>2, <2>3, <2>4 DEF QFirst
    <3> QED
      BY <2>3, <3>1
  <2>5. Head(q) = "path" => \A i \in 1..Len(q) : q[i] # "fail"
    BY <1>2, <2>2, <2>3 DEF QFirst
  <2> QED
    BY <2>1, <2>4, <2>5 DEF QFirst
<1> QED
  BY <1>1, <1>2

-----------------------------------------------------------------------------
(* Before there is a new socket.                                           *)

\* Nothing of the upgrade's end has begun.
LEMMA Early ==
  ASSUME IInv, intro = "none", NEW d \in Device
  PROVE  /\ bwu[d] \notin {"awaitAck", "lastWrite", "draining"} /\ upgraded = {}
         /\ ~Queued(d, "incoming") /\ ~Queued(d, "lastWrite") /\ ~Queued(d, "safeToClose")
         /\ ~OnWire("old", d, "lastWrite") /\ ~OnWire("old", d, "safeToClose")
<1>1. \A x \in Device : Turn(x, 0)
  BY DEF Turn, Start
<1>2. \A x \in Device, n \in 1..7 : ~Turn(x, n)
  BY <1>1 DEF IInv, TurnInv
<1>3. \A x \in Device : bwu[x] # "lastWrite" /\ bwu[x] # "draining" /\ ~OnWire("old", Peer(x), "lastWrite")
        /\ ~Queued(Peer(x), "lastWrite") /\ Peer(x) \notin upgraded /\ ~OnWire("old", x, "safeToClose")
        /\ ~Queued(x, "safeToClose")
  BY <1>2 DEF Turn
<1>4. bwu[d] # "awaitAck" /\ ~Queued(d, "incoming")
  BY DEF IInv, IntroInv
<1>5. upgraded = {}
  BY <1>3, Peers DEF IInv, Types, DeviceType
<1> QED
  BY <1>3, <1>4, <1>5, Peers

\* The steps that a device may take.
EarlyStep(d) ==
  \/ InitiateBwuForEndpoint(d) \/ Initiate(d) \/ DuplicatePath(d) \/ ProcessBwuPathAvailable(d)
  \/ ProcessUpgradeFailure(d) \/ HandleData(d) \/ ReadFails(d) \/ FetchChannel(d) \/ WriteData(d)
  \/ RemoveEndpoint(d) \/ OnEndpointDisconnect(d)

\* There are no others.
LEMMA EarlySteps ==
  ASSUME IInv, ~Faults, intro = "none", Next
  PROVE  \E d \in Device : EarlyStep(d)
<1>1. \A d \in Device, k \in Job : NextJob(d, k) => Queued(d, k)
  <2> SUFFICES ASSUME NEW d \in Device, NEW k \in Job, NextJob(d, k) PROVE Queued(d, k)
    OBVIOUS
  <2>1. PICK q \in Seq(Job) : q = bwuQ[d]
    BY DEF IInv, Types, ThreadType
  <2>2. q # <<>> /\ Head(q) = k
    BY <2>1 DEF NextJob
  <2>3. 1 \in 1..Len(q) /\ q[1] = k
    BY <2>2
  <2> QED
    BY <2>1, <2>3 DEF Queued
<1>2. \A c \in Channel : ~ChannelBreaks(c)
  BY DEF ChannelBreaks
<1>3. ASSUME NEW d \in Device
      PROVE  /\ ~OnIncomingConnection(d) /\ ~ReadClientIntroduction(d) /\ ~ReadClientIntroductionAck(d)
             /\ ~AckFails(d) /\ ~WriteLastWrite(d) /\ ~ProcessLastWriteToPriorChannel(d)
             /\ ~ProcessSafeToClosePriorChannel(d) /\ ~ClosePriorChannel(d)
  <2>1. /\ bwu[d] \notin {"awaitAck", "lastWrite", "draining"}
        /\ ~Queued(d, "incoming") /\ ~Queued(d, "lastWrite") /\ ~Queued(d, "safeToClose")
    BY Early
  <2>2. ~NextJob(d, "incoming") /\ ~NextJob(d, "lastWrite") /\ ~NextJob(d, "safeToClose")
    BY <1>1, <2>1 DEF Job
  <2> QED
    BY <2>1, <2>2 DEF OnIncomingConnection, ReadClientIntroduction, ReadClientIntroductionAck, AckFails,
       WriteLastWrite, ProcessLastWriteToPriorChannel, ProcessSafeToClosePriorChannel, ClosePriorChannel
<1> QED
  BY <1>2, <1>3 DEF Next, BwuNext, ReaderNext, EarlyStep

\* Closed channels stay closed and nobody upgrades.
LEMMA TornSame ==
  ASSUME IInv, Torn, UNCHANGED <<wire, dec, intro, plain>>, paused' \subseteq paused, shut \subseteq shut',
         \A d \in Device : active'[d] = active[d] \/ active'[d] = "none",
         \A d \in Device : reader'[d] # "new" /\ writer'[d] # "new",
         \A d \in Device : d \in progress' \/ active'[d] = "none",
         NEW d1, NEW k1, Posted(d1, k1), k1 # "fail", k1 = "removed" => active'[d1] = "none"
  PROVE  Torn'
<1>1. "fail" \in Job /\ "removed" \in Job
  BY DEF Job
<1>2. \A d \in Device : /\ Queued(d, "fail")' => Queued(d, "fail")
                        /\ Queued(d, "removed")' => Queued(d, "removed") \/ active'[d] = "none"
  BY <1>1 DEF Posted
<1>3. \A d \in Device : OnWire("old", d, "fail")' <=> OnWire("old", d, "fail")
  BY DEF OnWire
<1>4. \A d \in Device : TornSide(d)'
  BY <1>2, <1>3, Names DEF Torn, TornSide
<1>5. \E d \in Device : Closed("old", d)'
  BY DEF Torn, Closed
<1> QED
  BY <1>4, <1>5 DEF Torn

\* A frame is read from the closed channel's wire, if the reader still can.
LEMMA TornRead ==
  ASSUME IInv, Torn, NEW d0 \in Device, HandleData(d0)
  PROVE  Torn'
<1>1. reader[d0] = "old"
  BY DEF Torn, TornSide, HandleData, Channel
<1>2. PICK f : f = Head(wire["old"][d0])
  OBVIOUS
<1>3. PICK q \in Seq(Frame) : q = wire["old"][d0]
  BY Wires
<1>4. PICK r : r = Tail(q)
  OBVIOUS
<1>5. /\ UNCHANGED <<enc, plain, intro, dialer, active, prev, upgraded, progress, bwu, writer, sent, tries>>
      /\ q # <<>> /\ wire' = [wire EXCEPT !["old"][d0] = Tail(@)]
  BY <1>1, <1>3 DEF HandleData, mgr
<1>6. /\ r \in Seq(Frame) /\ Len(q) \in Nat /\ Len(q) >= 1 /\ Len(r) = Len(q) - 1 /\ f = q[1] /\ f \in Frame
      /\ \A n \in 1..Len(r) : r[n] = q[n + 1]
  BY <1>2, <1>3, <1>4, <1>5, SeqTake
<1>7. 1 \in 1..Len(q) /\ \A n \in 1..Len(r) : n + 1 \in 1..Len(q) /\ n \in Nat
  BY <1>6
<1>8. \A i \in 1..Len(q) : q[i].s = dec[d0] + i /\ q[i].k # "fail"
  BY <1>3 DEF Torn, TornSide, OnWire
<1>9. Decodes(d0, f) /\ d0 \notin plain /\ dec[d0] \in Nat /\ f.k # "fail" /\ f.k \in Kinds
  BY <1>6, <1>7, <1>8, Wires DEF Decodes, Torn, Frame
<1>10. dec' = [dec EXCEPT ![d0] = @ + 1] /\ Deliver(d0, "old", f) /\ reader' = reader
  BY <1>1, <1>2, <1>9 DEF HandleData
<1>11. /\ wire'["old"][d0] = r /\ wire'["new"] = wire["new"]
       /\ \A d \in Device : d # d0 => wire'["old"][d] = wire["old"][d]
  BY <1>3, <1>4, <1>5 DEF IInv, Types, NetType, Channel
<1>12. /\ dec'[d0] = dec[d0] + 1 /\ \A d \in Device : d # d0 => dec'[d] = dec[d]
  BY <1>10 DEF IInv, Types, DeviceType
<1>13. paused' = paused /\ shut \subseteq shut'
  BY <1>10 DEF Deliver
<1>14. \A d \in Device : /\ Queued(d, "fail")' => Queued(d, "fail")
                         /\ Queued(d, "removed")' => Queued(d, "removed")
  <2>1. CASE f.k \in {"data", "disconnect"}
    BY <1>10, <2>1 DEF Deliver, Queued
  <2>2. CASE f.k \notin {"data", "disconnect"}
    <3>1. f.k \in Job /\ f.k # "removed" /\ "fail" \in Job /\ "removed" \in Job
      BY <1>9, <2>2 DEF Kinds, Job
    <3>2. Posted(d0, f.k)
      BY <1>10, <2>2, <3>1, JobPosted DEF Deliver, Post, IInv, Types
    <3> QED
      BY <1>9, <3>1, <3>2 DEF Posted
  <2> QED
    BY <2>1, <2>2
<1>15. ASSUME NEW d \in Device
       PROVE  ~OnWire("old", d, "fail")' /\ \A i \in 1..Len(wire'["old"][d]) : wire'["old"][d][i].s = dec'[d] + i
  <2>1. CASE d = d0
    <3>1. \A i \in 1..Len(r) : r[i].s = dec[d0] + (i + 1) /\ r[i].k # "fail"
      BY <1>6, <1>7, <1>8
    <3>2. ASSUME NEW i \in 1..Len(r) PROVE dec[d0] + (i + 1) = dec'[d0] + i
      <4>1. i \in Nat
        BY <1>7
      <4> QED
        BY <1>9, <1>12, <4>1
    <3> QED
      BY <1>11, <2>1, <3>1, <3>2 DEF OnWire
  <2>2. CASE d # d0
    <3>1. wire'["old"][d] = wire["old"][d] /\ dec'[d] = dec[d]
      BY <1>11, <1>12, <2>2
    <3>2. ~OnWire("old", d, "fail") /\ \A i \in 1..Len(wire["old"][d]) : wire["old"][d][i].s = dec[d] + i
      BY DEF Torn, TornSide
    <3> QED
      BY <3>1, <3>2 DEF OnWire
  <2> QED
    BY <2>1, <2>2
<1>16. \A d \in Device : TornSide(d)'
  BY <1>5, <1>10, <1>11, <1>14, <1>15 DEF Torn, TornSide
<1> QED
  BY <1>5, <1>13, <1>16 DEF Torn, Closed

\* Nothing is written on the closed channel.
LEMMA TornWrite ==
  ASSUME IInv, Torn, NEW d0 \in Device, NEW k0, NEW ends,
         Write(d0, "old", k0, ends) \/ WriteFails(d0, "old", ends)
  PROVE  wire' = wire /\ shut' = shut \cup ends
<1>1. PICK x \in Device : Closed("old", x)
  BY DEF Torn
<1>2. CASE WriteFails(d0, "old", ends)
  BY <1>2, Names, WriteLost
<1>3. CASE Write(d0, "old", k0, ends)
  <2>1. ~Closed("old", d0)
    BY <1>3 DEF Write, Send
  <2>2. Closed("old", Peer(d0))
    BY <1>1, <2>1, Peers
  <2> QED
    BY <1>3, <2>2, Names, WriteLost
<1> QED
  BY <1>2, <1>3

\* Every step of a device whose connection is torn.
LEMMA TornStep ==
  ASSUME IInv, ~Faults, Torn, NEW d0 \in Device, EarlyStep(d0)
  PROVE  Torn'
<1> USE Names
<1>1. /\ \A d \in Device : TornSide(d)
      /\ "init" # "fail" /\ "init" # "removed" /\ "removed" # "fail"
  BY DEF Torn
<1>2. CASE InitiateBwuForEndpoint(d0)
  <2>1. Posted(d0, "init")
    BY <1>2, JobPosted DEF InitiateBwuForEndpoint, IInv, Types
  <2>2. UNCHANGED <<wire, shut, dec, intro, plain, paused, active, reader, writer, progress>>
    BY <1>2 DEF InitiateBwuForEndpoint, net, mgr
  <2> QED
    BY <1>1, <2>1, <2>2, TornSame DEF TornSide
<1>3. CASE Initiate(d0)
  <2>1. Posted(d0, "init")
    BY <1>3, JobTaken DEF Initiate, IInv, Types
  <2>2. UNCHANGED <<wire, shut, dec, intro, plain, paused, active, reader, writer, progress>>
    BY <1>1, <1>3 DEF Initiate, TornSide
  <2> QED
    BY <1>1, <2>1, <2>2, TornSame DEF TornSide
<1>4. CASE DuplicatePath(d0)
  <2>1. Posted(d0, "init")
    BY <1>4, JobTaken DEF DuplicatePath, IInv, Types
  <2>2. UNCHANGED <<wire, dec, intro, plain, paused, active, reader, writer, progress>> /\ shut \subseteq shut'
    BY <1>1, <1>4 DEF DuplicatePath, TornSide
  <2> QED
    BY <1>1, <2>1, <2>2, TornSame DEF TornSide
<1>5. CASE ProcessBwuPathAvailable(d0)
  <2>1. Posted(d0, "init")
    BY <1>5, JobTaken DEF ProcessBwuPathAvailable, IInv, Types
  <2>2. active[d0] = "none"
    BY <1>1, <1>5 DEF ProcessBwuPathAvailable, TornSide
  <2>3. /\ UNCHANGED <<wire, dec, intro, plain, paused, active, reader, writer, progress>>
        /\ shut \subseteq shut'
    BY <1>5, <2>2 DEF ProcessBwuPathAvailable, RunUpgradeFailedProtocol
  <2> QED
    BY <1>1, <2>1, <2>3, TornSame DEF TornSide
<1>6. CASE ProcessUpgradeFailure(d0)
  <2>1. Queued(d0, "fail")
    BY <1>6, JobTaken DEF ProcessUpgradeFailure, IInv, Types
  <2> QED
    BY <1>1, <2>1 DEF TornSide
<1>7. CASE HandleData(d0)
  BY <1>7, TornRead
<1>8. CASE ReadFails(d0)
  <2>1. Posted(d0, "init")
    BY <1>8, QueueSame DEF ReadFails, IInv, Types
  <2>2. UNCHANGED <<wire, shut, dec, intro, plain, paused, active, writer, progress>>
    BY <1>8 DEF ReadFails, net, mgr
  <2>3. \A d \in Device : reader'[d] # "new"
    BY <1>1, <1>8 DEF ReadFails, Refetch, TornSide, IInv, Types, DeviceType
  <2> QED
    BY <1>1, <2>1, <2>2, <2>3, TornSame DEF TornSide
<1>9. CASE FetchChannel(d0)
  <2>1. Posted(d0, "init")
    BY <1>9, QueueSame DEF FetchChannel, IInv, Types
  <2>2. UNCHANGED <<wire, shut, dec, intro, plain, paused, active, reader, progress>>
    BY <1>9 DEF FetchChannel, net, mgr
  <2>3. \A d \in Device : writer'[d] # "new"
    BY <1>1, <1>9 DEF FetchChannel, TornSide, IInv, Types, DeviceType
  <2> QED
    BY <1>1, <2>1, <2>2, <2>3, TornSame DEF TornSide
<1>10. CASE WriteData(d0)
  <2>1. Posted(d0, "init")
    BY <1>10, QueueSame DEF WriteData, IInv, Types
  <2>2. writer[d0] = "old"
    BY <1>1, <1>10 DEF WriteData, TornSide, Channel
  <2>3. Write(d0, "old", "data", {}) \/ WriteFails(d0, "old", {})
    BY <1>10, <2>2 DEF WriteData
  <2>4. wire' = wire /\ shut' = shut \cup {}
    BY <2>3, TornWrite
  <2>5. UNCHANGED <<dec, intro, plain, paused, active, reader, progress>>
    BY <1>10 DEF WriteData, mgr
  <2>6. \A d \in Device : writer'[d] # "new"
    BY <1>1, <1>10 DEF WriteData, TornSide, IInv, Types, DeviceType
  <2> QED
    BY <1>1, <2>1, <2>4, <2>5, <2>6, TornSame DEF TornSide
<1>11. CASE RemoveEndpoint(d0)
  <2>1. Posted(d0, "removed")
    BY <1>11, JobPosted DEF RemoveEndpoint, IInv, Types
  <2>2. active[d0] = "old"
    BY <1>1, <1>11 DEF RemoveEndpoint, TornSide, Channel
  <2>3. Write(d0, "old", "disconnect", {<<"old", d0>>}) \/ WriteFails(d0, "old", {<<"old", d0>>})
    BY <1>11, <2>2 DEF RemoveEndpoint
  <2>4. wire' = wire /\ shut' = shut \cup {<<"old", d0>>}
    BY <2>3, TornWrite
  <2>5. UNCHANGED <<dec, intro, plain, reader, writer, progress>> /\ paused' \subseteq paused
    BY <1>11 DEF RemoveEndpoint, mgr
  <2>6. active'[d0] = "none" /\ \A d \in Device : d # d0 => active'[d] = active[d]
    BY <1>11 DEF RemoveEndpoint, IInv, Types, DeviceType
  <2> QED
    BY <1>1, <2>1, <2>4, <2>5, <2>6, TornSame DEF TornSide
<1>12. CASE OnEndpointDisconnect(d0)
  <2>1. Posted(d0, "init") /\ Queued(d0, "removed")
    BY <1>12, JobTaken DEF OnEndpointDisconnect, IInv, Types
  <2>2. UNCHANGED <<wire, dec, intro, plain, paused, active, reader, writer>> /\ shut \subseteq shut'
        /\ progress' = progress \ {d0}
    BY <1>12 DEF OnEndpointDisconnect
  <2>3. \A d \in Device : d \in progress' \/ active[d] = "none"
    BY <1>1, <2>1, <2>2 DEF TornSide
  <2> QED
    BY <1>1, <2>1, <2>2, <2>3, TornSame DEF TornSide
<1> QED
  BY <1>2, <1>3, <1>4, <1>5, <1>6, <1>7, <1>8, <1>9, <1>10, <1>11, <1>12 DEF EarlyStep

\* What a device that does not upgrade yet has to keep.
LEMMA QuietSame ==
  ASSUME NEW d \in Device, QuietSide(d), wire'["old"][d] = wire["old"][d], wire'["new"][d] = wire["new"][d],
         enc'[Peer(d)] = enc[Peer(d)], dec'[d] = dec[d], got'[d] = got[d], sent'[Peer(d)] = sent[Peer(d)],
         active'[d] = active[d], reader'[d] = reader[d], writer'[d] # "new", ~Queued(d, "removed")',
         FailFirst(d)'
  PROVE  QuietSide(d)'
<1>1. Flow(d, Len(wire["old"][d]))' /\ Exact(d)'
  BY DEF QuietSide, Flow, Exact
<1> QED
  BY <1>1 DEF QuietSide

\* A frame more on the wire to d, a job more or less in its queue.
LEMMA FailFirstKept ==
  ASSUME IInv, NEW d \in Device, FailFirst(d),
         \/ wire'["old"][d] = wire["old"][d]
         \/ \E f \in Frame : /\ wire'["old"][d] = Append(wire["old"][d], f)
                             /\ f.k # "fail" \/ (~OnWire("old", d, "path") /\ ~Queued(d, "path")),
         \/ bwuQ'[d] = bwuQ[d] \/ bwuQ'[d] = Append(bwuQ[d], "init")
         \/ bwuQ[d] # <<>> /\ (bwuQ'[d] = Tail(bwuQ[d]) \/ bwuQ'[d] = Append(Tail(bwuQ[d]), "init")),
         Queued(d, "path")' => Queued(d, "path")
  PROVE  FailFirst(d)'
<1>1. PICK o \in Seq(Frame) : o = wire["old"][d]
  BY Wires
<1>2. PICK q \in Seq(Job) : q = bwuQ[d]
  BY DEF IInv, Types, ThreadType
<1>3. WFirst(o) /\ QFirst(q) /\ "init" \in Job /\ "init" # "fail"
  BY <1>1, <1>2 DEF FailFirst, Job
<1>4. QFirst(bwuQ'[d])
  <2>1. CASE bwuQ'[d] = q
    BY <1>3, <2>1
  <2>2. CASE bwuQ'[d] = Append(q, "init")
    BY <1>3, <2>2, FirstAdd
  <2>3. CASE q # <<>> /\ (bwuQ'[d] = Tail(q) \/ bwuQ'[d] = Append(Tail(q), "init"))
    <3>1. Tail(q) \in Seq(Job) /\ QFirst(Tail(q))
      BY <1>3, <2>3, FirstTake
    <3>2. QFirst(Append(Tail(q), "init"))
      BY <1>3, <3>1, FirstAdd
    <3> QED
      BY <2>3, <3>1, <3>2
  <2> QED
    BY <1>2, <2>1, <2>2, <2>3
<1>5. CASE wire'["old"][d] = o
  <2>1. OnWire("old", d, "fail")' <=> OnWire("old", d, "fail")
    BY <1>1, <1>5 DEF OnWire
  <2> QED
    BY <1>3, <1>4, <1>5, <2>1 DEF FailFirst
<1>6. ASSUME NEW f \in Frame, wire'["old"][d] = Append(o, f),
             f.k # "fail" \/ (~OnWire("old", d, "path") /\ ~Queued(d, "path"))
      PROVE  FailFirst(d)'
  <2>1. f.k # "fail" \/ \A i \in 1..Len(o) : o[i].k # "path"
    BY <1>1, <1>6 DEF OnWire
  <2>2. WFirst(wire'["old"][d])
    BY <1>3, <1>6, <2>1, FirstAdd
  <2>3. PICK r : r = Append(o, f)
    OBVIOUS
  <2>4. Len(o) \in Nat /\ Len(r) = Len(o) + 1 /\ r[Len(o) + 1] = f /\ \A n \in 1..Len(o) : r[n] = o[n]
    BY <2>3, SeqAdd
  <2>5. \A n \in 1..Len(r) : n = Len(o) + 1 \/ n \in 1..Len(o)
    BY <2>4
  <2>6. OnWire("old", d, "fail")' => OnWire("old", d, "fail") \/ f.k = "fail"
    BY <1>1, <1>6, <2>3, <2>4, <2>5 DEF OnWire
  <2> QED
    BY <1>4, <1>6, <2>2, <2>6 DEF FailFirst
<1> QED
  BY <1>1, <1>5, <1>6

\* Offers stay where they are.
LEMMA OfferSame ==
  ASSUME OfferInv, NEW c0, NEW d0, NEW k0, k0 \notin {"path", "fail"}, Wired(c0, d0, k0),
         NEW d1, NEW k1, k1 \notin {"path", "fail"}, Posted(d1, k1), progress \subseteq progress'
  PROVE  OfferInv'
<1>1. \A k \in {"path", "fail"} : k \in Kinds /\ k \in Job
  BY DEF Kinds, Job
<1>2. \A d \in Device, k \in {"path", "fail"} :
        /\ OnWire("old", d, k)' => OnWire("old", d, k)
        /\ WireOnce("old", d, k) => WireOnce("old", d, k)'
        /\ Queued(d, k)' => Queued(d, k)
        /\ QueuedOnce(d, k) => QueuedOnce(d, k)'
  BY <1>1, Names DEF Wired, Posted
<1>3. \A x \in Device, n \in 1..4 : Offer(x, n)' => Offer(x, n)
  BY <1>2, Peers DEF Offer
<1> QED
  BY <1>2, <1>3 DEF OfferInv

\* A frame is written on the old channel.
LEMMA QuietWrite ==
  ASSUME IInv, Quiet, NEW d0 \in Device, NEW k0 \in Kinds, k0 # "disconnect",
         Write(d0, "old", k0, {}), UNCHANGED <<dec, got, active, reader>>,
         sent' = IF k0 = "data" THEN [sent EXCEPT ![d0] = @ + 1] ELSE sent,
         \A d \in Device : writer'[d] # "new", \A d \in Device : ~Queued(d, "removed")',
         \A d \in Device : Queued(d, "path")' => Queued(d, "path"),
         k0 = "fail" => ~OnWire("old", Peer(d0), "path") /\ ~Queued(Peer(d0), "path"),
         \A d \in Device : bwuQ'[d] = bwuQ[d] \/ (bwuQ[d] # <<>> /\ bwuQ'[d] = Tail(bwuQ[d]))
  PROVE  shut' = shut /\ \A d \in Device : QuietSide(d)'
<1>1. PICK p \in Device : p = Peer(d0)
  BY Peers
<1>2. p # d0 /\ Peer(p) = d0 /\ Peer(d0) = p /\ \A d \in Device : d = p \/ d = d0
  BY <1>1, Peers
<1>3. ~Closed("old", Peer(d0)) /\ ~("old" = "old" /\ d0 \in plain)
  BY DEF Quiet, Closed
<1>4. PICK f \in Frame : /\ f.k = k0 /\ f.s = enc[d0] + 1 /\ Appended("old", p, f)
                         /\ enc'[d0] = enc[d0] + 1 /\ enc'[p] = enc[p] /\ shut' = shut
  <2>1. PICK ends : ends = {}
    OBVIOUS
  <2>2. Write(d0, "old", k0, ends)
    BY <2>1
  <2>3. \E f \in Frame : /\ f.k = k0 /\ f.s = enc[d0] + 1 /\ Appended("old", Peer(d0), f)
                         /\ enc'[d0] = enc[d0] + 1 /\ enc'[Peer(d0)] = enc[Peer(d0)] /\ shut' = shut \cup ends
    BY <1>3, <2>2, Names, WriteAppends
  <2>4. shut \cup ends = shut
    BY <2>1
  <2> QED
    BY <1>1, <2>3, <2>4
<1>5. QuietSide(d0)'
  <2>1. QuietSide(d0) /\ FailFirst(d0)
    BY DEF Quiet, QuietSide
  <2>2. wire'["old"][d0] = wire["old"][d0] /\ wire'["new"][d0] = wire["new"][d0]
    BY <1>2, <1>4, Names DEF Appended
  <2>3. FailFirst(d0)'
    BY <2>1, <2>2, FailFirstKept
  <2>4. sent'[p] = sent[p]
    BY <1>2 DEF IInv, DataInv
  <2> QED
    BY <1>2, <1>4, <2>1, <2>2, <2>3, <2>4, QuietSame
<1>6. QuietSide(p)'
  <2>1. QuietSide(p) /\ FailFirst(p) /\ Exact(p) /\ Flow(p, Len(wire["old"][p])) /\ wire["new"][p] = <<>>
    BY DEF Quiet, QuietSide
  <2>2. PICK o \in Seq(Frame) : o = wire["old"][p]
    BY Wires
  <2>3. PICK u : u = Append(o, f)
    OBVIOUS
  <2>4. wire'["old"][p] = u /\ wire'["new"][p] = <<>>
    BY <1>4, <2>1, <2>2, <2>3, Names, TokenNames DEF Appended
  <2>5. FailFirst(p)'
    BY <1>1, <1>4, <2>1, <2>2, <2>3, <2>4, FailFirstKept
  <2>6. sent'[d0] = IF f.k = "data" THEN sent[d0] + 1 ELSE sent[d0]
    BY <1>4 DEF IInv, DataInv
  <2>7. Exact(p)'
    BY <1>2, <1>4, <2>1, <2>6, Names, ExactAdd
  <2>8. enc[d0] \in Nat /\ dec[p] \in Nat
    BY Wires
  <2>9. Chained(o, <<>>, Len(o), enc[d0], dec[p])
    BY <1>2, <2>1, <2>2 DEF Flow
  <2>10. \A i \in 1..Len(o) : o[i].k # "safeToClose"
    BY <2>2, Early DEF Quiet, OnWire
  <2>11. Chained(u, <<>>, Len(u), enc[d0] + 1, dec[p])
    BY <1>4, <2>3, <2>8, <2>9, <2>10, ChainOld
  <2>12. Flow(p, Len(wire["old"][p]))'
    BY <1>2, <1>4, <2>4, <2>11 DEF Flow
  <2> QED
    BY <2>1, <2>4, <2>5, <2>7, <2>12 DEF QuietSide
<1> QED
  BY <1>2, <1>4, <1>5, <1>6

\* An offer, or the answer to it, moves from one place to another at most.
LEMMA OfferMoves ==
  ASSUME OfferInv, NEW x \in Device, NEW n \in 1..4,
         \A y \in Device, i \in 1..4 : Offer(y, i)' => (y = x /\ i = n) \/ (y # x /\ Offer(y, i)),
         \A d \in Device, k \in {"path", "fail"} : WireOnce("old", d, k)' /\ QueuedOnce(d, k)',
         x \in progress' \/ ~Offer(x, n)', \A y \in Device : y # x /\ y \in progress => y \in progress'
  PROVE  OfferInv'
<1>1. \A y \in Device, i \in 1..4 : Offer(y, i)' => y \in progress'
  BY DEF OfferInv
<1>2. ASSUME NEW y \in Device, NEW i \in 1..4, NEW j \in 1..4, Offer(y, i)', Offer(y, j)' PROVE i = j
  BY <1>2 DEF OfferInv
<1> QED
  BY <1>1, <1>2 DEF OfferInv

\* A frame is read while only the old channel is used.
LEMMA QuietRead ==
  ASSUME IInv, Quiet, NEW d0 \in Device, HandleData(d0)
  PROVE  Quiet'
<1>1. /\ reader[d0] = "old" /\ wire["new"][d0] = <<>> /\ Flow(d0, Len(wire["old"][d0])) /\ Exact(d0)
      /\ FailFirst(d0) /\ d0 \notin plain
  BY DEF Quiet, QuietSide
<1>2. PICK f : f = Head(wire["old"][d0])
  OBVIOUS
<1>3. PICK q \in Seq(Frame) : q = wire["old"][d0]
  BY Wires
<1>4. PICK u : u = Tail(q)
  OBVIOUS
<1>5. /\ UNCHANGED <<enc, plain, intro, dialer, active, prev, upgraded, progress, bwu, writer, sent, tries>>
      /\ q # <<>> /\ wire' = [wire EXCEPT !["old"][d0] = Tail(@)]
  BY <1>1, <1>3 DEF HandleData, mgr
<1>6. PICK r \in Nat : r = dec[d0]
  BY Wires
<1>7. PICK w : w = <<>>
  OBVIOUS
<1>8. PICK z, e : z = Len(q) /\ e = enc[Peer(d0)] /\ Chained(q, w, z, e, r) /\ Len(w) \in Nat
  <2>1. Chained(q, w, Len(q), enc[Peer(d0)], r) /\ Len(w) \in Nat
    BY <1>1, <1>3, <1>6, <1>7 DEF Flow
  <2> QED
    BY <2>1
<1>9. Len(q) \in Nat /\ Len(q) # 0 /\ f = Head(q) /\ u \in Seq(Frame)
  BY <1>2, <1>3, <1>4, <1>5
<1>10. Rest(f, u, w, z, e, r) /\ Len(u) = Len(q) - 1
  BY <1>4, <1>5, <1>8, <1>9, ChainTake
<1>11. /\ f.s = r + 1 /\ Chained(u, w, Len(u), enc[Peer(d0)], r + 1) /\ f.k # "disconnect"
  BY <1>8, <1>9, <1>10 DEF Rest
<1>12. Decodes(d0, f)
  BY <1>6, <1>11 DEF Decodes
<1>13. dec' = [dec EXCEPT ![d0] = @ + 1] /\ Deliver(d0, "old", f) /\ reader' = reader
  BY <1>1, <1>2, <1>12 DEF HandleData
<1>14. Taken("old", d0, f)
  BY <1>2, <1>3, <1>5 DEF Taken, IInv, Types, NetType, Channel
<1>15. /\ wire'["old"][d0] = u /\ wire'["new"][d0] = w /\ dec'[d0] = r + 1
       /\ \A d \in Device : d # d0 => /\ dec'[d] = dec[d] /\ wire'["old"][d] = wire["old"][d]
                                      /\ wire'["new"][d] = wire["new"][d]
  <2>1. wire'["old"][d0] = u /\ wire'["new"][d0] = w
    BY <1>1, <1>3, <1>4, <1>7, <1>14, Names, TokenNames DEF Taken
  <2>2. dec'[d0] = r + 1 /\ \A d \in Device : d # d0 => dec'[d] = dec[d]
    BY <1>6, <1>13 DEF IInv, Types, DeviceType
  <2>3. \A d \in Device : d # d0 => wire'["old"][d] = wire["old"][d] /\ wire'["new"][d] = wire["new"][d]
    BY <1>14, Names DEF Taken
  <2> QED
    BY <2>1, <2>2, <2>3
<1>16. /\ f \in Frame /\ f.k \in Kinds /\ OnWire("old", d0, f.k) /\ \A c1, d1, k1 : Wired(c1, d1, k1)
       /\ (WireOnce("old", d0, f.k) => ~OnWire("old", d0, f.k)')
  BY <1>2, <1>3, <1>5, Names, WireTake DEF IInv, Types
<1>17. f.k \in {"path", "fail", "data"}
  BY <1>11, <1>16, Early DEF Quiet, Kinds
<1>18. shut' = shut /\ paused' = paused /\ got' = [got EXCEPT ![d0] = IF f.k = "data" THEN @ + 1 ELSE @]
  BY <1>11, <1>13 DEF Deliver
<1>19. \A d \in Device, k \in {"path", "fail"} :
         /\ OnWire("old", d, k)' => OnWire("old", d, k) /\ ~(d = d0 /\ k = f.k)
         /\ WireOnce("old", d, k)'
  <2>1. Wired("old", d0, "data") /\ OfferInv /\ \A k \in {"path", "fail"} : k \in Kinds /\ k # "data"
    BY <1>16 DEF Kinds, Quiet
  <2> QED
    BY <1>16, <2>1, Names DEF Wired, OfferInv
<1>20. /\ \A d \in Device, k \in {"path", "fail"} : Queued(d, k)' => Queued(d, k) \/ (d = d0 /\ k = f.k)
       /\ \A d \in Device : ~Queued(d, "removed")'
       /\ \A d \in Device, k \in {"path", "fail"} : QueuedOnce(d, k)'
  <2>0. \A d \in Device, k \in {"path", "fail"} : ~Queued(d, "removed") /\ QueuedOnce(d, k)
    BY DEF Quiet, QuietSide, OfferInv
  <2>1. CASE f.k = "data"
    BY <1>13, <2>0, <2>1 DEF Deliver, Queued, QueuedOnce
  <2>2. CASE f.k # "data"
    <3>1. f.k \in Job /\ f.k # "removed" /\ "fail" \in Job /\ "removed" \in Job /\ "path" \in Job
      BY <1>17, <2>2 DEF Kinds, Job
    <3>2. Posted(d0, f.k)
      BY <1>11, <1>13, <2>2, <3>1, JobPosted DEF Deliver, Post, IInv, Types
    <3>3. ~Queued(d0, f.k)
      <4>1. CASE f.k = "path"
        <5>1. Offer(Peer(d0), 1) /\ (Queued(d0, "path") => Offer(Peer(d0), 2))
          BY <1>16, <4>1, Peers DEF Offer
        <5> QED
          BY <4>1, <5>1, Peers DEF Quiet, OfferInv
      <4>2. CASE f.k = "fail"
        <5>1. Offer(d0, 3) /\ (Queued(d0, "fail") => Offer(d0, 4))
          BY <1>16, <4>2, Peers DEF Offer
        <5> QED
          BY <4>2, <5>1 DEF Quiet, OfferInv
      <4> QED
        BY <1>17, <2>2, <4>1, <4>2
    <3> QED
      BY <2>0, <3>1, <3>2, <3>3 DEF Posted
  <2> QED
    BY <2>1, <2>2
<1>21. OfferInv'
  <2>1. CASE f.k = "data"
    <3>1. \A y \in Device, i \in 1..4 : Offer(y, i)' => Offer(y, i)
      BY <1>19, <1>20, <2>1, Peers DEF Offer
    <3> QED
      BY <1>5, <1>19, <1>20, <3>1 DEF Quiet, OfferInv
  <2>2. CASE f.k = "path"
    <3>1. Peer(d0) \in Device /\ Offer(Peer(d0), 1)
      BY <1>16, <2>2, Peers DEF Offer
    <3>2. \A y \in Device, i \in 1..4 : Offer(y, i)' => (y = Peer(d0) /\ i = 2) \/ (Offer(y, i) /\ ~(y = Peer(d0) /\ i = 1))
      BY <1>19, <1>20, <2>2, Peers DEF Offer
    <3>3. \A y \in Device, i \in 1..4 : Offer(y, i)' => (y = Peer(d0) /\ i = 2) \/ (y # Peer(d0) /\ Offer(y, i))
      BY <3>1, <3>2 DEF Quiet, OfferInv
    <3>4. Peer(d0) \in progress
      BY <3>1 DEF Quiet, OfferInv
    <3> QED
      BY <1>5, <1>19, <1>20, <3>1, <3>3, <3>4, OfferMoves DEF Quiet
  <2>3. CASE f.k = "fail"
    <3>1. Offer(d0, 3)
      BY <1>16, <2>3, Peers DEF Offer
    <3>2. \A y \in Device, i \in 1..4 : Offer(y, i)' => (y = d0 /\ i = 4) \/ (Offer(y, i) /\ ~(y = d0 /\ i = 3))
      BY <1>19, <1>20, <2>3, Peers DEF Offer
    <3>3. \A y \in Device, i \in 1..4 : Offer(y, i)' => (y = d0 /\ i = 4) \/ (y # d0 /\ Offer(y, i))
      BY <3>1, <3>2 DEF Quiet, OfferInv
    <3>4. d0 \in progress
      BY <3>1 DEF Quiet, OfferInv
    <3> QED
      BY <1>5, <1>19, <1>20, <3>3, <3>4, OfferMoves DEF Quiet
  <2> QED
    BY <1>17, <2>1, <2>2, <2>3
<1>22. FailFirst(d0)'
  <2>1. WFirst(q) /\ WFirst(wire'["old"][d0]) /\ (f.k = "path" => ~OnWire("old", d0, "fail"))
    BY <1>1, <1>3, <1>4, <1>5, <1>9, <1>15, FirstTake DEF FailFirst, OnWire
  <2>2. OnWire("old", d0, "fail")' => ~Queued(d0, "path")'
    BY <1>1, <1>19, <1>20, <2>1 DEF FailFirst
  <2>3. PICK j \in Seq(Job) : j = bwuQ[d0]
    BY DEF IInv, Types, ThreadType
  <2>4. QFirst(j)
    BY <1>1, <2>3 DEF FailFirst
  <2>5. QFirst(bwuQ'[d0])
    <3>1. CASE f.k = "data"
      BY <1>13, <2>3, <2>4, <3>1 DEF Deliver
    <3>2. CASE f.k # "data"
      <4>1. bwuQ'[d0] = Append(j, f.k) /\ f.k \in Job
        BY <1>13, <1>17, <2>3, <3>2 DEF Deliver, IInv, Types, ThreadType, Job
      <4>2. f.k # "fail" \/ \A i \in 1..Len(j) : j[i] # "path"
        BY <1>1, <1>16, <2>3 DEF FailFirst, Queued
      <4> QED
        BY <2>4, <4>1, <4>2, FirstAdd
    <3> QED
      BY <3>1, <3>2
  <2> QED
    BY <2>1, <2>2, <2>5 DEF FailFirst
<1>23. Exact(d0)'
  <2>1. got'[d0] = (IF f.k = "data" THEN got[d0] + 1 ELSE got[d0]) /\ sent'[Peer(d0)] = sent[Peer(d0)]
    BY <1>5, <1>18 DEF IInv, DataInv
  <2> QED
    BY <1>1, <1>14, <2>1, Names, ExactTake
<1>24. QuietSide(d0)'
  <2>1. Flow(d0, Len(wire["old"][d0]))'
    BY <1>5, <1>7, <1>11, <1>15 DEF Flow
  <2> QED
    BY <1>5, <1>7, <1>13, <1>15, <1>20, <1>22, <1>23, <2>1 DEF Quiet, QuietSide
<1>25. ASSUME NEW d \in Device, d # d0 PROVE QuietSide(d)'
  <2>1. QuietSide(d) /\ FailFirst(d)
    BY DEF Quiet, QuietSide
  <2>2. bwuQ'[d] = bwuQ[d] /\ got'[d] = got[d]
    BY <1>13, <1>25 DEF Deliver, IInv, Types, ThreadType, DataInv
  <2>3. FailFirst(d)'
    BY <1>15, <1>25, <2>1, <2>2 DEF FailFirst, OnWire, Queued
  <2> QED
    BY <1>5, <1>13, <1>15, <1>20, <1>25, <2>1, <2>2, <2>3, QuietSame DEF QuietSide
<1> QED
  BY <1>5, <1>18, <1>21, <1>24, <1>25 DEF Quiet

\* Nothing is read or written.
LEMMA QuietKeeps ==
  ASSUME IInv, Quiet, UNCHANGED <<wire, enc, dec, got, sent, active, reader, shut, plain, intro, paused>>,
         \A d \in Device : writer'[d] # "new", OfferInv', NEW d0 \in Device, Posted(d0, "init"),
         \A d \in Device : d # d0 => bwuQ'[d] = bwuQ[d],
         \/ bwuQ'[d0] = bwuQ[d0] \/ bwuQ'[d0] = Append(bwuQ[d0], "init")
         \/ bwuQ[d0] # <<>> /\ (bwuQ'[d0] = Tail(bwuQ[d0]) \/ bwuQ'[d0] = Append(Tail(bwuQ[d0]), "init"))
  PROVE  Quiet'
<1>1. "removed" \in Job /\ "path" \in Job /\ "init" # "removed" /\ "init" # "path"
  BY DEF Job
<1>2. ASSUME NEW d \in Device PROVE QuietSide(d)'
  <2>1. QuietSide(d) /\ FailFirst(d) /\ ~Queued(d, "removed")
    BY DEF Quiet, QuietSide
  <2>2. ~Queued(d, "removed")' /\ (Queued(d, "path")' => Queued(d, "path"))
    BY <1>1, <2>1 DEF Posted
  <2>3. FailFirst(d)'
    BY <2>1, <2>2, FailFirstKept
  <2> QED
    BY <2>1, <2>2, <2>3, QuietSame
<1> QED
  BY <1>2 DEF Quiet

\* A job is taken: the queues.
LEMMA QueueTaken ==
  ASSUME IInv, NEW d0 \in Device, NEW k, NextJob(d0, k), JobDone(d0)
  PROVE  /\ bwuQ[d0] # <<>> /\ bwuQ'[d0] = Tail(bwuQ[d0]) /\ Head(bwuQ[d0]) = k
         /\ \A d \in Device : d # d0 => bwuQ'[d] = bwuQ[d]
BY DEF NextJob, JobDone, IInv, Types, ThreadType

\* Offers in the queue of a device.
LEMMA OfferTaken ==
  ASSUME IInv, OfferInv, NEW d0 \in Device, NextJob(d0, "path"), JobDone(d0)
  PROVE  /\ Offer(Peer(d0), 2) /\ Peer(d0) \in progress /\ ~Queued(d0, "path")' /\ Posted(d0, "init")
         /\ Queued(d0, "path")
<1>1. Queued(d0, "path") /\ Posted(d0, "init") /\ (QueuedOnce(d0, "path") => ~Queued(d0, "path")')
  BY JobTaken DEF IInv, Types
<1>2. Offer(Peer(d0), 2)
  BY <1>1, Peers DEF Offer
<1> QED
  BY <1>1, <1>2, Peers DEF OfferInv

\* Both have offered.
LEMMA QuietDuplicate ==
  ASSUME IInv, Quiet, NEW d0 \in Device, DuplicatePath(d0)
  PROVE  Torn'
<1>1. /\ Offer(Peer(d0), 2) /\ Peer(d0) \in progress /\ Posted(d0, "init") /\ d0 \in progress /\ Queued(d0, "path")
      /\ Head(bwuQ[d0]) = "path" /\ bwuQ[d0] # <<>>
  BY OfferTaken, QueueTaken DEF DuplicatePath, Quiet
<1>2. UNCHANGED <<wire, plain, intro, dec, active, progress, reader, writer>>
  BY DEF DuplicatePath
<1>3. <<"old", d0>> \in shut' /\ paused' = {}
  BY Names DEF DuplicatePath, Quiet, QuietSide
<1>4. ~OnWire("old", d0, "fail") /\ ~Queued(d0, "fail")
  <2>1. PICK q \in Seq(Job) : q = bwuQ[d0]
    BY DEF IInv, Types, ThreadType
  <2>2. QFirst(q) /\ q # <<>> /\ Head(q) = "path"
    BY <1>1, <2>1 DEF Quiet, QuietSide, FailFirst
  <2>3. \A i \in 1..Len(q) : q[i] # "fail"
    BY <2>2, FirstTake
  <2>4. ~Queued(d0, "fail")
    BY <2>1, <2>3 DEF Queued
  <2> QED
    BY <1>1, <2>4 DEF Quiet, QuietSide, FailFirst
<1>5. ~OnWire("old", Peer(d0), "fail") /\ ~Queued(Peer(d0), "fail")
  <2>1. /\ OnWire("old", Peer(d0), "fail") => Offer(Peer(d0), 3)
        /\ Queued(Peer(d0), "fail") => Offer(Peer(d0), 4)
    BY DEF Offer
  <2> QED
    BY <1>1, <2>1, Peers DEF Quiet, OfferInv
<1>6. ASSUME NEW d \in Device PROVE TornSide(d)'
  <2>1. QuietSide(d)
    BY DEF Quiet
  <2>2. "fail" \in Job /\ "removed" \in Job
    BY DEF Job
  <2>3. ~Queued(d, "fail")' /\ ~Queued(d, "removed")' /\ ~OnWire("old", d, "fail")'
    BY <1>1, <1>2, <1>4, <1>5, <2>1, <2>2, Peers DEF Posted, QuietSide, OnWire
  <2>4. Len(wire["old"][d]) \in Nat
    BY Wires
  <2>5. \A i \in 1..Len(wire["old"][d]) : i <= Len(wire["old"][d])
    BY <2>4
  <2>6. \A i \in 1..Len(wire["old"][d]) : wire["old"][d][i].s = dec[d] + i
    BY <2>1, <2>5 DEF QuietSide, Flow, Chained
  <2> QED
    BY <1>1, <1>2, <2>1, <2>3, <2>6, Peers DEF QuietSide, TornSide
<1> QED
  BY <1>2, <1>3, <1>6 DEF Torn, Quiet, Closed

\* The responder has connected.
LEMMA QuietConnect ==
  ASSUME IInv, Quiet, NEW d0 \in Device, NextJob(d0, "path"), JobDone(d0), d0 \notin progress,
         intro' = "connected", bwu' = [bwu EXCEPT ![d0] = "awaitAck"],
         UNCHANGED <<wire, shut, enc, dec, plain, paused, progress, prev, active, reader, writer, got, sent>>
  PROVE  Moving'
<1>1. /\ Offer(Peer(d0), 2) /\ Peer(d0) \in progress /\ Posted(d0, "init") /\ ~Queued(d0, "path")'
  BY OfferTaken DEF Quiet
<1>2. \A n \in 1..4 : ~Offer(d0, n)
  BY DEF Quiet, OfferInv
<1>3. ~Offer(Peer(d0), 1) /\ ~Offer(Peer(d0), 3) /\ ~Offer(Peer(d0), 4)
  BY <1>1, Peers DEF Quiet, OfferInv
<1>4. /\ ~OnWire("old", Peer(d0), "path") /\ ~OnWire("old", d0, "fail") /\ ~Queued(Peer(d0), "path")
      /\ ~Queued(d0, "fail") /\ ~OnWire("old", d0, "path") /\ ~OnWire("old", Peer(d0), "fail")
      /\ ~Queued(Peer(d0), "fail")
  BY <1>2, <1>3, Peers DEF Offer
<1>5. ASSUME NEW d \in Device PROVE MovingSide(d)' /\ Ordered(d)' /\ Exact(d)'
  <2>1. QuietSide(d) /\ Len(wire["old"][d]) \in Nat
    BY Wires DEF Quiet
  <2>2. /\ bwu[d] \notin {"lastWrite", "draining"} /\ ~Queued(d, "safeToClose") /\ ~OnWire("old", d, "safeToClose")
        /\ bwu[Peer(d)] # "lastWrite"
    BY Early, Peers DEF Quiet
  <2>3. /\ "fail" \in Job /\ "removed" \in Job /\ "path" \in Job /\ "safeToClose" \in Job
        /\ "init" # "safeToClose" /\ "init" # "removed" /\ "init" # "path" /\ "init" # "fail"
    BY DEF Job
  <2>4. ~Queued(d, "safeToClose")' /\ ~OnWire("old", d, "safeToClose")' /\ ~Queued(d, "removed")'
    BY <1>1, <2>1, <2>2, <2>3 DEF Posted, QuietSide, OnWire
  <2>5. \A k \in {"path", "fail"} : ~OnWire("old", d, k)' /\ ~Queued(d, k)'
    BY <1>1, <1>4, <2>3, Peers DEF Posted, OnWire
  <2>6. bwu'[d] # "draining" /\ (d \in progress' \/ bwu'[d] = "awaitAck")
    BY <1>1, <2>2, Peers DEF IInv, Types, ThreadType
  <2>7. ~Answered(d)'
    BY <2>4 DEF Answered, Quiet
  <2>8. MovingSide(d)'
    BY <2>1, <2>4, <2>5, <2>6, <2>7, Names DEF MovingSide, QuietSide, Quiet, Closed
  <2>9. Flow(d, Len(wire["old"][d]))' /\ Exact(d)'
    BY <2>1 DEF QuietSide, Flow, Exact
  <2>10. Ordered(d)'
    BY <2>1, <2>4, <2>9 DEF Ordered, QuietSide, Quiet
  <2> QED
    BY <2>8, <2>9, <2>10
<1> QED
  BY <1>5 DEF Moving

\* Nothing fails on open channels.
LEMMA QuietOpen ==
  ASSUME Quiet, NEW d \in Device, NEW c, NEW ends
  PROVE  ~WriteFails(d, c, ends) /\ ~ReadBroken(d, c)
BY DEF Quiet, WriteFails, SendFails, ReadBroken, Closed

\* An offer is written.
LEMMA QuietOffer ==
  ASSUME IInv, Quiet, NEW d0 \in Device, Initiate(d0), Write(d0, "old", "path", {}), d0 \notin progress,
         progress' = progress \cup {d0}
  PROVE  Quiet'
<1>1. UNCHANGED <<plain, intro, dec, active, paused, reader, writer, sent, got>>
  BY DEF Initiate, data
<1>2. NextJob(d0, "init") /\ JobDone(d0) /\ Posted(d0, "init")
  BY JobTaken DEF Initiate, IInv, Types
<1>3. Wired("old", Peer(d0), "path") /\ "path" \in Kinds
  BY Names, Writing DEF IInv, Types
<1>4. "removed" \in Job /\ "path" \in Job /\ "fail" \in Job /\ "init" # "removed" /\ "init" # "path" /\ "init" # "fail"
      /\ "fail" \in Kinds
  BY DEF Job, Kinds
<1>5. \A d \in Device : ~Queued(d, "removed")' /\ writer'[d] # "new" /\ (Queued(d, "path")' => Queued(d, "path"))
  BY <1>1, <1>2, <1>4 DEF Posted, Quiet, QuietSide
<1>6. \A d \in Device : bwuQ'[d] = bwuQ[d] \/ (bwuQ[d] # <<>> /\ bwuQ'[d] = Tail(bwuQ[d]))
  BY <1>2, QueueTaken
<1>7. shut' = shut /\ \A d \in Device : QuietSide(d)'
  <2>1. PICK k0 \in Kinds : k0 = "path"
    BY <1>3
  <2>2. /\ k0 # "disconnect" /\ k0 # "fail" /\ k0 # "data" /\ Write(d0, "old", k0, {})
        /\ sent' = IF k0 = "data" THEN [sent EXCEPT ![d0] = @ + 1] ELSE sent
    BY <1>1, <2>1
  <2> QED
    BY <1>1, <1>5, <1>6, <2>2, QuietWrite
<1>8. \A i \in 1..4 : ~Offer(d0, i)
  BY DEF Quiet, OfferInv
<1>9. \A d \in Device, k \in {"path", "fail"} :
        /\ OnWire("old", d, k)' => OnWire("old", d, k) \/ (d = Peer(d0) /\ k = "path")
        /\ Queued(d, k)' => Queued(d, k)
  BY <1>2, <1>3, <1>4, Names DEF Wired, Posted
<1>10. ~OnWire("old", Peer(d0), "path")
  BY <1>8 DEF Offer
<1>11. \A d \in Device, k \in {"path", "fail"} : WireOnce("old", d, k)' /\ QueuedOnce(d, k)'
  <2>1. \A d \in Device, k \in {"path", "fail"} : WireOnce("old", d, k) /\ QueuedOnce(d, k)
    BY DEF Quiet, OfferInv
  <2> QED
    BY <1>2, <1>3, <1>4, <1>10, <2>1, Names DEF Wired, Posted
<1>12. \A y \in Device, i \in 1..4 : Offer(y, i)' => (y = d0 /\ i = 1) \/ Offer(y, i)
  BY <1>9, Peers DEF Offer
<1>13. \A y \in Device, i \in 1..4 : Offer(y, i)' => (y = d0 /\ i = 1) \/ (y # d0 /\ Offer(y, i))
  BY <1>8, <1>12
<1>14. OfferInv'
  BY <1>11, <1>13, OfferMoves DEF Quiet
<1> QED
  BY <1>1, <1>7, <1>14 DEF Quiet

\* The responder could not connect.
LEMMA QuietFail ==
  ASSUME IInv, ~Faults, Quiet, NEW d0 \in Device, ProcessBwuPathAvailable(d0),
         RunUpgradeFailedProtocol(d0, {}), UNCHANGED <<intro, bwu>>
  PROVE  Quiet'
<1>1. UNCHANGED <<plain, intro, dec, active, paused, reader, writer, sent, got>> /\ d0 \notin progress
  BY DEF ProcessBwuPathAvailable, data
<1>2. NextJob(d0, "path") /\ JobDone(d0)
  BY DEF ProcessBwuPathAvailable
<1>3. Offer(Peer(d0), 2) /\ Peer(d0) \in progress /\ ~Queued(d0, "path")' /\ Posted(d0, "init")
  BY <1>2, OfferTaken DEF Quiet
<1>4. active[d0] = "old"
  BY DEF Quiet, QuietSide
<1>5. Write(d0, "old", "fail", {}) /\ progress' = progress
  <2>1. \/ Write(d0, "old", "fail", {}) /\ progress' = progress \ {d0}
        \/ WriteFails(d0, "old", {} \cup {<<"old", d0>>})
    BY <1>4 DEF RunUpgradeFailedProtocol
  <2> QED
    BY <1>1, <2>1, QuietOpen
<1>6. Wired("old", Peer(d0), "fail") /\ "fail" \in Kinds
  BY <1>5, Names, Writing DEF IInv, Types
<1>7. "removed" \in Job /\ "path" \in Job /\ "fail" \in Job /\ "init" # "removed" /\ "init" # "path" /\ "init" # "fail"
      /\ "path" \in Kinds
  BY DEF Job, Kinds
<1>8. \A d \in Device : ~Queued(d, "removed")' /\ writer'[d] # "new" /\ (Queued(d, "path")' => Queued(d, "path"))
  BY <1>1, <1>3, <1>7 DEF Posted, Quiet, QuietSide
<1>9. \A d \in Device : bwuQ'[d] = bwuQ[d] \/ (bwuQ[d] # <<>> /\ bwuQ'[d] = Tail(bwuQ[d]))
  BY <1>2, QueueTaken
<1>10. \A i \in 1..4 : ~Offer(d0, i)
  BY <1>1 DEF Quiet, OfferInv
<1>11. ~OnWire("old", Peer(d0), "path") /\ ~Queued(Peer(d0), "path")
  BY <1>10 DEF Offer
<1>12. shut' = shut /\ \A d \in Device : QuietSide(d)'
  <2>1. PICK k0 \in Kinds : k0 = "fail"
    BY <1>6
  <2>2. /\ k0 # "disconnect" /\ k0 # "data" /\ Write(d0, "old", k0, {})
        /\ sent' = IF k0 = "data" THEN [sent EXCEPT ![d0] = @ + 1] ELSE sent
    BY <1>1, <1>5, <2>1
  <2> QED
    BY <1>1, <1>8, <1>9, <1>11, <2>2, QuietWrite
<1>13. \A d \in Device, k \in {"path", "fail"} :
         /\ OnWire("old", d, k)' => OnWire("old", d, k) \/ (d = Peer(d0) /\ k = "fail")
         /\ Queued(d, k)' => Queued(d, k) /\ ~(d = d0 /\ k = "path")
  BY <1>3, <1>6, <1>7, Names DEF Wired, Posted
<1>14. ~OnWire("old", Peer(d0), "fail")
  <2>1. OnWire("old", Peer(d0), "fail") => Offer(Peer(d0), 3)
    BY DEF Offer
  <2> QED
    BY <1>3, <2>1, Peers DEF Quiet, OfferInv
<1>15. \A d \in Device, k \in {"path", "fail"} : WireOnce("old", d, k)' /\ QueuedOnce(d, k)'
  <2>1. \A d \in Device, k \in {"path", "fail"} : WireOnce("old", d, k) /\ QueuedOnce(d, k)
    BY DEF Quiet, OfferInv
  <2> QED
    BY <1>3, <1>6, <1>7, <1>14, <2>1, Names DEF Wired, Posted
<1>16. \A y \in Device, i \in 1..4 : Offer(y, i)' => (y = Peer(d0) /\ i = 3) \/ (Offer(y, i) /\ ~(y = Peer(d0) /\ i = 2))
  BY <1>13, Peers DEF Offer
<1>17. \A y \in Device, i \in 1..4 : Offer(y, i)' => (y = Peer(d0) /\ i = 3) \/ (y # Peer(d0) /\ Offer(y, i))
  BY <1>3, <1>16, Peers DEF Quiet, OfferInv
<1>18. OfferInv'
  <2>1. PICK x \in Device : x = Peer(d0)
    BY Peers
  <2> QED
    BY <1>3, <1>5, <1>15, <1>17, <2>1, OfferMoves DEF Quiet
<1> QED
  BY <1>1, <1>12, <1>18 DEF Quiet

\* Every step of a device that does not upgrade yet.
LEMMA QuietStep ==
  ASSUME IInv, ~Faults, Quiet, NEW d0 \in Device, EarlyStep(d0)
  PROVE  OrderInv'
<1> USE Names
<1>1. /\ \A d \in Device : QuietSide(d) /\ writer[d] # "new" /\ active[d] = "old" /\ reader[d] = "old"
      /\ OfferInv /\ "path" \notin {"init"} /\ "init" \notin {"path", "fail"} /\ "data" \notin {"path", "fail"}
  BY DEF Quiet, QuietSide
<1>2. CASE InitiateBwuForEndpoint(d0)
  <2>1. Posted(d0, "init") /\ Wired("old", d0, "data")
    BY <1>2, JobPosted, WireSame DEF InitiateBwuForEndpoint, IInv, Types, net
  <2>2. UNCHANGED <<wire, enc, dec, got, sent, active, reader, shut, plain, intro, paused, writer, progress>>
    BY <1>2 DEF InitiateBwuForEndpoint, net, mgr, data
  <2>3. bwuQ'[d0] = Append(bwuQ[d0], "init") /\ \A d \in Device : d # d0 => bwuQ'[d] = bwuQ[d]
    BY <1>2 DEF InitiateBwuForEndpoint, Post, IInv, Types, ThreadType
  <2>4. OfferInv'
    BY <1>1, <2>1, <2>2, OfferSame
  <2>5. \A d \in Device : writer'[d] # "new"
    BY <1>1, <2>2
  <2> QED
    BY <2>1, <2>2, <2>3, <2>4, <2>5, QuietKeeps DEF OrderInv
<1>3. CASE Initiate(d0)
  <2>1. NextJob(d0, "init") /\ JobDone(d0) /\ Posted(d0, "init")
    BY <1>3, JobTaken DEF Initiate, IInv, Types
  <2>2. CASE UNCHANGED <<wire, enc, shut, progress>>
    <3>1. UNCHANGED <<wire, enc, dec, got, sent, active, reader, shut, plain, intro, paused, writer, progress>>
      BY <1>3, <2>2 DEF Initiate, data
    <3>2. Wired("old", d0, "data")
      BY <2>2, WireSame DEF IInv, Types
    <3>3. OfferInv'
      BY <1>1, <2>1, <3>1, <3>2, OfferSame
    <3>4. \A d \in Device : writer'[d] # "new"
      BY <1>1, <3>1
    <3> QED
      BY <2>1, <3>1, <3>3, <3>4, QueueTaken, QuietKeeps DEF OrderInv
  <2>3. CASE d0 \notin progress /\ Write(d0, "old", "path", {}) /\ progress' = progress \cup {d0}
    BY <1>3, <2>3, QuietOffer DEF OrderInv
  <2>4. ~WriteFails(d0, "old", {})
    BY QuietOpen
  <2> QED
    BY <1>3, <2>2, <2>3, <2>4 DEF Initiate
<1>4. CASE DuplicatePath(d0)
  BY <1>4, QuietDuplicate DEF OrderInv
<1>5. CASE ProcessBwuPathAvailable(d0)
  <2>1. CASE RunUpgradeFailedProtocol(d0, {}) /\ UNCHANGED <<intro, bwu>>
    BY <1>5, <2>1, QuietFail DEF OrderInv
  <2>2. CASE intro' = "connected" /\ bwu' = [bwu EXCEPT ![d0] = "awaitAck"] /\ UNCHANGED <<wire, enc, shut, progress>>
    <3>1. /\ UNCHANGED <<wire, shut, enc, dec, plain, paused, progress, prev, active, reader, writer, got, sent>>
          /\ NextJob(d0, "path") /\ JobDone(d0) /\ d0 \notin progress
      BY <1>5, <2>2 DEF ProcessBwuPathAvailable, data
    <3> QED
      BY <2>2, <3>1, QuietConnect DEF OrderInv
  <2> QED
    BY <1>5, <2>1, <2>2 DEF ProcessBwuPathAvailable
<1>6. CASE ProcessUpgradeFailure(d0)
  <2>1. /\ NextJob(d0, "fail") /\ progress' = progress \ {d0}
        /\ JobDone(d0) \/ bwuQ' = [bwuQ EXCEPT ![d0] = Append(Tail(@), "init")]
    BY <1>6 DEF ProcessUpgradeFailure
  <2>2. Posted(d0, "init") /\ Queued(d0, "fail") /\ ~Queued(d0, "fail")'
    <3>1. QueuedOnce(d0, "fail") /\ "fail" # "init"
      BY <1>1 DEF OfferInv
    <3> QED
      BY <2>1, <3>1, JobTaken DEF IInv, Types
  <2>3. UNCHANGED <<wire, enc, dec, got, sent, active, reader, shut, plain, intro, paused, writer>>
    BY <1>6 DEF ProcessUpgradeFailure, net, data
  <2>4. /\ bwuQ[d0] # <<>> /\ (bwuQ'[d0] = Tail(bwuQ[d0]) \/ bwuQ'[d0] = Append(Tail(bwuQ[d0]), "init"))
        /\ \A d \in Device : d # d0 => bwuQ'[d] = bwuQ[d]
    BY <2>1 DEF NextJob, JobDone, IInv, Types, ThreadType
  <2>5. Wired("old", d0, "data")
    BY <2>3, WireSame DEF IInv, Types
  <2>6. /\ "path" \in Job /\ "fail" \in Job /\ "init" # "path" /\ "init" # "fail"
        /\ "path" \in Kinds /\ "fail" \in Kinds /\ "data" # "path" /\ "data" # "fail"
    BY DEF Job, Kinds
  <2>7. \A d \in Device, k \in {"path", "fail"} :
          /\ OnWire("old", d, k)' => OnWire("old", d, k)
          /\ Queued(d, k)' => Queued(d, k) /\ ~(d = d0 /\ k = "fail")
          /\ WireOnce("old", d, k)' /\ QueuedOnce(d, k)'
    BY <1>1, <2>2, <2>5, <2>6 DEF Wired, Posted, OfferInv
  <2>8. Offer(d0, 4) /\ ~Offer(d0, 4)'
    BY <2>2 DEF Offer
  <2>9. \A y \in Device, i \in 1..4 : Offer(y, i)' => Offer(y, i) /\ ~(y = d0 /\ i = 4)
    BY <2>7, Peers DEF Offer
  <2>10. \A y \in Device, i \in 1..4 : Offer(y, i)' => (y = d0 /\ i = 4) \/ (y # d0 /\ Offer(y, i))
    BY <1>1, <2>8, <2>9 DEF OfferInv
  <2>11. OfferInv'
    BY <1>1, <2>1, <2>7, <2>8, <2>10, OfferMoves
  <2>12. \A d \in Device : writer'[d] # "new"
    BY <1>1, <2>3
  <2> QED
    BY <2>2, <2>3, <2>4, <2>11, <2>12, QuietKeeps DEF OrderInv
<1>7. CASE HandleData(d0)
  BY <1>7, QuietRead DEF OrderInv
<1>8. ~ReadFails(d0)
  BY QuietOpen DEF ReadFails
<1>9. CASE FetchChannel(d0)
  <2>1. Posted(d0, "init") /\ Wired("old", d0, "data")
    BY <1>9, QueueSame, WireSame DEF FetchChannel, IInv, Types, net
  <2>2. UNCHANGED <<wire, enc, dec, got, sent, active, reader, shut, plain, intro, paused, progress, bwuQ>>
    BY <1>9 DEF FetchChannel, net, mgr, data
  <2>3. \A d \in Device : writer'[d] # "new"
    BY <1>1, <1>9 DEF FetchChannel, IInv, Types, DeviceType
  <2>4. OfferInv'
    BY <1>1, <2>1, <2>2, OfferSame
  <2> QED
    BY <2>1, <2>2, <2>3, <2>4, QuietKeeps DEF OrderInv
<1>10. CASE WriteData(d0)
  <2>1. writer[d0] = "old"
    BY <1>1, <1>10 DEF WriteData, Channel
  <2>2. Write(d0, "old", "data", {}) /\ sent' = [sent EXCEPT ![d0] = @ + 1] /\ writer' = [writer EXCEPT ![d0] = "idle"]
    BY <1>10, <2>1, QuietOpen DEF WriteData
  <2>3. UNCHANGED <<plain, intro, dec, active, paused, progress, bwuQ, reader, got>>
    BY <1>10 DEF WriteData, mgr
  <2>4. Posted(d0, "init") /\ Wired("old", Peer(d0), "data")
    BY <2>2, <2>3, QueueSame, Writing DEF IInv, Types, Kinds
  <2>5. \A d \in Device : writer'[d] # "new" /\ ~Queued(d, "removed")' /\ (Queued(d, "path")' => Queued(d, "path"))
    BY <1>1, <2>2, <2>3 DEF IInv, Types, DeviceType, QuietSide, Queued
  <2>6. shut' = shut /\ \A d \in Device : QuietSide(d)'
    <3>1. PICK k0 \in Kinds : k0 = "data"
      BY DEF Kinds
    <3>2. /\ k0 # "disconnect" /\ k0 # "fail" /\ Write(d0, "old", k0, {})
          /\ sent' = IF k0 = "data" THEN [sent EXCEPT ![d0] = @ + 1] ELSE sent
          /\ \A d \in Device : bwuQ'[d] = bwuQ[d]
      BY <2>2, <2>3, <3>1
    <3> QED
      BY <2>3, <2>5, <3>2, QuietWrite
  <2>7. OfferInv'
    BY <1>1, <2>3, <2>4, OfferSame
  <2> QED
    BY <2>3, <2>6, <2>7 DEF OrderInv, Quiet
<1>11. ~RemoveEndpoint(d0)
  BY <1>1 DEF RemoveEndpoint, KeepAliveTimesOut
<1>12. ~OnEndpointDisconnect(d0)
  <2>1. NextJob(d0, "removed") /\ JobDone(d0) => Queued(d0, "removed")
    BY JobTaken DEF IInv, Types
  <2> QED
    BY <1>1, <2>1 DEF OnEndpointDisconnect, QuietSide
<1> QED
  BY <1>2, <1>3, <1>4, <1>5, <1>6, <1>7, <1>8, <1>9, <1>10, <1>11, <1>12 DEF EarlyStep

-----------------------------------------------------------------------------
(* Once there is a new socket.                                             *)

\* What a device keeps that neither replaces its channel nor disables its encryption.
LEMMA SideKept ==
  ASSUME NEW d \in Device, MovingSide(d), UNCHANGED <<active, plain>>,
         d \in plain => (prev'[d] = "old" => prev[d] = "old"),
         Closed("old", d)' => plain = Device, ~Closed("new", d)',
         reader'[d] = reader[d] \/ (reader'[d] = "new" /\ active[d] = "new" /\ Peer(d) \in plain),
         writer'[d] = "old" => active[d] = "old",
         active[d] = "old" => (d \in progress \/ bwu[d] = "awaitAck" => d \in progress' \/ bwu'[d] = "awaitAck"),
         Start(d)' => Start(d), d \in paused => d \in paused' \/ d \in plain,
         bwu'[d] = "draining" => bwu[d] = "draining",
         bwu'[Peer(d)] = "lastWrite" => bwu[Peer(d)] = "lastWrite",
         \A n \in 0..6 : d \in plain => ~Turn(d, n)',
         Answered(d)' => Answered(d) \/ (active[Peer(d)] = "new" /\ bwu'[Peer(d)] # "lastWrite"),
         \A k \in {"path", "fail"} : ~OnWire("old", d, k)' /\ ~Queued(d, k)', ~Queued(d, "removed")'
  PROVE  MovingSide(d)'
<1>1. active'[d] \in Channel /\ reader'[d] \in Channel
  BY Names DEF MovingSide
<1> QED
  BY <1>1 DEF MovingSide

\* Frames and jobs that are not about the upgrade.
LEMMA NoOffers ==
  ASSUME NEW c0, NEW d1, NEW k0, k0 \notin {"path", "fail"}, Wired(c0, d1, k0),
         NEW d2, NEW k2, k2 \notin {"path", "fail", "removed"}, Posted(d2, k2),
         NEW d \in Device, MovingSide(d)
  PROVE  ~Queued(d, "removed")' /\ \A k \in {"path", "fail"} : ~OnWire("old", d, k)' /\ ~Queued(d, k)'
<1>1. /\ "removed" \in Job /\ \A k \in {"path", "fail"} : k \in Job /\ k \in Kinds
  BY DEF Job, Kinds
<1> QED
  BY <1>1, Names DEF Wired, Posted, MovingSide

\* LAST_WRITE and SAFE_TO_CLOSE stay where they are.
LEMMA NoTokens ==
  ASSUME NEW c0, NEW d1, NEW k0, k0 \notin Tokens, Wired(c0, d1, k0),
         NEW d2, NEW k2, k2 \notin Tokens, Posted(d2, k2), NEW d \in Device,
         Start(d)' => Start(d), bwu'[d] = "lastWrite" => bwu[d] = "lastWrite",
         upgraded' \subseteq upgraded, plain' = plain
  PROVE  /\ \A n \in 0..6 : Turn(d, n)' => Turn(d, n)
         /\ Answered(d)' => Answered(d)
         /\ Queued(d, "safeToClose")' => Queued(d, "safeToClose")
<1>1. /\ \A x \in Device, k \in Tokens : OnWire("old", x, k)' => OnWire("old", x, k)
      /\ \A x \in Device, k \in Tokens : Queued(x, k)' => Queued(x, k)
  BY TokenNames DEF Wired, Posted
<1>2. Peer(d) \in Device /\ "lastWrite" \in Tokens /\ "safeToClose" \in Tokens
  BY Peers, TokenNames
<1> QED
  BY <1>1, <1>2 DEF Turn, Answered

\* The steps that move neither.
LEMMA SidesKept ==
  ASSUME IInv, Moving, UNCHANGED <<active, plain>>, \A d \in Device : prev'[d] = "old" => prev[d] = "old",
         \A d \in Device : (Closed("old", d)' => plain = Device) /\ ~Closed("new", d)',
         \A d \in Device : \/ reader'[d] = reader[d]
                           \/ reader'[d] = "new" /\ active[d] = "new" /\ Peer(d) \in plain,
         \A d \in Device : writer'[d] = "old" => active[d] = "old",
         \A d \in Device : active[d] = "old" => (d \in progress => d \in progress'),
         \A d \in Device : Start(d)' => Start(d), \A d \in Device : d \in paused => d \in paused' \/ d \in plain,
         \A d \in Device : /\ bwu'[d] \in {"lastWrite", "draining"} => bwu'[d] = bwu[d]
                           /\ bwu[d] = "awaitAck" => bwu'[d] = bwu[d],
         upgraded' \subseteq upgraded,
         NEW c0, NEW d1, NEW k0, k0 \notin Tokens \cup {"path", "fail"}, Wired(c0, d1, k0),
         NEW d2, NEW k2, k2 \notin Tokens \cup {"path", "fail", "removed"}, Posted(d2, k2)
  PROVE  \A d \in Device : MovingSide(d)' /\ (Queued(d, "safeToClose")' => Queued(d, "safeToClose"))
<1> SUFFICES ASSUME NEW d \in Device
             PROVE  MovingSide(d)' /\ (Queued(d, "safeToClose")' => Queued(d, "safeToClose"))
  OBVIOUS
<1>1. MovingSide(d) /\ Peer(d) \in Device
  BY Peers DEF Moving
<1>2. ~Queued(d, "removed")' /\ \A k \in {"path", "fail"} : ~OnWire("old", d, k)' /\ ~Queued(d, k)'
  BY <1>1, NoOffers
<1>3. /\ \A n \in 0..6 : Turn(d, n)' => Turn(d, n)
      /\ Answered(d)' => Answered(d)
      /\ Queued(d, "safeToClose")' => Queued(d, "safeToClose")
  BY NoTokens
<1>4. \A n \in 0..6 : d \in plain => ~Turn(d, n)'
  BY <1>1, <1>3 DEF MovingSide
<1>5. MovingSide(d)'
  BY <1>1, <1>2, <1>3, <1>4, SideKept
<1> QED
  BY <1>3, <1>5

\* What d has to read, and is to read, does not change.
LEMMA OrderedSame ==
  ASSUME NEW d \in Device, Ordered(d), Exact(d), wire'["old"][d] = wire["old"][d], wire'["new"][d] = wire["new"][d],
         enc'[Peer(d)] = enc[Peer(d)], dec'[d] = dec[d], got'[d] = got[d], sent'[Peer(d)] = sent[Peer(d)],
         plain' = plain, Queued(d, "safeToClose")' => Queued(d, "safeToClose"),
         reader'[d] = "new" => reader[d] = "new" \/ d \in plain
  PROVE  Ordered(d)' /\ Exact(d)'
<1>1. PICK z \in Nat : /\ Flow(d, z)
                       /\ Peer(d) \notin plain => z = Len(wire["old"][d]) /\ wire["new"][d] = <<>>
                       /\ Queued(d, "safeToClose") \/ d \in plain \/ reader[d] = "new" => z = 0
  BY DEF Ordered
<1>2. Flow(d, z)'
  BY <1>1 DEF Flow
<1>3. Exact(d)'
  BY DEF Exact
<1> QED
  BY <1>1, <1>2, <1>3 DEF Ordered

\* The old channel stays open until both devices have disabled its encryption.
LEMMA MovingOpen ==
  ASSUME Moving, NEW d0 \in Device, d0 \notin plain
  PROVE  \A d \in Device : ~Closed("old", d) /\ ~ReadBroken(d, "old") /\ \A ends : ~WriteFails(d, "old", ends)
<1>1. \A d \in Device : ~Closed("old", d)
  BY DEF Moving, MovingSide
<1> QED
  BY <1>1, Peers DEF ReadBroken, WriteFails, SendFails

\* The new channel stays open.
LEMMA MovingNew ==
  ASSUME Moving
  PROVE  \A d \in Device : ~Closed("new", d) /\ ~ReadBroken(d, "new") /\ \A ends : ~WriteFails(d, "new", ends)
<1>1. \A d \in Device : ~Closed("new", d)
  BY DEF Moving, MovingSide
<1> QED
  BY <1>1, Peers DEF ReadBroken, WriteFails, SendFails

\* A numbered frame is written on the old channel before SAFE_TO_CLOSE is.
LEMMA MovingWrite ==
  ASSUME IInv, Moving, NEW d0 \in Device, NEW k0 \in Kinds, k0 # "disconnect",
         Write(d0, "old", k0, {}), d0 \notin plain, ~Answered(Peer(d0)),
         UNCHANGED <<dec, got, plain, reader>>,
         sent' = IF k0 = "data" THEN [sent EXCEPT ![d0] = @ + 1] ELSE sent,
         \A d \in Device : Queued(d, "safeToClose")' => Queued(d, "safeToClose")
  PROVE  shut' = shut /\ \A d \in Device : Ordered(d)' /\ Exact(d)'
<1>1. PICK p \in Device : p = Peer(d0)
  BY Peers
<1>2. p # d0 /\ Peer(p) = d0 /\ Peer(d0) = p /\ \A d \in Device : d = p \/ d = d0
  BY <1>1, Peers
<1>3. ~Closed("old", Peer(d0)) /\ ~("old" = "old" /\ d0 \in plain)
  BY <1>1, MovingOpen
<1>4. PICK f \in Frame : /\ f.k = k0 /\ f.s = enc[d0] + 1 /\ Appended("old", p, f)
                         /\ enc'[d0] = enc[d0] + 1 /\ enc'[p] = enc[p] /\ shut' = shut
  <2>1. PICK ends : ends = {}
    OBVIOUS
  <2>2. Write(d0, "old", k0, ends)
    BY <2>1
  <2>3. \E f \in Frame : /\ f.k = k0 /\ f.s = enc[d0] + 1 /\ Appended("old", Peer(d0), f)
                         /\ enc'[d0] = enc[d0] + 1 /\ enc'[Peer(d0)] = enc[Peer(d0)] /\ shut' = shut \cup ends
    BY <1>3, <2>2, Names, WriteAppends
  <2>4. shut \cup ends = shut
    BY <2>1
  <2> QED
    BY <1>1, <2>3, <2>4
<1>5. Ordered(d0)' /\ Exact(d0)'
  <2>1. Ordered(d0) /\ Exact(d0)
    BY DEF Moving
  <2>2. wire'["old"][d0] = wire["old"][d0] /\ wire'["new"][d0] = wire["new"][d0]
    BY <1>2, <1>4, Names DEF Appended
  <2>3. sent'[p] = sent[p]
    BY <1>2 DEF IInv, DataInv
  <2> QED
    BY <1>2, <1>4, <2>1, <2>2, <2>3, OrderedSame
<1>6. Ordered(p)' /\ Exact(p)'
  <2>1. Ordered(p) /\ Exact(p) /\ MovingSide(p)
    BY DEF Moving
  <2>2. PICK o \in Seq(Frame) : o = wire["old"][p]
    BY Wires
  <2>3. PICK u : u = Append(o, f)
    OBVIOUS
  <2>4. wire'["old"][p] = u /\ wire'["new"][p] = wire["new"][p]
    BY <1>4, <2>2, <2>3, Names, TokenNames DEF Appended
  <2>5. sent'[d0] = IF f.k = "data" THEN sent[d0] + 1 ELSE sent[d0]
    BY <1>4 DEF IInv, DataInv
  <2>6. Exact(p)'
    BY <1>2, <1>4, <2>1, <2>5, Names, ExactAdd
  <2>7. enc[d0] \in Nat /\ dec[p] \in Nat
    BY Wires
  <2>8. wire["new"][p] = <<>> /\ Chained(o, <<>>, Len(o), enc[d0], dec[p])
    BY <1>2, <2>1, <2>2 DEF Ordered, Flow
  <2>9. \A i \in 1..Len(o) : o[i].k # "safeToClose"
    BY <1>2, <2>2 DEF Answered, OnWire
  <2>10. Chained(u, <<>>, Len(u), enc[d0] + 1, dec[p])
    BY <1>4, <2>3, <2>7, <2>8, <2>9, ChainOld
  <2>14. Len(u) \in Nat
    BY <2>3
  <2>11. Flow(p, Len(wire["old"][p]))'
    BY <1>2, <1>4, <2>4, <2>8, <2>10 DEF Flow
  <2>12. ~Queued(p, "safeToClose")' /\ p \notin plain' /\ reader'[p] # "new"
    BY <1>2, <2>1 DEF Answered, MovingSide
  <2>13. Len(wire'["old"][p]) \in Nat /\ wire'["new"][p] = <<>>
    BY <2>4, <2>8, <2>14
  <2> QED
    BY <2>6, <2>11, <2>12, <2>13 DEF Ordered
<1> QED
  BY <1>2, <1>4, <1>5, <1>6

\* A payload frame is written, on the old channel or on the new one.
LEMMA MovingWriteData ==
  ASSUME IInv, Moving, NEW d0 \in Device, WriteData(d0)
  PROVE  Moving'
<1>1. UNCHANGED <<plain, intro, dialer, dec, active, paused, prev, upgraded, progress, bwu, bwuQ, reader, got>>
  BY DEF WriteData, mgr
<1>2. \A d \in Device : MovingSide(d)
  BY DEF Moving
<1>3. PICK p \in Device : p = Peer(d0)
  BY Peers
<1>4. p # d0 /\ Peer(p) = d0 /\ Peer(d0) = p /\ \A d \in Device : d = p \/ d = d0
  BY <1>3, Peers
<1>5. \A d \in Device : (Queued(d, "safeToClose")' <=> Queued(d, "safeToClose")) /\ (Start(d)' <=> Start(d))
  BY <1>1 DEF Queued, Start
<1>6. Posted(d0, "init") /\ "init" \notin Tokens \cup {"path", "fail", "removed"} /\ "data" \in Kinds
      /\ "data" \notin Tokens \cup {"path", "fail"}
  BY <1>1, QueueSame, TokenNames DEF IInv, Types, Kinds
<1>7. ASSUME shut' = shut, writer' = [writer EXCEPT ![d0] = "idle"], NEW c0, Wired(c0, p, "data")
      PROVE  \A d \in Device : MovingSide(d)'
  <2>1. \A d \in Device : writer'[d] = "old" => active[d] = "old"
    BY <1>2, <1>7 DEF MovingSide, IInv, Types, DeviceType
  <2>2. \A d \in Device : (Closed("old", d)' => plain = Device) /\ ~Closed("new", d)'
    BY <1>2, <1>7 DEF MovingSide, Closed
  <2> QED
    BY <1>1, <1>5, <1>6, <1>7, <2>1, <2>2, SidesKept
<1>8. CASE writer[d0] = "old"
  <2>1. active[d0] = "old" /\ d0 \notin plain /\ ~Answered(Peer(d0))
    BY <1>2, <1>3, <1>4, <1>8 DEF MovingSide
  <2>2. Write(d0, "old", "data", {}) /\ sent' = [sent EXCEPT ![d0] = @ + 1] /\ writer' = [writer EXCEPT ![d0] = "idle"]
    BY <1>8, <2>1, MovingOpen DEF WriteData
  <2>3. Wired("old", p, "data")
    BY <1>3, <1>6, <2>2, Writing, Names DEF IInv, Types
  <2>4. shut' = shut /\ \A d \in Device : Ordered(d)' /\ Exact(d)'
    <3>1. PICK k0 \in Kinds : k0 = "data"
      BY <1>6
    <3>2. /\ k0 # "disconnect" /\ Write(d0, "old", k0, {})
          /\ sent' = IF k0 = "data" THEN [sent EXCEPT ![d0] = @ + 1] ELSE sent
      BY <2>2, <3>1
    <3> QED
      BY <1>1, <1>5, <2>1, <3>2, MovingWrite
  <2> QED
    BY <1>1, <1>7, <2>2, <2>3, <2>4 DEF Moving
<1>9. CASE writer[d0] = "new"
  <2>1. active[d0] = "new"
    BY <1>2, <1>9 DEF MovingSide, IInv, AgreedInv, Channel
  <2>2. d0 \in plain
    BY <1>2, <1>9, <2>1 DEF MovingSide, WriteData, Blocked
  <2>3. Write(d0, "new", "data", {}) /\ sent' = [sent EXCEPT ![d0] = @ + 1] /\ writer' = [writer EXCEPT ![d0] = "idle"]
    BY <1>9, MovingNew DEF WriteData
  <2>4. Wired("new", p, "data")
    BY <1>3, <1>6, <2>3, Writing, Names DEF IInv, Types
  <2>5. ~Closed("new", Peer(d0)) /\ ~("new" = "old" /\ d0 \in plain)
    BY <1>3, MovingNew, TokenNames
  <2>6. PICK f \in Frame : /\ f.k = "data" /\ f.s = enc[d0] + 1 /\ Appended("new", p, f)
                           /\ enc'[d0] = enc[d0] + 1 /\ enc'[p] = enc[p] /\ shut' = shut
    <3>1. PICK ends, k0 : ends = {} /\ k0 = "data" /\ k0 \in Kinds
      BY <1>6
    <3>2. Write(d0, "new", k0, ends)
      BY <2>3, <3>1
    <3>3. \E f \in Frame : /\ f.k = k0 /\ f.s = enc[d0] + 1 /\ Appended("new", Peer(d0), f)
                           /\ enc'[d0] = enc[d0] + 1 /\ enc'[Peer(d0)] = enc[Peer(d0)] /\ shut' = shut \cup ends
      BY <2>5, <3>1, <3>2, Names, WriteAppends
    <3>4. shut \cup ends = shut
      BY <3>1
    <3> QED
      BY <1>3, <3>1, <3>3, <3>4
  <2>7. Ordered(d0)' /\ Exact(d0)'
    <3>1. Ordered(d0) /\ Exact(d0)
      BY DEF Moving
    <3>2. wire'["old"][d0] = wire["old"][d0] /\ wire'["new"][d0] = wire["new"][d0]
      BY <1>4, <2>6, Names DEF Appended
    <3>3. sent'[p] = sent[p]
      BY <1>4, <2>3 DEF IInv, DataInv
    <3> QED
      BY <1>1, <1>4, <1>5, <2>6, <3>1, <3>2, <3>3, OrderedSame
  <2>8. Ordered(p)' /\ Exact(p)'
    <3>1. Ordered(p) /\ Exact(p)
      BY DEF Moving
    <3>2. PICK o \in Seq(Frame) : o = wire["old"][p]
      BY Wires
    <3>3. PICK w \in Seq(Frame) : w = wire["new"][p]
      BY Wires
    <3>4. PICK u : u = Append(w, f)
      OBVIOUS
    <3>5. wire'["old"][p] = o /\ wire'["new"][p] = u
      BY <2>6, <3>2, <3>3, <3>4, Names, TokenNames DEF Appended
    <3>6. sent'[d0] = (IF f.k = "data" THEN sent[d0] + 1 ELSE sent[d0]) /\ got'[p] = got[p]
      BY <1>1, <2>3, <2>6 DEF IInv, DataInv
    <3>7. Exact(p)'
      BY <1>4, <2>6, <3>1, <3>6, Names, ExactAdd
    <3>8. PICK e \in Nat : e = enc[d0]
      BY Wires
    <3>9. PICK r \in Nat : r = dec[p]
      BY Wires
    <3>10. PICK z \in Nat : /\ Chained(o, w, z, e, r)
                            /\ Queued(p, "safeToClose") \/ p \in plain \/ reader[p] = "new" => z = 0
      BY <1>4, <3>1, <3>2, <3>3, <3>8, <3>9 DEF Ordered, Flow
    <3>11. Chained(o, u, z, e + 1, r)
      BY <2>6, <3>4, <3>8, <3>10, ChainNew
    <3>12. Flow(p, z)'
      BY <1>1, <1>4, <2>6, <3>5, <3>8, <3>9, <3>11 DEF Flow
    <3>13. Peer(p) \in plain' /\ (Queued(p, "safeToClose")' \/ p \in plain' \/ reader'[p] = "new" => z = 0)
      BY <1>1, <1>4, <1>5, <2>2, <3>10
    <3> QED
      BY <3>7, <3>12, <3>13 DEF Ordered
  <2> QED
    BY <1>1, <1>4, <1>7, <2>3, <2>4, <2>6, <2>7, <2>8 DEF Moving
<1> QED
  BY <1>8, <1>9 DEF WriteData, Channel

\* Nothing is read or written.
LEMMA MovingKeeps ==
  ASSUME Moving, UNCHANGED <<wire, enc, dec, got, sent, plain>>, intro' \in {"connected", "posted", "acked"},
         \A d \in Device : MovingSide(d)' /\ (Queued(d, "safeToClose")' => Queued(d, "safeToClose")),
         \A d \in Device : reader'[d] = "new" => reader[d] = "new" \/ d \in plain
  PROVE  Moving'
<1>1. \A d \in Device : Ordered(d)' /\ Exact(d)'
  BY OrderedSame DEF Moving
<1> QED
  BY <1>1 DEF Moving

\* An upgrade is asked for, or the request is ignored.
LEMMA MovingInit ==
  ASSUME IInv, Moving, NEW d0 \in Device, InitiateBwuForEndpoint(d0) \/ Initiate(d0)
  PROVE  Moving'
<1>1. \A d \in Device : MovingSide(d)
  BY DEF Moving
<1>2. UNCHANGED <<wire, shut, enc, plain, intro, dialer, dec, active, paused, prev, upgraded, progress, bwu, reader,
                  writer, sent, got>> /\ Posted(d0, "init")
  <2>1. CASE InitiateBwuForEndpoint(d0)
    BY <2>1, Names, JobPosted DEF InitiateBwuForEndpoint, net, mgr, data, IInv, Types
  <2>2. CASE Initiate(d0)
    <3>1. Posted(d0, "init") /\ bwu[d0] = "idle"
      BY <2>2, JobTaken DEF Initiate, IInv, Types
    <3>2. ~(d0 \notin progress /\ active[d0] = "old")
      BY <1>1, <3>1 DEF MovingSide
    <3> QED
      BY <2>2, <3>1, <3>2 DEF Initiate, data
  <2> QED
    BY <2>1, <2>2
<1>3. Wired("old", d0, "data") /\ "data" \notin Tokens \cup {"path", "fail"}
      /\ "init" \notin Tokens \cup {"path", "fail", "removed"} /\ "init" # "incoming"
  BY <1>2, WireSame, TokenNames DEF IInv, Types
<1>4. \A d \in Device : Start(d)' => Start(d)
  BY <1>2, <1>3, IntroFrame DEF IInv
<1>5. \A d \in Device : MovingSide(d)' /\ (Queued(d, "safeToClose")' => Queued(d, "safeToClose"))
  <2>1. \A d \in Device : (Closed("old", d)' => plain = Device) /\ ~Closed("new", d)'
    BY <1>1, <1>2 DEF MovingSide, Closed
  <2>2. \A d \in Device : writer'[d] = "old" => active[d] = "old"
    BY <1>1, <1>2 DEF MovingSide
  <2> QED
    BY <1>2, <1>3, <1>4, <2>1, <2>2, SidesKept
<1> QED
  BY <1>2, <1>5, MovingKeeps DEF Moving

\* The new socket is posted.
LEMMA MovingIncoming ==
  ASSUME IInv, Moving, NEW d0 \in Device, OnIncomingConnection(d0)
  PROVE  Moving'
<1>1. \A d \in Device : MovingSide(d)
  BY DEF Moving
<1>2. /\ UNCHANGED <<wire, shut, enc, plain, dialer, dec, active, paused, prev, upgraded, progress, bwu, reader,
                     writer, sent, got>>
      /\ intro = "connected" /\ intro' = "posted" /\ dialer = Peer(d0) /\ Post(d0, "incoming") /\ "incoming" \in Job
  BY DEF OnIncomingConnection, mgr, data, Job
<1>3. Posted(d0, "incoming")
  BY <1>2, JobPosted DEF IInv, Types
<1>4. Wired("old", d0, "data") /\ "data" \notin Tokens \cup {"path", "fail"}
      /\ "incoming" \notin Tokens \cup {"path", "fail", "removed"}
  BY <1>2, WireSame, TokenNames DEF IInv, Types
<1>5. \A d \in Device : Start(d)' => Start(d)
  BY <1>2, <1>3, Peers DEF Start, Posted
<1>6. \A d \in Device : MovingSide(d)' /\ (Queued(d, "safeToClose")' => Queued(d, "safeToClose"))
  <2>1. \A d \in Device : (Closed("old", d)' => plain = Device) /\ ~Closed("new", d)'
    BY <1>1, <1>2 DEF MovingSide, Closed
  <2>2. \A d \in Device : writer'[d] = "old" => active[d] = "old"
    BY <1>1, <1>2 DEF MovingSide
  <2> QED
    BY <1>2, <1>3, <1>4, <1>5, <2>1, <2>2, SidesKept
<1> QED
  BY <1>2, <1>6, MovingKeeps DEF Moving

\* The writer fetches the channel; a reader whose channel is closed fetches the new one.
LEMMA MovingFetch ==
  ASSUME IInv, Moving, NEW d0 \in Device, FetchChannel(d0) \/ ReadFails(d0)
  PROVE  Moving'
<1>1. \A d \in Device : MovingSide(d)
  BY DEF Moving
<1>2. UNCHANGED <<wire, shut, enc, plain, intro, dialer, dec, active, paused, prev, upgraded, progress, bwu, bwuQ,
                  sent, got>>
  BY DEF FetchChannel, ReadFails, net, mgr, data
<1>3. /\ \A d \in Device : writer'[d] = "old" => active[d] = "old"
      /\ \A d \in Device : \/ reader'[d] = reader[d]
                           \/ reader'[d] = "new" /\ active[d] = "new" /\ Peer(d) \in plain /\ d \in plain
  <2>1. CASE FetchChannel(d0)
    BY <1>1, <2>1 DEF FetchChannel, MovingSide, IInv, Types, DeviceType
  <2>2. CASE ReadFails(d0)
    <3>1. reader[d0] = "old" /\ ReadBroken(d0, "old")
      BY <2>2, MovingNew DEF ReadFails, Channel
    <3>2. plain = Device
      BY <1>1, <3>1, Peers DEF ReadBroken, MovingSide
    <3>3. active[d0] = "new"
      BY <1>1, <3>2 DEF MovingSide
    <3>4. reader'[d0] = "new" /\ \A d \in Device : d # d0 => reader'[d] = reader[d]
      BY <2>2, <3>1, <3>3 DEF ReadFails, Refetch, IInv, Types, DeviceType
    <3>5. UNCHANGED writer
      BY <2>2 DEF ReadFails
    <3> QED
      BY <1>1, <3>2, <3>3, <3>4, <3>5, Peers DEF MovingSide
  <2> QED
    BY <2>1, <2>2
<1>4. /\ Wired("old", d0, "data") /\ "data" \notin Tokens \cup {"path", "fail"}
      /\ Posted(d0, "init") /\ "init" \notin Tokens \cup {"path", "fail", "removed"}
  BY <1>2, WireSame, QueueSame, TokenNames DEF IInv, Types
<1>5. \A d \in Device : Start(d)' => Start(d)
  BY <1>2 DEF Start, Queued
<1>6. \A d \in Device : MovingSide(d)' /\ (Queued(d, "safeToClose")' => Queued(d, "safeToClose"))
  <2>1. \A d \in Device : (Closed("old", d)' => plain = Device) /\ ~Closed("new", d)'
    BY <1>1, <1>2 DEF MovingSide, Closed
  <2> QED
    BY <1>2, <1>3, <1>4, <1>5, <2>1, SidesKept
<1> QED
  BY <1>2, <1>3, <1>6, MovingKeeps DEF Moving

\* A device replaces its channel by the new one.
LEMMA MovingReplace ==
  ASSUME IInv, IInv', ~LateWrites, Moving, NEW d0 \in Device, active[d0] = "old", RunUpgradeProtocol(d0),
         UNCHANGED <<wire, enc, plain, dec, prev, upgraded, reader, writer, sent, got>>,
         intro' \in {"connected", "posted", "acked"}, progress \subseteq progress', Posted(d0, "init"),
         \A d \in Device : Start(d)' => Start(d)
  PROVE  Moving'
<1>1. \A d \in Device : MovingSide(d)
  BY DEF Moving
<1>2. /\ shut' = shut /\ writer[d0] # "old" /\ paused' = paused \cup {d0}
      /\ active' = [active EXCEPT ![d0] = "new"] /\ bwu' = [bwu EXCEPT ![d0] = "lastWrite"]
  BY DEF RunUpgradeProtocol
<1>3. /\ active'[d0] = "new" /\ \A d \in Device : d # d0 => active'[d] = active[d] /\ bwu'[d] = bwu[d]
      /\ bwu'[d0] = "lastWrite"
  BY <1>2 DEF IInv, Types, DeviceType, ThreadType
<1>4. /\ Wired("old", d0, "data") /\ "data" \notin Tokens \cup {"path", "fail"}
      /\ "init" \notin Tokens \cup {"path", "fail", "removed"}
  BY WireSame, TokenNames DEF IInv, Types
<1>5. ~Start(d0)'
  <2>1. Turn(d0, 1)' /\ (Start(d0)' => Turn(d0, 0)')
    BY <1>3 DEF Turn
  <2> QED
    BY <2>1 DEF IInv, TurnInv
<1>6. d0 \notin plain /\ ~Answered(Peer(d0))
  <2>1. Peer(d0) \in Device /\ Peer(Peer(d0)) = d0
    BY Peers
  <2> QED
    BY <1>1, <2>1 DEF MovingSide
<1>7. ASSUME NEW d \in Device
      PROVE  /\ ~Queued(d, "removed")' /\ \A k \in {"path", "fail"} : ~OnWire("old", d, k)' /\ ~Queued(d, k)'
             /\ Answered(d)' => Answered(d)
             /\ Queued(d, "safeToClose")' => Queued(d, "safeToClose")
  <2>1. ~Queued(d, "removed")' /\ \A k \in {"path", "fail"} : ~OnWire("old", d, k)' /\ ~Queued(d, k)'
    BY <1>1, <1>4, NoOffers
  <2>2. Queued(d, "safeToClose")' => Queued(d, "safeToClose")
    BY <1>4, TokenNames DEF Posted
  <2>3. Answered(d)' => Answered(d)
    BY <2>2 DEF Answered, OnWire
  <2> QED
    BY <2>1, <2>2, <2>3
<1>8. MovingSide(d0)'
  <2>1. ~Answered(d0)' \/ (active'[Peer(d0)] = "new" /\ bwu'[Peer(d0)] # "lastWrite")
    <3>1. Answered(d0) => active[Peer(d0)] = "new" /\ bwu[Peer(d0)] # "lastWrite"
      BY <1>1 DEF MovingSide
    <3> QED
      BY <1>3, <1>7, <3>1, Peers
  <2> QED
    BY <1>1, <1>2, <1>3, <1>5, <1>6, <1>7, <2>1, Names DEF MovingSide, Closed
<1>9. ASSUME NEW d \in Device, d # d0 PROVE MovingSide(d)'
  <2>1. d = Peer(d0) /\ Peer(d) = d0
    BY <1>9, Peers
  <2>2. ~Answered(d)' /\ d \notin plain'
    BY <1>6, <1>7, <2>1 DEF Answered
  <2>3. MovingSide(d)
    BY <1>1
  <2> QED
    BY <1>2, <1>3, <1>7, <1>9, <2>1, <2>2, <2>3 DEF MovingSide, Closed
<1> QED
  BY <1>7, <1>8, <1>9, MovingKeeps

\* CLIENT_INTRODUCTION or its acknowledgement is read.
LEMMA MovingIntroduction ==
  ASSUME IInv, IInv', ~LateWrites, ~Faults, Moving, NEW d0 \in Device,
         ReadClientIntroduction(d0) \/ ReadClientIntroductionAck(d0)
  PROVE  Moving'
<1>1. \A d \in Device : MovingSide(d)
  BY DEF Moving
<1>2. CASE ReadClientIntroduction(d0)
  <2>1. Posted(d0, "init") /\ Queued(d0, "incoming") /\ bwu[d0] = "idle"
    BY <1>2, JobTaken DEF ReadClientIntroduction, IInv, Types
  <2>2. active[d0] = "old" /\ d0 \in progress
    BY <1>1, <2>1 DEF MovingSide, Start, Channel
  <2>3. ~IntroductionFails(d0)
    BY MovingNew, Peers DEF IntroductionFails
  <2>4. RunUpgradeProtocol(d0) /\ intro' = IF intro = "posted" THEN "acked" ELSE intro
    BY <1>2, <2>2, <2>3 DEF ReadClientIntroduction
  <2>5. UNCHANGED <<wire, enc, plain, dialer, dec, prev, upgraded, progress, reader, writer, sent, got>>
    BY <1>2 DEF ReadClientIntroduction, mgr, data
  <2>6. bwu' = [bwu EXCEPT ![d0] = "lastWrite"]
    BY <2>2, <2>4 DEF RunUpgradeProtocol
  <2>7. \A d \in Device : bwu'[d] = "awaitAck" => bwu[d] = "awaitAck"
    BY <2>6 DEF IInv, Types, ThreadType
  <2>8. \A d \in Device : Start(d)' => Start(d)
    BY <2>1, <2>4, <2>5, <2>7, TokenNames DEF Start, Posted, Job
  <2>9. intro' \in {"connected", "posted", "acked"}
    BY <2>4 DEF Moving
  <2> QED
    BY <2>1, <2>2, <2>4, <2>5, <2>8, <2>9, MovingReplace
<1>3. CASE ReadClientIntroductionAck(d0)
  <2>1. UNCHANGED <<wire, enc, plain, intro, dialer, dec, prev, upgraded, bwuQ, reader, writer, sent, got>>
        /\ bwu[d0] = "awaitAck" /\ RunUpgradeProtocol(d0) /\ progress \subseteq progress'
    BY <1>3 DEF ReadClientIntroductionAck, data
  <2>2. active[d0] = "old"
    BY <1>1, <2>1 DEF MovingSide, Start, Channel
  <2>3. Posted(d0, "init") /\ "init" # "incoming"
    BY <2>1, QueueSame DEF IInv, Types
  <2>4. bwu' = [bwu EXCEPT ![d0] = "lastWrite"]
    BY <2>1, <2>2 DEF RunUpgradeProtocol
  <2>5. \A d \in Device : bwu'[d] = "awaitAck" => bwu[d] = "awaitAck"
    BY <2>4 DEF IInv, Types, ThreadType
  <2>6. \A d \in Device : Start(d)' => Start(d)
    BY <2>1, <2>3, <2>5, IntroFrame DEF IInv
  <2> QED
    BY <2>1, <2>2, <2>3, <2>6, MovingReplace DEF Moving
<1> QED
  BY <1>2, <1>3

\* LAST_WRITE goes out.
LEMMA MovingLastWrite ==
  ASSUME IInv, Moving, NEW d0 \in Device, WriteLastWrite(d0)
  PROVE  Moving'
<1>1. \A d \in Device : MovingSide(d)
  BY DEF Moving
<1>2. PICK p \in Device : p = Peer(d0)
  BY Peers
<1>3. p # d0 /\ Peer(p) = d0 /\ Peer(d0) = p /\ \A d \in Device : d = p \/ d = d0
  BY <1>2, Peers
<1>4. bwu[d0] = "lastWrite" /\ bwu' = [bwu EXCEPT ![d0] = "idle"]
  BY DEF WriteLastWrite
<1>5. d0 \notin plain /\ ~Answered(p) /\ p \notin plain
  <2>1. Turn(d0, 1)
    BY <1>4 DEF Turn
  <2> QED
    BY <1>1, <1>3, <1>4, <2>1 DEF MovingSide, Answered
<1>6. /\ Write(d0, "old", "lastWrite", {}) /\ upgraded' = upgraded \ {d0}
      /\ bwuQ' = [bwuQ EXCEPT ![d0] = IF d0 \in upgraded THEN <<"lastWrite">> \o @ ELSE @]
  BY <1>5, MovingOpen DEF WriteLastWrite
<1>7. UNCHANGED <<plain, intro, dialer, dec, active, paused, progress, reader, writer, sent, got>>
  BY DEF WriteLastWrite, data
<1>8. Wired("old", p, "lastWrite") /\ "lastWrite" \in Job /\ "lastWrite" \in Kinds
  BY <1>2, <1>6, Writing, Names, TokenNames DEF IInv, Types
<1>9. Posted(d0, "lastWrite")
  <2>1. CASE d0 \in upgraded
    BY <1>6, <1>8, <2>1, JobFirst DEF IInv, Types
  <2>2. CASE d0 \notin upgraded
    <3>1. bwuQ' = bwuQ
      BY <1>6, <2>2 DEF IInv, Types, ThreadType
    <3> QED
      BY <3>1, QueueSame DEF IInv, Types
  <2> QED
    BY <2>1, <2>2
<1>10. bwu'[d0] = "idle" /\ \A d \in Device : d # d0 => bwu'[d] = bwu[d]
  BY <1>4 DEF IInv, Types, ThreadType
<1>11. \A d \in Device : Start(d)' => Start(d)
  BY <1>7, <1>9, <1>10, TokenNames, IntroFrame DEF IInv
<1>12. \A d \in Device : /\ Queued(d, "safeToClose")' => Queued(d, "safeToClose")
                         /\ OnWire("old", d, "safeToClose")' => OnWire("old", d, "safeToClose")
  BY <1>8, <1>9, TokenNames DEF Wired, Posted
<1>13. shut' = shut /\ \A d \in Device : Ordered(d)' /\ Exact(d)'
  <2>1. PICK k0 \in Kinds : k0 = "lastWrite"
    BY <1>8
  <2>2. /\ k0 # "disconnect" /\ Write(d0, "old", k0, {}) /\ ~Answered(Peer(d0))
        /\ sent' = IF k0 = "data" THEN [sent EXCEPT ![d0] = @ + 1] ELSE sent
    BY <1>3, <1>5, <1>6, <1>7, <2>1
  <2> QED
    BY <1>5, <1>7, <1>12, <2>2, MovingWrite
<1>14. ASSUME NEW d \in Device PROVE MovingSide(d)'
  <2>1. ~Queued(d, "removed")' /\ \A k \in {"path", "fail"} : ~OnWire("old", d, k)' /\ ~Queued(d, k)'
    <3>1. "lastWrite" \notin {"path", "fail"} /\ "lastWrite" \notin {"path", "fail", "removed"}
      OBVIOUS
    <3> QED
      BY <1>1, <1>8, <1>9, <3>1, NoOffers
  <2>2. (Closed("old", d)' => plain = Device) /\ ~Closed("new", d)' /\ (writer'[d] = "old" => active[d] = "old")
    BY <1>1, <1>7, <1>13 DEF MovingSide, Closed
  <2>3. /\ d \notin plain /\ (Answered(d)' => Answered(d))
        /\ bwu'[d] = "draining" => bwu[d] = "draining"
        /\ bwu'[Peer(d)] = "lastWrite" => bwu[Peer(d)] = "lastWrite"
        /\ bwu[d] = "awaitAck" => bwu'[d] = "awaitAck"
    BY <1>3, <1>4, <1>5, <1>7, <1>10, <1>12 DEF Answered
  <2> QED
    BY <1>1, <1>7, <1>11, <2>1, <2>2, <2>3, SideKept
<1> QED
  BY <1>7, <1>13, <1>14 DEF Moving

\* LAST_WRITE of the peer is remembered, or answered.
LEMMA MovingAnswer ==
  ASSUME IInv, Moving, NEW d0 \in Device, ProcessLastWriteToPriorChannel(d0)
  PROVE  Moving'
<1>1. \A d \in Device : MovingSide(d)
  BY DEF Moving
<1>2. PICK p \in Device : p = Peer(d0)
  BY Peers
<1>3. p # d0 /\ Peer(p) = d0 /\ Peer(d0) = p /\ \A d \in Device : d = p \/ d = d0
  BY <1>2, Peers
<1>4. Posted(d0, "init") /\ Queued(d0, "lastWrite") /\ bwu[d0] = "idle"
  BY JobTaken DEF ProcessLastWriteToPriorChannel, IInv, Types
<1>5. UNCHANGED <<plain, intro, dialer, dec, active, paused, progress, bwu, reader, writer, sent, got>>
  BY DEF ProcessLastWriteToPriorChannel, data
<1>6. p \notin plain /\ ~Answered(p)
  <2>1. Turn(p, 3)
    BY <1>3, <1>4 DEF Turn
  <2>2. ~Turn(p, 5) /\ ~Turn(p, 6)
    BY <2>1 DEF IInv, TurnInv
  <2> QED
    BY <1>1, <2>1, <2>2 DEF MovingSide, Answered, Turn
<1>7. "init" \notin {"path", "fail", "removed"} /\ "init" \notin Tokens /\ "init" # "incoming"
  BY TokenNames
<1>8. \A d \in Device : Start(d)' => Start(d)
  BY <1>4, <1>5, <1>7, IntroFrame DEF IInv
<1>9. \A d \in Device, k \in Tokens : Queued(d, k)' => Queued(d, k)
  BY <1>4, <1>7, TokenNames DEF Posted
<1>10. CASE prev[d0] # "old"
  <2>1. UNCHANGED <<wire, enc, shut>> /\ prev' = [prev EXCEPT ![d0] = "null"] /\ upgraded' = upgraded \cup {d0}
    BY <1>10 DEF ProcessLastWriteToPriorChannel
  <2>2. Wired("old", p, "data") /\ "data" \notin {"path", "fail"}
    BY <2>1, WireSame DEF IInv, Types
  <2>3. ASSUME NEW d \in Device PROVE MovingSide(d)'
    <3>1. ~Queued(d, "removed")' /\ \A k \in {"path", "fail"} : ~OnWire("old", d, k)' /\ ~Queued(d, k)'
      BY <1>1, <1>4, <1>7, <2>2, NoOffers
    <3>2. (Closed("old", d)' => plain = Device) /\ ~Closed("new", d)' /\ (writer'[d] = "old" => active[d] = "old")
      BY <1>1, <1>5, <2>1 DEF MovingSide, Closed
    <3>3. Answered(d)' => Answered(d)
      BY <1>5, <1>9, <2>1, TokenNames DEF Answered, OnWire
    <3>4. prev'[d] = "old" => prev[d] = "old"
      BY <2>1 DEF IInv, Types, DeviceType
    <3>5. ASSUME NEW n \in 0..6, d \in plain PROVE ~Turn(d, n)'
      <4>1. d = d0 /\ ~Turn(d0, n)
        BY <1>1, <1>3, <1>6, <3>5 DEF MovingSide
      <4>2. p \in upgraded' => p \in upgraded
        BY <1>3, <2>1
      <4>3. Turn(d0, n)' => Turn(d0, n)
        BY <1>3, <1>5, <1>8, <1>9, <2>1, <4>2, TokenNames DEF Turn, OnWire
      <4> QED
        BY <4>1, <4>3
    <3> QED
      BY <1>1, <1>5, <1>8, <3>1, <3>2, <3>3, <3>4, <3>5, SideKept
  <2> QED
    BY <1>5, <1>9, <2>1, <2>3, TokenNames, MovingKeeps DEF Moving
<1>11. CASE prev[d0] = "old"
  <2>1. d0 \notin plain /\ active[d0] = "new"
    BY <1>1, <1>11 DEF MovingSide, IInv, AgreedInv, Channel
  <2>2. Write(d0, "old", "safeToClose", {}) /\ prev' = prev /\ upgraded' = upgraded
    BY <1>11, <2>1, MovingOpen DEF ProcessLastWriteToPriorChannel
  <2>3. Wired("old", p, "safeToClose") /\ "safeToClose" \notin {"path", "fail"} /\ "safeToClose" \in Kinds
    BY <1>2, <2>2, Writing, Names, TokenNames DEF IInv, Types
  <2>4. shut' = shut /\ \A d \in Device : Ordered(d)' /\ Exact(d)'
    <3>1. PICK k0 \in Kinds : k0 = "safeToClose"
      BY <2>3
    <3>2. /\ k0 # "disconnect" /\ Write(d0, "old", k0, {}) /\ ~Answered(Peer(d0))
          /\ sent' = IF k0 = "data" THEN [sent EXCEPT ![d0] = @ + 1] ELSE sent
      BY <1>3, <1>5, <1>6, <2>2, <3>1
    <3> QED
      BY <1>5, <1>9, <2>1, <3>2, TokenNames, MovingWrite
  <2>5. ASSUME NEW d \in Device PROVE MovingSide(d)'
    <3>1. ~Queued(d, "removed")' /\ \A k \in {"path", "fail"} : ~OnWire("old", d, k)' /\ ~Queued(d, k)'
      BY <1>1, <1>4, <1>7, <2>3, NoOffers
    <3>2. (Closed("old", d)' => plain = Device) /\ ~Closed("new", d)' /\ (writer'[d] = "old" => active[d] = "old")
      BY <1>1, <1>5, <2>4 DEF MovingSide, Closed
    <3>3. Answered(d)' => Answered(d) \/ d = p
      BY <1>5, <1>9, <2>3, TokenNames DEF Answered, Wired
    <3>4. d = p => active[Peer(d)] = "new" /\ bwu'[Peer(d)] # "lastWrite"
      BY <1>3, <1>4, <1>5, <2>1
    <3>5. d \notin plain
      BY <1>3, <1>6, <2>1
    <3> QED
      BY <1>1, <1>5, <1>8, <2>2, <3>1, <3>2, <3>3, <3>4, <3>5, SideKept
  <2> QED
    BY <1>5, <2>4, <2>5 DEF Moving
<1> QED
  BY <1>10, <1>11

\* Encryption of the old channel is disabled and DISCONNECTION written.
LEMMA MovingDisable ==
  ASSUME IInv, IInv', Moving, NEW d0 \in Device, Queued(d0, "safeToClose"), prev[d0] = "old", Posted(d0, "init"),
         UNCHANGED <<intro, dialer, dec, active, paused, upgraded, progress, reader, writer, sent, got>>,
         plain' = plain \cup {d0}, bwu' = [bwu EXCEPT ![d0] = "draining"], prev' = [prev EXCEPT ![d0] = "none"],
         Send(d0, "old", "disconnect", 0, {}) \/ SendFails(d0, "old", 0, {}), bwu[d0] = "idle"
  PROVE  Moving'
<1>1. \A d \in Device : MovingSide(d)
  BY DEF Moving
<1>2. PICK p \in Device : p = Peer(d0)
  BY Peers
<1>3. p # d0 /\ Peer(p) = d0 /\ Peer(d0) = p /\ \A d \in Device : d = p \/ d = d0
  BY <1>2, Peers
<1>4. d0 \notin plain /\ active[d0] = "new" /\ Answered(d0)
  BY <1>1 DEF MovingSide, IInv, AgreedInv, Channel, Answered
<1>5. \A d \in Device : ~Closed("old", d)
  BY <1>4, MovingOpen
<1>6. Send(d0, "old", "disconnect", 0, {})
  BY <1>3, <1>5 DEF SendFails
<1>7. PICK f \in Frame : f = [k |-> "disconnect", s |-> 0] /\ f.k = "disconnect" /\ f.s = 0
  <2>1. PICK f : f = [k |-> "disconnect", s |-> 0]
    OBVIOUS
  <2>2. f \in Frame /\ f.k = "disconnect" /\ f.s = 0
    BY <2>1, Names DEF Frame
  <2> QED
    BY <2>1, <2>2
<1>8. shut' = shut /\ enc' = enc /\ wire' = [wire EXCEPT !["old"][p] = Append(@, f)]
  <2>1. shut' = shut
    BY <1>6 DEF Send
  <2>2. enc' = enc
    BY <1>6 DEF Send, IInv, Types, NetType
  <2>3. wire' = [wire EXCEPT !["old"][p] = Append(@, [k |-> "disconnect", s |-> 0])]
    BY <1>3, <1>5, <1>6 DEF Send
  <2> QED
    BY <1>7, <2>1, <2>2, <2>3
<1>9. Appended("old", p, f)
  BY <1>8 DEF Appended, IInv, Types, NetType, Channel
<1>10. Wired("old", p, "disconnect")
  BY <1>7, <1>8, Names, WireAdd DEF IInv, Types
<1>11. /\ "init" \notin {"path", "fail", "removed"} /\ "init" \notin Tokens /\ "init" # "incoming"
       /\ "disconnect" \notin {"path", "fail"} /\ "disconnect" \notin Tokens
  BY TokenNames
<1>12. bwu'[d0] = "draining" /\ prev'[d0] = "none" /\ \A d \in Device : d # d0 => bwu'[d] = bwu[d] /\ prev'[d] = prev[d]
  BY DEF IInv, Types, ThreadType, DeviceType
<1>13. \A d \in Device : Start(d)' => Start(d)
  <2>1. \A d \in Device : bwu'[d] = "awaitAck" => bwu[d] = "awaitAck"
    BY <1>12
  <2> QED
    BY <1>11, <2>1, IntroFrame DEF IInv
<1>14. \A d \in Device, k \in Tokens : (Queued(d, k)' => Queued(d, k)) /\ (OnWire("old", d, k)' => OnWire("old", d, k))
  BY <1>10, <1>11, TokenNames DEF Posted, Wired
<1>15. ASSUME NEW d \in Device
       PROVE  ~Queued(d, "removed")' /\ \A k \in {"path", "fail"} : ~OnWire("old", d, k)' /\ ~Queued(d, k)'
  BY <1>1, <1>10, <1>11, NoOffers
<1>16. MovingSide(d0)'
  <2>1. \A n \in 0..6 : ~Turn(d0, n)'
    <3>1. Turn(d0, 7)' /\ \A n \in 0..6 : n # 7 /\ n \in 0..7
      BY <1>12 DEF Turn
    <3> QED
      BY <3>1 DEF IInv, TurnInv
  <2>2. active'[Peer(d0)] = "new" /\ bwu'[Peer(d0)] # "lastWrite"
    BY <1>1, <1>3, <1>4, <1>12 DEF MovingSide
  <2> QED
    BY <1>1, <1>4, <1>5, <1>8, <1>12, <1>13, <1>15, <2>1, <2>2, Names DEF MovingSide, Closed
<1>17. MovingSide(p)'
  <2>1. Answered(p)' => Answered(p)
    BY <1>3, <1>14, TokenNames DEF Answered
  <2>2. p \in plain => \A n \in 0..6 : ~Turn(p, n)'
    <3>1. bwu'[p] = "lastWrite" => bwu[p] = "lastWrite"
      BY <1>3, <1>12
    <3>2. \A n \in 0..6 : Turn(p, n)' => Turn(p, n)
      BY <1>3, <1>13, <1>14, <3>1, TokenNames DEF Turn
    <3> QED
      BY <1>1, <3>2 DEF MovingSide
  <2>3. MovingSide(p) /\ p \in Device
    BY <1>1
  <2>4. Answered(p)' => active'[Peer(p)] = "new" /\ bwu'[Peer(p)] # "lastWrite"
    BY <1>3, <1>4, <1>12
  <2>5. p \in plain' => p \in plain
    BY <1>3
  <2> QED
    BY <1>3, <1>5, <1>8, <1>12, <1>13, <1>15, <2>2, <2>3, <2>4, <2>5 DEF MovingSide, Closed
<1>18. Ordered(d0)' /\ Exact(d0)'
  <2>1. PICK z \in Nat : /\ Flow(d0, z)
                         /\ p \notin plain => z = Len(wire["old"][d0]) /\ wire["new"][d0] = <<>>
                         /\ z = 0
    BY <1>3 DEF Moving, Ordered
  <2>2. wire'["old"][d0] = wire["old"][d0] /\ wire'["new"][d0] = wire["new"][d0]
    BY <1>3, <1>9, Names DEF Appended
  <2>3. Flow(d0, z)'
    BY <1>8, <2>1, <2>2 DEF Flow
  <2>4. Exact(d0)'
    BY <2>2 DEF Moving, Exact
  <2> QED
    BY <1>3, <2>1, <2>2, <2>3, <2>4 DEF Ordered
<1>19. Ordered(p)' /\ Exact(p)'
  <2>1. PICK o \in Seq(Frame) : o = wire["old"][p]
    BY Wires
  <2>2. PICK u : u = Append(o, f)
    OBVIOUS
  <2>3. PICK w, e, r : w = wire["new"][p] /\ e = enc[d0] /\ r = dec[p]
    OBVIOUS
  <2>4. PICK z \in Nat : /\ Chained(o, w, z, e, r)
                         /\ Queued(p, "safeToClose") \/ p \in plain \/ reader[p] = "new" => z = 0
    BY <1>3, <2>1, <2>3 DEF Moving, Ordered, Flow
  <2>5. Chained(u, w, z, e, r)
    BY <1>7, <2>2, <2>4, ChainLast
  <2>6. wire'["old"][p] = u /\ wire'["new"][p] = w
    BY <1>9, <2>1, <2>2, <2>3, Names, TokenNames DEF Appended
  <2>7. Flow(p, z)'
    BY <1>3, <1>8, <2>3, <2>5, <2>6 DEF Flow
  <2>8. Peer(p) \in plain' /\ (Queued(p, "safeToClose")' \/ p \in plain' \/ reader'[p] = "new" => z = 0)
    BY <1>3, <1>14, <2>4, TokenNames
  <2>9. Ordered(p)'
    BY <2>7, <2>8 DEF Ordered
  <2>10. Exact(p) /\ got'[p] = got[p] /\ sent'[Peer(p)] = IF f.k = "data" THEN sent[Peer(p)] + 1 ELSE sent[Peer(p)]
    BY <1>7 DEF Moving
  <2>11. Exact(p)'
    BY <1>9, <2>10, Names, ExactAdd
  <2> QED
    BY <2>9, <2>11
<1> QED
  BY <1>3, <1>16, <1>17, <1>18, <1>19 DEF Moving

\* SAFE_TO_CLOSE is processed.
LEMMA MovingSafeToClose ==
  ASSUME IInv, IInv', Moving, NEW d0 \in Device, ProcessSafeToClosePriorChannel(d0)
  PROVE  Moving'
<1>1. \A d \in Device : MovingSide(d)
  BY DEF Moving
<1>2. Posted(d0, "init") /\ Queued(d0, "safeToClose") /\ bwu[d0] = "idle"
  BY JobTaken DEF ProcessSafeToClosePriorChannel, IInv, Types
<1>3. /\ UNCHANGED <<intro, dialer, dec, active, paused, upgraded, progress, reader, writer, sent, got>>
      /\ prev' = [prev EXCEPT ![d0] = "none"]
  BY DEF ProcessSafeToClosePriorChannel, data
<1>4. CASE prev[d0] = "old"
  <2>1. /\ plain' = plain \cup {d0} /\ bwu' = [bwu EXCEPT ![d0] = "draining"]
        /\ Send(d0, "old", "disconnect", 0, {}) \/ SendFails(d0, "old", 0, {})
    BY <1>4 DEF ProcessSafeToClosePriorChannel
  <2> QED
    BY <1>2, <1>3, <1>4, <2>1, MovingDisable
<1>5. CASE prev[d0] # "old"
  <2>1. UNCHANGED <<wire, enc, shut, plain>> /\ (bwu' = bwu \/ bwu' = [bwu EXCEPT ![d0] = "crashed"])
    BY <1>5 DEF ProcessSafeToClosePriorChannel
  <2>2. \A d \in Device : bwu'[d] = bwu[d] \/ (bwu'[d] = "crashed" /\ bwu[d] = "idle")
    BY <1>2, <2>1 DEF IInv, Types, ThreadType
  <2>3. Wired("old", d0, "data") /\ "data" \notin Tokens \cup {"path", "fail"}
        /\ "init" \notin Tokens \cup {"path", "fail", "removed"} /\ "init" # "incoming"
    BY <2>1, WireSame, TokenNames DEF IInv, Types
  <2>4. \A d \in Device : Start(d)' => Start(d)
    <3>1. \A d \in Device : bwu'[d] = "awaitAck" => bwu[d] = "awaitAck"
      BY <2>2
    <3> QED
      BY <1>2, <1>3, <2>3, <3>1, IntroFrame DEF IInv
  <2>5. \A d \in Device : /\ bwu'[d] \in {"lastWrite", "draining"} => bwu'[d] = bwu[d]
                          /\ bwu[d] = "awaitAck" => bwu'[d] = bwu[d]
    BY <2>2
  <2>6. \A d \in Device : /\ (Closed("old", d)' => plain = Device) /\ ~Closed("new", d)'
                          /\ writer'[d] = "old" => active[d] = "old"
                          /\ prev'[d] = "old" => prev[d] = "old"
    <3>1. \A d \in Device : prev'[d] = "old" => prev[d] = "old"
      BY <1>3 DEF IInv, Types, DeviceType
    <3>2. \A d \in Device : /\ (Closed("old", d)' => plain = Device) /\ ~Closed("new", d)'
                            /\ writer'[d] = "old" => active[d] = "old"
      BY <1>1, <1>3, <2>1 DEF MovingSide, Closed
    <3> QED
      BY <3>1, <3>2
  <2>7. \A d \in Device : MovingSide(d)' /\ (Queued(d, "safeToClose")' => Queued(d, "safeToClose"))
    BY <1>2, <1>3, <2>1, <2>3, <2>4, <2>5, <2>6, SidesKept
  <2> QED
    BY <1>3, <2>1, <2>7, MovingKeeps DEF Moving
<1> QED
  BY <1>4, <1>5

\* DISCONNECTION of the peer is read from the old channel.
LEMMA ReadLast ==
  ASSUME IInv, Moving, NEW d0 \in Device, NEW f, Taken("old", d0, f), f.s # dec[d0] + 1 \/ d0 \in plain
  PROVE  /\ f.s = 0 /\ f.k = "disconnect" /\ f.s # dec[d0] + 1 /\ Peer(d0) \in plain
         /\ UNCHANGED <<enc, dec, got, sent, plain>> => Ordered(d0)' /\ Exact(d0)'
<1>1. PICK o \in Seq(Frame) : o = wire["old"][d0]
  BY Wires
<1>2. PICK w \in Seq(Frame) : w = wire["new"][d0]
  BY Wires
<1>3. PICK r \in Nat : r = dec[d0]
  BY Wires
<1>4. PICK e, u : e = enc[Peer(d0)] /\ u = Tail(o)
  OBVIOUS
<1>5. PICK z \in Nat : /\ Chained(o, w, z, e, r) /\ (d0 \in plain => z = 0)
                       /\ Peer(d0) \notin plain => z = Len(o)
  BY <1>1, <1>2, <1>3, <1>4 DEF Moving, Ordered, Flow
<1>6. o # <<>> /\ f = Head(o) /\ Len(w) \in Nat /\ Len(o) \in Nat /\ Len(o) # 0
  BY <1>1 DEF Taken
<1>7. Rest(f, u, w, z, e, r)
  BY <1>4, <1>5, <1>6, ChainTake
<1>8. f.s # r + 1 /\ Chained(u, w, 0, e, r) /\ z = 0 /\ f.s = 0 /\ f.k = "disconnect"
  BY <1>3, <1>5, <1>7 DEF Rest
<1>9. Peer(d0) \in plain
  BY <1>5, <1>6, <1>8
<1>10. ASSUME UNCHANGED <<enc, dec, got, sent, plain>> PROVE Ordered(d0)' /\ Exact(d0)'
  <2>1. wire'["old"][d0] = u /\ wire'["new"][d0] = w
    BY <1>1, <1>2, <1>4, Names, TokenNames DEF Taken
  <2>2. Flow(d0, 0)'
    BY <1>3, <1>4, <1>8, <1>10, <2>1 DEF Flow
  <2>3. Ordered(d0)'
    BY <1>9, <1>10, <2>2 DEF Ordered
  <2>4. Exact(d0)'
    <3>1. Exact(d0) /\ got'[d0] = (IF f.k = "data" THEN got[d0] + 1 ELSE got[d0]) /\ sent'[Peer(d0)] = sent[Peer(d0)]
      BY <1>8, <1>10 DEF Moving
    <3> QED
      BY <3>1, Names, ExactTake
  <2> QED
    BY <2>3, <2>4
<1> QED
  BY <1>3, <1>8, <1>9, <1>10

\* A numbered frame is read from the old channel.
LEMMA ReadNumbered ==
  ASSUME IInv, Moving, NEW d0 \in Device, NEW f, Taken("old", d0, f), f.s = dec[d0] + 1, d0 \notin plain,
         UNCHANGED <<enc, sent, plain, reader>>, reader[d0] = "old", dec' = [dec EXCEPT ![d0] = @ + 1],
         got'[d0] = (IF f.k = "data" THEN got[d0] + 1 ELSE got[d0]),
         Queued(d0, "safeToClose")' => Queued(d0, "safeToClose") \/ f.k = "safeToClose"
  PROVE  f.k # "disconnect" /\ Ordered(d0)' /\ Exact(d0)'
<1>1. PICK o \in Seq(Frame) : o = wire["old"][d0]
  BY Wires
<1>2. PICK w \in Seq(Frame) : w = wire["new"][d0]
  BY Wires
<1>3. PICK r \in Nat : r = dec[d0]
  BY Wires
<1>4. PICK e, u : e = enc[Peer(d0)] /\ u = Tail(o)
  OBVIOUS
<1>5. PICK z \in Nat : /\ Chained(o, w, z, e, r) /\ (Queued(d0, "safeToClose") => z = 0)
                       /\ Peer(d0) \notin plain => z = Len(o) /\ w = <<>>
  BY <1>1, <1>2, <1>3, <1>4 DEF Moving, Ordered, Flow
<1>6. o # <<>> /\ f = Head(o) /\ Len(w) \in Nat /\ Len(o) \in Nat
  BY <1>1 DEF Taken
<1>7. Rest(f, u, w, z, e, r) /\ Len(u) = Len(o) - 1
  BY <1>4, <1>5, <1>6, ChainTake
<1>8. /\ Chained(u, w, z - 1, e, r + 1) /\ z > 0 /\ f.k # "disconnect"
      /\ f.k = "safeToClose" => z = 1
  BY <1>3, <1>7 DEF Rest
<1>9. PICK y \in Nat : y = z - 1
  BY <1>5, <1>8
<1>10. wire'["old"][d0] = u /\ wire'["new"][d0] = w /\ dec'[d0] = r + 1
  BY <1>1, <1>2, <1>3, <1>4, Names, TokenNames DEF Taken, IInv, Types, DeviceType
<1>11. Flow(d0, y)'
  BY <1>4, <1>8, <1>9, <1>10 DEF Flow
<1>12. Peer(d0) \notin plain' => y = Len(wire'["old"][d0]) /\ wire'["new"][d0] = <<>>
  BY <1>5, <1>7, <1>9, <1>10
<1>13. Queued(d0, "safeToClose")' \/ d0 \in plain' \/ reader'[d0] = "new" => y = 0
  BY <1>5, <1>8, <1>9
<1>14. Ordered(d0)'
  BY <1>11, <1>12, <1>13 DEF Ordered
<1>15. Exact(d0) /\ sent'[Peer(d0)] = sent[Peer(d0)]
  BY DEF Moving
<1>16. Exact(d0)'
  BY <1>15, Names, ExactTake
<1> QED
  BY <1>8, <1>14, <1>16

\* A payload frame is read from the new channel.
LEMMA ReadNew ==
  ASSUME IInv, Moving, NEW d0 \in Device, NEW f, Taken("new", d0, f), reader[d0] = "new"
  PROVE  /\ f.s = dec[d0] + 1 /\ f.k = "data"
         /\ /\ UNCHANGED <<enc, sent, plain>> /\ dec' = [dec EXCEPT ![d0] = @ + 1]
            /\ got'[d0] = (IF f.k = "data" THEN got[d0] + 1 ELSE got[d0])
            => Ordered(d0)' /\ Exact(d0)'
<1>1. PICK o \in Seq(Frame) : o = wire["old"][d0]
  BY Wires
<1>2. PICK w \in Seq(Frame) : w = wire["new"][d0]
  BY Wires
<1>3. PICK r \in Nat : r = dec[d0]
  BY Wires
<1>4. PICK e, u : e = enc[Peer(d0)] /\ u = Tail(w)
  OBVIOUS
<1>5. Chained(o, w, 0, e, r) /\ Peer(d0) \in plain
  BY <1>1, <1>2, <1>3, <1>4 DEF Moving, MovingSide, Ordered, Flow
<1>6. w # <<>> /\ f = Head(w) /\ Len(o) \in Nat
  BY <1>2 DEF Taken
<1>7. f.s = r + 1 /\ f.k = "data" /\ Chained(o, u, 0, e, r + 1)
  <2>1. PICK z : z = 0
    OBVIOUS
  <2>2. Chained(o, w, z, e, r)
    BY <1>5, <2>1
  <2>3. RestNew(f, o, u, z, e, r)
    BY <1>4, <1>6, <2>1, <2>2, ChainTakeNew
  <2> QED
    BY <2>1, <2>3 DEF RestNew
<1>8. ASSUME UNCHANGED <<enc, sent, plain>>, dec' = [dec EXCEPT ![d0] = @ + 1],
             got'[d0] = (IF f.k = "data" THEN got[d0] + 1 ELSE got[d0])
      PROVE  Ordered(d0)' /\ Exact(d0)'
  <2>1. wire'["old"][d0] = o /\ wire'["new"][d0] = u /\ dec'[d0] = r + 1
    BY <1>1, <1>2, <1>3, <1>4, <1>8, Names, TokenNames DEF Taken, IInv, Types, DeviceType
  <2>2. Flow(d0, 0)'
    BY <1>4, <1>7, <1>8, <2>1 DEF Flow
  <2>3. Ordered(d0)'
    BY <1>5, <1>8, <2>2 DEF Ordered
  <2>4. Exact(d0) /\ sent'[Peer(d0)] = sent[Peer(d0)]
    BY <1>8 DEF Moving
  <2>5. Exact(d0)'
    BY <1>8, <2>4, Names, ExactTake
  <2> QED
    BY <2>3, <2>5
<1> QED
  BY <1>3, <1>7, <1>8

\* A frame is read from a wire.
LEMMA Takes ==
  ASSUME IInv, NEW c0 \in Channel, NEW d0 \in Device, wire[c0][d0] # <<>>,
         wire' = [wire EXCEPT ![c0][d0] = Tail(@)], NEW f, f = Head(wire[c0][d0])
  PROVE  Taken(c0, d0, f)
BY DEF Taken, IInv, Types, NetType

\* The old channel is closed and the new one resumed.
LEMMA MovingClose ==
  ASSUME IInv, Moving, NEW d0 \in Device, ClosePriorChannel(d0)
  PROVE  Moving'
<1>1. \A d \in Device : MovingSide(d)
  BY DEF Moving
<1>2. d0 \in plain /\ active[d0] = "new" /\ bwu[d0] = "draining"
  BY <1>1 DEF ClosePriorChannel, MovingSide
<1>3. /\ UNCHANGED <<enc, plain, intro, dialer, dec, active, prev, upgraded, bwuQ, reader, writer, sent, got>>
      /\ shut' = shut \cup {<<"old", d0>>} /\ bwu' = [bwu EXCEPT ![d0] = "idle"] /\ paused' = paused \ {d0}
      /\ progress' = progress \ {d0}
  BY <1>2 DEF ClosePriorChannel, data
<1>4. \A d \in Device : Queued(d, "safeToClose")' <=> Queued(d, "safeToClose")
  BY <1>3 DEF Queued
<1>5. plain = Device /\ Wired("old", d0, "data") /\ \A d \in Device : Ordered(d)' /\ Exact(d)'
  <2>1. CASE ReadBroken(d0, "old") /\ wire' = wire
    <3>1. plain = Device
      BY <1>1, <2>1, Peers DEF ReadBroken, MovingSide
    <3>2. Wired("old", d0, "data")
      BY <2>1, WireSame DEF IInv, Types
    <3>3. \A d \in Device : Ordered(d)' /\ Exact(d)'
      BY <1>3, <1>4, <2>1, OrderedSame DEF Moving
    <3> QED
      BY <3>1, <3>2, <3>3
  <2>2. CASE wire["old"][d0] # <<>> /\ wire' = [wire EXCEPT !["old"][d0] = Tail(@)]
    <3>1. PICK f : f = Head(wire["old"][d0])
      OBVIOUS
    <3>2. Taken("old", d0, f)
      BY <2>2, <3>1, Names, Takes
    <3>3. Peer(d0) \in plain /\ Ordered(d0)' /\ Exact(d0)'
      BY <1>2, <1>3, <3>2, ReadLast
    <3>4. plain = Device
      <4>1. \A d \in Device : d \in plain
        BY <1>2, <3>3, Peers
      <4>2. plain \subseteq Device
        BY DEF IInv, Types, NetType
      <4> QED
        BY <4>1, <4>2
    <3>5. Wired("old", d0, "data")
      BY <2>2, <3>1, Names, WireTake DEF IInv, Types
    <3>6. ASSUME NEW d \in Device, d # d0 PROVE Ordered(d)' /\ Exact(d)'
      <4>1. wire'["old"][d] = wire["old"][d] /\ wire'["new"][d] = wire["new"][d]
        BY <3>2, <3>6, Names DEF Taken
      <4> QED
        BY <1>3, <1>4, <4>1, OrderedSame DEF Moving
    <3> QED
      BY <3>3, <3>4, <3>5, <3>6
  <2> QED
    BY <2>1, <2>2 DEF ClosePriorChannel
<1>6. /\ Posted(d0, "init") /\ "data" \notin Tokens \cup {"path", "fail"}
      /\ "init" \notin Tokens \cup {"path", "fail", "removed"} /\ "init" # "incoming"
  BY <1>3, QueueSame, TokenNames DEF IInv, Types
<1>7. bwu'[d0] = "idle" /\ \A d \in Device : d # d0 => bwu'[d] = bwu[d]
  BY <1>3 DEF IInv, Types, ThreadType
<1>8. \A d \in Device : Start(d)' => Start(d)
  <2>1. \A d \in Device : bwu'[d] = "awaitAck" => bwu[d] = "awaitAck"
    BY <1>7
  <2> QED
    BY <1>3, <1>6, <2>1, IntroFrame DEF IInv
<1>9. \A d \in Device : MovingSide(d)'
  <2>1. \A d \in Device : /\ (Closed("old", d)' => plain = Device) /\ ~Closed("new", d)'
                          /\ writer'[d] = "old" => active[d] = "old"
    BY <1>1, <1>3, <1>5 DEF MovingSide, Closed
  <2>2. \A d \in Device : /\ bwu'[d] \in {"lastWrite", "draining"} => bwu'[d] = bwu[d]
                          /\ bwu[d] = "awaitAck" => bwu'[d] = bwu[d]
    BY <1>2, <1>7
  <2>3. \A d \in Device : /\ active[d] = "old" => (d \in progress => d \in progress')
                          /\ d \in paused => d \in paused' \/ d \in plain
    BY <1>2, <1>3
  <2> QED
    BY <1>3, <1>5, <1>6, <1>8, <2>1, <2>2, <2>3, SidesKept
<1> QED
  BY <1>3, <1>5, <1>9 DEF Moving

\* HandleData
LEMMA MovingRead ==
  ASSUME IInv, Moving, NEW d0 \in Device, HandleData(d0)
  PROVE  Moving'
<1>1. \A d \in Device : MovingSide(d)
  BY DEF Moving
<1>2. PICK c0 \in Channel : c0 = reader[d0]
  BY DEF HandleData
<1>3. PICK f : f = Head(wire[c0][d0])
  OBVIOUS
<1>4. /\ UNCHANGED <<enc, plain, intro, dialer, active, prev, upgraded, progress, bwu, writer, sent>>
      /\ wire[c0][d0] # <<>> /\ wire' = [wire EXCEPT ![c0][d0] = Tail(@)]
  BY <1>2 DEF HandleData, mgr
<1>5. Taken(c0, d0, f)
  BY <1>3, <1>4, Takes
<1>6. /\ f.k \in Kinds /\ OnWire(c0, d0, f.k) /\ (WireOnce(c0, d0, f.k) => ~OnWire(c0, d0, f.k)')
      /\ \A c1, d1, k1 : Wired(c1, d1, k1)
  BY <1>3, <1>4, WireTake DEF IInv, Types
<1>7. Wired("old", d0, "data") /\ "data" \notin Tokens \cup {"path", "fail"}
      /\ "init" \notin Tokens \cup {"path", "fail", "removed"} /\ "init" # "incoming"
  BY <1>6, TokenNames
<1>8. PICK p \in Device : p = Peer(d0)
  BY Peers
<1>9. p # d0 /\ Peer(p) = d0 /\ Peer(d0) = p /\ \A d \in Device : d = p \/ d = d0
  BY <1>8, Peers
<1>10. ASSUME got'[p] = got[p], dec'[p] = dec[p], reader'[p] = reader[p],
              Queued(p, "safeToClose")' => Queued(p, "safeToClose")
       PROVE  Ordered(p)' /\ Exact(p)'
  <2>1. wire'["old"][p] = wire["old"][p] /\ wire'["new"][p] = wire["new"][p]
    BY <1>5, <1>9, Names DEF Taken
  <2> QED
    BY <1>4, <1>10, <2>1, OrderedSame DEF Moving
\* Steps that post no job.
<1>11. ASSUME bwuQ' = bwuQ, paused' = paused, \A d \in Device : (Closed("old", d)' => plain = Device) /\ ~Closed("new", d)',
              \A d \in Device : \/ reader'[d] = reader[d]
                                \/ reader'[d] = "new" /\ active[d] = "new" /\ Peer(d) \in plain
       PROVE  \A d \in Device : MovingSide(d)' /\ (Queued(d, "safeToClose")' => Queued(d, "safeToClose"))
  <2>1. Posted(d0, "init")
    BY <1>11, QueueSame DEF IInv, Types
  <2>2. \A d \in Device : Start(d)' => Start(d)
    BY <1>4, <1>11 DEF Start, Queued
  <2>3. \A d \in Device : writer'[d] = "old" => active[d] = "old"
    BY <1>1, <1>4 DEF MovingSide
  <2> QED
    BY <1>4, <1>7, <1>11, <2>1, <2>2, <2>3, SidesKept
<1>12. \A d \in Device : (Closed("old", d) => plain = Device) /\ ~Closed("new", d)
  BY <1>1 DEF MovingSide
<1>13. CASE c0 = "new"
  <2>1. f.s = dec[d0] + 1 /\ f.k = "data"
    BY <1>2, <1>5, <1>13, ReadNew
  <2>2. dec' = [dec EXCEPT ![d0] = @ + 1] /\ Deliver(d0, "new", f) /\ reader' = reader
    <3>1. Decodes(d0, f) /\ ~(c0 = "old" /\ d0 \in plain)
      BY <1>13, <2>1 DEF Decodes
    <3> QED
      BY <1>2, <1>3, <1>13, <3>1 DEF HandleData
  <2>3. UNCHANGED <<shut, paused, bwuQ>> /\ got' = [got EXCEPT ![d0] = @ + 1]
    BY <2>1, <2>2 DEF Deliver
  <2>4. got'[d0] = (IF f.k = "data" THEN got[d0] + 1 ELSE got[d0]) /\ got'[p] = got[p] /\ dec'[p] = dec[p]
    BY <1>9, <2>1, <2>2, <2>3 DEF IInv, DataInv, Types, DeviceType
  <2>5. Ordered(d0)' /\ Exact(d0)'
    BY <1>2, <1>4, <1>5, <1>13, <2>2, <2>4, ReadNew
  <2>6. \A d \in Device : MovingSide(d)' /\ (Queued(d, "safeToClose")' => Queued(d, "safeToClose"))
    <3>1. \A d \in Device : (Closed("old", d)' => plain = Device) /\ ~Closed("new", d)'
      BY <1>12, <2>3 DEF Closed
    <3> QED
      BY <1>11, <2>2, <2>3, <3>1
  <2>7. Ordered(p)' /\ Exact(p)'
    BY <1>10, <2>2, <2>4, <2>6
  <2> QED
    BY <1>4, <1>9, <2>5, <2>6, <2>7 DEF Moving
<1>14. CASE c0 = "old" /\ (f.s # dec[d0] + 1 \/ d0 \in plain)
  <2>1. f.s = 0 /\ f.k = "disconnect" /\ f.s # dec[d0] + 1 /\ p \in plain
    BY <1>5, <1>9, <1>14, ReadLast
  <2>2. active[d0] = "new"
    BY <1>1, <1>9, <2>1 DEF MovingSide, Answered
  <2>3. UNCHANGED <<dec, got, bwuQ, paused>>
    <3>1. ~Decodes(d0, f)
      BY <2>1 DEF Decodes
    <3>2. \/ Deliver(d0, "old", f) /\ dec' = dec
          \/ UNCHANGED <<dec, got, bwuQ, paused>>
      BY <1>2, <1>3, <1>14, <3>1 DEF HandleData
    <3>3. Deliver(d0, "old", f) => got' = [got EXCEPT ![d0] = @] /\ bwuQ' = bwuQ /\ paused' = paused
      BY <2>1, TokenNames DEF Deliver
    <3> QED
      BY <3>2, <3>3 DEF IInv, DataInv
  <2>4. /\ shut' = shut \/ (d0 \in plain /\ shut' = shut \cup {<<"old", d0>>})
        /\ reader' = reader \/ reader' = [reader EXCEPT ![d0] = "new"]
    <3>1. ~Decodes(d0, f) /\ f.s = 0
      BY <2>1 DEF Decodes
    <3>2. CASE d0 \in plain
      <4>1. Deliver(d0, "old", f) /\ reader' = reader
        BY <1>2, <1>3, <1>14, <3>1, <3>2 DEF HandleData
      <4> QED
        BY <2>1, <3>2, <4>1 DEF Deliver
    <3>3. CASE d0 \notin plain
      <4>1. Refetch(d0) /\ shut' = shut
        BY <1>2, <1>3, <1>14, <3>1, <3>3 DEF HandleData
      <4> QED
        BY <1>2, <1>14, <2>2, <4>1 DEF Refetch
    <3> QED
      BY <3>2, <3>3
  <2>5. Ordered(d0)' /\ Exact(d0)'
    BY <1>4, <1>5, <1>14, <2>3, ReadLast
  <2>6. \A d \in Device : MovingSide(d)' /\ (Queued(d, "safeToClose")' => Queued(d, "safeToClose"))
    <3>1. d0 \in plain => plain = Device
      BY <1>9, <2>1 DEF IInv, Types, NetType
    <3>2. \A d \in Device : (Closed("old", d)' => plain = Device) /\ ~Closed("new", d)'
      <4>1. CASE shut' = shut
        BY <1>12, <4>1 DEF Closed
      <4>2. CASE d0 \in plain /\ shut' = shut \cup {<<"old", d0>>}
        <5>1. plain = Device
          BY <3>1, <4>2
        <5>2. \A d \in Device : <<"new", d>> # <<"old", d0>>
          OBVIOUS
        <5> QED
          BY <1>12, <4>2, <5>1, <5>2 DEF Closed
      <4> QED
        BY <2>4, <4>1, <4>2
    <3>3. \A d \in Device : \/ reader'[d] = reader[d]
                            \/ reader'[d] = "new" /\ active[d] = "new" /\ Peer(d) \in plain
      BY <1>9, <2>1, <2>2, <2>4 DEF IInv, Types, DeviceType
    <3> QED
      BY <1>11, <2>3, <3>2, <3>3
  <2>7. Ordered(p)' /\ Exact(p)'
    <3>1. reader'[p] = reader[p]
      BY <1>9, <2>4 DEF IInv, Types, DeviceType
    <3> QED
      BY <1>10, <2>3, <2>6, <3>1
  <2> QED
    BY <1>4, <1>9, <2>5, <2>6, <2>7 DEF Moving
<1>15. CASE c0 = "old" /\ f.s = dec[d0] + 1 /\ d0 \notin plain
  <2>1. dec' = [dec EXCEPT ![d0] = @ + 1] /\ Deliver(d0, "old", f) /\ reader' = reader
    <3>1. Decodes(d0, f)
      BY <1>15 DEF Decodes
    <3> QED
      BY <1>2, <1>3, <1>15, <3>1 DEF HandleData
  <2>2. got'[d0] = (IF f.k = "data" THEN got[d0] + 1 ELSE got[d0]) /\ got'[p] = got[p] /\ dec'[p] = dec[p]
    BY <1>9, <2>1 DEF Deliver, IInv, DataInv, Types, DeviceType
  <2>3. f.k \notin {"path", "fail"}
    BY <1>1, <1>6, <1>15 DEF MovingSide
  <2>4. f.k = "disconnect" \/ f.k = "data" \/ (f.k \in Tokens /\ f.k \in Job /\ Posted(d0, f.k))
    <3>1. f.k \in {"disconnect", "data"} \cup Tokens
      BY <1>6, <2>3 DEF Kinds, Tokens
    <3>2. ASSUME f.k \in Tokens PROVE f.k \in Job /\ Posted(d0, f.k)
      <4>1. f.k \in Job /\ Post(d0, f.k)
        BY <2>1, <3>2, TokenNames DEF Deliver, Post
      <4> QED
        BY <4>1, JobPosted DEF IInv, Types
    <3> QED
      BY <3>1, <3>2
  <2>5. \A d \in Device : Queued(d, "safeToClose")' => Queued(d, "safeToClose") \/ (d = d0 /\ f.k = "safeToClose")
    <3>1. CASE f.k \in {"disconnect", "data"}
      BY <2>1, <3>1 DEF Deliver, Queued
    <3>2. CASE f.k \notin {"disconnect", "data"}
      BY <2>4, <3>2, TokenNames DEF Posted
    <3> QED
      BY <3>1, <3>2
  <2>6. f.k # "disconnect" /\ Ordered(d0)' /\ Exact(d0)'
    BY <1>2, <1>4, <1>5, <1>15, <2>1, <2>2, <2>5, ReadNumbered
  <2>7. Ordered(p)' /\ Exact(p)'
    BY <1>9, <1>10, <2>1, <2>2, <2>5
  <2>8. shut' = shut /\ paused' = paused
    BY <2>1, <2>6 DEF Deliver
  <2>9. \A d \in Device : (Closed("old", d)' => plain = Device) /\ ~Closed("new", d)'
    BY <1>12, <2>8 DEF Closed
  <2>10. CASE f.k = "data"
    <3>1. bwuQ' = bwuQ
      BY <2>1, <2>10 DEF Deliver
    <3>2. \A d \in Device : MovingSide(d)'
      BY <1>11, <2>1, <2>8, <2>9, <3>1
    <3> QED
      BY <1>4, <1>9, <2>6, <2>7, <3>2 DEF Moving
  <2>11. CASE f.k \in Tokens
    <3>1. Posted(d0, f.k) /\ f.k \in Job /\ f.k # "incoming" /\ f.k \notin {"path", "fail", "removed"}
      BY <2>4, <2>11, TokenNames DEF Tokens
    <3>2. \A d \in Device : Start(d)' => Start(d)
      BY <1>4, <3>1, IntroFrame DEF IInv
    <3>3. \A d \in Device, k \in Tokens : /\ OnWire("old", d, k)' => OnWire("old", d, k)
                                          /\ Queued(d, k)' => Queued(d, k) \/ (d = d0 /\ k = f.k)
      BY <1>7, <3>1, TokenNames DEF Wired, Posted
    <3>4. ASSUME NEW d \in Device PROVE MovingSide(d)'
      <4>1. ~Queued(d, "removed")' /\ \A k \in {"path", "fail"} : ~OnWire("old", d, k)' /\ ~Queued(d, k)'
        BY <1>1, <1>7, <3>1, NoOffers
      <4>2. Answered(d)' => Answered(d)
        BY <1>4, <1>6, <1>15, <3>3, TokenNames DEF Answered
      <4>3. ASSUME NEW n \in 0..6, d \in plain PROVE ~Turn(d, n)'
        <5>1. d = p /\ \A m \in 0..6 : ~Turn(p, m)
          BY <1>1, <1>9, <1>15, <4>3 DEF MovingSide
        <5>2. f.k # "lastWrite"
          <6>1. f.k = "lastWrite" => Turn(p, 2)
            BY <1>6, <1>9, <1>15 DEF Turn
          <6> QED
            BY <5>1, <6>1
        <5>3. Turn(p, n)' => Turn(p, n)
          BY <1>4, <1>9, <3>2, <3>3, <5>2, TokenNames DEF Turn
        <5> QED
          BY <5>1, <5>3
      <4>4. writer'[d] = "old" => active[d] = "old"
        BY <1>1, <1>4 DEF MovingSide
      <4> QED
        BY <1>1, <1>4, <2>1, <2>8, <2>9, <3>2, <4>1, <4>2, <4>3, <4>4, SideKept
    <3> QED
      BY <1>4, <1>9, <2>6, <2>7, <3>4 DEF Moving
  <2> QED
    BY <2>4, <2>6, <2>10, <2>11
<1> QED
  BY <1>13, <1>14, <1>15 DEF Channel

\* The steps that upgrading devices cannot take.
LEMMA MovingExcludes ==
  ASSUME IInv, ~Faults, Moving, NEW d \in Device
  PROVE  /\ ~DuplicatePath(d) /\ ~ProcessBwuPathAvailable(d) /\ ~ProcessUpgradeFailure(d)
         /\ ~OnEndpointDisconnect(d) /\ ~AckFails(d) /\ ~RemoveEndpoint(d)
<1>1. /\ ~Queued(d, "path") /\ ~Queued(d, "fail") /\ ~Queued(d, "removed") /\ reader[d] # "gone"
      /\ ~Closed("new", Peer(d))
  BY Peers DEF Moving, MovingSide, Channel
<1>2. \A x \in {"path", "fail", "removed"} :
        ~(NextJob(d, x) /\ (JobDone(d) \/ bwuQ' = [bwuQ EXCEPT ![d] = Append(Tail(@), "init")]))
  BY <1>1, JobTaken DEF IInv, Types
<1> QED
  BY <1>1, <1>2 DEF DuplicatePath, ProcessBwuPathAvailable, ProcessUpgradeFailure, OnEndpointDisconnect,
     AckFails, RemoveEndpoint, KeepAliveTimesOut

\* Every other step.
LEMMA MovingStep ==
  ASSUME IInv, IInv', ~LateWrites, ~Faults, Moving, Next
  PROVE  Moving'
<1>1. \A c \in Channel : ~ChannelBreaks(c)
  BY DEF ChannelBreaks
<1>2. PICK d \in Device : InitiateBwuForEndpoint(d) \/ OnIncomingConnection(d) \/ BwuNext(d)
                          \/ ReaderNext(d) \/ FetchChannel(d) \/ WriteData(d) \/ RemoveEndpoint(d)
  BY <1>1 DEF Next
<1>3. CASE BwuNext(d)
  <2>1. \/ Initiate(d) \/ ReadClientIntroduction(d) \/ ReadClientIntroductionAck(d) \/ WriteLastWrite(d)
        \/ ProcessLastWriteToPriorChannel(d) \/ ProcessSafeToClosePriorChannel(d) \/ ClosePriorChannel(d)
    BY <1>3, MovingExcludes DEF BwuNext
  <2> QED
    BY <2>1, MovingInit, MovingIntroduction, MovingLastWrite, MovingAnswer, MovingSafeToClose, MovingClose
<1>4. CASE ReaderNext(d)
  BY <1>4, MovingRead, MovingFetch DEF ReaderNext
<1>5. CASE InitiateBwuForEndpoint(d) \/ OnIncomingConnection(d) \/ FetchChannel(d) \/ WriteData(d)
  BY <1>5, MovingInit, MovingIncoming, MovingFetch, MovingWriteData
<1>6. ~RemoveEndpoint(d)
  BY MovingExcludes
<1> QED
  BY <1>2, <1>3, <1>4, <1>5, <1>6

-----------------------------------------------------------------------------
(* The order of the frames is an invariant.                                *)

\* Nothing has been written yet.
LEMMA OrderInit == Init => OrderInv
<1> SUFFICES ASSUME Init PROVE Quiet
  BY DEF OrderInv
<1>1. IInv
  BY InitInv
<1>2. /\ \A c \in Channel, d \in Device : wire[c][d] = <<>>
      /\ \A d \in Device : bwuQ[d] = <<>> /\ active[d] = "old" /\ reader[d] = "old" /\ writer[d] = "idle"
                           /\ sent[d] = 0 /\ got[d] = 0 /\ enc[d] = 0 /\ dec[d] = 0
      /\ shut = {} /\ plain = {} /\ paused = {} /\ intro = "none"
  BY DEF Init
<1>3. /\ Len(<<>>) = 0 /\ "old" \in Channel /\ "new" \in Channel
      /\ \A d \in Device : Peer(d) \in Device
  BY Peers DEF Channel
<1>4. \A d \in Device : \A k : ~OnWire("old", d, k) /\ ~Queued(d, k)
  BY <1>2, <1>3 DEF OnWire, Queued
<1>5. OfferInv
  <2>1. \A x \in Device, n \in 1..4 : ~Offer(x, n)
    BY <1>3, <1>4 DEF Offer
  <2>2. \A x \in Device : \A k \in {"path", "fail"} : WireOnce("old", x, k) /\ QueuedOnce(x, k)
    BY <1>2, <1>3 DEF WireOnce, QueuedOnce
  <2> QED
    BY <2>1, <2>2 DEF OfferInv
<1>6. ASSUME NEW d \in Device PROVE QuietSide(d)
  <2>1. Flow(d, Len(wire["old"][d]))
    <3>1. Chained(<<>>, <<>>, 0, 0, 0)
      BY <1>3 DEF Chained
    <3> QED
      BY <1>2, <1>3, <3>1 DEF Flow
  <2>2. Exact(d)
    <3>1. Count(<<>>) = 0
      BY <1>3, NoneCount
    <3> QED
      BY <1>2, <1>3, <3>1 DEF Exact
  <2>3. FailFirst(d)
    <3>1. WFirst(<<>>) /\ QFirst(<<>>)
      BY <1>3 DEF WFirst, QFirst
    <3> QED
      BY <1>2, <1>3, <1>4, <3>1 DEF FailFirst
  <2> QED
    BY <1>2, <1>3, <1>4, <2>1, <2>2, <2>3 DEF QuietSide
<1> QED
  BY <1>2, <1>5, <1>6 DEF Quiet

\* Every step keeps the frames in order.
LEMMA OrderNext ==
  ASSUME IInv, IInv', ~LateWrites, ~Faults, OrderInv, [Next]_vars
  PROVE  OrderInv'
<1>1. CASE Next /\ Moving
  BY <1>1, MovingStep DEF OrderInv
<1>2. CASE Next /\ (Quiet \/ Torn)
  <2>1. intro = "none"
    BY <1>2 DEF Quiet, Torn
  <2>2. PICK d \in Device : EarlyStep(d)
    BY <1>2, <2>1, EarlySteps
  <2>3. CASE Quiet
    BY <2>2, <2>3, QuietStep
  <2>4. CASE Torn
    BY <2>2, <2>4, TornStep DEF OrderInv
  <2> QED
    BY <1>2, <2>3, <2>4
<1>3. CASE UNCHANGED vars
  <2>1. UNCHANGED <<wire, shut, enc, plain, intro, dialer, dec, active, paused, prev, upgraded, progress, bwu, bwuQ,
                    reader, writer, sent, got>>
    BY <1>3 DEF vars, net, mgr, data
  <2>2. Quiet => Quiet'
    BY <2>1 DEF Quiet, QuietSide, OfferInv, Offer, FailFirst, Flow, Exact, OnWire, Queued, WireOnce, QueuedOnce
  <2>3. Torn => Torn'
    BY <2>1 DEF Torn, TornSide, Closed, OnWire, Queued
  <2>4. Moving => Moving'
    <3>1. \A d \in Device : MovingSide(d) => MovingSide(d)'
      BY <2>1 DEF MovingSide, Answered, Closed, OnWire, Queued, Start, Turn
    <3>2. \A d \in Device : Queued(d, "safeToClose")' => Queued(d, "safeToClose")
      BY <2>1 DEF Queued
    <3> QED
      BY <2>1, <3>1, <3>2, MovingKeeps DEF Moving
  <2> QED
    BY <2>2, <2>3, <2>4 DEF OrderInv
<1> QED
  BY <1>1, <1>2, <1>3 DEF OrderInv

\* The inductive invariant: without late writes and faults the frames on the wires of
\* the two channels are, one after the other, what their reader expects.
THEOREM OrderInvariance ==
  ASSUME ~LateWrites, ~Faults
  PROVE  Spec => [](IInv /\ OrderInv)
<1>1. Init => IInv /\ OrderInv
  BY InitInv, OrderInit
<1>2. IInv /\ OrderInv /\ [Next]_vars => (IInv /\ OrderInv)'
  BY NextInv, OrderNext
<1> QED
  BY <1>1, <1>2, PTL DEF Spec

\* Every encrypted frame reaches its reader in the sequence that DecodeMessageFromPeer
\* expects, whichever channel it travels on.
THEOREM FramesInOrder ==
  ASSUME ~LateWrites, ~Faults
  PROVE  Spec => []InOrder
<1>1. IInv /\ OrderInv => InOrder
  BY OrderGivesInOrder
<1> QED
  BY OrderInvariance, <1>1, PTL

\* While both devices are connected no payload frame is lost: each one written has been
\* received or is still to be read.
THEOREM NoDataLost ==
  ASSUME ~LateWrites, ~Faults
  PROVE  Spec => []NoDataLoss
<1>1. IInv /\ OrderInv => NoDataLoss
  BY OrderGivesNoDataLoss
<1> QED
  BY OrderInvariance, <1>1, PTL
=============================================================================
