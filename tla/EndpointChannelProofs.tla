----------------------- MODULE EndpointChannelProofs -----------------------
(***************************************************************************)
(* Proofs about EndpointChannel, for any number of frames.                 *)
(*                                                                         *)
(* NoFrameRefused rests on two arguments about the frames on their way to  *)
(* an end.  Chain: the numbers they were encrypted with continue what the  *)
(* reader has decoded, frames in the clear coming first.  OneAnswer: there *)
(* is one frame with the peer's answer, so once it is handled (and only    *)
(* then is the end encrypted) what is still in the clear is KEEP_ALIVE.    *)
(***************************************************************************)
EXTENDS EndpointChannel, SequenceTheorems, TLAPS

Verdict == {"accepted", "rejected"}
Sent  == [type : Verdict \cup {"keepalive", "payload"}, seq : Nat]

TypeInv ==
  /\ crypto \in [End -> BOOLEAN] /\ connected \in [End -> BOOLEAN]
  /\ closed \in [End -> BOOLEAN] /\ timedOut \in [End -> BOOLEAN] /\ lost \in [End -> BOOLEAN]
  /\ tryDecrypting \in [End -> BOOLEAN]
  /\ encoded \in [End -> Nat] /\ decoded \in [End -> Nat]
  /\ wire \in [End -> Seq(Sent)]
  /\ writing \in [End -> [Thread -> Type]]
  /\ out \in [End -> [Thread -> Sent \cup {NoFrame}]]
  /\ pcp \in [End -> {"idle", "writing", "answered", "announce"}]
  /\ answer \in [End -> Answer] /\ local \in [End -> Answer] /\ remote \in [End -> Answer]
  /\ reader \in [End -> {"read", "decode", "tryDecrypt", "response", "latch", "down"}]
  /\ frame \in [End -> Sent \cup {NoFrame}]

\* The reader holds a frame that is not decoded, or one that is not handled.
Undecoded(e) == reader[e] \in {"decode", "tryDecrypt"}
Held(e)      == reader[e] \in {"decode", "tryDecrypt", "response"}

\* The threads that write: one at a time between encoding and sending; the answer is in the
\* hands of the PCP handler thread alone; payloads are written only on an encrypted channel.
WriterInv(e) ==
  /\ \A t, u \in Thread : out[e][t] # NoFrame /\ out[e][u] # NoFrame => t = u
  /\ \A t \in Thread \ {"pcp"} : writing[e][t] \in {t, "none"}
  /\ \A t \in Thread \ {"pcp"} : out[e][t] # NoFrame => out[e][t].type = t
  /\ writing[e]["pcp"] \in Verdict \cup {"none"}
  /\ writing[e]["pcp"] # "none" => out[e]["pcp"] = NoFrame /\ pcp[e] = "writing"
  /\ out[e]["pcp"] # NoFrame => out[e]["pcp"].type \in Verdict /\ pcp[e] = "writing"
  /\ pcp[e] = "writing" => answer[e] # "none"
  /\ writing[e]["payload"] # "none" => crypto[e]
  /\ out[e]["payload"] # NoFrame => out[e]["payload"].seq > 0

\* Encryption comes after the peer's answer and before the client is told.
CryptoInv(e) ==
  /\ ~crypto[e] => encoded[e] = 0
  /\ crypto[e] => remote[e] = "accepted"
  /\ connected[e] \/ pcp[e] = "announce" => crypto[e]

ReaderInv(e) ==
  /\ Held(e) => frame[e] # NoFrame
  /\ reader[e] = "response" => frame[e].type \in Verdict
  /\ reader[e] = "tryDecrypt" => frame[e].seq > 0
  /\ ~tryDecrypting[e] => crypto[e] \/ timedOut[e] \/ reader[e] = "tryDecrypt"
  /\ Held(e) /\ frame[e].type = "payload" => frame[e].seq > 0
  /\ \A i \in 1..Len(wire[e]) : wire[e][i].type = "payload" => wire[e][i].seq > 0

\* The frame with number n may follow one with number m: 0 is a frame in the clear.
Follows(m, n) == n = m + 1 \/ (m = 0 /\ n = 0)

\* The number of the i-th frame on its way to e, and before it of the one e has decoded last
\* or is about to decode.
Number(e, i) ==
  IF i > 0 THEN wire[e][i].seq ELSE IF Undecoded(e) THEN frame[e].seq ELSE decoded[e]

Chain(e) ==
  /\ Undecoded(e) => Follows(decoded[e], frame[e].seq)
  /\ \A i \in 1..Len(wire[e]) : Follows(Number(e, i - 1), Number(e, i))

\* What the other end has encoded and not yet sent comes next, while both ends are open.
ChainEnd(e) ==
  ~closed[e] /\ ~closed[Peer(e)] =>
    /\ \A t \in Thread : out[Peer(e)][t] # NoFrame =>
         /\ Follows(Number(e, Len(wire[e])), out[Peer(e)][t].seq)
         /\ encoded[Peer(e)] = out[Peer(e)][t].seq
    /\ (\A t \in Thread : out[Peer(e)][t] = NoFrame) =>
         encoded[Peer(e)] = Number(e, Len(wire[e]))

\* The frame with the peer's answer: not sent, on its way, held by the reader, or handled.
Unsent(e) == answer[e] = "none" \/ pcp[e] = "writing"

OneAnswer(e) ==
  /\ Unsent(Peer(e)) =>
       /\ remote[e] = "none"
       /\ Held(e) => frame[e].type \notin Verdict
       /\ \A i \in 1..Len(wire[e]) : wire[e][i].type \notin Verdict
  /\ \A i \in 1..Len(wire[e]) : wire[e][i].type \in Verdict =>
       /\ remote[e] = "none"
       /\ Held(e) => frame[e].type \notin Verdict
       /\ \A j \in 1..Len(wire[e]) : wire[e][j].type \in Verdict => i = j
  /\ Held(e) /\ frame[e].type \in Verdict => remote[e] = "none"

EndInv(e) ==
  /\ WriterInv(e) /\ CryptoInv(e) /\ ReaderInv(e) /\ OneAnswer(e)
  /\ ~timedOut[e] => Chain(e) /\ ChainEnd(e) /\ ~lost[e]

IInv == TypeInv /\ \A e \in End : EndInv(e)

-----------------------------------------------------------------------------
(* The two ends, and what each part of the invariant depends on. *)

\* There are two ends, each the other's peer.
LEMMA Peers ==
  ASSUME NEW e \in End
  PROVE  /\ Peer(e) \in End /\ Peer(e) # e /\ Peer(Peer(e)) = e
         /\ \A f \in End : f = e \/ f = Peer(e)
BY DEF End, Peer

\* The writers' part is about the mutex, the encoder's count and what the threads of the end do.
LEMMA WriterFrame ==
  ASSUME NEW f \in End, WriterInv(f),
         out'[f] = out[f], writing'[f] = writing[f], pcp'[f] = pcp[f], answer'[f] = answer[f],
         crypto[f] => crypto'[f]
  PROVE  WriterInv(f)'
BY DEF WriterInv

\* The encryption part is about when an end switches its channel to encrypted.
LEMMA CryptoFrame ==
  ASSUME NEW f \in End, CryptoInv(f),
         crypto'[f] = crypto[f], encoded'[f] = encoded[f], remote'[f] = remote[f],
         connected'[f] = connected[f], pcp'[f] = pcp[f]
  PROVE  CryptoInv(f)'
BY DEF CryptoInv

\* The reader's part is about the frame it holds and the latch it waits for.
LEMMA ReaderFrame ==
  ASSUME NEW f \in End, ReaderInv(f),
         reader'[f] = reader[f], frame'[f] = frame[f], wire'[f] = wire[f],
         tryDecrypting'[f] = tryDecrypting[f], timedOut'[f] = timedOut[f],
         crypto[f] => crypto'[f]
  PROVE  ReaderInv(f)'
BY DEF ReaderInv, Held

\* That an end answers once is about its answer and where that frame is.
LEMMA AnswerFrame ==
  ASSUME NEW f \in End, OneAnswer(f),
         reader'[f] = reader[f], frame'[f] = frame[f], wire'[f] = wire[f], remote'[f] = remote[f],
         Unsent(Peer(f))' => Unsent(Peer(f))
  PROVE  OneAnswer(f)'
BY DEF OneAnswer, Held

\* The numbering of the frames on their way is about the frames not yet decoded.
LEMMA ChainFrame ==
  ASSUME NEW f \in End, Chain(f),
         reader'[f] = reader[f], frame'[f] = frame[f], wire'[f] = wire[f], decoded'[f] = decoded[f]
  PROVE  Chain(f)'
BY DEF Chain, Undecoded, Number

\* Where the numbering ends is about those frames and what the writer has encoded.
LEMMA ChainEndFrame ==
  ASSUME NEW f \in End, ChainEnd(f),
         reader'[f] = reader[f], frame'[f] = frame[f], wire'[f] = wire[f], decoded'[f] = decoded[f],
         out'[Peer(f)] = out[Peer(f)], encoded'[Peer(f)] = encoded[Peer(f)],
         closed[f] => closed'[f], closed[Peer(f)] => closed'[Peer(f)]
  PROVE  ChainEnd(f)'
BY DEF ChainEnd, Undecoded, Number

-----------------------------------------------------------------------------
\* Nothing is sent, encrypted or answered in the initial state.
LEMMA InitInv == Init => IInv
<1> SUFFICES ASSUME Init PROVE IInv
  OBVIOUS
<1>1. TypeInv
  BY ChannelAssumption, EmptySeq DEF Init, TypeInv, Answer, Type
<1> SUFFICES ASSUME NEW e \in End PROVE EndInv(e)
  BY <1>1 DEF IInv
<1>2. WriterInv(e)
  BY DEF Init, WriterInv, Thread
<1>3. CryptoInv(e)
  BY DEF Init, CryptoInv
<1>4. ReaderInv(e)
  BY EmptySeq DEF Init, ReaderInv, Held
<1>5. OneAnswer(e)
  BY EmptySeq DEF Init, OneAnswer, Held
<1>6. Chain(e) /\ ChainEnd(e) /\ ~lost[e]
  BY EmptySeq, Peers DEF Init, Chain, ChainEnd, Undecoded, Number
<1> QED
  BY <1>2, <1>3, <1>4, <1>5, <1>6 DEF EndInv

\* HandleKeepAlive and the payload sender.
LEMMA SendInv == ASSUME IInv, NEW e \in End, NEW t \in Thread, Send(e, t) PROVE IInv'
<1> USE DEF Send, readers, verdict
<1>1. TypeInv'
  BY DEF IInv, TypeInv, Type, Thread
<1> SUFFICES ASSUME NEW f \in End PROVE EndInv(f)'
  BY <1>1 DEF IInv
<1>2. WriterInv(f)'
  <2>1. CASE f = e
    BY <2>1 DEF IInv, EndInv, TypeInv, WriterInv, CryptoInv, Thread
  <2>2. CASE f # e
    BY <2>2, WriterFrame DEF IInv, EndInv, TypeInv
  <2> QED
    BY <2>1, <2>2
<1>3. CryptoInv(f)'
  BY CryptoFrame DEF IInv, EndInv
<1>4. ReaderInv(f)'
  BY ReaderFrame DEF IInv, EndInv
<1>5. OneAnswer(f)'
  BY AnswerFrame DEF IInv, EndInv, Unsent
<1>6. ~timedOut'[f] => Chain(f)' /\ ChainEnd(f)' /\ ~lost'[f]
  BY ChainFrame, ChainEndFrame, Peers DEF IInv, EndInv
<1> QED
  BY <1>2, <1>3, <1>4, <1>5, <1>6 DEF EndInv

\* The number a frame is encrypted with is the next one, since its writer has the mutex
\* until the frame is sent.
LEMMA EncodeInv == ASSUME IInv, NEW e \in End, NEW t \in Thread, Encode(e, t) PROVE IInv'
<1> USE DEF Encode, EncodeMessageToPeer, readers, verdict
<1> DEFINE n == IF crypto[e] THEN encoded[e] + 1 ELSE 0
           x == [type |-> writing[e][t], seq |-> n]
<1>1. /\ encoded'[e] = (IF crypto[e] THEN encoded[e] + 1 ELSE encoded[e])
      /\ encoded[e] \in Nat /\ encoded'[e] \in Nat
      /\ out' = [out EXCEPT ![e][t] = x]
      /\ n \in Nat /\ (~crypto[e] => encoded[e] = 0) /\ Follows(encoded[e], n) /\ encoded'[e] = n
  BY DEF IInv, TypeInv, EndInv, CryptoInv, Follows
<1>2. x \in Sent /\ x # NoFrame
  BY <1>1 DEF IInv, TypeInv, Sent, Type, Answer, Verdict, NoFrame
<1> HIDE DEF n, x
<1>3. out'[e][t] = x /\ (\A u \in Thread \ {t} : out'[e][u] = NoFrame)
      /\ out \in [End -> [Thread -> Sent \cup {NoFrame}]]
      /\ out' \in [End -> [Thread -> Sent \cup {NoFrame}]]
  BY <1>1, <1>2 DEF IInv, TypeInv
<1>4. TypeInv'
  BY <1>1, <1>3 DEF IInv, TypeInv, Type, Answer
<1> SUFFICES ASSUME NEW f \in End PROVE EndInv(f)'
  BY <1>4 DEF IInv
<1>5. WriterInv(f)'
  <2>1. CASE f = e
    <3>1. x.type = writing[e][t] /\ (t = "payload" => x.seq > 0)
      BY <1>1 DEF x, n, IInv, EndInv, WriterInv
    <3> QED
      BY <1>2, <1>3, <2>1, <3>1 DEF IInv, EndInv, TypeInv, WriterInv, Thread
  <2>2. CASE f # e
    BY <2>2, WriterFrame DEF IInv, EndInv, TypeInv
  <2> QED
    BY <2>1, <2>2
<1>6. CryptoInv(f)'
  BY <1>1 DEF IInv, EndInv, TypeInv, CryptoInv
<1>7. ReaderInv(f)'
  BY ReaderFrame DEF IInv, EndInv
<1>8. OneAnswer(f)'
  BY AnswerFrame DEF IInv, EndInv, Unsent
<1>9. ~timedOut'[f] => Chain(f)' /\ ChainEnd(f)' /\ ~lost'[f]
  <2> SUFFICES ASSUME ~timedOut[f] PROVE Chain(f)' /\ ChainEnd(f)' /\ ~lost'[f]
    OBVIOUS
  <2>1. Chain(f)' /\ ~lost'[f]
    BY ChainFrame DEF IInv, EndInv
  <2>2. CASE f = Peer(e)
    <3>1. Peer(f) = e
      BY <2>2, Peers
    <3>2. Number(f, Len(wire[f]))' = Number(f, Len(wire[f]))
      BY DEF Number, Undecoded
    <3>3. ~closed[f] /\ ~closed[e] => encoded[e] = Number(f, Len(wire[f]))
      BY <3>1 DEF IInv, EndInv, ChainEnd
    <3>4. x.seq = n
      BY DEF x
    <3> QED
      BY <1>1, <1>2, <1>3, <2>1, <3>1, <3>2, <3>3, <3>4 DEF ChainEnd
  <2>3. CASE f = e
    <3>1. Peer(f) # e /\ Peer(f) \in End
      BY <2>3, Peers
    <3> QED
      BY <2>1, <2>3, <3>1, ChainEndFrame DEF IInv, EndInv, TypeInv
  <2> QED
    BY <2>2, <2>3, Peers
<1> QED
  BY <1>5, <1>6, <1>7, <1>8, <1>9 DEF EndInv

\* A frame that is sent becomes the last one on its way, next after the one before it; a
\* frame that is not sent is the last one its end could send, as one end is closed.
LEMMA WriteOutInv ==
  ASSUME IInv, NEW e \in End, NEW t \in Thread, NEW ok \in BOOLEAN, WriteOut(e, t, ok)
  PROVE  IInv'
<1> USE DEF WriteOut, readers, verdict
<1> DEFINE p == Peer(e)
           x == out[e][t]
           goes == ok /\ ~closed[p]
<1>1. p \in End /\ p # e /\ Peer(p) = e /\ \A f \in End : f = e \/ f = p
  BY Peers
<1> HIDE DEF p
<1>2. x \in Sent /\ x # NoFrame /\ wire[p] \in Seq(Sent) /\ Len(wire[p]) \in Nat
  BY <1>1 DEF IInv, TypeInv
<1>3. /\ goes => wire' = [wire EXCEPT ![p] = Append(@, x)]
      /\ ~goes => wire' = wire
  BY DEF p
<1> HIDE DEF x
<1>4. wire' \in [End -> Seq(Sent)] /\ wire'[e] = wire[e]
      /\ (~goes => wire'[p] = wire[p]) /\ (goes => wire'[p] = Append(wire[p], x))
  <2>1. Append(wire[p], x) \in Seq(Sent)
    BY <1>2
  <2>2. wire \in [End -> Seq(Sent)]
    BY DEF IInv, TypeInv
  <2> HIDE DEF goes
  <2> QED
    BY <1>1, <1>3, <2>1, <2>2
<1>5. goes => /\ Len(wire'[p]) = Len(wire[p]) + 1
              /\ wire'[p][Len(wire[p]) + 1] = x
              /\ \A i \in 1..Len(wire[p]) : wire'[p][i] = wire[p][i]
  BY <1>2, <1>4
<1>6. TypeInv'
  BY <1>4 DEF IInv, TypeInv
<1> SUFFICES ASSUME NEW f \in End PROVE EndInv(f)'
  BY <1>6 DEF IInv
<1>7. WriterInv(f)'
  <2>1. CASE f = e
    BY <2>1 DEF IInv, EndInv, TypeInv, WriterInv, Thread
  <2>2. CASE f # e
    BY <2>2, WriterFrame DEF IInv, EndInv, TypeInv
  <2> QED
    BY <2>1, <2>2
<1>8. CryptoInv(f)'
  BY DEF IInv, EndInv, TypeInv, CryptoInv
<1>9. t # "pcp" => x.type = t
  BY <1>2 DEF IInv, EndInv, WriterInv, x
<1>10. ReaderInv(f)'
  <2>1. CASE f = p /\ goes
    <3>1. x.type = "payload" => x.seq > 0
      <4>1. CASE t = "payload"
        BY <1>2, <4>1 DEF IInv, EndInv, WriterInv, x
      <4>2. CASE t = "keepalive"
        BY <1>9, <4>2
      <4>3. CASE t = "pcp"
        <5>1. x.type \in Verdict
          BY <1>2, <4>3 DEF IInv, EndInv, WriterInv, x
        <5> QED
          BY <5>1 DEF Verdict
      <4> QED
        BY <4>1, <4>2, <4>3 DEF Thread
    <3> QED
      BY <1>2, <1>5, <2>1, <3>1 DEF IInv, EndInv, ReaderInv, Held
  <2>2. CASE ~(f = p /\ goes)
    BY <1>1, <1>4, <2>2, ReaderFrame DEF IInv, EndInv
  <2> QED
    BY <2>1, <2>2
<1>11. OneAnswer(f)'
  <2>1. Unsent(f)' => Unsent(f)
    BY DEF Unsent, IInv, TypeInv, EndInv, WriterInv
  <2>2. CASE f = p /\ goes /\ t = "pcp"
    <3>1. Unsent(e) /\ ~Unsent(e)'
      BY <1>2, <2>2 DEF Unsent, IInv, TypeInv, EndInv, WriterInv, x
    <3> QED
      BY <1>1, <1>2, <1>5, <2>2, <3>1 DEF IInv, EndInv, OneAnswer, Held
  <2>3. CASE f = p /\ goes /\ t # "pcp"
    <3>1. x.type \notin Verdict
      BY <1>9, <2>3 DEF Thread, Verdict
    <3>2. Unsent(e)' => Unsent(e)
      BY DEF Unsent, IInv, TypeInv, EndInv, WriterInv
    <3> QED
      BY <1>1, <1>2, <1>5, <2>3, <3>1, <3>2 DEF IInv, EndInv, OneAnswer, Held
  <2>4. CASE ~(f = p /\ goes)
    <3>1. Unsent(Peer(f))' => Unsent(Peer(f))
      BY <1>1 DEF Unsent, IInv, TypeInv, EndInv, WriterInv
    <3> QED
      BY <1>1, <1>4, <2>4, <3>1, AnswerFrame DEF IInv, EndInv
  <2> QED
    BY <2>2, <2>3, <2>4
<1>12. ~timedOut'[f] => Chain(f)' /\ ChainEnd(f)' /\ ~lost'[f]
  <2> SUFFICES ASSUME ~timedOut[f] PROVE Chain(f)' /\ ChainEnd(f)' /\ ~lost'[f]
    OBVIOUS
  <2>1. ~lost'[f]
    BY DEF IInv, EndInv
  <2>2. CASE f = p /\ goes
    <3>1. Follows(Number(p, Len(wire[p])), x.seq) /\ encoded[e] = x.seq
      BY <1>1, <1>2, <2>2 DEF IInv, EndInv, ChainEnd, x
    <3>2. \A i \in 0..Len(wire[p]) : Number(p, i)' = Number(p, i)
      BY <1>2, <1>5, <2>2 DEF Number, Undecoded
    <3>3. \A i : i = Len(wire[p]) + 1 => Number(p, i)' = x.seq
      BY <1>2, <1>5, <2>2 DEF Number
    <3>4. Chain(p)'
      <4>1. Undecoded(p)' => Follows(decoded[p], frame[p].seq)'
        BY <2>2 DEF IInv, EndInv, Chain, Undecoded
      <4>2. ASSUME NEW i \in 1..Len(wire'[p]) PROVE Follows(Number(p, i - 1)', Number(p, i)')
        <5>1. CASE i \in 1..Len(wire[p])
          <6>1. Follows(Number(p, i - 1), Number(p, i))
            BY <5>1, <2>2 DEF IInv, EndInv, Chain
          <6>2. i - 1 \in 0..Len(wire[p]) /\ i \in 0..Len(wire[p])
            BY <5>1, <1>2
          <6> QED
            BY <3>2, <6>1, <6>2
        <5>2. CASE i = Len(wire[p]) + 1
          <6>1. i - 1 = Len(wire[p]) /\ i - 1 \in 0..Len(wire[p])
            BY <5>2, <1>2
          <6> QED
            BY <3>1, <3>2, <3>3, <5>2, <6>1 DEF Follows
        <5> QED
          BY <1>2, <1>5, <2>2, <5>1, <5>2
      <4>3. \A i \in 1..Len(wire'[p]) : Follows(Number(p, i - 1), Number(p, i))'
        BY <4>2 DEF Follows
      <4> QED
        BY <4>1, <4>3 DEF Chain
    <3>5. \A u \in Thread : out'[e][u] = NoFrame
      BY <1>2 DEF IInv, EndInv, TypeInv, WriterInv, x
    <3>6. encoded'[e] = Number(p, Len(wire[p]))'
      BY <1>2, <1>5, <2>2, <3>1 DEF Number
    <3>7. ChainEnd(p)'
      BY <1>1, <3>5, <3>6 DEF ChainEnd
    <3> QED
      BY <2>1, <2>2, <3>4, <3>7
  <2>3. CASE f = p /\ ~goes
    <3>1. closed[e] \/ closed[p]
      BY <2>3 DEF p
    <3>2. ChainEnd(f)'
      BY <1>1, <2>3, <3>1 DEF ChainEnd
    <3>3. Chain(f)'
      BY <1>4, <2>3, ChainFrame DEF IInv, EndInv
    <3> QED
      BY <2>1, <3>2, <3>3
  <2>4. CASE f = e
    <3>1. Chain(f)'
      BY <1>4, <2>4, ChainFrame DEF IInv, EndInv
    <3>2. out'[p] = out[p]
      BY <1>1 DEF IInv, TypeInv
    <3>3. Peer(f) = p
      BY <2>4 DEF p
    <3>4. ChainEnd(f)'
      BY <1>1, <1>4, <2>4, <3>2, <3>3, ChainEndFrame DEF IInv, EndInv
    <3> QED
      BY <2>1, <3>1, <3>4
  <2> QED
    BY <1>1, <2>2, <2>3, <2>4
<1> QED
  BY <1>7, <1>8, <1>10, <1>11, <1>12 DEF EndInv

\* AcceptConnection or RejectConnection.
LEMMA AnswerConnectionInv ==
  ASSUME IInv, NEW e \in End, NEW x \in {"accepted", "rejected"}, AnswerConnection(e, x)
  PROVE  IInv'
<1> USE DEF AnswerConnection, readers, verdict
<1>1. TypeInv'
  BY DEF IInv, TypeInv, Type, Thread, Answer
<1> SUFFICES ASSUME NEW f \in End PROVE EndInv(f)'
  BY <1>1 DEF IInv
<1>2. WriterInv(f)'
  <2>1. CASE f = e
    BY <2>1 DEF IInv, EndInv, TypeInv, WriterInv, Thread, Verdict
  <2>2. CASE f # e
    BY <2>2, WriterFrame DEF IInv, EndInv, TypeInv
  <2> QED
    BY <2>1, <2>2
<1>3. CryptoInv(f)'
  BY DEF IInv, EndInv, TypeInv, CryptoInv
<1>4. ReaderInv(f)'
  BY ReaderFrame DEF IInv, EndInv
<1>5. OneAnswer(f)'
  <2>1. Unsent(Peer(f))' => Unsent(Peer(f))
    BY Peers DEF Unsent, IInv, TypeInv
  <2> QED
    BY <2>1, AnswerFrame DEF IInv, EndInv
<1>6. ~timedOut'[f] => Chain(f)' /\ ChainEnd(f)' /\ ~lost'[f]
  BY ChainFrame, ChainEndFrame, Peers DEF IInv, EndInv
<1> QED
  BY <1>2, <1>3, <1>4, <1>5, <1>6 DEF EndInv

\* The answer is recorded once it was sent.
LEMMA RecordAnswerInv == ASSUME IInv, NEW e \in End, RecordAnswer(e) PROVE IInv'
<1> USE DEF RecordAnswer, EvaluateConnectionResult, writers, readers
<1>1. TypeInv'
  BY DEF IInv, TypeInv, Answer
<1> SUFFICES ASSUME NEW f \in End PROVE EndInv(f)'
  BY <1>1 DEF IInv
<1>2. WriterInv(f)'
  BY DEF IInv, EndInv, TypeInv, WriterInv
<1>3. CryptoInv(f)'
  BY DEF IInv, EndInv, TypeInv, CryptoInv
<1>4. ReaderInv(f)'
  BY ReaderFrame DEF IInv, EndInv, TypeInv
<1>5. OneAnswer(f)'
  <2>1. Unsent(Peer(f))' => Unsent(Peer(f))
    BY Peers DEF Unsent, IInv, TypeInv
  <2> QED
    BY <2>1, AnswerFrame DEF IInv, EndInv
<1>6. ~timedOut'[f] => Chain(f)' /\ ChainEnd(f)' /\ ~lost'[f]
  BY ChainFrame, ChainEndFrame, Peers DEF IInv, EndInv
<1> QED
  BY <1>2, <1>3, <1>4, <1>5, <1>6 DEF EndInv

\* The peer's answer is handled: there is no other one, and the channel was not encrypted.
LEMMA OnConnectionResponseInv ==
  ASSUME IInv, NEW e \in End, OnConnectionResponse(e) PROVE IInv'
<1> USE DEF OnConnectionResponse, EvaluateConnectionResult, writers
<1>1. frame[e].type \in Verdict /\ remote[e] = "none" /\ ~crypto[e]
  BY DEF IInv, EndInv, ReaderInv, OneAnswer, Held, CryptoInv
<1>2. TypeInv'
  BY <1>1 DEF IInv, TypeInv, Answer, Verdict
<1> SUFFICES ASSUME NEW f \in End PROVE EndInv(f)'
  BY <1>2 DEF IInv
<1>3. WriterInv(f)'
  BY DEF IInv, EndInv, TypeInv, WriterInv
<1>4. CryptoInv(f)'
  BY <1>1 DEF IInv, EndInv, TypeInv, CryptoInv
<1>5. reader'[e] \in {"read", "latch"} /\ (f # e => reader'[f] = reader[f])
  BY DEF IInv, TypeInv
<1>6. ReaderInv(f)'
  <2>1. crypto[f] => crypto'[f]
    BY DEF IInv, TypeInv
  <2> QED
    BY <1>5, <2>1 DEF IInv, EndInv, ReaderInv, Held
<1>7. Unsent(Peer(f))' => Unsent(Peer(f))
  BY Peers DEF Unsent, IInv, TypeInv
<1>8. OneAnswer(f)'
  <2>1. CASE f = e
    <3>1. ~Unsent(Peer(e))
      BY <1>1 DEF IInv, EndInv, OneAnswer, Held
    <3>2. \A i \in 1..Len(wire[e]) : wire[e][i].type \notin Verdict
      BY <1>1 DEF IInv, EndInv, OneAnswer, Held
    <3>3. ~Held(e)'
      BY <1>5 DEF Held
    <3> QED
      BY <1>7, <2>1, <3>1, <3>2, <3>3 DEF OneAnswer
  <2>2. CASE f # e
    BY <1>5, <1>7, <2>2, AnswerFrame DEF IInv, EndInv, TypeInv
  <2> QED
    BY <2>1, <2>2
<1>9. ~timedOut'[f] => Chain(f)' /\ ChainEnd(f)' /\ ~lost'[f]
  <2>1. Undecoded(f)' <=> Undecoded(f)
    BY <1>5 DEF Undecoded
  <2> QED
    BY <2>1, Peers DEF IInv, EndInv, Chain, ChainEnd, Number
<1> QED
  BY <1>3, <1>4, <1>6, <1>8, <1>9 DEF EndInv

\* The client is told, and the reader's latch is counted down.
LEMMA OnConnectionAcceptedInv ==
  ASSUME IInv, NEW e \in End, OnConnectionAccepted(e) PROVE IInv'
<1> USE DEF OnConnectionAccepted, writers
<1>1. TypeInv'
  BY DEF IInv, TypeInv
<1> SUFFICES ASSUME NEW f \in End PROVE EndInv(f)'
  BY <1>1 DEF IInv
<1>2. reader'[f] = reader[f] \/ (reader[f] = "latch" /\ reader'[f] = "read")
  BY DEF IInv, TypeInv
<1>3. WriterInv(f)'
  BY DEF IInv, EndInv, TypeInv, WriterInv
<1>4. CryptoInv(f)'
  BY DEF IInv, EndInv, TypeInv, CryptoInv
<1>5. ReaderInv(f)'
  BY <1>2 DEF IInv, EndInv, ReaderInv, Held
<1>6. OneAnswer(f)'
  <2>1. Unsent(Peer(f))' => Unsent(Peer(f))
    BY Peers DEF Unsent, IInv, TypeInv
  <2>2. Held(f)' <=> Held(f)
    BY <1>2 DEF Held
  <2> QED
    BY <2>1, <2>2 DEF IInv, EndInv, OneAnswer
<1>7. ~timedOut'[f] => Chain(f)' /\ ChainEnd(f)' /\ ~lost'[f]
  <2>1. Undecoded(f)' <=> Undecoded(f)
    BY <1>2 DEF Undecoded
  <2> QED
    BY <2>1, Peers DEF IInv, EndInv, Chain, ChainEnd, Number
<1> QED
  BY <1>3, <1>4, <1>5, <1>6, <1>7 DEF EndInv

-----------------------------------------------------------------------------
\* The next frame is read: the chain loses its head to the reader.
LEMMA ReadExactlyInv == ASSUME IInv, NEW e \in End, ReadExactly(e) PROVE IInv'
<1> USE DEF ReadExactly, writers, verdict
<1> DEFINE w == wire[e]
<1>1. w \in Seq(Sent) /\ w # <<>> /\ wire \in [End -> Seq(Sent)]
  BY DEF IInv, TypeInv
<1>2. /\ Head(w) \in Sent /\ Head(w) = w[1]
      /\ Tail(w) \in Seq(Sent) /\ Len(w) \in Nat \ {0}
      /\ Len(Tail(w)) = Len(w) - 1 /\ \A i \in 1..Len(Tail(w)) : Tail(w)[i] = w[i + 1]
  BY <1>1, HeadTailProperties, EmptySeq
<1>3. frame'[e] = w[1] /\ wire'[e] = Tail(w) /\ reader'[e] = "decode"
  BY <1>1, <1>2 DEF IInv, TypeInv
<1>4. Len(wire'[e]) = Len(w) - 1 /\ \A i \in 1..(Len(w) - 1) : wire'[e][i] = w[i + 1]
  BY <1>2, <1>3
<1>5. TypeInv'
  BY <1>1, <1>2 DEF IInv, TypeInv
<1> SUFFICES ASSUME NEW f \in End PROVE EndInv(f)'
  BY <1>5 DEF IInv
<1>6. WriterInv(f)' /\ CryptoInv(f)'
  BY WriterFrame, CryptoFrame DEF IInv, EndInv
<1>7. CASE f # e
  <2>1. reader'[f] = reader[f] /\ frame'[f] = frame[f] /\ wire'[f] = wire[f]
    BY <1>7 DEF IInv, TypeInv
  <2>2. ReaderInv(f)' /\ OneAnswer(f)'
    BY <2>1, ReaderFrame, AnswerFrame DEF IInv, EndInv, Unsent
  <2>3. ~timedOut'[f] => Chain(f)' /\ ChainEnd(f)' /\ ~lost'[f]
    BY <2>1, ChainFrame, ChainEndFrame DEF IInv, EndInv
  <2> QED
    BY <1>6, <2>2, <2>3 DEF EndInv
<1>8. CASE f = e
  <2>1. \A i \in 1..(Len(w) - 1) : i + 1 \in 1..Len(w)
    BY <1>2
  <2>2. 1 \in 1..Len(w) /\ w[1] # NoFrame /\ w[1] \in Sent
    BY <1>2 DEF Sent, NoFrame, Verdict
  <2>3. Undecoded(e)' /\ Held(e)' /\ ~Undecoded(e) /\ ~Held(e)
    BY <1>3 DEF Undecoded, Held
  <2>4. ReaderInv(e)'
    BY <1>3, <1>4, <2>1, <2>2 DEF IInv, EndInv, ReaderInv
  <2>5. OneAnswer(e)'
    <3>1. Unsent(Peer(e))' => Unsent(Peer(e))
      BY DEF Unsent
    <3>2. \A i \in 1..(Len(w) - 1) : i + 1 # 1
      BY <1>2
    <3>3. ASSUME w[1].type \in Verdict, NEW i \in 1..(Len(w) - 1) PROVE w[i + 1].type \notin Verdict
      BY <2>1, <2>2, <3>2, <3>3 DEF IInv, EndInv, OneAnswer
    <3>4. ASSUME NEW i \in 1..(Len(w) - 1), NEW j \in 1..(Len(w) - 1),
                 w[i + 1].type \in Verdict, w[j + 1].type \in Verdict
          PROVE  i = j
      <4>1. i + 1 = j + 1
        BY <2>1, <3>4 DEF IInv, EndInv, OneAnswer
      <4> QED
        BY <4>1, <1>2
    <3>5. ASSUME NEW i \in 1..Len(w), w[i].type \in Verdict
          PROVE  remote[e] = "none" /\ ~Unsent(Peer(e))
      BY <3>5 DEF IInv, EndInv, OneAnswer
    <3>6. Unsent(Peer(e)) => remote[e] = "none"
      BY DEF IInv, EndInv, OneAnswer
    <3> QED
      BY <1>3, <1>4, <2>1, <2>2, <2>3, <3>1, <3>3, <3>4, <3>5, <3>6 DEF OneAnswer
  <2>6. ASSUME ~timedOut[e] PROVE Chain(e)' /\ ChainEnd(e)' /\ ~lost'[e]
    <3>1. Chain(e) /\ ChainEnd(e) /\ ~lost[e]
      BY <2>6 DEF IInv, EndInv
    <3>2. \A i \in 0..(Len(w) - 1) : Number(e, i)' = Number(e, i + 1)
      BY <1>2, <1>3, <1>4, <2>3 DEF Number
    <3>3. Number(e, 0) = decoded[e] /\ Number(e, 1) = w[1].seq
      BY <2>3 DEF Number
    <3>4. Follows(decoded[e], w[1].seq)
      BY <2>2, <3>1, <3>3 DEF Chain
    <3>5. Chain(e)'
      <4>1. ASSUME NEW i \in 1..(Len(w) - 1) PROVE Follows(Number(e, i - 1)', Number(e, i)')
        <5>1. /\ i - 1 \in 0..(Len(w) - 1) /\ i \in 0..(Len(w) - 1) /\ i + 1 \in 1..Len(w)
              /\ (i - 1) + 1 = i /\ (i + 1) - 1 = i
          BY <1>2
        <5>2. Follows(Number(e, i), Number(e, i + 1))
          BY <3>1, <5>1 DEF Chain
        <5> QED
          BY <3>2, <5>1, <5>2
      <4>2. \A i \in 1..Len(wire'[e]) : Follows(Number(e, i - 1), Number(e, i))'
        BY <1>4, <4>1 DEF Follows
      <4> QED
        BY <1>3, <3>4, <4>2 DEF Chain, Follows
    <3>6. Number(e, Len(wire[e]))' = Number(e, Len(w))
      <4>1. \A i : i = Len(w) - 1 => Number(e, i)' = Number(e, Len(w))
        BY <1>2, <3>2
      <4>2. Len(wire'[e]) = Len(w) - 1
        BY <1>4
      <4>3. Number(e, Len(wire[e]))' = (IF Len(wire'[e]) > 0 THEN wire'[e][Len(wire'[e])].seq
                                        ELSE frame'[e].seq)
        BY <2>3 DEF Number
      <4> QED
        BY <1>2, <1>3, <1>4, <4>3 DEF Number
    <3>7. ChainEnd(e)'
      BY <3>1, <3>6 DEF ChainEnd
    <3> QED
      BY <3>1, <3>5, <3>7
  <2> QED
    BY <1>6, <1>8, <2>4, <2>5, <2>6 DEF EndInv
<1> QED
  BY <1>7, <1>8

\* The reader is done with the frame: it was decoded, unless the end has given up.
LEMMA ConsumedInv ==
  ASSUME IInv, NEW e \in End, NEW r \in {"read", "response", "down"},
         Undecoded(e),
         reader' = [reader EXCEPT ![e] = r],
         r = "response" => frame[e].type \in Verdict,
         UNCHANGED <<writers, frame, tryDecrypting, verdict, wire, pcp, answer, closed>>,
         decoded' \in [End -> Nat], \A f \in End \ {e} : decoded'[f] = decoded[f],
         timedOut' \in [End -> BOOLEAN], \A f \in End \ {e} : timedOut'[f] = timedOut[f],
         lost' \in [End -> BOOLEAN], \A f \in End \ {e} : lost'[f] = lost[f],
         timedOut[e] => timedOut'[e],
         ~timedOut'[e] => decoded'[e] = frame[e].seq /\ ~lost'[e],
         ~tryDecrypting[e] => crypto[e] \/ timedOut'[e]
  PROVE  IInv'
<1> USE DEF writers, verdict
<1>1. TypeInv'
  BY DEF IInv, TypeInv
<1> SUFFICES ASSUME NEW f \in End PROVE EndInv(f)'
  BY <1>1 DEF IInv
<1>2. WriterInv(f)' /\ CryptoInv(f)'
  BY WriterFrame, CryptoFrame DEF IInv, EndInv
<1>3. CASE f # e
  <2>1. reader'[f] = reader[f] /\ decoded'[f] = decoded[f] /\ timedOut'[f] = timedOut[f]
        /\ lost'[f] = lost[f]
    BY <1>3 DEF IInv, TypeInv
  <2>2. ReaderInv(f)' /\ OneAnswer(f)'
    BY <2>1, ReaderFrame, AnswerFrame DEF IInv, EndInv, Unsent
  <2>3. ~timedOut'[f] => Chain(f)' /\ ChainEnd(f)' /\ ~lost'[f]
    BY <2>1, ChainFrame, ChainEndFrame DEF IInv, EndInv
  <2> QED
    BY <1>2, <2>2, <2>3 DEF EndInv
<1>4. CASE f = e
  <2>1. reader'[e] = r /\ ~Undecoded(e)' /\ Held(e) /\ (Held(e)' => r = "response")
    BY DEF Undecoded, Held, IInv, TypeInv
  <2>2. ReaderInv(e)'
    BY <2>1 DEF IInv, EndInv, ReaderInv
  <2>3. OneAnswer(e)'
    <3>1. OneAnswer(e) /\ (Held(e)' => Held(e)) /\ UNCHANGED <<wire, frame, remote>>
      BY <2>1 DEF IInv, EndInv
    <3>2. Unsent(Peer(e))' <=> Unsent(Peer(e))
      BY DEF Unsent
    <3> QED
      BY <3>1, <3>2 DEF OneAnswer
  <2>4. ASSUME ~timedOut'[e] PROVE Chain(e)' /\ ChainEnd(e)' /\ ~lost'[e]
    <3>1. Chain(e) /\ ChainEnd(e)
      BY <2>4 DEF IInv, EndInv, TypeInv
    <3>2. \A i : Number(e, i)' = Number(e, i)
      BY <2>1, <2>4 DEF Number
    <3>3. Chain(e)'
      BY <2>1, <3>1, <3>2 DEF Chain, Follows
    <3>4. ChainEnd(e)'
      BY <2>1, <2>4, <3>1 DEF ChainEnd, Number
    <3> QED
      BY <2>4, <3>3, <3>4
  <2> QED
    BY <1>2, <1>4, <2>2, <2>3, <2>4 DEF EndInv
<1> QED
  BY <1>3, <1>4

\* On an encrypted channel the frame is the next one, or a KEEP_ALIVE in the clear.
LEMMA Readable ==
  ASSUME IInv, NEW e \in End, Undecoded(e), crypto[e]
  PROVE  /\ frame[e] \in Sent /\ decoded[e] \in Nat
         /\ frame[e].seq = 0 => frame[e].type = "keepalive"
         /\ ~timedOut[e] => Follows(decoded[e], frame[e].seq)
<1>1. frame[e] \in Sent /\ decoded[e] \in Nat /\ Held(e)
  BY DEF IInv, TypeInv, EndInv, ReaderInv, Undecoded, Held
<1>2. frame[e].type \notin Verdict
  BY <1>1 DEF IInv, EndInv, CryptoInv, OneAnswer
<1>3. frame[e].type = "payload" => frame[e].seq > 0
  BY <1>1 DEF IInv, EndInv, ReaderInv
<1>4. ~timedOut[e] => Follows(decoded[e], frame[e].seq)
  BY DEF IInv, EndInv, Chain
<1> QED
  BY <1>1, <1>2, <1>3, <1>4 DEF Sent

\* HandleData, on a channel that is encrypted and on one that is not.
LEMMA HandleDataInv == ASSUME IInv, NEW e \in End, HandleData(e) PROVE IInv'
<1> USE DEF HandleData
<1>1. /\ Undecoded(e) /\ Held(e) /\ frame[e] \in Sent /\ decoded[e] \in Nat
      /\ ~timedOut[e] => ~lost[e] /\ Follows(decoded[e], frame[e].seq)
      /\ ~crypto[e] /\ ~tryDecrypting[e] => timedOut[e]
      /\ UNCHANGED <<writers, frame, timedOut, verdict, wire, pcp, answer, closed>>
  BY DEF Undecoded, Held, IInv, TypeInv, EndInv, ReaderInv, Chain
<1>a. ASSUME Deliver(e), UNCHANGED tryDecrypting, decoded' \in [End -> Nat],
             \A f \in End \ {e} : decoded'[f] = decoded[f],
             ~timedOut[e] => decoded'[e] = frame[e].seq
      PROVE  IInv'
  <2> DEFINE r == IF frame[e].type \in Answer THEN "response" ELSE "read"
  <2>1. reader' = [reader EXCEPT ![e] = r] /\ lost' = lost
    BY <1>a DEF Deliver
  <2>2. r \in {"read", "response", "down"} /\ (r = "response" => frame[e].type \in Verdict)
    BY <1>1 DEF Sent, Answer, Verdict
  <2>3. ~tryDecrypting[e] => crypto[e] \/ timedOut'[e]
    BY <1>1
  <2>4. lost' \in [End -> BOOLEAN] /\ timedOut' \in [End -> BOOLEAN]
    BY <1>1, <2>1 DEF IInv, TypeInv
  <2> HIDE DEF r
  <2> QED
    BY <1>1, <1>a, <2>1, <2>2, <2>3, <2>4, ConsumedInv
<1>b. ASSUME timedOut[e], UNCHANGED tryDecrypting, decoded' \in [End -> Nat],
             \A f \in End \ {e} : decoded'[f] = decoded[f], Stop(e) \/ Skip(e)
      PROVE  IInv'
  <2>1. PICK r \in {"read", "down"} : reader' = [reader EXCEPT ![e] = r]
    BY <1>b DEF Stop, Skip
  <2>2. /\ lost' \in [End -> BOOLEAN] /\ timedOut' \in [End -> BOOLEAN]
        /\ \A f \in End \ {e} : lost'[f] = lost[f]
    BY <1>1, <1>b DEF IInv, TypeInv, Stop, Skip
  <2> QED
    BY <1>1, <1>b, <2>1, <2>2, ConsumedInv
<1>2. CASE crypto[e] /\ frame[e].seq > 0
  <2>1. decoded' = [decoded EXCEPT ![e] = @ + 1] /\ UNCHANGED tryDecrypting
    BY <1>2 DEF ReadEncrypted, Decoded
  <2>2. ~timedOut[e] => frame[e].seq = decoded[e] + 1
    BY <1>1, <1>2, Readable DEF Follows, Undecoded
  <2>3. decoded' \in [End -> Nat] /\ decoded'[e] = decoded[e] + 1
        /\ \A f \in End \ {e} : decoded'[f] = decoded[f]
    BY <2>1 DEF IInv, TypeInv
  <2>4. CASE Deliver(e)
    BY <2>1, <2>2, <2>3, <2>4, <1>a
  <2>5. CASE Stop(e) /\ frame[e].seq # decoded[e] + 1
    <3>1. timedOut[e]
      BY <2>2, <2>5
    <3> QED
      BY <2>1, <2>3, <2>5, <3>1, <1>b
  <2> QED
    BY <1>2, <2>4, <2>5 DEF ReadEncrypted, DecodeMessageFromPeer
<1>3. CASE crypto[e] /\ ~(frame[e].seq > 0)
  <2>1. frame[e].seq = 0
    BY <1>1, <1>3 DEF Sent
  <2>2. frame[e].type = "keepalive"
    BY <1>1, <1>3, <2>1, Readable
  <2>3. decoded' = decoded /\ UNCHANGED tryDecrypting /\ Deliver(e)
    BY <1>3, <2>1, <2>2 DEF ReadEncrypted, Decoded
  <2>4. ~timedOut[e] => decoded[e] = frame[e].seq
    BY <1>1, <2>1 DEF Follows
  <2> QED
    BY <1>a, <2>3, <2>4 DEF IInv, TypeInv
<1>4. CASE ~crypto[e] /\ frame[e].seq = 0
  <2>1. decoded' = decoded /\ UNCHANGED tryDecrypting /\ Deliver(e)
    BY <1>4 DEF ReadPlain
  <2>2. ~timedOut[e] => decoded[e] = frame[e].seq
    BY <1>1, <1>4 DEF Follows
  <2> QED
    BY <1>a, <2>1, <2>2 DEF IInv, TypeInv
<1>5. CASE ~crypto[e] /\ frame[e].seq # 0 /\ ~tryDecrypting[e]
  <2>1. decoded' = decoded /\ UNCHANGED tryDecrypting /\ Skip(e) /\ timedOut[e]
    BY <1>1, <1>5 DEF ReadPlain
  <2> QED
    BY <1>b, <2>1 DEF IInv, TypeInv
<1>6. CASE ~crypto[e] /\ frame[e].seq # 0 /\ tryDecrypting[e]
  <2> USE DEF writers, verdict
  <2>1. /\ tryDecrypting' = [tryDecrypting EXCEPT ![e] = FALSE]
        /\ reader' = [reader EXCEPT ![e] = "tryDecrypt"]
        /\ UNCHANGED <<lost, decoded>>
    BY <1>6 DEF ReadPlain
  <2>2. TypeInv'
    BY <1>1, <2>1 DEF IInv, TypeInv
  <2>3. frame[e].seq > 0
    BY <1>1, <1>6 DEF Sent
  <2>4. ASSUME NEW f \in End PROVE EndInv(f)'
    <3>1. WriterInv(f)' /\ CryptoInv(f)'
      BY <1>1, WriterFrame, CryptoFrame DEF IInv, EndInv
    <3>2. reader'[f] = reader[f] \/ (f = e /\ reader'[f] = "tryDecrypt")
      BY <2>1 DEF IInv, TypeInv
    <3>3. (Undecoded(f)' <=> Undecoded(f)) /\ (Held(f)' <=> Held(f))
      BY <1>1, <3>2 DEF Undecoded, Held
    <3>4. ReaderInv(f)'
      <4>1. CASE f = e
        <5>1. reader'[e] = "tryDecrypt"
          BY <2>1 DEF IInv, TypeInv
        <5> QED
          BY <1>1, <2>3, <3>3, <4>1, <5>1 DEF IInv, EndInv, ReaderInv
      <4>2. CASE f # e
        BY <1>1, <2>1, <4>2, ReaderFrame DEF IInv, EndInv, TypeInv
      <4> QED
        BY <4>1, <4>2
    <3>5. OneAnswer(f)'
      BY <1>1, <3>3 DEF IInv, EndInv, OneAnswer, Unsent
    <3>6. ~timedOut'[f] => Chain(f)' /\ ChainEnd(f)' /\ ~lost'[f]
      BY <1>1, <2>1, <3>3 DEF IInv, EndInv, Chain, ChainEnd, Number
    <3> QED
      BY <3>1, <3>4, <3>5, <3>6 DEF EndInv
  <2> QED
    BY <2>2, <2>4 DEF IInv
<1> QED
  BY <1>2, <1>3, <1>4, <1>5, <1>6

\* TryDecryptFrame, once the channel is encrypted: the frame is the first encrypted one.
LEMMA TryDecryptInv == ASSUME IInv, NEW e \in End, TryDecrypt(e) PROVE IInv'
<1> USE DEF TryDecrypt
<1>1. /\ Undecoded(e) /\ frame[e] \in Sent /\ decoded[e] \in Nat /\ frame[e].seq > 0
      /\ ~timedOut[e] => ~lost[e] /\ Follows(decoded[e], frame[e].seq)
      /\ UNCHANGED <<writers, frame, tryDecrypting, timedOut, verdict, wire, pcp, answer, closed>>
  BY DEF Undecoded, Held, IInv, TypeInv, EndInv, ReaderInv, Chain
<1>2. decoded' = [decoded EXCEPT ![e] = @ + 1]
  BY <1>1 DEF Decoded
<1>3. decoded' \in [End -> Nat] /\ decoded'[e] = decoded[e] + 1
      /\ \A f \in End \ {e} : decoded'[f] = decoded[f]
  BY <1>2 DEF IInv, TypeInv
<1>4. ~timedOut[e] => frame[e].seq = decoded[e] + 1
  BY <1>1 DEF Follows
<1>5. CASE Deliver(e)
  <2> DEFINE r == IF frame[e].type \in Answer THEN "response" ELSE "read"
  <2>1. reader' = [reader EXCEPT ![e] = r] /\ lost' = lost
    BY <1>5 DEF Deliver
  <2>2. r \in {"read", "response", "down"} /\ (r = "response" => frame[e].type \in Verdict)
    BY <1>1 DEF Sent, Answer, Verdict
  <2>3. lost' \in [End -> BOOLEAN] /\ timedOut' \in [End -> BOOLEAN]
    BY <1>1, <2>1 DEF IInv, TypeInv
  <2> HIDE DEF r
  <2> QED
    BY <1>1, <1>3, <1>4, <2>1, <2>2, <2>3, ConsumedInv
<1>6. CASE Skip(e) /\ frame[e].seq # decoded[e] + 1
  <2>1. reader' = [reader EXCEPT ![e] = "read"] /\ timedOut[e]
    BY <1>4, <1>6 DEF Skip
  <2>2. /\ lost' \in [End -> BOOLEAN] /\ timedOut' \in [End -> BOOLEAN]
        /\ \A f \in End \ {e} : lost'[f] = lost[f]
    BY <1>1, <1>6 DEF IInv, TypeInv, Skip
  <2> QED
    BY <1>1, <1>3, <2>1, <2>2, ConsumedInv
<1> QED
  BY <1>5, <1>6 DEF DecodeMessageFromPeer

\* TryDecryptFrame gives up: from then on nothing is claimed of this end's reader.
LEMMA TimeoutInv == ASSUME IInv, NEW e \in End, TryDecryptTimeout(e) PROVE IInv'
<1> USE DEF TryDecryptTimeout
<1>1. Undecoded(e) /\ timedOut'[e] /\ reader' = [reader EXCEPT ![e] = "read"]
  BY DEF Undecoded, Skip, IInv, TypeInv
<1>2. /\ lost' \in [End -> BOOLEAN] /\ timedOut' \in [End -> BOOLEAN] /\ decoded' \in [End -> Nat]
      /\ \A f \in End \ {e} : lost'[f] = lost[f] /\ timedOut'[f] = timedOut[f]
  BY DEF IInv, TypeInv, Skip
<1> QED
  BY <1>1, <1>2, ConsumedInv

\* The reader ends, or the channel is closed and what was on its way is dropped.
LEMMA EndOfChannelInv == ASSUME IInv, NEW e \in End, ReadFails(e) \/ Close(e) PROVE IInv'
<1>1. CASE ReadFails(e)
  <2> USE DEF ReadFails, writers, verdict
  <2>1. TypeInv'
    BY <1>1 DEF IInv, TypeInv
  <2>2. ASSUME NEW f \in End PROVE EndInv(f)'
    <3>1. reader'[f] = reader[f] \/ (reader[f] = "read" /\ reader'[f] = "down")
      BY <1>1 DEF IInv, TypeInv
    <3>2. (Undecoded(f)' <=> Undecoded(f)) /\ (Held(f)' <=> Held(f))
      BY <3>1 DEF Undecoded, Held
    <3>3. WriterInv(f)' /\ CryptoInv(f)'
      BY <1>1, WriterFrame, CryptoFrame DEF IInv, EndInv
    <3>4. ReaderInv(f)' /\ OneAnswer(f)'
      BY <1>1, <3>1, <3>2 DEF IInv, EndInv, ReaderInv, OneAnswer, Unsent
    <3>5. ~timedOut'[f] => Chain(f)' /\ ChainEnd(f)' /\ ~lost'[f]
      BY <1>1, <3>2 DEF IInv, EndInv, Chain, ChainEnd, Number
    <3> QED
      BY <3>3, <3>4, <3>5 DEF EndInv
  <2> QED
    BY <2>1, <2>2 DEF IInv
<1>2. CASE Close(e)
  <2> USE DEF Close, writers, readers, verdict
  <2>1. TypeInv'
    BY <1>2, EmptySeq DEF IInv, TypeInv
  <2>2. ASSUME NEW f \in End PROVE EndInv(f)'
    <3>1. WriterInv(f)' /\ CryptoInv(f)'
      BY <1>2, WriterFrame, CryptoFrame DEF IInv, EndInv
    <3>2. wire'[f] = wire[f] \/ (f = e /\ wire'[f] = <<>> /\ closed'[f])
      BY <1>2 DEF IInv, TypeInv
    <3>3. CASE wire'[f] = wire[f]
      <4>1. ReaderInv(f)' /\ OneAnswer(f)'
        BY <1>2, <3>3, ReaderFrame, AnswerFrame DEF IInv, EndInv, Unsent
      <4>2. closed[f] => closed'[f] /\ (closed[Peer(f)] => closed'[Peer(f)])
        BY <1>2, Peers DEF IInv, TypeInv
      <4>3. closed[Peer(f)] => closed'[Peer(f)]
        BY <1>2, Peers DEF IInv, TypeInv
      <4>4. ~timedOut'[f] => Chain(f)' /\ ChainEnd(f)' /\ ~lost'[f]
        BY <1>2, <3>3, <4>2, <4>3, ChainFrame, ChainEndFrame DEF IInv, EndInv
      <4> QED
        BY <3>1, <4>1, <4>4 DEF EndInv
    <3>4. CASE f = e /\ wire'[f] = <<>> /\ closed'[f]
      <4>1. ReaderInv(f)' /\ OneAnswer(f)'
        BY <1>2, <3>4, EmptySeq DEF IInv, EndInv, ReaderInv, OneAnswer, Unsent, Held
      <4>2. ~timedOut'[f] => Chain(f)' /\ ChainEnd(f)' /\ ~lost'[f]
        BY <1>2, <3>4, EmptySeq DEF IInv, EndInv, Chain, ChainEnd, Undecoded
      <4> QED
        BY <3>1, <4>1, <4>2 DEF EndInv
    <3> QED
      BY <3>2, <3>3, <3>4
  <2> QED
    BY <2>1, <2>2 DEF IInv
<1> QED
  BY <1>1, <1>2

\* Every step of every thread at either end preserves the invariant.
LEMMA NextInv == IInv /\ [Next]_vars => IInv'
<1> SUFFICES ASSUME IInv, [Next]_vars PROVE IInv'
  OBVIOUS
<1>1. ASSUME NEW e \in End, Write(e) \/ PcpHandlerThread(e) \/ Read(e) PROVE IInv'
  BY <1>1, EncodeInv, WriteOutInv, RecordAnswerInv, OnConnectionResponseInv,
     OnConnectionAcceptedInv, ReadExactlyInv, HandleDataInv, TryDecryptInv, EndOfChannelInv
     DEF Write, PcpHandlerThread, Read
<1>2. CASE UNCHANGED vars
  BY <1>2 DEF vars, writers, readers, verdict, IInv, TypeInv, EndInv, WriterInv, CryptoInv,
              ReaderInv, OneAnswer, Unsent, Held, Undecoded, Chain, ChainEnd, Number
<1> QED
  BY <1>1, <1>2, SendInv, AnswerConnectionInv, TimeoutInv, EndOfChannelInv DEF Next

\* The inductive invariant holds in every reachable state.
THEOREM Invariance == Spec => []IInv
BY InitInv, NextInv, PTL DEF Spec

\* However many frames the threads of both ends write, and whenever each end changes over to
\* encryption, no reader refuses or skips a frame before its wait for encryption times out.
THEOREM NothingRefused == Spec => []NoFrameRefused
<1>1. IInv => NoFrameRefused
  BY DEF IInv, EndInv, NoFrameRefused
<1> QED
  BY <1>1, Invariance, PTL
=============================================================================
