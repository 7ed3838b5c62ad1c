-------------------------- MODULE EndpointChannel --------------------------
(***************************************************************************)
(* The channel of a new connection (base_endpoint_channel.cc) at both of   *)
(* its ends, while the connection is accepted and the two ends change over *)
(* to encryption, each at a moment of its own.                             *)
(*                                                                         *)
(* At each end three threads write (the PCP handler thread that answers,   *)
(* the keep-alive worker and a payload sender) and one reads; the PCP      *)
(* handler thread alone turns encryption on.  A frame is its type and the  *)
(* message number it was encrypted with, 0 for a frame in the clear.       *)
(* Pause(), Resume() and DisableEncryption(), which only an upgrade calls, *)
(* are in BwuManager; the rest of a connection's life is in                *)
(* EndpointLifecycle.                                                      *)
(***************************************************************************)
EXTENDS Integers, Sequences

CONSTANTS
  MaxKeepAlive,  \* bound on the KEEP_ALIVE frames each end sends
  MaxPayload     \* bound on the payload frames each end sends

ASSUME ChannelAssumption == MaxKeepAlive \in Nat /\ MaxPayload \in Nat

End == {"a", "b"}
Peer(e) == IF e = "a" THEN "b" ELSE "a"

Thread == {"pcp", "keepalive", "payload"}
Answer == {"none", "accepted", "rejected"}
Type   == Answer \cup {"keepalive", "payload"}
NoFrame == [type |-> "none", seq |-> 0]

VARIABLES
  crypto,    \* crypto_context_ is set
  encoded,   \* messages the context has encoded
  decoded,   \* messages the context has decoded
  wire,      \* frames on their way to an end
  writing,   \* the frame a thread wants to write: it waits for writer_mutex_
  out,       \* the frame a thread has encoded: it holds writer_mutex_
  left,      \* how many more frames of a kind an end may send
  pcp,       \* where the PCP handler thread is
  answer,    \* what the client answers
  local,     \* the answer, once it is recorded
  remote,    \* the peer's answer, once it is handled
  connected, \* OnConnectionAccepted was called
  reader,    \* where the reader is
  frame,     \* the frame it holds
  tryDecrypting,
  closed,
  timedOut,  \* TryDecryptFrame gave up
  lost       \* the reader skipped a frame, or stopped at one it could not read

writers == <<encoded, writing, out, left>>
readers == <<decoded, reader, frame, tryDecrypting, timedOut, lost>>
verdict == <<crypto, local, remote, connected>>
vars == <<writers, readers, verdict, wire, pcp, answer, closed>>

Init ==
  /\ crypto = [e \in End |-> FALSE]
  /\ encoded = [e \in End |-> 0] /\ decoded = [e \in End |-> 0]
  /\ wire = [e \in End |-> <<>>]
  /\ writing = [e \in End |-> [t \in Thread |-> "none"]]
  /\ out = [e \in End |-> [t \in Thread |-> NoFrame]]
  /\ left = [e \in End |-> [keepalive |-> MaxKeepAlive, payload |-> MaxPayload]]
  /\ pcp = [e \in End |-> "idle"] /\ answer = [e \in End |-> "none"]
  /\ local = [e \in End |-> "none"] /\ remote = [e \in End |-> "none"]
  /\ connected = [e \in End |-> FALSE]
  /\ reader = [e \in End |-> "read"] /\ frame = [e \in End |-> NoFrame]
  /\ tryDecrypting = [e \in End |-> TRUE]
  /\ closed = [e \in End |-> FALSE]
  /\ timedOut = [e \in End |-> FALSE] /\ lost = [e \in End |-> FALSE]

-----------------------------------------------------------------------------
(* Writing *)

\* HandleKeepAlive, and a payload of a client that was told of the connection.
Send(e, t) ==
  /\ t # "pcp" /\ writing[e][t] = "none" /\ out[e][t] = NoFrame
  /\ ~closed[e]
  /\ t = "payload" => connected[e]
  /\ left[e][t] > 0
  /\ left' = [left EXCEPT ![e][t] = @ - 1]
  /\ writing' = [writing EXCEPT ![e][t] = t]
  /\ UNCHANGED <<encoded, out, readers, verdict, wire, pcp, answer, closed>>

EncodeMessageToPeer(e, t) ==
  /\ encoded' = IF crypto[e] THEN [encoded EXCEPT ![e] = @ + 1] ELSE encoded
  /\ out' = [out EXCEPT ![e][t] = [type |-> writing[e][t],
                                   seq |-> IF crypto[e] THEN encoded'[e] ELSE 0]]
  /\ writing' = [writing EXCEPT ![e][t] = "none"]
  /\ UNCHANGED <<left, readers, verdict, wire, pcp, answer, closed>>

\* Mutant: the message is encoded before the writer's mutex is taken.
EncodeMut(e, t) ==
  /\ writing[e][t] # "none"
  /\ EncodeMessageToPeer(e, t)

\* Write() takes writer_mutex_ and keeps it, and crypto_mutex_ for the encoding alone.
Encode(e, t) ==
  /\ writing[e][t] # "none"
  /\ \A u \in Thread : out[e][u] = NoFrame
  /\ EncodeMessageToPeer(e, t)

\* The frame goes out, unless the channel is closed; that the peer has closed it is noticed
\* now or later.
WriteOut(e, t, ok) ==
  /\ out[e][t] # NoFrame
  /\ IF ok THEN ~closed[e] ELSE closed[e] \/ closed[Peer(e)]
  /\ out' = [out EXCEPT ![e][t] = NoFrame]
  /\ wire' = IF ok /\ ~closed[Peer(e)] THEN [wire EXCEPT ![Peer(e)] = Append(@, out[e][t])]
             ELSE wire
  /\ pcp' = IF t = "pcp" THEN [pcp EXCEPT ![e] = IF ok THEN "answered" ELSE "idle"] ELSE pcp
  /\ UNCHANGED <<encoded, writing, left, readers, verdict, answer, closed>>

-----------------------------------------------------------------------------
(* The PCP handler thread *)

\* AcceptConnection or RejectConnection: the answer is sent before it is recorded.
AnswerConnection(e, x) ==
  /\ pcp[e] = "idle" /\ answer[e] = "none" /\ ~closed[e]
  /\ pcp' = [pcp EXCEPT ![e] = "writing"]
  /\ answer' = [answer EXCEPT ![e] = x]
  /\ writing' = [writing EXCEPT ![e]["pcp"] = x]
  /\ UNCHANGED <<encoded, out, left, readers, verdict, wire, closed>>

\* Once both have accepted, the channel is encrypted and then the client is told.  After a
\* rejection the endpoint is discarded, now or by an alarm, which closes the channel.
EvaluateConnectionResult(e) ==
  LET accepted == local'[e] = "accepted" /\ remote'[e] = "accepted"
  IN /\ crypto' = [crypto EXCEPT ![e] = @ \/ accepted]
     /\ pcp' = [pcp EXCEPT ![e] = IF accepted THEN "announce" ELSE "idle"]

RecordAnswer(e) ==
  /\ pcp[e] = "answered"
  /\ local' = [local EXCEPT ![e] = answer[e]]
  /\ remote' = remote
  /\ EvaluateConnectionResult(e)
  /\ UNCHANGED <<writers, readers, connected, wire, answer, closed>>

\* Mutant: the result is evaluated only where the client answers.
OnConnectionResponseMut(e) ==
  /\ pcp[e] = "idle" /\ reader[e] = "response"
  /\ remote' = [remote EXCEPT ![e] = frame[e].type]
  /\ reader' = [reader EXCEPT ![e] = "read"]
  /\ UNCHANGED <<writers, decoded, frame, tryDecrypting, timedOut, lost, crypto, local, connected,
                 wire, pcp, answer, closed>>

\* OnIncomingFrame: the reader waits until its job on this thread is done.
OnConnectionResponse(e) ==
  /\ pcp[e] = "idle" /\ reader[e] = "response"
  /\ remote' = [remote EXCEPT ![e] = frame[e].type]
  /\ local' = local
  /\ EvaluateConnectionResult(e)
  /\ reader' = [reader EXCEPT ![e] = IF pcp'[e] = "announce" THEN "latch" ELSE "read"]
  /\ UNCHANGED <<writers, decoded, frame, tryDecrypting, timedOut, lost, connected, wire, answer,
                 closed>>

OnConnectionAccepted(e) ==
  /\ pcp[e] = "announce"
  /\ connected' = [connected EXCEPT ![e] = TRUE]
  /\ pcp' = [pcp EXCEPT ![e] = "idle"]
  /\ reader' = [reader EXCEPT ![e] = IF @ = "latch" THEN "read" ELSE @]
  /\ UNCHANGED <<writers, decoded, frame, tryDecrypting, timedOut, lost, crypto, local, remote,
                 wire, answer, closed>>

-----------------------------------------------------------------------------
(* Reading *)

ReadExactly(e) ==
  /\ reader[e] = "read" /\ ~closed[e] /\ wire[e] # <<>>
  /\ frame' = [frame EXCEPT ![e] = Head(wire[e])]
  /\ wire' = [wire EXCEPT ![e] = Tail(@)]
  /\ reader' = [reader EXCEPT ![e] = "decode"]
  /\ UNCHANGED <<writers, decoded, tryDecrypting, timedOut, lost, verdict, pcp, answer, closed>>

\* The channel is closed, here or by the peer.
ReadFails(e) ==
  /\ reader[e] = "read"
  /\ closed[e] \/ (closed[Peer(e)] /\ wire[e] = <<>>)
  /\ reader' = [reader EXCEPT ![e] = "down"]
  /\ UNCHANGED <<writers, decoded, frame, tryDecrypting, timedOut, lost, verdict, wire, pcp,
                 answer, closed>>

\* A frame goes to its processor.
Deliver(e) ==
  /\ reader' = [reader EXCEPT ![e] = IF frame[e].type \in Answer THEN "response" ELSE "read"]
  /\ lost' = lost

\* A frame in the clear cannot be decoded, nor one that is not next in order.
DecodeMessageFromPeer(e) == frame[e].seq = decoded[e] + 1
Decoded(e) == decoded' = IF frame[e].seq > 0 THEN [decoded EXCEPT ![e] = @ + 1] ELSE decoded

\* An error in the channel: the loop finds the same medium again and the worker goes down.
Stop(e) ==
  /\ reader' = [reader EXCEPT ![e] = "down"]
  /\ lost' = [lost EXCEPT ![e] = TRUE]

Skip(e) ==
  /\ reader' = [reader EXCEPT ![e] = "read"]
  /\ lost' = [lost EXCEPT ![e] = TRUE]

\* The end of Read() on an encrypted channel: a KEEP_ALIVE in the clear is let through.
ReadEncrypted(e) ==
  /\ Decoded(e)
  /\ IF DecodeMessageFromPeer(e) \/ (frame[e].seq = 0 /\ frame[e].type = "keepalive")
     THEN Deliver(e) ELSE Stop(e)
  /\ UNCHANGED tryDecrypting

\* HandleData when the channel was not encrypted: the first frame that does not parse may be
\* an encrypted one.
ReadPlain(e) ==
  /\ IF frame[e].seq = 0 THEN Deliver(e) /\ UNCHANGED tryDecrypting
     ELSE IF tryDecrypting[e]
     THEN /\ tryDecrypting' = [tryDecrypting EXCEPT ![e] = FALSE]
          /\ reader' = [reader EXCEPT ![e] = "tryDecrypt"]
          /\ lost' = lost
     ELSE Skip(e) /\ UNCHANGED tryDecrypting
  /\ UNCHANGED decoded

HandleData(e) ==
  /\ reader[e] = "decode"
  /\ IF crypto[e] THEN ReadEncrypted(e) ELSE ReadPlain(e)
  /\ UNCHANGED <<writers, frame, timedOut, verdict, wire, pcp, answer, closed>>

\* TryDecryptFrame asks every millisecond until the channel is encrypted.
TryDecrypt(e) ==
  /\ reader[e] = "tryDecrypt" /\ crypto[e]
  /\ Decoded(e)
  /\ IF DecodeMessageFromPeer(e) THEN Deliver(e) ELSE Skip(e)
  /\ UNCHANGED <<writers, frame, tryDecrypting, timedOut, verdict, wire, pcp, answer, closed>>

\* kDecryptRetryTimeout
TryDecryptTimeout(e) ==
  /\ reader[e] = "tryDecrypt" /\ ~crypto[e]
  /\ timedOut' = [timedOut EXCEPT ![e] = TRUE]
  /\ Skip(e)
  /\ UNCHANGED <<writers, decoded, frame, tryDecrypting, verdict, wire, pcp, answer, closed>>

-----------------------------------------------------------------------------
\* The endpoint is discarded, for whatever reason; a worker that goes down discards it too.
Close(e) ==
  /\ ~closed[e]
  /\ closed' = [closed EXCEPT ![e] = TRUE]
  /\ wire' = [wire EXCEPT ![e] = <<>>]
  /\ UNCHANGED <<writers, readers, verdict, pcp, answer>>

Write(e) == \E t \in Thread : Encode(e, t) \/ \E ok \in BOOLEAN : WriteOut(e, t, ok)

PcpHandlerThread(e) == RecordAnswer(e) \/ OnConnectionResponse(e) \/ OnConnectionAccepted(e)

Read(e) == ReadExactly(e) \/ ReadFails(e) \/ HandleData(e) \/ TryDecrypt(e)

Next ==
  \E e \in End :
    \/ \E t \in Thread : Send(e, t)
    \/ \E x \in {"accepted", "rejected"} : AnswerConnection(e, x)
    \/ Write(e) \/ PcpHandlerThread(e) \/ Read(e)
    \/ TryDecryptTimeout(e)
    \/ Close(e)

\* Every thread goes on; a thread that waits for writer_mutex_ gets it once the others, which
\* write a bounded number of frames, are done.
Fairness ==
  \A e \in End :
    WF_vars(PcpHandlerThread(e)) /\ WF_vars(Read(e)) /\ WF_vars(Write(e))

Spec == Init /\ [][Next]_vars /\ Fairness

-----------------------------------------------------------------------------
(* Properties *)

\* The two ends change over at different moments, and each meets frames of the other kind: a
\* KEEP_ALIVE in the clear that was sent before, and encrypted frames that arrive before its
\* own EnableEncryption().  No frame is refused or skipped for it, and messages are decoded
\* in the order they were encoded, whatever threads write, unless the wait for encryption
\* takes longer than kDecryptRetryTimeout.
NoFrameRefused == \A e \in End : lost[e] => timedOut[e]

\* When both clients accept, both are told of the connection, or the channel is closed: no
\* reader waits for a PCP handler thread that waits for a frame, and none gives up on the
\* frame that carries the answer.
BothConnect ==
  (\A e \in End : answer[e] = "accepted")
    ~> (\A e \in End : connected[e]) \/ (\E e \in End : closed[e])
=============================================================================
