----------------------------- MODULE BwuManager -----------------------------
(***************************************************************************)
(* The bandwidth-upgrade protocol between two connected devices: both move *)
(* from the channel they are connected over ("old") to a faster one        *)
(* ("new").  The same UKEY2 context, hence the same sequence numbers,      *)
(* encrypts both channels, so that nothing may be written on the new       *)
(* channel while anything is still to be read on the old one.  Each side   *)
(* replaces its channel by the new one, paused, says LAST_WRITE on the old *)
(* one, answers the peer's LAST_WRITE by SAFE_TO_CLOSE, and on the peer's  *)
(* SAFE_TO_CLOSE closes the old channel and resumes the new one.           *)
(*                                                                         *)
(* Threads of a device: the BwuManager thread (a queue of jobs), the       *)
(* endpoint's reader, which hands BWU frames to it without waiting, one    *)
(* writer (a payload or keep-alive thread), the EndpointManager thread.    *)
(***************************************************************************)
EXTENDS Naturals, Sequences, FiniteSets

CONSTANTS
  LateWrites,   \* may a writer that fetched the old channel write on it after
                \* it was replaced
  Faults,       \* may channels break, waits time out, the client disconnect, a
                \* connection over Wi-Fi LAN forbid an upgrade while one is in progress
  WaitsForAck,  \* does the responder wait for CLIENT_INTRODUCTION_ACK
  MaxTries,     \* bound on the calls to InitiateBwuForEndpoint
  MaxData       \* bound on the payload frames each device writes

ASSUME BwuAssumption ==
  /\ LateWrites \in BOOLEAN /\ Faults \in BOOLEAN /\ WaitsForAck \in BOOLEAN
  /\ MaxTries \in Nat /\ MaxData \in Nat

Device  == {"a", "b"}
Peer(d) == CHOOSE p \in Device : p # d
Channel == {"old", "new"}

VARIABLES
  wire,      \* wire[c][d]: the frames on their way to d on channel c
  shut,      \* the ends of channels, <<c, d>>, that are closed
  enc, dec,  \* the sequence numbers of each device's UKEY2 context
  plain,     \* devices that have disabled the encryption of their old channel
  intro,     \* the new socket: none, connected, posted, acked, dead (one at most)
  dialer,    \* the device that connected it
  active,    \* the ECM's channel for the endpoint, none once it is removed
  paused,    \* devices whose new channel is paused
  prev,      \* previous_endpoint_channels_: none, a null entry, the old channel
  upgraded,  \* successfully_upgraded_endpoints_
  progress,  \* in_progress_upgrades_
  bwu, bwuQ, \* BwuManager thread: where it is, its queue
  reader,    \* the channel the reader reads
  writer,    \* the channel the writer has fetched
  sent, got, \* payload frames written and received
  tries      \* calls to InitiateBwuForEndpoint

net    == <<wire, shut, enc, plain, intro, dialer>>
mgr    == <<prev, upgraded, progress>>
data   == <<sent, got>>
vars   == <<net, dec, active, paused, mgr, bwu, bwuQ, reader, writer, data, tries>>

Kinds == {"path", "fail", "lastWrite", "safeToClose", "disconnect", "data"}

TypeOK ==
  /\ \A c \in Channel, d \in Device :
       \A i \in 1..Len(wire[c][d]) : wire[c][d][i] \in [k : Kinds, s : Nat]
  /\ shut \subseteq Channel \X Device
  /\ enc \in [Device -> Nat] /\ dec \in [Device -> Nat]
  /\ plain \subseteq Device /\ paused \subseteq Device
  /\ intro \in {"none", "connected", "posted", "acked", "dead"}
  /\ dialer \in Device \cup {"none"}
  /\ active \in [Device -> Channel \cup {"none"}]
  /\ prev \in [Device -> {"none", "null", "old"}]
  /\ upgraded \subseteq Device /\ progress \subseteq Device
  /\ bwu \in [Device -> {"idle", "awaitAck", "lastWrite", "draining", "crashed"}]
  /\ reader \in [Device -> Channel \cup {"gone"}]
  /\ writer \in [Device -> Channel \cup {"idle", "over"}]
  /\ sent \in [Device -> 0..MaxData] /\ got \in [Device -> 0..MaxData]
  /\ tries \in 0..MaxTries

Init ==
  /\ wire = [c \in Channel |-> [d \in Device |-> <<>>]]
  /\ shut = {} /\ plain = {} /\ intro = "none" /\ dialer = "none"
  /\ enc = [d \in Device |-> 0] /\ dec = enc
  /\ active = [d \in Device |-> "old"] /\ paused = {}
  /\ prev = [d \in Device |-> "none"] /\ upgraded = {} /\ progress = {}
  /\ bwu = [d \in Device |-> "idle"] /\ bwuQ = [d \in Device |-> <<>>]
  /\ reader = [d \in Device |-> "old"] /\ writer = [d \in Device |-> "idle"]
  /\ sent = enc /\ got = enc /\ tries = 0

-----------------------------------------------------------------------------
(* BaseEndpointChannel.                                                    *)

Closed(c, d) == <<c, d>> \in shut

\* d's frame goes out on c, s being its sequence number, 0 if not encrypted; ends
\* are the ends closed by the same step.
Send(d, c, kind, s, ends) ==
  /\ ~Closed(c, d)
  /\ enc' = [enc EXCEPT ![d] = IF s = 0 THEN @ ELSE s]
  /\ wire' = [wire EXCEPT ![c][Peer(d)] =
                IF Closed(c, Peer(d)) THEN @ ELSE Append(@, [k |-> kind, s |-> s])]
  /\ shut' = shut \cup ends

\* The sending fails, d's end or the peer's being closed: the sequence number is
\* spent all the same.
SendFails(d, c, s, ends) ==
  /\ Closed(c, d) \/ Closed(c, Peer(d))
  /\ enc' = [enc EXCEPT ![d] = IF s = 0 THEN @ ELSE s]
  /\ shut' = shut \cup ends
  /\ UNCHANGED wire

\* Write: the frame is encrypted, then sent, under writer_mutex_.
EncodeMessageToPeer(d, c) == IF c = "old" /\ d \in plain THEN 0 ELSE enc[d] + 1

Write(d, c, kind, ends) == Send(d, c, kind, EncodeMessageToPeer(d, c), ends)
WriteFails(d, c, ends)  == SendFails(d, c, EncodeMessageToPeer(d, c), ends)

\* BlockUntilUnpaused: only the new channel is ever paused.
Blocked(d, c) == c = "new" /\ d \in paused

\* A read by d fails as soon as either end is closed, also with frames unread: so
\* do Bluetooth sockets.
ReadBroken(d, c) == Closed(c, d) \/ Closed(c, Peer(d))

-----------------------------------------------------------------------------
(* Jobs of the BwuManager thread.                                          *)

NextJob(d, kind) == bwu[d] = "idle" /\ bwuQ[d] # <<>> /\ Head(bwuQ[d]) = kind

Post(d, kind)  == bwuQ' = [bwuQ EXCEPT ![d] = Append(@, kind)]
JobDone(d)     == bwuQ' = [bwuQ EXCEPT ![d] = Tail(@)]

\* The client, or the PCP handler when a connection is accepted.
InitiateBwuForEndpoint(d) ==
  /\ tries < MaxTries /\ tries' = tries + 1
  /\ Post(d, "init")
  /\ UNCHANGED <<net, dec, active, paused, mgr, bwu, reader, writer, data>>

\* bwu-init: ignored during an upgrade, without a channel, when the endpoint is on
\* the medium already, and when no medium can be set up (a later retry is another
\* call).
Initiate(d) ==
  /\ NextJob(d, "init") /\ JobDone(d)
  /\ \/ UNCHANGED <<wire, enc, shut, progress>>
     \/ /\ d \notin progress /\ active[d] = "old"
        /\ \/ Write(d, "old", "path", {}) /\ progress' = progress \cup {d}
           \/ WriteFails(d, "old", {}) /\ UNCHANGED progress
  /\ UNCHANGED <<plain, intro, dialer, dec, active, paused, prev, upgraded, bwu, reader,
                 writer, data, tries>>

\* RunUpgradeFailedProtocol, ends being the ends of the new socket to close.
RunUpgradeFailedProtocol(d, ends) ==
  \/ /\ active[d] = "none"
     /\ shut' = shut \cup ends
     /\ UNCHANGED <<wire, enc, progress>>
  \/ /\ active[d] # "none" /\ ~Blocked(d, active[d])
     /\ \/ Write(d, active[d], "fail", ends) /\ progress' = progress \ {d}
        \/ WriteFails(d, active[d], ends \cup {<<active[d], d>>}) /\ UNCHANGED progress

\* Mutant: the new channel is not paused.
RunUpgradeProtocolUnpaused(d) ==
  \/ /\ active[d] = "none"
     /\ shut' = shut \cup {<<"new", d>>}
     /\ bwu' = [bwu EXCEPT ![d] = "idle"]
     /\ UNCHANGED <<active, paused>>
  \/ /\ active[d] # "none"
     /\ LateWrites \/ writer[d] # "old"
     /\ active' = [active EXCEPT ![d] = "new"]
     /\ bwu' = [bwu EXCEPT ![d] = "lastWrite"]
     /\ UNCHANGED <<shut, paused>>

\* The first half of RunUpgradeProtocol: the new channel, paused, replaces the old.
RunUpgradeProtocol(d) ==
  \/ /\ active[d] = "none"
     /\ shut' = shut \cup {<<"new", d>>}
     /\ bwu' = [bwu EXCEPT ![d] = "idle"]
     /\ UNCHANGED <<active, paused>>
  \/ /\ active[d] # "none"
     /\ LateWrites \/ writer[d] # "old"
     /\ paused' = paused \cup {d}
     /\ active' = [active EXCEPT ![d] = "new"]
     /\ bwu' = [bwu EXCEPT ![d] = "lastWrite"]
     /\ UNCHANGED shut

\* UPGRADE_PATH_AVAILABLE while we are upgrading ourselves: everything is closed.
DuplicatePath(d) ==
  /\ NextJob(d, "path") /\ JobDone(d) /\ d \in progress
  /\ prev' = [prev EXCEPT ![d] = "none"]
  /\ shut' = shut \cup {<<c, d>> : c \in {active[d], prev[d]} \cap Channel}
  /\ paused' = IF active[d] = "new" THEN paused \ {d} ELSE paused
  /\ UNCHANGED <<wire, enc, plain, intro, dialer, dec, active, upgraded, progress, bwu, reader,
                 writer, data, tries>>

\* Otherwise the responder connects and introduces itself, or fails to.  The medium may be
\* refused, for the sake of a Wi-Fi LAN connection, before the upgrade in progress is noticed.
ProcessBwuPathAvailable(d) ==
  /\ NextJob(d, "path") /\ JobDone(d)
  /\ \/ /\ d \notin progress /\ active[d] # "none" /\ intro = "none"
        /\ intro' = "connected" /\ dialer' = d
        /\ bwu' = [bwu EXCEPT ![d] = "awaitAck"]
        /\ UNCHANGED <<wire, enc, shut, progress>>
     \/ /\ d \notin progress \/ Faults
        /\ RunUpgradeFailedProtocol(d, {})
        /\ UNCHANGED <<intro, dialer, bwu>>
  /\ UNCHANGED <<plain, dec, active, paused, prev, upgraded, reader, writer, data, tries>>

\* The initiator's accept thread posts the new socket.
OnIncomingConnection(d) ==
  /\ intro = "connected" /\ dialer = Peer(d)
  /\ intro' = "posted"
  /\ Post(d, "incoming")
  /\ UNCHANGED <<wire, shut, enc, plain, dialer, dec, active, paused, mgr, bwu, reader, writer,
                 data, tries>>

\* ReadClientIntroductionFrame: the responder has given up, or the alarm closes the
\* socket.
IntroductionFails(d) == Faults \/ Closed("new", Peer(d))

\* bwu-on-incoming-connection: reads the introduction and acknowledges it; an
\* acknowledged socket is dropped if the upgrade is no longer in progress.
ReadClientIntroduction(d) ==
  /\ NextJob(d, "incoming") /\ JobDone(d)
  /\ \/ /\ IntroductionFails(d)
        /\ shut' = shut \cup {<<"new", d>>}
        /\ UNCHANGED <<intro, active, paused, bwu>>
     \/ /\ intro' = IF intro = "posted" THEN "acked" ELSE intro
        /\ \/ d \in progress /\ RunUpgradeProtocol(d)
           \/ /\ d \notin progress
              /\ shut' = shut \cup {<<"new", d>>}
              /\ UNCHANGED <<active, paused, bwu>>
  /\ UNCHANGED <<wire, enc, plain, dialer, dec, mgr, reader, writer, data, tries>>

\* The responder has read the acknowledgement, or does not wait for it.
ReadClientIntroductionAck(d) ==
  /\ bwu[d] = "awaitAck"
  /\ intro = "acked" \/ ~WaitsForAck
  /\ progress' = progress \cup {d}
  /\ RunUpgradeProtocol(d)
  /\ UNCHANGED <<wire, enc, plain, intro, dialer, dec, prev, upgraded, bwuQ, reader, writer, data,
                 tries>>

\* It waits in vain: a timeout, or the initiator has closed its end.
AckFails(d) ==
  /\ bwu[d] = "awaitAck" /\ WaitsForAck
  /\ Faults \/ Closed("new", Peer(d))
  /\ intro' = "dead"
  /\ bwu' = [bwu EXCEPT ![d] = "idle"]
  /\ RunUpgradeFailedProtocol(d, {<<"new", d>>})
  /\ UNCHANGED <<plain, dialer, dec, active, paused, prev, upgraded, bwuQ, reader, writer, data,
                 tries>>

\* ProcessUpgradeFailureEvent: the next medium is tried at once or after a delay.
ProcessUpgradeFailure(d) ==
  /\ NextJob(d, "fail")
  /\ progress' = progress \ {d}
  /\ \/ JobDone(d) /\ UNCHANGED tries
     \/ /\ tries < MaxTries /\ tries' = tries + 1
        /\ bwuQ' = [bwuQ EXCEPT ![d] = Append(Tail(@), "init")]
  /\ UNCHANGED <<net, dec, active, paused, prev, upgraded, bwu, reader, writer, data>>

-----------------------------------------------------------------------------
(* Draining the old channel.                                               *)

\* The second half of RunUpgradeProtocol: LAST_WRITE goes out, then the old channel
\* is stored; emplace does not overwrite an entry that is there.  If LAST_WRITE
\* has come already, it is processed before any other job.
WriteLastWrite(d) ==
  /\ bwu[d] = "lastWrite"
  /\ bwu' = [bwu EXCEPT ![d] = "idle"]
  /\ \/ /\ WriteFails(d, "old", {})
        /\ UNCHANGED <<prev, upgraded, bwuQ>>
     \/ /\ Write(d, "old", "lastWrite", {})
        /\ prev' = [prev EXCEPT ![d] = IF @ = "none" THEN "old" ELSE @]
        /\ upgraded' = upgraded \ {d}
        /\ bwuQ' = [bwuQ EXCEPT ![d] =
                      IF d \in upgraded THEN <<"lastWrite">> \o @ ELSE @]
  /\ UNCHANGED <<plain, intro, dialer, dec, active, paused, progress, reader, writer,
                 data, tries>>

\* Mutant: the old channel is closed as soon as SAFE_TO_CLOSE is written.
LastWriteCloses(d) ==
  /\ NextJob(d, "lastWrite") /\ JobDone(d)
  /\ \/ /\ prev[d] # "old"
        /\ prev' = [prev EXCEPT ![d] = "null"]
        /\ upgraded' = upgraded \cup {d}
        /\ UNCHANGED <<wire, enc, shut, paused>>
     \/ /\ prev[d] = "old"
        /\ prev' = [prev EXCEPT ![d] = "none"]
        /\ \/ Write(d, "old", "safeToClose", {<<"old", d>>})
           \/ WriteFails(d, "old", {<<"old", d>>})
        /\ paused' = paused \ {d}
        /\ UNCHANGED upgraded
  /\ UNCHANGED <<plain, intro, dialer, dec, active, progress, bwu, reader, writer, data,
                 tries>>

\* Mutant: the peer's LAST_WRITE is taken for its leave to close.
LastWriteDrains(d) ==
  /\ NextJob(d, "lastWrite") /\ JobDone(d)
  /\ \/ /\ prev[d] # "old"
        /\ prev' = [prev EXCEPT ![d] = "null"]
        /\ upgraded' = upgraded \cup {d}
        /\ UNCHANGED <<wire, enc, shut, plain, bwu>>
     \/ /\ prev[d] = "old"
        /\ prev' = [prev EXCEPT ![d] = "none"]
        /\ plain' = plain \cup {d}
        /\ bwu' = [bwu EXCEPT ![d] = "draining"]
        /\ Send(d, "old", "disconnect", 0, {}) \/ SendFails(d, "old", 0, {})
        /\ UNCHANGED upgraded
  /\ UNCHANGED <<intro, dialer, dec, active, paused, progress, reader, writer, data, tries>>

\* ProcessLastWriteToPriorChannelEvent: looking up an unknown endpoint makes a null
\* entry; for a known one SAFE_TO_CLOSE is written.
ProcessLastWriteToPriorChannel(d) ==
  /\ NextJob(d, "lastWrite") /\ JobDone(d)
  /\ \/ /\ prev[d] # "old"
        /\ prev' = [prev EXCEPT ![d] = "null"]
        /\ upgraded' = upgraded \cup {d}
        /\ UNCHANGED <<wire, enc, shut>>
     \/ /\ prev[d] = "old"
        /\ \/ Write(d, "old", "safeToClose", {}) /\ UNCHANGED prev
           \/ /\ WriteFails(d, "old", {<<"old", d>>})
              /\ prev' = [prev EXCEPT ![d] = "none"]
        /\ UNCHANGED upgraded
  /\ UNCHANGED <<plain, intro, dialer, dec, active, paused, progress, bwu, reader,
                 writer, data, tries>>

\* Mutant: DISCONNECTION goes out encrypted.
SafeToCloseEncrypted(d) ==
  /\ NextJob(d, "safeToClose") /\ JobDone(d)
  /\ prev' = [prev EXCEPT ![d] = "none"]
  /\ \/ /\ prev[d] = "none"
        /\ bwu' = [bwu EXCEPT ![d] = "crashed"]
        /\ UNCHANGED <<wire, enc, shut>>
     \/ /\ prev[d] = "null"
        /\ UNCHANGED <<bwu, wire, enc, shut>>
     \/ /\ prev[d] = "old"
        /\ Write(d, "old", "disconnect", {}) \/ WriteFails(d, "old", {})
        /\ bwu' = [bwu EXCEPT ![d] = "draining"]
  /\ UNCHANGED <<plain, intro, dialer, dec, active, paused, upgraded, progress, reader, writer,
                 data, tries>>

\* ProcessSafeToClosePriorChannelEvent: an unknown endpoint has no map entry to
\* read; otherwise encryption is disabled, DISCONNECTION written and a frame read.
ProcessSafeToClosePriorChannel(d) ==
  /\ NextJob(d, "safeToClose") /\ JobDone(d)
  /\ prev' = [prev EXCEPT ![d] = "none"]
  /\ \/ /\ prev[d] = "none"
        /\ bwu' = [bwu EXCEPT ![d] = "crashed"]
        /\ UNCHANGED <<wire, enc, shut, plain>>
     \/ /\ prev[d] = "null"
        /\ UNCHANGED <<bwu, wire, enc, shut, plain>>
     \/ /\ prev[d] = "old"
        /\ plain' = plain \cup {d}
        /\ Send(d, "old", "disconnect", 0, {}) \/ SendFails(d, "old", 0, {})
        /\ bwu' = [bwu EXCEPT ![d] = "draining"]
  /\ UNCHANGED <<intro, dialer, dec, active, paused, upgraded, progress, reader, writer, data,
                 tries>>

\* Mutant: the new channel is not resumed.
ClosePriorChannelOnly(d) ==
  /\ bwu[d] = "draining"
  /\ \/ ReadBroken(d, "old") /\ UNCHANGED wire
     \/ /\ ~Closed("old", d) /\ wire["old"][d] # <<>>
        /\ wire' = [wire EXCEPT !["old"][d] = Tail(@)]
  /\ shut' = shut \cup {<<"old", d>>}
  /\ bwu' = [bwu EXCEPT ![d] = "idle"]
  /\ progress' = IF active[d] = "none" THEN progress ELSE progress \ {d}
  /\ UNCHANGED <<enc, plain, intro, dialer, dec, active, paused, prev, upgraded, bwuQ, reader,
                 writer, data, tries>>

\* The read returns whatever came, or fails; the old channel is closed, and the
\* new one resumed if the endpoint is still there.
ClosePriorChannel(d) ==
  /\ bwu[d] = "draining"
  /\ \/ ReadBroken(d, "old") /\ UNCHANGED wire
     \/ /\ ~Closed("old", d) /\ wire["old"][d] # <<>>
        /\ wire' = [wire EXCEPT !["old"][d] = Tail(@)]
  /\ shut' = shut \cup {<<"old", d>>}
  /\ bwu' = [bwu EXCEPT ![d] = "idle"]
  /\ paused' = paused \ {d}
  /\ progress' = IF active[d] = "none" THEN progress ELSE progress \ {d}
  /\ UNCHANGED <<enc, plain, intro, dialer, dec, active, prev, upgraded, bwuQ, reader, writer,
                 data, tries>>

-----------------------------------------------------------------------------
(* The reader, the writer and the removal of the endpoint.                 *)

\* DecodeMessageFromPeer accepts the next sequence number and nothing else.
Decodes(d, f) == f.s = dec[d] + 1

\* A frame is processed; DISCONNECTION closes the channel, which unpauses it, and
\* BWU frames are posted to the BwuManager thread.
Deliver(d, c, f) ==
  /\ got' = [got EXCEPT ![d] = IF f.k = "data" THEN @ + 1 ELSE @]
  /\ shut' = IF f.k = "disconnect" THEN shut \cup {<<c, d>>} ELSE shut
  /\ paused' = IF f.k = "disconnect" /\ c = "new" THEN paused \ {d} ELSE paused
  /\ bwuQ' = IF f.k \in {"data", "disconnect"} THEN bwuQ
             ELSE [bwuQ EXCEPT ![d] = Append(@, f.k)]

\* The loop of the reader fetches the channel again after an error and ends when it
\* is gone or on the medium that has just failed.
Refetch(d) ==
  reader' = [reader EXCEPT ![d] =
               IF reader[d] = "old" /\ active[d] = "new" THEN "new" ELSE "gone"]

\* HandleData: a frame that does not decrypt ends it, one that does not parse on a
\* channel no longer encrypted is skipped.
HandleData(d) ==
  /\ reader[d] \in Channel /\ ~Closed(reader[d], d) /\ wire[reader[d]][d] # <<>>
  /\ LET c == reader[d]
         f == Head(wire[c][d])
         encrypted == ~(c = "old" /\ d \in plain)
     IN /\ wire' = [wire EXCEPT ![c][d] = Tail(@)]
        /\ \/ /\ encrypted /\ Decodes(d, f)
              /\ dec' = [dec EXCEPT ![d] = @ + 1]
              /\ Deliver(d, c, f) /\ UNCHANGED reader
           \/ /\ ~encrypted /\ f.s = 0
              /\ Deliver(d, c, f) /\ UNCHANGED <<dec, reader>>
           \/ /\ encrypted /\ ~Decodes(d, f)
              /\ Refetch(d) /\ UNCHANGED <<dec, got, shut, paused, bwuQ>>
           \/ /\ ~encrypted /\ f.s # 0
              /\ UNCHANGED <<dec, reader, got, shut, paused, bwuQ>>
  /\ UNCHANGED <<enc, plain, intro, dialer, active, mgr, bwu, writer, sent, tries>>

ReadFails(d) ==
  /\ reader[d] \in Channel /\ ReadBroken(d, reader[d])
  /\ Refetch(d)
  /\ UNCHANGED <<net, dec, active, paused, mgr, bwu, bwuQ, writer, data, tries>>

\* Mutant: the channel fetched is not checked to exist.
FetchChannelUnchecked(d) ==
  /\ writer[d] = "idle" /\ sent[d] < MaxData
  /\ writer' = [writer EXCEPT ![d] = active[d]]
  /\ UNCHANGED <<net, dec, active, paused, mgr, bwu, bwuQ, reader, data, tries>>

\* SendTransferFrameBytes: the channel is fetched, then written; Write blocks while
\* the channel is paused.  A write that fails is the payload's last.
FetchChannel(d) ==
  /\ writer[d] = "idle" /\ active[d] \in Channel /\ sent[d] < MaxData
  /\ writer' = [writer EXCEPT ![d] = active[d]]
  /\ UNCHANGED <<net, dec, active, paused, mgr, bwu, bwuQ, reader, data, tries>>

WriteData(d) ==
  /\ writer[d] \in Channel /\ ~Blocked(d, writer[d])
  /\ \/ /\ Write(d, writer[d], "data", {})
        /\ sent' = [sent EXCEPT ![d] = @ + 1]
        /\ writer' = [writer EXCEPT ![d] = "idle"]
     \/ /\ WriteFails(d, writer[d], {})
        /\ writer' = [writer EXCEPT ![d] = "over"]
        /\ UNCHANGED sent
  /\ UNCHANGED <<plain, intro, dialer, dec, active, paused, mgr, bwu, bwuQ, reader, got, tries>>

\* The keep-alive worker hears nothing from a peer that is gone or cannot write;
\* it notices only if it is not blocked in a write on a paused channel.
KeepAliveTimesOut(d) ==
  Faults /\ d \notin paused /\ (active[Peer(d)] = "none" \/ Peer(d) \in paused)

\* RemoveEndpoint, by the workers or by the client: the channel is resumed, told of
\* the disconnection and closed, then the BwuManager is notified.
RemoveEndpoint(d) ==
  /\ active[d] \in Channel
  /\ reader[d] = "gone" \/ KeepAliveTimesOut(d) \/ Faults
  /\ active' = [active EXCEPT ![d] = "none"]
  /\ paused' = paused \ {d}
  /\ LET c == active[d] IN
       \/ Write(d, c, "disconnect", {<<c, d>>})
       \/ WriteFails(d, c, {<<c, d>>})
  /\ Post(d, "removed")
  /\ UNCHANGED <<plain, intro, dialer, dec, mgr, bwu, reader, writer, data, tries>>

\* bwu-on-endpoint-disconnect
OnEndpointDisconnect(d) ==
  /\ NextJob(d, "removed") /\ JobDone(d)
  /\ shut' = shut \cup {<<c, d>> : c \in {prev[d]} \cap Channel}
  /\ prev' = [prev EXCEPT ![d] = "none"]
  /\ progress' = progress \ {d} /\ upgraded' = upgraded \ {d}
  /\ UNCHANGED <<wire, enc, plain, intro, dialer, dec, active, paused, bwu, reader, writer,
                 data, tries>>

\* A medium loses its connection.
ChannelBreaks(c) ==
  /\ Faults
  /\ c = "old" \/ intro # "none"
  /\ shut' = shut \cup ({c} \X Device)
  /\ UNCHANGED <<wire, enc, plain, intro, dialer, dec, active, paused, mgr, bwu, bwuQ,
                 reader, writer, data, tries>>

-----------------------------------------------------------------------------
BwuNext(d) ==
  \/ Initiate(d) \/ DuplicatePath(d) \/ ProcessBwuPathAvailable(d)
  \/ ReadClientIntroduction(d) \/ ReadClientIntroductionAck(d) \/ AckFails(d)
  \/ ProcessUpgradeFailure(d) \/ WriteLastWrite(d)
  \/ ProcessLastWriteToPriorChannel(d) \/ ProcessSafeToClosePriorChannel(d)
  \/ ClosePriorChannel(d) \/ OnEndpointDisconnect(d)

ReaderNext(d) == HandleData(d) \/ ReadFails(d)

\* A crash ends the program of that device.
Next ==
  /\ \A d \in Device : bwu[d] # "crashed"
  /\ \/ \E d \in Device :
          \/ InitiateBwuForEndpoint(d) \/ OnIncomingConnection(d) \/ BwuNext(d)
          \/ ReaderNext(d) \/ FetchChannel(d) \/ WriteData(d) \/ RemoveEndpoint(d)
     \/ \E c \in Channel : ChannelBreaks(c)

Spec == Init /\ [][Next]_vars

\* The threads keep running, an accepted socket is posted, and an endpoint whose
\* workers have ended or time out is removed; nothing is assumed of the client.
Fairness ==
  \A d \in Device :
    /\ WF_vars(BwuNext(d)) /\ WF_vars(ReaderNext(d)) /\ WF_vars(OnIncomingConnection(d))
    /\ WF_vars(WriteData(d))
    /\ WF_vars((reader[d] = "gone" \/ KeepAliveTimesOut(d)) /\ RemoveEndpoint(d))

FairSpec == Spec /\ Fairness

-----------------------------------------------------------------------------
(* Properties.                                                             *)

\* The frames d still has to read, in the order it will read them.
Unread(d) ==
  IF reader[d] = "old" /\ active[d] # "none" THEN wire["old"][d] \o wire["new"][d]
  ELSE IF reader[d] = "new" THEN wire["new"][d] ELSE <<>>

\* The encrypted frames among the first n of fs, and the payload frames.
Encrypted(fs, n)  == {i \in 1..n : fs[i].s # 0}
PayloadFrames(fs) == {i \in 1..Len(fs) : fs[i].k = "data"}

\* As long as a device reads, every encrypted frame reaches it in the sequence its
\* UKEY2 context expects, whichever channel it travels on.
InOrder ==
  \A d \in Device :
    LET fs == Unread(d) IN
      \A i \in Encrypted(fs, Len(fs)) : fs[i].s = dec[d] + Cardinality(Encrypted(fs, i))

\* bwu_manager.cc: "there can be no data loss, regardless of whether the
\* EndpointChannel allows reads of queued, unread data after the EndpointChannel
\* has been closed from the other end": while both devices are connected, every
\* payload frame written has been received or will be.
NoDataLoss ==
  (\A d \in Device : active[d] # "none" /\ reader[d] # "gone" /\ ~Closed(active[d], d))
    => \A d \in Device :
         sent[Peer(d)] = got[d] + Cardinality(PayloadFrames(Unread(d)))

\* "[1] Which also implies that they've received our LAST_WRITE_TO_PRIOR_CHANNEL":
\* when a device starts to close the old channel, its last write has been read.
LastWriteRead ==
  \A d \in Device : bwu[d] = "draining" =>
    \A i \in 1..Len(wire["old"][Peer(d)]) : wire["old"][Peer(d)][i].k # "lastWrite"

\* No payload frame travels on the new channel before its receiver has made that
\* channel its own.
NewChannelAgreed ==
  \A d \in Device :
    active[d] = "old" =>
      \A i \in 1..Len(wire["new"][d]) : wire["new"][d][i].k # "data"

\* An upgrade ends: a paused channel is resumed, or the endpoint is removed.
UpgradeEnds == \A d \in Device : d \in paused ~> d \notin paused
=============================================================================
