----------------------------- MODULE Discovery -----------------------------
(***************************************************************************)
(* Discovery: what the mediums report, what P2pClusterPcpHandler and       *)
(* BasePcpHandler make of it, and what the client is told.                 *)
(*                                                                         *)
(* Every handler is a job of the PCP handler thread (FCFS), so a report    *)
(* may run after the call that turned its medium off.  The application's   *)
(* calls wait for their job, so at most one of them is queued.  The alarms *)
(* that lose the endpoints of a medium that was turned off fire on a timer *)
(* thread and post a job of their own.                                     *)
(*                                                                         *)
(* A connection request adds to discovered_endpoints_ what it may connect  *)
(* by; the caller's wait for the handshake that follows is left out.       *)
(*                                                                         *)
(* One client and one service; a report that is not recognised (wrong      *)
(* service, version or PCP) changes nothing and is left out.               *)
(***************************************************************************)
EXTENDS Integers, Sequences, FiniteSets

CONSTANTS
  Device,       \* remote devices: a Bluetooth MAC address, a BLE peripheral name
  Endpoint,     \* endpoint ids
  Info,         \* endpoint infos
  Advert,       \* what a device may advertise: a set of [id, info]
  MacDevice,    \* devices whose BLE advertisement carries their MAC address
  RtcDevice,    \* devices whose advertisements say that WebRTC can connect to them
  Optional,     \* the options the application may switch to
  BleV2Flag,    \* the values of kEnableBleV2
  MaxJobs,      \* bound on the queue of the PCP handler thread
  MaxUpdates,   \* bound on the calls of UpdateDiscoveryOptions
  MaxStarts,    \* bound on the calls of StartDiscovery
  MaxRequests,  \* bound on the calls of RequestConnection
  MaxReports    \* bound on the reports of the mediums

Medium  == {"BLUETOOTH", "BLE", "WIFI_LAN"}   \* the mediums that discover
Allowed == Medium \cup {"WEB_RTC"}
Options == [allowed : SUBSET Allowed, low : BOOLEAN]
NoMac   == "no mac"                           \* no remote_bluetooth_mac_address

ASSUME DiscoveryAssumption ==
  /\ Advert \subseteq [id : Endpoint, info : Info]
  /\ MacDevice \subseteq Device /\ RtcDevice \subseteq Device
  /\ Optional \subseteq Options
  /\ BleV2Flag \subseteq BOOLEAN
  /\ MaxJobs \in Nat /\ MaxUpdates \in Nat /\ MaxStarts \in Nat /\ MaxReports \in Nat
  /\ MaxRequests \in Nat

NotTold == "not told"
ASSUME NotToldAssumption == NotTold \notin Info

VARIABLES
  bleV2,         \* the feature flag
  discovering,   \* ClientProxy::discovery_info_ is set
  told,          \* discovered_endpoint_ids_, with the info the client was given
  options,       \* ClientProxy::discovery_options_
  entries,       \* discovered_endpoints_
  foundBle,      \* found_ble_endpoints_: the state kept for each peripheral name
  foundBleV2,    \* found_endpoints_in_ble_discover_cb_: <<device, advert>>
  alarms,        \* the keys of endpoint_lost_by_medium_alarms_
  timers,        \* scheduled alarms; inMap: the map still holds it
  jobs,          \* the queue of the PCP handler thread
  calling,       \* an application's call waits for its job
  scanning,      \* mediums that scan
  btOwner,       \* bluetooth_classic_discoverer_client_id_ is this client
  seen,          \* what each medium reports as present
  btName,        \* the Bluetooth name of each device
  freed,         \* an alarm has read an endpoint that was already destroyed
  updates, starts, requests, reports   \* calls and reports so far

client   == <<discovering, told, options>>
handler  == <<entries, foundBle, foundBleV2, alarms, timers>>
platform == <<scanning, btOwner, seen, btName>>
counts   == <<updates, starts, requests, reports>>
vars == <<bleV2, client, handler, jobs, calling, platform, freed, counts>>

-----------------------------------------------------------------------------
(* The handler's state as a record h, so that a job can chain the calls it makes. *)

Now == [entries |-> entries, told |-> told, alarms |-> alarms, timers |-> timers,
        jobs |-> Tail(jobs)]

Become(h) ==
  /\ entries' = h.entries /\ told' = h.told
  /\ alarms' = h.alarms /\ timers' = h.timers
  /\ jobs' = h.jobs

\* ClientProxy::OnEndpointFound and OnEndpointLost.
ClientFound(h, e, info) ==
  IF discovering /\ h.told[e] = NotTold THEN [h EXCEPT !.told[e] = info] ELSE h

ClientLost(h, e) == IF discovering THEN [h EXCEPT !.told[e] = NotTold] ELSE h

\* discovered_endpoints_ owns the objects; alarms and their jobs keep a raw pointer to one.
Dangle(p, gone) == [p EXCEPT !.ptr = @ \ gone]

Erase(h, gone) ==
  [h EXCEPT
    !.entries = @ \ gone,
    !.timers = {Dangle(t, gone) : t \in @},
    !.jobs = [i \in DOMAIN @ |-> IF @[i].kind = "alarm" THEN Dangle(@[i], gone) ELSE @[i]]]

StopEndpointLostByMediumAlarm(h, key) ==
  IF key \in h.alarms
  THEN [h EXCEPT !.alarms = @ \ {key},
                 !.timers = {t \in @ : ~(t.key = key /\ t.inMap)}]
  ELSE h

\* For each medium that is turned off.
StartEndpointLostByMediumAlarms(h, off) ==
  LET lost == {x \in h.entries : x.medium \in off}
      keys == {<<x.id, x.medium>> : x \in lost}
  IN [h EXCEPT
       !.alarms = @ \cup keys,
       !.timers = {t \in @ : ~(t.key \in keys /\ t.inMap)}
                  \cup {[key |-> <<x.id, x.medium>>, ptr |-> {x}, inMap |-> TRUE] : x \in lost}]

OnEndpointFound(h, x) ==
  LET known == {y \in h.entries : y.id = x.id}
      same  == {y \in known : y.medium = x.medium}
  IN IF \E y \in same : y.info # x.info
     THEN LET old == CHOOSE y \in same : y.info # x.info
              new == [Erase(ClientLost(h, x.id), {old}) EXCEPT !.entries = @ \cup {x}]
          IN ClientFound(StopEndpointLostByMediumAlarm(new, <<x.id, x.medium>>), x.id, x.info)
     ELSE LET new == IF same = {} THEN [h EXCEPT !.entries = @ \cup {x}] ELSE h
          IN IF known = {} THEN ClientFound(new, x.id, x.info) ELSE new

\* Mutant: only the last entry of an endpoint is ever removed.
OnEndpointLostMut(h, e, m) ==
  LET known == {y \in h.entries : y.id = e}
  IN IF Cardinality(known) # 1 \/ \E y \in known : y.medium # m THEN h
     ELSE Erase(ClientLost(h, e), {CHOOSE y \in known : TRUE})

\* Mutant: the client is told of the loss on any medium.
OnEndpointLostMut2(h, e, m) ==
  LET same == {y \in h.entries : y.id = e /\ y.medium = m}
  IN IF same = {} THEN h ELSE Erase(ClientLost(h, e), {CHOOSE y \in same : TRUE})

OnEndpointLost(h, e, m) ==
  LET known == {y \in h.entries : y.id = e}
      same  == {y \in known : y.medium = m}
  IN IF same = {} THEN h
     ELSE Erase(IF Cardinality(known) = 1 THEN ClientLost(h, e) ELSE h, {CHOOSE y \in same : TRUE})

-----------------------------------------------------------------------------
Init ==
  /\ bleV2 \in BleV2Flag
  /\ discovering = FALSE
  /\ told = [e \in Endpoint |-> NotTold]
  /\ options = [allowed |-> Allowed, low |-> FALSE]
  /\ entries = {} /\ foundBle = [d \in Device |-> {}] /\ foundBleV2 = {}
  /\ alarms = {} /\ timers = {}
  /\ jobs = <<>> /\ calling = FALSE
  /\ scanning = {} /\ btOwner = FALSE /\ seen = [m \in Medium |-> {}]
  /\ btName = [d \in Device |-> CHOOSE a \in Advert : TRUE]   \* set before it is read
  /\ freed = FALSE
  /\ updates = 0 /\ starts = 0 /\ requests = 0 /\ reports = 0

(* The mediums: they report what they see while they scan.  Bluetooth and the first *)
(* BLE scanner know a device by its address or name, so a new advertisement replaces *)
(* the old one; the others report each advertisement on its own.                     *)

Post(j) == Len(jobs) < MaxJobs /\ jobs' = Append(jobs, j)

\* A medium reports from a thread of its own.
Reports(j) == reports < MaxReports /\ reports' = reports + 1 /\ Post(j)

OnePerDevice(m) == m = "BLUETOOTH" \/ (m = "BLE" /\ ~bleV2)

Appear(m, d, a) ==
  /\ m \in scanning
  /\ <<d, a>> \notin seen[m]
  /\ OnePerDevice(m) => \A b \in Advert : <<d, b>> \notin seen[m]
  /\ seen' = [seen EXCEPT ![m] = @ \cup {<<d, a>>}]
  /\ btName' = IF m = "BLUETOOTH" THEN [btName EXCEPT ![d] = a] ELSE btName
  /\ Reports([kind |-> "found", medium |-> m, dev |-> d, adv |-> a])
  /\ UNCHANGED <<bleV2, client, handler, calling, scanning, btOwner, freed, updates, starts,
                 requests>>

Rename(m, d, a) ==
  /\ m \in scanning
  /\ OnePerDevice(m)
  /\ \E b \in Advert \ {a} : <<d, b>> \in seen[m]
  /\ seen' = [seen EXCEPT ![m] = {s \in @ : s[1] # d} \cup {<<d, a>>}]
  /\ btName' = IF m = "BLUETOOTH" THEN [btName EXCEPT ![d] = a] ELSE btName
  /\ Reports([kind |-> IF m = "BLUETOOTH" THEN "changed" ELSE "found",
           medium |-> m, dev |-> d, adv |-> a])
  /\ UNCHANGED <<bleV2, client, handler, calling, scanning, btOwner, freed, updates, starts,
                 requests>>

Vanish(m, d, a) ==
  /\ <<d, a>> \in seen[m]
  /\ seen' = [seen EXCEPT ![m] = @ \ {<<d, a>>}]
  /\ Reports([kind |-> "lost", medium |-> m, dev |-> d, adv |-> a])
  /\ UNCHANGED <<bleV2, client, handler, calling, scanning, btOwner, btName, freed, updates, starts,
                 requests>>

\* The alarm goes off on the timer thread and posts its job.
AlarmFires(t) ==
  /\ t \in timers
  /\ timers' = timers \ {t}
  /\ Post([kind |-> "alarm", key |-> t.key, ptr |-> t.ptr])
  /\ UNCHANGED <<bleV2, client, entries, foundBle, foundBleV2, alarms, calling, platform,
                 freed, counts>>

-----------------------------------------------------------------------------
(* The application's calls, as the router lets them through. *)

Call(j) == ~calling /\ calling' = TRUE /\ Post(j)

CallStart ==
  /\ ~discovering /\ starts < MaxStarts
  /\ starts' = starts + 1
  /\ Call([kind |-> "start"])
  /\ UNCHANGED <<bleV2, client, handler, platform, freed, updates, requests, reports>>

CallStop ==
  /\ discovering
  /\ Call([kind |-> "stop"])
  /\ UNCHANGED <<bleV2, client, handler, platform, freed, counts>>

CallUpdate(o) ==
  /\ discovering /\ updates < MaxUpdates
  /\ updates' = updates + 1
  /\ Call([kind |-> "update", opts |-> o])
  /\ UNCHANGED <<bleV2, client, handler, platform, freed, starts, requests, reports>>

\* A connection may be requested whether or not the client discovers.
CallRequest(e, mac) ==
  /\ requests < MaxRequests
  /\ requests' = requests + 1
  /\ Call([kind |-> "request", id |-> e, mac |-> mac])
  /\ UNCHANGED <<bleV2, client, handler, platform, freed, updates, starts, reports>>

\* Stop the mediums of off, then start those of on: a stopped scan forgets what it saw.
Rescan(off, on) ==
  /\ scanning' = (scanning \ off) \cup on
  /\ seen' = [m \in Medium |-> IF m \in off THEN {} ELSE seen[m]]
  /\ UNCHANGED btName

Head1(kind) == jobs # <<>> /\ Head(jobs).kind = kind

\* Mutant: the endpoints of an earlier session are not cleared.
StartDiscoveryMut ==
  /\ Head1("start")
  /\ Become(Now)
  /\ discovering' = TRUE
  /\ options' = [allowed |-> Allowed, low |-> FALSE]
  /\ Rescan({}, Medium)
  /\ btOwner' = TRUE
  /\ calling' = FALSE
  /\ UNCHANGED <<bleV2, foundBle, foundBleV2, freed, counts>>

\* StartDiscovery starts every medium that its options allow, low_power or not; a medium
\* may fail to start, and does when it scans already.
StartDiscovery ==
  /\ Head1("start")
  /\ \E on \in SUBSET (Medium \ scanning) :
       IF on = {}
       THEN Become(Now) /\ UNCHANGED <<discovering, options, platform>>
       ELSE /\ Become(Erase(Now, entries))
            /\ discovering' = TRUE
            /\ options' = [allowed |-> Allowed, low |-> FALSE]
            /\ Rescan({}, on)
            /\ btOwner' = (btOwner \/ "BLUETOOTH" \in on)
  /\ calling' = FALSE
  /\ UNCHANGED <<bleV2, foundBle, foundBleV2, freed, counts>>

\* Bluetooth is stopped only if StartDiscovery started it: UpdateDiscoveryOptions does not
\* record who did.
StopDiscovery ==
  /\ Head1("stop")
  /\ Rescan({m \in Medium : m = "BLUETOOTH" => btOwner}, {})
  /\ btOwner' = FALSE
  /\ discovering' = FALSE
  /\ Become([Now EXCEPT !.told = [e \in Endpoint |-> NotTold]])
  /\ calling' = FALSE
  /\ UNCHANGED <<bleV2, options, foundBle, foundBleV2, freed, counts>>

\* UpdateDiscoveryOptions: BLE goes on scanning when only low_power changes.
UpdateDiscoveryOptions ==
  /\ Head1("update")
  /\ LET new == Head(jobs).opts
         restart == options.low # new.low
         off == {m \in Medium : \/ m \in options.allowed \ new.allowed
                                \/ restart /\ m # "BLE"}
         wanted == {m \in Medium \cap new.allowed : m = "BLE" \/ ~new.low}
         kept == {m \in wanted : m \in options.allowed /\ (m = "BLE" \/ ~restart)}
     IN /\ Become(StartEndpointLostByMediumAlarms(Now, off))
        /\ \E on \in SUBSET ((wanted \ kept) \ (scanning \ off)) :
             /\ Rescan(off, on)
             /\ options' = IF kept \cup on = {} /\ wanted # {} THEN options ELSE new
  /\ calling' = FALSE
  /\ UNCHANGED <<bleV2, discovering, btOwner, foundBle, foundBleV2, freed, counts>>

\* RequestConnection adds the ways it may connect by: y is the first entry of the endpoint.
\* Mutant: without a look for an entry the endpoint already has over Bluetooth.
AppendRemoteBluetoothMacAddressEndpointMut(h, y, mac) ==
  IF mac # NoMac /\ "BLUETOOTH" \in options.allowed
  THEN [h EXCEPT !.entries = @ \cup {[y EXCEPT !.medium = "BLUETOOTH", !.dev = mac, !.rtc = FALSE]}]
  ELSE h

AppendRemoteBluetoothMacAddressEndpoint(h, y, mac) ==
  IF /\ mac # NoMac /\ "BLUETOOTH" \in options.allowed
     /\ \A x \in h.entries : x.id = y.id => x.medium # "BLUETOOTH"
  THEN [h EXCEPT !.entries = @ \cup {[y EXCEPT !.medium = "BLUETOOTH", !.dev = mac, !.rtc = FALSE]}]
  ELSE h

\* Nothing looks for an earlier WebRTC entry, so there may be several: the number of the
\* request, in place of a device, tells them apart.
AppendWebRTCEndpoint(h, y) ==
  IF "WEB_RTC" \in options.allowed /\ \E x \in h.entries : x.id = y.id /\ x.rtc
  THEN [h EXCEPT !.entries = @ \cup {[y EXCEPT !.medium = "WEB_RTC", !.dev = requests, !.rtc = TRUE]}]
  ELSE h

\* The job returns early for an unknown endpoint, or when a connection is pending or the
\* topology forbids one; what comes of the attempt changes nothing here (EndpointLifecycle).
RequestConnection ==
  /\ Head1("request")
  /\ \/ Become(Now)
     \/ \E y \in entries :
          /\ y.id = Head(jobs).id
          /\ LET mac == AppendRemoteBluetoothMacAddressEndpoint(Now, y, Head(jobs).mac)
             IN Become(AppendWebRTCEndpoint(mac, y))
  /\ calling' = FALSE
  /\ UNCHANGED <<bleV2, discovering, options, foundBle, foundBleV2, platform, freed, counts>>

-----------------------------------------------------------------------------
(* The jobs of the mediums' reports. *)

Report(kind, m) == Head1(kind) /\ Head(jobs).medium = m

Dropped == Become(Now) /\ UNCHANGED <<foundBle, foundBleV2>>

EntryOf(a, m, d) ==
  [id |-> a.id, info |-> a.info, medium |-> m, dev |-> d, rtc |-> d \in RtcDevice]

Kept == UNCHANGED <<bleV2, discovering, options, calling, platform, freed, counts>>

\* The job asks the device for its name, which may have changed since the report.
BluetoothDeviceDiscoveredHandler ==
  /\ Report("found", "BLUETOOTH")
  /\ IF ~discovering THEN Dropped
     ELSE LET d == Head(jobs).dev
          IN /\ Become(OnEndpointFound(Now, EntryOf(btName[d], "BLUETOOTH", d)))
             /\ UNCHANGED <<foundBle, foundBleV2>>
  /\ Kept

\* The first endpoint with the device's address is lost, then the new name is found.
BluetoothNameChangedHandler ==
  /\ Head1("changed")
  /\ LET d == Head(jobs).dev
         old == {x \in entries : x.medium = "BLUETOOTH" /\ x.dev = d}
         new(h) == OnEndpointFound(h, EntryOf(btName[d], "BLUETOOTH", d))
     IN IF ~discovering THEN Dropped
        ELSE /\ IF old = {} THEN Become(new(Now))
                ELSE \E x \in old : Become(new(OnEndpointLost(Now, x.id, x.medium)))
             /\ UNCHANGED <<foundBle, foundBleV2>>
  /\ Kept

BluetoothDeviceLostHandler ==
  /\ Report("lost", "BLUETOOTH")
  /\ IF ~discovering THEN Dropped
     ELSE /\ Become(OnEndpointLost(Now, Head(jobs).adv.id, "BLUETOOTH"))
          /\ UNCHANGED <<foundBle, foundBleV2>>
  /\ Kept

\* What both BLE handlers report: the endpoint over BLE, and over Bluetooth if the
\* advertisement carries an address.
FoundOverBle(h, a, d) ==
  LET found(g, m) == OnEndpointFound(StopEndpointLostByMediumAlarm(g, <<a.id, m>>), EntryOf(a, m, d))
      ble == found(h, "BLE")
  IN IF d \in MacDevice THEN found(ble, "BLUETOOTH") ELSE ble

BlePeripheralDiscoveredHandler ==
  /\ Report("found", "BLE") /\ ~bleV2
  /\ LET a == Head(jobs).adv
         d == Head(jobs).dev
     IN IF ~discovering THEN Dropped
        ELSE /\ foundBle' = [foundBle EXCEPT ![d] = IF @ = {} THEN {a} ELSE @]
             /\ Become(FoundOverBle(Now, a, d))
             /\ UNCHANGED foundBleV2
  /\ Kept

BlePeripheralLostHandler ==
  /\ Report("lost", "BLE") /\ ~bleV2
  /\ LET d == Head(jobs).dev
     IN IF ~discovering \/ foundBle[d] = {} THEN Dropped
        ELSE /\ foundBle' = [foundBle EXCEPT ![d] = {}]
             /\ Become(OnEndpointLost(Now, (CHOOSE a \in foundBle[d] : TRUE).id, "BLE"))
             /\ UNCHANGED foundBleV2
  /\ Kept

\* The id of a BLE v2 peripheral is its advertisement.
BleV2PeripheralDiscoveredHandler ==
  /\ Report("found", "BLE") /\ bleV2
  /\ LET a == Head(jobs).adv
         d == Head(jobs).dev
     IN IF ~discovering THEN Dropped
        ELSE /\ foundBleV2' = foundBleV2 \cup {<<d, a>>}
             /\ Become(FoundOverBle(Now, a, d))
             /\ UNCHANGED foundBle
  /\ Kept

BleV2PeripheralLostHandler ==
  /\ Report("lost", "BLE") /\ bleV2
  /\ LET a == Head(jobs).adv
         d == Head(jobs).dev
         ble == OnEndpointLost(Now, a.id, "BLE")
     IN IF ~discovering \/ <<d, a>> \notin foundBleV2 THEN Dropped
        ELSE /\ foundBleV2' = foundBleV2 \ {<<d, a>>}
             /\ Become(IF d \in MacDevice THEN OnEndpointLost(ble, a.id, "BLUETOOTH") ELSE ble)
             /\ UNCHANGED foundBle
  /\ Kept

WifiLanServiceDiscoveredHandler ==
  /\ Report("found", "WIFI_LAN")
  /\ LET a == Head(jobs).adv
         h == StopEndpointLostByMediumAlarm(Now, <<a.id, "WIFI_LAN">>)
     IN IF ~discovering THEN Dropped
        ELSE /\ Become(OnEndpointFound(h, EntryOf(a, "WIFI_LAN", Head(jobs).dev)))
             /\ UNCHANGED <<foundBle, foundBleV2>>
  /\ Kept

WifiLanServiceLostHandler ==
  /\ Report("lost", "WIFI_LAN")
  /\ IF ~discovering THEN Dropped
     ELSE /\ Become(OnEndpointLost(Now, Head(jobs).adv.id, "WIFI_LAN"))
          /\ UNCHANGED <<foundBle, foundBleV2>>
  /\ Kept

\* The job of an alarm.  Erasing the alarm from the map does not cancel its timer.  A
\* destroyed endpoint is read as whatever the memory holds now: no endpoint, or another one.
EndpointLostByMediumAlarm ==
  /\ Head1("alarm")
  /\ LET key == Head(jobs).key
         ptr == Head(jobs).ptr
         h == [Now EXCEPT !.alarms = @ \ {key},
                          !.timers = {IF t.key = key THEN [t EXCEPT !.inMap = FALSE] ELSE t :
                                        t \in @}]
     IN IF key \notin alarms THEN Become(Now) /\ UNCHANGED freed
        ELSE IF ptr # {}
        THEN \E x \in ptr : Become(OnEndpointLost(h, x.id, x.medium)) /\ UNCHANGED freed
        ELSE /\ freed' = TRUE
             /\ \/ Become(h)
                \/ \E x \in entries : Become(OnEndpointLost(h, x.id, x.medium))
  /\ UNCHANGED <<bleV2, discovering, options, foundBle, foundBleV2, calling, platform, counts>>

-----------------------------------------------------------------------------
Platform ==
  \/ \E m \in Medium, d \in Device, a \in Advert :
       Appear(m, d, a) \/ Rename(m, d, a) \/ Vanish(m, d, a)
  \/ \E t \in timers : AlarmFires(t)

Application ==
  \/ CallStart \/ CallStop
  \/ \E o \in Optional : CallUpdate(o)
  \/ \E e \in Endpoint, mac \in Device \cup {NoMac} : CallRequest(e, mac)

RunJob ==
  \/ StartDiscovery \/ StopDiscovery \/ UpdateDiscoveryOptions \/ RequestConnection
  \/ BluetoothDeviceDiscoveredHandler \/ BluetoothNameChangedHandler
  \/ BluetoothDeviceLostHandler
  \/ BlePeripheralDiscoveredHandler \/ BlePeripheralLostHandler
  \/ BleV2PeripheralDiscoveredHandler \/ BleV2PeripheralLostHandler
  \/ WifiLanServiceDiscoveredHandler \/ WifiLanServiceLostHandler
  \/ EndpointLostByMediumAlarm

Next == Platform \/ Application \/ RunJob

Spec == Init /\ [][Next]_vars

-----------------------------------------------------------------------------
(* Properties *)

\* While the client discovers, it has been told of exactly the endpoints that
\* discovered_endpoints_ holds: no entry of an earlier session, and no loss on one medium
\* of several, hides an endpoint from it or leaves it with one that is gone.
ReportedMatchesDiscovered ==
  discovering => \A e \in Endpoint : told[e] # NotTold <=> \E x \in entries : x.id = e

\* discovered_endpoints_ is a multimap, but OnEndpointFound and the Bluetooth entry that
\* RequestConnection adds keep one entry for an endpoint and each medium that discovers,
\* which OnEndpointLost relies on when it counts and removes one.  WebRTC is no such medium:
\* each request adds an entry for it.
OneEntryPerMedium ==
  \A x, y \in entries : x.id = y.id /\ x.medium = y.medium /\ x.medium \in Medium => x = y

\* Every report was handled and no alarm is set.
Quiet == discovering /\ jobs = <<>> /\ timers = {}

\* A medium that reports each advertisement on its own, under unchanged options: when the
\* handlers have run for every report, discovered_endpoints_ keeps no endpoint that its
\* medium does not see any more, though reports of two mediums and of an earlier session
\* may be mixed.
GoneIsLost ==
  Quiet /\ updates = 0 =>
    \A x \in entries : x.medium \in Medium /\ ~OnePerDevice(x.medium) =>
      \E s \in seen[x.medium] : s[2].id = x.id

\* An endpoint that never changes its info is known to the client as long as Wi-Fi LAN or
\* BLE sees it, whatever OnEndpointLost removes for the other mediums.
VisibleReported ==
  Quiet /\ updates = 0 =>
    \A m \in {"BLE", "WIFI_LAN"}, s \in Device \X Advert :
      s \in seen[m] /\ (\A a \in Advert : a.id = s[2].id => a = s[2]) => told[s[2].id] # NotTold
=============================================================================
