-------------------------- MODULE DiscoveryProofs --------------------------
(***************************************************************************)
(* Proofs about Discovery, for any devices, advertisements and bounds.     *)
(*                                                                         *)
(* What the client was told matches discovered_endpoints_ only because     *)
(* StartDiscovery never runs in a session: CallsInv says so of the queue.  *)
(* Between sessions entries stay and nothing is told (NothingToldOutside). *)
(* The calls a job chains are lemmas about the record h it hands on.       *)
(*                                                                         *)
(* The second part compares the entries with what the scanners see, under  *)
(* unchanged options: an entry or a find in the queue is of something seen,*)
(* or a loss follows it (QuietInv), and what is seen has an entry or a find*)
(* that no loss follows (VisibleInv).                                      *)
(***************************************************************************)
EXTENDS Discovery, SequenceTheorems, FiniteSetTheorems, TLAPS

Entry == [id : Endpoint, info : Info, medium : Allowed, dev : Device \cup Nat, rtc : BOOLEAN]
Key   == Endpoint \X Medium
Timer == [key : Key, ptr : SUBSET Entry, inMap : BOOLEAN]

ReportJob == [kind : {"found", "changed", "lost"}, medium : Medium, dev : Device, adv : Advert]
AlarmJob  == [kind : {"alarm"}, key : Key, ptr : SUBSET Entry]
UpdateJob == [kind : {"update"}, opts : Options]
SessionJob == [kind : {"start", "stop"}]
RequestJob == [kind : {"request"}, id : Endpoint, mac : Device \cup {NoMac}]
Job == ReportJob \cup AlarmJob \cup UpdateJob \cup SessionJob \cup RequestJob

Handler == [entries : SUBSET Entry, told : [Endpoint -> Info \cup {NotTold}],
            alarms : SUBSET Key, timers : SUBSET Timer, jobs : Seq(Job)]

TypeInv ==
  /\ entries \in SUBSET Entry
  /\ told \in [Endpoint -> Info \cup {NotTold}]
  /\ alarms \in SUBSET Key
  /\ timers \in SUBSET Timer
  /\ jobs \in Seq(Job)
  /\ discovering \in BOOLEAN
  /\ calling \in BOOLEAN
  /\ requests \in Nat
  /\ Advert # {} => btName \in [Device -> Advert]

\* The kinds of job that an application's call waits for.
AppKind == {"start", "stop", "update", "request"}

\* The application has at most one job in the queue, and starts no discovery in a session.
CallsInv ==
  /\ \A i \in 1..Len(jobs) : jobs[i].kind \in AppKind => calling
  /\ \A i, j \in 1..Len(jobs) : jobs[i].kind \in AppKind /\ jobs[j].kind \in AppKind => i = j
  /\ \A i \in 1..Len(jobs) : jobs[i].kind = "start" => ~discovering

NothingToldOutside == ~discovering => \A e \in Endpoint : told[e] = NotTold

IInv == TypeInv /\ IsFiniteSet(entries) /\ CallsInv /\ NothingToldOutside
        /\ OneEntryPerMedium /\ ReportedMatchesDiscovered

\* The same of the record that a job hands from call to call.
Known(S, e) == \E x \in S : x.id = e

HandlerInv(h) ==
  /\ h \in Handler /\ IsFiniteSet(h.entries)
  /\ \A x, y \in h.entries : x.id = y.id /\ x.medium = y.medium /\ x.medium \in Medium => x = y
  /\ \A e \in Endpoint : h.told[e] # NotTold <=> discovering /\ Known(h.entries, e)

\* Two queues of the same jobs, up to the pointers that their alarms keep.
SameJobs(js, ks) ==
  /\ Len(ks) = Len(js)
  /\ \A i \in 1..Len(js) : /\ ks[i].kind = js[i].kind
                           /\ js[i].kind # "alarm" => ks[i] = js[i]

\* What a call does to the entries: OnEndpointFound leaves none of its medium without one,
\* and OnEndpointLost removes the only one of its endpoint and medium, or one of several if
\* RequestConnection added them for WebRTC.
Present(S, e, m) == \E y \in S : y.id = e /\ y.medium = m

Finds(S, T, x) == T \subseteq S \cup {x} /\ \A y \in S \cup {x} : Present(T, y.id, y.medium)

Loses(S, T, e, m) ==
  /\ T \subseteq S /\ (m \in Medium => ~Present(T, e, m))
  /\ \A y \in S : y.id # e \/ y.medium # m => y \in T

\* No call sets an alarm but those of UpdateDiscoveryOptions.
SetsNone(h, g) == h.timers = {} => g.timers = {}

-----------------------------------------------------------------------------
\* Clearing the pointer of an alarm's job leaves a job of that kind.
LEMMA ClearedJob ==
  ASSUME NEW j \in Job, NEW gone
  PROVE  LET c == IF j.kind = "alarm" THEN Dangle(j, gone) ELSE j
         IN c \in Job /\ c.kind = j.kind /\ (j.kind # "alarm" => c = j)
<1>1. CASE j.kind = "alarm"
  <2>1. j \in AlarmJob
    BY <1>1 DEF Job, AlarmJob, ReportJob, UpdateJob, SessionJob, RequestJob
  <2>2. Dangle(j, gone) \in AlarmJob /\ Dangle(j, gone).kind = "alarm"
    BY <2>1 DEF AlarmJob, Dangle
  <2> QED
    BY <1>1, <2>2 DEF Job
<1>2. CASE j.kind # "alarm"
  BY <1>2
<1> QED
  BY <1>1, <1>2

\* Erasing entries changes neither what was told nor which jobs wait.
LEMMA EraseProperties ==
  ASSUME NEW h \in Handler, NEW gone
  PROVE  /\ Erase(h, gone) \in Handler
         /\ Erase(h, gone).entries = h.entries \ gone
         /\ Erase(h, gone).told = h.told
         /\ SameJobs(h.jobs, Erase(h, gone).jobs)
         /\ SetsNone(h, Erase(h, gone))
<1> DEFINE c(j) == IF j.kind = "alarm" THEN Dangle(j, gone) ELSE j
           ts == {Dangle(t, gone) : t \in h.timers}
           js == [i \in DOMAIN h.jobs |-> c(h.jobs[i])]
<1>1. Erase(h, gone) = [h EXCEPT !.entries = @ \ gone, !.timers = ts, !.jobs = js]
  BY DEF Erase
<1>2. ts \in SUBSET Timer
  <2> SUFFICES ASSUME NEW t \in h.timers PROVE Dangle(t, gone) \in Timer
    OBVIOUS
  <2>1. t \in Timer
    BY DEF Handler
  <2> QED
    BY <2>1 DEF Timer, Dangle
<1>3. h.jobs \in Seq(Job) /\ Len(h.jobs) \in Nat /\ DOMAIN h.jobs = 1..Len(h.jobs)
      /\ \A i \in 1..Len(h.jobs) : h.jobs[i] \in Job
  <2>1. h.jobs \in Seq(Job)
    BY DEF Handler
  <2> QED
    BY <2>1, LenProperties
<1>4. \A i \in 1..Len(h.jobs) : /\ c(h.jobs[i]) \in Job /\ c(h.jobs[i]).kind = h.jobs[i].kind
                                /\ h.jobs[i].kind # "alarm" => c(h.jobs[i]) = h.jobs[i]
  BY <1>3, ClearedJob
<1>0. h.timers = {} => ts = {}
  OBVIOUS
<1> HIDE DEF c, ts
<1>5. /\ js \in [1..Len(h.jobs) -> Job]
      /\ \A i \in 1..Len(h.jobs) : /\ js[i].kind = h.jobs[i].kind
                                   /\ h.jobs[i].kind # "alarm" => js[i] = h.jobs[i]
  BY <1>3, <1>4
<1> HIDE DEF js
<1>6. js \in Seq(Job) /\ Len(js) = Len(h.jobs)
  BY <1>3, <1>5
<1> QED
  BY <1>0, <1>1, <1>2, <1>5, <1>6 DEF Handler, SameJobs, SetsNone

\* The client hears of an endpoint once, and only while it discovers.
LEMMA ClientFoundProperties ==
  ASSUME NEW h \in Handler, NEW e \in Endpoint, NEW info \in Info
  PROVE  LET g == ClientFound(h, e, info)
         IN /\ g \in Handler
            /\ g.entries = h.entries /\ g.jobs = h.jobs /\ g.timers = h.timers
            /\ discovering => g.told[e] # NotTold
            /\ ~discovering => g.told = h.told
            /\ \A f \in Endpoint \ {e} : g.told[f] = h.told[f]
<1>1. CASE discovering /\ h.told[e] = NotTold
  <2> DEFINE told1 == [h.told EXCEPT ![e] = info]
  <2>1. ClientFound(h, e, info) = [h EXCEPT !.told = told1]
    BY <1>1 DEF ClientFound, Handler
  <2>2. told1 \in [Endpoint -> Info \cup {NotTold}] /\ told1[e] # NotTold
        /\ \A f \in Endpoint \ {e} : told1[f] = h.told[f]
    BY NotToldAssumption DEF Handler
  <2> HIDE DEF told1
  <2> QED
    BY <1>1, <2>1, <2>2 DEF Handler
<1>2. CASE ~(discovering /\ h.told[e] = NotTold)
  BY <1>2 DEF ClientFound
<1> QED
  BY <1>1, <1>2

\* The client hears of the loss only while it discovers.
LEMMA ClientLostProperties ==
  ASSUME NEW h \in Handler, NEW e \in Endpoint
  PROVE  LET g == ClientLost(h, e)
         IN /\ g \in Handler
            /\ g.entries = h.entries /\ g.jobs = h.jobs /\ g.timers = h.timers
            /\ discovering => g.told[e] = NotTold
            /\ ~discovering => g.told = h.told
            /\ \A f \in Endpoint \ {e} : g.told[f] = h.told[f]
<1>1. CASE discovering
  <2> DEFINE told1 == [h.told EXCEPT ![e] = NotTold]
  <2>1. ClientLost(h, e) = [h EXCEPT !.told = told1]
    BY <1>1 DEF ClientLost, Handler
  <2>2. told1 \in [Endpoint -> Info \cup {NotTold}] /\ told1[e] = NotTold
        /\ \A f \in Endpoint \ {e} : told1[f] = h.told[f]
    BY DEF Handler
  <2> HIDE DEF told1
  <2> QED
    BY <1>1, <2>1, <2>2 DEF Handler
<1>2. CASE ~discovering
  BY <1>2 DEF ClientLost
<1> QED
  BY <1>1, <1>2

\* Setting and stopping alarms changes neither the entries nor what was told.
LEMMA StopAlarmProperties ==
  ASSUME NEW h \in Handler, NEW key
  PROVE  LET g == StopEndpointLostByMediumAlarm(h, key)
         IN /\ g \in Handler /\ g.entries = h.entries /\ g.told = h.told /\ g.jobs = h.jobs
            /\ SetsNone(h, g)
BY DEF StopEndpointLostByMediumAlarm, Handler, SetsNone

\* One alarm for each entry of the mediums that are turned off.
LEMMA StartAlarmsProperties ==
  ASSUME NEW h \in Handler, NEW off \in SUBSET Medium
  PROVE  LET g == StartEndpointLostByMediumAlarms(h, off)
         IN g \in Handler /\ g.entries = h.entries /\ g.told = h.told /\ g.jobs = h.jobs
<1> DEFINE lost == {x \in h.entries : x.medium \in off}
           keys == {<<x.id, x.medium>> : x \in lost}
           new == {[key |-> <<x.id, x.medium>>, ptr |-> {x}, inMap |-> TRUE] : x \in lost}
           ts == {t \in h.timers : ~(t.key \in keys /\ t.inMap)} \cup new
<1>1. \A x \in lost : x \in Entry /\ <<x.id, x.medium>> \in Key
  BY DEF Handler, Entry, Key
<1>2. keys \in SUBSET Key /\ new \in SUBSET Timer
  <2>1. keys \in SUBSET Key
    BY <1>1
  <2>2. ASSUME NEW x \in lost
        PROVE  [key |-> <<x.id, x.medium>>, ptr |-> {x}, inMap |-> TRUE] \in Timer
    <3>1. <<x.id, x.medium>> \in Key /\ {x} \in SUBSET Entry
      BY <1>1
    <3> QED
      BY <3>1 DEF Timer
  <2> QED
    BY <2>1, <2>2
<1>3. h.alarms \cup keys \in SUBSET Key /\ ts \in SUBSET Timer
  BY <1>2 DEF Handler
<1>4. StartEndpointLostByMediumAlarms(h, off) = [h EXCEPT !.alarms = @ \cup keys, !.timers = ts]
  BY DEF StartEndpointLostByMediumAlarms
<1> HIDE DEF keys, ts
<1> QED
  BY <1>3, <1>4 DEF Handler

\* A new entry is added to a record.
LEMMA AddEntryProperties ==
  ASSUME NEW h \in Handler, NEW x \in Entry
  PROVE  LET g == [h EXCEPT !.entries = @ \cup {x}]
         IN /\ g \in Handler /\ g.entries = h.entries \cup {x} /\ g.told = h.told /\ g.jobs = h.jobs
            /\ g.timers = h.timers
BY DEF Handler

-----------------------------------------------------------------------------
\* An entry is added for an endpoint that is known: the client need not be told.
LEMMA AppendInv ==
  ASSUME NEW h, HandlerInv(h), NEW x \in Entry, Known(h.entries, x.id),
         x.medium \in Medium => ~Present(h.entries, x.id, x.medium)
  PROVE  LET g == [h EXCEPT !.entries = @ \cup {x}]
         IN HandlerInv(g) /\ g.entries = h.entries \cup {x} /\ g.jobs = h.jobs /\ g.timers = h.timers
<1> DEFINE g == [h EXCEPT !.entries = @ \cup {x}]
<1>1. h \in Handler /\ IsFiniteSet(h.entries)
  BY DEF HandlerInv
<1>2. /\ g \in Handler /\ g.entries = h.entries \cup {x} /\ g.told = h.told /\ g.jobs = h.jobs
      /\ g.timers = h.timers
  BY <1>1, AddEntryProperties
<1> HIDE DEF g
<1>3. IsFiniteSet(g.entries)
  BY <1>1, <1>2, FS_AddElement
<1>4. \A y, z \in g.entries : y.id = z.id /\ y.medium = z.medium /\ y.medium \in Medium => y = z
  BY <1>2 DEF HandlerInv, Present
<1>5. \A e \in Endpoint : g.told[e] # NotTold <=> discovering /\ Known(g.entries, e)
  BY <1>2 DEF HandlerInv, Known
<1> QED
  BY <1>2, <1>3, <1>4, <1>5 DEF HandlerInv, g

\* A found endpoint replaces the entry of its medium whose info has changed, and the client
\* knows of it afterwards.
LEMMA OnEndpointFoundInv ==
  ASSUME NEW h, HandlerInv(h), NEW x \in Entry, discovering
  PROVE  LET g == OnEndpointFound(h, x)
         IN /\ HandlerInv(g) /\ SameJobs(h.jobs, g.jobs) /\ SetsNone(h, g)
            /\ Finds(h.entries, g.entries, x)
<1> DEFINE known == {y \in h.entries : y.id = x.id}
           same  == {y \in known : y.medium = x.medium}
           old   == CHOOSE y \in same : y.info # x.info
           lost  == ClientLost(h, x.id)
           gone  == Erase(lost, {old})
           added == [gone EXCEPT !.entries = @ \cup {x}]
           quiet == StopEndpointLostByMediumAlarm(added, <<x.id, x.medium>>)
           plus  == [h EXCEPT !.entries = @ \cup {x}]
<1>1. h \in Handler /\ x.id \in Endpoint /\ x.info \in Info /\ IsFiniteSet(h.entries)
  BY DEF HandlerInv, Entry
<1>2. CASE \E y \in same : y.info # x.info
  <2>1. old \in same
    BY <1>2
  <2>2. OnEndpointFound(h, x) = ClientFound(quiet, x.id, x.info)
    BY <1>2 DEF OnEndpointFound
  <2> HIDE DEF old
  <2>3. lost \in Handler /\ lost.entries = h.entries /\ lost.jobs = h.jobs /\ lost.timers = h.timers
        /\ \A f \in Endpoint \ {x.id} : lost.told[f] = h.told[f]
    BY <1>1, ClientLostProperties
  <2> HIDE DEF lost
  <2>4. gone \in Handler /\ gone.entries = h.entries \ {old} /\ gone.told = lost.told
        /\ SameJobs(h.jobs, gone.jobs) /\ SetsNone(h, gone)
    BY <2>3, EraseProperties DEF SetsNone
  <2> HIDE DEF gone
  <2>5. added \in Handler /\ added.entries = (h.entries \ {old}) \cup {x} /\ added.told = lost.told
        /\ SameJobs(h.jobs, added.jobs) /\ SetsNone(h, added)
    BY <2>4, AddEntryProperties DEF SetsNone
  <2> HIDE DEF added
  <2>6. quiet \in Handler /\ quiet.entries = (h.entries \ {old}) \cup {x}
        /\ quiet.told = lost.told /\ SameJobs(h.jobs, quiet.jobs) /\ SetsNone(h, quiet)
    BY <2>5, StopAlarmProperties DEF SetsNone
  <2> HIDE DEF quiet
  <2> DEFINE g == ClientFound(quiet, x.id, x.info)
  <2>7. /\ g \in Handler /\ g.entries = (h.entries \ {old}) \cup {x} /\ SameJobs(h.jobs, g.jobs)
        /\ SetsNone(h, g)
        /\ g.told[x.id] # NotTold
        /\ \A f \in Endpoint \ {x.id} : g.told[f] = h.told[f]
    BY <2>3, <2>6, <1>1, ClientFoundProperties DEF SetsNone
  <2> HIDE DEF g
  <2>8. IsFiniteSet(g.entries)
    <3>1. IsFiniteSet(h.entries \ {old})
      BY <1>1, FS_RemoveElement
    <3> QED
      BY <3>1, <2>7, FS_AddElement
  <2>9. \A y, z \in g.entries : y.id = z.id /\ y.medium = z.medium /\ y.medium \in Medium => y = z
    BY <2>1, <2>7 DEF HandlerInv
  <2>10. \A e \in Endpoint : g.told[e] # NotTold <=> discovering /\ Known(g.entries, e)
    BY <2>1, <2>7 DEF HandlerInv, Known
  <2>11. Finds(h.entries, g.entries, x)
    BY <2>1, <2>7 DEF Finds, Present
  <2> QED
    BY <2>2, <2>7, <2>8, <2>9, <2>10, <2>11 DEF HandlerInv, g
<1>3. CASE ~(\E y \in same : y.info # x.info) /\ same = {}
  <2>1. OnEndpointFound(h, x) = IF known = {} THEN ClientFound(plus, x.id, x.info) ELSE plus
    BY <1>3 DEF OnEndpointFound
  <2>2. plus \in Handler /\ plus.entries = h.entries \cup {x} /\ plus.told = h.told
        /\ plus.jobs = h.jobs /\ plus.timers = h.timers
    BY <1>1, AddEntryProperties
  <2> HIDE DEF plus
  <2> DEFINE g == OnEndpointFound(h, x)
  <2>3. /\ g \in Handler /\ g.entries = h.entries \cup {x} /\ SameJobs(h.jobs, g.jobs)
        /\ SetsNone(h, g)
        /\ known = {} => g.told[x.id] # NotTold
        /\ known # {} => g.told[x.id] = h.told[x.id]
        /\ \A f \in Endpoint \ {x.id} : g.told[f] = h.told[f]
    BY <2>1, <2>2, <1>1, ClientFoundProperties DEF SameJobs, SetsNone
  <2> HIDE DEF g
  <2>4. IsFiniteSet(g.entries)
    BY <1>1, <2>3, FS_AddElement
  <2>5. \A y, z \in g.entries : y.id = z.id /\ y.medium = z.medium /\ y.medium \in Medium => y = z
    BY <1>3, <2>3 DEF HandlerInv
  <2>6. \A e \in Endpoint : g.told[e] # NotTold <=> discovering /\ Known(g.entries, e)
    BY <1>1, <2>3 DEF HandlerInv, Known
  <2>7. Finds(h.entries, g.entries, x)
    BY <2>3 DEF Finds, Present
  <2> QED
    BY <2>3, <2>4, <2>5, <2>6, <2>7 DEF HandlerInv, g
<1>4. CASE ~(\E y \in same : y.info # x.info) /\ same # {}
  <2>1. OnEndpointFound(h, x) = h
    BY <1>4 DEF OnEndpointFound
  <2>2. Finds(h.entries, h.entries, x)
    BY <1>4 DEF Finds, Present
  <2> QED
    BY <2>1, <2>2 DEF SameJobs, SetsNone
<1> QED
  BY <1>2, <1>3, <1>4

\* The client is told of the loss exactly when the endpoint's last entry goes.
LEMMA OnEndpointLostInv ==
  ASSUME NEW h, HandlerInv(h), NEW e, NEW m
  PROVE  LET g == OnEndpointLost(h, e, m)
         IN /\ HandlerInv(g) /\ SameJobs(h.jobs, g.jobs) /\ SetsNone(h, g)
            /\ Loses(h.entries, g.entries, e, m)
<1> DEFINE known == {y \in h.entries : y.id = e}
           same  == {y \in known : y.medium = m}
           one   == CHOOSE y \in same : TRUE
           lost  == IF Cardinality(known) = 1 THEN ClientLost(h, e) ELSE h
           g     == Erase(lost, {one})
<1>1. CASE same = {}
  <2>1. OnEndpointLost(h, e, m) = h
    BY <1>1 DEF OnEndpointLost
  <2>2. Loses(h.entries, h.entries, e, m)
    BY <1>1 DEF Loses, Present
  <2> QED
    BY <2>1, <2>2 DEF SameJobs, SetsNone
<1>2. CASE same # {}
  <2>1. OnEndpointLost(h, e, m) = g
    BY <1>2 DEF OnEndpointLost
  <2>2. one \in same /\ h \in Handler
    BY <1>2 DEF HandlerInv
  <2> HIDE DEF one
  <2>3. e \in Endpoint
    BY <2>2 DEF Handler, Entry
  <2>4. IsFiniteSet(known) /\ (Cardinality(known) = 1 <=> known = {one})
    <3>1. IsFiniteSet(known)
      BY FS_Subset DEF HandlerInv
    <3>2. Cardinality(known) = 1 => \E y : known = {y}
      BY <3>1, FS_Singleton
    <3>3. known = {one} => Cardinality(known) = 1
      BY FS_Singleton
    <3> QED
      BY <3>1, <3>2, <3>3, <2>2
  <2>5. /\ lost \in Handler /\ lost.entries = h.entries /\ lost.jobs = h.jobs
        /\ lost.timers = h.timers
        /\ discovering /\ known = {one} => lost.told[e] = NotTold
        /\ ~discovering \/ known # {one} => lost.told = h.told
        /\ \A f \in Endpoint \ {e} : lost.told[f] = h.told[f]
    BY <2>2, <2>3, <2>4, ClientLostProperties
  <2> HIDE DEF lost
  <2>6. /\ g \in Handler /\ g.entries = h.entries \ {one} /\ g.told = lost.told
        /\ SameJobs(h.jobs, g.jobs) /\ SetsNone(h, g)
    BY <2>5, EraseProperties DEF SetsNone
  <2> HIDE DEF g
  <2>7. IsFiniteSet(g.entries)
    BY <2>6, FS_RemoveElement DEF HandlerInv
  <2>8. \A y, z \in g.entries : y.id = z.id /\ y.medium = z.medium /\ y.medium \in Medium => y = z
    BY <2>6 DEF HandlerInv
  <2>9. \A f \in Endpoint : g.told[f] # NotTold <=> discovering /\ Known(g.entries, f)
    BY <2>2, <2>3, <2>5, <2>6 DEF HandlerInv, Known
  <2>10. Loses(h.entries, g.entries, e, m)
    BY <2>2, <2>6 DEF HandlerInv, Loses, Present
  <2> QED
    BY <2>1, <2>6, <2>7, <2>8, <2>9, <2>10 DEF HandlerInv
<1> QED
  BY <1>1, <1>2

\* The calls of the BLE handlers, for one medium and for both.
LEMMA FoundOverBleInv ==
  ASSUME NEW h, HandlerInv(h), NEW a \in Advert, NEW d \in Device, discovering
  PROVE  LET g == FoundOverBle(h, a, d)
         IN /\ HandlerInv(g) /\ SameJobs(h.jobs, g.jobs) /\ SetsNone(h, g)
            /\ \E S : /\ Finds(h.entries, S, EntryOf(a, "BLE", d))
                      /\ S = g.entries \/ Finds(S, g.entries, EntryOf(a, "BLUETOOTH", d))
<1> DEFINE found(f, m) == OnEndpointFound(StopEndpointLostByMediumAlarm(f, <<a.id, m>>),
                                          EntryOf(a, m, d))
<1>1. ASSUME NEW f, HandlerInv(f), NEW m \in Medium
      PROVE  /\ HandlerInv(found(f, m)) /\ SameJobs(f.jobs, found(f, m).jobs)
             /\ SetsNone(f, found(f, m)) /\ Finds(f.entries, found(f, m).entries, EntryOf(a, m, d))
  <2> DEFINE s == StopEndpointLostByMediumAlarm(f, <<a.id, m>>)
  <2>1. s \in Handler /\ s.entries = f.entries /\ s.told = f.told /\ s.jobs = f.jobs
        /\ SetsNone(f, s)
    BY <1>1, StopAlarmProperties DEF HandlerInv
  <2> HIDE DEF s
  <2>2. HandlerInv(s)
    BY <1>1, <2>1 DEF HandlerInv
  <2>3. EntryOf(a, m, d) \in Entry
    BY DiscoveryAssumption DEF EntryOf, Entry, Allowed
  <2> DEFINE g == OnEndpointFound(s, EntryOf(a, m, d))
  <2>4. HandlerInv(g) /\ SameJobs(s.jobs, g.jobs) /\ SetsNone(s, g)
        /\ Finds(s.entries, g.entries, EntryOf(a, m, d))
    BY <2>2, <2>3, OnEndpointFoundInv
  <2> QED
    BY <2>1, <2>4 DEF s, SetsNone
<1>2. FoundOverBle(h, a, d) = IF d \in MacDevice THEN found(found(h, "BLE"), "BLUETOOTH")
                              ELSE found(h, "BLE")
  BY DEF FoundOverBle
<1> HIDE DEF found
<1> DEFINE ble == found(h, "BLE")
           both == found(ble, "BLUETOOTH")
<1>3. HandlerInv(ble) /\ SameJobs(h.jobs, ble.jobs) /\ SetsNone(h, ble)
      /\ Finds(h.entries, ble.entries, EntryOf(a, "BLE", d))
  BY <1>1 DEF Medium
<1>4. HandlerInv(both) /\ SameJobs(ble.jobs, both.jobs) /\ SetsNone(ble, both)
      /\ Finds(ble.entries, both.entries, EntryOf(a, "BLUETOOTH", d))
  BY <1>1, <1>3 DEF Medium
<1>5. SameJobs(h.jobs, both.jobs) /\ SetsNone(h, both)
  BY <1>3, <1>4 DEF SameJobs, SetsNone
<1> QED
  BY <1>2, <1>3, <1>4, <1>5

-----------------------------------------------------------------------------
\* A job starts from the handler's state with the rest of the queue.
LEMMA NowInv ==
  ASSUME IInv, jobs # <<>>
  PROVE  HandlerInv(Now) /\ Now.jobs = Tail(jobs)
<1>1. Tail(jobs) \in Seq(Job)
  BY HeadTailProperties DEF IInv, TypeInv
<1> QED
  BY <1>1 DEF IInv, TypeInv, HandlerInv, Handler, Now, OneEntryPerMedium, NothingToldOutside,
              ReportedMatchesDiscovered, Known

\* The job at the head of the queue.
LEMMA HeadJob ==
  ASSUME IInv, jobs # <<>>
  PROVE  /\ Head(jobs) \in Job /\ Head(jobs) = jobs[1]
         /\ Head(jobs).kind \in {"found", "changed", "lost"} =>
              /\ Head(jobs).adv \in Advert /\ Head(jobs).dev \in Device
              /\ btName[Head(jobs).dev] \in Advert
         /\ Head(jobs).kind = "request" => Head(jobs).mac \in Device \cup {NoMac}
<1>1. Head(jobs) \in Job /\ Head(jobs) = jobs[1]
  BY HeadTailProperties DEF IInv, TypeInv
<1>2. ASSUME Head(jobs).kind \in {"found", "changed", "lost"} PROVE Head(jobs) \in ReportJob
  BY <1>1, <1>2 DEF Job, AlarmJob, UpdateJob, SessionJob, RequestJob
<1>3. ASSUME Head(jobs).kind = "request" PROVE Head(jobs) \in RequestJob
  BY <1>1, <1>3 DEF Job, AlarmJob, UpdateJob, SessionJob, ReportJob
<1> QED
  BY <1>1, <1>2, <1>3 DEF ReportJob, RequestJob, IInv, TypeInv

\* A job that leaves the session as it is, whatever calls it chains.
LEMMA BecomeInv ==
  ASSUME IInv, jobs # <<>>, NEW h, HandlerInv(h), SameJobs(Tail(jobs), h.jobs), Become(h),
         UNCHANGED <<discovering, btName, requests>>,
         UNCHANGED calling \/ (Head(jobs).kind \in AppKind /\ calling' = FALSE)
  PROVE  IInv'
<1>1. TypeInv' /\ IsFiniteSet(entries')
  BY DEF Become, HandlerInv, Handler, IInv, TypeInv
<1>2. OneEntryPerMedium' /\ NothingToldOutside' /\ ReportedMatchesDiscovered'
  BY DEF Become, HandlerInv, Known, OneEntryPerMedium, NothingToldOutside,
         ReportedMatchesDiscovered
<1>3. CallsInv'
  <2>1. /\ Len(jobs) \in Nat \ {0} /\ Head(jobs) = jobs[1]
        /\ Len(Tail(jobs)) = Len(jobs) - 1
        /\ \A i \in 1..Len(Tail(jobs)) : Tail(jobs)[i] = jobs[i + 1]
    BY EmptySeq, HeadTailProperties DEF IInv, TypeInv
  <2>2. jobs' = h.jobs
    BY DEF Become
  <2>3. Len(jobs') = Len(jobs) - 1
    BY <2>1, <2>2 DEF SameJobs
  <2>4. \A i \in 1..Len(jobs') : i + 1 \in 1..Len(jobs) /\ jobs'[i].kind = jobs[i + 1].kind
    <3> SUFFICES ASSUME NEW i \in 1..Len(jobs')
                 PROVE  i + 1 \in 1..Len(jobs) /\ jobs'[i].kind = jobs[i + 1].kind
      OBVIOUS
    <3>1. i + 1 \in 1..Len(jobs) /\ i \in 1..Len(Tail(jobs))
      BY <2>1, <2>3
    <3>2. h.jobs[i].kind = Tail(jobs)[i].kind /\ Tail(jobs)[i] = jobs[i + 1]
      BY <2>1, <3>1 DEF SameJobs
    <3> QED
      BY <2>2, <3>1, <3>2
  <2>5. Head(jobs).kind \in AppKind => \A i \in 1..Len(jobs') : jobs'[i].kind \notin AppKind
    BY <2>1, <2>4 DEF IInv, CallsInv
  <2>6. \A i \in 1..Len(jobs') : jobs'[i].kind \in AppKind => calling'
    <3>1. \A i \in 1..Len(jobs') : jobs'[i].kind \in AppKind => calling
      BY <2>4 DEF IInv, CallsInv
    <3> QED
      BY <2>5, <3>1
  <2>7. ASSUME NEW i \in 1..Len(jobs'), NEW j \in 1..Len(jobs'),
               jobs'[i].kind \in AppKind, jobs'[j].kind \in AppKind
        PROVE  i = j
    <3>1. i + 1 = j + 1
      BY <2>4, <2>7 DEF IInv, CallsInv
    <3> QED
      BY <3>1
  <2>8. \A i \in 1..Len(jobs') : jobs'[i].kind = "start" => ~discovering'
    BY <2>4 DEF IInv, CallsInv
  <2> QED
    BY <2>6, <2>7, <2>8 DEF CallsInv
<1> QED
  BY <1>1, <1>2, <1>3 DEF IInv

\* A job is added to the queue: a report, an alarm's job, or the only call.
LEMMA PostInv ==
  ASSUME IInv, NEW j \in Job, Post(j),
         UNCHANGED <<discovering, told, entries, alarms>>,
         timers' \in SUBSET timers, requests' \in Nat,
         Advert # {} => btName' \in [Device -> Advert],
         \/ j.kind \notin AppKind /\ UNCHANGED calling
         \/ ~calling /\ calling' = TRUE /\ (j.kind = "start" => ~discovering)
  PROVE  IInv'
<1>1. jobs' = Append(jobs, j) /\ jobs \in Seq(Job)
  BY DEF Post, IInv, TypeInv
<1>2. /\ jobs' \in Seq(Job) /\ Len(jobs) \in Nat /\ Len(jobs') = Len(jobs) + 1
      /\ jobs'[Len(jobs) + 1] = j
      /\ \A i \in 1..Len(jobs) : jobs'[i] = jobs[i]
  BY <1>1
<1>3. TypeInv' /\ IsFiniteSet(entries')
  BY <1>2 DEF IInv, TypeInv
<1>4. OneEntryPerMedium' /\ NothingToldOutside' /\ ReportedMatchesDiscovered'
  BY DEF IInv, OneEntryPerMedium, NothingToldOutside, ReportedMatchesDiscovered
<1>5. CallsInv'
  <2>1. \A i \in 1..Len(jobs') : i \in 1..Len(jobs) \/ i = Len(jobs) + 1
    BY <1>2
  <2>2. CASE j.kind \notin AppKind /\ UNCHANGED calling
    <3>1. j.kind # "start"
      BY <2>2 DEF AppKind
    <3> QED
      BY <1>2, <2>1, <2>2, <3>1 DEF IInv, CallsInv
  <2>3. CASE ~calling /\ calling' = TRUE /\ (j.kind = "start" => ~discovering)
    BY <1>2, <2>1, <2>3 DEF IInv, CallsInv
  <2> QED
    BY <2>2, <2>3
<1> QED
  BY <1>3, <1>4, <1>5 DEF IInv

-----------------------------------------------------------------------------
\* Discovery starts with nothing found and nothing told.
LEMMA InitInv == Init => IInv
<1> SUFFICES ASSUME Init PROVE IInv
  OBVIOUS
<1>1. TypeInv /\ IsFiniteSet(entries)
  BY EmptySeq, FS_EmptySet DEF Init, TypeInv
<1>2. CallsInv
  BY EmptySeq DEF Init, CallsInv
<1>3. NothingToldOutside /\ OneEntryPerMedium /\ ReportedMatchesDiscovered
  BY DEF Init, NothingToldOutside, OneEntryPerMedium, ReportedMatchesDiscovered
<1> QED
  BY <1>1, <1>2, <1>3 DEF IInv

\* StartDiscovery clears the entries of the last session, of which nothing was told.
LEMMA StartInv == ASSUME IInv, StartDiscovery PROVE IInv'
<1>1. jobs # <<>> /\ Head(jobs).kind = "start" /\ calling' = FALSE /\ requests' = requests
  BY DEF StartDiscovery, Head1, counts
<1>2. HandlerInv(Now) /\ Now.jobs = Tail(jobs)
  BY <1>1, NowInv
<1>3. CASE Become(Now) /\ UNCHANGED <<discovering, options, platform>>
  BY <1>1, <1>2, <1>3, BecomeInv DEF SameJobs, AppKind, platform
<1>4. CASE Become(Erase(Now, entries)) /\ discovering' = TRUE /\ UNCHANGED btName
  <2> DEFINE h == Erase(Now, entries)
  <2>1. Now \in Handler /\ Now.entries = entries /\ Now.told = told
    BY <1>2 DEF HandlerInv, Now
  <2>0. /\ h \in Handler /\ h.entries = Now.entries \ entries /\ h.told = Now.told
        /\ SameJobs(Now.jobs, h.jobs)
    BY <2>1, EraseProperties, Zenon
  <2> HIDE DEF h
  <2>2. h \in Handler /\ h.entries = {} /\ h.told = told /\ SameJobs(Tail(jobs), h.jobs)
    BY <1>2, <2>0, <2>1
  <2>3. /\ Len(jobs) \in Nat \ {0} /\ Head(jobs) = jobs[1]
        /\ Len(Tail(jobs)) = Len(jobs) - 1
        /\ \A i \in 1..Len(Tail(jobs)) : Tail(jobs)[i] = jobs[i + 1]
    BY <1>1, EmptySeq, HeadTailProperties DEF IInv, TypeInv
  <2>4. ~discovering
    BY <1>1, <2>3 DEF IInv, CallsInv
  <2>5. \A e \in Endpoint : told[e] = NotTold
    BY <2>4 DEF IInv, NothingToldOutside
  <2>6. entries' = {} /\ told' = told /\ jobs' = h.jobs /\ alarms' = h.alarms /\ timers' = h.timers
    BY <1>4, <2>2 DEF Become, h
  <2>7. TypeInv' /\ IsFiniteSet(entries')
    BY <1>1, <1>4, <2>2, <2>6, FS_EmptySet DEF Handler, IInv, TypeInv
  <2>8. \A i \in 1..Len(jobs') : jobs'[i].kind \notin AppKind
    <3> SUFFICES ASSUME NEW i \in 1..Len(jobs') PROVE jobs'[i].kind \notin AppKind
      OBVIOUS
    <3>1. i \in 1..Len(Tail(jobs)) /\ jobs'[i].kind = Tail(jobs)[i].kind
      BY <2>2, <2>6 DEF SameJobs
    <3>2. i + 1 \in 1..Len(jobs) /\ i + 1 # 1 /\ 1 \in 1..Len(jobs)
      BY <2>3, <3>1
    <3>3. jobs[1].kind \in AppKind
      BY <1>1, <2>3 DEF AppKind
    <3> QED
      BY <2>3, <3>1, <3>2, <3>3 DEF IInv, CallsInv
  <2>9. CallsInv'
    BY <2>8 DEF CallsInv, AppKind
  <2>10. NothingToldOutside' /\ OneEntryPerMedium' /\ ReportedMatchesDiscovered'
    BY <1>4, <2>5, <2>6 DEF NothingToldOutside, OneEntryPerMedium, ReportedMatchesDiscovered
  <2> QED
    BY <2>7, <2>9, <2>10 DEF IInv
<1> QED
  BY <1>3, <1>4 DEF StartDiscovery, Rescan

\* StopDiscovery keeps the entries and tells nothing of them.
LEMMA StopInv == ASSUME IInv, StopDiscovery PROVE IInv'
<1> DEFINE silence == [e \in Endpoint |-> NotTold]
           h == [Now EXCEPT !.told = silence]
<1>1. jobs # <<>> /\ Head(jobs).kind = "stop" /\ calling' = FALSE /\ discovering' = FALSE
      /\ UNCHANGED <<btName, requests>> /\ Become(h)
  BY DEF StopDiscovery, Head1, Rescan, counts
<1>2. HandlerInv(Now) /\ Now.jobs = Tail(jobs)
  BY <1>1, NowInv
<1>3. entries' = entries /\ told' = silence /\ alarms' = alarms /\ timers' = timers
      /\ jobs' = Tail(jobs)
  BY <1>1 DEF Become, Now
<1>4. /\ Len(jobs) \in Nat \ {0} /\ Head(jobs) = jobs[1]
      /\ Tail(jobs) \in Seq(Job) /\ Len(Tail(jobs)) = Len(jobs) - 1
      /\ \A i \in 1..Len(Tail(jobs)) : Tail(jobs)[i] = jobs[i + 1]
  BY <1>1, EmptySeq, HeadTailProperties DEF IInv, TypeInv
<1>5. TypeInv' /\ IsFiniteSet(entries')
  BY <1>1, <1>3, <1>4 DEF IInv, TypeInv
<1>6. CallsInv'
  <2>1. ASSUME NEW i \in 1..Len(jobs') PROVE jobs'[i].kind \notin AppKind
    <3>1. i + 1 \in 1..Len(jobs) /\ i + 1 # 1 /\ 1 \in 1..Len(jobs) /\ jobs'[i] = jobs[i + 1]
      BY <1>3, <1>4
    <3>2. jobs[1].kind \in AppKind
      BY <1>1, <1>4 DEF AppKind
    <3> QED
      BY <3>1, <3>2 DEF IInv, CallsInv
  <2> QED
    BY <2>1 DEF CallsInv, AppKind
<1>7. NothingToldOutside' /\ OneEntryPerMedium' /\ ReportedMatchesDiscovered'
  BY <1>1, <1>3 DEF IInv, NothingToldOutside, OneEntryPerMedium, ReportedMatchesDiscovered
<1> QED
  BY <1>5, <1>6, <1>7 DEF IInv

\* UpdateDiscoveryOptions sets alarms and leaves the entries to them.
LEMMA UpdateInv == ASSUME IInv, UpdateDiscoveryOptions PROVE IInv'
<1>1. /\ jobs # <<>> /\ Head(jobs).kind = "update" /\ calling' = FALSE
      /\ UNCHANGED <<discovering, btName, requests>>
      /\ \E off \in SUBSET Medium : Become(StartEndpointLostByMediumAlarms(Now, off))
  BY DEF UpdateDiscoveryOptions, Head1, Rescan, counts
<1>2. HandlerInv(Now) /\ Now.jobs = Tail(jobs)
  BY <1>1, NowInv
<1>3. PICK off \in SUBSET Medium : Become(StartEndpointLostByMediumAlarms(Now, off))
  BY <1>1
<1> DEFINE h == StartEndpointLostByMediumAlarms(Now, off)
<1>4. h \in Handler /\ h.entries = Now.entries /\ h.told = Now.told /\ h.jobs = Now.jobs
  BY <1>2, StartAlarmsProperties DEF HandlerInv
<1> HIDE DEF h
<1>5. HandlerInv(h) /\ SameJobs(Tail(jobs), h.jobs)
  BY <1>2, <1>4 DEF HandlerInv, SameJobs
<1> QED
  BY <1>1, <1>3, <1>5, BecomeInv DEF h, AppKind

\* RequestConnection adds entries for an endpoint it knows: over Bluetooth if there is none, and
\* over WebRTC.
LEMMA RequestAppends ==
  ASSUME IInv, jobs # <<>>, NEW y \in entries, NEW mac \in Device \cup {NoMac}
  PROVE  LET g == AppendWebRTCEndpoint(AppendRemoteBluetoothMacAddressEndpoint(Now, y, mac), y)
         IN /\ HandlerInv(g) /\ g.jobs = Tail(jobs) /\ g.timers = timers
            /\ entries \subseteq g.entries
            /\ \A x \in g.entries \ entries : x.medium \in {"BLUETOOTH", "WEB_RTC"}
<1> DEFINE b == [y EXCEPT !.medium = "BLUETOOTH", !.dev = mac, !.rtc = FALSE]
           w == [y EXCEPT !.medium = "WEB_RTC", !.dev = requests, !.rtc = TRUE]
           h == AppendRemoteBluetoothMacAddressEndpoint(Now, y, mac)
           g == AppendWebRTCEndpoint(h, y)
<1>1. HandlerInv(Now) /\ Now.jobs = Tail(jobs) /\ Now.entries = entries /\ Now.timers = timers
  BY NowInv DEF Now
<1>2. /\ y \in Entry /\ w \in Entry /\ w.id = y.id /\ w.medium = "WEB_RTC"
      /\ b.id = y.id /\ b.medium = "BLUETOOTH"
      /\ mac # NoMac => b \in Entry
  <2>1. y \in Entry /\ requests \in Nat
    BY DEF IInv, TypeInv
  <2>2. w \in Entry /\ w.id = y.id /\ w.medium = "WEB_RTC"
    BY <2>1 DEF Entry, Allowed
  <2>3. b.id = y.id /\ b.medium = "BLUETOOTH"
    BY <2>1 DEF Entry
  <2>4. ASSUME mac # NoMac PROVE b \in Entry
    <3>1. mac \in Device \cup Nat
      BY <2>4
    <3> QED
      BY <2>1, <3>1 DEF Entry, Allowed, Medium
  <2> QED
    BY <2>1, <2>2, <2>3, <2>4
<1>3. /\ HandlerInv(h) /\ h.jobs = Tail(jobs) /\ h.timers = timers
      /\ h.entries = entries \/ h.entries = entries \cup {b}
  <2>1. CASE h = Now
    BY <1>1, <2>1
  <2>2. CASE h # Now
    <3>1. /\ h = [Now EXCEPT !.entries = @ \cup {b}] /\ mac # NoMac
          /\ \A x \in Now.entries : x.id = y.id => x.medium # "BLUETOOTH"
      BY <2>2 DEF AppendRemoteBluetoothMacAddressEndpoint
    <3> HIDE DEF b, h
    <3>2. Known(Now.entries, b.id) /\ ~Present(Now.entries, b.id, b.medium)
      BY <1>1, <1>2, <3>1 DEF Known, Present
    <3> QED
      BY <1>1, <1>2, <3>1, <3>2, AppendInv
  <2> QED
    BY <2>1, <2>2
<1> HIDE DEF h
<1>4. /\ HandlerInv(g) /\ g.jobs = Tail(jobs) /\ g.timers = timers
      /\ g.entries = h.entries \/ g.entries = h.entries \cup {w}
  <2>1. CASE g = h
    BY <1>3, <2>1
  <2>2. CASE g # h
    <3>1. g = [h EXCEPT !.entries = @ \cup {w}]
      BY <2>2 DEF AppendWebRTCEndpoint
    <3> HIDE DEF w, g
    <3>2. Known(h.entries, w.id) /\ w.medium \notin Medium
      BY <1>2, <1>3 DEF Known, Medium
    <3> QED
      BY <1>2, <1>3, <3>1, <3>2, AppendInv
  <2> QED
    BY <2>1, <2>2
<1> HIDE DEF b, w, g
<1> QED
  BY <1>2, <1>3, <1>4 DEF g, h

\* RequestConnection.
LEMMA RequestInv == ASSUME IInv, RequestConnection PROVE IInv'
<1>1. /\ jobs # <<>> /\ Head(jobs).kind = "request" /\ calling' = FALSE
      /\ UNCHANGED <<discovering, btName, requests>>
  BY DEF RequestConnection, Head1, platform, counts
<1>2. CASE Become(Now)
  BY <1>1, <1>2, NowInv, BecomeInv DEF SameJobs, AppKind
<1>3. CASE ~Become(Now)
  <2> DEFINE g(y) == AppendWebRTCEndpoint(
                       AppendRemoteBluetoothMacAddressEndpoint(Now, y, Head(jobs).mac), y)
  <2>1. PICK y \in entries : Become(g(y))
    BY <1>3 DEF RequestConnection
  <2>2. HandlerInv(g(y)) /\ SameJobs(Tail(jobs), g(y).jobs)
    BY <1>1, HeadJob, RequestAppends DEF SameJobs
  <2> HIDE DEF g
  <2> QED
    BY <1>1, <2>1, <2>2, BecomeInv DEF AppKind
<1> QED
  BY <1>2, <1>3

\* The jobs of the mediums' reports.
LEMMA ReportInv ==
  ASSUME IInv, jobs # <<>>, Head(jobs).kind \in {"found", "changed", "lost"}, Kept, discovering,
         NEW h, HandlerInv(h), SameJobs(Tail(jobs), h.jobs), Become(h)
  PROVE  IInv'
BY BecomeInv DEF Kept, platform, counts

\* A report that is handled outside a session.
LEMMA DroppedInv ==
  ASSUME IInv, jobs # <<>>, Kept, Dropped
  PROVE  IInv'
<1>1. HandlerInv(Now) /\ SameJobs(Tail(jobs), Now.jobs)
  BY NowInv DEF SameJobs
<1> QED
  BY <1>1, BecomeInv DEF Kept, platform, Dropped, counts

\* Bluetooth: the name that is read when the job runs is one that a device may have.
LEMMA BluetoothInv ==
  ASSUME IInv, BluetoothDeviceDiscoveredHandler \/ BluetoothNameChangedHandler
               \/ BluetoothDeviceLostHandler
  PROVE  IInv'
<1>1. jobs # <<>> /\ Kept /\ Head(jobs).kind \in {"found", "changed", "lost"}
  BY DEF BluetoothDeviceDiscoveredHandler, BluetoothNameChangedHandler,
         BluetoothDeviceLostHandler, Report, Head1
<1> SUFFICES ASSUME discovering PROVE IInv'
  BY <1>1, DroppedInv DEF BluetoothDeviceDiscoveredHandler, BluetoothNameChangedHandler,
         BluetoothDeviceLostHandler
<1> DEFINE d == Head(jobs).dev
           x == EntryOf(btName[d], "BLUETOOTH", d)
<1>2. HandlerInv(Now) /\ Now.jobs = Tail(jobs)
  BY <1>1, NowInv
<1>3. x \in Entry
  BY <1>1, HeadJob, DiscoveryAssumption DEF EntryOf, Entry, Medium, Allowed
<1> HIDE DEF x
<1>4. ASSUME NEW h, HandlerInv(h), SameJobs(Tail(jobs), h.jobs), Become(OnEndpointFound(h, x))
      PROVE  IInv'
  <2>1. HandlerInv(OnEndpointFound(h, x)) /\ SameJobs(h.jobs, OnEndpointFound(h, x).jobs)
    BY <1>3, <1>4, OnEndpointFoundInv
  <2>2. SameJobs(Tail(jobs), OnEndpointFound(h, x).jobs)
    BY <1>4, <2>1 DEF SameJobs
  <2> QED
    BY <1>1, <1>4, <2>1, <2>2, ReportInv
<1>5. SameJobs(Tail(jobs), Now.jobs)
  BY <1>2 DEF SameJobs
<1>6. CASE BluetoothDeviceDiscoveredHandler
  BY <1>2, <1>4, <1>5, <1>6 DEF BluetoothDeviceDiscoveredHandler, x
<1>7. CASE BluetoothNameChangedHandler
  <2>1. ASSUME NEW e, NEW m, Become(OnEndpointFound(OnEndpointLost(Now, e, m), x)) PROVE IInv'
    <3>1. HandlerInv(OnEndpointLost(Now, e, m))
          /\ SameJobs(Tail(jobs), OnEndpointLost(Now, e, m).jobs)
      BY <1>2, OnEndpointLostInv
    <3> QED
      BY <2>1, <3>1, <1>4
  <2> QED
    BY <1>2, <1>4, <1>5, <1>7, <2>1 DEF BluetoothNameChangedHandler, x
<1>8. CASE BluetoothDeviceLostHandler
  <2> DEFINE h == OnEndpointLost(Now, Head(jobs).adv.id, "BLUETOOTH")
  <2>1. HandlerInv(h) /\ SameJobs(Tail(jobs), h.jobs)
    BY <1>2, OnEndpointLostInv
  <2> QED
    BY <1>1, <1>8, <2>1, ReportInv DEF BluetoothDeviceLostHandler
<1> QED
  BY <1>6, <1>7, <1>8

\* BLE, either version.
LEMMA BleInv ==
  ASSUME IInv, BlePeripheralDiscoveredHandler \/ BlePeripheralLostHandler
               \/ BleV2PeripheralDiscoveredHandler \/ BleV2PeripheralLostHandler
  PROVE  IInv'
<1> USE DEF BlePeripheralDiscoveredHandler, BlePeripheralLostHandler,
            BleV2PeripheralDiscoveredHandler, BleV2PeripheralLostHandler
<1>1. jobs # <<>> /\ Kept /\ Head(jobs).kind \in {"found", "changed", "lost"}
  BY DEF Report, Head1
<1>2. CASE Dropped
  BY <1>1, <1>2, DroppedInv
<1>3. HandlerInv(Now) /\ Now.jobs = Tail(jobs)
  BY <1>1, NowInv
<1>4. ASSUME discovering, Become(FoundOverBle(Now, Head(jobs).adv, Head(jobs).dev)) PROVE IInv'
  <2> DEFINE h == FoundOverBle(Now, Head(jobs).adv, Head(jobs).dev)
  <2>1. HandlerInv(h) /\ SameJobs(Tail(jobs), h.jobs)
    BY <1>1, <1>3, <1>4, HeadJob, FoundOverBleInv
  <2> QED
    BY <1>1, <1>4, <2>1, ReportInv
<1>5. ASSUME discovering, NEW e, Become(OnEndpointLost(Now, e, "BLE")) PROVE IInv'
  <2> DEFINE h == OnEndpointLost(Now, e, "BLE")
  <2>1. HandlerInv(h) /\ SameJobs(Tail(jobs), h.jobs)
    BY <1>3, OnEndpointLostInv
  <2> QED
    BY <1>1, <1>5, <2>1, ReportInv
<1>6. ASSUME discovering, NEW e, Become(OnEndpointLost(OnEndpointLost(Now, e, "BLE"), e, "BLUETOOTH"))
      PROVE  IInv'
  <2> DEFINE g == OnEndpointLost(Now, e, "BLE")
             h == OnEndpointLost(g, e, "BLUETOOTH")
  <2>1. HandlerInv(g) /\ SameJobs(Tail(jobs), g.jobs)
    BY <1>3, OnEndpointLostInv
  <2>2. HandlerInv(h) /\ SameJobs(g.jobs, h.jobs)
    BY <2>1, OnEndpointLostInv
  <2>3. SameJobs(Tail(jobs), h.jobs)
    BY <2>1, <2>2 DEF SameJobs
  <2> QED
    BY <1>1, <1>6, <2>2, <2>3, ReportInv
<1> QED
  BY <1>2, <1>4, <1>5, <1>6

\* Wi-Fi LAN.
LEMMA WifiLanInv ==
  ASSUME IInv, WifiLanServiceDiscoveredHandler \/ WifiLanServiceLostHandler
  PROVE  IInv'
<1> USE DEF WifiLanServiceDiscoveredHandler, WifiLanServiceLostHandler
<1>1. jobs # <<>> /\ Kept /\ Head(jobs).kind \in {"found", "changed", "lost"}
  BY DEF Report, Head1
<1>2. CASE Dropped
  BY <1>1, <1>2, DroppedInv
<1>3. HandlerInv(Now) /\ Now.jobs = Tail(jobs)
  BY <1>1, NowInv
<1> DEFINE a == Head(jobs).adv
           x == EntryOf(a, "WIFI_LAN", Head(jobs).dev)
           s == StopEndpointLostByMediumAlarm(Now, <<a.id, "WIFI_LAN">>)
<1>4. ASSUME discovering, Become(OnEndpointFound(s, x)) PROVE IInv'
  <2>1. s \in Handler /\ s.entries = Now.entries /\ s.told = Now.told /\ s.jobs = Now.jobs
    BY <1>3, StopAlarmProperties DEF HandlerInv
  <2>2. x \in Entry
    BY <1>1, HeadJob, DiscoveryAssumption DEF EntryOf, Entry, Medium, Allowed
  <2> HIDE DEF s, x
  <2>3. HandlerInv(s)
    BY <1>3, <2>1 DEF HandlerInv
  <2>4. HandlerInv(OnEndpointFound(s, x)) /\ SameJobs(Tail(jobs), OnEndpointFound(s, x).jobs)
    BY <1>3, <1>4, <2>1, <2>2, <2>3, OnEndpointFoundInv
  <2> QED
    BY <1>1, <1>4, <2>4, ReportInv
<1>5. ASSUME discovering, Become(OnEndpointLost(Now, a.id, "WIFI_LAN")) PROVE IInv'
  <2> DEFINE h == OnEndpointLost(Now, a.id, "WIFI_LAN")
  <2>1. HandlerInv(h) /\ SameJobs(Tail(jobs), h.jobs)
    BY <1>3, OnEndpointLostInv
  <2> QED
    BY <1>1, <1>5, <2>1, ReportInv
<1> QED
  BY <1>2, <1>4, <1>5

\* An alarm's job, also one that reads an endpoint that was destroyed.
LEMMA AlarmInv == ASSUME IInv, EndpointLostByMediumAlarm PROVE IInv'
<1>1. jobs # <<>> /\ UNCHANGED <<discovering, calling, btName, requests>>
  BY DEF EndpointLostByMediumAlarm, Head1, platform, counts
<1>2. HandlerInv(Now) /\ Now.jobs = Tail(jobs)
  BY <1>1, NowInv
<1> DEFINE key == Head(jobs).key
           left == alarms \ {key}
           ts == {IF t.key = key THEN [t EXCEPT !.inMap = FALSE] ELSE t : t \in timers}
           h == [Now EXCEPT !.alarms = left, !.timers = ts]
<1>3. ts \in SUBSET Timer /\ left \in SUBSET Key
  BY DEF IInv, TypeInv, Timer
<1> HIDE DEF ts, left
<1>4. h \in Handler /\ h.entries = Now.entries /\ h.told = Now.told /\ h.jobs = Now.jobs
  BY <1>2, <1>3 DEF HandlerInv, Handler
<1> HIDE DEF h
<1>5. HandlerInv(h) /\ SameJobs(Tail(jobs), h.jobs)
  BY <1>2, <1>4 DEF HandlerInv, SameJobs
<1>6. CASE Become(Now)
  BY <1>1, <1>2, <1>6, BecomeInv DEF SameJobs
<1>7. CASE Become(h)
  BY <1>1, <1>5, <1>7, BecomeInv
<1>8. ASSUME NEW e, NEW m, Become(OnEndpointLost(h, e, m)) PROVE IInv'
  <2> DEFINE g == OnEndpointLost(h, e, m)
  <2>1. HandlerInv(g) /\ SameJobs(h.jobs, g.jobs)
    BY <1>5, OnEndpointLostInv
  <2>2. SameJobs(Tail(jobs), g.jobs)
    BY <1>5, <2>1 DEF SameJobs
  <2> QED
    BY <1>1, <1>8, <2>1, <2>2, BecomeInv
<1> QED
  BY <1>6, <1>7, <1>8 DEF EndpointLostByMediumAlarm, h, ts, left, Now

\* What the mediums, the timers and the application post.
LEMMA PostedInv == ASSUME IInv, Platform \/ Application PROVE IInv'
<1>1. ASSUME NEW m \in Medium, NEW d \in Device, NEW a \in Advert,
             Appear(m, d, a) \/ Rename(m, d, a) \/ Vanish(m, d, a)
      PROVE  IInv'
  <2>1. PICK k \in {"found", "changed", "lost"} :
          Post([kind |-> k, medium |-> m, dev |-> d, adv |-> a])
    BY <1>1 DEF Appear, Rename, Vanish, Reports
  <2> DEFINE j == [kind |-> k, medium |-> m, dev |-> d, adv |-> a]
  <2>2. j \in Job /\ j.kind \notin AppKind
    BY DEF Job, ReportJob, AppKind
  <2>3. UNCHANGED <<discovering, told, entries, alarms, timers, calling>> /\ requests' \in Nat
    BY <1>1 DEF Appear, Rename, Vanish, client, handler, IInv, TypeInv
  <2>4. Advert # {} => btName' \in [Device -> Advert]
    BY <1>1 DEF Appear, Rename, Vanish, IInv, TypeInv
  <2> QED
    BY <2>1, <2>2, <2>3, <2>4, PostInv
<1>2. ASSUME NEW t \in timers, AlarmFires(t) PROVE IInv'
  <2> DEFINE j == [kind |-> "alarm", key |-> t.key, ptr |-> t.ptr]
  <2>1. j \in Job /\ j.kind \notin AppKind
    BY DEF Job, AlarmJob, AppKind, IInv, TypeInv, Timer
  <2>2. /\ Post(j) /\ timers' \in SUBSET timers
        /\ UNCHANGED <<discovering, told, entries, alarms, calling, btName>>
    BY <1>2 DEF AlarmFires, client, platform
  <2>3. (Advert # {} => btName' \in [Device -> Advert]) /\ requests' \in Nat
    BY <1>2, <2>2 DEF IInv, TypeInv, AlarmFires, counts
  <2> QED
    BY <2>1, <2>2, <2>3, PostInv
<1>3. ASSUME NEW j \in Job, Call(j), UNCHANGED <<discovering, told, entries, alarms, timers, btName>>,
             j.kind = "start" => ~discovering, requests' \in Nat
      PROVE  IInv'
  BY <1>3, PostInv DEF Call, IInv, TypeInv
<1>4. CASE CallStart \/ CallStop
  BY <1>3, <1>4 DEF CallStart, CallStop, client, handler, platform, counts, Job, SessionJob,
                    IInv, TypeInv
<1>5. ASSUME NEW o \in Optional, CallUpdate(o) PROVE IInv'
  BY <1>3, <1>5, DiscoveryAssumption DEF CallUpdate, client, handler, platform, Job, UpdateJob,
                                         IInv, TypeInv
<1>6. ASSUME NEW e \in Endpoint, NEW mac \in Device \cup {NoMac}, CallRequest(e, mac) PROVE IInv'
  BY <1>3, <1>6 DEF CallRequest, client, handler, platform, Job, RequestJob, IInv, TypeInv
<1> QED
  BY <1>1, <1>2, <1>4, <1>5, <1>6 DEF Platform, Application

\* Every step preserves the invariant.
LEMMA NextInv == IInv /\ [Next]_vars => IInv'
<1> SUFFICES ASSUME IInv, [Next]_vars PROVE IInv'
  OBVIOUS
<1>1. CASE RunJob
  BY <1>1, StartInv, StopInv, UpdateInv, RequestInv, BluetoothInv, BleInv, WifiLanInv, AlarmInv
     DEF RunJob
<1>2. CASE UNCHANGED vars
  BY <1>2 DEF vars, client, handler, platform, counts, IInv, TypeInv, CallsInv, NothingToldOutside,
              OneEntryPerMedium, ReportedMatchesDiscovered
<1> QED
  BY <1>1, <1>2, PostedInv DEF Next

\* The inductive invariant holds in every reachable state.
THEOREM Invariance == Spec => []IInv
BY InitInv, NextInv, PTL DEF Spec

\* However the reports of several mediums, renamed devices, alarms of mediums that were turned
\* off and calls of the application are mixed, the client that discovers was told of exactly
\* the endpoints in discovered_endpoints_.
THEOREM ToldIsDiscovered == Spec => []ReportedMatchesDiscovered
<1>1. IInv => ReportedMatchesDiscovered
  BY DEF IInv
<1> QED
  BY <1>1, Invariance, PTL

\* OnEndpointLost may count and remove one: discovered_endpoints_ never holds an endpoint twice
\* for a medium that discovers, whatever is found and whatever connections are requested.
THEOREM OneEntry == Spec => []OneEntryPerMedium
<1>1. IInv => OneEntryPerMedium
  BY DEF IInv
<1> QED
  BY <1>1, Invariance, PTL

-----------------------------------------------------------------------------
(* What BLE and Wi-Fi LAN see, and what is made of it, as long as the options do not     *)
(* change.  A scan that is stopped forgets what it saw without a report, so the reports  *)
(* of an earlier session are told from those of this one by their place in the queue.    *)

Lan == {"BLE", "WIFI_LAN"}

ReportOf(k, m, d, a) == [kind |-> k, medium |-> m, dev |-> d, adv |-> a]

Queued(j) == \E i \in 1..Len(jobs) : jobs[i] = j

SeenTypes == /\ seen \in [Medium -> SUBSET (Device \X Advert)]
             /\ foundBle \in [Device -> SUBSET Advert]

\* Only UpdateDiscoveryOptions sets alarms.
NoAlarms == timers = {} /\ \A i \in 1..Len(jobs) : jobs[i].kind \notin {"update", "alarm"}

\* StopDiscovery stops both scans.
IdleScans == ~discovering => \A m \in Lan : m \notin scanning /\ seen[m] = {}

\* A report of a find is true, or taken back by a later report, or of an earlier session.
FoundIsSeen ==
  \A i \in 1..Len(jobs), m \in Lan, d \in Device, a \in Advert :
    jobs[i] = ReportOf("found", m, d, a) /\ ~OnePerDevice(m) =>
      \/ <<d, a>> \in seen[m]
      \/ \E k \in 1..Len(jobs) : k > i /\ jobs[k] = ReportOf("lost", m, d, a)
      \/ ~discovering /\ \A k \in 1..Len(jobs) : jobs[k].kind = "start" => k > i

\* Every entry has an advertisement that its medium sees, or whose loss is still to be
\* handled and will not be ignored.
Sourced ==
  discovering => \A x \in entries : x.medium \in Lan /\ ~OnePerDevice(x.medium) =>
    \E d \in Device, a \in Advert :
      /\ a.id = x.id
      /\ x.medium = "BLE" => <<d, a>> \in foundBleV2
      /\ <<d, a>> \in seen[x.medium] \/ Queued(ReportOf("lost", x.medium, d, a))

SeenInv == SeenTypes /\ NoAlarms /\ IdleScans /\ FoundIsSeen /\ Sourced

QuietInv == updates \in Nat /\ (updates = 0 => SeenInv)

\* BLE and Wi-Fi LAN keep their entries, up to the info.
LanKept(S, T) ==
  \A m \in Lan : /\ \A y \in T : y.medium = m => y \in S
                 /\ \A y \in S : y.medium = m => Present(T, y.id, m)

\* A request, or a call that starts or ends a session.
OtherCall ==
  CallStart \/ CallStop \/ \E e \in Endpoint, mac \in Device \cup {NoMac} : CallRequest(e, mac)

\* The scans and the session go on.
Steady == UNCHANGED <<bleV2, seen, scanning, discovering>>

\* The three things a job j may be on BLE and Wi-Fi LAN: without effect, a find, a loss.
Skips(j) ==
  /\ LanKept(entries, entries') /\ UNCHANGED <<foundBle, foundBleV2>>
  /\ discovering /\ j.kind \in {"found", "lost"} /\ j.medium \in Lan =>
       j.kind = "lost" /\ j.medium = "BLE" /\ (bleV2 => <<j.dev, j.adv>> \notin foundBleV2)

FindsJob(j) ==
  /\ discovering /\ j.kind = "found" /\ j.medium \in Lan
  /\ \E S : Finds(entries, S, EntryOf(j.adv, j.medium, j.dev)) /\ LanKept(S, entries')
  /\ foundBleV2' = IF j.medium = "BLE" /\ bleV2 THEN foundBleV2 \cup {<<j.dev, j.adv>>} ELSE foundBleV2
  /\ \A d \in Device : foundBle'[d] \subseteq foundBle[d] \cup (IF d = j.dev THEN {j.adv} ELSE {})

LosesJob(j) ==
  /\ discovering /\ j.kind = "lost" /\ j.medium \in Lan
  /\ \E S, b : /\ Loses(entries, S, b.id, j.medium) /\ LanKept(S, entries')
               /\ IF OnePerDevice(j.medium) THEN b \in foundBle[j.dev] ELSE b = j.adv
  /\ foundBleV2' = IF j.medium = "BLE" /\ bleV2 THEN foundBleV2 \ {<<j.dev, j.adv>>} ELSE foundBleV2
  /\ \A d \in Device : foundBle'[d] \subseteq foundBle[d]

\* The queue after a job was taken from it.
LEMMA Popped ==
  ASSUME IInv, jobs # <<>>, jobs' = Tail(jobs)
  PROVE  /\ Len(jobs) \in Nat \ {0} /\ Len(jobs') = Len(jobs) - 1 /\ Head(jobs) = jobs[1]
         /\ \A i \in 1..Len(jobs') : i + 1 \in 1..Len(jobs) /\ jobs'[i] = jobs[i + 1]
         /\ \A i \in 1..Len(jobs) : i # 1 => i - 1 \in 1..Len(jobs') /\ jobs'[i - 1] = jobs[i]
<1>1. /\ Len(jobs) \in Nat \ {0} /\ Head(jobs) = jobs[1] /\ Len(jobs') = Len(jobs) - 1
      /\ \A i \in 1..Len(jobs') : jobs'[i] = jobs[i + 1]
  BY EmptySeq, HeadTailProperties DEF IInv, TypeInv
<1>2. ASSUME NEW i \in 1..Len(jobs), i # 1
      PROVE  i - 1 \in 1..Len(jobs') /\ jobs'[i - 1] = jobs[i]
  <2>1. i - 1 \in 1..Len(jobs') /\ (i - 1) + 1 = i
    BY <1>1, <1>2
  <2>2. jobs'[i - 1] = jobs[(i - 1) + 1]
    BY <1>1, <2>1
  <2> QED
    BY <2>1, <2>2
<1>3. \A i \in 1..Len(jobs') : i + 1 \in 1..Len(jobs)
  BY <1>1
<1> QED
  BY <1>1, <1>2, <1>3

\* The queue after a job was posted.
LEMMA Pushed ==
  ASSUME IInv, NEW j, Post(j)
  PROVE  /\ Len(jobs) \in Nat /\ Len(jobs') = Len(jobs) + 1 /\ jobs'[Len(jobs')] = j
         /\ \A i \in 1..Len(jobs) : i \in 1..Len(jobs') /\ i < Len(jobs') /\ jobs'[i] = jobs[i]
         /\ \A i \in 1..Len(jobs') : i \in 1..Len(jobs) \/ i = Len(jobs')
<1>1. jobs' = Append(jobs, j) /\ jobs \in Seq(Job)
  BY DEF Post, IInv, TypeInv
<1> QED
  BY <1>1

\* Without alarms a job leaves the rest of the queue as it is.
LEMMA BecomeTail ==
  ASSUME IInv, NoAlarms, jobs # <<>>, NEW h, HandlerInv(h), SameJobs(Tail(jobs), h.jobs),
         SetsNone(Now, h), Become(h)
  PROVE  jobs' = Tail(jobs) /\ timers' = {} /\ entries' = h.entries
<1>1. Tail(jobs) \in Seq(Job) /\ h.jobs \in Seq(Job) /\ jobs' = h.jobs
  BY HeadTailProperties DEF IInv, TypeInv, HandlerInv, Handler, Become
<1>2. /\ Len(jobs) \in Nat \ {0} /\ Len(Tail(jobs)) = Len(jobs) - 1
      /\ \A i \in 1..Len(Tail(jobs)) : Tail(jobs)[i] = jobs[i + 1]
  BY EmptySeq, HeadTailProperties DEF IInv, TypeInv
<1>3. ASSUME NEW i \in 1..Len(Tail(jobs)) PROVE h.jobs[i] = Tail(jobs)[i]
  <2>1. i + 1 \in 1..Len(jobs)
    BY <1>2
  <2>2. Tail(jobs)[i].kind # "alarm"
    BY <1>2, <2>1 DEF NoAlarms
  <2> QED
    BY <2>2 DEF SameJobs
<1>4. h.jobs = Tail(jobs)
  BY <1>1, <1>3, SeqEqual DEF SameJobs
<1>5. Now.timers = {}
  BY DEF Now, NoAlarms
<1> QED
  BY <1>1, <1>4, <1>5 DEF Become, SetsNone

\* Calls for other mediums keep the entries of BLE and Wi-Fi LAN, one after the other.
LEMMA LanKeptProperties ==
  /\ \A S : LanKept(S, S)
  /\ \A S, T, U : LanKept(S, T) /\ LanKept(T, U) => LanKept(S, U)
  /\ \A S, T, x : Finds(S, T, x) /\ x.medium = "BLUETOOTH" => LanKept(S, T)
  /\ \A S, T, e : Loses(S, T, e, "BLUETOOTH") => LanKept(S, T)
  /\ \A S, T : S \subseteq T /\ (\A x \in T \ S : x.medium \in {"BLUETOOTH", "WEB_RTC"})
               => LanKept(S, T)
<1>1. \A S : LanKept(S, S)
  BY DEF LanKept, Present
<1>2. ASSUME NEW S, NEW T, NEW U, LanKept(S, T), LanKept(T, U) PROVE LanKept(S, U)
  <2> SUFFICES ASSUME NEW m \in Lan
               PROVE  /\ \A y \in U : y.medium = m => y \in S
                      /\ \A y \in S : y.medium = m => Present(U, y.id, m)
    BY DEF LanKept
  <2>1. \A y \in U : y.medium = m => y \in S
    BY <1>2 DEF LanKept
  <2>2. ASSUME NEW y \in S, y.medium = m PROVE Present(U, y.id, m)
    <3>1. PICK z \in T : z.id = y.id /\ z.medium = m
      BY <1>2, <2>2 DEF LanKept, Present
    <3>2. Present(U, z.id, m)
      BY <1>2, <3>1 DEF LanKept
    <3> QED
      BY <3>1, <3>2
  <2> QED
    BY <2>1, <2>2
<1>3. \A S, T, x : Finds(S, T, x) /\ x.medium = "BLUETOOTH" => LanKept(S, T)
  BY DEF LanKept, Finds, Present, Lan
<1>4. \A S, T, e : Loses(S, T, e, "BLUETOOTH") => LanKept(S, T)
  BY DEF LanKept, Loses, Present, Lan
<1>5. \A S, T : S \subseteq T /\ (\A x \in T \ S : x.medium \in {"BLUETOOTH", "WEB_RTC"})
               => LanKept(S, T)
  BY DEF LanKept, Present, Lan
<1> QED
  BY <1>1, <1>2, <1>3, <1>4, <1>5

\* A job starts from the queue without its head.
LEMMA NowSame ==
  ASSUME IInv, jobs # <<>>
  PROVE  /\ HandlerInv(Now) /\ SameJobs(Tail(jobs), Now.jobs) /\ SetsNone(Now, Now)
         /\ Now.entries = entries /\ Now.jobs = Tail(jobs)
<1>1. Now.entries = entries
  BY DEF Now
<1> QED
  BY <1>1, NowInv DEF SameJobs, SetsNone

\* A report that is dropped.
LEMMA DroppedStep ==
  ASSUME IInv, NoAlarms, jobs # <<>>, Dropped
  PROVE  jobs' = Tail(jobs) /\ timers' = {} /\ LanKept(entries, entries')
         /\ UNCHANGED <<foundBle, foundBleV2>>
<1>1. jobs' = Tail(jobs) /\ timers' = {} /\ entries' = entries
  BY NowSame, BecomeTail DEF Dropped
<1> QED
  BY <1>1, LanKeptProperties DEF Dropped

\* A job that finds, from whatever its earlier calls left.
LEMMA FindStep ==
  ASSUME IInv, NoAlarms, jobs # <<>>, discovering, NEW x \in Entry,
         NEW h, HandlerInv(h), SameJobs(Tail(jobs), h.jobs), SetsNone(Now, h),
         Become(OnEndpointFound(h, x))
  PROVE  jobs' = Tail(jobs) /\ timers' = {} /\ Finds(h.entries, entries', x)
<1> DEFINE g == OnEndpointFound(h, x)
<1>1. HandlerInv(g) /\ SameJobs(h.jobs, g.jobs) /\ SetsNone(h, g) /\ Finds(h.entries, g.entries, x)
  BY OnEndpointFoundInv
<1> HIDE DEF g
<1>2. SameJobs(Tail(jobs), g.jobs) /\ SetsNone(Now, g)
  BY <1>1 DEF SameJobs, SetsNone
<1>3. Become(g)
  BY DEF g
<1>4. jobs' = Tail(jobs) /\ timers' = {} /\ entries' = g.entries
  BY <1>1, <1>2, <1>3, BecomeTail
<1> QED
  BY <1>1, <1>4

\* What is left after a loss, for the calls that follow.
LEMMA LoseStep ==
  ASSUME IInv, jobs # <<>>, NEW h, HandlerInv(h), SameJobs(Tail(jobs), h.jobs), SetsNone(Now, h),
         NEW e, NEW m
  PROVE  LET g == OnEndpointLost(h, e, m)
         IN /\ HandlerInv(g) /\ SameJobs(Tail(jobs), g.jobs) /\ SetsNone(Now, g)
            /\ Loses(h.entries, g.entries, e, m)
<1> DEFINE g == OnEndpointLost(h, e, m)
<1>1. HandlerInv(g) /\ SameJobs(h.jobs, g.jobs) /\ SetsNone(h, g) /\ Loses(h.entries, g.entries, e, m)
  BY OnEndpointLostInv
<1> HIDE DEF g
<1>2. SameJobs(Tail(jobs), g.jobs) /\ SetsNone(Now, g)
  BY <1>1 DEF SameJobs, SetsNone
<1> QED
  BY <1>1, <1>2 DEF g

\* A Bluetooth report leaves the other mediums' entries alone.
LEMMA BluetoothStep ==
  ASSUME IInv, NoAlarms,
         BluetoothDeviceDiscoveredHandler \/ BluetoothNameChangedHandler \/ BluetoothDeviceLostHandler
  PROVE  jobs' = Tail(jobs) /\ timers' = {} /\ Skips(Head(jobs))
<1> USE DEF BluetoothDeviceDiscoveredHandler, BluetoothNameChangedHandler, BluetoothDeviceLostHandler
<1>1. /\ jobs # <<>>
      /\ Head(jobs).kind \in {"found", "changed", "lost"}
      /\ UNCHANGED <<foundBle, foundBleV2>>
      /\ Head(jobs).medium \in Lan => Head(jobs).kind = "changed"
  BY DEF Report, Head1, Lan, Dropped
<1> SUFFICES jobs' = Tail(jobs) /\ timers' = {} /\ LanKept(entries, entries')
  BY <1>1 DEF Skips
<1>2. CASE Dropped
  BY <1>1, <1>2, DroppedStep
<1>3. CASE discovering
  <2> DEFINE d == Head(jobs).dev
             x == EntryOf(btName[d], "BLUETOOTH", d)
  <2>1. x \in Entry /\ x.medium = "BLUETOOTH"
    BY <1>1, HeadJob, DiscoveryAssumption DEF EntryOf, Entry, Medium, Allowed
  <2> HIDE DEF x
  <2>2. ASSUME Become(OnEndpointFound(Now, x))
        PROVE  jobs' = Tail(jobs) /\ timers' = {} /\ LanKept(entries, entries')
    <3>1. jobs' = Tail(jobs) /\ timers' = {} /\ Finds(Now.entries, entries', x)
      BY <1>1, <1>3, <2>1, <2>2, NowSame, FindStep
    <3>2. Finds(entries, entries', x)
      BY <1>1, <3>1, NowSame
    <3> QED
      BY <2>1, <3>1, <3>2, LanKeptProperties
  <2>3. ASSUME NEW e, Become(OnEndpointFound(OnEndpointLost(Now, e, "BLUETOOTH"), x))
        PROVE  jobs' = Tail(jobs) /\ timers' = {} /\ LanKept(entries, entries')
    <3> DEFINE h == OnEndpointLost(Now, e, "BLUETOOTH")
    <3>1. HandlerInv(h) /\ SameJobs(Tail(jobs), h.jobs) /\ SetsNone(Now, h)
          /\ Loses(Now.entries, h.entries, e, "BLUETOOTH")
      BY <1>1, NowSame, LoseStep
    <3>2. Become(OnEndpointFound(h, x))
      BY <2>3
    <3> HIDE DEF h
    <3>3. jobs' = Tail(jobs) /\ timers' = {} /\ Finds(h.entries, entries', x)
      BY <1>1, <1>3, <2>1, <3>1, <3>2, FindStep
    <3>4. LanKept(entries, h.entries)
      BY <1>1, <3>1, NowSame, LanKeptProperties
    <3>5. LanKept(h.entries, entries')
      BY <2>1, <3>3, LanKeptProperties
    <3> QED
      BY <3>3, <3>4, <3>5, LanKeptProperties
  <2>4. ASSUME NEW e, Become(OnEndpointLost(Now, e, "BLUETOOTH"))
        PROVE  jobs' = Tail(jobs) /\ timers' = {} /\ LanKept(entries, entries')
    <3> DEFINE h == OnEndpointLost(Now, e, "BLUETOOTH")
    <3>1. HandlerInv(h) /\ SameJobs(Tail(jobs), h.jobs) /\ SetsNone(Now, h)
          /\ Loses(Now.entries, h.entries, e, "BLUETOOTH")
      BY <1>1, NowSame, LoseStep
    <3>2. Become(h)
      BY <2>4
    <3> HIDE DEF h
    <3>3. jobs' = Tail(jobs) /\ timers' = {} /\ entries' = h.entries
      BY <1>1, <3>1, <3>2, BecomeTail
    <3> QED
      BY <1>1, <3>1, <3>3, NowSame, LanKeptProperties
  <2>5. CASE BluetoothDeviceDiscoveredHandler
    BY <1>3, <2>2, <2>5 DEF x
  <2>6. CASE BluetoothNameChangedHandler
    <3>1. \/ Become(OnEndpointFound(Now, x))
          \/ \E y \in entries : /\ y.medium = "BLUETOOTH"
                                /\ Become(OnEndpointFound(OnEndpointLost(Now, y.id, y.medium), x))
      BY <1>3, <2>6 DEF x
    <3> QED
      BY <2>2, <2>3, <3>1
  <2>7. CASE BluetoothDeviceLostHandler
    BY <1>3, <2>4, <2>7
  <2> QED
    BY <2>5, <2>6, <2>7
<1> QED
  BY <1>2, <1>3

\* A find over BLE, with the entry over Bluetooth that may follow it.
LEMMA BleFoundStep ==
  ASSUME IInv, NoAlarms, SeenTypes, BlePeripheralDiscoveredHandler \/ BleV2PeripheralDiscoveredHandler
  PROVE  /\ jobs' = Tail(jobs) /\ timers' = {}
         /\ Skips(Head(jobs)) \/ FindsJob(Head(jobs))
         /\ foundBle' \in [Device -> SUBSET Advert]
<1> USE DEF BlePeripheralDiscoveredHandler, BleV2PeripheralDiscoveredHandler
<1> DEFINE j == Head(jobs)
           h == FoundOverBle(Now, j.adv, j.dev)
<1>1. jobs # <<>> /\ j.kind = "found" /\ j.medium = "BLE"
  BY DEF Report, Head1
<1>2. j.adv \in Advert /\ j.dev \in Device
  BY <1>1, HeadJob
<1>3. CASE ~discovering
  <2>1. Dropped
    BY <1>3
  <2>2. jobs' = Tail(jobs) /\ timers' = {} /\ LanKept(entries, entries')
        /\ UNCHANGED <<foundBle, foundBleV2>>
    BY <1>1, <2>1, DroppedStep
  <2> QED
    BY <1>3, <2>2 DEF Skips, SeenTypes
<1>4. CASE discovering
  <2>1. Become(h)
    BY <1>4
  <2>2. HandlerInv(Now) /\ Now.entries = entries /\ Now.jobs = Tail(jobs)
    BY <1>1, NowSame
  <2>3. /\ HandlerInv(h) /\ SameJobs(Now.jobs, h.jobs) /\ SetsNone(Now, h)
        /\ \E S : /\ Finds(Now.entries, S, EntryOf(j.adv, "BLE", j.dev))
                  /\ S = h.entries \/ Finds(S, h.entries, EntryOf(j.adv, "BLUETOOTH", j.dev))
    BY <1>2, <1>4, <2>2, FoundOverBleInv
  <2> HIDE DEF h
  <2>4. jobs' = Tail(jobs) /\ timers' = {} /\ entries' = h.entries
    BY <1>1, <2>1, <2>2, <2>3, BecomeTail
  <2>5. PICK S : /\ Finds(entries, S, EntryOf(j.adv, "BLE", j.dev))
                 /\ S = entries' \/ Finds(S, entries', EntryOf(j.adv, "BLUETOOTH", j.dev))
    BY <2>2, <2>3, <2>4
  <2>6. EntryOf(j.adv, "BLUETOOTH", j.dev).medium = "BLUETOOTH"
    BY DEF EntryOf
  <2>7. LanKept(S, entries')
    BY <2>5, <2>6, LanKeptProperties
  <2>8. /\ foundBle' \in [Device -> SUBSET Advert]
        /\ \A d \in Device : foundBle'[d] \subseteq foundBle[d] \cup (IF d = j.dev THEN {j.adv} ELSE {})
    BY <1>2, <1>4 DEF SeenTypes
  <2>9. foundBleV2' = IF j.medium = "BLE" /\ bleV2 THEN foundBleV2 \cup {<<j.dev, j.adv>>} ELSE foundBleV2
    BY <1>1, <1>4
  <2>10. FindsJob(j)
    BY <1>1, <1>4, <2>5, <2>7, <2>8, <2>9 DEF FindsJob, Lan
  <2> QED
    BY <2>4, <2>8, <2>10
<1> QED
  BY <1>3, <1>4

\* A loss over BLE: the first scanner loses the endpoint that its state names.
LEMMA BleLostStep ==
  ASSUME IInv, NoAlarms, SeenTypes, BlePeripheralLostHandler \/ BleV2PeripheralLostHandler
  PROVE  /\ jobs' = Tail(jobs) /\ timers' = {}
         /\ Skips(Head(jobs)) \/ LosesJob(Head(jobs))
         /\ foundBle' \in [Device -> SUBSET Advert]
<1> USE DEF BlePeripheralLostHandler, BleV2PeripheralLostHandler
<1> DEFINE j == Head(jobs)
<1>1. jobs # <<>> /\ j.kind = "lost" /\ j.medium = "BLE"
  BY DEF Report, Head1
<1>2. j.adv \in Advert /\ j.dev \in Device
  BY <1>1, HeadJob
<1>3. CASE Dropped /\ (discovering /\ bleV2 => <<j.dev, j.adv>> \notin foundBleV2)
  <2>1. jobs' = Tail(jobs) /\ timers' = {} /\ LanKept(entries, entries')
        /\ UNCHANGED <<foundBle, foundBleV2>>
    BY <1>1, <1>3, DroppedStep
  <2> QED
    BY <1>1, <1>3, <2>1 DEF Skips, SeenTypes
<1>4. ASSUME NEW e
      PROVE  LET g == OnEndpointLost(Now, e, "BLE")
             IN /\ HandlerInv(g) /\ SameJobs(Tail(jobs), g.jobs) /\ SetsNone(Now, g)
                /\ Loses(entries, g.entries, e, "BLE")
  <2> DEFINE g == OnEndpointLost(Now, e, "BLE")
  <2>1. /\ HandlerInv(g) /\ SameJobs(Tail(jobs), g.jobs) /\ SetsNone(Now, g)
        /\ Loses(Now.entries, g.entries, e, "BLE")
    BY <1>1, NowSame, LoseStep
  <2> QED
    BY <1>1, <2>1, NowSame
<1>5. CASE discovering /\ ~bleV2 /\ foundBle[j.dev] # {}
  <2> DEFINE b == CHOOSE a \in foundBle[j.dev] : TRUE
             g == OnEndpointLost(Now, b.id, "BLE")
  <2>1. /\ Become(g) /\ b \in foundBle[j.dev]
        /\ foundBle' = [foundBle EXCEPT ![j.dev] = {}] /\ UNCHANGED foundBleV2
    BY <1>5
  <2>2. /\ HandlerInv(g) /\ SameJobs(Tail(jobs), g.jobs) /\ SetsNone(Now, g)
        /\ Loses(entries, g.entries, b.id, "BLE")
    BY <1>4
  <2> HIDE DEF g, b
  <2>3. jobs' = Tail(jobs) /\ timers' = {} /\ entries' = g.entries
    BY <1>1, <2>1, <2>2, BecomeTail
  <2>4. /\ foundBle' \in [Device -> SUBSET Advert]
        /\ \A d \in Device : foundBle'[d] \subseteq foundBle[d]
    BY <2>1 DEF SeenTypes
  <2>5. /\ Loses(entries, entries', b.id, j.medium) /\ LanKept(entries', entries')
        /\ IF OnePerDevice(j.medium) THEN b \in foundBle[j.dev] ELSE b = j.adv
    BY <1>1, <1>5, <2>1, <2>2, <2>3, LanKeptProperties DEF OnePerDevice
  <2>6. LosesJob(j)
    BY <1>1, <1>5, <2>1, <2>4, <2>5 DEF LosesJob, Lan
  <2> QED
    BY <2>3, <2>4, <2>6
<1>6. CASE discovering /\ bleV2 /\ <<j.dev, j.adv>> \in foundBleV2
  <2> DEFINE b == j.adv
             g == OnEndpointLost(Now, b.id, "BLE")
             k == OnEndpointLost(g, b.id, "BLUETOOTH")
  <2>1. /\ Become(IF j.dev \in MacDevice THEN k ELSE g)
        /\ foundBleV2' = foundBleV2 \ {<<j.dev, j.adv>>} /\ UNCHANGED foundBle
    BY <1>6
  <2>2. /\ HandlerInv(g) /\ SameJobs(Tail(jobs), g.jobs) /\ SetsNone(Now, g)
        /\ Loses(entries, g.entries, b.id, "BLE")
    BY <1>4
  <2> HIDE DEF g
  <2>3. /\ HandlerInv(k) /\ SameJobs(Tail(jobs), k.jobs) /\ SetsNone(Now, k)
        /\ Loses(g.entries, k.entries, b.id, "BLUETOOTH")
    BY <1>1, <2>2, LoseStep
  <2> HIDE DEF k
  <2>4. CASE j.dev \in MacDevice
    <3>1. Become(k)
      BY <2>1, <2>4
    <3>2. jobs' = Tail(jobs) /\ timers' = {} /\ entries' = k.entries
      BY <1>1, <2>3, <3>1, BecomeTail
    <3>3. LanKept(g.entries, entries')
      BY <2>3, <3>2, LanKeptProperties
    <3>4. LosesJob(j)
      BY <1>1, <1>6, <2>1, <2>2, <3>3 DEF LosesJob, Lan, OnePerDevice
    <3> QED
      BY <2>1, <3>2, <3>4 DEF SeenTypes
  <2>5. CASE j.dev \notin MacDevice
    <3>1. Become(g)
      BY <2>1, <2>5
    <3>2. jobs' = Tail(jobs) /\ timers' = {} /\ entries' = g.entries
      BY <1>1, <2>2, <3>1, BecomeTail
    <3>3. LanKept(g.entries, entries')
      BY <3>2, LanKeptProperties
    <3>4. LosesJob(j)
      BY <1>1, <1>6, <2>1, <2>2, <3>3 DEF LosesJob, Lan, OnePerDevice
    <3> QED
      BY <2>1, <3>2, <3>4 DEF SeenTypes
  <2> QED
    BY <2>4, <2>5
<1> QED
  BY <1>3, <1>5, <1>6

\* Wi-Fi LAN finds and loses as it is told.
LEMMA WifiLanStep ==
  ASSUME IInv, NoAlarms, SeenTypes, WifiLanServiceDiscoveredHandler \/ WifiLanServiceLostHandler
  PROVE  /\ jobs' = Tail(jobs) /\ timers' = {}
         /\ Skips(Head(jobs)) \/ FindsJob(Head(jobs)) \/ LosesJob(Head(jobs))
         /\ foundBle' \in [Device -> SUBSET Advert]
<1> USE DEF WifiLanServiceDiscoveredHandler, WifiLanServiceLostHandler
<1> DEFINE j == Head(jobs)
           x == EntryOf(j.adv, "WIFI_LAN", j.dev)
           h == StopEndpointLostByMediumAlarm(Now, <<j.adv.id, "WIFI_LAN">>)
           g == OnEndpointLost(Now, j.adv.id, "WIFI_LAN")
<1>1. /\ jobs # <<>> /\ j.kind \in {"found", "lost"} /\ j.medium = "WIFI_LAN"
      /\ UNCHANGED <<foundBle, foundBleV2>>
  BY DEF Report, Head1, Dropped
<1>2. j.adv \in Advert /\ j.dev \in Device
  BY <1>1, HeadJob
<1>3. foundBle' \in [Device -> SUBSET Advert] /\ \A d \in Device : foundBle'[d] = foundBle[d]
  BY <1>1 DEF SeenTypes
<1>4. CASE ~discovering
  <2>1. Dropped
    BY <1>4
  <2>2. jobs' = Tail(jobs) /\ timers' = {} /\ LanKept(entries, entries')
    BY <1>1, <2>1, DroppedStep
  <2> QED
    BY <1>1, <1>3, <1>4, <2>2 DEF Skips
<1>5. CASE discovering /\ j.kind = "found"
  <2>1. Become(OnEndpointFound(h, x))
    BY <1>5 DEF Report, Head1
  <2>2. HandlerInv(Now) /\ Now.entries = entries /\ Now.jobs = Tail(jobs)
    BY <1>1, NowSame
  <2>3. h \in Handler /\ h.entries = Now.entries /\ h.told = Now.told /\ h.jobs = Now.jobs
        /\ SetsNone(Now, h)
    BY <2>2, StopAlarmProperties DEF HandlerInv
  <2> HIDE DEF h
  <2>4. HandlerInv(h) /\ SameJobs(Tail(jobs), h.jobs)
    BY <2>2, <2>3 DEF HandlerInv, SameJobs
  <2>5. x \in Entry
    BY <1>2, DiscoveryAssumption DEF EntryOf, Entry, Medium, Allowed
  <2> HIDE DEF x
  <2>6. jobs' = Tail(jobs) /\ timers' = {} /\ Finds(h.entries, entries', x)
    BY <1>1, <1>5, <2>1, <2>3, <2>4, <2>5, FindStep
  <2>7. Finds(entries, entries', EntryOf(j.adv, j.medium, j.dev)) /\ LanKept(entries', entries')
    BY <1>1, <2>2, <2>3, <2>6, LanKeptProperties DEF x
  <2>8. FindsJob(j)
    BY <1>1, <1>3, <1>5, <2>7 DEF FindsJob, Lan
  <2> QED
    BY <1>3, <2>6, <2>8
<1>6. CASE discovering /\ j.kind = "lost"
  <2>1. Become(g)
    BY <1>6 DEF Report, Head1
  <2>2. /\ HandlerInv(g) /\ SameJobs(Tail(jobs), g.jobs) /\ SetsNone(Now, g)
        /\ Loses(entries, g.entries, j.adv.id, "WIFI_LAN")
    <3>1. /\ HandlerInv(g) /\ SameJobs(Tail(jobs), g.jobs) /\ SetsNone(Now, g)
          /\ Loses(Now.entries, g.entries, j.adv.id, "WIFI_LAN")
      BY <1>1, NowSame, LoseStep
    <3> QED
      BY <1>1, <3>1, NowSame
  <2> HIDE DEF g
  <2>3. jobs' = Tail(jobs) /\ timers' = {} /\ entries' = g.entries
    BY <1>1, <2>1, <2>2, BecomeTail
  <2>4. /\ Loses(entries, entries', j.adv.id, j.medium) /\ LanKept(entries', entries')
        /\ IF OnePerDevice(j.medium) THEN j.adv \in foundBle[j.dev] ELSE j.adv = j.adv
    BY <1>1, <2>2, <2>3, LanKeptProperties DEF OnePerDevice
  <2>5. LosesJob(j)
    BY <1>1, <1>3, <1>6, <2>4 DEF LosesJob, Lan
  <2> QED
    BY <1>3, <2>3, <2>5
<1> QED
  BY <1>1, <1>4, <1>5, <1>6

\* A request adds entries of other mediums only.
LEMMA RequestStep ==
  ASSUME IInv, NoAlarms, RequestConnection
  PROVE  jobs # <<>> /\ jobs' = Tail(jobs) /\ timers' = {} /\ Steady /\ Skips(Head(jobs))
<1>1. /\ jobs # <<>> /\ Head(jobs).kind = "request"
      /\ UNCHANGED <<foundBle, foundBleV2>> /\ Steady
  BY DEF RequestConnection, Head1, platform, Steady
<1> SUFFICES jobs' = Tail(jobs) /\ timers' = {} /\ LanKept(entries, entries')
  BY <1>1 DEF Skips
<1>2. CASE Become(Now)
  <2>1. jobs' = Tail(jobs) /\ timers' = {} /\ entries' = entries
    BY <1>1, <1>2, NowSame, BecomeTail
  <2> QED
    BY <2>1, LanKeptProperties
<1>3. CASE ~Become(Now)
  <2> DEFINE g(y) == AppendWebRTCEndpoint(
                       AppendRemoteBluetoothMacAddressEndpoint(Now, y, Head(jobs).mac), y)
  <2>1. PICK y \in entries : Become(g(y))
    BY <1>3 DEF RequestConnection
  <2>2. /\ g(y).jobs = Tail(jobs) /\ g(y).timers = timers
        /\ entries \subseteq g(y).entries
        /\ \A x \in g(y).entries \ entries : x.medium \in {"BLUETOOTH", "WEB_RTC"}
    BY <1>1, HeadJob, RequestAppends
  <2> HIDE DEF g
  <2>3. jobs' = Tail(jobs) /\ timers' = timers /\ entries' = g(y).entries
    BY <2>1, <2>2 DEF Become
  <2> QED
    BY <2>2, <2>3, LanKeptProperties DEF NoAlarms
<1> QED
  BY <1>2, <1>3

\* Every job but those of a session is one of the three things.
LEMMA ReportStep ==
  ASSUME IInv, NoAlarms, SeenTypes, RunJob, ~StartDiscovery, ~StopDiscovery
  PROVE  /\ jobs # <<>> /\ jobs' = Tail(jobs) /\ timers' = {} /\ Steady
         /\ Skips(Head(jobs)) \/ FindsJob(Head(jobs)) \/ LosesJob(Head(jobs))
         /\ foundBle' \in [Device -> SUBSET Advert]
<1>0. Kept => Steady
  BY DEF Kept, Steady, platform
<1>1. ~UpdateDiscoveryOptions /\ ~EndpointLostByMediumAlarm
  <2>1. jobs # <<>> => Head(jobs).kind \notin {"update", "alarm"}
    <3>1. jobs # <<>> => Head(jobs) = jobs[1] /\ 1 \in 1..Len(jobs)
      BY HeadJob, EmptySeq DEF IInv, TypeInv
    <3> QED
      BY <3>1 DEF NoAlarms
  <2>2. ~Head1("update") /\ ~Head1("alarm")
    BY <2>1 DEF Head1
  <2>3. UpdateDiscoveryOptions => Head1("update")
    BY Zenon DEF UpdateDiscoveryOptions
  <2>4. EndpointLostByMediumAlarm => Head1("alarm")
    BY Zenon DEF EndpointLostByMediumAlarm
  <2> QED
    BY <2>2, <2>3, <2>4
<1>2. CASE BluetoothDeviceDiscoveredHandler \/ BluetoothNameChangedHandler \/ BluetoothDeviceLostHandler
  <2>1. jobs # <<>> /\ Kept
    BY <1>2 DEF BluetoothDeviceDiscoveredHandler, BluetoothNameChangedHandler,
                BluetoothDeviceLostHandler, Report, Head1
  <2>2. jobs' = Tail(jobs) /\ timers' = {} /\ Skips(Head(jobs))
    BY <1>2, BluetoothStep
  <2> QED
    BY <2>1, <2>2, <1>0 DEF Skips, SeenTypes
<1>3. CASE BlePeripheralDiscoveredHandler \/ BleV2PeripheralDiscoveredHandler
  <2>1. jobs # <<>> /\ Kept
    BY <1>3 DEF BlePeripheralDiscoveredHandler, BleV2PeripheralDiscoveredHandler, Report, Head1
  <2> QED
    BY <1>3, <2>1, <1>0, BleFoundStep
<1>4. CASE BlePeripheralLostHandler \/ BleV2PeripheralLostHandler
  <2>1. jobs # <<>> /\ Kept
    BY <1>4 DEF BlePeripheralLostHandler, BleV2PeripheralLostHandler, Report, Head1
  <2> QED
    BY <1>4, <2>1, <1>0, BleLostStep
<1>5. CASE WifiLanServiceDiscoveredHandler \/ WifiLanServiceLostHandler
  <2>1. jobs # <<>> /\ Kept
    BY <1>5 DEF WifiLanServiceDiscoveredHandler, WifiLanServiceLostHandler, Report, Head1
  <2> QED
    BY <1>5, <2>1, <1>0, WifiLanStep
<1>6. CASE RequestConnection
  <2>1. jobs # <<>> /\ jobs' = Tail(jobs) /\ timers' = {} /\ Steady /\ Skips(Head(jobs))
    BY <1>6, RequestStep
  <2> QED
    BY <2>1 DEF Skips, SeenTypes
<1> QED
  BY <1>1, <1>2, <1>3, <1>4, <1>5, <1>6 DEF RunJob

\* StartDiscovery: the mediums that it starts have seen nothing yet.
LEMMA StartStep ==
  ASSUME IInv, NoAlarms, SeenTypes, StartDiscovery
  PROVE  /\ jobs # <<>> /\ Head(jobs).kind = "start" /\ jobs' = Tail(jobs) /\ timers' = {}
         /\ UNCHANGED <<bleV2, foundBle, foundBleV2, seen, updates>>
         /\ \/ UNCHANGED <<discovering, scanning, entries>>
            \/ discovering' = TRUE /\ entries' = {}
<1>1. jobs # <<>> /\ Head(jobs).kind = "start" /\ UNCHANGED <<bleV2, foundBle, foundBleV2, updates>>
  BY DEF StartDiscovery, Head1, counts
<1>2. CASE Become(Now) /\ UNCHANGED <<discovering, options, platform>>
  <2>1. jobs' = Tail(jobs) /\ timers' = {} /\ entries' = entries
    BY <1>1, <1>2, NowSame, BecomeTail
  <2> QED
    BY <1>1, <1>2, <2>1 DEF platform
<1>3. ASSUME NEW on, Become(Erase(Now, entries)), discovering' = TRUE, Rescan({}, on)
      PROVE  jobs' = Tail(jobs) /\ timers' = {} /\ entries' = {} /\ UNCHANGED seen
  <2> DEFINE h == Erase(Now, entries)
  <2>1. Now \in Handler /\ Now.entries = entries /\ Now.jobs = Tail(jobs)
    BY <1>1, NowSame DEF HandlerInv
  <2>2. h \in Handler /\ h.entries = Now.entries \ entries /\ SameJobs(Now.jobs, h.jobs)
        /\ SetsNone(Now, h)
    BY <2>1, EraseProperties, Zenon
  <2>3. jobs' = h.jobs /\ timers' = h.timers /\ entries' = h.entries
    BY <1>3 DEF Become
  <2> HIDE DEF h
  <2>4. timers' = {} /\ entries' = {}
    <3>1. Now.timers = {}
      BY DEF Now, NoAlarms
    <3> QED
      BY <2>1, <2>2, <2>3, <3>1 DEF SetsNone
  <2>5. h.jobs = Tail(jobs)
    <3>1. Tail(jobs) \in Seq(Job) /\ h.jobs \in Seq(Job)
      BY <2>1, <2>2 DEF Handler
    <3>2. /\ Len(jobs) \in Nat \ {0} /\ Len(Tail(jobs)) = Len(jobs) - 1
          /\ \A i \in 1..Len(Tail(jobs)) : Tail(jobs)[i] = jobs[i + 1]
      BY <1>1, EmptySeq, HeadTailProperties DEF IInv, TypeInv
    <3>3. ASSUME NEW i \in 1..Len(Tail(jobs)) PROVE h.jobs[i] = Tail(jobs)[i]
      <4>1. i + 1 \in 1..Len(jobs)
        BY <3>2
      <4>2. Tail(jobs)[i].kind # "alarm"
        BY <3>2, <4>1 DEF NoAlarms
      <4> QED
        BY <2>1, <2>2, <4>2 DEF SameJobs
    <3> QED
      BY <2>1, <2>2, <3>1, <3>3, SeqEqual DEF SameJobs
  <2>6. seen' = seen
    BY <1>3 DEF Rescan, SeenTypes
  <2> QED
    BY <2>3, <2>4, <2>5, <2>6
<1> QED
  BY <1>1, <1>2, <1>3 DEF StartDiscovery

\* StopDiscovery stops both scans, whoever started Bluetooth.
LEMMA StopStep ==
  ASSUME IInv, NoAlarms, SeenTypes, StopDiscovery
  PROVE  /\ jobs # <<>> /\ Head(jobs).kind = "stop" /\ jobs' = Tail(jobs) /\ timers' = {}
         /\ UNCHANGED <<bleV2, foundBle, foundBleV2, updates>>
         /\ discovering' = FALSE
         /\ seen' \in [Medium -> SUBSET (Device \X Advert)]
         /\ \A m \in Lan : m \notin scanning' /\ seen'[m] = {}
         /\ \A m \in Medium : seen'[m] \subseteq seen[m]
<1>1. /\ jobs # <<>> /\ Head(jobs).kind = "stop"
      /\ jobs' = Tail(jobs) /\ timers' = timers /\ discovering' = FALSE
      /\ UNCHANGED <<bleV2, foundBle, foundBleV2, updates>>
  BY DEF StopDiscovery, Head1, Become, Now, counts
<1>2. \A m \in Lan : m \in {n \in Medium : n = "BLUETOOTH" => btOwner}
  BY DEF Lan, Medium
<1>3. /\ seen' \in [Medium -> SUBSET (Device \X Advert)]
      /\ \A m \in Lan : m \notin scanning' /\ seen'[m] = {}
      /\ \A m \in Medium : seen'[m] \subseteq seen[m]
  BY <1>2 DEF StopDiscovery, Rescan, SeenTypes
<1> QED
  BY <1>1, <1>3 DEF NoAlarms

-----------------------------------------------------------------------------
\* A job that leaves the scans alone: the reports behind it are as true as before.
LEMMA PoppedReports ==
  ASSUME IInv, SeenInv, jobs # <<>>, jobs' = Tail(jobs), timers' = {},
         UNCHANGED <<bleV2, seen, scanning, discovering>>
  PROVE  NoAlarms' /\ IdleScans' /\ FoundIsSeen'
<1>1. /\ Len(jobs) \in Nat \ {0} /\ Len(jobs') = Len(jobs) - 1
      /\ \A i \in 1..Len(jobs') : i + 1 \in 1..Len(jobs) /\ jobs'[i] = jobs[i + 1]
      /\ \A i \in 1..Len(jobs) : i # 1 => i - 1 \in 1..Len(jobs') /\ jobs'[i - 1] = jobs[i]
  BY Popped
<1>2. NoAlarms' /\ IdleScans'
  BY <1>1 DEF SeenInv, NoAlarms, IdleScans
<1>3. ASSUME NEW i \in 1..Len(jobs'), NEW m \in Lan, NEW d \in Device, NEW a \in Advert,
             jobs'[i] = ReportOf("found", m, d, a), ~OnePerDevice(m)
      PROVE  \/ <<d, a>> \in seen[m]
             \/ \E k \in 1..Len(jobs') : k > i /\ jobs'[k] = ReportOf("lost", m, d, a)
             \/ ~discovering /\ \A k \in 1..Len(jobs') : jobs'[k].kind = "start" => k > i
  <2>1. i + 1 \in 1..Len(jobs) /\ jobs[i + 1] = ReportOf("found", m, d, a)
    BY <1>1, <1>3
  <2>2. CASE <<d, a>> \in seen[m]
    BY <2>2
  <2>3. ASSUME NEW k \in 1..Len(jobs), k > i + 1, jobs[k] = ReportOf("lost", m, d, a)
        PROVE  \E l \in 1..Len(jobs') : l > i /\ jobs'[l] = ReportOf("lost", m, d, a)
    <3>1. k - 1 \in 1..Len(jobs') /\ jobs'[k - 1] = jobs[k] /\ k - 1 > i
      BY <1>1, <2>3
    <3> QED
      BY <2>3, <3>1
  <2>4. CASE ~discovering /\ \A k \in 1..Len(jobs) : jobs[k].kind = "start" => k > i + 1
    <3>1. ASSUME NEW k \in 1..Len(jobs'), jobs'[k].kind = "start" PROVE k > i
      <4>1. k + 1 > i + 1
        BY <1>1, <2>4, <3>1
      <4> QED
        BY <4>1
    <3> QED
      BY <2>4, <3>1
  <2> QED
    BY <1>3, <2>1, <2>2, <2>3, <2>4 DEF SeenInv, FoundIsSeen
<1>4. FoundIsSeen'
  BY <1>3 DEF FoundIsSeen, OnePerDevice
<1> QED
  BY <1>2, <1>4

\* The witness of an entry survives every report's job.
LEMMA ReportSourced ==
  ASSUME IInv, IInv', SeenInv, jobs # <<>>, jobs' = Tail(jobs), Steady,
         Skips(Head(jobs)) \/ FindsJob(Head(jobs)) \/ LosesJob(Head(jobs))
  PROVE  Sourced'
<1> DEFINE j == Head(jobs)
<1>1. /\ Len(jobs) \in Nat \ {0} /\ j = jobs[1]
      /\ \A i \in 1..Len(jobs) : i # 1 => i - 1 \in 1..Len(jobs') /\ jobs'[i - 1] = jobs[i]
  BY Popped
<1>2. UNCHANGED <<bleV2, seen, discovering>>
  BY DEF Steady
<1> SUFFICES ASSUME discovering, NEW x \in entries', x.medium \in Lan, ~OnePerDevice(x.medium)
             PROVE  \E d \in Device, a \in Advert :
                      /\ a.id = x.id
                      /\ x.medium = "BLE" => <<d, a>> \in foundBleV2'
                      /\ <<d, a>> \in seen[x.medium] \/ Queued(ReportOf("lost", x.medium, d, a))'
  BY <1>2 DEF Sourced, OnePerDevice
<1>3. x.medium \in Lan
  OBVIOUS
<1>4. ASSUME NEW d \in Device, NEW a \in Advert, Queued(ReportOf("lost", x.medium, d, a)),
             j # ReportOf("lost", x.medium, d, a)
      PROVE  Queued(ReportOf("lost", x.medium, d, a))'
  <2>1. PICK i \in 1..Len(jobs) : jobs[i] = ReportOf("lost", x.medium, d, a)
    BY <1>4 DEF Queued
  <2>2. i # 1
    BY <1>1, <1>4, <2>1
  <2> QED
    BY <1>1, <2>1, <2>2 DEF Queued
<1>5. ASSUME x \in entries
      PROVE  \E d \in Device, a \in Advert :
               /\ a.id = x.id
               /\ x.medium = "BLE" => <<d, a>> \in foundBleV2
               /\ <<d, a>> \in seen[x.medium] \/ Queued(ReportOf("lost", x.medium, d, a))
  BY <1>5 DEF SeenInv, Sourced
<1>6. CASE Skips(j)
  <2>1. x \in entries
    BY <1>3, <1>6 DEF Skips, LanKept
  <2>2. PICK d \in Device, a \in Advert :
               /\ a.id = x.id
               /\ x.medium = "BLE" => <<d, a>> \in foundBleV2
               /\ <<d, a>> \in seen[x.medium] \/ Queued(ReportOf("lost", x.medium, d, a))
    BY <1>5, <2>1
  <2>3. x.medium = "BLE" => <<d, a>> \in foundBleV2'
    BY <1>6, <2>2 DEF Skips
  <2>4. j # ReportOf("lost", x.medium, d, a)
    <3> SUFFICES ASSUME j = ReportOf("lost", x.medium, d, a) PROVE FALSE
      OBVIOUS
    <3>1. j.kind = "lost" /\ j.medium = x.medium /\ j.dev = d /\ j.adv = a
      BY DEF ReportOf
    <3>2. x.medium = "BLE" /\ (bleV2 => <<d, a>> \notin foundBleV2)
      BY <1>3, <1>6, <3>1 DEF Skips
    <3> QED
      BY <2>2, <3>2 DEF OnePerDevice
  <2> QED
    BY <1>4, <2>2, <2>3, <2>4
<1>7. CASE FindsJob(j)
  <2>1. PICK S : Finds(entries, S, EntryOf(j.adv, j.medium, j.dev)) /\ LanKept(S, entries')
    BY <1>7 DEF FindsJob
  <2>2. x \in entries \/ x = EntryOf(j.adv, j.medium, j.dev)
    BY <1>3, <2>1 DEF LanKept, Finds
  <2>3. CASE x \in entries
    <3>1. PICK d \in Device, a \in Advert :
                 /\ a.id = x.id
                 /\ x.medium = "BLE" => <<d, a>> \in foundBleV2
                 /\ <<d, a>> \in seen[x.medium] \/ Queued(ReportOf("lost", x.medium, d, a))
      BY <1>5, <2>3
    <3>2. x.medium = "BLE" => <<d, a>> \in foundBleV2'
      BY <1>7, <3>1 DEF FindsJob
    <3>3. j # ReportOf("lost", x.medium, d, a)
      BY <1>7 DEF FindsJob, ReportOf
    <3> QED
      BY <1>4, <3>1, <3>2, <3>3
  <2>4. CASE x = EntryOf(j.adv, j.medium, j.dev)
    <3> DEFINE d == j.dev
               a == j.adv
    <3>1. d \in Device /\ a \in Advert /\ j \in ReportJob
      BY <1>7, HeadJob DEF FindsJob, Job, AlarmJob, UpdateJob, SessionJob, RequestJob
    <3>2. a.id = x.id /\ x.medium = j.medium
      BY <2>4 DEF EntryOf
    <3>3. x.medium = "BLE" => <<d, a>> \in foundBleV2'
      BY <1>7, <3>2 DEF FindsJob, OnePerDevice
    <3>4. j = ReportOf("found", x.medium, d, a)
      BY <1>7, <3>1, <3>2 DEF FindsJob, ReportOf, ReportJob
    <3>5. jobs[1] = ReportOf("found", x.medium, d, a) /\ 1 \in 1..Len(jobs)
      BY <1>1, <3>4
    <3>6. \/ <<d, a>> \in seen[x.medium]
          \/ \E k \in 1..Len(jobs) : k > 1 /\ jobs[k] = ReportOf("lost", x.medium, d, a)
      BY <1>3, <3>1, <3>5 DEF SeenInv, FoundIsSeen
    <3>7. <<d, a>> \in seen[x.medium] \/ Queued(ReportOf("lost", x.medium, d, a))
      BY <3>6 DEF Queued
    <3>8. j # ReportOf("lost", x.medium, d, a)
      BY <3>4 DEF ReportOf
    <3> QED
      BY <1>4, <3>1, <3>2, <3>3, <3>7, <3>8
  <2> QED
    BY <2>2, <2>3, <2>4
<1>8. CASE LosesJob(j)
  <2>1. PICK S, b : /\ Loses(entries, S, b.id, j.medium) /\ LanKept(S, entries')
                    /\ IF OnePerDevice(j.medium) THEN b \in foundBle[j.dev] ELSE b = j.adv
    BY <1>8 DEF LosesJob
  <2>2. x \in entries /\ ~(x.id = b.id /\ x.medium = j.medium)
    <3>1. j.medium \in Medium
      BY <1>8 DEF LosesJob, Lan, Medium
    <3> QED
      BY <1>3, <2>1, <3>1 DEF LanKept, Loses, Present
  <2>3. PICK d \in Device, a \in Advert :
               /\ a.id = x.id
               /\ x.medium = "BLE" => <<d, a>> \in foundBleV2
               /\ <<d, a>> \in seen[x.medium] \/ Queued(ReportOf("lost", x.medium, d, a))
    BY <1>5, <2>2
  <2>4. j.medium = x.medium => a # j.adv
    BY <2>1, <2>2, <2>3
  <2>5. j # ReportOf("lost", x.medium, d, a)
    BY <2>4 DEF ReportOf
  <2>6. x.medium = "BLE" => <<d, a>> \in foundBleV2'
    BY <1>8, <2>3, <2>4 DEF LosesJob
  <2> QED
    BY <1>4, <2>3, <2>5, <2>6
<1> QED
  BY <1>6, <1>7, <1>8

\* A job is posted and nothing else changes but what the scans see, which a report matches.
LEMMA PostedReports ==
  ASSUME IInv, SeenInv, NEW j, Post(j),
         UNCHANGED <<bleV2, discovering, scanning, entries, foundBle, foundBleV2, timers>>,
         SeenTypes', IdleScans', j.kind \notin {"update", "alarm"},
         \A m \in Lan, d \in Device, a \in Advert : ~OnePerDevice(m) =>
           /\ j = ReportOf("found", m, d, a) => <<d, a>> \in seen'[m]
           /\ <<d, a>> \in seen[m] => <<d, a>> \in seen'[m] \/ j = ReportOf("lost", m, d, a)
  PROVE  SeenInv'
<1>1. /\ Len(jobs) \in Nat /\ Len(jobs') = Len(jobs) + 1 /\ jobs'[Len(jobs')] = j
      /\ \A i \in 1..Len(jobs) : i \in 1..Len(jobs') /\ i < Len(jobs') /\ jobs'[i] = jobs[i]
      /\ \A i \in 1..Len(jobs') : i \in 1..Len(jobs) \/ i = Len(jobs')
  BY Pushed
<1>2. Len(jobs') \in 1..Len(jobs')
  BY <1>1
<1>3. NoAlarms'
  BY <1>1 DEF SeenInv, NoAlarms
<1>4. ASSUME NEW i \in 1..Len(jobs'), NEW m \in Lan, NEW d \in Device, NEW a \in Advert,
             jobs'[i] = ReportOf("found", m, d, a), ~OnePerDevice(m)
      PROVE  \/ <<d, a>> \in seen'[m]
             \/ \E k \in 1..Len(jobs') : k > i /\ jobs'[k] = ReportOf("lost", m, d, a)
             \/ ~discovering /\ \A k \in 1..Len(jobs') : jobs'[k].kind = "start" => k > i
  <2>1. CASE i = Len(jobs')
    BY <1>1, <1>4, <2>1
  <2>2. CASE i \in 1..Len(jobs)
    <3>1. jobs[i] = ReportOf("found", m, d, a) /\ i < Len(jobs')
      BY <1>1, <1>4, <2>2
    <3>2. CASE <<d, a>> \in seen[m]
      <4>1. CASE j = ReportOf("lost", m, d, a)
        BY <1>1, <1>2, <3>1, <4>1
      <4>2. CASE j # ReportOf("lost", m, d, a)
        BY <1>4, <3>2, <4>2
      <4> QED
        BY <4>1, <4>2
    <3>3. CASE \E k \in 1..Len(jobs) : k > i /\ jobs[k] = ReportOf("lost", m, d, a)
      BY <1>1, <3>3
    <3>4. CASE ~discovering /\ \A k \in 1..Len(jobs) : jobs[k].kind = "start" => k > i
      BY <1>1, <3>1, <3>4
    <3> QED
      BY <1>4, <2>2, <3>1, <3>2, <3>3, <3>4 DEF SeenInv, FoundIsSeen
  <2> QED
    BY <1>1, <2>1, <2>2
<1>5. FoundIsSeen'
  BY <1>4 DEF FoundIsSeen, OnePerDevice
<1>6. ASSUME discovering, NEW x \in entries, x.medium \in Lan, ~OnePerDevice(x.medium)
      PROVE  \E d \in Device, a \in Advert :
               /\ a.id = x.id
               /\ x.medium = "BLE" => <<d, a>> \in foundBleV2
               /\ <<d, a>> \in seen'[x.medium] \/ Queued(ReportOf("lost", x.medium, d, a))'
  <2>2. PICK d \in Device, a \in Advert :
               /\ a.id = x.id
               /\ x.medium = "BLE" => <<d, a>> \in foundBleV2
               /\ <<d, a>> \in seen[x.medium] \/ Queued(ReportOf("lost", x.medium, d, a))
    BY <1>6 DEF SeenInv, Sourced
  <2>3. Queued(ReportOf("lost", x.medium, d, a)) \/ j = ReportOf("lost", x.medium, d, a)
          => Queued(ReportOf("lost", x.medium, d, a))'
    BY <1>1, <1>2 DEF Queued
  <2> QED
    BY <1>6, <2>2, <2>3
<1>7. Sourced'
  BY <1>6 DEF Sourced, OnePerDevice
<1> QED
  BY <1>3, <1>5, <1>7 DEF SeenInv

\* Each of these calls posts a job of its kind.
LEMMA OtherCallPosts ==
  ASSUME OtherCall
  PROVE  \E j : j.kind \in {"start", "stop", "request"} /\ Post(j)
<1>1. CASE CallStart
  <2> DEFINE j == [kind |-> "start"]
  <2>1. j.kind = "start" /\ Post(j)
    BY <1>1 DEF CallStart, Call
  <2> HIDE DEF j
  <2> QED
    BY <2>1
<1>2. CASE CallStop
  <2> DEFINE j == [kind |-> "stop"]
  <2>1. j.kind = "stop" /\ Post(j)
    BY <1>2 DEF CallStop, Call
  <2> HIDE DEF j
  <2> QED
    BY <2>1
<1>3. ASSUME NEW e \in Endpoint, NEW mac \in Device \cup {NoMac}, CallRequest(e, mac)
      PROVE  \E j : j.kind \in {"start", "stop", "request"} /\ Post(j)
  <2> DEFINE j == [kind |-> "request", id |-> e, mac |-> mac]
  <2>1. j.kind = "request" /\ Post(j)
    BY <1>3 DEF CallRequest, Call
  <2> HIDE DEF j
  <2> QED
    BY <2>1
<1> QED
  BY <1>1, <1>2, <1>3 DEF OtherCall

\* What the mediums report and the application asks for.
LEMMA PlatformSeen ==
  ASSUME IInv, SeenInv, Platform \/ OtherCall
  PROVE  SeenInv'
<1>0. seen \in [Medium -> SUBSET (Device \X Advert)] /\ foundBle \in [Device -> SUBSET Advert]
  BY DEF SeenInv, SeenTypes
<1>1. ASSUME NEW m \in Medium, NEW d \in Device, NEW a \in Advert, Appear(m, d, a) PROVE SeenInv'
  <2> DEFINE j == ReportOf("found", m, d, a)
  <2>1. /\ Post(j) /\ seen' = [seen EXCEPT ![m] = @ \cup {<<d, a>>}] /\ m \in scanning
        /\ UNCHANGED <<bleV2, discovering, scanning, entries, foundBle, foundBleV2, timers>>
    BY <1>1 DEF Appear, Reports, ReportOf, client, handler
  <2>2. SeenTypes'
    BY <1>0, <2>1 DEF SeenTypes
  <2>3. IdleScans'
    BY <1>0, <2>1 DEF SeenInv, IdleScans, Lan, Medium
  <2>4. j.kind \notin {"update", "alarm"}
    BY DEF ReportOf
  <2>5. ASSUME NEW n \in Lan, NEW e \in Device, NEW b \in Advert
        PROVE  /\ j = ReportOf("found", n, e, b) => <<e, b>> \in seen'[n]
               /\ <<e, b>> \in seen[n] => <<e, b>> \in seen'[n]
    BY <1>0, <2>1 DEF ReportOf, Lan, Medium
  <2> QED
    BY <2>1, <2>2, <2>3, <2>4, <2>5, PostedReports
<1>2. ASSUME NEW m \in Medium, NEW d \in Device, NEW a \in Advert, Rename(m, d, a) PROVE SeenInv'
  <2>1. PICK k \in {"found", "changed"} : Post(ReportOf(k, m, d, a))
    BY <1>2 DEF Rename, Reports, ReportOf
  <2> DEFINE j == ReportOf(k, m, d, a)
  <2>2. /\ seen' = [seen EXCEPT ![m] = {s \in @ : s[1] # d} \cup {<<d, a>>}] /\ m \in scanning
        /\ OnePerDevice(m)
        /\ UNCHANGED <<bleV2, discovering, scanning, entries, foundBle, foundBleV2, timers>>
    BY <1>2 DEF Rename, client, handler
  <2>3. SeenTypes'
    BY <1>0, <2>2 DEF SeenTypes
  <2>4. IdleScans'
    BY <1>0, <2>2 DEF SeenInv, IdleScans, Lan, Medium
  <2>5. j.kind \notin {"update", "alarm"}
    BY DEF ReportOf
  <2>6. ASSUME NEW n \in Lan, NEW e \in Device, NEW b \in Advert, ~OnePerDevice(n)
        PROVE  /\ j # ReportOf("found", n, e, b)
               /\ <<e, b>> \in seen[n] => <<e, b>> \in seen'[n]
    <3>1. n # m
      BY <2>2, <2>6
    <3>2. seen'[n] = seen[n]
      BY <1>0, <2>2, <3>1 DEF Lan, Medium
    <3> QED
      BY <3>1, <3>2 DEF ReportOf
  <2> QED
    BY <2>1, <2>2, <2>3, <2>4, <2>5, <2>6, PostedReports
<1>3. ASSUME NEW m \in Medium, NEW d \in Device, NEW a \in Advert, Vanish(m, d, a) PROVE SeenInv'
  <2> DEFINE j == ReportOf("lost", m, d, a)
  <2>1. /\ Post(j) /\ seen' = [seen EXCEPT ![m] = @ \ {<<d, a>>}]
        /\ UNCHANGED <<bleV2, discovering, scanning, entries, foundBle, foundBleV2, timers>>
    BY <1>3 DEF Vanish, Reports, ReportOf, client, handler
  <2>2. SeenTypes'
    BY <1>0, <2>1 DEF SeenTypes
  <2>3. IdleScans'
    BY <1>0, <2>1 DEF SeenInv, IdleScans, Lan, Medium
  <2>4. j.kind \notin {"update", "alarm"}
    BY DEF ReportOf
  <2>5. ASSUME NEW n \in Lan, NEW e \in Device, NEW b \in Advert
        PROVE  /\ j # ReportOf("found", n, e, b)
               /\ <<e, b>> \in seen[n] => <<e, b>> \in seen'[n] \/ j = ReportOf("lost", n, e, b)
    BY <1>0, <2>1 DEF ReportOf, Lan, Medium
  <2> QED
    BY <2>1, <2>2, <2>3, <2>4, <2>5, PostedReports
<1>4. ASSUME NEW t \in timers PROVE SeenInv'
  BY DEF SeenInv, NoAlarms
<1>5. ASSUME NEW j, j.kind \in {"start", "stop", "request"}, Post(j),
             UNCHANGED <<bleV2, discovering, scanning, entries, foundBle, foundBleV2, timers, seen>>
      PROVE  SeenInv'
  <2>1. SeenTypes' /\ IdleScans'
    BY <1>5 DEF SeenInv, SeenTypes, IdleScans
  <2>2. j.kind \notin {"update", "alarm"}
    BY <1>5
  <2>3. \A m, d, a : j # ReportOf("found", m, d, a)
    <3> SUFFICES ASSUME NEW m, NEW d, NEW a, j = ReportOf("found", m, d, a) PROVE FALSE
      OBVIOUS
    <3>1. j.kind = "found"
      BY DEF ReportOf
    <3> QED
      BY <1>5, <3>1
  <2> QED
    BY <1>5, <2>1, <2>2, <2>3, PostedReports
<1>6. CASE OtherCall
  <2>1. PICK j : j.kind \in {"start", "stop", "request"} /\ Post(j)
    BY <1>6, OtherCallPosts
  <2>2. UNCHANGED <<bleV2, discovering, scanning, entries, foundBle, foundBleV2, timers, seen>>
    BY <1>6 DEF OtherCall, CallStart, CallStop, CallRequest, client, handler, platform
  <2> QED
    BY <1>5, <2>1, <2>2
<1> QED
  BY <1>1, <1>2, <1>3, <1>4, <1>6 DEF Platform

\* StartDiscovery begins with no entries, and finds every report that waits to be of this session.
LEMMA StartSeen == ASSUME IInv, SeenInv, StartDiscovery PROVE SeenInv'
<1>1. /\ jobs # <<>> /\ Head(jobs).kind = "start" /\ jobs' = Tail(jobs) /\ timers' = {}
      /\ UNCHANGED <<bleV2, foundBle, foundBleV2, seen, updates>>
      /\ \/ UNCHANGED <<discovering, scanning, entries>>
         \/ discovering' = TRUE /\ entries' = {}
  BY StartStep DEF SeenInv
<1>2. SeenTypes'
  BY <1>1 DEF SeenInv, SeenTypes
<1>3. /\ Len(jobs) \in Nat \ {0} /\ Head(jobs) = jobs[1]
      /\ \A i \in 1..Len(jobs') : i + 1 \in 1..Len(jobs) /\ jobs'[i] = jobs[i + 1]
      /\ \A i \in 1..Len(jobs) : i # 1 => i - 1 \in 1..Len(jobs') /\ jobs'[i - 1] = jobs[i]
  BY <1>1, Popped
<1>4. ~discovering
  BY <1>1, <1>3 DEF IInv, CallsInv
<1>5. CASE UNCHANGED <<discovering, scanning, entries>>
  <2>1. NoAlarms' /\ IdleScans' /\ FoundIsSeen'
    BY <1>1, <1>5, PoppedReports
  <2>2. Sourced'
    BY <1>4, <1>5 DEF Sourced
  <2> QED
    BY <1>2, <2>1, <2>2 DEF SeenInv
<1>6. CASE discovering' = TRUE /\ entries' = {}
  <2>1. NoAlarms' /\ IdleScans' /\ Sourced'
    BY <1>1, <1>3, <1>6 DEF SeenInv, NoAlarms, IdleScans, Sourced
  <2>2. ASSUME NEW i \in 1..Len(jobs'), NEW m \in Lan, NEW d \in Device, NEW a \in Advert,
               jobs'[i] = ReportOf("found", m, d, a), ~OnePerDevice(m)
        PROVE  \/ <<d, a>> \in seen'[m]
               \/ \E k \in 1..Len(jobs') : k > i /\ jobs'[k] = ReportOf("lost", m, d, a)
    <3>1. i + 1 \in 1..Len(jobs) /\ jobs[i + 1] = ReportOf("found", m, d, a) /\ 1 \in 1..Len(jobs)
      BY <1>3, <2>2
    <3>2. ~(\A k \in 1..Len(jobs) : jobs[k].kind = "start" => k > i + 1)
      BY <1>1, <1>3, <3>1
    <3>3. \/ <<d, a>> \in seen[m]
          \/ \E k \in 1..Len(jobs) : k > i + 1 /\ jobs[k] = ReportOf("lost", m, d, a)
      BY <2>2, <3>1, <3>2 DEF SeenInv, FoundIsSeen
    <3>4. ASSUME NEW k \in 1..Len(jobs), k > i + 1, jobs[k] = ReportOf("lost", m, d, a)
          PROVE  \E l \in 1..Len(jobs') : l > i /\ jobs'[l] = ReportOf("lost", m, d, a)
      <4>1. k - 1 \in 1..Len(jobs') /\ jobs'[k - 1] = jobs[k] /\ k - 1 > i
        BY <1>3, <3>4
      <4> QED
        BY <3>4, <4>1
    <3> QED
      BY <1>1, <3>3, <3>4
  <2>3. \A m : OnePerDevice(m)' <=> OnePerDevice(m)
    BY <1>1 DEF OnePerDevice
  <2>4. FoundIsSeen'
    BY <2>2, <2>3 DEF FoundIsSeen
  <2> QED
    BY <1>2, <2>1, <2>4 DEF SeenInv
<1> QED
  BY <1>1, <1>5, <1>6

\* StopDiscovery turns every report that waits into one of an earlier session.
LEMMA StopSeen == ASSUME IInv, SeenInv, StopDiscovery PROVE SeenInv'
<1>1. /\ jobs # <<>> /\ Head(jobs).kind = "stop" /\ jobs' = Tail(jobs) /\ timers' = {}
      /\ UNCHANGED <<bleV2, foundBle, foundBleV2, updates>>
      /\ discovering' = FALSE
      /\ seen' \in [Medium -> SUBSET (Device \X Advert)]
      /\ \A m \in Lan : m \notin scanning' /\ seen'[m] = {}
  BY StopStep DEF SeenInv
<1>2. SeenTypes' /\ IdleScans' /\ Sourced'
  BY <1>1 DEF SeenInv, SeenTypes, IdleScans, Sourced
<1>3. /\ Len(jobs) \in Nat \ {0} /\ Head(jobs) = jobs[1]
      /\ \A i \in 1..Len(jobs') : i + 1 \in 1..Len(jobs) /\ jobs'[i] = jobs[i + 1]
  BY <1>1, Popped
<1>4. NoAlarms'
  BY <1>1, <1>3 DEF SeenInv, NoAlarms
<1>5. ASSUME NEW k \in 1..Len(jobs') PROVE jobs'[k].kind # "start"
  <2>1. k + 1 \in 1..Len(jobs) /\ k + 1 # 1 /\ 1 \in 1..Len(jobs) /\ jobs'[k] = jobs[k + 1]
    BY <1>3
  <2>2. jobs[1].kind \in AppKind
    BY <1>1, <1>3 DEF AppKind
  <2> QED
    BY <2>1, <2>2 DEF IInv, CallsInv, AppKind
<1>6. FoundIsSeen'
  BY <1>1, <1>5 DEF FoundIsSeen
<1> QED
  BY <1>2, <1>4, <1>6 DEF SeenInv

\* Only CallUpdate counts a call of UpdateDiscoveryOptions.
LEMMA UpdatesKept ==
  ASSUME [Next]_vars, \A o : ~CallUpdate(o)
  PROVE  updates' = updates
<1>1. CASE Platform \/ OtherCall
  <2>1. ASSUME NEW m, NEW d, NEW a, Appear(m, d, a) \/ Rename(m, d, a) \/ Vanish(m, d, a)
        PROVE  updates' = updates
    BY <2>1 DEF Appear, Rename, Vanish
  <2>2. ASSUME NEW t, AlarmFires(t) PROVE updates' = updates
    BY <2>2 DEF AlarmFires, counts
  <2>3. OtherCall => updates' = updates
    BY DEF OtherCall, CallStart, CallStop, CallRequest, counts
  <2> QED
    BY <1>1, <2>1, <2>2, <2>3 DEF Platform
<1>2. CASE RunJob
  <2>1. StartDiscovery \/ StopDiscovery \/ RequestConnection => updates' = updates
    BY DEF StartDiscovery, StopDiscovery, RequestConnection, counts
  <2>2. UpdateDiscoveryOptions => UNCHANGED counts
    BY Zenon DEF UpdateDiscoveryOptions
  <2>3. EndpointLostByMediumAlarm => UNCHANGED counts
    BY Zenon DEF EndpointLostByMediumAlarm
  <2>4. BluetoothDeviceDiscoveredHandler \/ BluetoothNameChangedHandler
        \/ BluetoothDeviceLostHandler => Kept
    BY DEF BluetoothDeviceDiscoveredHandler, BluetoothNameChangedHandler, BluetoothDeviceLostHandler
  <2>5. BlePeripheralDiscoveredHandler \/ BlePeripheralLostHandler
        \/ BleV2PeripheralDiscoveredHandler \/ BleV2PeripheralLostHandler => Kept
    BY DEF BlePeripheralDiscoveredHandler, BlePeripheralLostHandler,
           BleV2PeripheralDiscoveredHandler, BleV2PeripheralLostHandler
  <2>6. WifiLanServiceDiscoveredHandler \/ WifiLanServiceLostHandler => Kept
    BY DEF WifiLanServiceDiscoveredHandler, WifiLanServiceLostHandler
  <2>7. Kept \/ UNCHANGED counts => updates' = updates
    BY DEF Kept, counts
  <2> QED
    BY <1>2, <2>1, <2>2, <2>3, <2>4, <2>5, <2>6, <2>7 DEF RunJob
<1>3. CASE UNCHANGED vars
  BY <1>3 DEF vars, counts
<1> QED
  BY <1>1, <1>2, <1>3 DEF Next, Application, OtherCall

\* Every step keeps what the reports and the entries say, until the options change.
LEMMA QuietNext == IInv /\ IInv' /\ QuietInv /\ [Next]_vars => QuietInv'
<1> SUFFICES ASSUME IInv, IInv', QuietInv, [Next]_vars PROVE QuietInv'
  OBVIOUS
<1>1. updates \in Nat
  BY DEF QuietInv
<1>2. ASSUME NEW o, CallUpdate(o) PROVE QuietInv'
  BY <1>1, <1>2 DEF CallUpdate, QuietInv
<1> SUFFICES ASSUME \A o : ~CallUpdate(o) PROVE QuietInv'
  BY <1>2
<1>6. updates' = updates
  BY UpdatesKept
<1>3. CASE UNCHANGED vars
  <2>1. UNCHANGED <<updates, bleV2, seen, foundBle, foundBleV2, timers, jobs, discovering, scanning, entries>>
    BY <1>3 DEF vars, client, handler, platform, counts
  <2>2. UNCHANGED SeenTypes /\ UNCHANGED NoAlarms /\ UNCHANGED IdleScans
    BY <2>1 DEF SeenTypes, NoAlarms, IdleScans
  <2>3. UNCHANGED FoundIsSeen
    BY <2>1 DEF FoundIsSeen, OnePerDevice
  <2>4. UNCHANGED Sourced
    BY <2>1 DEF Sourced, Queued, OnePerDevice
  <2> QED
    BY <2>1, <2>2, <2>3, <2>4 DEF QuietInv, SeenInv
<1>4. CASE Platform \/ OtherCall
  <2>1. updates' = updates
    BY <1>4, <1>6
  <2> QED
    BY <1>4, <2>1, PlatformSeen DEF QuietInv
<1>5. CASE RunJob
  <2>1. updates' = updates
    BY <1>5, <1>6
  <2>2. ASSUME SeenInv, ~StartDiscovery, ~StopDiscovery PROVE SeenInv'
    <3>1. /\ jobs # <<>> /\ jobs' = Tail(jobs) /\ timers' = {} /\ Steady
          /\ Skips(Head(jobs)) \/ FindsJob(Head(jobs)) \/ LosesJob(Head(jobs))
          /\ foundBle' \in [Device -> SUBSET Advert]
      BY <1>5, <2>2, ReportStep DEF SeenInv
    <3>2. UNCHANGED <<bleV2, seen, scanning, discovering>>
      BY <3>1 DEF Steady
    <3>3. NoAlarms' /\ IdleScans' /\ FoundIsSeen'
      BY <2>2, <3>1, <3>2, PoppedReports
    <3>4. Sourced'
      BY <2>2, <3>1, ReportSourced
    <3>5. SeenTypes'
      BY <2>2, <3>1, <3>2 DEF SeenInv, SeenTypes
    <3> QED
      BY <3>3, <3>4, <3>5 DEF SeenInv
  <2>3. SeenInv => SeenInv'
    BY <2>2, StartSeen, StopSeen
  <2> QED
    BY <2>1, <2>3 DEF QuietInv
<1> QED
  BY <1>2, <1>3, <1>4, <1>5 DEF Next, Application, OtherCall

\* The reports and the entries agree with the scans in every reachable state.
THEOREM QuietInvariance == Spec => []QuietInv
<1>1. Init => QuietInv
  <2> SUFFICES ASSUME Init PROVE QuietInv
    OBVIOUS
  <2>1. Len(jobs) = 0
    BY EmptySeq DEF Init
  <2>2. SeenTypes /\ NoAlarms /\ FoundIsSeen
    BY <2>1 DEF Init, SeenTypes, NoAlarms, FoundIsSeen
  <2>3. IdleScans /\ Sourced
    BY DEF Init, IdleScans, Sourced, Lan, Medium
  <2> QED
    BY <2>2, <2>3 DEF Init, QuietInv, SeenInv
<1> QED
  BY <1>1, QuietNext, Invariance, PTL DEF Spec

\* Under unchanged options, once every report was handled, discovered_endpoints_ holds no
\* endpoint of Wi-Fi LAN or of the second BLE scanner that its medium does not see any more:
\* no interleaving of finds, losses, stops and starts leaves one behind.
THEOREM NoneLeftBehind == Spec => []GoneIsLost
<1>1. IInv /\ QuietInv => GoneIsLost
  <2> SUFFICES ASSUME IInv, QuietInv, Quiet, updates = 0, NEW x \in entries,
                      x.medium \in Medium, ~OnePerDevice(x.medium)
               PROVE  \E s \in seen[x.medium] : s[2].id = x.id
    BY DEF GoneIsLost
  <2>0. x.medium \in Lan
    BY DEF Lan, Medium, OnePerDevice
  <2>1. PICK d \in Device, a \in Advert :
          a.id = x.id /\ (<<d, a>> \in seen[x.medium] \/ Queued(ReportOf("lost", x.medium, d, a)))
    BY <2>0 DEF QuietInv, SeenInv, Sourced, Quiet
  <2>2. ~Queued(ReportOf("lost", x.medium, d, a))
    BY EmptySeq DEF Queued, Quiet
  <2> QED
    BY <2>1, <2>2
<1> QED
  BY <1>1, Invariance, QuietInvariance, PTL

-----------------------------------------------------------------------------
(* An endpoint that BLE or Wi-Fi LAN sees is known.  OnEndpointLost names an endpoint and a *)
(* medium, not a device: if two devices advertised one id, the loss of one would hide the   *)
(* other.  Ids are drawn at random by each device, so no id has two owners.                 *)

Owned(owner) == \A m \in Medium : \A s \in seen[m] : s[1] = owner[s[2].id]

\* Neither a report nor the state of a peripheral is about another device's endpoint.
OwnedReports(owner) ==
  /\ \A i \in 1..Len(jobs) :
       jobs[i].kind \in {"found", "lost"} => jobs[i].dev = owner[jobs[i].adv.id]
  /\ \A d \in Device : \A a \in foundBle[d] : owner[a.id] = d

\* The first BLE scanner sees one advertisement of a device.
OneAdvert == \A m \in Lan : OnePerDevice(m) => \A s, t \in seen[m] : s[1] = t[1] => s = t

\* A report whose job may remove the entry of d's advertisement a.
Hits(j, m, d, a) ==
  j.kind = "lost" /\ j.medium = m /\ j.dev = d /\ (OnePerDevice(m) \/ j.adv = a)

Only(a) == \A b \in Advert : b.id = a.id => b = a

\* Of the reports about an advertisement that is seen the last is a find, or all were handled
\* and there is an entry.
Visible ==
  \A m \in Lan, d \in Device, a \in Advert :
    <<d, a>> \in seen[m] /\ Only(a) =>
      \/ \E i \in 1..Len(jobs) : /\ jobs[i] = ReportOf("found", m, d, a)
                                 /\ \A k \in 1..Len(jobs) : k > i => ~Hits(jobs[k], m, d, a)
      \/ /\ Present(entries, a.id, m)
         /\ \A k \in 1..Len(jobs) : ~Hits(jobs[k], m, d, a)

VisibleInv(owner) == updates = 0 => OwnedReports(owner) /\ OneAdvert /\ Visible

\* The jobs of reports: a find adds the entry, and a loss of another advertisement keeps it.
LEMMA ReportVisible ==
  ASSUME NEW owner, IInv, SeenInv, Owned(owner), OwnedReports(owner), Visible,
         jobs # <<>>, jobs' = Tail(jobs), Steady,
         Skips(Head(jobs)) \/ FindsJob(Head(jobs)) \/ LosesJob(Head(jobs))
  PROVE  Visible'
<1> DEFINE j == Head(jobs)
<1>1. /\ Len(jobs) \in Nat \ {0} /\ j = jobs[1] /\ 1 \in 1..Len(jobs)
      /\ \A i \in 1..Len(jobs') : i + 1 \in 1..Len(jobs) /\ i + 1 > 1 /\ jobs'[i] = jobs[i + 1]
      /\ \A i \in 1..Len(jobs) : i # 1 => i - 1 \in 1..Len(jobs') /\ jobs'[i - 1] = jobs[i]
  BY Popped
<1>2. UNCHANGED <<bleV2, seen, discovering>>
  BY DEF Steady
<1>3. \A m : OnePerDevice(m)' <=> OnePerDevice(m)
  BY <1>2 DEF OnePerDevice
<1> SUFFICES ASSUME NEW m \in Lan, NEW d \in Device, NEW a \in Advert, <<d, a>> \in seen[m], Only(a)
             PROVE  \/ \E i \in 1..Len(jobs') :
                         /\ jobs'[i] = ReportOf("found", m, d, a)
                         /\ \A k \in 1..Len(jobs') : k > i => ~Hits(jobs'[k], m, d, a)
                    \/ /\ Present(entries', a.id, m)
                       /\ \A k \in 1..Len(jobs') : ~Hits(jobs'[k], m, d, a)
  BY <1>2, <1>3, SMTT(30) DEF Visible, Hits, Only, Present
<1>4. discovering
  BY DEF SeenInv, IdleScans
<1>5. d = owner[a.id]
  <2>1. m \in Medium
    BY DEF Lan, Medium
  <2> QED
    BY <2>1 DEF Owned
<1>6. ASSUME NEW i \in 1..Len(jobs), jobs[i] = ReportOf("found", m, d, a), i # 1,
             \A k \in 1..Len(jobs) : k > i => ~Hits(jobs[k], m, d, a)
      PROVE  \E l \in 1..Len(jobs') : /\ jobs'[l] = ReportOf("found", m, d, a)
                                      /\ \A k \in 1..Len(jobs') : k > l => ~Hits(jobs'[k], m, d, a)
  <2>1. i - 1 \in 1..Len(jobs') /\ jobs'[i - 1] = ReportOf("found", m, d, a)
    BY <1>1, <1>6
  <2>2. ASSUME NEW k \in 1..Len(jobs'), k > i - 1 PROVE ~Hits(jobs'[k], m, d, a)
    <3>1. k + 1 > i
      BY <2>2
    <3> QED
      BY <1>1, <1>6, <3>1
  <2> QED
    BY <2>1, <2>2
<1>7. ASSUME jobs[1] = ReportOf("found", m, d, a),
             \A k \in 1..Len(jobs) : k > 1 => ~Hits(jobs[k], m, d, a)
      PROVE  Present(entries', a.id, m) /\ \A k \in 1..Len(jobs') : ~Hits(jobs'[k], m, d, a)
  <2>1. j.kind = "found" /\ j.medium = m /\ j.dev = d /\ j.adv = a
    BY <1>1, <1>7 DEF ReportOf
  <2>2. FindsJob(j)
    BY <1>4, <2>1 DEF Skips, LosesJob
  <2>3. PICK S : Finds(entries, S, EntryOf(a, m, d)) /\ LanKept(S, entries')
    BY <2>1, <2>2 DEF FindsJob
  <2>4. Present(S, a.id, m)
    <3>1. EntryOf(a, m, d).id = a.id /\ EntryOf(a, m, d).medium = m
      BY DEF EntryOf
    <3> QED
      BY <2>3, <3>1 DEF Finds
  <2>5. Present(entries', a.id, m)
    BY <2>3, <2>4 DEF LanKept, Present
  <2> QED
    BY <1>1, <1>7, <2>5
<1>8. ASSUME Present(entries, a.id, m), \A k \in 1..Len(jobs) : ~Hits(jobs[k], m, d, a)
      PROVE  Present(entries', a.id, m) /\ \A k \in 1..Len(jobs') : ~Hits(jobs'[k], m, d, a)
  <2>1. \A k \in 1..Len(jobs') : ~Hits(jobs'[k], m, d, a)
    BY <1>1, <1>8
  <2>2. PICK y \in entries : y.id = a.id /\ y.medium = m
    BY <1>8 DEF Present
  <2>3. CASE Skips(j)
    BY <2>1, <2>2, <2>3 DEF Skips, LanKept
  <2>4. CASE FindsJob(j)
    <3>1. PICK S : Finds(entries, S, EntryOf(j.adv, j.medium, j.dev)) /\ LanKept(S, entries')
      BY <2>4 DEF FindsJob
    <3>2. Present(S, a.id, m)
      BY <2>2, <3>1 DEF Finds
    <3>3. Present(entries', a.id, m)
      BY <3>1, <3>2 DEF LanKept, Present
    <3> QED
      BY <2>1, <3>3
  <2>5. CASE LosesJob(j)
    <3>1. PICK S, b : /\ Loses(entries, S, b.id, j.medium) /\ LanKept(S, entries')
                      /\ IF OnePerDevice(j.medium) THEN b \in foundBle[j.dev] ELSE b = j.adv
      BY <2>5 DEF LosesJob
    <3>2. j.dev \in Device /\ j.adv \in Advert /\ j.kind = "lost"
      BY <2>5, HeadJob DEF LosesJob
    <3>3. ~Hits(j, m, d, a)
      BY <1>1, <1>8
    <3>4. ~(b.id = a.id /\ j.medium = m)
      <4> SUFFICES ASSUME b.id = a.id, j.medium = m PROVE FALSE
        OBVIOUS
      <4>1. CASE OnePerDevice(m)
        <5>1. owner[b.id] = j.dev
          BY <3>1, <3>2, <4>1 DEF OwnedReports
        <5> QED
          BY <1>5, <3>2, <3>3, <4>1, <5>1 DEF Hits
      <4>2. CASE ~OnePerDevice(m)
        <5>1. j.adv = a
          BY <3>1, <3>2, <4>2 DEF Only
        <5>2. j.dev = owner[a.id]
          BY <1>1, <3>2, <5>1 DEF OwnedReports
        <5> QED
          BY <1>5, <3>2, <3>3, <5>1, <5>2 DEF Hits
      <4> QED
        BY <4>1, <4>2
    <3>5. y \in S
      BY <2>2, <3>1, <3>4 DEF Loses
    <3>6. Present(entries', a.id, m)
      BY <2>2, <3>1, <3>5 DEF LanKept
    <3> QED
      BY <2>1, <3>6
  <2> QED
    BY <2>3, <2>4, <2>5
<1> QED
  BY <1>6, <1>7, <1>8 DEF Visible

\* The jobs of reports and peripherals' states stay with their devices.
LEMMA ReportOwned ==
  ASSUME NEW owner, IInv, SeenInv, OwnedReports(owner),
         jobs # <<>>, jobs' = Tail(jobs),
         \/ UNCHANGED foundBle
         \/ Skips(Head(jobs)) \/ FindsJob(Head(jobs)) \/ LosesJob(Head(jobs))
  PROVE  OwnedReports(owner)'
<1> DEFINE j == Head(jobs)
<1>1. /\ j = jobs[1] /\ 1 \in 1..Len(jobs)
      /\ \A i \in 1..Len(jobs') : i + 1 \in 1..Len(jobs) /\ jobs'[i] = jobs[i + 1]
  BY Popped
<1>2. \A i \in 1..Len(jobs') :
        jobs'[i].kind \in {"found", "lost"} => jobs'[i].dev = owner[jobs'[i].adv.id]
  BY <1>1 DEF OwnedReports
<1>3. ASSUME NEW d \in Device, NEW a \in foundBle'[d] PROVE owner[a.id] = d
  <2>1. CASE a \in foundBle[d]
    BY <2>1 DEF OwnedReports
  <2>2. CASE a \notin foundBle[d]
    <3>1. FindsJob(j) /\ d = j.dev /\ a = j.adv
      BY <1>3, <2>2 DEF Skips, FindsJob, LosesJob
    <3>2. j.dev = owner[j.adv.id]
      BY <1>1, <3>1 DEF FindsJob, OwnedReports
    <3> QED
      BY <3>1, <3>2
  <2> QED
    BY <2>1, <2>2
<1> QED
  BY <1>2, <1>3 DEF OwnedReports

\* A job is posted: what the scans see besides stays as it was.
LEMMA PostedVisible ==
  ASSUME NEW owner, IInv, OwnedReports(owner), Visible, NEW j, Post(j),
         UNCHANGED <<bleV2, entries, foundBle>>,
         j.kind \in {"found", "lost"} => j.dev = owner[j.adv.id],
         \A m \in Lan, d \in Device, a \in Advert : <<d, a>> \in seen'[m] =>
           \/ j = ReportOf("found", m, d, a)
           \/ <<d, a>> \in seen[m] /\ ~Hits(j, m, d, a)
  PROVE  OwnedReports(owner)' /\ Visible'
<1>1. /\ Len(jobs) \in Nat /\ Len(jobs') = Len(jobs) + 1 /\ jobs'[Len(jobs')] = j
      /\ \A i \in 1..Len(jobs) : i \in 1..Len(jobs') /\ i < Len(jobs') /\ jobs'[i] = jobs[i]
      /\ \A i \in 1..Len(jobs') : i \in 1..Len(jobs) \/ i = Len(jobs')
      /\ Len(jobs') \in 1..Len(jobs')
  BY Pushed
<1>2. OwnedReports(owner)'
  BY <1>1 DEF OwnedReports
<1>3. \A m : OnePerDevice(m)' <=> OnePerDevice(m)
  BY DEF OnePerDevice
<1>4. ASSUME NEW m \in Lan, NEW d \in Device, NEW a \in Advert, <<d, a>> \in seen'[m], Only(a)
      PROVE  \/ \E i \in 1..Len(jobs') :
                  /\ jobs'[i] = ReportOf("found", m, d, a)
                  /\ \A k \in 1..Len(jobs') : k > i => ~Hits(jobs'[k], m, d, a)
             \/ /\ Present(entries', a.id, m)
                /\ \A k \in 1..Len(jobs') : ~Hits(jobs'[k], m, d, a)
  <2>1. CASE j = ReportOf("found", m, d, a)
    BY <1>1, <2>1
  <2>2. CASE <<d, a>> \in seen[m] /\ ~Hits(j, m, d, a)
    <3>1. ASSUME NEW i \in 1..Len(jobs), jobs[i] = ReportOf("found", m, d, a),
                 \A k \in 1..Len(jobs) : k > i => ~Hits(jobs[k], m, d, a)
          PROVE  /\ i \in 1..Len(jobs') /\ jobs'[i] = ReportOf("found", m, d, a)
                 /\ \A k \in 1..Len(jobs') : k > i => ~Hits(jobs'[k], m, d, a)
      BY <1>1, <2>2, <3>1
    <3>2. ASSUME \A k \in 1..Len(jobs) : ~Hits(jobs[k], m, d, a)
          PROVE  \A k \in 1..Len(jobs') : ~Hits(jobs'[k], m, d, a)
      BY <1>1, <2>2, <3>2
    <3> QED
      BY <1>4, <2>2, <3>1, <3>2 DEF Visible
  <2> QED
    BY <1>4, <2>1, <2>2
<1>5. Visible'
  BY <1>3, <1>4 DEF Visible, Hits, Only, Present
<1> QED
  BY <1>2, <1>5

\* What the mediums report and the application asks for.
LEMMA PlatformVisible ==
  ASSUME NEW owner, IInv, SeenInv, Owned(owner), Owned(owner)', OwnedReports(owner), OneAdvert, Visible,
         Platform \/ OtherCall
  PROVE  OwnedReports(owner)' /\ OneAdvert' /\ Visible'
<1>0. seen \in [Medium -> SUBSET (Device \X Advert)] /\ Lan \subseteq Medium
  BY DEF SeenInv, SeenTypes, Lan, Medium
<1>1. ASSUME NEW m \in Medium, NEW d \in Device, NEW a \in Advert, Appear(m, d, a)
      PROVE  OwnedReports(owner)' /\ OneAdvert' /\ Visible'
  <2> DEFINE j == ReportOf("found", m, d, a)
  <2>1. /\ Post(j) /\ seen' = [seen EXCEPT ![m] = @ \cup {<<d, a>>}]
        /\ OnePerDevice(m) => \A b \in Advert : <<d, b>> \notin seen[m]
        /\ UNCHANGED <<bleV2, entries, foundBle>>
    BY <1>1 DEF Appear, Reports, ReportOf, client, handler
  <2>2. \A n : OnePerDevice(n)' <=> OnePerDevice(n)
    BY <2>1 DEF OnePerDevice
  <2>3. OneAdvert'
    <3> SUFFICES ASSUME NEW n \in Lan, OnePerDevice(n), NEW s \in seen'[n], NEW t \in seen'[n],
                        s[1] = t[1]
                 PROVE  s = t
      BY <2>2 DEF OneAdvert
    <3>1. seen[n] \in SUBSET (Device \X Advert)
      BY <1>0
    <3>2. CASE n = m
      <4>1. s \in seen[n] \cup {<<d, a>>} /\ t \in seen[n] \cup {<<d, a>>}
        BY <1>0, <2>1, <3>2
      <4>2. \A u \in seen[n] : u[1] # d
        BY <2>1, <3>1, <3>2
      <4> QED
        BY <4>1, <4>2 DEF OneAdvert
    <3>3. CASE n # m
      <4>1. s \in seen[n] /\ t \in seen[n]
        BY <1>0, <2>1, <3>3
      <4> QED
        BY <4>1 DEF OneAdvert
    <3> QED
      BY <3>2, <3>3
  <2>4. j.dev = owner[j.adv.id]
    <3>1. <<d, a>> \in seen'[m]
      BY <1>0, <2>1
    <3> QED
      BY <3>1 DEF Owned, ReportOf
  <2>5. ASSUME NEW n \in Lan, NEW e \in Device, NEW b \in Advert, <<e, b>> \in seen'[n]
        PROVE  j = ReportOf("found", n, e, b) \/ (<<e, b>> \in seen[n] /\ ~Hits(j, n, e, b))
    <3>1. CASE n = m /\ <<e, b>> = <<d, a>>
      BY <3>1
    <3>2. CASE <<e, b>> \in seen[n]
      BY <3>2 DEF Hits, ReportOf
    <3> QED
      BY <1>0, <2>1, <2>5, <3>1, <3>2
  <2> QED
    BY <2>1, <2>3, <2>4, <2>5, PostedVisible
<1>2. ASSUME NEW m \in Medium, NEW d \in Device, NEW a \in Advert, Rename(m, d, a)
      PROVE  OwnedReports(owner)' /\ OneAdvert' /\ Visible'
  <2>1. PICK k \in {"found", "changed"} : /\ Post(ReportOf(k, m, d, a))
                                          /\ m # "BLUETOOTH" => k = "found"
    BY <1>2 DEF Rename, Reports, ReportOf
  <2> DEFINE j == ReportOf(k, m, d, a)
  <2>2. /\ seen' = [seen EXCEPT ![m] = {s \in @ : s[1] # d} \cup {<<d, a>>}]
        /\ UNCHANGED <<bleV2, entries, foundBle>>
    BY <1>2 DEF Rename, client, handler
  <2>3. \A n : OnePerDevice(n)' <=> OnePerDevice(n)
    BY <2>2 DEF OnePerDevice
  <2>4. OneAdvert'
    <3> SUFFICES ASSUME NEW n \in Lan, OnePerDevice(n), NEW s \in seen'[n], NEW t \in seen'[n],
                        s[1] = t[1]
                 PROVE  s = t
      BY <2>3 DEF OneAdvert
    <3>1. CASE n = m
      <4>1. /\ (s \in seen[n] /\ s[1] # d) \/ s = <<d, a>>
            /\ (t \in seen[n] /\ t[1] # d) \/ t = <<d, a>>
        BY <1>0, <2>2, <3>1
      <4> QED
        BY <4>1 DEF OneAdvert
    <3>2. CASE n # m
      <4>1. s \in seen[n] /\ t \in seen[n]
        BY <1>0, <2>2, <3>2
      <4> QED
        BY <4>1 DEF OneAdvert
    <3> QED
      BY <3>1, <3>2
  <2>5. j.dev = owner[j.adv.id]
    <3>1. <<d, a>> \in seen'[m]
      BY <1>0, <2>2
    <3> QED
      BY <3>1 DEF Owned, ReportOf
  <2>6. ASSUME NEW n \in Lan, NEW e \in Device, NEW b \in Advert, <<e, b>> \in seen'[n]
        PROVE  j = ReportOf("found", n, e, b) \/ (<<e, b>> \in seen[n] /\ ~Hits(j, n, e, b))
    <3>1. CASE n = m /\ <<e, b>> = <<d, a>>
      BY <2>1, <3>1 DEF Lan
    <3>2. CASE <<e, b>> \in seen[n]
      BY <3>2 DEF Hits, ReportOf
    <3> QED
      BY <1>0, <2>2, <2>6, <3>1, <3>2
  <2> QED
    BY <2>1, <2>2, <2>4, <2>5, <2>6, PostedVisible
<1>3. ASSUME NEW m \in Medium, NEW d \in Device, NEW a \in Advert, Vanish(m, d, a)
      PROVE  OwnedReports(owner)' /\ OneAdvert' /\ Visible'
  <2> DEFINE j == ReportOf("lost", m, d, a)
  <2>1. /\ Post(j) /\ <<d, a>> \in seen[m] /\ seen' = [seen EXCEPT ![m] = @ \ {<<d, a>>}]
        /\ UNCHANGED <<bleV2, entries, foundBle>>
    BY <1>3 DEF Vanish, Reports, ReportOf, client, handler
  <2>2. \A n : OnePerDevice(n)' <=> OnePerDevice(n)
    BY <2>1 DEF OnePerDevice
  <2>3. \A n \in Medium : seen'[n] \subseteq seen[n]
    BY <1>0, <2>1
  <2>4. OneAdvert'
    BY <1>0, <2>2, <2>3 DEF OneAdvert
  <2>5. j.dev = owner[j.adv.id]
    BY <2>1 DEF Owned, ReportOf
  <2>6. ASSUME NEW n \in Lan, NEW e \in Device, NEW b \in Advert, <<e, b>> \in seen'[n]
        PROVE  <<e, b>> \in seen[n] /\ ~Hits(j, n, e, b)
    <3>1. <<e, b>> \in seen[n] /\ ~(n = m /\ <<e, b>> = <<d, a>>)
      BY <1>0, <2>1, <2>6
    <3>2. ASSUME Hits(j, n, e, b) PROVE FALSE
      <4>1. n = m /\ e = d /\ (OnePerDevice(n) \/ a = b)
        BY <3>2 DEF Hits, ReportOf
      <4>2. CASE OnePerDevice(n)
        <5>1. <<e, b>> = <<d, a>>
          BY <2>1, <3>1, <4>1, <4>2 DEF OneAdvert
        <5> QED
          BY <3>1, <4>1, <5>1
      <4>3. CASE a = b
        BY <3>1, <4>1, <4>3
      <4> QED
        BY <4>1, <4>2, <4>3
    <3> QED
      BY <3>1, <3>2
  <2> QED
    BY <2>1, <2>4, <2>5, <2>6, PostedVisible
<1>4. ASSUME NEW t \in timers PROVE FALSE
  BY DEF SeenInv, NoAlarms
<1>5. ASSUME NEW j, j.kind \in {"start", "stop", "request"}, Post(j),
             UNCHANGED <<bleV2, entries, foundBle, seen>>
      PROVE  OwnedReports(owner)' /\ OneAdvert' /\ Visible'
  <2>1. j.kind \notin {"found", "lost"}
    BY <1>5
  <2>2. OneAdvert'
    BY <1>5 DEF OneAdvert, OnePerDevice
  <2>3. \A m, d, a : ~Hits(j, m, d, a)
    BY <2>1 DEF Hits
  <2>4. OwnedReports(owner)' /\ Visible'
    BY <1>5, <2>1, <2>3, PostedVisible
  <2> QED
    BY <2>2, <2>4
<1>6. CASE OtherCall
  <2>1. PICK j : j.kind \in {"start", "stop", "request"} /\ Post(j)
    BY <1>6, OtherCallPosts
  <2>2. UNCHANGED <<bleV2, entries, foundBle, seen>>
    BY <1>6 DEF OtherCall, CallStart, CallStop, CallRequest, client, handler, platform
  <2> QED
    BY <1>5, <2>1, <2>2
<1> QED
  BY <1>1, <1>2, <1>3, <1>4, <1>6 DEF Platform

\* A session starts and ends with nothing seen.
LEMMA SessionVisible ==
  ASSUME NEW owner, IInv, SeenInv, SeenInv', OwnedReports(owner), OneAdvert,
         StartDiscovery \/ StopDiscovery
  PROVE  OwnedReports(owner)' /\ OneAdvert' /\ Visible'
<1>1. /\ jobs # <<>> /\ jobs' = Tail(jobs) /\ UNCHANGED <<bleV2, foundBle>>
      /\ \A m \in Lan : seen'[m] = {}
  <2>1. CASE StartDiscovery
    <3>1. /\ jobs # <<>> /\ Head(jobs).kind = "start" /\ jobs' = Tail(jobs)
          /\ UNCHANGED <<bleV2, foundBle, seen>>
      BY <2>1, StartStep DEF SeenInv
    <3>2. Head(jobs) = jobs[1] /\ 1 \in 1..Len(jobs)
      BY <3>1, Popped
    <3>3. ~discovering
      BY <3>1, <3>2 DEF IInv, CallsInv
    <3> QED
      BY <3>1, <3>3 DEF SeenInv, IdleScans
  <2>2. CASE StopDiscovery
    BY <2>2, StopStep DEF SeenInv
  <2> QED
    BY <2>1, <2>2
<1>2. OwnedReports(owner)'
  BY <1>1, ReportOwned
<1>3. OneAdvert' /\ Visible'
  BY <1>1 DEF OneAdvert, Visible
<1> QED
  BY <1>2, <1>3

\* Every step keeps the entries of what is seen, until the options change.
LEMMA VisibleNext ==
  ASSUME NEW owner
  PROVE  IInv /\ QuietInv /\ QuietInv' /\ Owned(owner) /\ Owned(owner)' /\ VisibleInv(owner)
           /\ [Next]_vars => VisibleInv(owner)'
<1> SUFFICES ASSUME IInv, QuietInv, QuietInv', Owned(owner), Owned(owner)', VisibleInv(owner),
                    [Next]_vars, updates' = 0
             PROVE  (OwnedReports(owner) /\ OneAdvert /\ Visible)'
  BY DEF VisibleInv
<1>1. updates = 0 /\ ~(\E o : CallUpdate(o))
  <2>1. \A o : ~CallUpdate(o)
    BY DEF CallUpdate, QuietInv
  <2>2. updates' = updates
    BY <2>1, UpdatesKept DEF Application
  <2> QED
    BY <2>1, <2>2
<1>2. SeenInv /\ SeenInv' /\ OwnedReports(owner) /\ OneAdvert /\ Visible
  BY <1>1 DEF QuietInv, VisibleInv
<1>3. CASE UNCHANGED vars
  <2>1. UNCHANGED <<bleV2, seen, jobs, entries, foundBle>>
    BY <1>3 DEF vars, handler, platform
  <2> QED
    BY <1>2, <2>1 DEF OwnedReports, OneAdvert, Visible, OnePerDevice, Hits, Present, Only
<1>4. CASE Platform \/ OtherCall
  BY <1>2, <1>4, PlatformVisible
<1>5. CASE RunJob /\ ~StartDiscovery /\ ~StopDiscovery
  <2>1. /\ jobs # <<>> /\ jobs' = Tail(jobs) /\ Steady
        /\ Skips(Head(jobs)) \/ FindsJob(Head(jobs)) \/ LosesJob(Head(jobs))
    BY <1>2, <1>5, ReportStep DEF SeenInv
  <2>2. OwnedReports(owner)' /\ Visible'
    BY <1>2, <2>1, ReportOwned, ReportVisible
  <2>3. OneAdvert'
    BY <1>2, <2>1 DEF OneAdvert, OnePerDevice, Steady
  <2> QED
    BY <2>2, <2>3
<1>6. CASE StartDiscovery \/ StopDiscovery
  BY <1>2, <1>6, SessionVisible
<1> QED
  BY <1>1, <1>3, <1>4, <1>5, <1>6 DEF Next, Application, OtherCall

\* Nothing is seen before the first session.
LEMMA VisibleInit == ASSUME NEW owner, Init PROVE VisibleInv(owner)
<1>1. Len(jobs) = 0 /\ \A m \in Lan : seen[m] = {}
  BY EmptySeq DEF Init, Lan, Medium
<1>2. OwnedReports(owner)
  BY <1>1 DEF Init, OwnedReports
<1> QED
  BY <1>1, <1>2 DEF VisibleInv, OneAdvert, Visible

\* When every report was handled, what is seen has an entry, of which the client was told.
LEMMA VisibleQuiet == ASSUME NEW owner, IInv, VisibleInv(owner) PROVE VisibleReported
<1> SUFFICES ASSUME Quiet, updates = 0, NEW m \in {"BLE", "WIFI_LAN"},
                    NEW s \in Device \X Advert, s \in seen[m],
                    \A a \in Advert : a.id = s[2].id => a = s[2]
             PROVE  told[s[2].id] # NotTold
  BY DEF VisibleReported
<1>1. PICK d \in Device, a \in Advert : s = <<d, a>>
  OBVIOUS
<1>2. Len(jobs) = 0
  BY EmptySeq DEF Quiet
<1>3. Present(entries, a.id, m)
  BY <1>1, <1>2 DEF VisibleInv, Visible, Only, Lan
<1>4. a.id \in Endpoint
  BY DiscoveryAssumption
<1> QED
  BY <1>1, <1>3, <1>4 DEF IInv, ReportedMatchesDiscovered, Present, Quiet

\* An endpoint that never changes its info, and whose id only one device uses, is known to the
\* client as long as Wi-Fi LAN or BLE sees it, whatever is lost on the other mediums and
\* whatever reports of earlier sessions are still handled in this one.
THEOREM SeenIsReported ==
  ASSUME NEW CONSTANT owner
  PROVE  Spec /\ []Owned(owner) => []VisibleReported
<1>1. Init => VisibleInv(owner)
  BY VisibleInit
<1>2. IInv /\ VisibleInv(owner) => VisibleReported
  BY VisibleQuiet
<1>3. IInv /\ QuietInv /\ QuietInv' /\ Owned(owner) /\ Owned(owner)' /\ VisibleInv(owner)
        /\ [Next]_vars => VisibleInv(owner)'
  BY VisibleNext
<1> QED
  BY <1>1, <1>2, <1>3, Invariance, QuietInvariance, PTL DEF Spec

\* A scan sees advertisements of devices, whatever is turned on and off.
LEMMA SeenTypeInv ==
  Spec => [](seen \in [Medium -> SUBSET (Device \X Advert)])
<1> DEFINE T == seen \in [Medium -> SUBSET (Device \X Advert)]
<1>1. Init => T
  BY DEF Init
<1>2. T /\ [Next]_vars => T'
  <2> SUFFICES ASSUME T, [Next]_vars PROVE T'
    OBVIOUS
  <2>1. ASSUME NEW m \in Medium, NEW d \in Device, NEW a \in Advert,
               Appear(m, d, a) \/ Rename(m, d, a) \/ Vanish(m, d, a)
        PROVE  T'
    BY <2>1 DEF Appear, Rename, Vanish
  <2>2. ASSUME NEW t, AlarmFires(t) PROVE T'
    BY <2>2 DEF AlarmFires, platform
  <2>3. CASE Application
    BY <2>3 DEF Application, CallStart, CallStop, CallUpdate, CallRequest, platform
  <2>4. ASSUME NEW off, NEW on, Rescan(off, on) PROVE T'
    BY <2>4 DEF Rescan
  <2>5. CASE StartDiscovery \/ StopDiscovery
    BY <2>4, <2>5 DEF StartDiscovery, StopDiscovery, platform
  <2>6. CASE UpdateDiscoveryOptions
    <3>1. \E off, on : Rescan(off, on)
      BY <2>6, Zenon DEF UpdateDiscoveryOptions
    <3> QED
      BY <2>4, <3>1
  <2>7. CASE EndpointLostByMediumAlarm
    <3>1. UNCHANGED platform
      BY <2>7, Zenon DEF EndpointLostByMediumAlarm
    <3> QED
      BY <3>1 DEF platform
  <2>8. CASE Kept \/ RequestConnection
    BY <2>8 DEF Kept, RequestConnection, platform
  <2>9. CASE UNCHANGED vars
    BY <2>9 DEF vars, platform
  <2>10. RunJob => StartDiscovery \/ StopDiscovery \/ UpdateDiscoveryOptions
                   \/ EndpointLostByMediumAlarm \/ Kept \/ RequestConnection
    <3>1. BluetoothDeviceDiscoveredHandler \/ BluetoothNameChangedHandler
          \/ BluetoothDeviceLostHandler => Kept
      BY DEF BluetoothDeviceDiscoveredHandler, BluetoothNameChangedHandler, BluetoothDeviceLostHandler
    <3>2. BlePeripheralDiscoveredHandler \/ BlePeripheralLostHandler
          \/ BleV2PeripheralDiscoveredHandler \/ BleV2PeripheralLostHandler => Kept
      BY DEF BlePeripheralDiscoveredHandler, BlePeripheralLostHandler,
             BleV2PeripheralDiscoveredHandler, BleV2PeripheralLostHandler
    <3>3. WifiLanServiceDiscoveredHandler \/ WifiLanServiceLostHandler => Kept
      BY DEF WifiLanServiceDiscoveredHandler, WifiLanServiceLostHandler
    <3> QED
      BY <3>1, <3>2, <3>3 DEF RunJob
  <2> QED
    BY <2>1, <2>2, <2>3, <2>5, <2>6, <2>7, <2>8, <2>9, <2>10 DEF Next, Platform
<1> QED
  BY <1>1, <1>2, PTL DEF Spec

\* With one device around, which is what the model checker tries, nothing is assumed of ids.
THEOREM OneDeviceSeen ==
  ASSUME NEW CONSTANT dev, Device = {dev}
  PROVE  Spec => []VisibleReported
<1> DEFINE owner == [e \in Endpoint |-> dev]
<1>1. seen \in [Medium -> SUBSET (Device \X Advert)] => Owned(owner)
  <2> SUFFICES ASSUME seen \in [Medium -> SUBSET (Device \X Advert)],
                      NEW m \in Medium, NEW s \in seen[m]
               PROVE  s[1] = owner[s[2].id]
    BY DEF Owned
  <2>1. s[1] \in Device /\ s[2] \in Advert
    OBVIOUS
  <2>2. s[2].id \in Endpoint
    BY <2>1, DiscoveryAssumption
  <2> QED
    BY <2>1, <2>2
<1> HIDE DEF owner
<1>2. Init => VisibleInv(owner)
  BY VisibleInit
<1>3. IInv /\ VisibleInv(owner) => VisibleReported
  BY VisibleQuiet
<1>4. IInv /\ QuietInv /\ QuietInv' /\ Owned(owner) /\ Owned(owner)' /\ VisibleInv(owner)
        /\ [Next]_vars => VisibleInv(owner)'
  BY VisibleNext
<1> QED
  BY <1>1, <1>2, <1>3, <1>4, SeenTypeInv, Invariance, QuietInvariance, PTL DEF Spec
=============================================================================
