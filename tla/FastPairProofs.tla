--------------------------- MODULE FastPairProofs ---------------------------
(***************************************************************************)
(* Proofs about FastPairProvider, for any seekers, keys and limits.        *)
(* OneRotationTimer is not inductive: that the advertised mode implies a   *)
(* timer says nothing of what a timer left by an earlier mode is called.   *)
(* TimerOfTask closes the gap: the handle and the running timers determine *)
(* each other in every mode.  KeysLeastRecentlyUsed needs that no key      *)
(* occurs twice in the history of use.                                     *)
(***************************************************************************)
EXTENDS FastPairProvider, SequenceTheorems, TLAPS

\* With no timer running the platform hands out a handle, and it is not NULL.
LEMMA FirstTimer == NewTimer({}) \in Nat \ {0}
<1>1. \E t \in 1..(MaxTimers + 1) : t \notin {} /\ \A u \in 1..(t - 1) : u \in {}
  <2>1. 1 \in 1..(MaxTimers + 1) /\ 1..(1 - 1) = {}
    BY FastPairAssumption
  <2> QED
    BY <2>1
<1>2. NewTimer({}) \in 1..(MaxTimers + 1)
  BY <1>1 DEF NewTimer
<1> QED
  BY <1>2, FastPairAssumption

-----------------------------------------------------------------------------
(* The account key list as a bounded view of the history of use. *)

Least(m, n) == IF m < n THEN m ELSE n

Distinct(s) == \A i, j \in 1..Len(s) : s[i] = s[j] => i = j

\* What a prefix of a sequence is made of.
LEMMA PrefixProperties ==
  ASSUME NEW S, NEW r \in Seq(S), NEW n \in 0..Len(r)
  PROVE  /\ SubSeq(r, 1, n) \in Seq(S)
         /\ Len(SubSeq(r, 1, n)) = n
         /\ \A i \in 1..n : SubSeq(r, 1, n)[i] = r[i]
<1>1. \A i \in 1..n : r[i] \in S
  BY LenProperties
<1> QED
  BY <1>1, SubSeqProperties

\* Where Used finds the key, and what it returns: a sequence of keys that are still distinct.
LEMMA UsedProperties ==
  ASSUME NEW S, NEW r \in Seq(S), Distinct(r), NEW k \in S
  PROVE  \E last \in 1..(Len(r) + 1) :
           /\ last <= Len(r) => r[last] = k
           /\ last = Len(r) + 1 => k \notin ToSet(r)
           /\ Used(r, k) \in Seq(S)
           /\ Len(Used(r, k)) = (IF last > Len(r) THEN last ELSE Len(r))
           /\ \A i \in 1..Len(Used(r, k)) :
                Used(r, k)[i] = IF i = 1 THEN k ELSE IF i <= last THEN r[i - 1] ELSE r[i]
           /\ Distinct(Used(r, k))
<1> DEFINE last == IF k \in ToSet(r) THEN CHOOSE i \in DOMAIN r : r[i] = k ELSE Len(r) + 1
           len  == IF last > Len(r) THEN last ELSE Len(r)
           u    == [i \in 1..len |-> IF i = 1 THEN k ELSE IF i <= last THEN r[i - 1] ELSE r[i]]
<1>1. Len(r) \in Nat /\ DOMAIN r = 1..Len(r) /\ \A i \in 1..Len(r) : r[i] \in S
  BY LenProperties
<1>2. /\ last \in 1..(Len(r) + 1)
      /\ last <= Len(r) => r[last] = k
      /\ last = Len(r) + 1 => k \notin ToSet(r)
  BY <1>1 DEF ToSet
<1>3. Used(r, k) = u
  BY DEF Used
<1> HIDE DEF last
<1>4. len \in Nat /\ \A i \in 1..len : u[i] \in S
  BY <1>1, <1>2
<1>5. u \in Seq(S) /\ Len(u) = len
  <2>1. u \in [1..len -> S]
    BY <1>4
  <2> HIDE DEF u, len
  <2>2. u \in Seq(S)
    BY <1>4, <2>1
  <2>3. Len(u) \in Nat /\ \A i \in Int : i \in 1..Len(u) <=> i \in 1..len
    BY <2>1, <2>2, LenProperties
  <2>4. Len(u) \in 1..len \/ Len(u) = 0
    BY <2>3
  <2>5. len \in 1..Len(u) \/ len = 0
    BY <2>3, <1>4
  <2> QED
    BY <2>2, <2>3, <2>4, <2>5, <1>4
<1>6. Distinct(u)
  <2>1. \A j \in 1..Len(r) : r[j] = k => j = last
    BY <1>1, <1>2 DEF Distinct, ToSet
  <2> QED
    BY <1>1, <1>2, <1>4, <1>5, <2>1 DEF Distinct
<1> QED
  BY <1>2, <1>3, <1>4, <1>5, <1>6

\* nearby_fp_AddAccountKey, on the keys used last, yields the keys used last: a key that is
\* known moves to the front wherever it is, a new one pushes the oldest out, and a key that
\* was forgotten comes back as a new one.
LEMMA AddAccountKeyIsLru ==
  ASSUME NEW r \in Seq(AccountKey), Distinct(r), NEW k \in AccountKey
  PROVE  AddAccountKey(Latest(r), k) = Latest(Used(r, k))
<1> DEFINE l == Latest(r)
           u == Used(r, k)
           n == Least(Len(r), MaxKeys)
           m == Least(Len(u), MaxKeys)
<1>1. PICK last \in 1..(Len(r) + 1) :
           /\ last <= Len(r) => r[last] = k
           /\ last = Len(r) + 1 => k \notin ToSet(r)
           /\ u \in Seq(AccountKey)
           /\ Len(u) = (IF last > Len(r) THEN last ELSE Len(r))
           /\ \A i \in 1..Len(u) : u[i] = IF i = 1 THEN k ELSE IF i <= last THEN r[i - 1] ELSE r[i]
           /\ Distinct(u)
  BY UsedProperties
<1> HIDE DEF u
<1>2. Len(r) \in Nat /\ DOMAIN r = 1..Len(r) /\ MaxKeys \in Nat \ {0} /\ Len(u) \in Nat
  BY LenProperties, FastPairAssumption, <1>1
<1>3. n \in 0..Len(r) /\ m \in 0..Len(u) /\ n <= MaxKeys
  BY <1>1, <1>2 DEF Least
<1>4. l \in Seq(AccountKey) /\ Len(l) = n /\ DOMAIN l = 1..n /\ \A i \in 1..n : l[i] = r[i]
  BY <1>3, PrefixProperties, LenProperties DEF Latest, Least
<1>5. Latest(u) \in Seq(AccountKey) /\ Len(Latest(u)) = m /\ \A i \in 1..m : Latest(u)[i] = u[i]
  BY <1>1, <1>3, PrefixProperties DEF Latest, Least
<1> HIDE DEF l
<1> SUFFICES AddAccountKey(l, k) = Latest(u)
  BY DEF l, u
<1>6. CASE last <= n
  <2>1. k \in ToSet(l) /\ (CHOOSE i \in DOMAIN l : l[i] = k) = last
    <3>1. \A i \in 1..n : l[i] = k => i = last
      BY <1>1, <1>2, <1>3, <1>4, <1>6 DEF Distinct
    <3> QED
      BY <1>1, <1>2, <1>3, <1>4, <1>6, <3>1 DEF ToSet
  <2> DEFINE a == SubSeq(l, 1, last - 1)
             b == SubSeq(l, last + 1, Len(l))
             c == <<l[last]>>
  <2>2. AddAccountKey(l, k) = c \o a \o b
    BY <2>1 DEF AddAccountKey
  <2>3. \A i \in 1..n : l[i] \in AccountKey
    BY <1>4, LenProperties
  <2>4. /\ a \in Seq(AccountKey) /\ Len(a) = last - 1
        /\ \A i \in 1..(last - 1) : a[i] = l[i]
    <3>1. last - 1 \in 0..Len(l)
      BY <1>1, <1>2, <1>3, <1>4, <1>6
    <3> QED
      BY <3>1, <1>4, PrefixProperties
  <2>5. /\ b \in Seq(AccountKey) /\ Len(b) = n - last
        /\ \A i \in 1..(n - last) : b[i] = l[last + i]
    <3>1. last + 1 \in Int /\ n \in Int /\ \A i \in (last + 1)..n : l[i] \in AccountKey
      BY <1>1, <1>2, <1>3, <2>3
    <3>2. /\ b \in Seq(AccountKey) /\ Len(b) = IF last + 1 <= n THEN n - (last + 1) + 1 ELSE 0
          /\ \A i \in 1..(n - (last + 1) + 1) : b[i] = l[(last + 1) + i - 1]
      BY <3>1, <1>4, SubSeqProperties
    <3> QED
      BY <3>2, <1>1, <1>2, <1>3, <1>6
  <2>6. c \in Seq(AccountKey) /\ Len(c) = 1 /\ c[1] = k
    BY <1>1, <1>2, <1>3, <1>4, <1>6
  <2> HIDE DEF a, b, c
  <2>7. /\ c \o a \in Seq(AccountKey) /\ Len(c \o a) = last
        /\ \A i \in 1..last : (c \o a)[i] = IF i = 1 THEN k ELSE l[i - 1]
    <3>1. last - 1 \in Nat /\ 1 + (last - 1) = last
      BY <1>1, <1>2
    <3>2. /\ c \o a \in Seq(AccountKey) /\ Len(c \o a) = 1 + (last - 1)
          /\ \A i \in 1..(1 + (last - 1)) : (c \o a)[i] = IF i <= 1 THEN c[i] ELSE a[i - 1]
      <4>1. /\ c \o a \in Seq(AccountKey) /\ Len(c \o a) = Len(c) + Len(a)
            /\ \A i \in 1..(Len(c) + Len(a)) :
                 (c \o a)[i] = IF i <= Len(c) THEN c[i] ELSE a[i - Len(c)]
        BY <2>4, <2>6, ConcatProperties
      <4> QED
        BY <2>4, <2>6, <3>1, <4>1
    <3> QED
      BY <2>4, <2>6, <3>1, <3>2
  <2>8. /\ c \o a \o b \in Seq(AccountKey) /\ Len(c \o a \o b) = n
        /\ \A i \in 1..n : (c \o a \o b)[i] = IF i = 1 THEN k ELSE IF i <= last THEN l[i - 1] ELSE l[i]
    <3> DEFINE d == c \o a
    <3>1. /\ d \in Seq(AccountKey) /\ Len(d) = last
          /\ \A i \in 1..last : d[i] = IF i = 1 THEN k ELSE l[i - 1]
      BY <2>7
    <3> HIDE DEF d
    <3>2. /\ d \o b \in Seq(AccountKey) /\ Len(d \o b) = Len(d) + Len(b)
          /\ \A i \in 1..(Len(d) + Len(b)) :
               (d \o b)[i] = IF i <= Len(d) THEN d[i] ELSE b[i - Len(d)]
      <4>1. d \in Seq(AccountKey) /\ b \in Seq(AccountKey)
        BY <2>5, <3>1
      <4> QED
        BY <4>1, ConcatProperties
    <3>3. n \in Int /\ last \in Int /\ Len(d) + Len(b) = n /\ 1 <= last
      BY <1>1, <1>2, <1>3, <2>5, <3>1
    <3>4. ASSUME NEW i \in 1..n
          PROVE  (d \o b)[i] = IF i = 1 THEN k ELSE IF i <= last THEN l[i - 1] ELSE l[i]
      <4>1. CASE i <= last
        BY <3>1, <3>2, <3>3, <4>1
      <4>2. CASE i > last
        <5>1. i - last \in 1..(n - last) /\ last + (i - last) = i
          BY <4>2, <3>3
        <5>2. (d \o b)[i] = b[i - last]
          BY <3>1, <3>2, <3>3, <4>2
        <5> QED
          <6>1. b[i - last] = l[last + (i - last)]
            BY <2>5, <5>1
          <6>2. i # 1 /\ ~(i <= last)
            BY <3>3, <4>2
          <6> QED
            BY <5>1, <5>2, <6>1, <6>2
      <4> QED
        BY <3>3, <4>1, <4>2
    <3> QED
      BY <3>2, <3>3, <3>4 DEF d
  <2>9. m = n
    BY <1>1, <1>2, <1>3, <1>6 DEF Least
  <2>10. ASSUME NEW i \in 1..n PROVE (c \o a \o b)[i] = Latest(u)[i]
    <3>1. i \in 1..Len(u) /\ Latest(u)[i] = u[i]
      BY <2>9, <1>2, <1>3, <1>5
    <3>2. u[i] = IF i = 1 THEN k ELSE IF i <= last THEN r[i - 1] ELSE r[i]
      BY <3>1, <1>1
    <3>3. i # 1 => l[i - 1] = r[i - 1] /\ l[i] = r[i]
      BY <1>2, <1>3, <1>4
    <3> QED
      BY <2>8, <3>1, <3>2, <3>3
  <2> DEFINE e == AddAccountKey(l, k)
             f == Latest(u)
  <2>11. e \in Seq(AccountKey) /\ f \in Seq(AccountKey) /\ Len(e) = n /\ Len(f) = n
         /\ \A i \in 1..n : e[i] = f[i]
    BY <2>2, <2>8, <2>9, <2>10, <1>5
  <2> HIDE DEF e, f
  <2>12. e = f
    BY <2>11, SeqEqual
  <2> QED
    BY <2>12 DEF e, f
<1>7. CASE last > n
  <2> DEFINE x == IF Len(l) < MaxKeys THEN Len(l) ELSE MaxKeys - 1
             a == SubSeq(l, 1, x)
             c == <<k>>
  <2>1. k \notin ToSet(l)
    <3>1. \A i \in 1..n : r[i] # k
      BY <1>1, <1>2, <1>3, <1>7 DEF Distinct, ToSet
    <3> QED
      BY <3>1, <1>4 DEF ToSet
  <2>2. AddAccountKey(l, k) = c \o a
    BY <2>1 DEF AddAccountKey
  <2>3. x \in 0..Len(l) /\ m = x + 1 /\ x < last
    BY <1>1, <1>2, <1>3, <1>4, <1>7 DEF Least
  <2>4. a \in Seq(AccountKey) /\ Len(a) = x /\ \A i \in 1..x : a[i] = l[i]
    BY <2>3, <1>4, PrefixProperties
  <2>5. c \in Seq(AccountKey) /\ Len(c) = 1 /\ c[1] = k
    OBVIOUS
  <2> HIDE DEF a, c, x
  <2>6. /\ c \o a \in Seq(AccountKey) /\ Len(c \o a) = 1 + x
        /\ \A i \in 1..(1 + x) : (c \o a)[i] = IF i <= 1 THEN c[i] ELSE a[i - 1]
    <3>1. /\ c \o a \in Seq(AccountKey) /\ Len(c \o a) = Len(c) + Len(a)
          /\ \A i \in 1..(Len(c) + Len(a)) :
               (c \o a)[i] = IF i <= Len(c) THEN c[i] ELSE a[i - Len(c)]
      BY <2>4, <2>5, ConcatProperties
    <3> QED
      BY <2>4, <2>5, <3>1
  <2>7. \A i \in 1..m : (c \o a)[i] = Latest(u)[i]
    <3> SUFFICES ASSUME NEW i \in 1..m PROVE (c \o a)[i] = Latest(u)[i]
      OBVIOUS
    <3>1. /\ i \in 1..Len(u) /\ Latest(u)[i] = u[i] /\ i <= last
          /\ i # 1 => i - 1 \in 1..x /\ i - 1 \in 1..n
      BY <2>3, <1>1, <1>2, <1>3, <1>4, <1>5
    <3>2. u[i] = IF i = 1 THEN k ELSE r[i - 1]
      BY <3>1, <1>1
    <3>3. i # 1 => a[i - 1] = r[i - 1]
      BY <3>1, <2>4, <1>4
    <3>4. (c \o a)[i] = IF i <= 1 THEN c[i] ELSE a[i - 1]
      <4>1. i \in 1..(1 + x)
        BY <2>3, <1>4
      <4> QED
        BY <2>6, <4>1
    <3>5. CASE i = 1
      BY <2>5, <3>1, <3>2, <3>4, <3>5
    <3>6. CASE i # 1
      BY <3>1, <3>2, <3>3, <3>4, <3>6
    <3> QED
      BY <3>5, <3>6
  <2> DEFINE e == AddAccountKey(l, k)
             f == Latest(u)
  <2>8. m = 1 + x
    BY <2>3, <1>2, <1>3, <1>4
  <2>9. e \in Seq(AccountKey) /\ f \in Seq(AccountKey) /\ Len(e) = m /\ Len(f) = m
         /\ \A i \in 1..m : e[i] = f[i]
    BY <2>2, <2>6, <2>7, <2>8, <1>5
  <2> HIDE DEF e, f
  <2>10. e = f
    BY <2>9, SeqEqual
  <2> QED
    BY <2>10 DEF e, f
<1> QED
  BY <1>1, <1>2, <1>3, <1>6, <1>7

-----------------------------------------------------------------------------
\* A rotation timer runs if and only if address_rotation_task holds its handle.
TimerOfTask ==
  /\ task \in Nat
  /\ rotation = (IF task = 0 THEN {} ELSE {task})
  /\ mode # "none" => task # 0

\* The list in memory and the persisted one are bounded views of the history and of what
\* was saved of it; in either each key occurs once.
KeyHistory ==
  /\ recent \in Seq(AccountKey) /\ Distinct(recent)
  /\ saved \in Seq(AccountKey) /\ Distinct(saved)
  /\ keys = Latest(recent) /\ stored = Latest(saved)
  /\ pending \in AccountKey \cup {None}

\* The wait of a pending key, with the type of the count of its timers.
PendingWait == PendingKeyIsCurrent /\ discards \in Nat

IInv == KeyHistory /\ PendingWait /\ TimerOfTask

\* The device starts with no key, no pending key and no timer.
LEMMA InitInv == Init => IInv
<1> SUFFICES ASSUME Init PROVE IInv
  OBVIOUS
<1>1. recent = <<>> /\ keys = <<>> /\ saved = <<>> /\ stored = <<>> /\ pending = None
  BY DEF Init
<1>2. Least(Len(<<>>), MaxKeys) = 0
  BY FastPairAssumption DEF Least
<1>3. KeyHistory
  BY <1>1, <1>2, EmptySeq, SubSeqEmpty DEF KeyHistory, Latest, Least, Distinct
<1>4. PendingWait /\ TimerOfTask
  BY DEF Init, PendingWait, PendingKeyIsCurrent, TimerOfTask, None
<1> QED
  BY <1>3, <1>4 DEF IInv

\* Every key of the list was written by a seeker.
LEMMA KnownKey ==
  ASSUME KeyHistory, NEW x \in ToSet(keys)
  PROVE  x \in AccountKey
<1> DEFINE n == Least(Len(recent), MaxKeys)
<1>1. n \in 0..Len(recent)
  BY FastPairAssumption, LenProperties DEF KeyHistory, Least
<1>2. keys \in Seq(AccountKey)
  BY <1>1, PrefixProperties DEF KeyHistory, Latest, Least
<1> QED
  BY <1>2, LenProperties DEF ToSet

\* Saving a key, with or without success, keeps both lists the lists of the latest keys.
LEMMA SaveKeyInv ==
  ASSUME IInv, NEW k \in AccountKey, SaveKey(k), pending' \in AccountKey \cup {None}
  PROVE  KeyHistory'
<1>1. KeyHistory
  BY DEF IInv
<1>2. recent' = Used(recent, k) /\ keys' = AddAccountKey(Latest(recent), k)
  BY <1>1 DEF SaveKey, KeyHistory
<1>3. recent \in Seq(AccountKey) /\ Distinct(recent)
  BY <1>1 DEF KeyHistory
<1>4. recent' \in Seq(AccountKey) /\ Distinct(recent')
  BY <1>2, <1>3, UsedProperties
<1>5. keys' = Latest(recent')
  BY <1>2, <1>3, AddAccountKeyIsLru
<1>6. CASE stored' = keys' /\ saved' = recent'
  BY <1>4, <1>5, <1>6 DEF KeyHistory, Latest, Distinct
<1>7. CASE UNCHANGED <<stored, saved>>
  BY <1>1, <1>4, <1>5, <1>7 DEF KeyHistory, Latest, Distinct
<1> QED
  BY <1>6, <1>7 DEF SaveKey

\* A request that is accepted saves the key it matched and forgets the key that was
\* pending; it leaves the advertisement alone.
LEMMA AcceptSecretInv ==
  ASSUME IInv, NEW a, NEW x, AcceptSecret(a, x)
  PROVE  IInv'
<1>1. KeyHistory'
  <2>1. CASE x \in ToSet(keys) /\ SaveKey(x)
    <3>1. x \in AccountKey
      BY <2>1, KnownKey DEF IInv
    <3> QED
      BY <2>1, <3>1, SaveKeyInv DEF AcceptSecret
  <2>2. CASE UNCHANGED <<account, recent, saved>>
    BY <2>2 DEF IInv, AcceptSecret, KeyHistory, account
  <2> QED
    BY <2>1, <2>2 DEF AcceptSecret
<1>2. PendingWait'
  BY DEF IInv, AcceptSecret, PendingWait, PendingKeyIsCurrent
<1>3. TimerOfTask'
  BY DEF IInv, AcceptSecret, TimerOfTask, advert
<1> QED
  BY <1>1, <1>2, <1>3 DEF IInv

\* The steps that end a pairing save the key and leave none pending.
LEMMA PostPairingInv ==
  ASSUME IInv, NEW a, NEW k \in AccountKey, RunPostPairingSteps(a, k),
         UNCHANGED <<advert, discards>>
  PROVE  IInv'
<1>1. KeyHistory'
  BY SaveKeyInv DEF RunPostPairingSteps
<1>2. PendingWait'
  BY DEF IInv, RunPostPairingSteps, PendingWait, PendingKeyIsCurrent
<1>3. TimerOfTask'
  BY DEF IInv, TimerOfTask, advert
<1> QED
  BY <1>1, <1>2, <1>3 DEF IInv

\* What a handler keeps when it leaves the keys and the advertisement alone, and either
\* drops the pending key or leaves it with its handshake and its timer.
LEMMA QuietInv ==
  ASSUME IInv, UNCHANGED <<account, advert, recent, saved>>, discards' \in Nat,
         pending' = None \/ UNCHANGED <<pending, current, discards>>
  PROVE  IInv'
BY DEF IInv, KeyHistory, PendingWait, PendingKeyIsCurrent, TimerOfTask, account, advert

\* A timer that goes off is the one of the task, and the next one takes its place.
LEMMA RotationInv ==
  ASSUME IInv, NEW t \in rotation, NEW platform \in BOOLEAN, MaybeRotateBleAddress(t, platform)
  PROVE  IInv'
<1>1. (rotation \ {t}) \ {task} = {}
  BY DEF IInv, TimerOfTask
<1>2. task' = NewTimer({}) /\ rotation' = {task'}
  BY <1>1 DEF MaybeRotateBleAddress, ScheduleAddressRotation
<1>3. TimerOfTask'
  BY <1>2, FirstTimer DEF TimerOfTask
<1>4. KeyHistory' /\ PendingWait'
  BY DEF IInv, MaybeRotateBleAddress, KeyHistory, PendingWait, PendingKeyIsCurrent, pairing,
         account, history
<1> QED
  BY <1>3, <1>4 DEF IInv

\* A change of the advertised mode starts a timer only when none is left running.
LEMMA SetAdvertisementInv ==
  ASSUME IInv, NEW m \in Mode, NEW platform \in BOOLEAN, SetAdvertisement(m, platform)
  PROVE  IInv'
<1> DEFINE rotate == ~IsInPairingMode(platform) /\ m = "discoverable"
           live   == IF rotate THEN rotation \ {task} ELSE rotation
<1>1. CASE m # "none" /\ (rotate \/ task = 0)
  <2>1. live = {}
    BY <1>1 DEF IInv, TimerOfTask
  <2>2. task' = NewTimer({}) /\ rotation' = {task'}
    BY <1>1, <2>1 DEF SetAdvertisement
  <2> QED
    BY <2>2, FirstTimer DEF TimerOfTask, IInv, SetAdvertisement, KeyHistory,
       PendingWait, PendingKeyIsCurrent, pairing, account, history
<1>2. CASE ~(m # "none" /\ (rotate \/ task = 0))
  <2>1. task' = task /\ rotation' = rotation /\ mode' = m
    BY <1>2 DEF SetAdvertisement
  <2> QED
    BY <1>2, <2>1 DEF TimerOfTask, IInv, SetAdvertisement, KeyHistory,
       PendingWait, PendingKeyIsCurrent, pairing, account, history
<1> QED
  BY <1>1, <1>2

\* Every callback preserves the invariant.
LEMMA NextInv == IInv /\ [Next]_vars => IInv'
<1> SUFFICES ASSUME IInv, [Next]_vars PROVE IInv'
  OBVIOUS
<1>d. discards \in Nat
  BY DEF IInv, PendingWait
<1>1. ASSUME NEW s \in Seeker, NEW x \in Secret, Request(Le(s), x) PROVE IInv'
  <2>1. CASE OnPasskeyWrite(Le(s), x)
    BY <2>1, <1>d, QuietInv DEF OnPasskeyWrite, history
  <2>2. CASE AcceptSecret(Le(s), x)
    BY <2>2, AcceptSecretInv
  <2> QED
    BY <1>1, <2>1, <2>2
       DEF Request, AcceptOnly, RequestPairing, InitiatePairing, RequestRetroactive,
           RequestAdditionalData
<1>2. ASSUME NEW a \in Address, AccountKeyTooLate(a) PROVE IInv'
  BY <1>2, <1>d, QuietInv DEF AccountKeyTooLate, pairing, history
<1>3. ASSUME NEW a \in Address, NEW x \in Secret, NEW k \in AccountKey, WriteKey(a, x, k)
      PROVE  IInv'
  <2>1. CASE OnAccountKeyWrite(a, x, k)
    BY <2>1, PostPairingInv DEF OnAccountKeyWrite
  <2>2. CASE AccountKeyBeforePaired(a, x, k)
    BY <2>2 DEF AccountKeyBeforePaired, IInv, KeyHistory, PendingWait, PendingKeyIsCurrent,
                TimerOfTask, account, advert
  <2> QED
    BY <1>3, <2>1, <2>2 DEF WriteKey
<1>4. CASE RejectRequest \/ OnAdditionalDataWrite \/ OnPairingFailed
  BY <1>4, <1>d, QuietInv DEF RejectRequest, OnAdditionalDataWrite, OnPairingFailed, history
<1>5. ASSUME NEW s \in Seeker, Bluetooth(Pub(s)) PROVE IInv'
  <2>1. CASE OnPairingRequest(Pub(s))
    BY <2>1, <1>d, QuietInv DEF OnPairingRequest, history
  <2>2. CASE OnPaired(Pub(s))
    <3>1. CASE publicPeer = Pub(s) /\ pending # None
      BY <2>2, <3>1, PostPairingInv DEF OnPaired, IInv, KeyHistory
    <3>2. CASE ~(publicPeer = Pub(s) /\ pending # None)
      BY <2>2, <3>2, <1>d, QuietInv DEF OnPaired
    <3> QED
      BY <3>1, <3>2
  <2>3. CASE OnMessageStreamDisconnected(Pub(s))
    BY <2>3, <1>d, QuietInv DEF OnMessageStreamDisconnected, pairing, history
  <2> QED
    BY <1>5, <2>1, <2>2, <2>3 DEF Bluetooth
<1>6. ASSUME NEW m \in Mode, NEW platform \in BOOLEAN, SetAdvertisement(m, platform) PROVE IInv'
  BY <1>6, SetAdvertisementInv
<1>7. CASE Restart
  BY <1>7 DEF Restart, IInv, KeyHistory, PendingWait, PendingKeyIsCurrent, TimerOfTask, history
<1>8. ASSUME NEW t \in rotation, NEW platform \in BOOLEAN, MaybeRotateBleAddress(t, platform)
      PROVE  IInv'
  BY <1>8, RotationInv
<1>9. CASE DiscardPendingAccountKey
  BY <1>9, <1>d, QuietInv DEF DiscardPendingAccountKey, history
<1>10. CASE Clock
  BY <1>10, <1>d, QuietInv DEF Clock, TimeoutAges, LockEnds, RetroAges, pairing, history
<1>11. CASE UNCHANGED vars
  BY <1>11, <1>d, QuietInv DEF vars, pairing, history
<1> QED
  BY <1>1, <1>2, <1>3, <1>4, <1>5, <1>6, <1>7, <1>8, <1>9, <1>10, <1>11
     DEF Next, Environment, Timers

\* The inductive invariant holds in every reachable state.
THEOREM Invariance == Spec => []IInv
BY InitInv, NextInv, PTL DEF Spec

\* The list holds the keys used last, in the order of their last use, for any capacity:
\* nearby_fp_AddAccountKey moves, inserts and drops the right entry whoever calls it, and the
\* persisted list is that of an earlier moment when saves fail.
THEOREM KeysAreLatest == Spec => []KeysLeastRecentlyUsed
<1>1. IInv => KeysLeastRecentlyUsed
  BY DEF IInv, KeyHistory, KeysLeastRecentlyUsed
<1> QED
  BY <1>1, Invariance, PTL

\* A key left pending is saved or discarded within its handshake: another request, a failed
\* pairing and its own timer end its wait.
THEOREM PendingKeyCurrent == Spec => []PendingKeyIsCurrent
<1>1. IInv => PendingKeyIsCurrent
  BY DEF IInv, PendingWait
<1> QED
  BY <1>1, Invariance, PTL

\* Address rotation never runs twice and never stops while the device advertises.
THEOREM OneTimer == Spec => []OneRotationTimer
<1>1. IInv => OneRotationTimer
  BY DEF IInv, TimerOfTask, OneRotationTimer
<1> QED
  BY <1>1, Invariance, PTL

\* No timer and no change of mode moves the BLE address between two states of a pairing.
THEOREM AddressKept == Spec => AddressKeptWhilePairing
<1> DEFINE Kept == (state \in Pairing /\ state' \in Pairing) => (address' = address)
<1>1. ASSUME [Next]_vars PROVE [Kept]_vars
  <2>1. CASE Restart
    BY <2>1 DEF Restart, Pairing
  <2>2. ASSUME NEW m \in Mode, NEW platform \in BOOLEAN, SetAdvertisement(m, platform) PROVE Kept
    BY <2>2 DEF SetAdvertisement, IsInPairingMode
  <2>3. ASSUME NEW t \in rotation, NEW platform \in BOOLEAN, MaybeRotateBleAddress(t, platform)
        PROVE  Kept
    BY <2>3 DEF MaybeRotateBleAddress, IsInPairingMode
  <2>4. CASE UNCHANGED advert
    BY <2>4 DEF advert
  <2>5. ASSUME NEW s \in Seeker, NEW x \in Secret, Request(Le(s), x) PROVE UNCHANGED advert
    BY <2>5 DEF Request, AcceptOnly, RequestPairing, InitiatePairing, RequestRetroactive,
                RequestAdditionalData, OnPasskeyWrite, AcceptSecret
  <2>6. ASSUME NEW a \in Address,
               AccountKeyTooLate(a) \/ \E x \in Secret, k \in AccountKey : WriteKey(a, x, k)
        PROVE  UNCHANGED advert
    BY <2>6 DEF AccountKeyTooLate, WriteKey, OnAccountKeyWrite, AccountKeyBeforePaired
  <2>7. ASSUME NEW s \in Seeker, Bluetooth(Pub(s)) PROVE UNCHANGED advert
    BY <2>7 DEF Bluetooth, OnPairingRequest, OnPaired, OnMessageStreamDisconnected
  <2>8. ASSUME RejectRequest \/ OnAdditionalDataWrite \/ OnPairingFailed
               \/ DiscardPendingAccountKey \/ Clock
        PROVE  UNCHANGED advert
    BY <2>8 DEF RejectRequest, OnAdditionalDataWrite, OnPairingFailed, DiscardPendingAccountKey,
                Clock, TimeoutAges, LockEnds, RetroAges
  <2>9. CASE Environment
    BY <2>9, <2>1, <2>2, <2>4, <2>5, <2>6, <2>7, <2>8 DEF Environment
  <2>10. CASE Timers
    BY <2>10, <2>3, <2>4, <2>8 DEF Timers
  <2> QED
    BY <1>1, <2>4, <2>8, <2>9, <2>10 DEF Next
<1>2. AddressKeptWhilePairing <=> [][Kept]_vars
  BY DEF AddressKeptWhilePairing
<1> QED
  BY <1>1, <1>2, PTL DEF Spec
=============================================================================
