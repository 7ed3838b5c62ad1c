-------------------------- MODULE FastPairProvider --------------------------
(***************************************************************************)
(* The embedded Fast Pair provider (nearby_fp_client.c): the pairing state *)
(* machine driven by GATT writes and Bluetooth events, the account keys it *)
(* persists, and the rotation of its BLE address.                          *)
(*                                                                         *)
(* Every callback runs to its end before the next one, so an action is a   *)
(* callback.  Cryptography is abstract: a write is understood if and only  *)
(* if it was encrypted with the secret the provider holds.  Time is kept   *)
(* as the age of each start time, as far as the code tells ages apart.     *)
(* The build is the default one (retroactive pairing and additional data   *)
(* on, Smart Audio Source Switching off); sizes and formats of messages    *)
(* are left out, and a message that is malformed changes nothing.          *)
(* Saving the account keys may fail, and the code goes on as if it had     *)
(* not.  One assumption on the platform: nearby_platform_StartTimer, whose *)
(* result is never checked, does return a timer and not NULL.              *)
(***************************************************************************)
EXTENDS Integers, Sequences, FiniteSets, SequencesExt

CONSTANTS
  Seeker,        \* phones and other seekers
  AccountKey,    \* account keys they may write
  MaxKeys,       \* NEARBY_MAX_ACCOUNT_KEYS
  MaxRetro,      \* NEARBY_MAX_RETROACTIVE_PAIRING
  MaxFailures,   \* MAX_PAIRING_FAILURE_COUNT
  MaxTimers      \* bound on the timers of one kind that run at a time

None == "none"

ASSUME FastPairAssumption ==
  /\ MaxKeys \in Nat \ {0} /\ MaxRetro \in Nat \ {0} /\ MaxFailures \in Nat \ {0}
  /\ MaxTimers \in Nat \ {0}
  /\ None \notin Seeker /\ None \notin AccountKey
  /\ Seeker \cap AccountKey = {}

\* A seeker's random LE address and its public address.
Le(s)   == <<s, "le">>
Pub(s)  == <<s, "pub">>
Address == Seeker \X {"le", "pub"}
Nobody  == <<None, None>>   \* INVALID_PEER_ADDRESS

\* What account_key_info may hold: the secret agreed with a seeker, an account key, or
\* zeros (None), with which a write is decrypted like with any other key.
Secret == Seeker \cup AccountKey \cup {None}

State == {"Idle", "WaitingForPairingRequest", "WaitingForPasskey", "WaitingForPairingResult",
          "WaitingForAccountKeyWrite", "WaitingForAdditionalData"}
Pairing == {"WaitingForPairingRequest", "WaitingForPasskey", "WaitingForPairingResult"}
Mode == {"none", "discoverable", "nondiscoverable"}

VARIABLES
  state,       \* pairing_state
  age,         \* since timeout_start_ms: 0, 1 (over 10 s), 2 (over 60 s)
  failures,    \* pairing_failure_count
  locked,      \* less than REJECT_PAIRING_TIMEOUT_MS since reject_pairing_time_start_ms
  secret,      \* account_key_info
  pending,     \* pending_account_key_info
  gattPeer,    \* gatt_peer_address
  publicPeer,  \* peer_public_address
  retro,       \* retroactive_pairing_list
  keys,        \* account_key_list
  stored,      \* the persisted account key list
  mode,        \* advertisement_mode
  address,     \* the BLE address, as a parity: a rotation changes it
  task,        \* address_rotation_task: 0 is NULL
  rotation,    \* the rotation timers that run
  discards,    \* how many timers that discard the pending key run
  current,     \* observed only: the handshake in which a key was last left pending
               \* goes on: no other was accepted and no pairing failed since
  recent,      \* observed only: the keys used, the latest first, as far as the device
               \* can know: a use that was not saved is forgotten at a restart
  saved        \* observed only: recent when the keys were last saved

pairing == <<state, age, failures, locked, secret, pending, gattPeer, publicPeer>>
account == <<keys, stored>>
advert  == <<mode, address, task, rotation>>
history == <<current, recent, saved>>
vars == <<pairing, retro, account, advert, discards, history>>

Slot == 1..MaxRetro
Free == [pub |-> Nobody, le |-> Nobody, old |-> FALSE]

-----------------------------------------------------------------------------
(* The account key list: the latest key first, the oldest one falls off. *)

\* Mutant: a key that is in the list already stays where it is.
AddAccountKeyMut(l, k) ==
  IF k \in ToSet(l) THEN l
  ELSE <<k>> \o SubSeq(l, 1, IF Len(l) < MaxKeys THEN Len(l) ELSE MaxKeys - 1)

AddAccountKey(l, k) ==
  LET ToFront(i) == <<l[i]>> \o SubSeq(l, 1, i - 1) \o SubSeq(l, i + 1, Len(l))
  IN IF k \in ToSet(l) THEN ToFront(CHOOSE i \in DOMAIN l : l[i] = k)
     ELSE <<k>> \o SubSeq(l, 1, IF Len(l) < MaxKeys THEN Len(l) ELSE MaxKeys - 1)

\* The history r of the keys used, with k used now: k comes first and the keys that were
\* used after it move back by one.
Used(r, k) ==
  LET last == IF k \in ToSet(r) THEN CHOOSE i \in DOMAIN r : r[i] = k ELSE Len(r) + 1
      len  == IF last > Len(r) THEN last ELSE Len(r)
  IN [i \in 1..len |-> IF i = 1 THEN k ELSE IF i <= last THEN r[i - 1] ELSE r[i]]

\* nearby_fp_AddAccountKey followed by nearby_fp_SaveAccountKeys, whose status nobody
\* looks at: when it fails, the persisted list stays behind.
SaveKey(k) ==
  /\ keys' = AddAccountKey(keys, k)
  /\ recent' = Used(recent, k)
  /\ \/ stored' = keys' /\ saved' = recent'
     \/ UNCHANGED <<stored, saved>>

(* The list of peers that paired without Fast Pair and may still write a key. *)

Matches(slot, a) == slot.pub = a \/ slot.le = a
RetroactivePairingPeerPending(a) == \E i \in Slot : Matches(retro[i], a)
RetroactivePairingPeerTimeout(a) == \E i \in Slot : Matches(retro[i], a) /\ retro[i].old

RemoveRetroactivePairingPeer(a) ==
  retro' = [i \in Slot |->
              IF Matches(retro[i], a) THEN [retro[i] EXCEPT !.pub = Nobody, !.le = Nobody]
              ELSE retro[i]]

\* Slots are freed when they are too old, up to the one that already holds the peer.
AddRetroactivePairingPeer(a) ==
  LET fresh == [i \in Slot |-> IF retro[i].old THEN Free ELSE retro[i]]
      known == {i \in Slot : fresh[i].pub = a}
      free  == {i \in Slot : fresh[i].pub = Nobody}
      First(S) == CHOOSE i \in S : \A j \in S : i <= j
  IN IF known # {} THEN retro' = [i \in Slot |-> IF i <= First(known) THEN fresh[i] ELSE retro[i]]
     ELSE IF free = {} THEN retro' = fresh
     ELSE retro' = [fresh EXCEPT ![First(free)] = [pub |-> a, le |-> @.le, old |-> FALSE]]

-----------------------------------------------------------------------------
Init ==
  /\ state = "Idle" /\ age \in 0..2 /\ failures = 0 /\ locked = FALSE
  /\ secret = None /\ pending = None
  /\ gattPeer = Nobody /\ publicPeer = Nobody
  /\ retro = [i \in Slot |-> Free]
  /\ keys = <<>> /\ stored = <<>>
  /\ mode = "none" /\ address = 0 /\ task = 0 /\ rotation = {}
  /\ discards = 0
  /\ current = FALSE /\ recent = <<>> /\ saved = <<>>

\* The device restarts and nearby_fp_client_Init runs: what is not persisted is gone.
\* timeout_start_ms is 0, so its age depends on where the platform's clock starts.
Restart ==
  /\ state' = "Idle" /\ age' \in 0..2 /\ failures' = 0 /\ locked' = FALSE
  /\ secret' = None /\ pending' = None
  /\ gattPeer' = Nobody /\ publicPeer' = Nobody
  /\ retro' = [i \in Slot |-> Free]
  /\ keys' = stored /\ recent' = saved
  /\ mode' = "none" /\ address' = 1 - address /\ task' = 0 /\ rotation' = {}
  /\ discards' = 0
  /\ UNCHANGED <<stored, current, saved>>

-----------------------------------------------------------------------------
(* OnWriteKeyBasedPairing: a request from address a of a seeker. *)

\* The request is refused unread for a while after too many failures.
Locked == failures >= MaxFailures /\ locked

\* No key decrypts the request to our address.
RejectRequest ==
  /\ ~Locked
  /\ LET n == (IF failures >= MaxFailures THEN 0 ELSE failures) + 1
     IN failures' = n /\ locked' = (n = MaxFailures)
  /\ UNCHANGED <<state, age, secret, pending, gattPeer, publicPeer, retro, account, advert,
                 discards, history>>

\* What every accepted request does: a new secret, or a known account key that becomes the
\* latest one, and no key pending from before.
AcceptSecret(a, x) ==
  /\ ~Locked
  /\ secret' = x
  /\ \/ x = a[1] /\ UNCHANGED <<account, recent, saved>>
     \/ x \in ToSet(keys) /\ SaveKey(x)
  /\ failures' = 0
  /\ gattPeer' = a
  /\ pending' = None /\ current' = FALSE
  /\ UNCHANGED <<locked, advert, discards>>

\* The response could not be sent, or the request asks for nothing that is supported.
AcceptOnly(a, x) ==
  /\ AcceptSecret(a, x)
  /\ UNCHANGED <<state, age, publicPeer, retro>>

\* HandleKeyBasedPairingRequest: the seeker will send the pairing request.
RequestPairing(a, x) ==
  /\ AcceptSecret(a, x)
  /\ state' = "WaitingForPairingRequest" /\ age' = 0
  /\ UNCHANGED <<publicPeer, retro>>

\* KBPR_INITIATE_PAIRING: the provider sends it.  The start of the timeout stays as it was.
InitiatePairing(a, x) ==
  /\ AcceptSecret(a, x)
  /\ publicPeer' = Pub(a[1])
  /\ state' = "WaitingForPasskey"
  /\ UNCHANGED <<age, retro>>

\* KBPR_RETROACTIVELY_WRITE_ACCOUNT_KEY, for a peer that is already paired.
RequestRetroactive(a, x) ==
  /\ AcceptSecret(a, x)
  /\ LET pub == Pub(a[1])
         mine == {i \in Slot : retro[i].pub = pub}
         First == CHOOSE i \in mine : \A j \in mine : i <= j
     IN IF mine # {} THEN retro' = [retro EXCEPT ![First].le = a]
        ELSE RemoveRetroactivePairingPeer(pub)
  /\ UNCHANGED <<state, age, publicPeer>>

\* HandleActionRequest: the seeker will write additional data.
RequestAdditionalData(a, x) ==
  /\ AcceptSecret(a, x)
  /\ state' = "WaitingForAdditionalData"
  /\ UNCHANGED <<age, publicPeer, retro>>

-----------------------------------------------------------------------------
\* OnPasskeyWrite: the block can be read, or decryption fails and the secret is dropped.
OnPasskeyWrite(a, x) ==
  /\ state = "WaitingForPasskey" /\ gattPeer = a /\ age = 0
  /\ \/ x = secret /\ state' = "WaitingForPairingResult" /\ UNCHANGED secret
     \/ secret' = None /\ UNCHANGED state
  /\ UNCHANGED <<age, failures, locked, pending, gattPeer, publicPeer, retro, account, advert,
                 discards, history>>

\* RunPostPairingSteps: the key is saved.  A retroactive key leaves a pairing that began
\* meanwhile alone.
RunPostPairingSteps(a, k) ==
  /\ SaveKey(k)
  /\ pending' = None
  /\ IF RetroactivePairingPeerPending(a)
     THEN /\ RemoveRetroactivePairingPeer(a)
          /\ state' = IF state = "Idle" THEN "WaitingForAdditionalData" ELSE state
     ELSE state' = "WaitingForAdditionalData" /\ UNCHANGED retro

\* OnAccountKeyWrite of key k by a, encrypted with x.
AccountKeyTooLate(a) ==
  /\ RetroactivePairingPeerTimeout(a)
  /\ RemoveRetroactivePairingPeer(a)
  /\ UNCHANGED <<pairing, account, advert, discards, history>>

ExpectedPeer(a) == a = gattPeer \/ a = publicPeer

OnAccountKeyWrite(a, x, k) ==
  /\ x = secret
  /\ \/ RetroactivePairingPeerPending(a) /\ ~RetroactivePairingPeerTimeout(a)
     \/ /\ ~RetroactivePairingPeerPending(a)
        /\ state = "WaitingForAccountKeyWrite" /\ ExpectedPeer(a) /\ age < 2
  /\ RunPostPairingSteps(a, k)
  /\ UNCHANGED <<age, failures, locked, secret, gattPeer, publicPeer, advert, discards,
                 current>>

\* The key arrives before the paired event: it waits for it, for a while.
AccountKeyBeforePaired(a, x, k) ==
  /\ x = secret
  /\ ~RetroactivePairingPeerPending(a)
  /\ state \in Pairing /\ ExpectedPeer(a) /\ age < 2
  /\ pending' = k
  /\ current' = TRUE
  /\ discards < MaxTimers /\ discards' = discards + 1
  /\ UNCHANGED <<state, age, failures, locked, secret, gattPeer, publicPeer, retro, account,
                 advert, recent, saved>>

\* The timer is never cancelled, so it may discard a later key than its own.
DiscardPendingAccountKey ==
  /\ discards > 0
  /\ discards' = discards - 1
  /\ pending' = None
  /\ UNCHANGED <<state, age, failures, locked, secret, gattPeer, publicPeer, retro, account,
                 advert, history>>

\* OnAdditionalDataWrite drops the secret whether or not the data can be read.
OnAdditionalDataWrite ==
  /\ state = "WaitingForAdditionalData"
  /\ secret' = None
  /\ state' = "Idle"
  /\ UNCHANGED <<age, failures, locked, pending, gattPeer, publicPeer, retro, account, advert,
                 discards, history>>

-----------------------------------------------------------------------------
(* Bluetooth events *)

OnPairingRequest(a) ==
  /\ state = "WaitingForPairingRequest"
  /\ IF age > 0 THEN state' = "Idle" /\ UNCHANGED <<publicPeer, age>>
     ELSE state' = "WaitingForPasskey" /\ publicPeer' = a /\ age' = 0
  /\ UNCHANGED <<failures, locked, secret, pending, gattPeer, retro, account, advert, discards,
                 history>>

OnPaired(a) ==
  /\ IF publicPeer = a /\ pending # None
     THEN RunPostPairingSteps(a, pending) /\ UNCHANGED <<age, publicPeer>>
     ELSE /\ publicPeer' = a
          /\ IF state = "WaitingForPairingResult"
             THEN state' = "WaitingForAccountKeyWrite" /\ age' = 0 /\ UNCHANGED retro
             ELSE AddRetroactivePairingPeer(a) /\ UNCHANGED <<state, age>>
          /\ UNCHANGED <<pending, account, recent, saved>>
  /\ UNCHANGED <<failures, locked, secret, gattPeer, advert, discards, current>>

\* Mutant: the key that waits for the paired event is kept.
OnPairingFailedMut ==
  /\ secret' = None /\ current' = FALSE
  /\ UNCHANGED <<state, age, failures, locked, pending, gattPeer, publicPeer, retro, account,
                 advert, discards, recent, saved>>

\* The pairing state stays as it is.
OnPairingFailed ==
  /\ secret' = None /\ pending' = None /\ current' = FALSE
  /\ UNCHANGED <<state, age, failures, locked, gattPeer, publicPeer, retro, account, advert,
                 discards, recent, saved>>

OnMessageStreamDisconnected(a) ==
  /\ RetroactivePairingPeerPending(a)
  /\ RemoveRetroactivePairingPeer(a)
  /\ UNCHANGED <<pairing, account, advert, discards, history>>

-----------------------------------------------------------------------------
(* Advertising and the rotation of the BLE address.  platform is what                *)
(* nearby_platform_IsInPairingMode() answers.                                        *)

\* Mutant: only the wait for the passkey counts as pairing.
IsInPairingModeMut(platform) == platform \/ state = "WaitingForPasskey"

IsInPairingMode(platform) == platform \/ state \in Pairing

\* nearby_platform_StartTimer: a handle of none of the timers that run, never NULL.
NewTimer(live) == CHOOSE t \in 1..(MaxTimers + 1) :
                    t \notin live /\ \A u \in 1..(t - 1) : u \in live

\* The handle of the task that goes off is still set, and cancelling it does nothing.
ScheduleAddressRotation(live) ==
  /\ task' = NewTimer(live \ {task})
  /\ rotation' = (live \ {task}) \cup {task'}

MaybeRotateBleAddress(t, platform) ==
  /\ t \in rotation
  /\ ScheduleAddressRotation(rotation \ {t})
  /\ address' = IF IsInPairingMode(platform) THEN address ELSE 1 - address
  /\ UNCHANGED <<pairing, retro, account, mode, discards, history>>

\* Mutant: the rotation task that runs is not cancelled.
SetAdvertisementMut(m, platform) ==
  /\ mode # m
  /\ mode' = m
  /\ LET rotate == ~IsInPairingMode(platform) /\ m = "discoverable"
     IN /\ address' = IF rotate THEN 1 - address ELSE address
        /\ IF m # "none" /\ (rotate \/ task = 0)
           THEN task' = NewTimer(rotation) /\ rotation' = rotation \cup {task'}
           ELSE UNCHANGED <<task, rotation>>
  /\ UNCHANGED <<pairing, retro, account, discards, history>>

SetAdvertisement(m, platform) ==
  /\ mode # m
  /\ mode' = m
  /\ LET rotate == ~IsInPairingMode(platform) /\ m = "discoverable"
         live   == IF rotate THEN rotation \ {task} ELSE rotation
     IN /\ address' = IF rotate THEN 1 - address ELSE address
        /\ IF m # "none" /\ (rotate \/ task = 0)
           THEN task' = NewTimer(live) /\ rotation' = live \cup {task'}
           ELSE UNCHANGED <<task, rotation>>
  /\ UNCHANGED <<pairing, retro, account, discards, history>>

-----------------------------------------------------------------------------
(* Time passes. *)

TimeoutAges ==
  /\ age < 2 /\ age' = age + 1
  /\ UNCHANGED <<state, failures, locked, secret, pending, gattPeer, publicPeer, retro, account,
                 advert, discards, history>>

LockEnds ==
  /\ locked /\ locked' = FALSE
  /\ UNCHANGED <<state, age, failures, secret, pending, gattPeer, publicPeer, retro, account,
                 advert, discards, history>>

RetroAges(i) ==
  /\ retro[i].pub # Nobody /\ ~retro[i].old
  /\ retro' = [retro EXCEPT ![i].old = TRUE]
  /\ UNCHANGED <<pairing, account, advert, discards, history>>

-----------------------------------------------------------------------------
\* A seeker asks for pairing from its LE address; once it is paired, its writes may come
\* from its public address too.
Request(a, x) ==
  \/ AcceptOnly(a, x) \/ RequestPairing(a, x) \/ InitiatePairing(a, x)
  \/ RequestRetroactive(a, x) \/ RequestAdditionalData(a, x)
  \/ OnPasskeyWrite(a, x)

WriteKey(a, x, k) == OnAccountKeyWrite(a, x, k) \/ AccountKeyBeforePaired(a, x, k)

Bluetooth(a) == OnPairingRequest(a) \/ OnPaired(a) \/ OnMessageStreamDisconnected(a)

Environment ==
  \/ \E s \in Seeker, x \in Secret : Request(Le(s), x)
  \/ \E a \in Address : AccountKeyTooLate(a) \/ \E x \in Secret, k \in AccountKey : WriteKey(a, x, k)
  \/ RejectRequest \/ OnAdditionalDataWrite
  \/ \E s \in Seeker : Bluetooth(Pub(s))
  \/ OnPairingFailed
  \/ \E m \in Mode, platform \in BOOLEAN : SetAdvertisement(m, platform)
  \/ Restart

Timers ==
  \/ \E t \in rotation, platform \in BOOLEAN : MaybeRotateBleAddress(t, platform)
  \/ DiscardPendingAccountKey

Clock == TimeoutAges \/ LockEnds \/ \E i \in Slot : RetroAges(i)

Next == Environment \/ Timers \/ Clock

Spec == Init /\ [][Next]_vars

Symmetry == Permutations(Seeker) \cup Permutations(AccountKey)

-----------------------------------------------------------------------------
(* Properties *)

\* The MaxKeys keys that come first in a history of use.
Latest(r) == SubSeq(r, 1, IF Len(r) < MaxKeys THEN Len(r) ELSE MaxKeys)

\* The list holds the MaxKeys keys used last, the latest first: each key once, whether it was
\* written by a seeker, matched by a request or saved when the pairing was completed.  The
\* persisted list is such a list too, of the uses up to the last save that did not fail, so
\* that a restart at any time goes back to a state the device was in.
KeysLeastRecentlyUsed == keys = Latest(recent) /\ stored = Latest(saved)

\* A key that waits for the paired event belongs to a handshake that goes on, and its wait is
\* timed: neither another request that is accepted nor a failed pairing leaves a key behind
\* for a later paired event to save, and no key waits without a timer to discard it.
PendingKeyIsCurrent == pending # None => current /\ discards > 0

\* While the device advertises, exactly one rotation timer runs, and it is the one that
\* address_rotation_task can cancel, provided that every timer asked for is started.
OneRotationTimer ==
  /\ rotation \subseteq {task}
  /\ mode # "none" => rotation = {task} /\ task # 0

\* The BLE address, which the seeker's request is checked against, does not change while a
\* pairing goes on, whatever timer goes off or mode is set, unless the device restarts.
AddressKeptWhilePairing ==
  [][(state \in Pairing /\ state' \in Pairing) => (address' = address)]_vars
=============================================================================
