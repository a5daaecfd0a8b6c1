------------------------- MODULE Background_proofs --------------------------
(***************************************************************************)
(* The invariants of the components that work in the background and start  *)
(* again after a crash: the update of the application, the two watchers,   *)
(* the opening of the database, the fetching of sources and the scan for   *)
(* skills.  Each is inductive for its component; Services_proofs concludes *)
(* about the specification.                                                *)
(***************************************************************************)
EXTENDS Services, Integers, Sequences, TLAPS, FiniteSetTheorems, SequenceTheorems,
        WellFoundedInduction

-----------------------------------------------------------------------------
(***************************************************************************)
(* The update of the application, for any releases, signatures and number  *)
(* of concurrent calls.                                                    *)
(***************************************************************************)
-----------------------------------------------------------------------------
(* Types, and what a call knows                                            *)

UpdateLooking == {"manifest", "save"}
UpdateDownloading == {"fetch", "verify", "discard", "mark_failed", "mark_downloaded"}
UpdateInstalling == {"handover", "plugin"}

\* A call that looks for a release holds what it has found for the program that runs; a
\* call that downloads or installs holds a release, of an update that was prepared.
UpdateCallOK(k) ==
  /\ k.step \in UpdateLooking => k.update \in Update!Updates /\ k.update.current = installed
                           /\ k.update.manifest \in {None, k.update.latest}
  /\ k.step \in UpdateLooking /\ k.update.manifest # None => Update!Available(k.update)
  /\ k.step = "manifest" => Update!Available(k.update)
  /\ k.step \in UpdateDownloading \union UpdateInstalling => k.release \in Releases
  /\ k.step \in UpdateDownloading => pending \in Update!Pending
  /\ k.step = "plugin" => k.bytes = k.release

UpdateCacheOK ==
  cache # None => /\ cache.manifest \in {None, cache.latest}
                  /\ cache.manifest # None => Update!Available(cache)

UpdateInv ==
  /\ Update!TypeOK
  /\ \A c \in Users : UpdateCallOK(calls[c])
  /\ \A v \in Releases : staging[v] \in {None, v}
  /\ UpdateCacheOK
  /\ \A v \in offers : v > installed

\* A call that has not begun is well formed.
LEMMA UpdateIdleTyped == Update!Idle \in Update!Call /\ UpdateCallOK(Update!Idle)
  BY DEF Update!Idle, Update!Call, Update!Steps, UpdateCallOK, UpdateLooking,
     UpdateDownloading, UpdateInstalling

\* A call that goes on keeps what it has.
LEMMA UpdateCallFields ==
  ASSUME NEW k \in Update!Call, NEW s \in Update!Steps
  PROVE  LET n == [k EXCEPT !.step = s] IN
         /\ n \in Update!Call /\ n.step = s /\ n.release = k.release /\ n.update = k.update
         /\ n.bytes = k.bytes
  BY DEF Update!Call

\* A call goes on with the update that it has found.
LEMMA UpdateFoundFields ==
  ASSUME NEW k \in Update!Call, NEW s \in Update!Steps, NEW u \in Update!Updates
  PROVE  LET n == [k EXCEPT !.step = s, !.update = u] IN
         n \in Update!Call /\ n.step = s /\ n.update = u
  BY DEF Update!Call

\* One call changes, the records stay.
LEMMA UpdateCallUpdate ==
  ASSUME UpdateInv, NEW c \in Users, NEW k \in Update!Call, calls' = [calls EXCEPT ![c] = k],
         UpdateCallOK(k)', UNCHANGED <<installed, pending>>
  PROVE  calls' \in [Users -> Update!Call] /\ \A d \in Users : UpdateCallOK(calls[d])'
<1>1. calls' \in [Users -> Update!Call]
  BY DEF UpdateInv, Update!TypeOK
<1>2. \A d \in Users : calls'[d] = IF d = c THEN k ELSE calls[d]
  BY DEF UpdateInv, Update!TypeOK
<1>3. ASSUME NEW d \in Users PROVE UpdateCallOK(calls[d])'
  BY <1>2 DEF UpdateInv, UpdateCallOK
<1>4. QED
  BY <1>1, <1>3

\* A call that answers is well formed, whatever it answers.
LEMMA UpdateAnswered ==
  ASSUME UpdateInv, NEW c \in Users, Update!Answer(c), installed' = installed,
         pending' = pending \/ pending' \in Update!Pending
  PROVE  calls' \in [Users -> Update!Call] /\ \A d \in Users : UpdateCallOK(calls[d])'
<1>1. calls' \in [Users -> Update!Call]
  BY UpdateIdleTyped DEF UpdateInv, Update!TypeOK, Update!Answer
<1>2. \A d \in Users : calls'[d] = IF d = c THEN Update!Idle ELSE calls[d]
  BY DEF UpdateInv, Update!TypeOK, Update!Answer
<1>3. ASSUME NEW d \in Users PROVE UpdateCallOK(calls[d])'
  <2>1. CASE d = c
    BY <1>2, <2>1, UpdateIdleTyped DEF UpdateCallOK, Update!Idle, UpdateLooking,
       UpdateDownloading, UpdateInstalling
  <2>2. CASE d # c
    BY <1>2, <2>2 DEF UpdateInv, UpdateCallOK
  <2>3. QED
    BY <2>1, <2>2
<1>4. QED
  BY <1>1, <1>3

\* A call that goes on to another step, with what it has, stays well formed.
LEMMA UpdateMoved ==
  ASSUME UpdateInv, NEW c \in Users, NEW s \in Update!Steps, Update!Goto(c, s),
       UNCHANGED <<installed, pending>>,
         UpdateCallOK([calls[c] EXCEPT !.step = s])
  PROVE  calls' \in [Users -> Update!Call] /\ \A d \in Users : UpdateCallOK(calls[d])'
<1> DEFINE k == [calls[c] EXCEPT !.step = s]
<1>1. k \in Update!Call
  BY UpdateCallFields DEF UpdateInv, Update!TypeOK
<1>2. calls' = [calls EXCEPT ![c] = k]
  BY DEF Update!Goto
<1>3. calls' \in [Users -> Update!Call]
  BY <1>1, <1>2 DEF UpdateInv, Update!TypeOK
<1>4. \A d \in Users : calls'[d] = IF d = c THEN k ELSE calls[d]
  BY <1>2 DEF UpdateInv, Update!TypeOK
<1> HIDE DEF k
<1>5. ASSUME NEW d \in Users PROVE UpdateCallOK(calls[d])'
  <2>1. UpdateCallOK(k)
    BY DEF k
  <2>2. QED
    BY <1>4, <2>1 DEF UpdateInv, UpdateCallOK
<1>6. QED
  BY <1>3, <1>5

\* A call that has looked for updates holds what it found.
LEMMA UpdateFound ==
  ASSUME UpdateInv, NEW c \in Users, NEW s \in UpdateLooking, NEW u \in Update!Updates,
         calls' = [calls EXCEPT ![c].step = s, ![c].update = u],
         UNCHANGED <<installed, pending>>,
         u.current = installed, u.manifest \in {None, u.latest},
         s = "manifest" \/ u.manifest # None => Update!Available(u)
  PROVE  calls' \in [Users -> Update!Call] /\ \A d \in Users : UpdateCallOK(calls[d])'
<1>1. s \in Update!Steps /\ s \notin UpdateDownloading \union UpdateInstalling
  BY DEF UpdateLooking, Update!Steps, UpdateDownloading, UpdateInstalling
<1>2. PICK k \in Update!Call : k = calls[c]
  BY DEF UpdateInv, Update!TypeOK
<1>3. [k EXCEPT !.step = s, !.update = u] \in Update!Call
  BY <1>1, UpdateFoundFields
<1>4. PICK n \in Update!Call : n = [k EXCEPT !.step = s, !.update = u]
  BY <1>3
<1>5. n.step = s /\ n.update = u
  BY <1>4 DEF Update!Call
<1>6. calls' = [calls EXCEPT ![c] = n]
  BY <1>2, <1>4 DEF UpdateInv, Update!TypeOK, Update!Call
<1>7. UpdateCallOK(n)'
  BY <1>1, <1>5 DEF UpdateCallOK, Update!Available, UpdateInstalling
<1>8. QED
  BY <1>6, <1>7, UpdateCallUpdate

\* What a step that leaves the calls alone has to keep.
LEMMA UpdateQuietInv ==
  ASSUME UpdateInv, Update!TypeOK', UNCHANGED <<calls, installed>>,
         pending' = pending \/ pending' \in Update!Pending,
         \A v \in Releases : staging'[v] \in {None, v}, UpdateCacheOK',
         \A v \in offers' : v > installed
  PROVE  UpdateInv'
<1>1. ASSUME NEW c \in Users PROVE UpdateCallOK(calls[c])'
  BY DEF UpdateInv, UpdateCallOK
<1>2. QED
  BY <1>1 DEF UpdateInv

\* ... and one that changes calls.
LEMMA UpdateBusyInv ==
  ASSUME UpdateInv, Update!TypeOK', installed' = installed,
       \A c \in Users : UpdateCallOK(calls[c])',
         \A v \in Releases : staging'[v] \in {None, v}, UpdateCacheOK',
         \A v \in offers' : v > installed
  PROVE  UpdateInv'
  BY DEF UpdateInv

\* What is recorded of a rollback has the type of a pending update.
LEMMA UpdateRollbackTyped ==
  ASSUME Update!TypeOK, Update!Rollback
  PROVE  /\ pending' \in Update!Pending \union {None} /\ reported' \in Nat
         /\ pending' = pending \/ pending' \in Update!Pending
<1>1. \A p \in Update!Pending : Update!Consumed(p) \in Update!Pending
  BY DEF Update!Pending, Update!Consumed
<1>2. QED
  BY <1>1 DEF Update!TypeOK, Update!Rollback

\* The start of the program, and what goes on around it, keeps the invariant.
LEMMA UpdateStartupInv ==
  ASSUME UpdateInv,
       \/ Update!Start \/ Update!StartFails \/ Update!RollbackIfUnhealthy
          \/ Update!StartSucceeds \/ Update!ProbeAges
                    \/ Update!Publish \/ Update!CacheExpires \/ Update!RollbackCommand
                       \/ \E v \in Releases : Update!Prepare(v)
  PROVE  UpdateInv'
<1> USE DEF Update!startup, Update!records
<1>1. CASE Update!Start \/ Update!StartFails \/ Update!StartSucceeds \/ Update!ProbeAges
           \/ Update!Publish
  <2>1. Update!TypeOK' /\ UNCHANGED <<calls, installed, pending, staging, cache, offers>>
    BY <1>1 DEF Update!Start, Update!StartFails, Update!StartSucceeds, Update!ProbeAges,
       Update!Publish, UpdateInv, Update!TypeOK
  <2>2. QED
    BY <2>1, UpdateQuietInv DEF UpdateInv, UpdateCacheOK
<1>2. CASE Update!RollbackIfUnhealthy \/ Update!RollbackCommand
  <2>1. /\ UNCHANGED <<calls, installed, published, probe, staging, cache, offers>>
        /\ Update!Rollback \/ UNCHANGED <<pending, reported>>
        /\ phase' \in {phase, "checked"} /\ previous' \in {previous, "none"}
    BY <1>2 DEF Update!RollbackIfUnhealthy, Update!RollbackCommand
  <2>2. Update!TypeOK'
    BY <2>1, UpdateRollbackTyped DEF UpdateInv, Update!TypeOK
  <2>3. pending' = pending \/ pending' \in Update!Pending
    BY <2>1, UpdateRollbackTyped DEF UpdateInv
  <2>4. QED
    BY <2>1, <2>2, <2>3, UpdateQuietInv DEF UpdateInv, UpdateCacheOK
<1>3. CASE Update!CacheExpires
  <2>1. Update!TypeOK'
    BY <1>3 DEF Update!CacheExpires, UpdateInv, Update!TypeOK
  <2>2. UpdateCacheOK'
    BY <1>3 DEF Update!CacheExpires, UpdateCacheOK
  <2>3. QED
    BY <1>3, <2>1, <2>2, UpdateQuietInv DEF Update!CacheExpires, UpdateInv
<1>4. ASSUME NEW v \in Releases, Update!Prepare(v) PROVE UpdateInv'
  <2>1. pending' \in Update!Pending
    BY <1>4 DEF Update!Prepare, Update!Pending, UpdateInv, Update!TypeOK
  <2>2. Update!TypeOK'
    BY <1>4, <2>1 DEF Update!Prepare, UpdateInv, Update!TypeOK
  <2>3. QED
    BY <1>4, <2>1, <2>2, UpdateQuietInv DEF Update!Prepare, UpdateInv, UpdateCacheOK
<1>5. QED
  BY <1>1, <1>2, <1>3, <1>4

\* A check for updates keeps it, whatever other calls do between its steps.
LEMMA UpdateCheckInv ==
  ASSUME UpdateInv, NEW c \in Users,
         Update!Check(c) \/ Update!FetchLatest(c) \/ Update!AttachManifest(c)
         \/ Update!ManifestFails(c) \/ Update!SaveCheck(c)
  PROVE  UpdateInv'
<1> DEFINE k == calls[c]
<1> USE DEF Update!startup, Update!records
<1>0. /\ k \in Update!Call /\ UpdateCallOK(k) /\ Update!TypeOK
      /\ \A u \in Update!Updates : u.current \in Releases /\ u.latest \in Releases
                            /\ u.manifest \in Releases \union {None}
  BY DEF UpdateInv, Update!TypeOK, Update!Updates
<1>1. ASSUME calls' \in [Users -> Update!Call], \A d \in Users : UpdateCallOK(calls[d])',
             UNCHANGED <<installed, published, Update!startup, Update!records, staging,
                  reported>>,
             offers' \subseteq Releases, \A v \in offers' : v > installed
      PROVE  UpdateInv'
  <2>1. Update!TypeOK'
    BY <1>1 DEF UpdateInv, Update!TypeOK
  <2>2. QED
    BY <1>1, <2>1, UpdateBusyInv DEF UpdateInv, UpdateCacheOK
<1>2. CASE Update!Check(c)
  <2>1. CASE Update!Goto(c, "latest") /\ UNCHANGED offers
    <3>1. "latest" \in Update!Steps
      BY DEF Update!Steps
    <3>2. UpdateCallOK([k EXCEPT !.step = "latest"])
      BY <1>0, <3>1, UpdateCallFields DEF UpdateCallOK, UpdateLooking, UpdateDownloading,
         UpdateInstalling
    <3>3. QED
      BY <1>1, <1>2, <2>1, <3>1, <3>2, UpdateMoved DEF Update!Check, UpdateInv, Update!TypeOK
  <2>2. CASE /\ Update!FreshCheck(installed) /\ Update!Available(cache) /\ cache.manifest = None
             /\ calls' = [calls EXCEPT ![c].step = "manifest", ![c].update = cache]
             /\ UNCHANGED offers
    <3>1. cache \in Update!Updates /\ cache.current = installed /\ "manifest" \in UpdateLooking
      BY <2>2 DEF Update!FreshCheck, UpdateInv, Update!TypeOK, UpdateLooking
    <3>2. UNCHANGED <<installed, pending>>
      BY <1>2 DEF Update!Check
    <3>3. calls' \in [Users -> Update!Call] /\ \A d \in Users : UpdateCallOK(calls[d])'
      BY <2>2, <3>1, <3>2, UpdateFound
    <3>4. QED
      BY <1>1, <1>2, <2>2, <3>3 DEF Update!Check, UpdateInv, Update!TypeOK
  <2>3. CASE /\ Update!FreshCheck(installed) /\ UNCHANGED calls
             /\ offers' = offers \union ({cache.manifest} \ {None})
    <3>1. cache \in Update!Updates /\ cache.current = installed /\ UpdateCacheOK
      BY <2>3 DEF Update!FreshCheck, UpdateInv, Update!TypeOK
    <3>2. cache.manifest # None => cache.manifest > installed
      BY <2>3, <3>1 DEF UpdateCacheOK, Update!Available, Update!FreshCheck
    <3>3. UNCHANGED <<installed, published, Update!startup, Update!records, staging, reported>>
      BY <1>2 DEF Update!Check
    <3>4. Update!TypeOK'
      BY <1>0, <2>3, <3>1, <3>3 DEF UpdateInv, Update!TypeOK
    <3>5. QED
      BY <2>3, <3>2, <3>3, <3>4, UpdateQuietInv DEF UpdateInv, UpdateCacheOK
  <2>4. QED
    BY <1>2, <2>1, <2>2, <2>3 DEF Update!Check
<1>3. CASE Update!FetchLatest(c)
  <2>1. CASE Update!Answer(c)
    BY <1>1, <1>3, <2>1, UpdateAnswered DEF Update!FetchLatest, UpdateInv, Update!TypeOK
  <2>2. CASE ~Update!Answer(c)
    <3>1. PICK s \in UpdateLooking, found \in Update!Updates :
            /\ calls' = [calls EXCEPT ![c].step = s, ![c].update = found]
            /\ found.current = installed /\ found.manifest = None
            /\ s = "manifest" => Update!Available(found)
      <4> DEFINE found == [current |-> installed, latest |-> published, manifest |-> None]
                 s == IF Update!Available(found) THEN "manifest" ELSE "save"
      <4>1. found \in Update!Updates /\ found.current = installed /\ found.manifest = None
        BY <1>0 DEF Update!Updates, Update!TypeOK
      <4>2. s \in UpdateLooking /\ (s = "manifest" => Update!Available(found))
        BY DEF UpdateLooking
      <4>3. calls' = [calls EXCEPT ![c].step = s, ![c].update = found]
        BY <1>3, <2>2 DEF Update!FetchLatest
      <4> HIDE DEF s, found
      <4>4. QED
        BY <4>1, <4>2, <4>3
    <3>2. UNCHANGED <<installed, pending>>
      BY <1>3 DEF Update!FetchLatest
    <3>3. calls' \in [Users -> Update!Call] /\ \A d \in Users : UpdateCallOK(calls[d])'
      BY <3>1, <3>2, UpdateFound
    <3>4. QED
      BY <1>1, <1>3, <3>3 DEF Update!FetchLatest, UpdateInv, Update!TypeOK
  <2>3. QED
    BY <2>1, <2>2
<1>4. CASE Update!AttachManifest(c)
  <2> DEFINE u == Update!Attached(k.update, published)
  <2>1. /\ k.update \in Update!Updates /\ k.update.current = installed
       /\ Update!Available(k.update)
        /\ k.update.manifest \in {None, k.update.latest}
    BY <1>0, <1>4 DEF Update!AttachManifest, Update!At, UpdateCallOK, UpdateLooking
  <2>2. /\ u \in Update!Updates /\ u.current = installed /\ u.manifest \in {None, u.latest}
        /\ Update!Available(u) /\ "save" \in UpdateLooking
    BY <1>0, <2>1 DEF Update!Attached, Update!Updates, Update!Available, Update!TypeOK,
       UpdateLooking
  <2>3. calls' = [calls EXCEPT ![c].step = "save", ![c].update = u]
    BY <1>4 DEF Update!AttachManifest
  <2>4. UNCHANGED <<installed, pending>>
    BY <1>4 DEF Update!AttachManifest
  <2> HIDE DEF u
  <2>5. calls' \in [Users -> Update!Call] /\ \A d \in Users : UpdateCallOK(calls[d])'
    BY <2>2, <2>3, <2>4, UpdateFound
  <2>6. QED
    BY <1>1, <1>4, <2>5 DEF Update!AttachManifest, UpdateInv, Update!TypeOK
<1>5. CASE Update!ManifestFails(c)
  <2>1. k.step = "manifest" /\ Update!Goto(c, "save") /\ "save" \in Update!Steps
    BY <1>5 DEF Update!ManifestFails, Update!At, Update!Steps
  <2>2. UpdateCallOK([k EXCEPT !.step = "save"])
    BY <1>0, <2>1, UpdateCallFields DEF UpdateCallOK, UpdateLooking, UpdateDownloading,
       UpdateInstalling
  <2>3. QED
    BY <1>1, <1>5, <2>1, <2>2, UpdateMoved DEF Update!ManifestFails, UpdateInv, Update!TypeOK
<1>6. CASE Update!SaveCheck(c)
  <2>1. /\ k.update \in Update!Updates /\ k.update.current = installed
        /\ k.update.manifest \in {None, k.update.latest}
        /\ k.update.manifest # None => Update!Available(k.update)
    BY <1>0, <1>6 DEF Update!SaveCheck, Update!At, UpdateCallOK, UpdateLooking
  <2>2. /\ cache' = k.update /\ offers' = offers \union ({k.update.manifest} \ {None})
        /\ Update!Answer(c)
        /\ UNCHANGED <<installed, published, Update!startup, pending, staging, reported>>
    BY <1>6 DEF Update!SaveCheck
  <2>3. calls' \in [Users -> Update!Call] /\ \A d \in Users : UpdateCallOK(calls[d])'
    BY <2>2, UpdateAnswered
  <2>4. Update!TypeOK'
    BY <1>0, <2>1, <2>2, <2>3 DEF UpdateInv, Update!TypeOK
  <2>5. UpdateCacheOK'
    BY <2>1, <2>2 DEF UpdateCacheOK, Update!Available
  <2>6. \A v \in offers' : v > installed
    BY <2>1, <2>2 DEF UpdateInv, Update!Available
  <2>7. QED
    BY <2>2, <2>3, <2>4, <2>5, <2>6, UpdateBusyInv DEF UpdateInv
<1>7. QED
  BY <1>2, <1>3, <1>4, <1>5, <1>6

\* A call goes on with a release.
LEMMA UpdateTaken ==
  ASSUME UpdateInv, NEW c \in Users, NEW s \in {"fetch", "handover"}, NEW v \in Releases,
         calls' = [calls EXCEPT ![c].step = s, ![c].release = v],
         UNCHANGED <<installed, pending>>, pending \in Update!Pending
  PROVE  calls' \in [Users -> Update!Call] /\ \A d \in Users : UpdateCallOK(calls[d])'
<1>1. s \in Update!Steps /\ s \notin UpdateLooking /\ s # "plugin"
  BY DEF UpdateLooking, Update!Steps
<1>2. PICK k \in Update!Call : k = calls[c]
  BY DEF UpdateInv, Update!TypeOK
<1>3. [k EXCEPT !.step = s, !.release = v] \in Update!Call
  BY <1>1 DEF Update!Call
<1>4. PICK n \in Update!Call : n = [k EXCEPT !.step = s, !.release = v]
  BY <1>3
<1>5. n.step = s /\ n.release = v
  BY <1>4 DEF Update!Call
<1>6. calls' = [calls EXCEPT ![c] = n]
  BY <1>2, <1>4 DEF UpdateInv, Update!TypeOK, Update!Call
<1>7. UpdateCallOK(n)'
  BY <1>1, <1>5 DEF UpdateCallOK, UpdateLooking
<1>8. QED
  BY <1>6, <1>7, UpdateCallUpdate

\* The platform installer gets the bytes of the file.
LEMMA UpdateHanded ==
  ASSUME UpdateInv, NEW c \in Users, calls[c].release \in Releases,
         calls' = [calls EXCEPT ![c].step = "plugin", ![c].bytes = calls[c].release],
         UNCHANGED <<installed, pending>>
  PROVE  calls' \in [Users -> Update!Call] /\ \A d \in Users : UpdateCallOK(calls[d])'
<1>1. "plugin" \in Update!Steps /\ "plugin" \notin UpdateLooking \union UpdateDownloading
  BY DEF UpdateLooking, Update!Steps, UpdateDownloading
<1>2. PICK k \in Update!Call : k = calls[c]
  BY DEF UpdateInv, Update!TypeOK
<1>3. [k EXCEPT !.step = "plugin", !.bytes = k.release] \in Update!Call
  BY <1>1, <1>2 DEF Update!Call
<1>4. PICK n \in Update!Call : n = [k EXCEPT !.step = "plugin", !.bytes = k.release]
  BY <1>3
<1>5. n.step = "plugin" /\ n.bytes = k.release /\ n.release = k.release
  BY <1>4 DEF Update!Call
<1>6. calls' = [calls EXCEPT ![c] = n]
  BY <1>2, <1>4 DEF UpdateInv, Update!TypeOK, Update!Call
<1>7. UpdateCallOK(n)'
  BY <1>1, <1>2, <1>5 DEF UpdateCallOK, UpdateLooking
<1>8. QED
  BY <1>6, <1>7, UpdateCallUpdate

\* A download keeps it: its package is the one that was signed.
LEMMA UpdateDownloadInv ==
  ASSUME UpdateInv, NEW c \in Users,
         \/ \E v \in Releases : Update!Download(c, v)
         \/ \E bytes \in Releases \union {Garbage} : Update!FetchPackage(c, bytes)
         \/ Update!VerifyPackage(c) \/ Update!MarkDownloaded(c) \/ Update!DiscardPackage(c)
            \/ Update!MarkFailed(c)
  PROVE  UpdateInv'
<1> DEFINE k == calls[c]
<1> USE DEF Update!startup, Update!records
<1>0. k \in Update!Call /\ UpdateCallOK(k) /\ Update!TypeOK
  BY DEF UpdateInv, Update!TypeOK
<1>1. ASSUME calls' \in [Users -> Update!Call], \A d \in Users : UpdateCallOK(calls[d])',
             UNCHANGED <<installed, published, Update!startup, cache, offers, reported>>,
             pending' \in Update!Pending \union {None},
             \/ staging' = staging
             \/ \E v \in Releases : \E b \in {None, v, staging[v]} :
                  staging' = [staging EXCEPT ![v] = b]
      PROVE  UpdateInv'
  <2>1. staging' \in [Releases -> Releases \union {Garbage, None}]
        /\ \A v \in Releases : staging'[v] \in {None, v}
    BY <1>1 DEF UpdateInv, Update!TypeOK
  <2>2. Update!TypeOK'
    BY <1>1, <2>1 DEF UpdateInv, Update!TypeOK
  <2>3. QED
    BY <1>1, <2>1, <2>2, UpdateBusyInv DEF UpdateInv, UpdateCacheOK
<1>2. ASSUME NEW s \in UpdateDownloading, k.step \in UpdateDownloading, Update!Goto(c, s),
             UNCHANGED <<installed, pending>>
      PROVE  calls' \in [Users -> Update!Call] /\ \A d \in Users : UpdateCallOK(calls[d])'
  <2>1. s \in Update!Steps /\ s \notin UpdateLooking \union UpdateInstalling
    BY DEF UpdateDownloading, Update!Steps, UpdateLooking, UpdateInstalling
  <2>2. UpdateCallOK([k EXCEPT !.step = s])
    BY <1>0, <1>2, <2>1, UpdateCallFields DEF UpdateCallOK, UpdateLooking, UpdateInstalling
  <2>3. QED
    BY <1>2, <2>1, <2>2, UpdateMoved
<1>3. ASSUME k.step \in UpdateDownloading
      PROVE  k.release \in Releases /\ pending \in Update!Pending
  BY <1>0, <1>3 DEF UpdateCallOK
<1>4. \A state \in {"ready", "failed"} : pending \in Update!Pending =>
        [pending EXCEPT !.state = state] \in Update!Pending
  BY DEF Update!Pending
<1>5. ASSUME NEW v \in Releases, Update!Download(c, v) PROVE UpdateInv'
  <2>1. pending \in Update!Pending /\ UNCHANGED <<installed, pending>>
    BY <1>0, <1>5 DEF Update!Download, Update!TypeOK
  <2>2. calls' = [calls EXCEPT ![c].step = "fetch", ![c].release = v]
    BY <1>5 DEF Update!Download
  <2>3. calls' \in [Users -> Update!Call] /\ \A d \in Users : UpdateCallOK(calls[d])'
    BY <2>1, <2>2, UpdateTaken
  <2>4. QED
    BY <1>0, <1>1, <1>5, <2>1, <2>3 DEF Update!Download
<1>6. ASSUME NEW bytes \in Releases \union {Garbage}, Update!FetchPackage(c,
     bytes) PROVE UpdateInv'
  <2>1. k.step \in UpdateDownloading /\ {"verify", "discard"} \subseteq UpdateDownloading
    BY <1>6 DEF Update!FetchPackage, Update!At, UpdateDownloading
  <2>2. k.release \in Releases /\ pending \in Update!Pending
    BY <1>3, <2>1
  <2>3. \E s \in UpdateDownloading : Update!Goto(c, s)
    BY <1>6, <2>1 DEF Update!FetchPackage
  <2>4. UNCHANGED <<installed, published, Update!startup, Update!records, offers, reported>>
    BY <1>6 DEF Update!FetchPackage
  <2>5. calls' \in [Users -> Update!Call] /\ \A d \in Users : UpdateCallOK(calls[d])'
    BY <1>2, <2>1, <2>3, <2>4
  <2>6. \E b \in {None, k.release, staging[k.release]} :
          staging' = [staging EXCEPT ![k.release] = b]
    BY <1>6 DEF Update!FetchPackage, Update!Persisted
  <2>7. QED
    BY <1>1, <2>2, <2>4, <2>5, <2>6
<1>7. CASE Update!VerifyPackage(c)
  <2>1. k.step \in UpdateDownloading /\ {"mark_downloaded",
       "discard"} \subseteq UpdateDownloading
    BY <1>7 DEF Update!VerifyPackage, Update!At, UpdateDownloading
  <2>2. \E s \in UpdateDownloading : Update!Goto(c, s)
    BY <1>7, <2>1 DEF Update!VerifyPackage
  <2>3. UNCHANGED <<installed, published, Update!startup, Update!records, staging, offers,
       reported>>
    BY <1>7 DEF Update!VerifyPackage
  <2>4. calls' \in [Users -> Update!Call] /\ \A d \in Users : UpdateCallOK(calls[d])'
    BY <1>2, <2>1, <2>2, <2>3
  <2>5. QED
    BY <1>0, <1>1, <2>3, <2>4 DEF Update!TypeOK
<1>8. CASE Update!MarkDownloaded(c) \/ Update!MarkFailed(c)
  <2>1. k.step \in UpdateDownloading /\ Update!Answer(c)
        /\ UNCHANGED <<installed, published, Update!startup, cache, staging, offers, reported>>
    BY <1>8 DEF Update!MarkDownloaded, Update!MarkFailed, Update!At, UpdateDownloading
  <2>2. pending' \in Update!Pending
    BY <1>3, <1>4, <1>8, <2>1 DEF Update!MarkDownloaded, Update!MarkFailed
  <2>3. calls' \in [Users -> Update!Call] /\ \A d \in Users : UpdateCallOK(calls[d])'
    BY <2>1, <2>2, UpdateAnswered
  <2>4. QED
    BY <1>1, <2>1, <2>2, <2>3
<1>9. CASE Update!DiscardPackage(c)
  <2>1. k.step \in UpdateDownloading /\ "mark_failed" \in UpdateDownloading
    BY <1>9 DEF Update!DiscardPackage, Update!At, UpdateDownloading
  <2>2. k.release \in Releases /\ pending \in Update!Pending
    BY <1>3, <2>1
  <2>3. Update!Goto(c, "mark_failed")
        /\ UNCHANGED <<installed, published, Update!startup, Update!records, offers, reported>>
        /\ staging' = [staging EXCEPT ![k.release] = None]
    BY <1>9 DEF Update!DiscardPackage
  <2>4. calls' \in [Users -> Update!Call] /\ \A d \in Users : UpdateCallOK(calls[d])'
    BY <1>2, <2>1, <2>3
  <2>5. QED
    BY <1>1, <2>2, <2>3, <2>4
<1>10. QED
  BY <1>5, <1>6, <1>7, <1>8, <1>9

\* An installation keeps it: the installer is given the prepared package.
LEMMA UpdateInstallInv ==
  ASSUME UpdateInv, NEW c \in Users,
         Update!Install(c) \/ Update!HandOver(c) \/ Update!PluginInstalls(c)
         \/ Update!PluginRefuses(c)
  PROVE  UpdateInv'
<1> DEFINE k == calls[c]
<1> USE DEF Update!startup, Update!records
<1>0. k \in Update!Call /\ UpdateCallOK(k) /\ Update!TypeOK
  BY DEF UpdateInv, Update!TypeOK
<1>1. ASSUME calls' \in [Users -> Update!Call], \A d \in Users : UpdateCallOK(calls[d])',
             UNCHANGED <<installed, published, Update!startup, Update!records, staging, offers,
                  reported>>
      PROVE  UpdateInv'
  <2>1. Update!TypeOK'
    BY <1>1 DEF UpdateInv, Update!TypeOK
  <2>2. QED
    BY <1>1, <2>1, UpdateBusyInv DEF UpdateInv, UpdateCacheOK
<1>2. CASE Update!Install(c)
  <2>1. pending \in Update!Pending /\ pending.target \in Releases
    BY <1>0, <1>2 DEF Update!Install, Update!TypeOK, Update!Pending
  <2>2. /\ calls' = [calls EXCEPT ![c].step = "handover", ![c].release = pending.target]
        /\ UNCHANGED <<installed, published, Update!startup, Update!records, staging, offers,
             reported>>
    BY <1>2 DEF Update!Install
  <2>3. PICK v \in Releases : v = pending.target
    BY <2>1
  <2>4. calls' \in [Users -> Update!Call] /\ \A d \in Users : UpdateCallOK(calls[d])'
    BY <2>1, <2>2, <2>3, UpdateTaken
  <2>5. QED
    BY <1>1, <2>2, <2>4
<1>3. CASE Update!HandOver(c)
  <2>1. k.release \in Releases /\ staging[k.release] \in {None, k.release}
    BY <1>0, <1>3 DEF Update!HandOver, Update!At, UpdateCallOK, UpdateInstalling, UpdateInv
  <2>2. UNCHANGED <<installed, published, Update!startup, Update!records, staging, offers,
       reported>>
    BY <1>3 DEF Update!HandOver
  <2>3. \/ Update!Answer(c)
        \/ calls' = [calls EXCEPT ![c].step = "plugin", ![c].bytes = calls[c].release]
    BY <1>3, <2>1 DEF Update!HandOver
  <2>4. calls' \in [Users -> Update!Call] /\ \A d \in Users : UpdateCallOK(calls[d])'
    BY <2>1, <2>2, <2>3, UpdateAnswered, UpdateHanded
  <2>5. QED
    BY <1>1, <2>2, <2>4
<1>4. CASE Update!PluginRefuses(c)
  BY <1>1, <1>4, UpdateAnswered DEF Update!PluginRefuses
<1>5. CASE Update!PluginInstalls(c)
  <2>1. /\ installed' \in Releases /\ phase' = "off" /\ offers' = {}
        /\ calls' = [d \in Users |-> Update!Idle]
        /\ UNCHANGED <<published, probe, previous, Update!records, staging, reported>>
    BY <1>0, <1>5 DEF Update!PluginInstalls, Update!TypeOK
  <2>2. Update!TypeOK'
    BY <1>0, <2>1, UpdateIdleTyped DEF Update!TypeOK
  <2>3. \A d \in Users : UpdateCallOK(calls[d])'
    BY <2>1 DEF UpdateCallOK, Update!Idle, UpdateLooking, UpdateDownloading, UpdateInstalling
  <2>4. QED
    BY <2>1, <2>2, <2>3 DEF UpdateInv, UpdateCacheOK
<1>6. QED
  BY <1>2, <1>3, <1>4, <1>5

\* The invariant of the update holds at the start.
LEMMA UpdateInitInv == Update!Init => UpdateInv
<1> SUFFICES ASSUME Update!Init PROVE UpdateInv
  OBVIOUS
<1>1. installed \in Releases
  BY ReleasesAreVersions DEF Update!Init
<1>2. Update!TypeOK
  BY <1>1, UpdateIdleTyped DEF Update!Init, Update!TypeOK
<1>3. QED
  BY <1>2, UpdateIdleTyped DEF Update!Init, UpdateInv, UpdateCacheOK

\* Every step of the update keeps its invariant.
LEMMA UpdateStepInv == UpdateInv /\ [Update!Next]_Update!vars => UpdateInv'
<1> SUFFICES ASSUME UpdateInv, [Update!Next]_Update!vars PROVE UpdateInv'
  OBVIOUS
<1>1. CASE Update!Stop
  <2>1. Update!TypeOK'
    BY <1>1, UpdateIdleTyped DEF Update!Stop, UpdateInv, Update!TypeOK, Update!records
  <2>2. \A d \in Users : UpdateCallOK(calls[d])'
    BY <1>1 DEF Update!Stop, UpdateCallOK, Update!Idle, UpdateLooking, UpdateDownloading,
       UpdateInstalling
  <2>3. QED
    BY <1>1, <2>1, <2>2 DEF Update!Stop, UpdateInv, UpdateCacheOK, Update!records
<1>2. CASE UNCHANGED Update!vars
  <2>1. Update!TypeOK'
    BY <1>2 DEF Update!vars, UpdateInv, Update!TypeOK, Update!startup, Update!records
  <2>2. QED
    BY <1>2, <2>1, UpdateQuietInv DEF Update!vars, UpdateInv, UpdateCacheOK, Update!startup,
       Update!records
<1>3. QED
  BY <1>1, <1>2, UpdateStartupInv, UpdateCheckInv, UpdateDownloadInv, UpdateInstallInv
     DEF Update!Next

\* The invariant says what is installed and what is offered.
LEMMA UpdateInvIsWhole == UpdateInv => Update!PackageIsWhole /\ Update!OffersAreConsistent
  BY DEF UpdateInv, UpdateCallOK, UpdateCacheOK, Update!PackageIsWhole, Update!At,
     Update!OffersAreConsistent

-----------------------------------------------------------------------------
(* Rollbacks                                                               *)

UpdateReportedInv == \/ reported = 0
                     \/ reported = 1 /\ pending \in Update!Pending /\ pending.rollback = None

\* A rollback is reported by the start that takes its record away.
LEMMA UpdateReportedStep ==
  UpdateInv /\ UpdateReportedInv /\ [Update!Next]_Update!vars => UpdateReportedInv'
<1> SUFFICES ASSUME UpdateInv, UpdateReportedInv,
     [Update!Next]_Update!vars PROVE UpdateReportedInv'
  OBVIOUS
<1>0. pending \in Update!Pending \union {None} /\ \A c \in Users : UpdateCallOK(calls[c])
  BY DEF UpdateInv, Update!TypeOK
<1> USE DEF Update!startup, Update!records
<1>1. CASE UNCHANGED <<pending, reported>>
  BY <1>1 DEF UpdateReportedInv
<1>2. ASSUME Update!Rollback PROVE UpdateReportedInv'
  <2>1. \A p \in Update!Pending : Update!Consumed(p) \in Update!Pending
       /\ Update!Consumed(p).rollback = None
    BY DEF Update!Pending, Update!Consumed
  <2>2. QED
    BY <1>0, <1>1, <1>2, <2>1 DEF Update!Rollback, UpdateReportedInv
<1>3. ASSUME NEW v \in Releases, Update!Prepare(v) PROVE UpdateReportedInv'
  BY <1>3 DEF Update!Prepare, UpdateReportedInv
<1>4. ASSUME NEW c \in Users,
     Update!MarkDownloaded(c) \/ Update!MarkFailed(c) PROVE UpdateReportedInv'
  <2>1. pending \in Update!Pending /\ reported' = reported
    BY <1>0, <1>4 DEF Update!MarkDownloaded, Update!MarkFailed, Update!At, UpdateCallOK,
       UpdateDownloading
  <2>2. \A state \in {"ready", "failed"} :
          LET n == [pending EXCEPT !.state = state] IN
          n \in Update!Pending /\ n.rollback = pending.rollback
    BY <2>1 DEF Update!Pending
  <2>3. pending' \in Update!Pending /\ pending'.rollback = pending.rollback
    BY <1>4, <2>1, <2>2 DEF Update!MarkDownloaded, Update!MarkFailed
  <2>4. QED
    BY <2>1, <2>3 DEF UpdateReportedInv
<1>5. CASE \/ Update!Start \/ Update!StartFails \/ Update!StartSucceeds \/ Update!Stop
              \/ Update!ProbeAges \/ Update!Publish \/ Update!CacheExpires
           \/ UNCHANGED Update!vars
  BY <1>1, <1>5 DEF Update!Start, Update!StartFails, Update!StartSucceeds, Update!Stop,
     Update!ProbeAges, Update!Publish, Update!CacheExpires, Update!vars
<1>6. CASE Update!RollbackIfUnhealthy \/ Update!RollbackCommand
  BY <1>1, <1>2, <1>6 DEF Update!RollbackIfUnhealthy, Update!RollbackCommand
<1>7. ASSUME NEW c \in Users,
             \/ Update!Check(c) \/ Update!FetchLatest(c) \/ Update!AttachManifest(c)
                \/ Update!ManifestFails(c) \/ Update!SaveCheck(c)
             \/ \E v \in Releases : Update!Download(c, v)
             \/ \E bytes \in Releases \union {Garbage} : Update!FetchPackage(c, bytes)
             \/ Update!VerifyPackage(c) \/ Update!DiscardPackage(c)
             \/ Update!Install(c) \/ Update!HandOver(c) \/ Update!PluginInstalls(c)
                \/ Update!PluginRefuses(c)
      PROVE  UpdateReportedInv'
  BY <1>1, <1>7 DEF Update!Check, Update!FetchLatest, Update!AttachManifest,
     Update!ManifestFails, Update!SaveCheck, Update!Download,
     Update!FetchPackage, Update!VerifyPackage, Update!DiscardPackage, Update!Install,
          Update!HandOver, Update!PluginInstalls,
     Update!PluginRefuses
<1>8. QED
  BY <1>3, <1>4, <1>5, <1>6, <1>7 DEF Update!Next

\* At most one report is made.
LEMMA UpdateReportedOnce ==
  /\ Update!Init => UpdateReportedInv
  /\ UpdateReportedInv => Update!RollbackReportedOnce
  BY DEF Update!Init, UpdateReportedInv, Update!RollbackReportedOnce

-----------------------------------------------------------------------------
(***************************************************************************)
(* The watcher of the service.  A hint may take the place of another in the*)
(* queue, when it is submitted and when a failed scan puts back what it    *)
(* took: that loses nothing because a key is only ever the key of hints    *)
(* about its own skill, which is what the invariant adds; and a job that   *)
(* still has to read every skill has taken the compensation, which a failed*)
(* scan gives back.                                                        *)
(***************************************************************************)
WatchQueueIsKeyed ==
  /\ DOMAIN queue \subseteq Watcher!Keys
  /\ \A k \in DOMAIN queue : queue[k] \in Watcher!Hints /\ queue[k].skill = k.skill

WatchCompensationIsTaken == \A j \in Jobs : jobs[j].step = "compensate" => jobs[j].compensation

\* What a job can still read.
WatchInHand(job, s) == \/ job.step = "compensate"
                       \/ job.step = "confirm" /\ \E h \in job.hints : h.skill = s

WatchKnown(s) == \/ compensation
                 \/ \E k \in DOMAIN queue : queue[k].skill = s
                 \/ \E j \in Jobs : WatchInHand(jobs[j], s)

WatchInv == /\ Watcher!TypeOK /\ WatchQueueIsKeyed /\ WatchCompensationIsTaken
            /\ \A s \in unseen : WatchKnown(s)

-----------------------------------------------------------------------------
(* Lemmas                                                                  *)

\* What the invariant calls known is what the property calls known.
LEMMA WatchKnownIsAccepted == (\A s \in unseen : WatchKnown(s))
     <=> Watcher!AcceptedHintsStayKnown
  BY DEF WatchKnown, WatchInHand, Watcher!AcceptedHintsStayKnown, Watcher!SkillsOf,
     Watcher!Range

\* The queue of a stopped watcher has no key.
LEMMA WatchEmptyQueue == DOMAIN << >> = {}
  OBVIOUS

\* The key of a hint, by its path or by the root around it, is of its skill.
LEMMA WatchKeysAreOfTheirSkill ==
  ASSUME NEW h \in Watcher!Hints, NEW near
  PROVE  Watcher!Key(h, near) \in Watcher!Keys /\ Watcher!Key(h, near).skill = h.skill
  BY DEF Watcher!Key, Watcher!Keys, Watcher!Hints

\* A job takes another step; what the other jobs have in hand is left alone.
LEMMA WatchJobStep ==
  ASSUME Watcher!TypeOK, NEW j \in Jobs, NEW job \in Watcher!Job,
       jobs' = [jobs EXCEPT ![j] = job]
  PROVE  /\ jobs' \in [Jobs -> Watcher!Job] /\ jobs'[j] = job
         /\ \A i \in Jobs : i # j => jobs'[i] = jobs[i]
  BY DEF Watcher!TypeOK

\* A job that waits, and one that is aborted, are jobs.
LEMMA WatchWaitingIsAJob ==
  Watcher!Waiting \in Watcher!Job /\ [Watcher!Waiting EXCEPT !.step = "aborted"] \in Watcher!Job
  BY DEF Watcher!Waiting, Watcher!Job

\* A job that goes on keeps its hints.
LEMMA WatchStepChange ==
  ASSUME NEW job \in Watcher!Job, NEW st \in {"confirm", "publish"}
  PROVE  /\ [job EXCEPT !.step = st] \in Watcher!Job /\ [job EXCEPT !.step = st].step = st
         /\ [job EXCEPT !.step = st].hints = job.hints
  BY DEF Watcher!Job

-----------------------------------------------------------------------------
\* The invariant of the watcher holds at the start.
LEMMA WatchInitInv == Watcher!Init => WatchInv
<1> SUFFICES ASSUME Watcher!Init PROVE WatchInv
  OBVIOUS
<1>1. Watcher!TypeOK /\ WatchQueueIsKeyed
  BY WatchWaitingIsAJob, WatchEmptyQueue DEF Watcher!Init, Watcher!TypeOK, WatchQueueIsKeyed,
     Watcher!Range
<1>2. WatchCompensationIsTaken /\ unseen = {}
  BY DEF Watcher!Init, WatchCompensationIsTaken, Watcher!Waiting
<1>3. QED
  BY <1>1, <1>2 DEF WatchInv

\* Starting, stopping and what is recognized keep it; stopping compensates.
LEMMA WatchSwitchInv ==
  WatchInv => /\ Watcher!WatchStart => WatchInv'
              /\ Watcher!WatchStop => WatchInv'
              /\ Watcher!SubmitCompensation => WatchInv'
              /\ (\E near \in SUBSET Skills : Watcher!SetRecognizedSkillRoots(near))
                   => WatchInv'
<1> SUFFICES ASSUME WatchInv
             PROVE  /\ Watcher!WatchStart => WatchInv'
                    /\ Watcher!WatchStop => WatchInv'
                    /\ Watcher!SubmitCompensation => WatchInv'
                    /\ (\E near \in SUBSET Skills : Watcher!SetRecognizedSkillRoots(near))
                         => WatchInv'
  OBVIOUS
<1> USE DEF WatchInv, Watcher!TypeOK, WatchQueueIsKeyed, WatchCompensationIsTaken, Watcher!Range
<1>1. Watcher!WatchStart => WatchInv'
  BY DEF Watcher!WatchStart, WatchKnown, WatchInHand
<1>2. Watcher!WatchStop => WatchInv'
  BY WatchEmptyQueue DEF Watcher!WatchStop
<1>3. Watcher!SubmitCompensation => WatchInv'
  BY DEF Watcher!SubmitCompensation, WatchKnown
<1>4. (\E near \in SUBSET Skills : Watcher!SetRecognizedSkillRoots(near)) => WatchInv'
  BY DEF Watcher!SetRecognizedSkillRoots, WatchKnown, WatchInHand
<1>5. QED
  BY <1>1, <1>2, <1>3, <1>4

\* A submitted hint may take the place of another, of the same skill.
LEMMA WatchSubmitInv ==
  ASSUME WatchInv, NEW h \in Watcher!Hints, Watcher!SubmitHint(h)
  PROVE  WatchInv'
<1>1. PICK near \in SUBSET Skills : /\ recognized' = near
                                     /\ queue' = Watcher!Put(queue, Watcher!Key(h, near), h)
  BY DEF Watcher!SubmitHint, WatchInv, Watcher!TypeOK, Watcher!Hints, Watcher!SkillRoot
<1>2. PICK key \in Watcher!Keys : key = Watcher!Key(h, near) /\ key.skill = h.skill
  BY WatchKeysAreOfTheirSkill
<1>3. /\ unseen' = unseen \union {h.skill} /\ h.skill \in Skills
      /\ UNCHANGED <<watching, compensation, jobs>>
  BY DEF Watcher!SubmitHint, Watcher!Hints
<1>4. /\ DOMAIN queue' = DOMAIN queue \union {key} /\ queue'[key] = h
      /\ \A k \in DOMAIN queue : k # key => queue'[k] = queue[k]
  BY <1>1, <1>2 DEF Watcher!Put
<1>5. WatchQueueIsKeyed'
  BY <1>2, <1>4 DEF WatchInv, WatchQueueIsKeyed
<1>6. Watcher!TypeOK' /\ WatchCompensationIsTaken'
  BY <1>1, <1>3, <1>5 DEF WatchInv, Watcher!TypeOK, WatchQueueIsKeyed,
     WatchCompensationIsTaken, Watcher!Range
<1>7. ASSUME NEW s \in unseen' PROVE WatchKnown(s)'
  <2>1. CASE s = h.skill
    BY <2>1, <1>4 DEF WatchKnown
  <2>2. CASE s # h.skill
    <3>1. WatchKnown(s)
      BY <1>3, <2>2, <1>7 DEF WatchInv
    <3>2. ASSUME NEW k \in DOMAIN queue, queue[k].skill = s
          PROVE  k \in DOMAIN queue' /\ queue'[k] = queue[k]
      BY <3>2, <1>2, <1>4, <2>2 DEF WatchInv, WatchQueueIsKeyed
    <3>3. QED
      BY <3>1, <3>2, <1>3 DEF WatchKnown, WatchInHand
  <2>3. QED
    BY <2>1, <2>2
<1>8. QED
  BY <1>5, <1>6, <1>7 DEF WatchInv

\* A job takes the whole queue and the compensation into its hands.
LEMMA WatchTakeInv ==
  ASSUME WatchInv, NEW j \in Jobs, Watcher!TakePending(j)
  PROVE  WatchInv'
<1>1. PICK job \in Watcher!Job :
        /\ job = [step |-> IF compensation THEN "compensate" ELSE "confirm",
                  hints |-> Watcher!Range(queue), compensation |-> compensation]
        /\ jobs' = [jobs EXCEPT ![j] = job]
  BY DEF Watcher!TakePending, WatchInv, Watcher!TypeOK, Watcher!Job
<1>2. /\ queue' = << >> /\ compensation' = FALSE /\ jobs[j].step = "waiting"
      /\ UNCHANGED <<watching, recognized, unseen>>
  BY DEF Watcher!TakePending
<1>3. Watcher!TypeOK' /\ WatchQueueIsKeyed'
  BY <1>1, <1>2, WatchJobStep, WatchEmptyQueue DEF WatchInv, Watcher!TypeOK, WatchQueueIsKeyed,
     Watcher!Range
<1>4. WatchCompensationIsTaken'
  BY <1>1, WatchJobStep DEF WatchInv, WatchCompensationIsTaken
<1>5. ASSUME NEW s \in unseen' PROVE WatchKnown(s)'
  <2>1. WatchKnown(s)
    BY <1>2, <1>5 DEF WatchInv
  <2>2. CASE compensation \/ \E k \in DOMAIN queue : queue[k].skill = s
    <3>1. WatchInHand(jobs[j], s)'
      <4>1. jobs'[j] = job
        BY <1>1, WatchJobStep DEF WatchInv
      <4>2. WatchInHand(job, s)
        BY <2>2, <1>1 DEF WatchInHand, Watcher!Range
      <4>3. QED
        BY <4>1, <4>2 DEF WatchInHand
    <3>2. QED
      BY <3>1 DEF WatchKnown
  <2>3. CASE \E i \in Jobs : WatchInHand(jobs[i], s)
    <3>1. PICK i \in Jobs : WatchInHand(jobs[i], s)
      BY <2>3
    <3>2. jobs'[i] = jobs[i]
      BY <3>1, <1>1, <1>2, WatchJobStep DEF WatchInHand, WatchInv
    <3>3. QED
      BY <3>1, <3>2 DEF WatchKnown, WatchInHand
  <2>4. QED
    BY <2>1, <2>2, <2>3 DEF WatchKnown
<1>6. QED
  BY <1>3, <1>4, <1>5 DEF WatchInv

\* A failed scan puts back what its job took.
LEMMA WatchFailInv ==
  ASSUME WatchInv, NEW j \in Jobs, Watcher!ScanFails(j)
  PROVE  WatchInv'
<1> DEFINE keys == {Watcher!Key(h, recognized) : h \in jobs[j].hints}
<1>0. jobs[j].hints \subseteq Watcher!Hints /\ jobs[j] \in Watcher!Job
  BY DEF WatchInv, Watcher!TypeOK, Watcher!Job
<1>1. /\ queue' \in [DOMAIN queue \union keys -> Watcher!Hints]
      /\ \A k \in DOMAIN queue \union keys :
           IF k \in keys THEN queue'[k] \in jobs[j].hints /\ Watcher!Key(queue'[k],
                recognized) = k
           ELSE queue'[k] = queue[k]
  BY DEF Watcher!ScanFails
<1>2. /\ compensation' = (compensation \/ jobs[j].compensation)
      /\ jobs' = [jobs EXCEPT ![j] = Watcher!Waiting]
      /\ UNCHANGED <<watching, recognized, unseen>>
  BY DEF Watcher!ScanFails, Watcher!Restored
<1>3. WatchQueueIsKeyed'
  <2>1. keys \subseteq Watcher!Keys
    BY <1>0, WatchKeysAreOfTheirSkill
  <2>2. \A k \in keys : queue'[k].skill = k.skill
    BY <1>0, <1>1, WatchKeysAreOfTheirSkill
  <2>3. QED
    BY <1>1, <2>1, <2>2 DEF WatchInv, WatchQueueIsKeyed
<1>4. Watcher!TypeOK'
  BY <1>0, <1>2, <1>3, WatchJobStep, WatchWaitingIsAJob DEF WatchInv, Watcher!TypeOK,
     Watcher!Job, WatchQueueIsKeyed, Watcher!Range
<1>5. WatchCompensationIsTaken'
  BY <1>2, WatchJobStep, WatchWaitingIsAJob DEF WatchInv, WatchCompensationIsTaken,
     Watcher!Waiting
<1>6. ASSUME NEW s \in unseen' PROVE WatchKnown(s)'
  <2>1. WatchKnown(s)
    BY <1>2, <1>6 DEF WatchInv
  <2>2. CASE compensation \/ jobs[j].step = "compensate"
    BY <2>2, <1>2 DEF WatchKnown, WatchInv, WatchCompensationIsTaken
  <2>3. CASE \E k \in DOMAIN queue : queue[k].skill = s
    <3>1. PICK k \in DOMAIN queue : queue[k].skill = s
      BY <2>3
    <3>2. k \in DOMAIN queue' /\ queue'[k].skill = k.skill /\ k.skill = s
      BY <3>1, <1>1, <1>3 DEF WatchInv, WatchQueueIsKeyed
    <3>3. QED
      BY <3>2 DEF WatchKnown
  <2>4. CASE \E h \in jobs[j].hints : h.skill = s
    <3>1. PICK h \in jobs[j].hints : h.skill = s
      BY <2>4
    <3>2. PICK k \in keys : k = Watcher!Key(h, recognized) /\ k.skill = s
      BY <3>1, <1>0, WatchKeysAreOfTheirSkill
    <3>3. k \in DOMAIN queue' /\ queue'[k].skill = s
      BY <3>2, <1>1, <1>3 DEF WatchQueueIsKeyed
    <3>4. QED
      BY <3>3 DEF WatchKnown
  <2>5. CASE \E i \in Jobs : i # j /\ WatchInHand(jobs[i], s)
    <3>1. PICK i \in Jobs : i # j /\ WatchInHand(jobs[i], s)
      BY <2>5
    <3>2. jobs'[i] = jobs[i]
      BY <3>1, <1>2, WatchJobStep, WatchWaitingIsAJob DEF WatchInv
    <3>3. QED
      BY <3>1, <3>2 DEF WatchKnown, WatchInHand
  <2>6. QED
    BY <2>1, <2>2, <2>3, <2>4, <2>5 DEF WatchKnown, WatchInHand
<1>7. QED
  BY <1>3, <1>4, <1>5, <1>6 DEF WatchInv

\* A job that changes its step and leaves the queue: what it had in hand is seen, or is in
\* its hand still.
LEMMA WatchAdvanceInv ==
  ASSUME WatchInv, NEW j \in Jobs, NEW job \in Watcher!Job, jobs' = [jobs EXCEPT ![j] = job],
         job.step # "compensate",
         unseen' \subseteq unseen, UNCHANGED <<watching, queue, compensation, recognized>>,
         \A s \in unseen' : ~WatchInHand(jobs[j], s) \/ WatchInHand(job, s)
  PROVE  WatchInv'
<1>1. Watcher!TypeOK' /\ WatchQueueIsKeyed'
  BY WatchJobStep DEF WatchInv, Watcher!TypeOK, WatchQueueIsKeyed, Watcher!Range
<1>2. WatchCompensationIsTaken'
  BY WatchJobStep DEF WatchInv, WatchCompensationIsTaken
<1>3. ASSUME NEW s \in unseen' PROVE WatchKnown(s)'
  <2>1. WatchKnown(s)
    BY <1>3 DEF WatchInv
  <2>2. CASE \E i \in Jobs : WatchInHand(jobs[i], s)
    <3>1. PICK i \in Jobs : WatchInHand(jobs[i], s)
      BY <2>2
    <3>2. WatchInHand(jobs[i], s)'
      <4>1. CASE i = j
        <5>1. jobs'[i] = job
          BY <4>1, WatchJobStep DEF WatchInv
        <5>2. WatchInHand(job, s)
          BY <3>1, <4>1, <1>3
        <5>3. QED
          BY <5>1, <5>2 DEF WatchInHand
      <4>2. CASE i # j
        <5>1. jobs'[i] = jobs[i]
          BY <4>2, WatchJobStep DEF WatchInv
        <5>2. QED
          BY <5>1, <3>1 DEF WatchInHand
      <4>3. QED
        BY <4>1, <4>2
    <3>3. QED
      BY <3>2 DEF WatchKnown
  <2>3. QED
    BY <2>1, <2>2 DEF WatchKnown
<1>4. QED
  BY <1>1, <1>2, <1>3 DEF WatchInv

\* The steps of a job keep the invariant.
LEMMA WatchJobInv ==
  ASSUME WatchInv, NEW j \in Jobs,
         Watcher!CompensationScan(j) \/ Watcher!ConfirmScan(j) \/ Watcher!Publish(j)
         \/ Watcher!Abort(j)
  PROVE  WatchInv'
<1>0. PICK old \in Watcher!Job : old = jobs[j]
  BY DEF WatchInv, Watcher!TypeOK
<1>1. CASE Watcher!CompensationScan(j)
  <2>1. PICK job \in Watcher!Job : jobs' = [jobs EXCEPT ![j] = job] /\ job.step # "compensate"
    <3>1. PICK st \in {"confirm",
         "publish"} : jobs' = [jobs EXCEPT ![j] = [old EXCEPT !.step = st]]
      BY <1>0, <1>1 DEF Watcher!CompensationScan
    <3>2. [old EXCEPT !.step = st] \in Watcher!Job
         /\ [old EXCEPT !.step = st].step # "compensate"
      BY WatchStepChange
    <3>3. QED
      BY <3>1, <3>2
  <2>2. unseen' = {} /\ UNCHANGED <<watching, queue, compensation, recognized>>
    BY <1>1 DEF Watcher!CompensationScan
  <2>3. QED
    BY <2>1, <2>2, WatchAdvanceInv
<1>2. CASE Watcher!ConfirmScan(j)
  <2>1. PICK job \in Watcher!Job : jobs' = [jobs EXCEPT ![j] = job] /\ job.step # "compensate"
    <3>1. jobs' = [jobs EXCEPT ![j] = [old EXCEPT !.step = "publish"]]
      BY <1>0, <1>2 DEF Watcher!ConfirmScan
    <3>2. /\ [old EXCEPT !.step = "publish"] \in Watcher!Job
          /\ [old EXCEPT !.step = "publish"].step # "compensate"
      BY WatchStepChange
    <3>3. QED
      BY <3>1, <3>2
  <2>2. /\ unseen' = unseen \ Watcher!SkillsOf(jobs[j].hints)
        /\ UNCHANGED <<watching, queue, compensation, recognized>>
    BY <1>2 DEF Watcher!ConfirmScan
  <2>3. \A s \in unseen' : ~WatchInHand(jobs[j], s)
    BY <1>2, <2>2 DEF Watcher!ConfirmScan, WatchInHand, Watcher!SkillsOf
  <2>4. QED
    BY <2>1, <2>2, <2>3, WatchAdvanceInv
<1>3. CASE Watcher!Publish(j)
  <2>1. \A s \in unseen' : ~WatchInHand(jobs[j], s)
    BY <1>3 DEF Watcher!Publish, WatchInHand
  <2>2. jobs' = [jobs EXCEPT ![j] = Watcher!Waiting] /\ Watcher!Waiting.step # "compensate"
    BY <1>3 DEF Watcher!Publish, Watcher!Waiting
  <2>3. QED
    BY <1>3, <2>1, <2>2, WatchWaitingIsAJob, WatchAdvanceInv DEF Watcher!Publish
<1>4. CASE Watcher!Abort(j)
  <2>1. \A s \in unseen' : ~WatchInHand(jobs[j], s)
    BY <1>4 DEF Watcher!Abort, WatchInHand, Watcher!SkillsOf, WatchInv, Watcher!TypeOK
  <2>2. PICK job \in Watcher!Job : jobs' = [jobs EXCEPT ![j] = job] /\ job.step # "compensate"
    BY <1>4, WatchWaitingIsAJob DEF Watcher!Abort, Watcher!Waiting
  <2>3. unseen' \subseteq unseen /\ UNCHANGED <<watching, queue, compensation, recognized>>
    BY <1>4 DEF Watcher!Abort
  <2>4. QED
    BY <2>1, <2>2, <2>3, WatchAdvanceInv
<1>5. QED
  BY <1>1, <1>2, <1>3, <1>4

\* Every step of the watcher keeps its invariant.
LEMMA WatchStepInv == WatchInv /\ [Watcher!Next]_watch => WatchInv'
<1> SUFFICES ASSUME WatchInv, [Watcher!Next]_watch PROVE WatchInv'
  OBVIOUS
<1>1. CASE UNCHANGED watch
  BY <1>1 DEF watch, WatchInv, Watcher!TypeOK, WatchQueueIsKeyed, WatchCompensationIsTaken,
     WatchKnown, WatchInHand, Watcher!Range
<1>2. CASE Watcher!Next
  BY <1>2, WatchSwitchInv, WatchSubmitInv, WatchTakeInv, WatchFailInv, WatchJobInv
     DEF Watcher!Next
<1>3. QED
  BY <1>1, <1>2

-----------------------------------------------------------------------------
(***************************************************************************)
(* The watcher of the adapters.  As in the service, a hint that takes the  *)
(* place of another is about the same skill.                               *)
(***************************************************************************)
CoalescedKeyed == \A k \in DOMAIN pushed : pushed[k] \in Coalesced!Hints /\ pushed[k].skill = k.skill

\* A change is known: everything is about to be read, or a hint about its skill waits.
CoalescedKnown(s) == overflow \/ \E k \in DOMAIN pushed : pushed[k].skill = s

CoalescedInv ==
  /\ Coalesced!TypeOK /\ CoalescedKeyed
  /\ \A s \in unread : CoalescedKnown(s)

\* What the invariant calls known is what the property says is handed out.
LEMMA CoalescedKnownIsHandedOut ==
  (\A s \in unread : CoalescedKnown(s)) <=> Coalesced!PushedHintsAreHandedOut
  BY DEF CoalescedKnown, Coalesced!PushedHintsAreHandedOut, Coalesced!SkillsOf, Coalesced!Range

\* When nothing is pushed there is no key.
LEMMA CoalescedNothing == DOMAIN Coalesced!Nothing = {}
  BY DEF Coalesced!Nothing

\* The key of a pushed hint is of the skill of the hint.
LEMMA CoalescedKeysAreOfTheirSkill ==
  ASSUME NEW h \in Coalesced!Hints, NEW near
  PROVE  Coalesced!Key(h, near) \in Coalesced!Keys /\ Coalesced!Key(h, near).skill = h.skill
  BY DEF Coalesced!Key, Coalesced!Keys, Coalesced!Hints

\* A pushed hint is known, and what was known stays known, beyond the limit too.
LEMMA CoalescedPush ==
  ASSUME CoalescedInv, NEW h \in Coalesced!Hints, Coalesced!Push(h)
  PROVE  CoalescedInv'
<1>1. PICK near \in SUBSET Twins, key \in Coalesced!Keys :
        /\ skill_roots' = near /\ key = Coalesced!Key(h, near) /\ key.skill = h.skill
        /\ pushed' = Coalesced!Put(pushed, key, h) /\ quiet' = quiet \ {key}
  <2>1. skill_roots' \in SUBSET Twins
    BY DEF Coalesced!Push, CoalescedInv, Coalesced!TypeOK, Coalesced!Hints, Coalesced!SkillRoot
  <2>2. QED
    BY <2>1, CoalescedKeysAreOfTheirSkill DEF Coalesced!Push
<1>2. /\ unread' = unread \union {h.skill} /\ h.skill \in Twins
      /\ UNCHANGED <<running, overflow>>
  BY DEF Coalesced!Push, Coalesced!Hints
<1>3. /\ DOMAIN pushed' = DOMAIN pushed \union {key} /\ pushed'[key] = h
      /\ \A k \in DOMAIN pushed : k # key => pushed'[k] = pushed[k]
  BY <1>1 DEF Coalesced!Put
<1>4. CoalescedKeyed'
  BY <1>1, <1>3 DEF CoalescedInv, CoalescedKeyed
<1>5. Coalesced!TypeOK'
  BY <1>1, <1>2, <1>3, <1>4
     DEF CoalescedInv, CoalescedKeyed, Coalesced!TypeOK, Coalesced!Range
<1>6. ASSUME NEW s \in unread' PROVE CoalescedKnown(s)'
  <2>1. CASE s = h.skill
    BY <2>1, <1>3 DEF CoalescedKnown
  <2>2. CASE s # h.skill
    <3>1. CoalescedKnown(s)
      BY <1>2, <1>6, <2>2 DEF CoalescedInv
    <3>2. ASSUME NEW k \in DOMAIN pushed, pushed[k].skill = s
          PROVE  k \in DOMAIN pushed' /\ pushed'[k] = pushed[k]
      BY <3>2, <1>1, <1>3, <2>2 DEF CoalescedInv, CoalescedKeyed
    <3>3. QED
      BY <3>1, <3>2, <1>2 DEF CoalescedKnown
  <2>3. QED
    BY <2>1, <2>2
<1>7. QED
  BY <1>4, <1>5, <1>6 DEF CoalescedInv

\* What is left waits as before; what is handed out is read.
LEMMA CoalescedHandOut ==
  ASSUME CoalescedInv, NEW keys \in SUBSET DOMAIN pushed, Coalesced!HandOut(keys)
  PROVE  CoalescedInv'
<1>1. /\ pushed' = [k \in DOMAIN pushed \ keys |-> pushed[k]]
      /\ quiet' = quiet \ keys /\ UNCHANGED <<running, skill_roots, overflow>>
      /\ unread' = unread \ {pushed[k].skill : k \in keys}
  BY DEF Coalesced!HandOut, Coalesced!Restrict, Coalesced!SkillsOf
<1>2. Coalesced!TypeOK' /\ CoalescedKeyed'
  BY <1>1 DEF CoalescedInv, CoalescedKeyed, Coalesced!TypeOK, Coalesced!Range
<1>3. ASSUME NEW s \in unread' PROVE CoalescedKnown(s)'
  BY <1>1, <1>3 DEF CoalescedInv, CoalescedKnown
<1>4. QED
  BY <1>2, <1>3 DEF CoalescedInv

\* The invariant of the coalescer holds at the start.
LEMMA CoalescedInitInv == Coalesced!Init => CoalescedInv
<1> SUFFICES ASSUME Coalesced!Init PROVE CoalescedInv
  OBVIOUS
<1>1. Coalesced!TypeOK /\ CoalescedKeyed
  BY CoalescedNothing DEF Coalesced!Init, Coalesced!TypeOK, CoalescedKeyed, Coalesced!Range
<1>2. unread = {}
  BY DEF Coalesced!Init
<1>3. QED
  BY <1>1, <1>2 DEF CoalescedInv

\* Every step of the coalescer keeps its invariant.
LEMMA CoalescedStepInv == CoalescedInv /\ [Coalesced!Next]_adapter => CoalescedInv'
<1> SUFFICES ASSUME CoalescedInv, [Coalesced!Next]_adapter PROVE CoalescedInv'
  OBVIOUS
<1> USE DEF CoalescedKeyed, CoalescedKnown, Coalesced!TypeOK, Coalesced!Range
<1>1. CASE UNCHANGED adapter
  BY <1>1 DEF adapter, CoalescedInv
<1>2. CASE Coalesced!WatcherStart
  BY <1>2 DEF Coalesced!WatcherStart, CoalescedInv
<1>3. CASE Coalesced!WatcherStop
  BY <1>3, CoalescedNothing DEF Coalesced!WatcherStop, CoalescedInv
<1>4. CASE Coalesced!RequestCompensationScan
  BY <1>4 DEF Coalesced!RequestCompensationScan, CoalescedInv
<1>5. CASE Coalesced!Flush \/ Coalesced!FlushReady
  BY <1>5, CoalescedHandOut DEF Coalesced!Flush, Coalesced!FlushReady, CoalescedInv
<1>6. CASE Coalesced!TakeCompensationScan
  BY <1>6 DEF Coalesced!TakeCompensationScan, CoalescedInv
<1>7. ASSUME NEW near \in SUBSET Twins, Coalesced!SetRecognizedSkillRoots(near)
      PROVE  CoalescedInv'
  BY <1>7 DEF Coalesced!SetRecognizedSkillRoots, CoalescedInv
<1>8. ASSUME NEW h \in Coalesced!Hints, Coalesced!Push(h) PROVE CoalescedInv'
  BY <1>8, CoalescedPush
<1>9. ASSUME NEW key \in Coalesced!Keys, Coalesced!Quiets(key) PROVE CoalescedInv'
  BY <1>9 DEF Coalesced!Quiets, CoalescedInv
<1>10. QED
  BY <1>1, <1>2, <1>3, <1>4, <1>5, <1>6, <1>7, <1>8, <1>9 DEF Coalesced!Next

-----------------------------------------------------------------------------
(***************************************************************************)
(* Opening the database.                                                   *)
(***************************************************************************)
\* Of the same data, though perhaps of another schema.
SameData(c, d) == c.whole = d.whole /\ c.data = d.data

\* Where the file and its journal are, by phase.
OpeningPhases ==
  /\ file = None => journal = None /\ copies = << >> /\ saved = 0
                    /\ opening_phase \in {"down", "connecting"}
  /\ opening_phase = "copying" => Len(copies) < MaxCopies
  /\ opening_phase \in {"copied", "restoring", "restored"} => copies # << >>
  /\ opening_phase \in {"migrating", "failed", "restoring", "restored", "open"} => journal = None
  /\ opening_phase = "committing" => journal # None /\ journal.schema < build
  /\ opening_phase = "writing" => journal # None /\ journal.whole /\ saved < MaxWrites

\* Of a start that took its copy of a file without a journal: the copy that is not done
\* holds nothing yet; then it has the data of the file, which is all a failed start needs
\* and a successful one can do without.
CopyIsOfTheFile ==
  ~exposed /\ copies # << >> =>
    /\ opening_phase = "copied" => journal = None /\ ~copies[Len(copies)].whole
    /\ opening_phase \in {"connecting", "migrating", "committing", "failed"} =>
         SameData(copies[Len(copies)], Opener!Readable)
    /\ opening_phase = "restoring" => \E i \in DOMAIN copies : Opener!Holds(copies[i])
    /\ opening_phase = "restored" => file = copies[Len(copies)]

OpenerInv ==
  /\ Opener!TypeOK /\ OpeningPhases /\ CopyIsOfTheFile /\ Opener!AnsweredDataIsOnDisk

\* The fields of what a database file holds.
LEMMA ContentFields ==
  ASSUME NEW c \in Opener!Contents
  PROVE  /\ c.schema \in 0 .. Latest /\ c.data \in 0 .. MaxWrites /\ c.whole \in BOOLEAN
         /\ c # None
         /\ Opener!Torn(c) \in Opener!Contents /\ ~Opener!Torn(c).whole
  BY SchemasAreNatural DEF Opener!Contents, Opener!Torn

\* A new database is a content.
LEMMA EmptyIsAContent ==
  Opener!Empty \in Opener!Contents /\ Opener!Empty.whole /\ Opener!Empty.data = 0
  BY SchemasAreNatural DEF Opener!Empty, Opener!Contents

\* What the sequence operators do to the copies.
LEMMA CopyFacts ==
  ASSUME copies \in Seq(Opener!Contents), copies # << >>
  PROVE  /\ Len(copies) \in Nat \ {0} /\ DOMAIN copies = 1 .. Len(copies)
         /\ Opener!Last(copies) = copies[Len(copies)]
         /\ copies[Len(copies)] \in Opener!Contents
         /\ Opener!Front(copies) \in Seq(Opener!Contents)
         /\ Len(Opener!Front(copies)) = Len(copies) - 1
         /\ \A i \in 1 .. (Len(copies) - 1) : Opener!Front(copies)[i] = copies[i]
<1>1. Len(copies) \in Nat \ {0} /\ DOMAIN copies = 1 .. Len(copies)
      /\ \A i \in 1 .. Len(copies) : copies[i] \in Opener!Contents
  OBVIOUS
<1>2. /\ Opener!Last(copies) = copies[Len(copies)]
      /\ Opener!Front(copies) = SubSeq(copies, 1, Len(copies) - 1)
  BY DEF Opener!Last, Opener!Front
<1>3. /\ SubSeq(copies, 1, Len(copies) - 1) \in Seq(Opener!Contents)
      /\ Len(SubSeq(copies, 1, Len(copies) - 1)) = Len(copies) - 1
      /\ \A i \in 1 .. (Len(copies) - 1) : SubSeq(copies, 1, Len(copies) - 1)[i] = copies[i]
  <2>1. /\ 1 \in Int /\ Len(copies) - 1 \in Int
        /\ \A i \in 1 .. (Len(copies) - 1) : copies[i] \in Opener!Contents
    BY <1>1
  <2>2. /\ SubSeq(copies, 1, Len(copies) - 1) \in Seq(Opener!Contents)
        /\ Len(SubSeq(copies, 1, Len(copies) - 1)) =
             IF 1 <= Len(copies) - 1 THEN (Len(copies) - 1) - 1 + 1 ELSE 0
        /\ \A i \in 1 .. ((Len(copies) - 1) - 1 + 1) :
             SubSeq(copies, 1, Len(copies) - 1)[i] = copies[1 + i - 1]
    BY <2>1, SubSeqProperties
  <2>3. QED
    BY <1>1, <2>2
<1>4. QED
  BY <1>1, <1>2, <1>3

\* A copy that is put beside the others is the last of them.
LEMMA BesideFacts ==
  ASSUME copies \in Seq(Opener!Contents), NEW c \in Opener!Contents
  PROVE  /\ Opener!Beside(copies, c) \in Seq(Opener!Contents)
         /\ Len(Opener!Beside(copies, c)) = Len(copies) + 1
         /\ DOMAIN Opener!Beside(copies, c) = 1 .. (Len(copies) + 1)
         /\ \A i \in DOMAIN copies : Opener!Beside(copies, c)[i] = copies[i]
         /\ Opener!Beside(copies, c)[Len(copies) + 1] = c
  BY DEF Opener!Beside

\* The invariant of the opening holds at the start.
LEMMA OpenerInitInv == Opener!Init => OpenerInv
<1> SUFFICES ASSUME Opener!Init PROVE OpenerInv
  OBVIOUS
<1>1. copies \in Seq(Opener!Contents) /\ Len(copies) <= MaxCopies
  BY SchemasAreNatural DEF Opener!Init
<1>2. Latest \in 1 .. Latest /\ 0 \in 0 .. MaxWrites
  BY SchemasAreNatural
<1>3. Opener!TypeOK
  BY <1>1, <1>2 DEF Opener!Init, Opener!TypeOK, Opener!Phases
<1>4. OpeningPhases /\ CopyIsOfTheFile /\ Opener!AnsweredDataIsOnDisk
  BY DEF Opener!Init, OpeningPhases, CopyIsOfTheFile, Opener!AnsweredDataIsOnDisk
<1>5. QED
  BY <1>3, <1>4 DEF OpenerInv

\* A step that leaves the files alone, or only their phase.
LEMMA PhaseInv ==
  ASSUME OpenerInv, UNCHANGED <<file, journal, copies, saved, exposed>>,
         build' \in 1 .. Latest, opening_phase' \in Opener!Phases,
         OpeningPhases', CopyIsOfTheFile'
  PROVE  OpenerInv'
  BY DEF OpenerInv, Opener!TypeOK, Opener!AnsweredDataIsOnDisk, Opener!Holds, Opener!Readable

\* A step that leaves the file and the copies alone keeps it.
LEMMA StandsStillInv ==
  ASSUME OpenerInv,
         \/ UNCHANGED opening
         \/ \E b \in 1 .. Latest : Opener!Start(b)
         \/ Opener!CopyFails \/ Opener!NothingToRestore \/ Opener!RestoreFails \/ Opener!Crash
         \/ Opener!Discarded(FALSE) \/ Opener!Opened(FALSE)
  PROVE  OpenerInv'
<1>1. UNCHANGED <<file, journal, copies, saved, exposed>> /\ build' \in 1 .. Latest
  BY DEF opening, Opener!Start, Opener!CopyFails, Opener!NothingToRestore, Opener!RestoreFails,
         Opener!Crash, Opener!Discarded, Opener!Opened, OpenerInv, Opener!TypeOK
<1>2. CASE UNCHANGED opening
  BY <1>1, <1>2, PhaseInv DEF opening, OpenerInv, Opener!TypeOK, OpeningPhases, CopyIsOfTheFile,
     SameData, Opener!Readable, Opener!Holds
<1>3. CASE opening_phase' \in {"copying", "connecting"} /\ opening_phase = "down"
           /\ Len(copies) < MaxCopies /\ (opening_phase' = "connecting" <=> file = None)
  BY <1>1, <1>3, PhaseInv
     DEF OpenerInv, Opener!TypeOK, OpeningPhases, CopyIsOfTheFile, Opener!Phases
<1>4. CASE opening_phase' = "down"
  BY <1>1, <1>4, PhaseInv
     DEF OpenerInv, Opener!TypeOK, OpeningPhases, CopyIsOfTheFile, Opener!Phases
<1>5. QED
  BY <1>2, <1>3, <1>4 DEF Opener!Start, Opener!CopyFails, Opener!NothingToRestore,
     Opener!RestoreFails, Opener!Crash, Opener!Discarded, Opener!Opened

\* The copy: torn at first, and then of a file that has no journal, unless that is exposed.
LEMMA BeginCopyInv ==
  ASSUME OpenerInv, Opener!BeginCopy
  PROVE  OpenerInv'
<1>1. /\ opening_phase = "copying" /\ opening_phase' = "copied"
      /\ copies' = Opener!Beside(copies, Opener!Torn(file))
      /\ exposed' = (exposed \/ journal # None)
      /\ UNCHANGED <<file, journal, build, saved>>
  BY DEF Opener!BeginCopy
<1>2. file \in Opener!Contents /\ copies \in Seq(Opener!Contents) /\ Len(copies) < MaxCopies
  BY <1>1 DEF OpenerInv, Opener!TypeOK, OpeningPhases
<1>3. Opener!Torn(file) \in Opener!Contents /\ ~Opener!Torn(file).whole
  BY <1>2, ContentFields
<1>4. /\ copies' \in Seq(Opener!Contents) /\ Len(copies') = Len(copies) + 1
      /\ DOMAIN copies' = 1 .. (Len(copies) + 1)
      /\ \A i \in DOMAIN copies : copies'[i] = copies[i] /\ i \in DOMAIN copies'
      /\ copies'[Len(copies')] = Opener!Torn(file) /\ copies' # << >>
  BY <1>1, <1>2, <1>3, BesideFacts
<1>5. Opener!TypeOK'
  BY <1>1, <1>2, <1>4, SchemasAreNatural DEF OpenerInv, Opener!TypeOK, Opener!Phases
<1>6. OpeningPhases'
  BY <1>1, <1>4, <1>2, SchemasAreNatural DEF OpenerInv, OpeningPhases
<1>7. CopyIsOfTheFile'
  BY <1>1, <1>3, <1>4 DEF CopyIsOfTheFile
<1>8. Opener!AnsweredDataIsOnDisk'
  BY <1>1, <1>4 DEF OpenerInv, Opener!AnsweredDataIsOnDisk, Opener!Holds, Opener!Readable
<1>9. QED
  BY <1>5, <1>6, <1>7, <1>8 DEF OpenerInv

\* A copy that is completed holds the data of the file.
LEMMA EndCopyInv ==
  ASSUME OpenerInv, Opener!EndCopy
  PROVE  OpenerInv'
<1>1. /\ opening_phase = "copied" /\ opening_phase' = "connecting"
      /\ copies' = [copies EXCEPT ![Len(copies)] = file]
      /\ UNCHANGED <<file, journal, build, saved, exposed>>
  BY DEF Opener!EndCopy
<1>2. file \in Opener!Contents /\ file # None /\ copies \in Seq(Opener!Contents) /\ copies # << >>
  BY <1>1, ContentFields DEF OpenerInv, Opener!TypeOK, OpeningPhases
<1>3. /\ copies' \in Seq(Opener!Contents) /\ Len(copies') = Len(copies) /\ copies' # << >>
      /\ DOMAIN copies' = DOMAIN copies /\ Len(copies) \in DOMAIN copies
      /\ copies'[Len(copies')] = file
      /\ \A i \in DOMAIN copies : i # Len(copies) => copies'[i] = copies[i]
  BY <1>1, <1>2
<1>4. Opener!TypeOK'
  BY <1>1, <1>3 DEF OpenerInv, Opener!TypeOK, Opener!Phases
<1>5. OpeningPhases'
  BY <1>1, <1>2, <1>3 DEF OpenerInv, OpeningPhases
<1>6. CopyIsOfTheFile'
  BY <1>1, <1>2, <1>3 DEF OpenerInv, CopyIsOfTheFile, SameData, Opener!Readable
<1>7. Opener!AnsweredDataIsOnDisk'
  BY <1>1, <1>2, <1>3 DEF OpenerInv, CopyIsOfTheFile, Opener!AnsweredDataIsOnDisk, Opener!Holds,
     Opener!Readable
<1>8. QED
  BY <1>4, <1>5, <1>6, <1>7 DEF OpenerInv

\* Connecting makes an empty file, or finds the one that is there.
LEMMA ConnectInv ==
  ASSUME OpenerInv, Opener!Connect
  PROVE  OpenerInv'
<1>1. /\ opening_phase = "connecting" /\ opening_phase' \in {"migrating", "failed"}
      /\ journal' = None /\ UNCHANGED <<copies, build, saved, exposed>>
      /\ file' = IF file = None THEN Opener!Empty ELSE Opener!Readable
  BY DEF Opener!Connect, Opener!Readable
<1>2. file' \in Opener!Contents /\ file' # None
  BY <1>1, EmptyIsAContent, ContentFields DEF OpenerInv, Opener!TypeOK, Opener!Readable
<1>3. Opener!TypeOK' /\ OpeningPhases'
  BY <1>1, <1>2 DEF OpenerInv, Opener!TypeOK, OpeningPhases, Opener!Phases
<1>4. CopyIsOfTheFile'
  BY <1>1, <1>2 DEF OpenerInv, OpeningPhases, CopyIsOfTheFile, SameData, Opener!Readable
<1>5. Opener!AnsweredDataIsOnDisk'
  BY <1>1, <1>2, EmptyIsAContent
     DEF OpenerInv, OpeningPhases, Opener!AnsweredDataIsOnDisk, Opener!Holds, Opener!Readable
<1>6. QED
  BY <1>3, <1>4, <1>5 DEF OpenerInv

\* A transaction of the program: the data stay as they are, whichever way it ends.
LEMMA MigrationInv ==
  ASSUME OpenerInv, Opener!BeginMigration \/ Opener!EndMigration \/ Opener!MigrationFails
  PROVE  OpenerInv'
<1>1. UNCHANGED <<copies, build, saved, exposed>>
      /\ opening_phase' \in {"committing", "migrating", "failed"}
      /\ opening_phase \in {"committing", "migrating"}
  BY DEF Opener!BeginMigration, Opener!EndMigration, Opener!MigrationFails
<1>2. file \in Opener!Contents /\ file # None /\ file.schema \in 0 .. Latest /\ build \in 1 .. Latest
  BY <1>1, ContentFields DEF OpenerInv, Opener!TypeOK, OpeningPhases
<1>3. opening_phase = "committing" => journal \in Opener!Contents /\ journal.schema < build
  BY DEF OpenerInv, Opener!TypeOK, OpeningPhases
<1>4. ASSUME opening_phase = "committing"
      PROVE  LET new == [journal EXCEPT !.schema = @ + 1] IN
             new \in Opener!Contents /\ new.whole = journal.whole /\ new.data = journal.data
  BY <1>2, <1>3, <1>4, SchemasAreNatural DEF Opener!Contents
<1>5. /\ file' \in Opener!Contents /\ file' # None /\ journal' \in Opener!Contents \union {None}
      /\ opening_phase' = "committing" => journal' # None /\ journal'.schema < build
      /\ opening_phase' # "committing" => journal' = None
      /\ SameData(Opener!Readable', Opener!Readable)
  <2>1. CASE Opener!BeginMigration
    <3>1. journal = None
      BY <2>1 DEF Opener!BeginMigration, OpenerInv, OpeningPhases
    <3>2. QED
      BY <2>1, <3>1, <1>2, ContentFields DEF Opener!BeginMigration, SameData, Opener!Readable
  <2>2. CASE Opener!EndMigration
    BY <2>2, <1>3, <1>4, ContentFields DEF Opener!EndMigration, SameData, Opener!Readable
  <2>3. CASE Opener!MigrationFails
    BY <2>3, <1>3, ContentFields DEF Opener!MigrationFails, SameData, Opener!Readable
  <2>4. QED
    BY <2>1, <2>2, <2>3
<1>6. Opener!TypeOK' /\ OpeningPhases'
  BY <1>1, <1>2, <1>5 DEF OpenerInv, Opener!TypeOK, OpeningPhases, Opener!Phases
<1>7. CopyIsOfTheFile'
  BY <1>1, <1>5 DEF OpenerInv, CopyIsOfTheFile, SameData
<1>8. Opener!AnsweredDataIsOnDisk'
  BY <1>1, <1>2, <1>5 DEF OpenerInv, Opener!AnsweredDataIsOnDisk, Opener!Holds, SameData
<1>9. QED
  BY <1>6, <1>7, <1>8 DEF OpenerInv

\* The copy can go: the file has its data.
LEMMA CopyGoesInv ==
  ASSUME OpenerInv, Opener!Opened(TRUE) \/ Opener!Discarded(TRUE)
  PROVE  OpenerInv'
<1>1. /\ \/ opening_phase = "migrating" /\ opening_phase' = "open"
         \/ opening_phase = "restored" /\ opening_phase' = "down"
      /\ copies' = IF copies # << >> THEN Opener!Front(copies) ELSE copies
      /\ UNCHANGED <<file, journal, build, saved, exposed>> /\ file # None /\ journal = None
  BY DEF Opener!Opened, Opener!Discarded, Opener!HasCopy, OpenerInv, OpeningPhases
<1>2. copies \in Seq(Opener!Contents) /\ Len(copies) <= MaxCopies
  BY DEF OpenerInv, Opener!TypeOK
<1>3. /\ copies' \in Seq(Opener!Contents) /\ Len(copies') <= MaxCopies
      /\ \A i \in DOMAIN copies :
           i # Len(copies) => i \in DOMAIN copies' /\ copies'[i] = copies[i]
  BY <1>1, <1>2, CopyFacts, SchemasAreNatural
<1>4. Opener!TypeOK' /\ OpeningPhases' /\ CopyIsOfTheFile'
  BY <1>1, <1>3 DEF OpenerInv, Opener!TypeOK, OpeningPhases, CopyIsOfTheFile, Opener!Phases
<1>5. Opener!AnsweredDataIsOnDisk'
  BY <1>1, <1>3 DEF OpenerInv, CopyIsOfTheFile, Opener!AnsweredDataIsOnDisk, Opener!Holds,
     Opener!Readable, SameData
<1>6. QED
  BY <1>4, <1>5 DEF OpenerInv

\* A restored file holds the data that was answered.
LEMMA RestoreFileInv ==
  ASSUME OpenerInv, Opener!BeginRestore \/ Opener!EndRestore
  PROVE  OpenerInv'
<1>1. /\ UNCHANGED <<journal, copies, build, saved, exposed>> /\ journal = None
      /\ file \in Opener!Contents /\ copies # << >>
      /\ copies \in Seq(Opener!Contents)
  BY DEF Opener!BeginRestore, Opener!EndRestore, Opener!HasCopy, OpenerInv, OpeningPhases,
     Opener!TypeOK
<1>2. /\ Len(copies) \in DOMAIN copies /\ copies[Len(copies)] \in Opener!Contents
      /\ Opener!Last(copies) = copies[Len(copies)]
  BY <1>1, CopyFacts
<1>3. CASE Opener!BeginRestore
  <2>1. /\ opening_phase = "failed" /\ opening_phase' = "restoring"
        /\ file' = Opener!Torn(file) /\ file' \in Opener!Contents /\ file' # None
    BY <1>1, <1>3, ContentFields DEF Opener!BeginRestore
  <2>2. Opener!TypeOK' /\ OpeningPhases'
    BY <1>1, <2>1 DEF OpenerInv, Opener!TypeOK, OpeningPhases, Opener!Phases
  <2>3. ~exposed => \E i \in DOMAIN copies : Opener!Holds(copies[i])
    BY <1>1, <1>2, <2>1 DEF OpenerInv, OpeningPhases, CopyIsOfTheFile, SameData,
       Opener!AnsweredDataIsOnDisk, Opener!Holds
  <2>4. QED
    BY <1>1, <2>1, <2>2, <2>3
       DEF OpenerInv, CopyIsOfTheFile, Opener!AnsweredDataIsOnDisk, Opener!Holds
<1>4. CASE Opener!EndRestore
  <2>1. /\ opening_phase = "restoring" /\ opening_phase' = "restored"
        /\ file' = copies[Len(copies)] /\ file' # None
    BY <1>2, <1>4, ContentFields DEF Opener!EndRestore
  <2>2. Opener!TypeOK' /\ OpeningPhases'
    BY <1>1, <1>2, <2>1 DEF OpenerInv, Opener!TypeOK, OpeningPhases, Opener!Phases
  <2>3. ~exposed => \E i \in DOMAIN copies : Opener!Holds(copies[i])
    BY <1>1, <2>1 DEF OpenerInv, CopyIsOfTheFile
  <2>4. QED
    BY <1>1, <2>1, <2>2, <2>3
       DEF OpenerInv, CopyIsOfTheFile, Opener!AnsweredDataIsOnDisk, Opener!Holds
<1>5. QED
  BY <1>3, <1>4

\* What is answered after a writing is in the file.
LEMMA WriteInv ==
  ASSUME OpenerInv, Opener!BeginWrite \/ Opener!EndWrite
  PROVE  OpenerInv'
<1>1. UNCHANGED <<copies, build, exposed>>
  BY DEF Opener!BeginWrite, Opener!EndWrite
<1>2. CASE Opener!BeginWrite
  <2>1. /\ journal = None /\ file \in Opener!Contents /\ file.whole /\ saved < MaxWrites
        /\ journal' = file /\ file' = Opener!Torn(file) /\ saved' = saved
        /\ opening_phase' = "writing" /\ file' \in Opener!Contents /\ file' # None /\ file # None
    BY <1>2, ContentFields DEF Opener!BeginWrite, OpenerInv, OpeningPhases, Opener!TypeOK
  <2>2. Opener!TypeOK' /\ OpeningPhases' /\ CopyIsOfTheFile'
    BY <1>1, <2>1 DEF OpenerInv, Opener!TypeOK, OpeningPhases, Opener!Phases, CopyIsOfTheFile
  <2>3. Opener!AnsweredDataIsOnDisk'
    BY <1>1, <2>1 DEF OpenerInv, Opener!AnsweredDataIsOnDisk, Opener!Holds, Opener!Readable
  <2>4. QED
    BY <2>2, <2>3 DEF OpenerInv
<1>3. CASE Opener!EndWrite
  <2>1. /\ journal \in Opener!Contents /\ journal.whole /\ saved \in 0 .. MaxWrites
        /\ saved < MaxWrites /\ saved' = saved + 1 /\ journal' = None
        /\ file' = [journal EXCEPT !.data = saved + 1] /\ opening_phase' = "open"
    BY <1>3 DEF Opener!EndWrite, OpenerInv, OpeningPhases, Opener!TypeOK
  <2>2. file' \in Opener!Contents /\ file'.whole /\ file'.data = saved' /\ saved' \in 0 .. MaxWrites
    BY <2>1, SchemasAreNatural DEF Opener!Contents
  <2>3. file' # None
    BY <2>2, ContentFields
  <2>4. Opener!TypeOK' /\ OpeningPhases' /\ CopyIsOfTheFile'
    BY <1>1, <2>1, <2>2, <2>3
       DEF OpenerInv, Opener!TypeOK, OpeningPhases, Opener!Phases, CopyIsOfTheFile
  <2>5. Opener!AnsweredDataIsOnDisk'
    BY <2>1, <2>2 DEF Opener!AnsweredDataIsOnDisk, Opener!Holds, Opener!Readable
  <2>6. QED
    BY <2>4, <2>5 DEF OpenerInv
<1>4. QED
  BY <1>2, <1>3

\* Every step of the opening keeps its invariant.
LEMMA OpenerStepInv == OpenerInv /\ [Opener!Next]_opening => OpenerInv'
  BY StandsStillInv, BeginCopyInv, EndCopyInv, ConnectInv, MigrationInv, CopyGoesInv,
     RestoreFileInv, WriteInv DEF Opener!Next

-----------------------------------------------------------------------------
(***************************************************************************)
(* Fetching a source.                                                      *)
(***************************************************************************)
FetchHolds(size) == size <= MaxEntries /\ size <= MaxExpanded

\* Who owns a directory is still there to remove it.
EveryDirIsOwned ==
  \A d \in dirs :
    /\ d[1] = "answer" => d[2] = "tree" /\ received.status = "source"
    /\ d[1] = "archive" => fetch # None /\ fetch.stage \in Fetcher!ArchiveStages
    /\ d[1] \in Users => task[d[1]] # None

FetchRuns ==
  fetch # None =>
    /\ received.status = "none"
    /\ fetch.stage \in Fetcher!GitStages => task[fetch.task] # None
    /\ fetch.stage \in {"request", "body"} => fetch.got = Fetcher!Nothing
    /\ fetch.stage \in {"extract", "flatten"} =>
         /\ Fetcher!ArchiveEntries(fetch.source) <= MaxEntries
         /\ fetch.got.top <= fetch.source.top /\ fetch.got.sub <= fetch.source.sub
         /\ Fetcher!Files(fetch.got) <= MaxExpanded

FetcherInv ==
  /\ Fetcher!TypeOK /\ EveryDirIsOwned /\ FetchRuns
  /\ received.status = "source" =>
       FetchHolds(Fetcher!Files(received.holds)) /\ <<"answer", "tree">> \in dirs

Archives == [stage : Fetcher!ArchiveStages, source : Fetcher!Sources, count : Nat,
             got : Fetcher!Sources]
Waits == [stage : Fetcher!GitStages, task : Users]

\* A fetch is of an archive, or it waits for a clone.
LEMMA FetchesAreOfTwoKinds ==
  ASSUME NEW f \in Fetcher!Fetches
  PROVE  /\ f # None
         /\ f.stage \in Fetcher!ArchiveStages \union Fetcher!GitStages
         /\ f.stage \in Fetcher!ArchiveStages => f \in Archives /\ f.stage \notin Fetcher!GitStages
         /\ f.stage \in Fetcher!GitStages => f \in Waits /\ f.stage \notin Fetcher!ArchiveStages
  BY LimitsAreNatural
     DEF Fetcher!Fetches, Archives, Waits, Fetcher!ArchiveStages, Fetcher!GitStages

\* Both kinds are fetches.
LEMMA FetchTypes == Archives \subseteq Fetcher!Fetches /\ Waits \subseteq Fetcher!Fetches
  BY DEF Fetcher!Fetches, Archives, Waits

\* What is counted of a source are naturals.
LEMMA SourceTypes ==
  ASSUME NEW source \in Fetcher!Sources
  PROVE  /\ source.top \in 0 .. MaxFiles /\ source.sub \in 0 .. MaxFiles
         /\ Fetcher!Files(source) \in Nat /\ Fetcher!ArchiveEntries(source) \in Nat
         /\ Fetcher!Files(source) <= Fetcher!ArchiveEntries(source)
  BY LimitsAreNatural DEF Fetcher!Sources, Fetcher!Files, Fetcher!ArchiveEntries

\* An answer is a source or an error.
LEMMA Answers ==
  /\ Fetcher!Nothing \in Fetcher!Sources
  /\ Fetcher!NoAnswer \in [status : {"none", "error", "source"}, holds : Fetcher!Sources]
  /\ Fetcher!NoAnswer.status = "none"
  /\ Fetcher!Error \in [status : {"none", "error", "source"}, holds : Fetcher!Sources]
  /\ Fetcher!Error.status = "error"
  /\ \A s \in Fetcher!Sources :
       /\ Fetcher!Answer("source", s)
            \in [status : {"none", "error", "source"}, holds : Fetcher!Sources]
       /\ Fetcher!Answer("source", s).status = "source" /\ Fetcher!Answer("source", s).holds = s
       /\ Fetcher!Answer("source", s) # Fetcher!Error
  BY LimitsAreNatural
     DEF Fetcher!Nothing, Fetcher!NoAnswer, Fetcher!Error, Fetcher!Answer, Fetcher!Sources

\* The invariant says what is left between two fetches.
LEMMA FetcherInvStays == FetcherInv => Fetcher!OnlyTheAnswerStays
<1> SUFFICES ASSUME FetcherInv PROVE Fetcher!OnlyTheAnswerStays
  OBVIOUS
<1>1. ASSUME fetch = None, \A t \in Users : task[t] = None, NEW d \in dirs
      PROVE  d = <<"answer", "tree">> /\ received.status = "source"
  BY <1>1 DEF FetcherInv, Fetcher!TypeOK, EveryDirIsOwned
<1>2. QED
  BY <1>1 DEF FetcherInv, FetchHolds, Fetcher!OnlyTheAnswerStays

\* The invariant of the fetcher holds at the start.
LEMMA FetcherInitInv == Fetcher!Init => FetcherInv
  BY Answers DEF Fetcher!Init, FetcherInv, Fetcher!TypeOK, EveryDirIsOwned, FetchRuns

\* A step of the download or the extraction that goes on.
LEMMA ArchiveStepInv ==
  ASSUME FetcherInv, fetch # None, fetch \in Archives, NEW next \in Archives,
         fetch' = next, UNCHANGED <<task, received>>,
         dirs' \subseteq dirs \union {<<"archive", "download">>, <<"archive", "tree">>},
         dirs \subseteq dirs',
         next.stage \in {"request", "body"} => next.got = Fetcher!Nothing,
         next.stage \in {"extract", "flatten"} =>
           /\ Fetcher!ArchiveEntries(next.source) <= MaxEntries
           /\ next.got.top <= next.source.top /\ next.got.sub <= next.source.sub
           /\ Fetcher!Files(next.got) <= MaxExpanded
  PROVE  FetcherInv'
<1>1. /\ next \in Fetcher!Fetches /\ next # None /\ next.stage \in Fetcher!ArchiveStages
      /\ next.stage \notin Fetcher!GitStages
  BY FetchTypes, FetchesAreOfTwoKinds DEF Archives
<1>2. Fetcher!TypeOK'
  BY <1>1 DEF FetcherInv, Fetcher!TypeOK
<1>3. EveryDirIsOwned'
  BY <1>1, LimitsAreNatural DEF FetcherInv, EveryDirIsOwned
<1>4. received.status = "none"
  BY DEF FetcherInv, FetchRuns
<1>5. QED
  BY <1>1, <1>2, <1>3, <1>4 DEF FetcherInv, FetchRuns

\* A fetch of an archive that ends, with an answer or not.
LEMMA FailArchiveInv ==
  ASSUME FetcherInv, fetch # None, fetch \in Archives, Fetcher!FailArchive
  PROVE  FetcherInv'
<1>1. /\ fetch' = None /\ received' = Fetcher!Error /\ UNCHANGED task
      /\ dirs' = {d \in dirs : d[1] # "archive"}
  BY DEF Fetcher!FailArchive, Fetcher!Owned
<1>2. received.status = "none"
  BY DEF FetcherInv, FetchRuns
<1>3. Fetcher!TypeOK'
  BY <1>1, Answers DEF FetcherInv, Fetcher!TypeOK
<1>4. EveryDirIsOwned'
  BY <1>1, <1>2 DEF FetcherInv, EveryDirIsOwned
<1>5. QED
  BY <1>1, <1>3, <1>4, Answers DEF FetcherInv, FetchRuns

\* A fetch that is answered leaves its tree, or nothing.
LEMMA AnswerArchiveInv ==
  ASSUME FetcherInv, Fetcher!AnswerArchive
  PROVE  FetcherInv'
<1>1. /\ fetch # None /\ fetch.stage = "flatten" /\ fetch' = None /\ UNCHANGED task
      /\ received' = Fetcher!Answer("source", fetch.got)
      /\ dirs' = {d \in dirs : d[1] # "archive"} \union {<<"answer", "tree">>}
  BY DEF Fetcher!AnswerArchive, Fetcher!At, Fetcher!Owned
<1>2. /\ fetch \in Archives /\ fetch.got \in Fetcher!Sources /\ fetch.source \in Fetcher!Sources
  BY <1>1, FetchesAreOfTwoKinds DEF FetcherInv, Fetcher!TypeOK, Fetcher!ArchiveStages, Archives
<1>3. FetchHolds(Fetcher!Files(fetch.got))
  <2>1. /\ Fetcher!ArchiveEntries(fetch.source) <= MaxEntries
        /\ fetch.got.top <= fetch.source.top /\ fetch.got.sub <= fetch.source.sub
        /\ Fetcher!Files(fetch.got) <= MaxExpanded
    BY <1>1 DEF FetcherInv, FetchRuns
  <2>2. Fetcher!Files(fetch.got) <= Fetcher!Files(fetch.source)
    BY <1>2, <2>1, SourceTypes DEF Fetcher!Files
  <2>3. QED
    BY <1>2, <2>1, <2>2, SourceTypes, LimitsAreNatural DEF FetchHolds
<1>4. received.status = "none"
  BY <1>1 DEF FetcherInv, FetchRuns
<1>5. Fetcher!TypeOK'
  BY <1>1, <1>2, Answers DEF FetcherInv, Fetcher!TypeOK
<1>6. EveryDirIsOwned'
  BY <1>1, <1>2, <1>4, Answers, LimitsAreNatural DEF FetcherInv, EveryDirIsOwned
<1>7. QED
  BY <1>1, <1>2, <1>3, <1>5, <1>6, Answers DEF FetcherInv, FetchRuns

\* A download begins in an empty directory.
LEMMA BeginHttpsInv ==
  ASSUME FetcherInv, NEW source \in Fetcher!Sources, Fetcher!BeginHttps(source)
  PROVE  FetcherInv'
<1> PICK next : next = [stage |-> "request", source |-> source, count |-> 0,
                        got |-> Fetcher!Nothing]
  OBVIOUS
<1>1. /\ fetch = None /\ fetch' = next /\ UNCHANGED task /\ received' = Fetcher!NoAnswer
      /\ dirs' = {d \in dirs : d[1] # "answer"} \union {<<"archive", "download">>}
  BY DEF Fetcher!BeginHttps, Fetcher!Owned
<1>2. next \in Archives /\ next.stage = "request" /\ next.got = Fetcher!Nothing
  BY Answers DEF Archives, Fetcher!ArchiveStages
<1>3. next \in Fetcher!Fetches /\ next # None
  BY <1>2, FetchTypes, FetchesAreOfTwoKinds
<1>4. Fetcher!TypeOK'
  BY <1>1, <1>3, Answers DEF FetcherInv, Fetcher!TypeOK
<1>5. EveryDirIsOwned'
  BY <1>1, <1>2, <1>3, LimitsAreNatural DEF FetcherInv, EveryDirIsOwned, Fetcher!ArchiveStages
<1>6. QED
  BY <1>1, <1>2, <1>4, <1>5, Answers DEF FetcherInv, FetchRuns, Fetcher!GitStages

\* The fields of the fetch of an archive.
LEMMA FetchFields ==
  ASSUME NEW f \in Archives
  PROVE  /\ f.stage \in Fetcher!ArchiveStages /\ f.source \in Fetcher!Sources
         /\ f.count \in Nat /\ f.got \in Fetcher!Sources
  BY DEF Archives

\* A download ends within its limit or with an error.
LEMMA DownloadInv ==
  ASSUME FetcherInv,
         Fetcher!Redirect \/ Fetcher!StartBody \/ Fetcher!ReadChunk \/ Fetcher!EndBody
           \/ Fetcher!FailHttps \/ Fetcher!FailExtract
  PROVE  FetcherInv'
<1>1. fetch # None /\ fetch \in Archives
      /\ (fetch.stage \in {"request", "body"} \/ Fetcher!FailArchive)
  BY FetchesAreOfTwoKinds
     DEF Fetcher!Redirect, Fetcher!StartBody, Fetcher!ReadChunk, Fetcher!EndBody,
         Fetcher!FailHttps, Fetcher!FailExtract, Fetcher!At, FetcherInv, Fetcher!TypeOK,
         Fetcher!ArchiveStages
<1>2. CASE Fetcher!FailArchive
  BY <1>1, <1>2, FailArchiveInv
<1>3. ASSUME ~Fetcher!FailArchive PROVE FetcherInv'
  <2>1. fetch.source \in Fetcher!Sources /\ fetch.got \in Fetcher!Sources /\ fetch.count \in Nat
    BY <1>1, FetchFields
  <2>2. CASE Fetcher!Redirect \/ Fetcher!StartBody \/ Fetcher!ReadChunk
    <3>1. PICK next \in Archives :
            /\ fetch' = next /\ next.stage \in {"request", "body"} /\ next.got = fetch.got
            /\ UNCHANGED <<task, received, dirs>>
      <4>1. fetch.stage \in {"request", "body"} /\ UNCHANGED <<task, received, dirs>>
        BY <1>3, <2>2 DEF Fetcher!Redirect, Fetcher!StartBody, Fetcher!ReadChunk, Fetcher!At
      <4>2. \/ fetch' = [fetch EXCEPT !.count = fetch.count + 1]
            \/ fetch' = [fetch EXCEPT !.stage = "body", !.count = 0]
        BY <1>3, <2>2 DEF Fetcher!Redirect, Fetcher!StartBody, Fetcher!ReadChunk
      <4>3. ASSUME NEW next, next = [fetch EXCEPT !.count = fetch.count + 1]
            PROVE  next \in Archives /\ next.stage = fetch.stage /\ next.got = fetch.got
        BY <1>1, <4>3 DEF Archives
      <4>4. ASSUME NEW next, next = [fetch EXCEPT !.stage = "body", !.count = 0]
            PROVE  next \in Archives /\ next.stage = "body" /\ next.got = fetch.got
        BY <1>1, <4>4 DEF Archives, Fetcher!ArchiveStages
      <4>5. QED
        BY <4>1, <4>2, <4>3, <4>4
    <3>2. fetch.got = Fetcher!Nothing
      BY <1>1, <1>3 DEF FetcherInv, FetchRuns
    <3>3. QED
      BY <1>1, <3>1, <3>2, ArchiveStepInv
  <2>3. CASE Fetcher!EndBody
    <3>1. PICK next : next = [fetch EXCEPT !.stage = "extract"]
      OBVIOUS
    <3>2. /\ next \in Archives /\ next.source = fetch.source /\ next.got = fetch.got
          /\ next.stage = "extract"
      BY <1>1, <3>1 DEF Archives, Fetcher!ArchiveStages
    <3>3. /\ fetch' = next /\ UNCHANGED <<task, received>>
          /\ dirs' = dirs \union {<<"archive", "tree">>}
          /\ ~(Fetcher!ArchiveEntries(fetch.source) > MaxEntries)
      BY <1>3, <2>3, <3>1 DEF Fetcher!EndBody, Fetcher!Advance
    <3>4. fetch.got.top <= fetch.source.top /\ fetch.got.sub <= fetch.source.sub
          /\ Fetcher!Files(fetch.got) <= MaxExpanded
      <4>1. fetch.stage = "body" /\ fetch # None
        BY <2>3 DEF Fetcher!EndBody, Fetcher!At
      <4>2. fetch.got = Fetcher!Nothing
        BY <4>1 DEF FetcherInv, FetchRuns
      <4>3. QED
        BY <2>1, <4>2, SourceTypes, LimitsAreNatural DEF Fetcher!Nothing, Fetcher!Files
    <3>5. QED
      BY <1>1, <2>1, <3>2, <3>3, <3>4, ArchiveStepInv, SourceTypes, LimitsAreNatural
  <2>4. QED
    BY <1>1, <1>3, <2>2, <2>3 DEF Fetcher!FailHttps, Fetcher!FailExtract
<1>4. QED
  BY <1>2, <1>3

\* A file more is within the source it comes from.
LEMMA OneMoreFile ==
  ASSUME NEW source \in Fetcher!Sources, NEW got \in Fetcher!Sources,
         NEW level \in {"top", "sub"}, got[level] < source[level],
         NEW more, more = [got EXCEPT ![level] = @ + 1]
  PROVE  /\ more \in Fetcher!Sources
         /\ Fetcher!Files(more) = Fetcher!Files(got) + 1
         /\ got.top <= source.top /\ got.sub <= source.sub =>
              more.top <= source.top /\ more.sub <= source.sub
<1>1. /\ source.top \in 0 .. MaxFiles /\ source.sub \in 0 .. MaxFiles
      /\ got.top \in 0 .. MaxFiles /\ got.sub \in 0 .. MaxFiles
  BY DEF Fetcher!Sources
<1>2. CASE level = "top"
  <2>1. more = [top |-> got.top + 1, sub |-> got.sub]
    BY <1>2 DEF Fetcher!Sources
  <2>2. got.top < source.top
    BY <1>2
  <2>3. QED
    BY <1>1, <2>1, <2>2, LimitsAreNatural DEF Fetcher!Sources, Fetcher!Files
<1>3. CASE level = "sub"
  <2>1. more = [top |-> got.top, sub |-> got.sub + 1]
    BY <1>3 DEF Fetcher!Sources
  <2>2. got.sub < source.sub
    BY <1>3
  <2>3. QED
    BY <1>1, <2>1, <2>2, LimitsAreNatural DEF Fetcher!Sources, Fetcher!Files
<1>4. QED
  BY <1>2, <1>3

\* An extraction counts what it writes, and ends within the limits.
LEMMA ExtractInv ==
  ASSUME FetcherInv, Fetcher!ExtractEntry \/ Fetcher!EndExtract
  PROVE  FetcherInv'
<1>1. fetch # None /\ fetch.stage = "extract" /\ fetch \in Archives
  BY FetchesAreOfTwoKinds
     DEF Fetcher!ExtractEntry, Fetcher!EndExtract, Fetcher!At, FetcherInv, Fetcher!TypeOK,
         Fetcher!ArchiveStages
<1>2. /\ fetch.source \in Fetcher!Sources /\ fetch.got \in Fetcher!Sources
      /\ Fetcher!ArchiveEntries(fetch.source) <= MaxEntries
      /\ fetch.got.top <= fetch.source.top /\ fetch.got.sub <= fetch.source.sub
      /\ Fetcher!Files(fetch.got) <= MaxExpanded
  BY <1>1, FetchFields DEF FetcherInv, FetchRuns
<1>3. CASE Fetcher!ExtractEntry
  <2>1. PICK level \in {"top", "sub"} :
          /\ fetch.got[level] < fetch.source[level]
          /\ IF Fetcher!Files(fetch.got) + 1 > MaxExpanded THEN Fetcher!FailArchive
             ELSE /\ fetch' = [fetch EXCEPT !.got[level] = @ + 1]
                  /\ UNCHANGED <<task, dirs, received>>
    BY <1>3 DEF Fetcher!ExtractEntry
  <2> PICK more : more = [fetch.got EXCEPT ![level] = @ + 1]
    OBVIOUS
  <2> PICK next : next = [fetch EXCEPT !.got = more]
    OBVIOUS
  <2>2. /\ more \in Fetcher!Sources /\ Fetcher!Files(more) = Fetcher!Files(fetch.got) + 1
        /\ more.top <= fetch.source.top /\ more.sub <= fetch.source.sub
    BY <1>2, <2>1, OneMoreFile
  <2>3. /\ next \in Archives /\ next.stage = "extract" /\ next.source = fetch.source
        /\ next.got = more
    BY <1>1, <2>2 DEF Archives
  <2>4. CASE Fetcher!FailArchive
    BY <1>1, <2>4, FailArchiveInv
  <2>5. CASE ~(Fetcher!Files(fetch.got) + 1 > MaxExpanded)
    <3>1. fetch' = next /\ UNCHANGED <<task, dirs, received>>
      BY <1>1, <2>1, <2>5 DEF Archives
    <3>2. Fetcher!Files(more) <= MaxExpanded
      BY <1>2, <2>2, <2>5, SourceTypes, LimitsAreNatural
    <3>3. QED
      BY <1>1, <1>2, <2>2, <2>3, <3>1, <3>2, ArchiveStepInv
  <2>6. QED
    BY <2>1, <2>4, <2>5
<1>4. CASE Fetcher!EndExtract
  <2> PICK next : next = [fetch EXCEPT !.stage = "flatten"]
    OBVIOUS
  <2>1. /\ next \in Archives /\ next.stage = "flatten" /\ next.source = fetch.source
        /\ next.got = fetch.got
    BY <1>1 DEF Archives, Fetcher!ArchiveStages
  <2>2. fetch' = next /\ UNCHANGED <<task, dirs, received>>
    BY <1>4 DEF Fetcher!EndExtract, Fetcher!Advance
  <2>3. QED
    BY <1>1, <1>2, <2>1, <2>2, ArchiveStepInv
<1>5. QED
  BY <1>3, <1>4

\* A clone begins with the task of a thread.
LEMMA BeginGitInv ==
  ASSUME FetcherInv, NEW t \in Users, NEW source \in Fetcher!Sources, NEW far \in BOOLEAN,
         Fetcher!BeginGit(t, source, far)
  PROVE  FetcherInv'
<1> PICK next : next = [stage |-> "waiting", task |-> t]
  OBVIOUS
<1> PICK new : new = [stage |-> IF far THEN "clone" ELSE "open", source |-> source,
                      got |-> Fetcher!Nothing, stop |-> FALSE]
  OBVIOUS
<1>1. /\ fetch = None /\ task[t] = None /\ fetch' = next
      /\ task' = [task EXCEPT ![t] = new] /\ received' = Fetcher!NoAnswer
      /\ dirs' = {d \in dirs : d[1] # "answer"} \union IF far THEN {<<t, "clone">>} ELSE {}
  BY DEF Fetcher!BeginGit, Fetcher!Owned
<1>2. /\ next \in Waits /\ next.stage = "waiting" /\ next.task = t
      /\ next \in Fetcher!Fetches /\ next # None
  <2>1. next \in Waits /\ next.stage = "waiting" /\ next.task = t
    BY DEF Waits, Fetcher!GitStages
  <2>2. QED
    BY <2>1, FetchTypes, FetchesAreOfTwoKinds
<1>3. new \in Fetcher!Walks /\ new # None
  <2>1. new \in Fetcher!Walks
    BY Answers DEF Fetcher!Walks
  <2>2. QED
    BY <2>1, LimitsAreNatural
<1>4. Fetcher!TypeOK'
  BY <1>1, <1>2, <1>3, Answers DEF FetcherInv, Fetcher!TypeOK
<1>5. EveryDirIsOwned'
  BY <1>1, <1>3, LimitsAreNatural DEF FetcherInv, EveryDirIsOwned, Fetcher!TypeOK
<1>6. FetchRuns'
  BY <1>1, <1>2, <1>3, Answers DEF FetcherInv, Fetcher!TypeOK, FetchRuns
<1>7. QED
  BY <1>1, <1>4, <1>5, <1>6, Answers DEF FetcherInv

\* The fields of the task that clones.
LEMMA TaskFields ==
  ASSUME FetcherInv, NEW t \in Users, task[t] # None
  PROVE  /\ task[t] \in Fetcher!Walks
         /\ task[t].source \in Fetcher!Sources /\ task[t].got \in Fetcher!Sources
         /\ \A walk_of \in Fetcher!Walks : walk_of # None
  BY LimitsAreNatural DEF FetcherInv, Fetcher!TypeOK, Fetcher!Walks

\* The task goes on.
LEMMA TaskStepInv ==
  ASSUME FetcherInv, NEW t \in Users, task[t] # None, NEW new \in Fetcher!Walks,
         task' = [task EXCEPT ![t] = new], UNCHANGED <<fetch, received>>,
         dirs' \subseteq dirs \union {<<t, "tree">>}, dirs \subseteq dirs'
  PROVE  FetcherInv'
<1>1. new # None
  BY TaskFields
<1>2. Fetcher!TypeOK'
  BY DEF FetcherInv, Fetcher!TypeOK
<1>3. \A u \in Users : task[u] # None => task'[u] # None
  BY <1>1 DEF FetcherInv, Fetcher!TypeOK
<1>4. EveryDirIsOwned'
  BY <1>3, LimitsAreNatural DEF FetcherInv, EveryDirIsOwned
<1>5. FetchRuns'
  BY <1>3, FetchesAreOfTwoKinds DEF FetcherInv, FetchRuns, Fetcher!TypeOK, Waits
<1>6. QED
  BY <1>2, <1>4, <1>5 DEF FetcherInv

\* The task ends: it removes what it owns, and its result reaches a caller who waits.
LEMMA EndTaskInv ==
  ASSUME FetcherInv, NEW t \in Users, task[t] # None, NEW result,
         \/ result = Fetcher!Error
         \/ \E s \in Fetcher!Sources :
              result = Fetcher!Answer("source", s) /\ FetchHolds(Fetcher!Files(s)),
         Fetcher!EndTask(t, result)
  PROVE  FetcherInv'
<1>1. /\ task' = [task EXCEPT ![t] = None] /\ task \in [Users -> Fetcher!Walks \union {None}]
      /\ \A u \in Users : u # t => task'[u] = task[u]
      /\ t # "answer" /\ t # "archive"
  BY LimitsAreNatural DEF Fetcher!EndTask, FetcherInv, Fetcher!TypeOK
<1>2. /\ result \in [status : {"none", "error", "source"}, holds : Fetcher!Sources]
      /\ result.status = "source" =>
           FetchHolds(Fetcher!Files(result.holds)) /\ result # Fetcher!Error
      /\ result = Fetcher!Error \/ result.status = "source"
  BY Answers
<1>3. CASE Fetcher!IsAwaited(t)
  <2>1. /\ fetch # None /\ fetch.stage = "waiting" /\ received' = result /\ fetch' = None
        /\ dirs' = {d \in dirs : d[1] # t} \union
             IF result = Fetcher!Error THEN {} ELSE {<<"answer", "tree">>}
    BY <1>3 DEF Fetcher!EndTask, Fetcher!Owned, Fetcher!IsAwaited, Fetcher!At
  <2>2. received.status = "none" /\ "waiting" \notin Fetcher!ArchiveStages
    BY <2>1 DEF FetcherInv, FetchRuns, Fetcher!ArchiveStages
  <2>3. Fetcher!TypeOK'
    BY <1>1, <1>2, <2>1 DEF FetcherInv, Fetcher!TypeOK
  <2>4. EveryDirIsOwned'
    BY <1>1, <1>2, <2>1, <2>2, LimitsAreNatural DEF FetcherInv, EveryDirIsOwned
  <2>5. QED
    BY <1>2, <2>1, <2>3, <2>4, Answers DEF FetcherInv, FetchRuns
<1>4. CASE ~Fetcher!IsAwaited(t) /\ Fetcher!IsBeingStopped(t)
  <2>1. /\ fetch # None /\ fetch.stage = "stopping" /\ received' = Fetcher!Error
        /\ fetch' = None /\ dirs' = {d \in dirs : d[1] # t}
    BY <1>4 DEF Fetcher!EndTask, Fetcher!Owned, Fetcher!IsBeingStopped, Fetcher!At
  <2>2. received.status = "none" /\ "stopping" \notin Fetcher!ArchiveStages
    BY <2>1 DEF FetcherInv, FetchRuns, Fetcher!ArchiveStages
  <2>3. Fetcher!TypeOK'
    BY <1>1, <2>1, Answers DEF FetcherInv, Fetcher!TypeOK
  <2>4. EveryDirIsOwned'
    BY <1>1, <2>1, <2>2 DEF FetcherInv, EveryDirIsOwned
  <2>5. QED
    BY <2>1, <2>3, <2>4, Answers DEF FetcherInv, FetchRuns
<1>5. CASE ~Fetcher!IsAwaited(t) /\ ~Fetcher!IsBeingStopped(t)
  <2>1. UNCHANGED <<received, fetch>> /\ dirs' = {d \in dirs : d[1] # t}
    BY <1>5 DEF Fetcher!EndTask, Fetcher!Owned
  <2>2. Fetcher!TypeOK'
    BY <1>1, <2>1 DEF FetcherInv, Fetcher!TypeOK
  <2>3. EveryDirIsOwned'
    BY <1>1, <2>1 DEF FetcherInv, EveryDirIsOwned
  <2>4. fetch # None /\ fetch.stage \in Fetcher!GitStages => fetch.task \in Users \ {t}
    BY <1>5, FetchesAreOfTwoKinds
       DEF Fetcher!IsAwaited, Fetcher!IsBeingStopped, Fetcher!At, FetcherInv, Fetcher!TypeOK,
           Waits, Fetcher!GitStages
  <2>5. FetchRuns'
    BY <1>1, <2>1, <2>4 DEF FetcherInv, FetchRuns
  <2>6. received'.status = "source" => <<"answer", "tree">> \in dirs'
    BY <1>1, <2>1 DEF FetcherInv
  <2>7. QED
    BY <2>1, <2>2, <2>3, <2>5, <2>6 DEF FetcherInv
<1>6. QED
  BY <1>3, <1>4, <1>5

\* The copy of a clone counts what it writes.
LEMMA WalkEntryInv ==
  ASSUME FetcherInv, NEW t \in Users, NEW level \in {"top", "sub"}, Fetcher!WalkEntry(t, level)
  PROVE  FetcherInv'
<1>1. task[t] # None /\ task[t].got[level] < task[t].source[level]
  BY DEF Fetcher!WalkEntry, Fetcher!Running
<1>2. CASE Fetcher!EndTask(t, Fetcher!Error)
  BY <1>1, <1>2, EndTaskInv
<1>3. CASE ~Fetcher!EndTask(t, Fetcher!Error)
  <2> PICK more : more = [task[t].got EXCEPT ![level] = @ + 1]
    OBVIOUS
  <2> PICK new : new = [task[t] EXCEPT !.got = more]
    OBVIOUS
  <2>1. more \in Fetcher!Sources
    BY <1>1, TaskFields, OneMoreFile
  <2>2. new \in Fetcher!Walks
    BY <1>1, <2>1, TaskFields DEF Fetcher!Walks
  <2>3. task' = [task EXCEPT ![t].got = more] /\ UNCHANGED <<fetch, dirs, received>>
    BY <1>3 DEF Fetcher!WalkEntry
  <2>4. task' = [task EXCEPT ![t] = new]
    BY <2>3, <1>1 DEF FetcherInv, Fetcher!TypeOK
  <2>5. QED
    BY <1>1, <2>2, <2>3, <2>4, TaskStepInv
<1>4. QED
  BY <1>2, <1>3

\* The task and the fetch that waits for it, in any order, keep the invariant.
LEMMA GitInv ==
  ASSUME FetcherInv, NEW t \in Users,
         Fetcher!FailTask(t) \/ Fetcher!Materialize(t) \/ Fetcher!EndWalk(t)
  PROVE  FetcherInv'
<1>1. task[t] # None
  BY DEF Fetcher!FailTask, Fetcher!Materialize, Fetcher!EndWalk, Fetcher!Running
<1>2. CASE Fetcher!FailTask(t)
  BY <1>1, <1>2, EndTaskInv DEF Fetcher!FailTask
<1>3. CASE Fetcher!Materialize(t)
  <2> PICK new : new = [task[t] EXCEPT !.stage = "walk"]
    OBVIOUS
  <2>1. new \in Fetcher!Walks
    BY <1>1, TaskFields DEF Fetcher!Walks
  <2>2. /\ task' = [task EXCEPT ![t] = new] /\ dirs' = dirs \union {<<t, "tree">>}
        /\ UNCHANGED <<fetch, received>>
    BY <1>3 DEF Fetcher!Materialize, FetcherInv, Fetcher!TypeOK
  <2>3. QED
    BY <1>1, <2>1, <2>2, TaskStepInv
<1>4. CASE Fetcher!EndWalk(t)
  <2> PICK result : result = IF Fetcher!Over(Fetcher!Total(task[t])) THEN Fetcher!Error
                             ELSE Fetcher!Answer("source", task[t].got)
    OBVIOUS
  <2>1. Fetcher!EndTask(t, result) /\ task[t].got \in Fetcher!Sources
    BY <1>1, <1>4, TaskFields DEF Fetcher!EndWalk
  <2>2. ~Fetcher!Over(Fetcher!Total(task[t])) => FetchHolds(Fetcher!Files(task[t].got))
    BY <2>1, SourceTypes, LimitsAreNatural
       DEF Fetcher!Over, Fetcher!Total, FetchHolds, Fetcher!Files
  <2>3. QED
    BY <1>1, <2>1, <2>2, EndTaskInv
<1>5. QED
  BY <1>2, <1>3, <1>4

\* What the caller of a blocking task does.
LEMMA CallerInv ==
  ASSUME FetcherInv, Fetcher!StopTask \/ Fetcher!GiveUp \/ Fetcher!Drop
  PROVE  FetcherInv'
<1>1. CASE Fetcher!StopTask
  <2>1. fetch # None /\ fetch.stage = "waiting" /\ fetch \in Waits
    BY <1>1, FetchesAreOfTwoKinds
       DEF Fetcher!StopTask, Fetcher!At, FetcherInv, Fetcher!TypeOK, Fetcher!GitStages
  <2>2. fetch.task \in Users /\ task[fetch.task] # None
    BY <2>1 DEF Waits, FetcherInv, FetchRuns, Fetcher!GitStages
  <2> PICK next : next = [fetch EXCEPT !.stage = "stopping"]
    OBVIOUS
  <2> PICK new : new = [task[fetch.task] EXCEPT !.stop = TRUE]
    OBVIOUS
  <2>3. next \in Waits /\ next.stage = "stopping" /\ next.task = fetch.task
    BY <2>1 DEF Waits, Fetcher!GitStages
  <2>4. new \in Fetcher!Walks /\ new # None
    <3>1. new \in Fetcher!Walks
      BY <2>2, TaskFields DEF Fetcher!Walks
    <3>2. QED
      BY <3>1, LimitsAreNatural
  <2>5. /\ fetch' = next /\ task' = [task EXCEPT ![fetch.task] = new]
        /\ UNCHANGED <<dirs, received>>
    BY <1>1 DEF Fetcher!StopTask, FetcherInv, Fetcher!TypeOK
  <2>6. /\ next \in Fetcher!Fetches /\ next # None
        /\ next.stage \notin {"request", "body", "extract", "flatten"}
    BY <2>3, FetchTypes, FetchesAreOfTwoKinds
  <2>7. Fetcher!TypeOK'
    BY <2>4, <2>5, <2>6 DEF FetcherInv, Fetcher!TypeOK
  <2>8. \A u \in Users : task[u] # None => task'[u] # None
    BY <2>4, <2>5 DEF FetcherInv, Fetcher!TypeOK
  <2>9. EveryDirIsOwned'
    BY <2>1, <2>5, <2>6, <2>8 DEF FetcherInv, EveryDirIsOwned, Fetcher!ArchiveStages
  <2>10. FetchRuns'
    BY <2>1, <2>2, <2>3, <2>5, <2>6, <2>8 DEF FetcherInv, FetchRuns
  <2>11. QED
    BY <2>5, <2>7, <2>9, <2>10 DEF FetcherInv
<1>2. CASE Fetcher!GiveUp
  <2>1. /\ fetch # None /\ fetch.stage = "stopping" /\ fetch' = None
        /\ received' = Fetcher!Error /\ dirs' \subseteq dirs /\ UNCHANGED task
    BY <1>2 DEF Fetcher!GiveUp, Fetcher!At
  <2>2. received.status = "none"
    BY <2>1 DEF FetcherInv, FetchRuns
  <2>3. QED
    BY <2>1, <2>2, Answers
       DEF FetcherInv, Fetcher!TypeOK, EveryDirIsOwned, FetchRuns, Fetcher!ArchiveStages
<1>3. CASE Fetcher!Drop
  <2>1. /\ fetch = None /\ received' = Fetcher!NoAnswer /\ UNCHANGED <<fetch, task>>
        /\ dirs' = {d \in dirs : d[1] # "answer"}
    BY <1>3 DEF Fetcher!Drop, Fetcher!Owned
  <2>2. QED
    BY <2>1, Answers DEF FetcherInv, Fetcher!TypeOK, EveryDirIsOwned, FetchRuns
<1>4. QED
  BY <1>1, <1>2, <1>3

\* Every step of the fetcher keeps its invariant.
LEMMA FetcherStepInv == FetcherInv /\ [Fetcher!Next]_acquire => FetcherInv'
<1> SUFFICES ASSUME FetcherInv, [Fetcher!Next]_acquire PROVE FetcherInv'
  OBVIOUS
<1>1. CASE UNCHANGED acquire
  BY <1>1 DEF acquire, FetcherInv, Fetcher!TypeOK, EveryDirIsOwned, FetchRuns
<1>2. CASE Fetcher!Next
  BY <1>2, BeginHttpsInv, DownloadInv, ExtractInv, AnswerArchiveInv, BeginGitInv, WalkEntryInv,
     GitInv, CallerInv DEF Fetcher!Next
<1>3. QED
  BY <1>1, <1>2

-----------------------------------------------------------------------------
(***************************************************************************)
(* The scan for skills.                                                    *)
(***************************************************************************)
\* The versions of a skill in a set of stamps: at most one of a file, and none newer than
\* the last writing.
StampsOf(versions, s) ==
  /\ versions \subseteq Tree[s] \X (1 .. MaxEdits)
  /\ \A v \in versions : v[2] <= edits
  /\ \A u, v \in versions : u[1] = v[1] => u = v

\* An entry of the cache or of a snapshot: a stamp that is still on disk was read into the
\* fingerprint, and the fingerprint has no other files.  A number is written once, so a
\* stamp that is not on disk is never there again.
Trusted(e, s) ==
  /\ StampsOf(e.stamps, s) /\ StampsOf(e.fingerprint, s)
  /\ \A v \in e.stamps : disk[v[1]] = v[2] => v \in e.fingerprint
  /\ \A v \in e.fingerprint : \E u \in e.stamps : u[1] = v[1]

TrustedAll(entries) == \A s \in Skills : entries[s] # None => Trusted(entries[s], s)

\* What is reported without complaint has the stamps of the disk.
FoundIsOnDisk(w) ==
  \A s \in Skills \ w.cut :
    w.found[s] # None /\ Tree[s] \intersect w.dirty = {} =>
      w.found[s].stamps = Scan!OnDisk(s)

\* While the tree of a skill is collected: the stamps are of the files that are done.
Stamping(w) ==
  w.step = "stamp" =>
    /\ w.skill \in Skills /\ w.left \subseteq Tree[w.skill]
    /\ StampsOf(w.stamps, w.skill) /\ w.fingerprint = {}
    /\ \A v \in w.stamps : v[1] \notin w.left
    /\ \A v \in w.stamps : v[1] \notin w.dirty => disk[v[1]] = v[2]
    /\ w.skill \notin w.cut =>
         \A f \in Tree[w.skill] \ (w.left \union w.dirty) :
           disk[f] # 0 => <<f, disk[f]>> \in w.stamps

\* While its files are read: what has been read is an entry for the stamps of those files.
Reading(w) ==
  w.step = "read" =>
    /\ w.skill \in Skills
    /\ StampsOf(w.stamps, w.skill) /\ StampsOf(w.fingerprint, w.skill)
    /\ \A f \in w.left : \E v \in w.stamps : v[1] = f
    /\ \A v \in w.fingerprint : v[1] \notin w.left /\ \E u \in w.stamps : u[1] = v[1]
    /\ \A v \in w.stamps : v[1] \notin w.left /\ disk[v[1]] = v[2] => v \in w.fingerprint
    /\ w.skill \notin w.cut /\ Tree[w.skill] \intersect w.dirty = {} =>
         w.stamps = Scan!OnDisk(w.skill)

WalkInv(w) ==
  /\ TrustedAll(w.baseline) /\ TrustedAll(w.found)
  /\ FoundIsOnDisk(w) /\ Stamping(w) /\ Reading(w)

ScanInv ==
  /\ Scan!TypeOK
  /\ \A f \in ScanFiles : disk[f] <= edits
  /\ TrustedAll(scanner_cache) /\ TrustedAll(snapshot)
  /\ walk # None => WalkInv(walk)

\* A trusted entry whose stamps are on disk has the fingerprint of the disk.
LEMMA TrustedFits ==
  ASSUME NEW s \in Skills, NEW e, Trusted(e, s), e.stamps = Scan!OnDisk(s)
  PROVE  e.fingerprint = Scan!OnDisk(s)
<1>1. \A v \in e.stamps : v \in e.fingerprint
  BY DEF Trusted, Scan!OnDisk
<1>2. ASSUME NEW v \in e.fingerprint PROVE v \in e.stamps
  <2>1. PICK u \in e.stamps : u[1] = v[1]
    BY DEF Trusted
  <2>2. u = v
    BY <1>1, <2>1 DEF Trusted, StampsOf
  <2>3. QED
    BY <2>1, <2>2
<1>3. QED
  BY <1>1, <1>2

\* The invariant says that unwritten skills have the fingerprint of the disk.
LEMMA ScanInvIsOfTheDisk == ScanInv => Scan!FingerprintsAreOfTheDisk
<1> SUFFICES ASSUME ScanInv, walk # None, NEW s \in Skills \ walk.cut,
                    walk.found[s] # None, Tree[s] \intersect walk.dirty = {}
             PROVE  walk.found[s].fingerprint = Scan!OnDisk(s)
  BY DEF Scan!FingerprintsAreOfTheDisk
<1>1. Trusted(walk.found[s], s) /\ walk.found[s].stamps = Scan!OnDisk(s)
  BY DEF ScanInv, WalkInv, TrustedAll, FoundIsOnDisk
<1> PICK e : e = walk.found[s]
  OBVIOUS
<1>2. Trusted(e, s) /\ e.stamps = Scan!OnDisk(s)
  BY <1>1
<1>3. QED
  BY <1>2, TrustedFits

\* Nothing remembered is nothing to mistrust.
LEMMA NoEntriesAreTrusted ==
  /\ Scan!NoEntries \in [Skills -> Scan!Entries \union {None}]
  /\ TrustedAll(Scan!NoEntries)
  BY DEF Scan!NoEntries, TrustedAll

\* The invariant of the scanner holds at the start.
LEMMA ScanInitInv == Scan!Init => ScanInv
  BY NoEntriesAreTrusted, TreesAreOfFiles DEF Scan!Init, ScanInv, Scan!TypeOK

\* The fields of a walk.
LEMMA WalkFields ==
  ASSUME NEW w \in Scan!Walks
  PROVE  /\ w.targets \subseteq ScanTargets /\ w.skills \subseteq Skills
         /\ w.skill \in Skills \union {None} /\ w.step \in {"pick", "stamp", "read"}
         /\ w.left \subseteq ScanFiles /\ w.stamps \subseteq ScanFiles \X (1 .. MaxEdits)
         /\ w.fingerprint \subseteq ScanFiles \X (1 .. MaxEdits)
         /\ w.baseline \in [Skills -> Scan!Entries \union {None}]
         /\ w.found \in [Skills -> Scan!Entries \union {None}]
         /\ w.active \subseteq Skills /\ w.cut \subseteq Skills /\ w.dirty \subseteq ScanFiles
  BY DEF Scan!Walks, Scan!Versions

\* While no file is written, what holds of a walk still holds.
LEMMA WalkFrame ==
  ASSUME UNCHANGED <<disk, edits>>, NEW w, NEW entries
  PROVE  (WalkInv(w) => WalkInv(w)') /\ (TrustedAll(entries) => TrustedAll(entries)')
  BY DEF WalkInv, TrustedAll, Trusted, StampsOf, FoundIsOnDisk, Stamping, Reading, Scan!OnDisk

\* While no file is written, a step may put trusted entries for trusted entries.
LEMMA ScanQuietInv ==
  ASSUME ScanInv, UNCHANGED <<disk, edits>>,
         scanner_place' \in [ScanTargets -> ScanDirs \union {None}],
         known' \in [ScanTargets ->
                       [exists : BOOLEAN, dir : ScanDirs \union {None}] \union {None}],
         NEW entries \in [Skills -> Scan!Entries \union {None}],
         scanner_cache' = entries, TrustedAll(entries),
         NEW shot \in [Skills -> Scan!Entries \union {None}],
         snapshot' = shot, TrustedAll(shot),
         NEW next, walk' = next, next = None \/ (next \in Scan!Walks /\ WalkInv(next))
  PROVE  ScanInv'
<1>1. TrustedAll(entries)' /\ TrustedAll(shot)' /\ (next # None => WalkInv(next)')
  BY WalkFrame
<1>2. Scan!TypeOK'
  BY DEF ScanInv, Scan!TypeOK
<1>3. QED
  BY <1>1, <1>2 DEF ScanInv

-----------------------------------------------------------------------------
\* A step that leaves what is remembered alone is a step of the walk.
LEMMA ScanWalkStep ==
  ASSUME ScanInv, UNCHANGED <<scanner_place, known, disk, edits, scanner_cache, snapshot>>,
         NEW next \in Scan!Walks, WalkInv(next), walk' = next
  PROVE  ScanInv'
<1>1. PICK entries : entries = scanner_cache
  OBVIOUS
<1>2. PICK shot : shot = snapshot
  OBVIOUS
<1>3. /\ entries \in [Skills -> Scan!Entries \union {None}] /\ TrustedAll(entries)
      /\ shot \in [Skills -> Scan!Entries \union {None}] /\ TrustedAll(shot)
      /\ scanner_place' \in [ScanTargets -> ScanDirs \union {None}]
      /\ known' \in [ScanTargets ->
                       [exists : BOOLEAN, dir : ScanDirs \union {None}] \union {None}]
  BY <1>1, <1>2 DEF ScanInv, Scan!TypeOK
<1>4. QED
  BY <1>1, <1>2, <1>3, ScanQuietInv

\* A step that leaves the walk and what is remembered alone.
LEMMA ScanIdleStep ==
  ASSUME ScanInv, UNCHANGED <<disk, edits, scanner_cache, snapshot, walk>>,
         scanner_place' \in [ScanTargets -> ScanDirs \union {None}],
         known' \in [ScanTargets ->
                       [exists : BOOLEAN, dir : ScanDirs \union {None}] \union {None}]
  PROVE  ScanInv'
<1>1. PICK entries : entries = scanner_cache
  OBVIOUS
<1>2. PICK shot : shot = snapshot
  OBVIOUS
<1>3. PICK next : next = walk
  OBVIOUS
<1>4. /\ entries \in [Skills -> Scan!Entries \union {None}] /\ TrustedAll(entries)
      /\ shot \in [Skills -> Scan!Entries \union {None}] /\ TrustedAll(shot)
      /\ next = None \/ (next \in Scan!Walks /\ WalkInv(next))
  BY <1>1, <1>2, <1>3 DEF ScanInv, Scan!TypeOK
<1>5. QED
  BY <1>1, <1>2, <1>3, <1>4, ScanQuietInv

\* A walk that has reported nothing holds whatever its baseline.
LEMMA WalkBegins ==
  ASSUME NEW targets \in SUBSET ScanTargets, NEW skills \in SUBSET Skills,
         NEW base \in [Skills -> Scan!Entries \union {None}], TrustedAll(base)
  PROVE  /\ Scan!Walk(targets, skills, base) \in Scan!Walks
         /\ WalkInv(Scan!Walk(targets, skills, base))
<1>1. Scan!Walk(targets, skills, base) \in Scan!Walks
  BY NoEntriesAreTrusted DEF Scan!Walk, Scan!Walks, Scan!Versions
<1>2. WalkInv(Scan!Walk(targets, skills, base))
  BY NoEntriesAreTrusted
     DEF Scan!Walk, WalkInv, FoundIsOnDisk, Stamping, Reading, Scan!NoEntries
<1>3. QED
  BY <1>1, <1>2

\* A directory that is moved away changes nothing that is remembered.
LEMMA ReplaceInv ==
  ASSUME ScanInv, NEW t \in ScanTargets, Scan!Replace(t)
  PROVE  ScanInv'
<1>1. /\ UNCHANGED <<known, disk, edits, scanner_cache, snapshot, walk>>
      /\ scanner_place' \in [ScanTargets -> ScanDirs \union {None}]
  BY DEF Scan!Replace, ScanInv, Scan!TypeOK
<1>2. QED
  BY <1>1, ScanIdleStep DEF ScanInv, Scan!TypeOK

\* The discovery records targets only.
LEMMA DiscoverInv ==
  ASSUME ScanInv, NEW named \in SUBSET ScanTargets, Scan!Discover(named)
  PROVE  ScanInv'
<1>1. /\ UNCHANGED <<scanner_place, disk, edits, scanner_cache, snapshot, walk>>
      /\ known' \in [ScanTargets ->
                       [exists : BOOLEAN, dir : ScanDirs \union {None}] \union {None}]
  BY DEF Scan!Discover, Scan!Merged, Scan!Discovered, ScanInv, Scan!TypeOK
<1>2. QED
  BY <1>1, ScanIdleStep DEF ScanInv, Scan!TypeOK

\* A scan begins with the snapshot, which is trusted.
LEMMA BeginScanInv ==
  ASSUME ScanInv, NEW requested \in SUBSET ScanTargets, Scan!BeginScan(requested)
  PROVE  ScanInv'
<1>1. PICK targets \in SUBSET ScanTargets : walk' = Scan!Walk(targets, {}, snapshot)
  BY DEF Scan!BeginScan
<1>2. PICK base : base = snapshot
  OBVIOUS
<1>3. base \in [Skills -> Scan!Entries \union {None}] /\ TrustedAll(base)
  BY <1>2 DEF ScanInv, Scan!TypeOK
<1>4. PICK next : next = Scan!Walk(targets, {}, base)
  OBVIOUS
<1>5. next \in Scan!Walks /\ WalkInv(next)
  BY <1>3, <1>4, WalkBegins
<1>6. QED
  BY <1>1, <1>2, <1>4, <1>5, ScanWalkStep DEF Scan!BeginScan

\* A rescan begins with nothing.
LEMMA BeginRescanInv ==
  ASSUME ScanInv, NEW t \in ScanTargets, NEW s \in Skills, Scan!BeginRescan(t, s)
  PROVE  ScanInv'
<1>1. PICK next : next = Scan!Walk({}, {s}, Scan!NoEntries)
  OBVIOUS
<1>2. next \in Scan!Walks /\ WalkInv(next)
  BY <1>1, WalkBegins, NoEntriesAreTrusted
<1>3. QED
  BY <1>1, <1>2, ScanWalkStep DEF Scan!BeginRescan

\* The walk of a root adds skills to look at.
LEMMA WalkRootInv ==
  ASSUME ScanInv, NEW t \in ScanTargets, Scan!WalkRoot(t)
  PROVE  ScanInv'
<1>1. PICK w : w = walk
  OBVIOUS
<1>2. PICK skills : skills = IF scanner_place[t] = None THEN {} ELSE Below[scanner_place[t]]
  OBVIOUS
<1>3. PICK next : next = [w EXCEPT !.targets = @ \ {t}, !.skills = skills]
  OBVIOUS
<1>4. w \in Scan!Walks /\ WalkInv(w) /\ w.step = "pick"
  BY <1>1 DEF Scan!WalkRoot, ScanInv, Scan!TypeOK
<1>5. skills \subseteq Skills
  BY <1>2, TreesAreOfFiles DEF ScanInv, Scan!TypeOK
<1>6. next \in Scan!Walks
  BY <1>3, <1>4, <1>5 DEF Scan!Walks
<1>7. /\ next.baseline = w.baseline /\ next.found = w.found /\ next.cut = w.cut
      /\ next.dirty = w.dirty /\ next.step = w.step
  BY <1>3, <1>4 DEF Scan!Walks
<1>8. WalkInv(next)
  BY <1>4, <1>7 DEF WalkInv, FoundIsOnDisk, Stamping, Reading
<1>9. walk' = next
  BY <1>1, <1>2, <1>3 DEF Scan!WalkRoot
<1>10. QED
  BY <1>6, <1>8, <1>9, ScanWalkStep DEF Scan!WalkRoot

\* A skill that is looked at has no stamps yet.
LEMMA InspectInv ==
  ASSUME ScanInv, NEW s \in Skills, Scan!Inspect(s)
  PROVE  ScanInv'
<1>1. PICK w : w = walk
  OBVIOUS
<1>2. w \in Scan!Walks /\ WalkInv(w) /\ w.step = "pick"
  BY <1>1 DEF Scan!Inspect, ScanInv, Scan!TypeOK
<1>3. CASE disk[Marker[s]] = 0
  <2>1. PICK next : next = [w EXCEPT !.skills = @ \ {s}]
    OBVIOUS
  <2>2. next \in Scan!Walks
    BY <1>2, <2>1 DEF Scan!Walks
  <2>3. /\ next.baseline = w.baseline /\ next.found = w.found /\ next.cut = w.cut
        /\ next.dirty = w.dirty /\ next.step = w.step
    BY <1>2, <2>1 DEF Scan!Walks
  <2>4. WalkInv(next)
    BY <1>2, <2>3 DEF WalkInv, FoundIsOnDisk, Stamping, Reading
  <2>5. walk' = next
    BY <1>1, <1>3, <2>1 DEF Scan!Inspect
  <2>6. QED
    BY <2>2, <2>4, <2>5, ScanWalkStep DEF Scan!Inspect
<1>4. CASE disk[Marker[s]] # 0
  <2>1. PICK next : next = [w EXCEPT !.skills = @ \ {s}, !.skill = s, !.step = "stamp",
                                     !.left = Tree[s], !.stamps = {}, !.fingerprint = {}]
    OBVIOUS
  <2>2. Tree[s] \subseteq ScanFiles
    BY TreesAreOfFiles
  <2>3. next \in Scan!Walks
    BY <1>2, <2>1, <2>2 DEF Scan!Walks, Scan!Versions
  <2>4. /\ next.baseline = w.baseline /\ next.found = w.found /\ next.cut = w.cut
        /\ next.dirty = w.dirty /\ next.step = "stamp" /\ next.skill = s
        /\ next.left = Tree[s] /\ next.stamps = {} /\ next.fingerprint = {}
    BY <1>2, <2>1 DEF Scan!Walks
  <2>5. WalkInv(next)
    <3>1. TrustedAll(next.baseline) /\ TrustedAll(next.found) /\ FoundIsOnDisk(next)
      BY <1>2, <2>4 DEF WalkInv, FoundIsOnDisk
    <3>2. Stamping(next) /\ Reading(next)
      BY <2>4 DEF Stamping, Reading, StampsOf
    <3>3. QED
      BY <3>1, <3>2 DEF WalkInv
  <2>6. walk' = next
    BY <1>1, <1>4, <2>1 DEF Scan!Inspect
  <2>7. QED
    BY <2>3, <2>5, <2>6, ScanWalkStep DEF Scan!Inspect
<1>5. QED
  BY <1>3, <1>4

\* A file that is stamped adds its version, when it is there.
LEMMA StampInv ==
  ASSUME ScanInv, NEW f \in ScanFiles, Scan!Stamp(f)
  PROVE  ScanInv'
<1>1. PICK w : w = walk
  OBVIOUS
<1>2. PICK stamps : stamps = IF disk[f] = 0 THEN w.stamps ELSE w.stamps \union {<<f, disk[f]>>}
  OBVIOUS
<1>3. PICK next : next = [w EXCEPT !.left = @ \ {f}, !.stamps = stamps]
  OBVIOUS
<1>4. w \in Scan!Walks /\ WalkInv(w) /\ w.step = "stamp" /\ f \in w.left
  BY <1>1 DEF Scan!Stamp, ScanInv, Scan!TypeOK
<1>5. disk[f] \in 0 .. MaxEdits /\ disk[f] <= edits /\ MaxEdits \in Nat
  BY TreesAreOfFiles DEF ScanInv, Scan!TypeOK
<1>6. next \in Scan!Walks
  <2>1. stamps \subseteq ScanFiles \X (1 .. MaxEdits)
    BY <1>2, <1>4, <1>5, WalkFields
  <2>2. QED
    BY <1>3, <1>4, <2>1 DEF Scan!Walks, Scan!Versions
<1>7. /\ next.baseline = w.baseline /\ next.found = w.found /\ next.cut = w.cut
      /\ next.dirty = w.dirty /\ next.step = "stamp" /\ next.skill = w.skill
      /\ next.left = w.left \ {f} /\ next.stamps = stamps /\ next.fingerprint = w.fingerprint
  BY <1>3, <1>4 DEF Scan!Walks
<1>8. WalkInv(next)
  <2>1. TrustedAll(next.baseline) /\ TrustedAll(next.found) /\ FoundIsOnDisk(next)
    BY <1>4, <1>7 DEF WalkInv, FoundIsOnDisk
  <2>2. Reading(next)
    BY <1>7 DEF Reading
  <2>3. Stamping(w) /\ w.skill \in Skills /\ f \in Tree[w.skill]
    BY <1>4 DEF WalkInv, Stamping
  <2>4. StampsOf(stamps, w.skill)
    BY <1>2, <1>4, <1>5, <2>3 DEF Stamping, StampsOf
  <2>5. /\ \A v \in stamps : v[1] \notin w.left \ {f}
        /\ \A v \in stamps : v[1] \notin w.dirty => disk[v[1]] = v[2]
    BY <1>2, <1>4, <2>3 DEF Stamping
  <2>6. w.skill \notin w.cut =>
          \A g \in Tree[w.skill] \ ((w.left \ {f}) \union w.dirty) :
            disk[g] # 0 => <<g, disk[g]>> \in stamps
    BY <1>2, <1>4, <2>3 DEF Stamping
  <2>7. Stamping(next)
    BY <1>4, <1>7, <2>3, <2>4, <2>5, <2>6 DEF Stamping
  <2>8. QED
    BY <2>1, <2>2, <2>7 DEF WalkInv
<1>9. walk' = next
  BY <1>1, <1>2, <1>3 DEF Scan!Stamp
<1>10. QED
  BY <1>6, <1>8, <1>9, ScanWalkStep DEF Scan!Stamp

\* A tree that is not seen whole is reported so.
LEMMA CutShortInv ==
  ASSUME ScanInv, Scan!CutShort
  PROVE  ScanInv'
<1>1. PICK w : w = walk
  OBVIOUS
<1>2. PICK next : next = [w EXCEPT !.left = {}, !.cut = @ \union {w.skill}]
  OBVIOUS
<1>3. w \in Scan!Walks /\ WalkInv(w) /\ w.step = "stamp"
  BY <1>1 DEF Scan!CutShort, ScanInv, Scan!TypeOK
<1>4. w.skill \in Skills
  BY <1>3 DEF WalkInv, Stamping
<1>5. next \in Scan!Walks
  BY <1>2, <1>3, <1>4 DEF Scan!Walks
<1>6. /\ next.baseline = w.baseline /\ next.found = w.found
      /\ next.cut = w.cut \union {w.skill}
      /\ next.dirty = w.dirty /\ next.step = "stamp" /\ next.skill = w.skill
      /\ next.left = {} /\ next.stamps = w.stamps /\ next.fingerprint = w.fingerprint
  BY <1>2, <1>3 DEF Scan!Walks
<1>7. WalkInv(next)
  <2>1. TrustedAll(next.baseline) /\ TrustedAll(next.found) /\ FoundIsOnDisk(next)
    BY <1>3, <1>6 DEF WalkInv, FoundIsOnDisk
  <2>2. Reading(next)
    BY <1>6 DEF Reading
  <2>3. Stamping(w)
    BY <1>3 DEF WalkInv
  <2>4. Stamping(next)
    BY <1>3, <1>6, <2>3 DEF Stamping
  <2>5. QED
    BY <2>1, <2>2, <2>4 DEF WalkInv
<1>8. walk' = next
  BY <1>1, <1>2 DEF Scan!CutShort
<1>9. QED
  BY <1>5, <1>7, <1>8, ScanWalkStep DEF Scan!CutShort

\* A skill that could not be read is passed over.
LEMMA FailedInv ==
  ASSUME ScanInv, walk # None, walk.step \in {"stamp", "read"}, Scan!Failed,
         UNCHANGED <<scanner_place, known, disk, edits, snapshot>>
  PROVE  ScanInv'
<1>1. PICK w : w = walk
  OBVIOUS
<1>2. PICK next : next = [w EXCEPT !.step = "pick", !.skill = None,
                                   !.active = @ \union {w.skill},
                                   !.left = {}, !.stamps = {}, !.fingerprint = {}]
  OBVIOUS
<1>3. w \in Scan!Walks /\ WalkInv(w) /\ w.step \in {"stamp", "read"}
  BY <1>1 DEF ScanInv, Scan!TypeOK
<1>4. w.skill \in Skills
  BY <1>3 DEF WalkInv, Stamping, Reading
<1>5. next \in Scan!Walks
  BY <1>2, <1>3, <1>4 DEF Scan!Walks, Scan!Versions
<1>6. /\ next.baseline = w.baseline /\ next.found = w.found /\ next.cut = w.cut
      /\ next.dirty = w.dirty /\ next.step = "pick"
  BY <1>2, <1>3 DEF Scan!Walks
<1>7. WalkInv(next)
  BY <1>3, <1>6 DEF WalkInv, FoundIsOnDisk, Stamping, Reading
<1>8. walk' = next /\ UNCHANGED scanner_cache
  BY <1>1, <1>2 DEF Scan!Failed
<1>9. QED
  BY <1>5, <1>7, <1>8, ScanWalkStep

\* A skill is reported with a fingerprint that may be trusted for its stamps.
LEMMA TakenInv ==
  ASSUME ScanInv, walk # None, NEW fingerprint, Scan!Taken(walk, fingerprint),
         NEW e, e = [stamps |-> walk.stamps, fingerprint |-> fingerprint],
         e \in Scan!Entries, walk.skill \in Skills, Trusted(e, walk.skill),
         walk.skill \notin walk.cut /\ Tree[walk.skill] \intersect walk.dirty = {} =>
           walk.stamps = Scan!OnDisk(walk.skill),
         UNCHANGED <<scanner_place, known, disk, edits, snapshot>>
  PROVE  ScanInv'
<1>1. PICK w : w = walk
  OBVIOUS
<1>2. PICK entries : entries = [scanner_cache EXCEPT ![w.skill] = e]
  OBVIOUS
<1>3. PICK shot : shot = snapshot
  OBVIOUS
<1>4. PICK found : found = [w.found EXCEPT ![w.skill] = e]
  OBVIOUS
<1>5. PICK next : next = [w EXCEPT !.step = "pick", !.skill = None,
                                   !.active = @ \union {w.skill}, !.found = found,
                                   !.stamps = {}, !.fingerprint = {}]
  OBVIOUS
<1>6. /\ w \in Scan!Walks /\ WalkInv(w) /\ w.skill \in Skills /\ Trusted(e, w.skill)
      /\ w.skill \notin w.cut /\ Tree[w.skill] \intersect w.dirty = {} =>
           e.stamps = Scan!OnDisk(w.skill)
  BY <1>1 DEF ScanInv, Scan!TypeOK
<1>7. entries \in [Skills -> Scan!Entries \union {None}] /\ TrustedAll(entries)
  BY <1>2, <1>6 DEF ScanInv, Scan!TypeOK, TrustedAll
<1>8. shot \in [Skills -> Scan!Entries \union {None}] /\ TrustedAll(shot)
  BY <1>3 DEF ScanInv, Scan!TypeOK
<1>9. w.found \in [Skills -> Scan!Entries \union {None}]
  BY <1>6, WalkFields
<1>10. found \in [Skills -> Scan!Entries \union {None}]
  BY <1>4, <1>6, <1>9
<1>11. next \in Scan!Walks
  BY <1>5, <1>6, <1>10 DEF Scan!Walks, Scan!Versions
<1>12. /\ next.baseline = w.baseline /\ next.found = found /\ next.cut = w.cut
       /\ next.dirty = w.dirty /\ next.step = "pick"
  BY <1>5, <1>6 DEF Scan!Walks
<1>13. WalkInv(next)
  <2>1. TrustedAll(found)
    BY <1>4, <1>6, <1>9 DEF WalkInv, TrustedAll
  <2>2. FoundIsOnDisk(next)
    BY <1>4, <1>6, <1>9, <1>12 DEF WalkInv, FoundIsOnDisk
  <2>3. Stamping(next) /\ Reading(next)
    BY <1>12 DEF Stamping, Reading
  <2>4. QED
    BY <1>6, <1>12, <2>1, <2>2, <2>3 DEF WalkInv
<1>14. scanner_cache' = entries
  BY <1>1, <1>2 DEF Scan!Taken
<1>15. walk' = next
  BY <1>1, <1>4, <1>5, <1>6 DEF Scan!Taken, Scan!Walks
<1>16. /\ scanner_place' \in [ScanTargets -> ScanDirs \union {None}]
       /\ known' \in [ScanTargets ->
                       [exists : BOOLEAN, dir : ScanDirs \union {None}] \union {None}]
  BY DEF ScanInv, Scan!TypeOK
<1>17. QED
  BY <1>3, <1>7, <1>8, <1>11, <1>13, <1>14, <1>15, <1>16, ScanQuietInv

\* The stamps of a tree that was seen whole and was not written are those of the disk.
LEMMA StampsAreOnDisk ==
  ASSUME ScanInv, walk # None, walk.step = "stamp", walk.left = {},
         walk.skill \notin walk.cut, Tree[walk.skill] \intersect walk.dirty = {}
  PROVE  walk.stamps = Scan!OnDisk(walk.skill)
<1>1. PICK w : w = walk
  OBVIOUS
<1>2. /\ Stamping(w) /\ w.step = "stamp" /\ w.left = {} /\ w.skill \notin w.cut
      /\ Tree[w.skill] \intersect w.dirty = {} /\ w.skill \in Skills
  BY <1>1 DEF ScanInv, WalkInv, Stamping
<1>3. w.stamps \subseteq Scan!OnDisk(w.skill)
  BY <1>2 DEF Stamping, StampsOf, Scan!OnDisk
<1>4. ASSUME NEW v \in Scan!OnDisk(w.skill) PROVE v \in w.stamps
  <2>1. v[1] \in Tree[w.skill] /\ v[2] \in 1 .. MaxEdits /\ disk[v[1]] = v[2]
        /\ v = <<v[1], v[2]>>
    BY DEF Scan!OnDisk
  <2>2. v[1] \notin w.left \union w.dirty /\ disk[v[1]] # 0
    BY <1>2, <2>1
  <2>3. <<v[1], disk[v[1]]>> \in w.stamps
    BY <1>2, <2>1, <2>2 DEF Stamping
  <2>4. QED
    BY <2>1, <2>3
<1>5. QED
  BY <1>1, <1>3, <1>4

\* The fingerprint of an entry with the stamps that were taken is reused.
LEMMA ReusedInv ==
  ASSUME ScanInv, walk # None, walk.step = "stamp", walk.left = {},
         NEW e \in Scan!Entries \union {None}, e # None => Trusted(e, walk.skill),
         Scan!Unchanged(e, walk.skill, walk.stamps), Scan!Taken(walk, e.fingerprint),
         UNCHANGED <<scanner_place, known, disk, edits, snapshot>>
  PROVE  ScanInv'
<1>1. e # None /\ e \in Scan!Entries /\ e.stamps = walk.stamps /\ Trusted(e, walk.skill)
  BY DEF Scan!Unchanged
<1>2. walk.skill \in Skills
  BY DEF ScanInv, WalkInv, Stamping
<1>3. e = [stamps |-> walk.stamps, fingerprint |-> e.fingerprint]
  BY <1>1 DEF Scan!Entries
<1>4. walk.skill \notin walk.cut /\ Tree[walk.skill] \intersect walk.dirty = {} =>
        walk.stamps = Scan!OnDisk(walk.skill)
  BY StampsAreOnDisk
<1>5. PICK fingerprint : fingerprint = e.fingerprint
  OBVIOUS
<1>6. Scan!Taken(walk, fingerprint) /\ e = [stamps |-> walk.stamps, fingerprint |-> fingerprint]
  BY <1>3, <1>5
<1>7. QED
  BY <1>1, <1>2, <1>4, <1>6, TakenInv

\* Equal stamps take the fingerprint of an entry; others are read.
LEMMA CompareInv ==
  ASSUME ScanInv, Scan!Compare
  PROVE  ScanInv'
<1>1. PICK w : w = walk
  OBVIOUS
<1>2. /\ walk # None /\ walk.step = "stamp" /\ walk.left = {}
      /\ UNCHANGED <<scanner_place, known, disk, edits, snapshot>>
  BY DEF Scan!Compare
<1>3. w \in Scan!Walks /\ WalkInv(w) /\ w.step = "stamp" /\ w.left = {}
  BY <1>1, <1>2 DEF ScanInv, Scan!TypeOK
<1>4. w.skill \in Skills /\ StampsOf(w.stamps, w.skill) /\ w.fingerprint = {}
  BY <1>3 DEF WalkInv, Stamping
<1>5. CASE Scan!Failed
  BY <1>2, <1>5, FailedInv
<1>6. CASE /\ Scan!Unchanged(scanner_cache[w.skill], w.skill, w.stamps)
           /\ Scan!Taken(walk, scanner_cache[w.skill].fingerprint)
  <2>1. PICK e : e = scanner_cache[w.skill]
    OBVIOUS
  <2>2. e \in Scan!Entries \union {None} /\ (e # None => Trusted(e, w.skill))
    BY <1>4, <2>1 DEF ScanInv, Scan!TypeOK, TrustedAll
  <2>3. QED
    BY <1>1, <1>2, <1>6, <2>1, <2>2, ReusedInv
<1>7. CASE /\ Scan!Unchanged(w.baseline[w.skill], w.skill, w.stamps)
           /\ Scan!Taken(walk, w.baseline[w.skill].fingerprint)
  <2>1. PICK e : e = w.baseline[w.skill]
    OBVIOUS
  <2>2. e \in Scan!Entries \union {None}
    BY <1>3, <1>4, <2>1, WalkFields
  <2>3. e # None => Trusted(e, w.skill)
    BY <1>3, <1>4, <2>1 DEF WalkInv, TrustedAll
  <2>4. QED
    BY <1>1, <1>2, <1>7, <2>1, <2>2, <2>3, ReusedInv
<1>8. CASE /\ walk' = [walk EXCEPT !.step = "read", !.left = {v[1] : v \in walk.stamps}]
           /\ UNCHANGED scanner_cache
  <2>1. PICK left : left = {v[1] : v \in w.stamps}
    OBVIOUS
  <2>2. PICK next : next = [w EXCEPT !.step = "read", !.left = left]
    OBVIOUS
  <2>3. left \subseteq ScanFiles
    BY <1>3, <2>1, WalkFields
  <2>4. next \in Scan!Walks
    BY <1>3, <2>2, <2>3 DEF Scan!Walks
  <2>5. /\ next.baseline = w.baseline /\ next.found = w.found /\ next.cut = w.cut
        /\ next.dirty = w.dirty /\ next.step = "read" /\ next.skill = w.skill
        /\ next.left = left /\ next.stamps = w.stamps /\ next.fingerprint = {}
    BY <1>3, <1>4, <2>2 DEF Scan!Walks
  <2>6. w.skill \notin w.cut /\ Tree[w.skill] \intersect w.dirty = {} =>
          w.stamps = Scan!OnDisk(w.skill)
    BY <1>1, <1>2, StampsAreOnDisk
  <2>7. Reading(next)
    <3>1. StampsOf({}, w.skill)
      BY DEF StampsOf
    <3>2. \A f \in left : \E v \in w.stamps : v[1] = f
      BY <2>1
    <3>3. \A v \in w.stamps : v[1] \in left
      BY <2>1
    <3>4. QED
      BY <1>4, <2>5, <2>6, <3>1, <3>2, <3>3 DEF Reading
  <2>8. WalkInv(next)
    BY <1>3, <2>5, <2>7 DEF WalkInv, FoundIsOnDisk, Stamping
  <2>9. walk' = next
    BY <1>1, <1>8, <2>1, <2>2
  <2>10. QED
    BY <1>2, <1>8, <2>4, <2>8, <2>9, ScanWalkStep
<1>9. QED
  BY <1>1, <1>5, <1>6, <1>7, <1>8 DEF Scan!Compare

\* A file that is read adds what is there now.
LEMMA ReadInv ==
  ASSUME ScanInv, NEW f \in ScanFiles, Scan!Read(f)
  PROVE  ScanInv'
<1>1. PICK w : w = walk
  OBVIOUS
<1>2. /\ walk # None /\ walk.step = "read" /\ f \in walk.left
      /\ UNCHANGED <<scanner_place, known, disk, edits, snapshot>>
  BY DEF Scan!Read
<1>3. CASE Scan!Failed
  BY <1>2, <1>3, FailedInv
<1>4. CASE /\ disk[f] # 0
           /\ walk' = [walk EXCEPT !.left = @ \ {f},
                                   !.fingerprint = @ \union {<<f, disk[f]>>}]
           /\ UNCHANGED scanner_cache
  <2>1. PICK n : n = disk[f]
    OBVIOUS
  <2>2. PICK fingerprint : fingerprint = w.fingerprint \union {<<f, n>>}
    OBVIOUS
  <2>3. PICK next : next = [w EXCEPT !.left = @ \ {f}, !.fingerprint = fingerprint]
    OBVIOUS
  <2>4. w \in Scan!Walks /\ WalkInv(w) /\ w.step = "read" /\ f \in w.left
    BY <1>1, <1>2 DEF ScanInv, Scan!TypeOK
  <2>5. n \in 1 .. MaxEdits /\ n <= edits
    <3>1. disk[f] \in 0 .. MaxEdits /\ disk[f] <= edits /\ MaxEdits \in Nat
      BY TreesAreOfFiles DEF ScanInv, Scan!TypeOK
    <3>2. QED
      BY <1>4, <2>1, <3>1
  <2>6. next \in Scan!Walks
    <3>1. fingerprint \subseteq ScanFiles \X (1 .. MaxEdits)
      BY <2>2, <2>4, <2>5, WalkFields
    <3>2. QED
      BY <2>3, <2>4, <3>1 DEF Scan!Walks, Scan!Versions
  <2>7. /\ next.baseline = w.baseline /\ next.found = w.found /\ next.cut = w.cut
        /\ next.dirty = w.dirty /\ next.step = "read" /\ next.skill = w.skill
        /\ next.left = w.left \ {f} /\ next.stamps = w.stamps
        /\ next.fingerprint = fingerprint
    BY <2>3, <2>4 DEF Scan!Walks
  <2>8. Reading(next)
    <3>1. Reading(w) /\ w.skill \in Skills
      BY <2>4 DEF WalkInv, Reading
    <3>2. PICK u \in w.stamps : u[1] = f
      BY <2>4, <3>1 DEF Reading
    <3>3. f \in Tree[w.skill] /\ \A v \in w.stamps : v = <<v[1], v[2]>>
      BY <2>4, <3>1, <3>2 DEF Reading, StampsOf
    <3>4. StampsOf(fingerprint, w.skill)
      BY <2>2, <2>4, <2>5, <3>1, <3>3 DEF Reading, StampsOf
    <3>5. \A g \in w.left \ {f} : \E v \in w.stamps : v[1] = g
      BY <2>4, <3>1 DEF Reading
    <3>6. \A v \in fingerprint :
            v[1] \notin w.left \ {f} /\ \E x \in w.stamps : x[1] = v[1]
      BY <2>2, <2>4, <3>1, <3>2 DEF Reading
    <3>7. ASSUME NEW v \in w.stamps, v[1] \notin w.left \ {f}, disk[v[1]] = v[2]
          PROVE  v \in fingerprint
      <4>1. CASE v[1] = f
        BY <2>1, <2>2, <3>3, <3>7, <4>1
      <4>2. CASE v[1] # f
        BY <2>2, <2>4, <3>1, <3>7, <4>2 DEF Reading
      <4>3. QED
        BY <4>1, <4>2
    <3>8. w.skill \notin w.cut /\ Tree[w.skill] \intersect w.dirty = {} =>
            w.stamps = Scan!OnDisk(w.skill)
      BY <2>4, <3>1 DEF Reading
    <3>9. StampsOf(w.stamps, w.skill)
      BY <2>4, <3>1 DEF Reading
    <3>10. QED
      BY <2>7, <3>1, <3>4, <3>5, <3>6, <3>7, <3>8, <3>9 DEF Reading
  <2>9. WalkInv(next)
    BY <2>4, <2>7, <2>8 DEF WalkInv, FoundIsOnDisk, Stamping
  <2>10. walk' = next
    BY <1>1, <1>4, <2>1, <2>2, <2>3
  <2>11. QED
    BY <1>2, <1>4, <2>6, <2>9, <2>10, ScanWalkStep
<1>5. QED
  BY <1>3, <1>4 DEF Scan!Read

\* What was read is an entry for the stamps that were taken before.
LEMMA EndReadInv ==
  ASSUME ScanInv, Scan!EndRead
  PROVE  ScanInv'
<1>1. PICK w : w = walk
  OBVIOUS
<1>2. /\ walk # None /\ w \in Scan!Walks /\ WalkInv(w) /\ w.step = "read" /\ w.left = {}
  BY <1>1 DEF Scan!EndRead, ScanInv, Scan!TypeOK
<1>3. PICK fingerprint : fingerprint = w.fingerprint
  OBVIOUS
<1>4. PICK e : e = [stamps |-> w.stamps, fingerprint |-> fingerprint]
  OBVIOUS
<1>5. e \in Scan!Entries /\ e.stamps = w.stamps /\ e.fingerprint = w.fingerprint
  BY <1>2, <1>3, <1>4, WalkFields DEF Scan!Entries, Scan!Versions
<1>6. w.skill \in Skills /\ Trusted(e, w.skill)
  BY <1>2, <1>5 DEF WalkInv, Reading, Trusted
<1>7. w.skill \notin w.cut /\ Tree[w.skill] \intersect w.dirty = {} =>
        w.stamps = Scan!OnDisk(w.skill)
  BY <1>2 DEF WalkInv, Reading
<1>8. Scan!Taken(walk, fingerprint) /\ UNCHANGED <<scanner_place, known, disk, edits, snapshot>>
  BY <1>1, <1>3 DEF Scan!EndRead
<1>9. QED
  BY <1>1, <1>2, <1>4, <1>5, <1>6, <1>7, <1>8, TakenInv

\* The cache is cut down and the snapshot replaced by what was found.
LEMMA EndScanInv ==
  ASSUME ScanInv, Scan!EndScan
  PROVE  ScanInv'
<1>1. PICK w : w = walk
  OBVIOUS
<1>2. w \in Scan!Walks /\ WalkInv(w)
  BY <1>1 DEF Scan!EndScan, ScanInv, Scan!TypeOK
<1>3. PICK entries : entries = [s \in Skills |-> IF s \in w.active THEN scanner_cache[s] ELSE None]
  OBVIOUS
<1>4. entries \in [Skills -> Scan!Entries \union {None}] /\ TrustedAll(entries)
  BY <1>3 DEF ScanInv, Scan!TypeOK, TrustedAll
<1>5. PICK shot : shot = snapshot'
  OBVIOUS
<1>6. shot \in [Skills -> Scan!Entries \union {None}] /\ TrustedAll(shot)
  <2>1. w.found \in [Skills -> Scan!Entries \union {None}] /\ TrustedAll(w.found)
    BY <1>2, WalkFields DEF WalkInv
  <2>2. shot = snapshot \/ shot = w.found
    BY <1>1, <1>5 DEF Scan!EndScan
  <2>3. QED
    BY <2>1, <2>2 DEF ScanInv, Scan!TypeOK
<1>7. /\ walk' = None /\ scanner_cache' = entries /\ UNCHANGED <<disk, edits>>
      /\ scanner_place' \in [ScanTargets -> ScanDirs \union {None}]
      /\ known' \in [ScanTargets ->
                       [exists : BOOLEAN, dir : ScanDirs \union {None}] \union {None}]
  BY <1>1, <1>3 DEF Scan!EndScan, ScanInv, Scan!TypeOK
<1>8. QED
  BY <1>4, <1>5, <1>6, <1>7, ScanQuietInv

\* A restart forgets the cache and the walk.
LEMMA ScanRestartInv ==
  ASSUME ScanInv, Scan!Restart
  PROVE  ScanInv'
<1>1. PICK entries : entries = Scan!NoEntries
  OBVIOUS
<1>2. PICK shot : shot = snapshot
  OBVIOUS
<1>3. /\ entries \in [Skills -> Scan!Entries \union {None}] /\ TrustedAll(entries)
      /\ shot \in [Skills -> Scan!Entries \union {None}] /\ TrustedAll(shot)
  BY <1>1, <1>2, NoEntriesAreTrusted DEF ScanInv, Scan!TypeOK
<1>4. /\ walk' = None /\ scanner_cache' = entries /\ snapshot' = shot
      /\ UNCHANGED <<disk, edits>>
      /\ scanner_place' \in [ScanTargets -> ScanDirs \union {None}]
      /\ known' \in [ScanTargets ->
                       [exists : BOOLEAN, dir : ScanDirs \union {None}] \union {None}]
  BY <1>1, <1>2 DEF Scan!Restart, ScanInv, Scan!TypeOK
<1>5. QED
  BY <1>3, <1>4, ScanQuietInv

\* A file that is written changes the disk for this file alone, and to nothing that was
\* ever stamped.
LEMMA WriteDisk ==
  ASSUME ScanInv, NEW f \in ScanFiles, Scan!Write(f)
  PROVE  /\ edits \in Nat /\ edits' = edits + 1 /\ edits' <= MaxEdits /\ MaxEdits \in Nat
         /\ disk' \in [ScanFiles -> 0 .. MaxEdits]
         /\ \A g \in ScanFiles : disk'[g] <= edits'
         /\ \A g \in ScanFiles : g # f => disk'[g] = disk[g]
         /\ disk'[f] = 0 \/ disk'[f] = edits + 1
<1>1. edits \in 0 .. MaxEdits /\ MaxEdits \in Nat /\ edits < MaxEdits /\ edits' = edits + 1
  BY TreesAreOfFiles DEF ScanInv, Scan!TypeOK, Scan!Write
<1>2. PICK n \in {0, edits + 1} : disk' = [disk EXCEPT ![f] = n]
  BY DEF Scan!Write
<1>3. disk \in [ScanFiles -> 0 .. MaxEdits] /\ \A g \in ScanFiles : disk[g] <= edits
  BY DEF ScanInv, Scan!TypeOK
<1>4. n \in 0 .. MaxEdits /\ n <= edits'
  BY <1>1, <1>2
<1>5. disk' \in [ScanFiles -> 0 .. MaxEdits]
  BY <1>2, <1>3, <1>4
<1>6. disk'[f] = n /\ \A g \in ScanFiles : g # f => disk'[g] = disk[g]
  BY <1>2, <1>3
<1>7. ASSUME NEW g \in ScanFiles PROVE disk'[g] <= edits'
  <2>1. disk[g] \in 0 .. MaxEdits /\ disk[g] <= edits
    BY <1>3
  <2>2. CASE g = f
    BY <1>4, <1>6, <2>2
  <2>3. CASE g # f
    BY <1>1, <1>6, <2>1, <2>3
  <2>4. QED
    BY <2>2, <2>3
<1>8. QED
  BY <1>1, <1>2, <1>5, <1>6, <1>7

\* A version that is on disk after the writing, and was not written by it, was there before.
LEMMA WriteStamps ==
  ASSUME ScanInv, NEW f \in ScanFiles, Scan!Write(f), NEW s \in Skills, NEW versions,
         StampsOf(versions, s)
  PROVE  /\ StampsOf(versions, s)'
         /\ \A v \in versions : disk'[v[1]] = v[2] => disk[v[1]] = v[2] /\ v[1] # f
         /\ \A v \in versions : v[1] # f => disk'[v[1]] = disk[v[1]]
<1>1. Tree[s] \subseteq ScanFiles
  BY TreesAreOfFiles
<1>2. ASSUME NEW v \in versions
      PROVE  v[1] \in ScanFiles /\ v[2] \in Nat \ {0} /\ v[2] <= edits
  BY <1>1 DEF StampsOf
<1>3. StampsOf(versions, s)'
  <2>1. \A v \in versions : v[2] <= edits'
    BY <1>2, WriteDisk
  <2>2. QED
    BY <2>1 DEF StampsOf
<1>4. ASSUME NEW v \in versions, disk'[v[1]] = v[2]
      PROVE  disk[v[1]] = v[2] /\ v[1] # f
  <2>1. v[1] # f
    BY <1>2, <1>4, WriteDisk
  <2>2. QED
    BY <1>2, <1>4, <2>1, WriteDisk
<1>5. QED
  BY <1>2, <1>3, <1>4, WriteDisk

\* A trusted entry is trusted after a writing too.
LEMMA WriteTrusted ==
  ASSUME ScanInv, NEW f \in ScanFiles, Scan!Write(f), NEW entries, TrustedAll(entries)
  PROVE  TrustedAll(entries)'
<1> SUFFICES ASSUME NEW s \in Skills, entries[s] # None PROVE Trusted(entries[s], s)'
  BY DEF TrustedAll
<1>1. PICK e : e = entries[s]
  OBVIOUS
<1>2. Trusted(e, s)
  BY <1>1 DEF TrustedAll
<1>3. StampsOf(e.stamps, s)' /\ StampsOf(e.fingerprint, s)'
  BY <1>2, WriteStamps DEF Trusted
<1>4. \A v \in e.stamps : disk'[v[1]] = v[2] => v \in e.fingerprint
  BY <1>2, WriteStamps DEF Trusted
<1>5. Trusted(e, s)'
  BY <1>2, <1>3, <1>4 DEF Trusted
<1>6. QED
  BY <1>1, <1>5

\* The versions of a tree that was not written are the same.
LEMMA WriteOnDisk ==
  ASSUME ScanInv, NEW f \in ScanFiles, Scan!Write(f), NEW s \in Skills, f \notin Tree[s]
  PROVE  Scan!OnDisk(s)' = Scan!OnDisk(s)
<1>1. \A g \in Tree[s] : disk'[g] = disk[g]
  BY WriteDisk, TreesAreOfFiles
<1>2. QED
  BY <1>1 DEF Scan!OnDisk

\* A writing at any moment of a scan keeps the invariant.
LEMMA ScanWriteInv ==
  ASSUME ScanInv, NEW f \in ScanFiles, Scan!Write(f)
  PROVE  ScanInv'
<1>1. PICK entries : entries = scanner_cache
  OBVIOUS
<1>2. PICK shot : shot = snapshot
  OBVIOUS
<1>3. TrustedAll(entries)' /\ TrustedAll(shot)'
  BY <1>1, <1>2, WriteTrusted DEF ScanInv
<1>4. UNCHANGED <<scanner_place, known, scanner_cache, snapshot>>
  BY DEF Scan!Write
<1>5. CASE walk = None
  <2>1. walk' = None
    BY <1>5 DEF Scan!Write
  <2>2. Scan!TypeOK'
    BY <1>4, <2>1, WriteDisk DEF ScanInv, Scan!TypeOK
  <2>3. QED
    BY <1>1, <1>2, <1>3, <1>4, <2>1, <2>2, WriteDisk DEF ScanInv
<1>6. CASE walk # None
  <2>1. PICK w : w = walk
    OBVIOUS
  <2>2. w \in Scan!Walks /\ WalkInv(w)
    BY <1>6, <2>1 DEF ScanInv, Scan!TypeOK
  <2>3. PICK next : next = [w EXCEPT !.dirty = @ \union {f}]
    OBVIOUS
  <2>4. walk' = next
    BY <1>6, <2>1, <2>3 DEF Scan!Write
  <2>5. next \in Scan!Walks
    BY <2>2, <2>3 DEF Scan!Walks
  <2>6. /\ next.baseline = w.baseline /\ next.found = w.found /\ next.cut = w.cut
        /\ next.dirty = w.dirty \union {f} /\ next.step = w.step /\ next.skill = w.skill
        /\ next.left = w.left /\ next.stamps = w.stamps /\ next.fingerprint = w.fingerprint
    BY <2>2, <2>3 DEF Scan!Walks
  <2>7. TrustedAll(next.baseline)' /\ TrustedAll(next.found)'
    <3>1. PICK base : base = w.baseline
      OBVIOUS
    <3>2. PICK found : found = w.found
      OBVIOUS
    <3>3. TrustedAll(base) /\ TrustedAll(found)
      BY <2>2, <3>1, <3>2 DEF WalkInv
    <3>4. TrustedAll(base)' /\ TrustedAll(found)'
      BY <3>3, WriteTrusted
    <3>5. QED
      BY <2>6, <3>1, <3>2, <3>4
  <2>8. FoundIsOnDisk(next)'
    <3>1. ASSUME NEW s \in Skills \ next.cut, next.found[s] # None,
                 Tree[s] \intersect next.dirty = {}
          PROVE  next.found[s].stamps = Scan!OnDisk(s)'
      <4>1. f \notin Tree[s] /\ w.found[s].stamps = Scan!OnDisk(s)
        BY <2>2, <2>6, <3>1 DEF WalkInv, FoundIsOnDisk
      <4>2. QED
        BY <2>6, <4>1, WriteOnDisk
    <3>2. QED
      BY <3>1 DEF FoundIsOnDisk
  <2>9. Stamping(next)'
    <3>1. CASE w.step # "stamp"
      BY <2>6, <3>1 DEF Stamping
    <3>2. CASE w.step = "stamp"
      <4>1. Stamping(w)
        BY <2>2 DEF WalkInv
      <4>2. PICK s \in Skills : s = w.skill
        BY <3>2, <4>1 DEF Stamping
      <4>3. PICK stamps : stamps = w.stamps
        OBVIOUS
      <4>4. StampsOf(stamps, s) /\ Tree[s] \subseteq ScanFiles
        BY <3>2, <4>1, <4>2, <4>3, TreesAreOfFiles DEF Stamping
      <4>5. StampsOf(stamps, s)'
        BY <4>4, WriteStamps
      <4>6. \A v \in stamps : v[1] \notin w.dirty \union {f} => disk'[v[1]] = v[2]
        <5>1. \A v \in stamps : v[1] # f => disk'[v[1]] = disk[v[1]]
          BY <4>4, WriteStamps
        <5>2. QED
          BY <3>2, <4>1, <4>3, <5>1 DEF Stamping
      <4>7. s \notin w.cut =>
              \A g \in Tree[s] \ (w.left \union (w.dirty \union {f})) :
                disk'[g] # 0 => <<g, disk'[g]>> \in stamps
        <5>1. \A g \in Tree[s] : g # f => disk'[g] = disk[g]
          BY <4>4, WriteDisk
        <5>2. s \notin w.cut => \A g \in Tree[s] \ (w.left \union w.dirty) :
                disk[g] # 0 => <<g, disk[g]>> \in stamps
          BY <3>2, <4>1, <4>2, <4>3 DEF Stamping
        <5>3. QED
          BY <5>1, <5>2
      <4>8. /\ w.left \subseteq Tree[s] /\ w.fingerprint = {}
            /\ \A v \in stamps : v[1] \notin w.left
        BY <3>2, <4>1, <4>2, <4>3 DEF Stamping
      <4>9. QED
        BY <2>6, <4>2, <4>3, <4>5, <4>6, <4>7, <4>8 DEF Stamping
    <3>3. QED
      BY <3>1, <3>2
  <2>10. Reading(next)'
    <3>1. CASE w.step # "read"
      BY <2>6, <3>1 DEF Reading
    <3>2. CASE w.step = "read"
      <4>1. Reading(w)
        BY <2>2 DEF WalkInv
      <4>2. PICK s \in Skills : s = w.skill
        BY <3>2, <4>1 DEF Reading
      <4>3. PICK stamps : stamps = w.stamps
        OBVIOUS
      <4>4. PICK fingerprint : fingerprint = w.fingerprint
        OBVIOUS
      <4>5. StampsOf(stamps, s) /\ StampsOf(fingerprint, s)
        BY <3>2, <4>1, <4>2, <4>3, <4>4 DEF Reading
      <4>6. StampsOf(stamps, s)' /\ StampsOf(fingerprint, s)'
        BY <4>5, WriteStamps
      <4>7. \A v \in stamps : v[1] \notin w.left /\ disk'[v[1]] = v[2] => v \in fingerprint
        <5>1. \A v \in stamps : disk'[v[1]] = v[2] => disk[v[1]] = v[2]
          BY <4>5, WriteStamps
        <5>2. QED
          BY <3>2, <4>1, <4>3, <4>4, <5>1 DEF Reading
      <4>8. s \notin w.cut /\ Tree[s] \intersect (w.dirty \union {f}) = {} =>
              stamps = Scan!OnDisk(s)'
        <5>1. s \notin w.cut /\ Tree[s] \intersect w.dirty = {} => stamps = Scan!OnDisk(s)
          BY <3>2, <4>1, <4>2, <4>3 DEF Reading
        <5>2. QED
          BY <5>1, WriteOnDisk
      <4>9. /\ \A g \in w.left : \E v \in stamps : v[1] = g
            /\ \A v \in fingerprint : v[1] \notin w.left /\ \E u \in stamps : u[1] = v[1]
        BY <3>2, <4>1, <4>3, <4>4 DEF Reading
      <4>10. QED
        BY <2>6, <4>2, <4>3, <4>4, <4>6, <4>7, <4>8, <4>9 DEF Reading
    <3>3. QED
      BY <3>1, <3>2
  <2>11. Scan!TypeOK'
    BY <1>4, <2>4, <2>5, WriteDisk DEF ScanInv, Scan!TypeOK
  <2>12. QED
    BY <1>1, <1>2, <1>3, <1>4, <2>4, <2>7, <2>8, <2>9, <2>10, <2>11, WriteDisk
       DEF ScanInv, WalkInv
<1>7. QED
  BY <1>5, <1>6

\* Every step of the scanner keeps what is remembered trustworthy.
LEMMA ScanStepInv == ScanInv /\ [Scan!Next]_scanner => ScanInv'
<1> SUFFICES ASSUME ScanInv, [Scan!Next]_scanner PROVE ScanInv'
  OBVIOUS
<1>1. CASE UNCHANGED scanner
  BY <1>1, ScanIdleStep DEF scanner, ScanInv, Scan!TypeOK
<1>2. CASE \E f \in ScanFiles : Scan!Write(f) \/ Scan!Stamp(f) \/ Scan!Read(f)
  BY <1>2, ScanWriteInv, StampInv, ReadInv
<1>3. CASE \E t \in ScanTargets :
             Scan!Replace(t) \/ Scan!WalkRoot(t) \/ \E s \in Skills : Scan!BeginRescan(t, s)
  BY <1>3, ReplaceInv, WalkRootInv, BeginRescanInv
<1>4. CASE \E named \in SUBSET ScanTargets : Scan!Discover(named) \/ Scan!BeginScan(named)
  BY <1>4, DiscoverInv, BeginScanInv
<1>5. CASE \E s \in Skills : Scan!Inspect(s)
  BY <1>5, InspectInv
<1>6. CASE Scan!CutShort \/ Scan!Compare \/ Scan!EndRead \/ Scan!EndScan \/ Scan!Restart
  BY <1>6, CutShortInv, CompareInv, EndReadInv, EndScanInv, ScanRestartInv
<1>7. QED
  BY <1>1, <1>2, <1>3, <1>4, <1>5, <1>6 DEF Scan!Next

=============================================================================
