------------------------------ MODULE AppUpdate ------------------------------
(***************************************************************************)
(* The update of the application itself: UpdateService with its records in *)
(* the settings table, the staging directory it shares with the platform   *)
(* installer, the release page it reads, and the startup probe that the    *)
(* next process reads.                                                     *)
(*                                                                         *)
(* A release has one package for this platform; its number stands for the  *)
(* version, for the package's bytes and for its staging path, which the    *)
(* code builds from version and asset name.  Commands exist only while the *)
(* process is up; calls interleave at every await.                         *)
(***************************************************************************)
EXTENDS Naturals

CONSTANTS
  Releases,  \* version numbers, the first one installed at the start
  Signed,    \* the releases whose signature the application's key verifies
  Garbage,   \* bytes that are no release
  Users,     \* concurrent calls
  None

VARIABLES
  installed,  \* the version of the program on disk
  published,  \* the latest release
  phase,      \* how far the process has come up
  probe,      \* the probe file: none, starting, stuck (starting, and old), failed, healthy
  previous,   \* what the starting process read in the probe file
  cache,      \* application_update_last_check, None when too old
  pending,    \* application_update_pending
  staging,    \* [Releases -> bytes or None]: the file at each staging path
  offers,     \* the releases whose manifest the user was shown
  calls,      \* [Users -> Call]
  reported    \* history: rollbacks reported since the last prepare

records == <<cache, pending>>
startup == <<phase, probe, previous>>
vars == <<installed, published, startup, records, staging, offers, calls, reported>>

-----------------------------------------------------------------------------
\* ApplicationUpdate: available when latest is newer, with the manifest of a release
\* when it could be fetched.
Updates == [current : Releases, latest : Releases, manifest : Releases \union {None}]
Available(u) == u.latest > u.current

Pending == [current : Releases, target : Releases, state : {"ready", "failed", "rolled_back"},
            rollback : Releases \union {None}]

Steps == {"idle", "latest", "manifest", "save", "fetch", "verify", "discard", "mark_failed",
          "mark_downloaded", "handover", "plugin"}

Call == [step : Steps, release : Releases \union {None}, update : Updates \union {None},
         bytes : Releases \union {Garbage, None}]

Idle == [step |-> "idle", release |-> None, update |-> None, bytes |-> None]

At(c, step) == phase = "up" /\ calls[c].step = step
Goto(c, step) == calls' = [calls EXCEPT ![c].step = step]
Answer(c) == calls' = [calls EXCEPT ![c] = Idle]

Init ==
  /\ installed = CHOOSE v \in Releases : \A w \in Releases : v <= w
  /\ published = installed
  /\ phase = "off" /\ probe = "none" /\ previous = "none"
  /\ cache = None /\ pending = None
  /\ staging = [v \in Releases |-> None]
  /\ offers = {}
  /\ calls = [c \in Users |-> Idle]
  /\ reported = 0

-----------------------------------------------------------------------------
(* Starting                                                                *)

\* read_startup_probe: no file counts as healthy.
Unhealthy(p) == p \in {"failed", "stuck"}

\* run(): the probe is read, then overwritten; a failing write is ignored.
Start ==
  /\ phase = "off" /\ phase' = "starting"
  /\ previous' = probe
  /\ probe' \in {"starting", probe}
  /\ UNCHANGED <<installed, published, records, staging, offers, calls, reported>>

\* A panic after the failed probe was written.
StartFails ==
  /\ phase \in {"starting", "checked"} /\ phase' = "off"
  /\ probe' \in {"failed", probe} /\ previous' = "none"
  /\ UNCHANGED <<installed, published, records, staging, offers, calls, reported>>

\* Fault: the marker stays.
Consumed_KeepsMarker(p) == [p EXCEPT !.state = "rolled_back"]

\* Fault: the record is as if nothing had been prepared.
Consumed_NotChecked(p) == [p EXCEPT !.state = "not_checked", !.rollback = None]

\* consume_rollback_marker: the state changes once, the marker is gone.
Consumed(p) == [p EXCEPT !.state = "rolled_back", !.rollback = None]

Rollback ==
  IF pending # None /\ pending.rollback # None
  THEN /\ pending' = Consumed(pending)
       /\ reported' = reported + 1
  ELSE UNCHANGED <<pending, reported>>

\* The database is open; a start that was not healthy before is rolled back.
RollbackIfUnhealthy ==
  /\ phase = "starting" /\ phase' = "checked"
  /\ IF Unhealthy(previous) THEN Rollback ELSE UNCHANGED <<pending, reported>>
  /\ previous' = "none"
  /\ UNCHANGED <<installed, published, probe, cache, staging, offers, calls>>

\* The first query succeeded.
StartSucceeds ==
  /\ phase = "checked" /\ phase' = "up"
  /\ probe' \in {"healthy", probe}
  /\ UNCHANGED <<installed, published, previous, records, staging, offers, calls, reported>>

\* The process ends, at any time.
Stop ==
  /\ phase # "off" /\ phase' = "off" /\ previous' = "none"
  /\ offers' = {} /\ calls' = [c \in Users |-> Idle]
  /\ UNCHANGED <<installed, published, probe, records, staging, reported>>

\* More than default_startup_probe_timeout since the probe was written.
ProbeAges ==
  /\ probe = "starting" /\ probe' = "stuck"
  /\ UNCHANGED <<installed, published, phase, previous, records, staging, offers, calls, reported>>

-----------------------------------------------------------------------------
(* Looking for a release                                                   *)

\* external: the project publishes its next release.
Publish ==
  /\ \E v \in Releases : v > published /\ published' = v
  /\ UNCHANGED <<installed, startup, records, staging, offers, calls, reported>>

\* CHECK_CACHE_SECONDS pass.
CacheExpires ==
  /\ cache # None /\ cache' = None
  /\ UNCHANGED <<installed, published, startup, pending, staging, offers, calls, reported>>

\* fresh_check: the record answers the request it was made for.
FreshCheck(current) == cache # None /\ cache.current = current

\* check: the record, then the release page; a disabled policy answers at once and keeps
\* nothing.
Check(c) ==
  /\ At(c, "idle")
  /\ IF ~FreshCheck(installed) THEN Goto(c, "latest") /\ UNCHANGED offers
     ELSE IF Available(cache) /\ cache.manifest = None
     THEN /\ calls' = [calls EXCEPT ![c].step = "manifest", ![c].update = cache]
          /\ UNCHANGED offers
     ELSE /\ offers' = offers \union ({cache.manifest} \ {None})
          /\ UNCHANGED calls
  /\ UNCHANGED <<installed, published, startup, records, staging, reported>>

\* GithubReleaseProvider::latest.
FetchLatest(c) ==
  /\ At(c, "latest")
  /\ \/ Answer(c)
     \/ LET found == [current |-> installed, latest |-> published, manifest |-> None]
        IN calls' = [calls EXCEPT ![c].step = IF Available(found) THEN "manifest" ELSE "save",
                                  ![c].update = found]
  /\ UNCHANGED <<installed, published, startup, records, staging, offers, reported>>

\* Fault: the second reading is not compared with the first.
Attached_AnyRelease(u, m) == [u EXCEPT !.manifest = m]

\* attach_manifest: the page is read a second time and may show another release.
Attached(u, m) == [u EXCEPT !.manifest = IF m = u.latest THEN m ELSE @]

AttachManifest(c) ==
  /\ At(c, "manifest")
  /\ calls' = [calls EXCEPT ![c].step = "save",
                            ![c].update = Attached(@, published)]
  /\ UNCHANGED <<installed, published, startup, records, staging, offers, reported>>

\* The network, the signature sidecar or the digest fails.
ManifestFails(c) ==
  /\ At(c, "manifest") /\ Goto(c, "save")
  /\ UNCHANGED <<installed, published, startup, records, staging, offers, reported>>

SaveCheck(c) ==
  /\ At(c, "save")
  /\ cache' = calls[c].update
  /\ offers' = offers \union ({calls[c].update.manifest} \ {None})
  /\ Answer(c)
  /\ UNCHANGED <<installed, published, startup, pending, staging, reported>>

-----------------------------------------------------------------------------
(* Taking the release                                                      *)

\* prepare_download and record_ready; the facade makes the running version the
\* rollback point.
Prepare(v) ==
  /\ phase = "up" /\ v \in offers
  /\ v > installed
  /\ pending' = [current |-> installed, target |-> v, state |-> "ready", rollback |-> installed]
  /\ reported' = 0
  /\ UNCHANGED <<installed, published, startup, cache, staging, offers, calls>>

\* download: the package named is the prepared one; an older file goes first.
Download(c, v) ==
  /\ At(c, "idle")
  /\ pending # None /\ pending.target = v
  /\ staging' = [staging EXCEPT ![v] = None]
  /\ calls' = [calls EXCEPT ![c].step = "fetch", ![c].release = v]
  /\ UNCHANGED <<installed, published, startup, records, offers, reported>>

\* Fault: the file is written in place, and checked afterwards.
Persisted_InPlace(v, bytes) == bytes

\* download_artifact: a temporary file, renamed when size and digest are right.
Persisted(v, bytes) == IF bytes = v THEN v ELSE staging[v]

FetchPackage(c, bytes) ==
  LET v == calls[c].release
  IN /\ At(c, "fetch")
     /\ staging' = [staging EXCEPT ![v] = Persisted(v, bytes)]
     /\ Goto(c, IF bytes = v THEN "verify" ELSE "discard")
     /\ UNCHANGED <<installed, published, startup, records, offers, reported>>

\* verify_downloaded_artifact: the file again, and its signature.
VerifyPackage(c) ==
  LET v == calls[c].release
  IN /\ At(c, "verify")
     /\ Goto(c, IF staging[v] = v /\ v \in Signed THEN "mark_downloaded" ELSE "discard")
     /\ UNCHANGED <<installed, published, startup, records, staging, offers, reported>>

MarkDownloaded(c) ==
  /\ At(c, "mark_downloaded")
  /\ pending' = IF pending.target = calls[c].release
                THEN [pending EXCEPT !.state = "ready"] ELSE pending
  /\ Answer(c)
  /\ UNCHANGED <<installed, published, startup, cache, staging, offers, reported>>

DiscardPackage(c) ==
  /\ At(c, "discard")
  /\ staging' = [staging EXCEPT ![calls[c].release] = None]
  /\ Goto(c, "mark_failed")
  /\ UNCHANGED <<installed, published, startup, records, offers, reported>>

\* mark_failed: whichever update is prepared by now.
MarkFailed(c) ==
  /\ At(c, "mark_failed")
  /\ pending' = [pending EXCEPT !.state = "failed"]
  /\ Answer(c)
  /\ UNCHANGED <<installed, published, startup, cache, staging, offers, reported>>

\* install: a ready record whose file is there; the installer reads the file later.
Install(c) ==
  /\ At(c, "idle")
  /\ pending # None /\ pending.state = "ready"
  /\ staging[pending.target] # None
  /\ calls' = [calls EXCEPT ![c].step = "handover", ![c].release = pending.target]
  /\ UNCHANGED <<installed, published, startup, records, staging, offers, reported>>

\* TauriUpdateInstaller::install.
HandOver(c) ==
  LET bytes == staging[calls[c].release]
  IN /\ At(c, "handover")
     /\ IF bytes = None THEN Answer(c)
        ELSE calls' = [calls EXCEPT ![c].step = "plugin", ![c].bytes = bytes]
     /\ UNCHANGED <<installed, published, startup, records, staging, offers, reported>>

\* external: the updater plugin finds a newer release, installs the bytes it was given
\* and ends the process.
PluginInstalls(c) ==
  /\ At(c, "plugin")
  /\ published > installed
  /\ installed' = IF calls[c].bytes \in Releases THEN calls[c].bytes ELSE installed
  /\ phase' = "off" /\ offers' = {} /\ calls' = [d \in Users |-> Idle]
  /\ UNCHANGED <<published, probe, previous, records, staging, reported>>

PluginRefuses(c) ==
  /\ At(c, "plugin") /\ Answer(c)
  /\ UNCHANGED <<installed, published, startup, records, staging, offers, reported>>

\* rollback_application_update.
RollbackCommand ==
  /\ phase = "up" /\ Rollback
  /\ UNCHANGED <<installed, published, startup, cache, staging, offers, calls>>

-----------------------------------------------------------------------------
Next ==
  \/ Start \/ StartFails \/ RollbackIfUnhealthy \/ StartSucceeds \/ Stop \/ ProbeAges
  \/ Publish \/ CacheExpires \/ RollbackCommand
  \/ \E v \in Releases : Prepare(v)
  \/ \E c \in Users :
       \/ Check(c) \/ FetchLatest(c) \/ AttachManifest(c) \/ ManifestFails(c) \/ SaveCheck(c)
       \/ \E v \in Releases : Download(c, v)
       \/ \E bytes \in Releases \union {Garbage} : FetchPackage(c, bytes)
       \/ VerifyPackage(c) \/ MarkDownloaded(c) \/ DiscardPackage(c) \/ MarkFailed(c)
       \/ Install(c) \/ HandOver(c) \/ PluginInstalls(c) \/ PluginRefuses(c)

Spec == Init /\ [][Next]_vars

-----------------------------------------------------------------------------
(* Properties                                                              *)

TypeOK ==
  /\ installed \in Releases /\ published \in Releases
  /\ phase \in {"off", "starting", "checked", "up"}
  /\ probe \in {"none", "starting", "stuck", "failed", "healthy"}
  /\ previous \in {"none", "starting", "stuck", "failed", "healthy"}
  /\ cache \in Updates \union {None}
  /\ pending \in Pending \union {None}
  /\ staging \in [Releases -> Releases \union {Garbage, None}]
  /\ offers \subseteq Releases
  /\ calls \in [Users -> Call]
  /\ reported \in Nat

\* Whatever downloads, discards and installations run at once, the bytes given to the
\* platform installer are those of the prepared package: install reads the record and
\* the file at different times, and the record says ready before there is a file.
PackageIsWhole ==
  \A c \in Users : At(c, "plugin") => calls[c].bytes = calls[c].release

\* A user is only offered a release newer than the program that runs, although the record
\* of the last check outlives the update; and a manifest is the manifest of the release
\* it is shown with, although the page is read twice.
OffersAreConsistent ==
  /\ \A v \in offers : v > installed
  /\ cache # None => cache.manifest \in {None, cache.latest}

\* A prepared update is reported as rolled back once, however often the program fails to
\* start and however often the user asks.
RollbackReportedOnce == reported <= 1

=============================================================================
