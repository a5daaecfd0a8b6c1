------------------------------- MODULE Scanner -------------------------------
(***************************************************************************)
(* The scan for skills: ScanService with its SkillDetector, the targets    *)
(* that agent discovery recorded, and the snapshot of the last scan.  A    *)
(* scan is incremental: a skill whose files have the sizes and times of a  *)
(* cached or persisted entry keeps the fingerprint of that entry, and its  *)
(* files are not read.  The user writes files while a scan runs.           *)
(*                                                                         *)
(* A number stands for one writing of a file: for its content and for its  *)
(* modification time; 0 stands for no file.                                *)
(***************************************************************************)
EXTENDS Naturals

CONSTANTS
  Targets,   \* logical targets of agents
  Dirs,      \* directories, as the file system identifies them
  Skills,    \* directories that may hold a SKILL.md
  Files,
  Below,     \* [Dirs -> SUBSET Skills]: the skills in the tree of a directory
  Tree,      \* [Skills -> SUBSET Files]: the files of a skill that the walk comes to (it
             \* passes over what lies too deep, links and what it may not look at)
  Marker,    \* [Skills -> Files]: its SKILL.md
  MaxEdits,  \* bound: writings of files
  None

VARIABLES
  place,     \* [Targets -> Dirs or None]: the directory at the path of a target
  known,     \* per target: None, or what the discovery snapshot says of it
  disk,      \* [Files -> Nat]
  edits,     \* writings so far
  cache,     \* SkillDetector.cache: [Skills -> Entry or None]
  snapshot,  \* the setting scan_snapshot: [Skills -> Entry or None]
  walk       \* the scan that runs, None between two

scanner_vars == <<place, known, disk, edits, cache, snapshot, walk>>

Versions == SUBSET (Files \X (1 .. MaxEdits))

\* CachedSkill and DiscoveredSkill: the stamps of the files and what was read in them.
Entries == [stamps : Versions, fingerprint : Versions]

NoEntries == [s \in Skills |-> None]

OnDisk(s) == {v \in Tree[s] \X (1 .. MaxEdits) : disk[v[1]] = v[2]}

Walks == [targets : SUBSET Targets,    \* the scopes still to walk
          skills  : SUBSET Skills,     \* of the scope that is walked
          skill   : Skills \union {None}, step : {"pick", "stamp", "read"},
          left    : SUBSET Files, stamps : Versions, fingerprint : Versions,
          baseline : [Skills -> Entries \union {None}],
          found   : [Skills -> Entries \union {None}],
          active  : SUBSET Skills,
          cut     : SUBSET Skills,     \* reported: not all of the tree was seen
          dirty   : SUBSET Files]      \* history: written since the scan began

Walk(targets, skills, baseline) ==
  [targets |-> targets, skills |-> skills, skill |-> None, step |-> "pick", left |-> {},
   stamps |-> {}, fingerprint |-> {}, baseline |-> baseline, found |-> NoEntries,
   active |-> {}, cut |-> {}, dirty |-> {}]

Init ==
  /\ place \in [Targets -> Dirs]
  /\ known = [t \in Targets |-> None]
  /\ disk = [f \in Files |-> 1] /\ edits = 1
  /\ cache = NoEntries /\ snapshot = NoEntries
  /\ walk = None

-----------------------------------------------------------------------------
(***************************************************************************)
(* The user, and the discovery of targets                                  *)
(***************************************************************************)
Write(f) ==
  /\ edits < MaxEdits /\ edits' = edits + 1
  /\ \E n \in {0, edits + 1} : disk' = [disk EXCEPT ![f] = n]
  /\ walk' = IF walk = None THEN None ELSE [walk EXCEPT !.dirty = @ \union {f}]
  /\ UNCHANGED <<place, known, cache, snapshot>>

\* A directory is moved away, made, or replaced by another one.
Replace(t) ==
  /\ \E d \in Dirs \union {None} : d # place[t] /\ place' = [place EXCEPT ![t] = d]
  /\ UNCHANGED <<known, disk, edits, cache, snapshot, walk>>

\* DiscoverAgents: what is at the path of a target now.
Discovered(t) == [exists |-> place[t] # None, dir |-> place[t]]

\* What merge_history keeps of a target that the profiles no longer name.
Merged(t, named) ==
  IF t \in named THEN Discovered(t)
  ELSE IF known[t] = None THEN None
  ELSE [exists |-> FALSE, dir |-> None]

\* AgentRepository::replace; a scan holds the connection to its end.
Discover(named) ==
  /\ walk = None
  /\ known' = [t \in Targets |-> Merged(t, named)]
  /\ UNCHANGED <<place, disk, edits, cache, snapshot, walk>>

-----------------------------------------------------------------------------
(***************************************************************************)
(* The commands                                                            *)
(***************************************************************************)
\* register_discovery_target, and the second look of registered_scopes_for.
Registers(t) == known[t] # None /\ known[t].exists /\ place[t] = known[t].dir

\* One of the requested targets for every directory.
OnePerDirectory(targets, asked) ==
  /\ targets \subseteq asked
  /\ \A t \in asked : \E u \in targets : place[u] = place[t]
  /\ \A t, u \in targets : place[t] = place[u] => t = u

\* run_scan: no request means every known target, and one that cannot be registered
\* refuses them all.  (The registration and the walk are two holds of the connection; what
\* comes between is a change of place, which the walk looks at again, or of known, which
\* it does not read.)
BeginScan(requested) ==
  LET asked == IF requested = {} THEN {t \in Targets : known[t] # None} ELSE requested IN
  /\ walk = None
  /\ \A t \in asked : Registers(t)
  /\ \E targets \in SUBSET asked :
       OnePerDirectory(targets, asked) /\ walk' = Walk(targets, {}, snapshot)
  /\ UNCHANGED <<place, known, disk, edits, cache, snapshot>>

BeginRescan(t, s) ==
  /\ walk = None /\ Registers(t) /\ s \in Below[place[t]]
  /\ walk' = Walk({}, {s}, NoEntries)
  /\ UNCHANGED <<place, known, disk, edits, cache, snapshot>>

\* The root is looked up again by its path; one that is gone is reported and passed over.
WalkRoot(t) ==
  /\ walk # None /\ walk.step = "pick" /\ walk.skills = {} /\ t \in walk.targets
  /\ walk' = [walk EXCEPT !.targets = @ \ {t},
                          !.skills = IF place[t] = None THEN {} ELSE Below[place[t]]]
  /\ UNCHANGED <<place, known, disk, edits, cache, snapshot>>

\* walk_directory: a directory is a candidate when it has a SKILL.md.
Inspect(s) ==
  /\ walk # None /\ walk.step = "pick" /\ s \in walk.skills
  /\ walk' = IF disk[Marker[s]] = 0 THEN [walk EXCEPT !.skills = @ \ {s}]
             ELSE [walk EXCEPT !.skills = @ \ {s}, !.skill = s, !.step = "stamp",
                               !.left = Tree[s], !.stamps = {}, !.fingerprint = {}]
  /\ UNCHANGED <<place, known, disk, edits, cache, snapshot>>

\* collect_tree
Stamp(f) ==
  /\ walk # None /\ walk.step = "stamp" /\ f \in walk.left
  /\ walk' = [walk EXCEPT !.left = @ \ {f},
                          !.stamps = IF disk[f] = 0 THEN @ ELSE @ \union {<<f, disk[f]>>}]
  /\ UNCHANGED <<place, known, disk, edits, cache, snapshot>>

\* The limit of entries is reached, or a directory cannot be read: both are reported.
CutShort ==
  /\ walk # None /\ walk.step = "stamp" /\ walk.left # {}
  /\ walk' = [walk EXCEPT !.left = {}, !.cut = @ \union {walk.skill}]
  /\ UNCHANGED <<place, known, disk, edits, cache, snapshot>>

\* Fault: only the SKILL.md is compared.
Unchanged_Marker(e, s, stamps) ==
  e # None /\ {v \in e.stamps : v[1] = Marker[s]} = {v \in stamps : v[1] = Marker[s]}

Unchanged(e, s, stamps) == e # None /\ e.stamps = stamps

\* The skill has its fingerprint: it is cached and reported.
Taken(w, fingerprint) ==
  LET e == [stamps |-> w.stamps, fingerprint |-> fingerprint] IN
  /\ cache' = [cache EXCEPT ![w.skill] = e]
  /\ walk' = [w EXCEPT !.step = "pick", !.skill = None, !.active = @ \union {w.skill},
                       !.found[w.skill] = e, !.stamps = {}, !.fingerprint = {}]

\* An error of one skill is reported; its directory stays active.
Failed ==
  /\ walk' = [walk EXCEPT !.step = "pick", !.skill = None, !.active = @ \union {walk.skill},
                          !.left = {}, !.stamps = {}, !.fingerprint = {}]
  /\ UNCHANGED cache

\* inspect_candidate: the cache comes before the snapshot.
Compare ==
  LET s == walk.skill IN
  /\ walk # None /\ walk.step = "stamp" /\ walk.left = {}
  /\ IF disk[Marker[s]] = 0 THEN Failed
     ELSE IF Unchanged(cache[s], s, walk.stamps) THEN Taken(walk, cache[s].fingerprint)
     ELSE IF Unchanged(walk.baseline[s], s, walk.stamps)
       THEN Taken(walk, walk.baseline[s].fingerprint)
     ELSE /\ walk' = [walk EXCEPT !.step = "read", !.left = {v[1] : v \in walk.stamps}]
          /\ UNCHANGED cache
  /\ UNCHANGED <<place, known, disk, edits, snapshot>>

\* fingerprint
Read(f) ==
  /\ walk # None /\ walk.step = "read" /\ f \in walk.left
  /\ IF disk[f] = 0 THEN Failed
     ELSE /\ walk' = [walk EXCEPT !.left = @ \ {f}, !.fingerprint = @ \union {<<f, disk[f]>>}]
          /\ UNCHANGED cache
  /\ UNCHANGED <<place, known, disk, edits, snapshot>>

EndRead ==
  /\ walk # None /\ walk.step = "read" /\ walk.left = {}
  /\ Taken(walk, walk.fingerprint)
  /\ UNCHANGED <<place, known, disk, edits, snapshot>>

\* The cache forgets what this scan did not see, and the snapshot is replaced, by the one
\* skill of a rescan too; or it cannot be written.
EndScan ==
  /\ walk # None /\ walk.step = "pick" /\ walk.targets = {} /\ walk.skills = {}
  /\ cache' = [s \in Skills |-> IF s \in walk.active THEN cache[s] ELSE None]
  /\ snapshot' \in {snapshot, walk.found}
  /\ walk' = None
  /\ UNCHANGED <<place, known, disk, edits>>

Restart ==
  /\ cache' = NoEntries /\ walk' = None
  /\ UNCHANGED <<place, known, disk, edits, snapshot>>

Next ==
  \/ \E f \in Files : Write(f) \/ Stamp(f) \/ Read(f)
  \/ \E t \in Targets : Replace(t) \/ WalkRoot(t) \/ \E s \in Skills : BeginRescan(t, s)
  \/ \E named \in SUBSET Targets : Discover(named) \/ BeginScan(named)
  \/ \E s \in Skills : Inspect(s)
  \/ CutShort \/ Compare \/ EndRead \/ EndScan \/ Restart

Spec == Init /\ [][Next]_scanner_vars

-----------------------------------------------------------------------------
\* The state of the scanner.
TypeOK ==
  /\ place \in [Targets -> Dirs \union {None}]
  /\ known \in [Targets -> [exists : BOOLEAN, dir : Dirs \union {None}] \union {None}]
  /\ disk \in [Files -> 0 .. MaxEdits] /\ edits \in 0 .. MaxEdits
  /\ cache \in [Skills -> Entries \union {None}]
  /\ snapshot \in [Skills -> Entries \union {None}]
  /\ walk = None \/ walk \in Walks

\* A skill that is reported with no complaint, none of whose files were written while the
\* scan ran, is reported with the fingerprint of what is on disk, though its files may not
\* have been read: whatever earlier scans, cut short, overtaken by writings or ended by a
\* restart, have left in the cache and in the snapshot
\* (src/crates/skillhub-adapters/src/scanner/skill_detector.rs:285).
FingerprintsAreOfTheDisk ==
  walk # None =>
    \A s \in Skills \ walk.cut :
      walk.found[s] # None /\ Tree[s] \intersect walk.dirty = {} =>
        walk.found[s].fingerprint = OnDisk(s)
=============================================================================
