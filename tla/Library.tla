------------------------------- MODULE Library --------------------------------
(***************************************************************************)
(* The central library: the version store (content-addressed objects,      *)
(* manifests, the `current` file of each skill), library.json, the rows of *)
(* the catalog and of the sources, and the commands of                     *)
(* LocalApplicationFacade that write them.                                 *)
(*                                                                         *)
(* A tree is the set of the objects its files become; a version is a tree  *)
(* of one skill (the manifest, whose digest is the version id, names the   *)
(* skill).  A command is a script of steps, each one file or database      *)
(* operation.  A step that fails is replaced by the cleanup that the code  *)
(* runs at that point, itself a script.                                    *)
(***************************************************************************)
EXTENDS Naturals, Sequences, FiniteSets

CONSTANTS
  Skills,        \* skill ids
  Trees,         \* the directory contents there are, each a set of objects
  Sources,       \* local directories skills are taken from
  Plans,         \* ids of prepared imports
  Callers,
  Requests,      \* the commands that are issued, a subset of Commands
  Disturbances,  \* "upstream" (a source directory changes), "crash"
  Failing,       \* pairs <<command, step>>: where a file or database operation may fail
  MaxFaults,     \* such failures in one command
  None,          \* no tree, no source, no caller
  Absent         \* no record in library.json

Commands == {"create", "import", "choose", "save", "markdown", "update", "relink",
             "rename", "delete"}
Objects == UNION Trees
Versions == [skill : Skills, tree : Trees]
Version(s, t) == [skill |-> s, tree |-> t]

\* What library.json says of a skill: nothing, or a record naming a version or none.
Records == Trees \union {None, Absent}

ASSUME ConstantsAssumption ==
  /\ None \notin Trees \union Sources \union Callers \union Objects
  /\ Absent \notin Trees \union {None}
  /\ MaxFaults \in Nat /\ Requests \subseteq Commands

VARIABLES
  catalog,   \* skills with a row in `skills`
  behind,    \* skills whose record in library.json lacks a change of their row (name, tags...)
  link,      \* [Skills -> Sources or None]: `skill_sources`
  revision,  \* [Sources -> Trees or None]: `sources.revision`, one per source
  objects,   \* files under objects/
  versions,  \* manifests under versions/<skill>/
  current,   \* [Skills -> Trees or None]: metadata/<skill>/current
  portable,  \* [Skills -> Records]: library.json
  plans,     \* [Plans -> Sources or None]: the in-memory map of prepared imports
  lock,      \* who holds the database mutex
  call,      \* [Callers -> Call]
  upstream,  \* [Sources -> Trees]: what the source directories hold
  accepted   \* [Sources -> SUBSET Trees]: what they held, or a relink declared to
             \* be theirs; read by properties only

database == <<catalog, link, revision>>
store == <<objects, versions, current>>
records == <<portable, behind>>
world == <<upstream, accepted>>
vars == <<database, store, records, plans, lock, call, world>>

-----------------------------------------------------------------------------
(* Commands                                                                *)

\* What a command's outcome is compared with.
Snapshot(rows, changed, manifests, pointers, json) ==
  [catalog |-> rows, behind |-> changed, versions |-> manifests, current |-> pointers,
   portable |-> json]

NoRecords == [s \in Skills |-> Absent]
NoPointers == [s \in Skills |-> None]

\* previous is what current() answered at the start; left, the objects capture has
\* still to put; sweep, those discard has still to look at and doomed the one it is
\* about to remove; seen, the library.json it has read; work, the versions a delete
\* has still to discard.
Idle == [op |-> "none", steps |-> <<>>, skill |-> None, tree |-> None, source |-> None,
         plan |-> None, previous |-> None, created |-> FALSE, left |-> {}, sweep |-> {},
         doomed |-> None, work |-> {}, seen |-> NoRecords, error |-> FALSE, faults |-> 0,
         before |-> Snapshot({}, {}, {}, NoPointers, NoRecords)]

DatabaseSteps ==
  {"row", "rerow", "unrow", "lookup", "verify", "origin", "revise", "hash", "check"}

StepNames == DatabaseSteps \union
  {"scan", "capture", "open", "lock", "point", "read", "record", "close", "reread", "unrecord",
   "list", "drop", "clear", "repoint", "discard", "rerecord"}

\* "open" is CentralLibrary::initialize, which reads library.json and fails when it cannot;
\* save_portable_skill and remove_portable_skill "read" it again.
Script ==
  [create   |-> <<"scan", "capture", "open", "lock", "row", "point", "read", "record", "origin",
                  "revise">>,
   import   |-> <<"lock", "open", "scan", "capture", "row", "point", "read", "record", "origin",
                  "close">>,
   choose   |-> <<"lookup", "point", "open", "read", "record">>,
   save     |-> <<"lookup", "capture", "point", "open", "read", "record">>,
   markdown |-> <<"lookup", "capture", "point", "open", "read", "record", "reread">>,
   update   |-> <<"hash", "check", "scan", "capture", "point", "verify", "open", "read",
                  "record", "revise">>,
   relink   |-> <<"lock", "lookup", "origin", "revise">>,
   rename   |-> <<"lock", "lookup", "row", "open", "read", "record">>,
   delete   |-> <<"lookup", "open", "unrow", "read", "unrecord", "list", "drop", "clear">>]

\* Fault: the pointer of the skill stays.
Cleanup_LeavesPointer == <<"unrow", "read", "unrecord", "discard">>

\* cleanup_import_state
Cleanup == <<"unrow", "clear", "read", "unrecord", "discard">>

\* Fault: a version that was there before the command is discarded too.
Discarded_Always(k) == <<"discard">>

\* A cleanup discards the version only if this command created it.
Discarded(k) == IF k.created THEN <<"discard">> ELSE <<>>

Undone == {"point", "read", "record", "origin"}

\* A cleanup that fails ends the command, but create_skill discards the version at
\* the end whatever happened before, and apply_source_update ignores a failed repoint.
CleanupFails(k) ==
  CASE k.op = "create" /\ Len(k.steps) > 1 -> Discarded(k)
    [] k.op = "update" /\ Head(k.steps) = "repoint" -> Tail(k.steps)
    [] OTHER -> <<>>

\* What the code does when step Head(k.steps) of call k fails for the first time.  Nothing
\* is put back when library.json cannot be opened after apply_source_update has moved the
\* pointer, or after update_catalog_skill has written the row.
Undo(k) ==
  LET step == Head(k.steps)
  IN CASE k.op = "create" /\ step = "row" -> Discarded(k) \o Discarded(k)
       [] k.op = "create" /\ step \in {"open", "revise"} -> Discarded(k)
       [] k.op = "create" /\ step \in Undone -> Cleanup \o Discarded(k)
       [] k.op = "import" /\ step \in Undone \union {"row"} -> Cleanup
       [] k.op = "choose" /\ step \in {"open", "read", "record"} -> <<"repoint">>
       [] k.op \in {"save", "markdown", "update"} /\ step = "point" -> Discarded(k)
       [] \/ k.op \in {"save", "markdown"} /\ step \in {"open", "read", "record"}
          \/ k.op = "update" /\ step \in {"read", "record"} -> <<"repoint">> \o Discarded(k)
       [] \/ k.op = "rename" /\ step \in {"read", "record"}
          \/ k.op = "delete" /\ step \in {"read", "unrecord"} -> <<"rerow">>
       [] k.op = "delete" /\ step \in {"list", "drop", "discard", "clear"} ->
            <<"rerow", "read", "rerecord">>
       [] OTHER -> <<>>

Calls ==
  [op : Commands \union {"none"}, steps : Seq(StepNames), skill : Skills \union {None},
   tree : Trees \union {None}, source : Sources \union {None}, plan : Plans \union {None},
   previous : Trees \union {None}, created : BOOLEAN, left : SUBSET Objects,
   sweep : SUBSET Objects, doomed : Objects \union {None}, work : SUBSET Trees,
   seen : [Skills -> Records], error : BOOLEAN, faults : 0..MaxFaults,
   before : [catalog : SUBSET Skills, behind : SUBSET Skills, versions : SUBSET Versions,
             current : [Skills -> Trees \union {None}], portable : [Skills -> Records]]]

Busy(c) == call[c].op # "none"
Sweeping(c) == call[c].sweep # {} \/ call[c].doomed # None

\* Caller c is about to run the step; a discard runs to its end first.
At(c, step) ==
  /\ Busy(c) /\ ~Sweeping(c)
  /\ call[c].steps # <<>> /\ Head(call[c].steps) = step

Advanced(k) == [k EXCEPT !.steps = Tail(@)]
Advance(c) == call' = [call EXCEPT ![c] = Advanced(@)]

\* The database mutex is free, or held by c for the whole command.
HasDatabase(c) == lock \in {None, c}

CurrentResolves(s) == current[s] = None \/ Version(s, current[s]) \in versions

\* A skill id that was never given out, or of which no trace is left.
Fresh(s) ==
  /\ s \notin catalog \union behind
  /\ link[s] = None /\ current[s] = None /\ portable[s] = Absent
  /\ \A t \in Trees : Version(s, t) \notin versions
  /\ \A c \in Callers : call[c].skill # s

Begins(c, op, s, fields) ==
  /\ op \in Requests /\ ~Busy(c)
  /\ call' = [call EXCEPT ![c] =
       [fields EXCEPT !.op = op, !.skill = s, !.steps = Script[op],
          !.left = IF fields.tree = None THEN {} ELSE fields.tree,
          !.before = Snapshot(catalog, behind, versions, current, portable)]]
  /\ UNCHANGED <<database, store, records, plans, lock, world>>

-----------------------------------------------------------------------------
(* Prepared imports                                                        *)

PrepareImport(p, src) ==
  /\ "import" \in Requests /\ plans[p] = None
  /\ plans' = [plans EXCEPT ![p] = src]
  /\ UNCHANGED <<database, store, records, lock, call, world>>

\* cancel_import, and commit_import deciding to skip or to reuse the existing skill.
DropPlan(p) ==
  /\ plans[p] # None
  /\ plans' = [plans EXCEPT ![p] = None]
  /\ UNCHANGED <<database, store, records, lock, call, world>>

-----------------------------------------------------------------------------
(* How each command starts                                                 *)

Create(c, s, src) == Fresh(s) /\ Begins(c, "create", s, [Idle EXCEPT !.source = src])

\* The plan is read before the database is locked.
CommitImport(c, s, p) ==
  /\ plans[p] # None /\ Fresh(s)
  /\ Begins(c, "import", s, [Idle EXCEPT !.source = plans[p], !.plan = p])

\* The commands on an existing skill ask current() first, which fails when the
\* pointer names a version that is gone: the command then answers without effect.
Existing(s) == s \in catalog /\ CurrentResolves(s)

SetCurrentVersion(c, s, t) ==
  /\ Existing(s)
  /\ Begins(c, "choose", s, [Idle EXCEPT !.tree = t, !.previous = current[s]])

SaveSkillContent(c, s, t) ==
  /\ Existing(s)
  /\ Begins(c, "save", s, [Idle EXCEPT !.tree = t, !.previous = current[s]])

\* The editor sends the identity of the file it has read; the whole version is read
\* to build the next one.
SaveMarkdownContent(c, s, expected, t) ==
  /\ Existing(s) /\ current[s] = expected /\ expected \subseteq objects
  /\ Begins(c, "markdown", s, [Idle EXCEPT !.tree = t, !.previous = expected])

ApplySourceUpdate(c, s) ==
  /\ Existing(s) /\ link[s] # None
  /\ Begins(c, "update", s, Idle)

RelinkSource(c, s, src) ==
  /\ Existing(s)
  /\ Begins(c, "relink", s, [Idle EXCEPT !.source = src, !.previous = current[s]])

\* Fault: library.json is written without the current version.
UpdateCatalogSkill_NoVersion(c, s) ==
  /\ Existing(s)
  /\ Begins(c, "rename", s, [Idle EXCEPT !.previous = current[s]])

\* rename, metadata, lifecycle, trial: library.json gets the version read here.
UpdateCatalogSkill(c, s) ==
  /\ Existing(s)
  /\ Begins(c, "rename", s, [Idle EXCEPT !.tree = current[s], !.previous = current[s]])

\* Its deployments are gone: see Deployment.
DeleteSkill(c, s) ==
  /\ Existing(s)
  /\ Begins(c, "delete", s, [Idle EXCEPT !.previous = current[s]])

-----------------------------------------------------------------------------
(* Steps: the version store                                                *)

\* collect lists a source directory.
Scan(c) ==
  LET src == IF call[c].op = "update" THEN link[call[c].skill] ELSE call[c].source
  IN /\ At(c, "scan") /\ src # None
     /\ call' = [call EXCEPT ![c] = [Advanced(@) EXCEPT
          !.source = src, !.tree = upstream[src], !.left = upstream[src]]]
     /\ UNCHANGED <<database, store, records, plans, lock, world>>

\* object_store::put: an object that is there already is taken as it is.
Put(c) ==
  /\ At(c, "capture") /\ call[c].tree \in Trees
  /\ \E o \in call[c].left :
       /\ objects' = objects \union {o}
       /\ call' = [call EXCEPT ![c].left = @ \ {o}]
  /\ UNCHANGED <<database, versions, current, records, plans, lock, world>>

\* capture_with_status: the manifest appears by a hard link, unless it is there.
PublishManifest(c) ==
  LET v == Version(call[c].skill, call[c].tree)
  IN /\ At(c, "capture") /\ call[c].tree \in Trees /\ call[c].left = {}
     /\ versions' = versions \union {v}
     /\ call' = [call EXCEPT ![c] = [Advanced(@) EXCEPT !.created = v \notin versions]]
     /\ UNCHANGED <<database, objects, current, records, plans, lock, world>>

\* set_current; a version without manifest is refused.
Point(c) ==
  /\ At(c, "point") /\ Version(call[c].skill, call[c].tree) \in versions
  /\ current' = [current EXCEPT ![call[c].skill] = call[c].tree]
  /\ Advance(c)
  /\ UNCHANGED <<database, objects, versions, records, plans, lock, world>>

\* restore_version_pointer
Repoint(c) ==
  LET k == call[c]
  IN /\ At(c, "repoint")
     /\ k.previous # None => Version(k.skill, k.previous) \in versions
     /\ current' = [current EXCEPT ![k.skill] = k.previous]
     /\ Advance(c)
     /\ UNCHANGED <<database, objects, versions, records, plans, lock, world>>

ClearCurrent(c) ==
  /\ At(c, "clear")
  /\ current' = [current EXCEPT ![call[c].skill] = None]
  /\ Advance(c)
  /\ UNCHANGED <<database, objects, versions, records, plans, lock, world>>

\* discard_sync: the manifest goes first, then each object no other manifest names.
Discard(c) ==
  LET v == Version(call[c].skill, call[c].tree)
  IN /\ At(c, "discard") /\ v \in versions
     /\ versions' = versions \ {v}
     /\ call' = [call EXCEPT ![c] = [Advanced(@) EXCEPT !.left = v.tree, !.sweep = v.tree]]
     /\ UNCHANGED <<database, objects, current, records, plans, lock, world>>

\* Fault: the manifest being discarded is counted, which is gone already.
Referenced_CountsItself(o) == Cardinality({v \in versions : o \in v.tree}) > 1

\* any_manifest_references
Referenced(o) == \E v \in versions : o \in v.tree

Inspect(c, o) ==
  /\ call[c].doomed = None /\ o \in call[c].sweep
  /\ call' = [call EXCEPT ![c].sweep = @ \ {o},
                          ![c].doomed = IF o \in objects /\ ~Referenced(o) THEN o ELSE None]
  /\ UNCHANGED <<database, store, records, plans, lock, world>>

RemoveObject(c) ==
  /\ call[c].doomed # None
  /\ objects' = objects \ {call[c].doomed}
  /\ call' = [call EXCEPT ![c].doomed = None]
  /\ UNCHANGED <<database, versions, current, records, plans, lock, world>>

\* remove_skill_sync lists the versions and discards one after the other.
ListVersions(c) ==
  /\ At(c, "list")
  /\ call' = [call EXCEPT ![c] = [Advanced(@) EXCEPT
       !.work = {t \in Trees : Version(call[c].skill, t) \in versions}]]
  /\ UNCHANGED <<database, store, records, plans, lock, world>>

DropVersions(c) ==
  /\ At(c, "drop")
  /\ \/ /\ call[c].work = {}
        /\ Advance(c)
     \/ \E t \in call[c].work :
          call' = [call EXCEPT ![c].work = @ \ {t}, ![c].tree = t, ![c].left = t,
                               ![c].steps = <<"discard">> \o @]
  /\ UNCHANGED <<database, store, records, plans, lock, world>>

\* read_file of the version just saved, for the answer.
Reread(c) ==
  /\ At(c, "reread") /\ Version(call[c].skill, call[c].tree) \in versions
  /\ Advance(c)
  /\ UNCHANGED <<database, store, records, plans, lock, world>>

-----------------------------------------------------------------------------
(* Steps: library.json                                                     *)

\* CentralLibrary::initialize writes a file without records where there is none.
OpenLibrary(c) ==
  /\ At(c, "open")
  /\ Advance(c)
  /\ UNCHANGED <<database, store, records, plans, lock, world>>

ReadLibraryJson(c) ==
  /\ At(c, "read")
  /\ call' = [call EXCEPT ![c] = [Advanced(@) EXCEPT !.seen = portable]]
  /\ UNCHANGED <<database, store, records, plans, lock, world>>

\* Fault: the file is written with the one record.
WriteLibraryJson_OneRecord(c) ==
  LET k == call[c]
      says == CASE Head(k.steps) = "record" -> k.tree
                [] Head(k.steps) = "rerecord" -> k.previous
                [] OTHER -> Absent
  IN /\ At(c, "record") \/ At(c, "rerecord") \/ At(c, "unrecord")
     /\ portable' = [s \in {k.skill} |-> says]
     /\ behind' = behind \ {k.skill}
     /\ call' = [call EXCEPT ![c] = [Advanced(@) EXCEPT !.seen = NoRecords]]
     /\ UNCHANGED <<database, store, plans, lock, world>>

\* save_portable_skill and remove_portable_skill replace the whole file; the record takes all
\* that the row says.
WriteLibraryJson(c) ==
  LET k == call[c]
      says == CASE Head(k.steps) = "record" -> k.tree
                [] Head(k.steps) = "rerecord" -> k.previous
                [] OTHER -> Absent
  IN /\ At(c, "record") \/ At(c, "rerecord") \/ At(c, "unrecord")
     /\ portable' = [k.seen EXCEPT ![k.skill] = says]
     /\ behind' = behind \ {k.skill}
     /\ call' = [call EXCEPT ![c] = [Advanced(@) EXCEPT !.seen = NoRecords]]
     /\ UNCHANGED <<database, store, plans, lock, world>>

-----------------------------------------------------------------------------
(* Steps: the database                                                     *)

LockDatabase(c) ==
  /\ At(c, "lock") /\ lock = None
  /\ lock' = c
  /\ Advance(c)
  /\ UNCHANGED <<database, store, records, plans, world>>

\* get_sync
Lookup(c) ==
  /\ At(c, "lookup") \/ At(c, "verify")
  /\ HasDatabase(c) /\ call[c].skill \in catalog
  /\ Advance(c)
  /\ UNCHANGED <<database, store, records, plans, lock, world>>

\* insert_sync: a new row, the changed row of a rename, or the row from before that a failed
\* rename or delete puts back.
InsertRow(c) ==
  LET s == call[c].skill
  IN /\ At(c, "row") \/ At(c, "rerow")
     /\ HasDatabase(c)
     /\ catalog' = catalog \union {s}
     /\ behind' = IF call[c].op # "rename" THEN behind
                  ELSE IF At(c, "row") \/ s \in call[c].before.behind THEN behind \union {s}
                  ELSE behind \ {s}
     /\ Advance(c)
     /\ UNCHANGED <<link, revision, store, portable, plans, lock, world>>

\* remove_sync takes the link to the source along.
RemoveRow(c) ==
  /\ At(c, "unrow") /\ HasDatabase(c)
  /\ catalog' = catalog \ {call[c].skill}
  /\ link' = [link EXCEPT ![call[c].skill] = None]
  /\ Advance(c)
  /\ UNCHANGED <<revision, store, records, plans, lock, world>>

\* SourceRepository::relink
Relink(c) ==
  /\ At(c, "origin") /\ HasDatabase(c)
  /\ link' = [link EXCEPT ![call[c].skill] = call[c].source]
  /\ Advance(c)
  /\ UNCHANGED <<catalog, revision, store, records, plans, lock, world>>

\* SourceRepository::set_revision: a relink declares the current version to be what
\* the source holds, the other commands write what they captured.
SetRevision(c) ==
  LET k == call[c]
      src == link[k.skill]
      tree == IF k.op = "relink" THEN k.previous ELSE k.tree
  IN /\ At(c, "revise") /\ HasDatabase(c)
     /\ IF src = None
        THEN UNCHANGED <<revision, accepted>>
        ELSE /\ revision' = [revision EXCEPT ![src] = tree]
             /\ accepted' = [accepted EXCEPT ![src] = @ \union ({tree} \ {None})]
     /\ Advance(c)
     /\ UNCHANGED <<catalog, link, store, records, plans, lock, upstream>>

\* for_skill and revision_for_skill, which fails for a linked source whose revision is NULL;
\* hash_tree then puts the objects of the directory into the store, as a capture does.
HasRevision(s) == link[s] # None /\ revision[link[s]] # None

HashTree(c) ==
  LET src == link[call[c].skill]
  IN /\ At(c, "hash") /\ HasDatabase(c) /\ HasRevision(call[c].skill)
     /\ objects' = objects \union upstream[src]
     /\ call' = [call EXCEPT ![c] = [Advanced(@) EXCEPT !.tree = upstream[src]]]
     /\ UNCHANGED <<database, versions, current, records, plans, lock, world>>

\* Fault: the current version is not looked at.
SourceState_ByRevision(s, tree) ==
  IF revision[link[s]] = tree THEN "up_to_date" ELSE "update_available"

\* check_source_update compares the hashed directory and the current version with the
\* recorded revision.
SourceState(s, tree) ==
  CASE current[s] # revision[link[s]] -> "update_available_with_local_changes"
    [] revision[link[s]] = tree -> "up_to_date"
    [] OTHER -> "update_available"

\* apply_source_update with TakeUpstream; the other decisions change nothing.
MayTakeUpstream(s, tree) ==
  HasRevision(s) /\ CurrentResolves(s) /\ SourceState(s, tree) = "update_available"

CheckSource(c) ==
  /\ At(c, "check") /\ HasDatabase(c)
  /\ MayTakeUpstream(call[c].skill, call[c].tree)
  /\ call' = [call EXCEPT ![c] = [Advanced(@) EXCEPT !.previous = current[call[c].skill]]]
  /\ UNCHANGED <<database, store, records, plans, lock, world>>

\* commit_import removes the plan last.
ClosePlan(c) ==
  /\ At(c, "close")
  /\ plans' = [plans EXCEPT ![call[c].plan] = None]
  /\ Advance(c)
  /\ UNCHANGED <<database, store, records, lock, world>>

-----------------------------------------------------------------------------
(* Failures, answers, the world                                            *)

\* What a step needs besides the database; without it the step fails.
Ready(c) ==
  LET k == call[c]
  IN CASE At(c, "lookup") \/ At(c, "verify") -> k.skill \in catalog
       [] At(c, "hash") -> HasRevision(k.skill)
       [] At(c, "check") -> MayTakeUpstream(k.skill, k.tree)
       [] At(c, "scan") -> k.op = "update" => link[k.skill] # None
       [] At(c, "point") \/ At(c, "discard") \/ At(c, "reread") ->
            Version(k.skill, k.tree) \in versions
       [] At(c, "repoint") ->
            k.previous # None => Version(k.skill, k.previous) \in versions
       [] OTHER -> TRUE

Fail(c) ==
  LET k == call[c]
      fault == k.steps # <<>> /\ <<k.op, Head(k.steps)>> \in Failing /\ k.faults < MaxFaults
  IN /\ Busy(c) /\ ~Sweeping(c) /\ k.steps # <<>>
     /\ Head(k.steps) \in DatabaseSteps => HasDatabase(c)
     /\ fault \/ ~Ready(c)
     /\ call' = [call EXCEPT ![c].steps = IF k.error THEN CleanupFails(k) ELSE Undo(k),
                             ![c].error = TRUE, ![c].seen = NoRecords,
                             ![c].faults = @ + (IF Ready(c) THEN 1 ELSE 0)]
     /\ UNCHANGED <<database, store, records, plans, lock, world>>

Answer(c) ==
  /\ Busy(c) /\ ~Sweeping(c) /\ call[c].steps = <<>>
  /\ call' = [call EXCEPT ![c] = Idle]
  /\ lock' = IF lock = c THEN None ELSE lock
  /\ UNCHANGED <<database, store, records, plans, world>>

UpstreamChanges(src, t) ==
  /\ "upstream" \in Disturbances
  /\ upstream' = [upstream EXCEPT ![src] = t]
  /\ accepted' = [accepted EXCEPT ![src] = @ \union {t}]
  /\ UNCHANGED <<database, store, records, plans, lock, call>>

\* The process ends: files and rows stay.
Crash ==
  /\ "crash" \in Disturbances
  /\ call' = [c \in Callers |-> Idle]
  /\ plans' = [p \in Plans |-> None]
  /\ lock' = None
  /\ UNCHANGED <<database, store, records, world>>

-----------------------------------------------------------------------------
Init ==
  /\ catalog = {} /\ behind = {} /\ objects = {} /\ versions = {}
  /\ link = [s \in Skills |-> None]
  /\ revision = [src \in Sources |-> None]
  /\ current = NoPointers
  /\ portable = NoRecords
  /\ plans = [p \in Plans |-> None]
  /\ lock = None
  /\ call = [c \in Callers |-> Idle]
  /\ upstream \in [Sources -> Trees]
  /\ accepted = [src \in Sources |-> {upstream[src]}]

Start(c) ==
  \E s \in Skills :
    \/ \E src \in Sources : Create(c, s, src) \/ RelinkSource(c, s, src)
    \/ \E p \in Plans : CommitImport(c, s, p)
    \/ \E t \in Trees : SetCurrentVersion(c, s, t) \/ SaveSkillContent(c, s, t)
    \/ \E t, u \in Trees : SaveMarkdownContent(c, s, t, u)
    \/ ApplySourceUpdate(c, s) \/ UpdateCatalogSkill(c, s) \/ DeleteSkill(c, s)

Step(c) ==
  \/ Scan(c) \/ Put(c) \/ PublishManifest(c) \/ Point(c) \/ Repoint(c) \/ ClearCurrent(c)
  \/ Discard(c) \/ (\E o \in Objects : Inspect(c, o)) \/ RemoveObject(c)
  \/ ListVersions(c) \/ DropVersions(c) \/ Reread(c)
  \/ OpenLibrary(c) \/ ReadLibraryJson(c) \/ WriteLibraryJson(c)
  \/ LockDatabase(c) \/ Lookup(c) \/ InsertRow(c) \/ RemoveRow(c) \/ Relink(c)
  \/ SetRevision(c) \/ HashTree(c) \/ CheckSource(c) \/ ClosePlan(c)
  \/ Fail(c) \/ Answer(c)

Next ==
  \/ \E c \in Callers : Start(c) \/ Step(c)
  \/ \E p \in Plans : DropPlan(p) \/ \E src \in Sources : PrepareImport(p, src)
  \/ \E src \in Sources, t \in Trees : UpstreamChanges(src, t)
  \/ Crash

Spec == Init /\ [][Next]_vars

-----------------------------------------------------------------------------
TypeOK ==
  /\ catalog \subseteq Skills /\ behind \subseteq Skills
  /\ objects \subseteq Objects /\ versions \subseteq Versions
  /\ link \in [Skills -> Sources \union {None}]
  /\ revision \in [Sources -> Trees \union {None}]
  /\ current \in [Skills -> Trees \union {None}]
  /\ portable \in [Skills -> Records]
  /\ plans \in [Plans -> Sources \union {None}]
  /\ lock \in Callers \union {None}
  /\ upstream \in [Sources -> Trees] /\ accepted \in [Sources -> SUBSET Trees]
  /\ call \in [Callers -> Calls]

\* Every version with a manifest can be read in full: object files are shared by
\* versions and skills, and discard_sync removes only what no manifest names.
VersionsAreWhole == \A v \in versions : v.tree \subseteq objects

\* The `current` file of a skill in the catalog names a version that is there: it is
\* moved before a version is discarded, in every cleanup and across a crash.
CurrentVersionExists == \A s \in catalog : CurrentResolves(s)

\* The failures that the code rolls back in full; the README names the others.
RolledBack ==
  {p \in Commands \X {"scan", "capture", "open", "row", "lookup", "point", "read", "record",
                      "origin", "hash", "check", "unrow", "unrecord"} :
     p \notin {<<"update", "open">>, <<"rename", "open">>}}

\* A command answered with an error leaves rows, versions, pointers and library.json
\* as they were ("failed_import_commit_removes_partial_catalog_and_version_state").
FailedCommandsRollBack ==
  [][\A c \in Callers : Answer(c) /\ call[c].error =>
       call[c].before = Snapshot(catalog, behind, versions, current, portable)]_vars

\* After a command that answers Ok, library.json names the version that `current` names and
\* says of the skill what its row says: what another installation would restore is what this
\* one shows.
LibraryJsonFollowsCurrent ==
  [][\A c \in Callers :
       LET s == call[c].skill
       IN Answer(c) /\ ~call[c].error /\ call[c].op # "relink" =>
            /\ s \notin behind
            /\ portable[s] = IF call[c].op = "delete" THEN Absent ELSE current[s]]_vars

\* Caller c moves the pointer of a skill to what upstream holds.
TakesUpstream(c) == At(c, "point") /\ call[c].op = "update" /\ current' # current

\* Taking upstream replaces only content that came from the source, or that a relink declared
\* to be the source's: local edits are kept
\* ("update_never_overwrites_local_modification_without_explicit_choice").
UpdatesKeepLocalEdits ==
  [][\A c \in Callers :
       TakesUpstream(c) => current[call[c].skill] \in accepted[link[call[c].skill]]]_vars
=============================================================================
