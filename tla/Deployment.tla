------------------------------ MODULE Deployment ------------------------------
(***************************************************************************)
(* The life of a deployment: DeploymentService, RemovalService and         *)
(* ReconcileService over LocalDeploymentBackend, that is over the          *)
(* `deployments` table, the materialized version trees under the library   *)
(* and the directories of the agents.                                      *)
(*                                                                         *)
(* A place is a destination path (a target's directory and a runtime       *)
(* name).  A content is a whole directory tree.  A version is one content  *)
(* of one skill.  A call is one command of the application running on a    *)
(* thread of the runtime: the database mutex is held for one SQL statement *)
(* at a time, file operations run without any lock.                        *)
(***************************************************************************)
EXTENDS Naturals, FiniteSets

CONSTANTS
  Places, Skills, Contents, Callers,
  Deployments,   \* relation ids
  Operations,    \* ids of prepared plans
  TargetSets,    \* the sets of places a deployment plan may name
  Modes,         \* subset of {"copy", "link"}
  Partial,       \* the content of a tree that was written or removed in part
  Stored,        \* versions the version store holds at first
  RecordedVersions, \* versions with a row in `versions` at first
  RegisteredPlaces, \* places whose target has a row in `targets`
  Requests,      \* kinds of requests made: "deploy", "undeploy", "delete",
                 \* "restore", "collect", "keep", "ignore"
  Disturbances,  \* "edit", "edit_during_calls", "crash", "io"
  None           \* the null value

Versions == Skills \X (Contents \union {Partial})
Trees == Contents \union {Partial}
SkillOf(v) == v[1]
ContentOf(v) == v[2]

ASSUME ConstantsAssumption ==
  /\ Partial \notin Contents /\ Stored \subseteq Versions
  /\ RegisteredPlaces \subseteq Places /\ RecordedVersions \subseteq Versions
  /\ TargetSets \subseteq SUBSET Places /\ Modes \subseteq {"copy", "link"}
  /\ None \notin Contents \union {Partial}

VARIABLES
  relations,  \* [Deployments -> Relation]: the deployments table
  disk,       \* [Places -> what the path holds]
  sources,    \* [Versions -> Trees or None]: deployment-trees/<skill>/<version>
  catalog,    \* skills with a row in `skills`
  recorded,   \* versions with a row in `versions`
  store,      \* versions whose manifest is in the version store
  prepared,   \* [Operations -> plan]: the in-memory maps of prepared plans
  call        \* [Callers -> Call]

vars == <<relations, disk, sources, catalog, recorded, store, prepared, call>>
database == <<relations, catalog, recorded>>
files == <<disk, sources>>

-----------------------------------------------------------------------------
(* Hashes and trees                                                        *)

\* DeploymentFilesystem::hash_tree and the tree hash of a version manifest are
\* different digests of one content.
TreeHash(x) == <<"tree", x>>
ManifestHash(x) == <<"manifest", x>>
Hashes == {"tree", "manifest"} \X Trees

NoTree == [kind |-> "none"]
Copy(x) == [kind |-> "copy", content |-> x]
Link(v) == [kind |-> "link", version |-> v]
Holdings == {NoTree} \union {Copy(x) : x \in Trees} \union {Link(v) : v \in Versions}

\* What a reader finds at a place; a link shows the tree it points to.
ContentAt(p) == CASE disk[p].kind = "copy" -> disk[p].content
                  [] disk[p].kind = "link" -> sources[disk[p].version]
                  [] OTHER -> None

Occupied(p) == disk[p].kind # "none"

Relation == [state : {"absent", "deployed", "removed"}, place : Places \union {None},
             version : Versions \union {None}, mode : Modes \union {None},
             managed : BOOLEAN, expected : Hashes \union {None},
             observed : Hashes \union {None}]

NoRelation == [state |-> "absent", place |-> None, version |-> None, mode |-> None,
               managed |-> FALSE, expected |-> None, observed |-> None]

Active(d) == relations[d].state = "deployed"
SkillsRelations(s) ==
  {d \in Deployments : Active(d) /\ SkillOf(relations[d].version) = s}

\* inspect_target: the state a reconcile command finds.
Observation(r) ==
  IF r.place \notin RegisteredPlaces \/ ~Occupied(r.place) THEN "missing"
  ELSE IF TreeHash(ContentAt(r.place)) = r.expected THEN "unchanged"
  ELSE IF TreeHash(ContentAt(r.place)) = r.observed THEN "ignored" ELSE "modified"

\* Fault: a missing target may be collected.
Allowed_CollectMissing(goal, state) ==
  state = "modified" \/ state = "missing"

\* ensure_allowed
Allowed(goal, state) ==
  \/ state = "modified"
  \/ state = "missing" /\ goal \in {"restore", "keep", "ignore"}

-----------------------------------------------------------------------------
(* Plans and calls                                                         *)

Decisions == {"remove_owned", "relation_only", "detach"}

\* A prepared deployment, or a removal with the records read when it was prepared.
Plan(kind, version, mode, targets, skill, records) ==
  [kind |-> kind, version |-> version, mode |-> mode, targets |-> targets,
   skill |-> skill, records |-> records]

NoPlan == Plan("none", None, None, {}, None, <<>>)
Closed == Plan("closed", None, None, {}, None, <<>>)

\* `todo` holds the places left of a deployment, or the relations left of a
\* removal with the records the plan remembers and their decisions.
Idle == [step |-> "idle", goal |-> None, op |-> None, todo |-> {}, decision |-> None,
         skill |-> None, id |-> None, record |-> NoRelation, staged |-> None,
         failed |-> FALSE]

Init ==
  /\ relations = [d \in Deployments |-> NoRelation]
  /\ disk = [p \in Places |-> NoTree]
  /\ sources = [v \in Versions |-> None]
  /\ catalog = Skills /\ recorded = RecordedVersions /\ store = Stored
  /\ prepared = [op \in Operations |-> NoPlan]
  /\ call = [c \in Callers |-> Idle]

Goto(c, step) == call' = [call EXCEPT ![c].step = step]
Finish(c) == call' = [call EXCEPT ![c] = Idle]

\* A target of a deployment failed: the commit goes on with the next one.  In
\* any other command `?` ends the call.
Fail(c) ==
  call' = [call EXCEPT ![c] = IF @.goal = "deploy"
                              THEN [@ EXCEPT !.step = "next", !.failed = TRUE] ELSE Idle]

Place(c) == call[c].record.place
Version(c) == call[c].record.version

-----------------------------------------------------------------------------
(* Prepared plans                                                          *)

PrepareDeploy(op, v, targets, mode) ==
  /\ "deploy" \in Requests /\ prepared[op] = NoPlan
  /\ prepared' = [prepared EXCEPT ![op] =
                    Plan("deploy", v, mode, targets, SkillOf(v), <<>>)]
  /\ UNCHANGED <<database, files, store, call>>

PrepareUndeploy(op, d) ==
  /\ "undeploy" \in Requests /\ prepared[op] = NoPlan
  /\ Active(d)
  /\ prepared' = [prepared EXCEPT ![op] =
                    Plan("undeploy", None, None, {}, SkillOf(relations[d].version),
                         [e \in {d} |-> relations[e]])]
  /\ UNCHANGED <<database, files, store, call>>

PrepareDelete(op, s) ==
  /\ "delete" \in Requests /\ prepared[op] = NoPlan
  /\ prepared' = [prepared EXCEPT ![op] =
                    Plan("delete", None, None, {}, s,
                         [e \in SkillsRelations(s) |-> relations[e]])]
  /\ UNCHANGED <<database, files, store, call>>

\* The plan leaves the map; its id is never drawn again.
Close(op) == prepared' = [prepared EXCEPT ![op] = Closed]

\* One map holds the removals, whichever command prepared them.
IsRemoval(op) == prepared[op].kind \in {"undeploy", "delete"}

-----------------------------------------------------------------------------
(* Deploying: per target materialize the version, copy or link it, insert  *)
(* the relation.  Restoring a target uses the same file steps.             *)

\* The plan is cloned out of the map.  (Every change of a prepared plan is Create:
\* no caller passes existing deployments to the planner.)
CommitDeploy(c, op) ==
  /\ call[c].step = "idle" /\ prepared[op].kind = "deploy"
  /\ call' = [call EXCEPT ![c] =
       [Idle EXCEPT !.step = "next", !.goal = "deploy", !.op = op,
                    !.todo = prepared[op].targets,
                    !.record = [NoRelation EXCEPT !.state = "deployed", !.managed = TRUE,
                                  !.version = prepared[op].version,
                                  !.mode = prepared[op].mode]]]
  /\ UNCHANGED <<database, files, store, prepared>>

\* The plan is dropped only when every target succeeded.
EndDeploy(c) ==
  /\ Finish(c)
  /\ IF call[c].failed THEN UNCHANGED prepared ELSE Close(call[c].op)

\* Fault: only the last target decides whether the plan is dropped.
NextTarget_LastDecides(c) ==
  /\ call[c].step = "next"
  /\ \/ \E p \in call[c].todo :
          /\ call' = [call EXCEPT ![c].step = "source", ![c].todo = @ \ {p}, ![c].failed = FALSE,
                                  ![c].staged = None, ![c].record.place = p]
          /\ UNCHANGED prepared
     \/ /\ call[c].todo = {}
        /\ EndDeploy(c)
  /\ UNCHANGED <<database, files, store>>

NextTarget(c) ==
  /\ call[c].step = "next"
  /\ \/ \E p \in call[c].todo :
          /\ call' = [call EXCEPT ![c].step = "source", ![c].todo = @ \ {p},
                                  ![c].staged = None, ![c].record.place = p]
          /\ UNCHANGED prepared
     \/ /\ call[c].todo = {}
        /\ EndDeploy(c)
  /\ UNCHANGED <<database, files, store>>

\* materialized_source: an existing directory is taken as it is; otherwise it is
\* created empty, then filled.
FindSource(c) ==
  /\ call[c].step = "source"
  /\ Goto(c, IF sources[Version(c)] # None THEN "stage" ELSE "create")
  /\ UNCHANGED <<database, files, store, prepared>>

CreateSource(c) ==
  /\ call[c].step = "create"
  /\ sources' = [sources EXCEPT ![Version(c)] = IF @ = None THEN Partial ELSE @]
  /\ Goto(c, "fill")
  /\ UNCHANGED <<database, disk, store, prepared>>

\* VersionStore::materialize.  A missing manifest, a file that is already there or
\* an I/O error leaves the directory as far as it was written.
FillSource(c) ==
  /\ call[c].step = "fill"
  /\ \/ /\ Version(c) \in store /\ sources[Version(c)] = Partial
        /\ sources' = [sources EXCEPT ![Version(c)] = ContentOf(Version(c))]
        /\ Goto(c, "stage")
     \/ /\ Version(c) \notin store \/ sources[Version(c)] # Partial \/ "io" \in Disturbances
        /\ Fail(c)
        /\ UNCHANGED sources
  /\ UNCHANGED <<database, disk, store, prepared>>

\* DeploymentFilesystem::prepare: refuses an occupied path, hashes the source and
\* copies it into a staging directory beside the destination.
Stage(c) ==
  /\ call[c].step = "stage"
  /\ IF Occupied(Place(c)) THEN Fail(c)
     ELSE call' = [call EXCEPT ![c].step = "publish", ![c].staged = sources[Version(c)]]
  /\ UNCHANGED <<database, files, store, prepared>>

\* Fault: the staged tree replaces what appeared at the path since `prepare`.
Publish_Replaces(c) ==
  /\ call[c].step = "publish"
  /\ disk' = [disk EXCEPT ![Place(c)] = Copy(call[c].staged)]
  /\ Goto(c, "record")
  /\ UNCHANGED <<database, sources, store, prepared>>

\* DeploymentFilesystem::apply: rename or link, then compare the hashes.  A copy
\* shows what was staged; a link shows the source as it is now.
Publish(c) ==
  /\ call[c].step = "publish"
  /\ LET copied == call[c].record.mode = "copy" IN
     \/ /\ Occupied(Place(c)) \/ "io" \in Disturbances
        /\ Fail(c)
        /\ UNCHANGED disk
     \/ /\ ~Occupied(Place(c))
        /\ disk' = [disk EXCEPT ![Place(c)] =
                      IF copied THEN Copy(call[c].staged) ELSE Link(Version(c))]
        /\ IF copied \/ sources[Version(c)] = call[c].staged
           THEN Goto(c, "record") ELSE Fail(c)
  /\ UNCHANGED <<database, sources, store, prepared>>

\* Fault: the key of a removed relation is free again.
MayInsert_RemovedIsFree(r) ==
  /\ \A d \in Deployments : relations[d].place = r.place => ~Active(d)
  /\ SkillOf(r.version) \in catalog /\ r.version \in recorded
  /\ r.place \in RegisteredPlaces

\* UNIQUE(target_id, runtime_name) and the foreign keys of `deployments`.
MayInsert(r) ==
  /\ \A d \in Deployments : relations[d].place # r.place
  /\ SkillOf(r.version) \in catalog /\ r.version \in recorded
  /\ r.place \in RegisteredPlaces

\* insert_sync.  (Deployments bounds the rows: an insert with no id left fails.)
InsertRelation(c) ==
  /\ call[c].step = "record" /\ call[c].goal = "deploy"
  /\ LET r == [call[c].record EXCEPT !.expected = TreeHash(call[c].staged),
                                     !.observed = TreeHash(call[c].staged)]
         free == {d \in Deployments : relations[d] = NoRelation}
     IN \/ /\ MayInsert(r)
           /\ \E d \in free : relations' = [relations EXCEPT ![d] = r]
           /\ Goto(c, "next")
        \/ /\ ~MayInsert(r) \/ free = {} \/ "io" \in Disturbances
           /\ Fail(c)
           /\ UNCHANGED relations
  /\ UNCHANGED <<catalog, recorded, files, store, prepared>>

-----------------------------------------------------------------------------
(* Removing: commit_undeploy and commit_delete, over the records read when *)
(* the removal was prepared.                                               *)

\* validate_decisions: every relation of the plan has its decision.
Covers(chosen, records) == chosen = DOMAIN records

Todo(records, chosen, decisions) ==
  {[id |-> d, record |-> records[d], decision |-> decisions[d]] : d \in chosen}

\* The first relation of the plan, whatever kind of removal it is.
CommitUndeploy(c, op, d, decision) ==
  /\ "undeploy" \in Requests
  /\ call[c].step = "idle" /\ IsRemoval(op)
  /\ d \in DOMAIN prepared[op].records
  /\ call' = [call EXCEPT ![c] =
       [Idle EXCEPT !.step = "decide", !.goal = "undeploy", !.op = op,
            !.todo = Todo(prepared[op].records, {d}, [e \in {d} |-> decision])]]
  /\ UNCHANGED <<database, files, store, prepared>>

CommitDelete(c, op, chosen, decisions) ==
  /\ "delete" \in Requests
  /\ call[c].step = "idle" /\ IsRemoval(op)
  /\ Covers(chosen, prepared[op].records)
  /\ call' = [call EXCEPT ![c] =
       [Idle EXCEPT !.step = "decide", !.goal = "delete", !.op = op,
                    !.skill = prepared[op].skill,
                    !.todo = Todo(prepared[op].records, chosen, decisions)]]
  /\ UNCHANGED <<database, files, store, prepared>>

\* The next decision, or what follows the last one.
Decide(c) ==
  /\ call[c].step = "decide"
  /\ \/ \E next \in call[c].todo :
          /\ call' = [call EXCEPT ![c] =
               [@ EXCEPT !.todo = call[c].todo \ {next}, !.id = next.id, !.record = next.record,
                  !.decision = next.decision,
                  !.step = IF next.decision = "remove_owned" THEN "verify" ELSE "mark"]]
          /\ UNCHANGED prepared
     \/ /\ call[c].todo = {} /\ call[c].goal = "undeploy"
        /\ Finish(c) /\ Close(call[c].op)
     \/ /\ call[c].todo = {} /\ call[c].goal = "delete"
        /\ Goto(c, "delete_check")
        /\ UNCHANGED prepared
  /\ UNCHANGED <<database, files, store>>

\* Fault: the physical identity alone proves ownership.
Owned_IdentityOnly(r) == r.place \in RegisteredPlaces /\ Occupied(r.place)

\* verify_owned: the target exists and still holds what the record expects.  (The
\* identity it compares was read a moment before, at the same path.)
Owned(r) ==
  /\ r.place \in RegisteredPlaces /\ Occupied(r.place)
  /\ TreeHash(ContentAt(r.place)) = r.expected

\* Fault: a target that is not owned is waited for.
Verify_Waits(c) ==
  /\ call[c].step = "verify" /\ Owned(call[c].record)
  /\ Goto(c, "unlink")
  /\ UNCHANGED <<database, files, store, prepared>>

Verify(c) ==
  /\ call[c].step = "verify"
  /\ IF Owned(call[c].record) THEN Goto(c, "unlink") ELSE Finish(c)
  /\ UNCHANGED <<database, files, store, prepared>>

\* replace_owned: a restore replaces whatever the target holds.
VerifyIdentity(c) ==
  /\ call[c].step = "replace"
  /\ IF Place(c) \in RegisteredPlaces /\ Occupied(Place(c))
     THEN Goto(c, "unlink") ELSE Finish(c)
  /\ UNCHANGED <<database, files, store, prepared>>

\* remove_target.  remove_dir_all takes a tree or a link, the removal of a link
\* only a link; an I/O error may leave part of a tree.
Unlink(c) ==
  /\ call[c].step = "unlink"
  /\ LET held == disk[Place(c)].kind IN
     \/ /\ held = "link" \/ (held = "copy" /\ call[c].record.mode = "copy")
        /\ disk' = [disk EXCEPT ![Place(c)] = NoTree]
        /\ Goto(c, IF call[c].goal = "restore" THEN "source" ELSE "mark")
     \/ /\ held = "none" \/ (held = "copy" /\ call[c].record.mode = "link")
        /\ Finish(c)
        /\ UNCHANGED disk
     \/ /\ "io" \in Disturbances /\ held = "copy"
        /\ disk' = [disk EXCEPT ![Place(c)] = Copy(Partial)]
        /\ Finish(c)
  /\ UNCHANGED <<database, sources, store, prepared>>

\* Fault: the update does not ask for an active row.
Mark_AnyRow(c) ==
  /\ call[c].step = "mark"
  /\ relations' = [relations EXCEPT ![call[c].id].state = "removed"]
  /\ Goto(c, "decide")
  /\ UNCHANGED <<catalog, recorded, files, store, prepared>>

\* mark_removed_sync and detach_management_sync change an active row only.
Mark(c) ==
  /\ call[c].step = "mark"
  /\ IF Active(call[c].id)
     THEN /\ relations' = IF call[c].decision = "detach"
                          THEN [relations EXCEPT ![call[c].id].managed = FALSE]
                          ELSE [relations EXCEPT ![call[c].id].state = "removed"]
          /\ Goto(c, "decide")
     ELSE Finish(c) /\ UNCHANGED relations
  /\ UNCHANGED <<catalog, recorded, files, store, prepared>>

\* Fault: only the relations of the plan are considered.
MayDelete_IgnoresRelations(s) == s \in catalog

\* delete_skill first looks for active relations and for the skill, ...
MayDelete(s) == SkillsRelations(s) = {} /\ s \in catalog

DeleteCheck(c) ==
  /\ call[c].step = "delete_check"
  /\ IF MayDelete(call[c].skill) THEN Goto(c, "delete_rows") ELSE Finish(c)
  /\ UNCHANGED <<database, files, store, prepared>>

\* ... then takes the database again and deletes its row: the deployments and
\* the versions of the skill go with it (ON DELETE CASCADE) ...
DeleteRows(c) ==
  /\ call[c].step = "delete_rows"
  /\ catalog' = catalog \ {call[c].skill}
  /\ recorded' = {v \in recorded : SkillOf(v) # call[c].skill}
  /\ relations' = [d \in Deployments |->
       IF relations[d].state # "absent" /\ SkillOf(relations[d].version) = call[c].skill
       THEN NoRelation ELSE relations[d]]
  /\ Goto(c, "delete_store")
  /\ UNCHANGED <<files, store, prepared>>

SkillsVersions(s) == {v \in store : SkillOf(v) = s}

\* Fault: the plan is dropped although versions are left.
DeleteStore_DropsPlan(c) ==
  /\ call[c].step = "delete_store"
  /\ \E kept \in SUBSET SkillsVersions(call[c].skill) :
       store' = (store \ SkillsVersions(call[c].skill)) \union kept
  /\ Finish(c) /\ Close(call[c].op)
  /\ UNCHANGED <<database, files>>

\* ... and removes its versions one by one.  A failure puts the catalog row back.
DeleteStore(c) ==
  /\ call[c].step = "delete_store"
  /\ \/ /\ store' = store \ SkillsVersions(call[c].skill)
        /\ Close(call[c].op)
        /\ UNCHANGED catalog
     \/ /\ "io" \in Disturbances
        /\ \E kept \in SUBSET SkillsVersions(call[c].skill) :
             store' = (store \ SkillsVersions(call[c].skill)) \union kept
        /\ catalog' = catalog \union {call[c].skill}
        /\ UNCHANGED prepared
  /\ Finish(c)
  /\ UNCHANGED <<relations, recorded, files>>

-----------------------------------------------------------------------------
(* Reconciling one target: the relation and the target are read once, then *)
(* the command works from that record.                                     *)

FirstStep == [restore |-> "replace", collect |-> "capture", keep |-> "keep",
              ignore |-> "inspect"]

Reconcile(c, d, goal) ==
  /\ goal \in Requests
  /\ call[c].step = "idle"
  /\ Active(d) /\ Allowed(goal, Observation(relations[d]))
  /\ call' = [call EXCEPT ![c] =
       [Idle EXCEPT !.step = FirstStep[goal], !.goal = goal, !.id = d,
                    !.record = relations[d]]]
  /\ UNCHANGED <<database, files, store, prepared>>

\* VersionStore::capture refuses a symbolic link.
Capture(c) ==
  /\ call[c].step = "capture"
  /\ IF disk[Place(c)].kind = "copy"
     THEN /\ store' = store \union {<<SkillOf(Version(c)), disk[Place(c)].content>>}
          /\ call' = [call EXCEPT ![c].step = "record",
                                  ![c].staged = disk[Place(c)].content]
     ELSE Finish(c) /\ UNCHANGED store
  /\ UNCHANGED <<database, files, prepared>>

KeepIndependent(c) ==
  /\ call[c].step = "keep"
  /\ relations' = IF Active(call[c].id)
                  THEN [relations EXCEPT ![call[c].id].managed = FALSE] ELSE relations
  /\ Finish(c)
  /\ UNCHANGED <<catalog, recorded, files, store, prepared>>

\* ignore_external_change inspects the target a second time; a target that is
\* missing by then needs no note.
InspectAgain(c) ==
  /\ call[c].step = "inspect"
  /\ IF Observation(call[c].record) = "missing" THEN Finish(c)
     ELSE call' = [call EXCEPT ![c].step = "record", ![c].staged = ContentAt(Place(c))]
  /\ UNCHANGED <<database, files, store, prepared>>

\* update_reconcile_facts_sync: version, expected and observed hash at once, on an
\* active row; the version must have a row.
UpdateFacts(c) ==
  /\ call[c].step = "record" /\ call[c].goal # "deploy"
  /\ LET held == call[c].record
         collected == <<SkillOf(held.version), call[c].staged>>
         version == IF call[c].goal = "collect" THEN collected ELSE held.version
     IN relations' =
          IF Active(call[c].id) /\ version \in recorded
          THEN [relations EXCEPT ![call[c].id] =
                 [@ EXCEPT !.version = version,
                    !.expected = IF call[c].goal = "collect"
                                 THEN ManifestHash(call[c].staged) ELSE held.expected,
                    !.observed = IF call[c].goal = "collect"
                                 THEN ManifestHash(call[c].staged)
                                 ELSE TreeHash(call[c].staged)]]
          ELSE relations
  /\ Finish(c)
  /\ UNCHANGED <<catalog, recorded, files, store, prepared>>

-----------------------------------------------------------------------------
(* The world around                                                        *)

MayEdit ==
  \/ "edit" \in Disturbances /\ \A c \in Callers : call[c].step = "idle"
  \/ "edit_during_calls" \in Disturbances

\* Another program writes a tree of its own at a place, edits the tree it finds
\* there (through a link: the materialized version), or removes it.
Edit(p, x) ==
  /\ MayEdit
  /\ IF disk[p].kind = "link"
     THEN /\ sources' = [sources EXCEPT ![disk[p].version] = x]
          /\ UNCHANGED disk
     ELSE /\ disk' = [disk EXCEPT ![p] = Copy(x)]
          /\ UNCHANGED sources
  /\ UNCHANGED <<database, store, prepared, call>>

RemoveByHand(p) ==
  /\ MayEdit /\ Occupied(p)
  /\ disk' = [disk EXCEPT ![p] = NoTree]
  /\ UNCHANGED <<database, sources, store, prepared, call>>

\* The process ends: plans and calls are gone, a staging directory stays.
Crash ==
  /\ "crash" \in Disturbances
  /\ prepared' = [op \in Operations |-> IF prepared[op] = NoPlan THEN NoPlan ELSE Closed]
  /\ call' = [c \in Callers |-> Idle]
  /\ UNCHANGED <<database, files, store>>

-----------------------------------------------------------------------------

Prepare(op) ==
  \/ \E v \in store, targets \in TargetSets, mode \in Modes :
       PrepareDeploy(op, v, targets, mode)
  \/ \E d \in Deployments : PrepareUndeploy(op, d)
  \/ \E s \in Skills : PrepareDelete(op, s)

Request(c) ==
  \/ \E op \in Operations :
       \/ CommitDeploy(c, op)
       \/ \E d \in Deployments, decision \in Decisions : CommitUndeploy(c, op, d, decision)
       \/ \E chosen \in SUBSET Deployments :
            \E decisions \in [chosen -> Decisions \ {"detach"}] :
              CommitDelete(c, op, chosen, decisions)
  \/ \E d \in Deployments, goal \in DOMAIN FirstStep : Reconcile(c, d, goal)

Step(c) ==
  \/ NextTarget(c) \/ FindSource(c) \/ CreateSource(c) \/ FillSource(c) \/ Stage(c) \/ Publish(c)
  \/ InsertRelation(c)
  \/ Decide(c) \/ Verify(c) \/ VerifyIdentity(c) \/ Unlink(c) \/ Mark(c)
  \/ DeleteCheck(c) \/ DeleteRows(c) \/ DeleteStore(c)
  \/ Capture(c) \/ KeepIndependent(c) \/ InspectAgain(c) \/ UpdateFacts(c)

World ==
  \/ \E p \in Places, x \in Trees : Edit(p, x)
  \/ \E p \in Places : RemoveByHand(p)
  \/ Crash

Next ==
  \/ \E op \in Operations : Prepare(op)
  \/ \E c \in Callers : Request(c) \/ Step(c)
  \/ World

Spec == Init /\ [][Next]_vars

\* Every command is polled until it answers: file operations and statements end.
FairSpec == Spec /\ \A c \in Callers : WF_vars(Step(c))

-----------------------------------------------------------------------------
(* Properties                                                              *)

Steps == {"idle", "next", "source", "create", "fill", "stage", "publish", "record",
          "decide", "verify", "replace", "unlink", "mark", "delete_check",
          "delete_rows", "delete_store", "capture", "keep", "inspect"}

Removals == [id : Deployments, record : Relation, decision : Decisions]

\* Every row is complete, as its NOT NULL columns say, and every plan and call has
\* the shape the code gives it.
TypeOK ==
  /\ relations \in [Deployments -> Relation]
  /\ \A d \in Deployments : relations[d].state # "absent" =>
       /\ relations[d].place \in Places /\ relations[d].version \in Versions
       /\ relations[d].mode \in Modes /\ relations[d].expected \in Hashes
  /\ disk \in [Places -> Holdings]
  /\ sources \in [Versions -> Trees \union {None}]
  /\ catalog \subseteq Skills /\ recorded \subseteq Versions /\ store \subseteq Versions
  /\ \A op \in Operations :
       /\ prepared[op].kind \in {"none", "deploy", "undeploy", "delete", "closed"}
       /\ DOMAIN prepared[op].records \subseteq Deployments
       /\ prepared[op].kind = "deploy" => prepared[op].version \in Versions
       /\ IsRemoval(op) => prepared[op].skill \in Skills
  /\ \A c \in Callers :
       /\ call[c].step \in Steps /\ call[c].record \in Relation
       /\ call[c].staged \in Trees \union {None}
       /\ call[c].step \in {"next", "source", "create", "fill", "stage", "publish"} =>
            /\ call[c].record.version \in Versions
            /\ call[c].goal \in {"deploy", "restore"}
            /\ call[c].goal = "deploy" => call[c].todo \subseteq Places
       /\ call[c].step \in {"decide", "verify", "mark"} => call[c].todo \subseteq Removals

Quiet == \A c \in Callers : call[c].step = "idle"

\* Deploying never writes over a tree that is present at the destination, even
\* one that appeared after the check of DeploymentFilesystem::prepare and whatever
\* else runs: filesystem.rs apply.
DeployLeavesPresentTreesAlone ==
  [][\A c \in Callers, p \in Places :
       Step(c) /\ call[c].goal = "deploy" /\ Occupied(p) => disk'[p] = disk[p]]_vars

\* The tree that undeploying or deleting removes is the one the relation expects:
\* an edited target is preserved (verify_owned, then remove_target).
OnlyUnmodifiedTreesRemoved ==
  [][\A c \in Callers :
       /\ Step(c) /\ call[c].step = "unlink" /\ call[c].goal # "restore"
       /\ disk' # disk
       => TreeHash(ContentAt(Place(c))) = call[c].record.expected]_vars

\* No row of an active relation disappears: delete_skill cascades over the removed
\* relations of the skill only ("active deployment relation remains").
ActiveRelationsNeverVanish ==
  [][\A d \in Deployments : Active(d) => relations'[d].state # "absent"]_vars

\* With nobody editing and nothing failing, what an active relation expects is at
\* its place, unless a call is just working on that relation.
ActiveRelationsAreBacked ==
  \A d \in Deployments :
    Active(d) /\ (\A c \in Callers : call[c].id # d)
      => Observation(relations[d]) = "unchanged"

\* What deploying and restoring record as deployed is the content of the version,
\* not a tree that was materialized in part.
RecordedTreeIsItsVersion ==
  [][\A c \in Callers :
       /\ Step(c) /\ call[c].step = "record" /\ relations' # relations
       /\ call[c].goal \in {"deploy", "restore"}
       => ContentAt(Place(c)) = ContentOf(Version(c))]_vars

\* A deployment plan is dropped only when each of its targets has an active
\* relation of the planned version: whatever failed can be committed again.
ClosedPlansAreDeployed ==
  [][\A op \in Operations :
       /\ prepared[op].kind = "deploy" /\ prepared'[op] = Closed
       /\ \E c \in Callers : Step(c)
       => \A p \in prepared[op].targets : \E d \in Deployments :
            Active(d) /\ relations[d].place = p /\ relations[d].version = prepared[op].version
     ]_vars

\* When a delete is answered with success nothing of the skill is left: no row, no
\* version, no relation.
DeleteIsComplete ==
  [][\A c \in Callers :
       /\ Step(c) /\ call[c].step = "delete_store" /\ prepared'[call[c].op] = Closed
       => /\ call[c].skill \notin catalog'
          /\ \A v \in store' \union recorded' : SkillOf(v) # call[c].skill
          /\ \A d \in Deployments : relations'[d].state # "absent" =>
               SkillOf(relations'[d].version) # call[c].skill]_vars

\* Every command is answered.
EveryCommandAnswers ==
  \A c \in Callers : call[c].step # "idle" ~> call[c].step = "idle"
=============================================================================
