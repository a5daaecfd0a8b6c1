-------------------------- MODULE Deployment_proofs --------------------------
(***************************************************************************)
(* What holds for any places, skills, relations and plans, and for which   *)
(* numbers of concurrent commands:                                         *)
(*   - types, with any number of commands;                                 *)
(*   - a deployment never writes over a tree that is present, with any     *)
(*     number of commands and edits at any moment;                         *)
(*   - a removal takes only the tree that was verified, and no active      *)
(*     relation vanishes, while one command runs at a time and edits come  *)
(*     between commands.  (With two commands TLC shows both broken.)       *)
(*   - a delete that is answered is complete, with any number of commands  *)
(*     while no file operation fails, with one whatever fails;             *)
(*   - a plan that is dropped is deployed, while one command runs at a     *)
(*     time, whatever fails;                                               *)
(*   - what an active relation expects is at its place, while nothing      *)
(*     disturbs the commands (Calm).                                       *)
(* The types rest on TypeInv: which fields of a call are filled in follows *)
(* from its goal and its step.                                             *)
(***************************************************************************)
EXTENDS Deployment, TLAPS

OneCaller == \A c, e \in Callers : c = e
EditsBetweenCommands == "edit_during_calls" \notin Disturbances

-----------------------------------------------------------------------------
(* The inductive invariant                                                 *)

Records == UNION {[D -> Relation] : D \in SUBSET Deployments}

PlanShapes == [kind : {"none", "deploy", "undeploy", "delete", "closed"},
               version : Versions \union {None}, mode : Modes \union {None},
               targets : SUBSET Places, skill : Skills \union {None}, records : Records]

\* A row that was read from an active relation.
Full(r) == /\ r.place \in Places /\ r.version \in Versions
           /\ r.mode \in Modes /\ r.expected \in Hashes

PlanOK(plan) ==
  /\ plan.kind = "deploy" => plan.version \in Versions /\ plan.mode \in Modes
  /\ plan.kind \in {"undeploy", "delete"} => plan.skill \in Skills
  /\ \A d \in DOMAIN plan.records : Full(plan.records[d])

FullRemovals == {r \in Removals : Full(r.record)}

Goals == {"deploy", "undeploy", "delete", "restore", "collect", "keep", "ignore"}

CallShapes == [step : Steps, goal : Goals \union {None}, op : Operations \union {None},
               todo : SUBSET (Places \union Removals), decision : Decisions \union {None},
               skill : Skills \union {None}, id : Deployments \union {None},
               record : Relation, staged : Trees \union {None}, failed : BOOLEAN]

FileSteps == {"source", "create", "fill", "stage", "publish"}
DeleteSteps == {"delete_check", "delete_rows", "delete_store"}

\* The source is there when it is staged, and what was staged when it is recorded.
TreesAtHand(k, src) ==
  /\ k.step \in {"stage", "publish"} => src[k.record.version] \in Trees
  /\ k.step \in {"publish", "record"} => k.staged \in Trees

Deploying(k, src) ==
  /\ k.goal = "deploy" /\ k.step \in FileSteps \union {"next", "record"}
  /\ k.todo \subseteq Places /\ k.record.version \in Versions /\ k.record.mode \in Modes
  /\ k.step # "next" => k.record.place \in Places
  /\ TreesAtHand(k, src)

Removing(k) ==
  /\ k.goal \in {"undeploy", "delete"}
  /\ k.step \in {"decide", "verify", "unlink", "mark"} \union DeleteSteps
  /\ k.todo \subseteq FullRemovals
  /\ k.step \in {"verify", "unlink", "mark"} => Full(k.record) /\ k.id \in Deployments
  /\ k.step \in DeleteSteps => k.goal = "delete"
  /\ k.goal = "delete" => k.skill \in Skills

Reconciling(k, src) ==
  /\ Full(k.record) /\ k.id \in Deployments
  /\ \/ k.goal = "restore" /\ k.step \in FileSteps \union {"replace", "unlink", "record"}
     \/ k.goal = "collect" /\ k.step \in {"capture", "record"}
     \/ k.goal = "keep" /\ k.step = "keep"
     \/ k.goal = "ignore" /\ k.step \in {"inspect", "record"}
  /\ TreesAtHand(k, src)

CallOK(k, src) ==
  k.step = "idle" \/ Deploying(k, src) \/ Removing(k) \/ Reconciling(k, src)

RowsOK == /\ relations \in [Deployments -> Relation]
          /\ \A d \in Deployments : relations[d].state # "absent" => Full(relations[d])
          /\ catalog \subseteq Skills /\ recorded \subseteq Versions /\ store \subseteq Versions

FilesOK == /\ disk \in [Places -> Holdings]
           /\ sources \in [Versions -> Trees \union {None}]
           /\ \A p \in Places : disk[p].kind = "link" => sources[disk[p].version] \in Trees

PlansOK == /\ prepared \in [Operations -> PlanShapes]
           /\ \A op \in Operations : PlanOK(prepared[op])

CallsOK == /\ call \in [Callers -> CallShapes]
           /\ \A c \in Callers : CallOK(call[c], sources)

TypeInv == RowsOK /\ FilesOK /\ PlansOK /\ CallsOK

\* A directory that is there is never taken away.
SourcesStay == \A v \in Versions : sources[v] \in Trees => sources'[v] \in Trees

-----------------------------------------------------------------------------
(* Lemmas about the data                                                   *)

LEMMA InvImpliesTypeOK == TypeInv => TypeOK
<1> SUFFICES ASSUME TypeInv PROVE TypeOK
  OBVIOUS
<1>1. /\ relations \in [Deployments -> Relation]
      /\ \A d \in Deployments : relations[d].state # "absent" =>
           /\ relations[d].place \in Places /\ relations[d].version \in Versions
           /\ relations[d].mode \in Modes /\ relations[d].expected \in Hashes
      /\ disk \in [Places -> Holdings]
      /\ sources \in [Versions -> Trees \union {None}]
      /\ catalog \subseteq Skills /\ recorded \subseteq Versions /\ store \subseteq Versions
  BY DEF TypeInv, RowsOK, FilesOK, Full
<1>2. ASSUME NEW op \in Operations
      PROVE  /\ prepared[op].kind \in {"none", "deploy", "undeploy", "delete", "closed"}
             /\ DOMAIN prepared[op].records \subseteq Deployments
             /\ prepared[op].kind = "deploy" => prepared[op].version \in Versions
             /\ IsRemoval(op) => prepared[op].skill \in Skills
  <2>1. prepared[op] \in PlanShapes /\ PlanOK(prepared[op])
    BY DEF TypeInv, PlansOK
  <2>2. prepared[op].records \in Records
    BY <2>1 DEF PlanShapes
  <2>3. DOMAIN prepared[op].records \subseteq Deployments
    BY <2>2 DEF Records
  <2>4. QED
    BY <2>1, <2>3 DEF PlanShapes, PlanOK, IsRemoval
<1>3. ASSUME NEW c \in Callers
      PROVE  /\ call[c].step \in Steps /\ call[c].record \in Relation
             /\ call[c].staged \in Trees \union {None}
             /\ call[c].step \in {"next", "source", "create", "fill", "stage", "publish"} =>
                  /\ call[c].record.version \in Versions
                  /\ call[c].goal \in {"deploy", "restore"}
                  /\ call[c].goal = "deploy" => call[c].todo \subseteq Places
             /\ call[c].step \in {"decide", "verify", "mark"} => call[c].todo \subseteq Removals
  <2>1. PICK k \in CallShapes : k = call[c] /\ CallOK(k, sources)
    BY DEF TypeInv, CallsOK
  <2>2. k.step \in Steps /\ k.record \in Relation /\ k.staged \in Trees \union {None}
    BY DEF CallShapes
  <2>3. k.step \in {"next", "source", "create", "fill", "stage", "publish"} =>
          /\ k.record.version \in Versions /\ k.goal \in {"deploy", "restore"}
          /\ k.goal = "deploy" => k.todo \subseteq Places
    BY <2>1 DEF CallOK, Deploying, Removing, Reconciling, FileSteps, DeleteSteps, Full
  <2>4. k.step \in {"decide", "verify", "mark"} => k.todo \subseteq Removals
    BY <2>1 DEF CallOK, Deploying, Removing, Reconciling, FileSteps, DeleteSteps, FullRemovals
  <2>5. QED
    BY <2>1, <2>2, <2>3, <2>4
<1>4. QED
  BY <1>1, <1>2, <1>3 DEF TypeOK

LEMMA SourcesKeepCalls ==
  ASSUME NEW k \in CallShapes, CallOK(k, sources), SourcesStay
  PROVE  CallOK(k, sources')
<1>1. TreesAtHand(k, sources) /\ k.record.version \in Versions => TreesAtHand(k, sources')
  BY DEF TreesAtHand, SourcesStay
<1>2. QED
  BY <1>1 DEF CallOK, Deploying, Removing, Reconciling, Full

\* One call goes on, and no source is taken away.
LEMMA CallStep ==
  ASSUME CallsOK, SourcesStay, NEW c \in Callers, NEW k \in CallShapes, CallOK(k, sources'),
         call' = [call EXCEPT ![c] = k]
  PROVE  CallsOK'
<1>1. call' \in [Callers -> CallShapes]
  BY DEF CallsOK
<1>2. \A e \in Callers : CallOK(call'[e], sources')
  BY SourcesKeepCalls DEF CallsOK
<1>3. QED
  BY <1>1, <1>2 DEF CallsOK

LEMMA SameSources == ASSUME UNCHANGED sources PROVE SourcesStay
  BY DEF SourcesStay

LEMMA NothingInHand == NoRelation \in Relation /\ Idle \in CallShapes /\ Idle.step = "idle"
<1>1. NoRelation \in Relation
  BY DEF NoRelation, Relation
<1>2. QED
  BY <1>1 DEF Idle, CallShapes, Steps

LEMMA NoRecords == << >> \in Records /\ DOMAIN << >> = {}
<1>1. << >> \in [{} -> Relation]
  OBVIOUS
<1>2. QED
  BY <1>1 DEF Records

LEMMA HeldTrees ==
  ASSUME FilesOK, NEW p \in Places
  PROVE  /\ disk[p].kind = "copy" => disk[p].content \in Trees
         /\ disk[p].kind = "link" => disk[p].version \in Versions
         /\ Occupied(p) => ContentAt(p) \in Trees
<1>1. disk[p] \in Holdings
  BY DEF FilesOK
<1>2. disk[p].kind = "copy" => disk[p].content \in Trees
  BY <1>1 DEF Holdings, NoTree, Copy, Link
<1>3. disk[p].kind = "link" => disk[p].version \in Versions
  BY <1>1 DEF Holdings, NoTree, Copy, Link
<1>4. disk[p].kind \in {"none", "copy", "link"}
  BY <1>1 DEF Holdings, NoTree, Copy, Link
<1>5. Occupied(p) => ContentAt(p) \in Trees
  BY <1>2, <1>4 DEF Occupied, ContentAt, FilesOK
<1>6. QED
  BY <1>2, <1>3, <1>5

LEMMA HashesAreHashes ==
  ASSUME NEW x \in Trees
  PROVE  TreeHash(x) \in Hashes /\ ManifestHash(x) \in Hashes
  BY DEF TreeHash, ManifestHash, Hashes

LEMMA VersionsArePairs ==
  ASSUME NEW v \in Versions
  PROVE  SkillOf(v) \in Skills /\ ContentOf(v) \in Trees /\
         \A x \in Trees : <<SkillOf(v), x>> \in Versions
  BY DEF Versions, SkillOf, ContentOf, Trees

-----------------------------------------------------------------------------
(* Lemmas about calls                                                      *)

LEMMA StepsOfACall ==
  ASSUME NEW k \in CallShapes, NEW st \in Steps
  PROVE  LET n == [k EXCEPT !.step = st]
         IN  /\ n \in CallShapes /\ n.step = st /\ n.goal = k.goal /\ n.todo = k.todo
             /\ n.skill = k.skill /\ n.id = k.id /\ n.record = k.record /\ n.staged = k.staged
  BY DEF CallShapes

\* Idle, or the next target of a deployment.
LEMMA FailingIsOK ==
  ASSUME NEW k \in CallShapes, NEW src, NEW src2, CallOK(k, src), k.step # "idle",
         NEW n, n = IF k.goal = "deploy" THEN [k EXCEPT !.step = "next", !.failed = TRUE] ELSE Idle
  PROVE  n \in CallShapes /\ CallOK(n, src2)
<1>1. CASE k.goal # "deploy"
  BY <1>1, NothingInHand DEF CallOK
<1>2. CASE k.goal = "deploy"
  <2>1. /\ n \in CallShapes /\ n.step = "next" /\ n.goal = "deploy" /\ n.todo = k.todo
        /\ n.record = k.record
    BY <1>2 DEF CallShapes, Steps
  <2>2. Deploying(k, src)
    BY <1>2 DEF CallOK, Removing, Reconciling
  <2>3. QED
    BY <2>1, <2>2 DEF CallOK, Deploying, TreesAtHand
<1>3. QED
  BY <1>1, <1>2

-----------------------------------------------------------------------------
LEMMA InitInv == Init => TypeInv
<1> SUFFICES ASSUME Init PROVE TypeInv
  OBVIOUS
<1>1. RowsOK
  BY NothingInHand, ConstantsAssumption DEF Init, RowsOK, NoRelation
<1>2. FilesOK
  BY DEF Init, FilesOK, Holdings, NoTree
<1>3. NoPlan \in PlanShapes /\ PlanOK(NoPlan)
  BY NoRecords DEF NoPlan, Plan, PlanShapes, PlanOK
<1>4. PlansOK
  BY <1>3 DEF Init, PlansOK
<1>5. CallsOK
  BY NothingInHand DEF Init, CallsOK, CallOK
<1>6. QED
  BY <1>1, <1>2, <1>4, <1>5 DEF TypeInv

LEMMA FrameRows == RowsOK /\ UNCHANGED <<relations, catalog, recorded, store>> => RowsOK'
  BY DEF RowsOK
LEMMA FrameFiles == FilesOK /\ UNCHANGED <<disk, sources>> => FilesOK'
  BY DEF FilesOK
LEMMA FramePlans == PlansOK /\ UNCHANGED prepared => PlansOK'
  BY DEF PlansOK
LEMMA FrameCalls == CallsOK /\ UNCHANGED <<call, sources>> => CallsOK'
  BY DEF CallsOK

-----------------------------------------------------------------------------
(* Prepared plans                                                          *)

LEMMA PlanStep ==
  ASSUME PlansOK, NEW op, NEW plan \in PlanShapes, PlanOK(plan),
         prepared' = [prepared EXCEPT ![op] = plan]
  PROVE  PlansOK'
  BY DEF PlansOK

LEMMA CloseInv == ASSUME PlansOK, NEW op, Close(op) PROVE PlansOK'
<1>1. Closed \in PlanShapes /\ PlanOK(Closed)
  BY NoRecords DEF Closed, Plan, PlanShapes, PlanOK
<1>2. QED
  BY <1>1, PlanStep DEF Close

LEMMA PrepareInv == ASSUME TypeInv, NEW op \in Operations, Prepare(op) PROVE TypeInv'
<1>1. UNCHANGED <<relations, catalog, recorded, store, disk, sources, call>>
  BY DEF Prepare, PrepareDeploy, PrepareUndeploy, PrepareDelete, database, files
<1>2. PICK plan \in PlanShapes : PlanOK(plan) /\ prepared' = [prepared EXCEPT ![op] = plan]
  <2>1. ASSUME NEW v \in store, NEW targets \in TargetSets, NEW mode \in Modes,
               PrepareDeploy(op, v, targets, mode)
        PROVE  \E plan \in PlanShapes : PlanOK(plan) /\ prepared' = [prepared EXCEPT ![op] = plan]
    <3>1. v \in Versions /\ targets \subseteq Places /\ SkillOf(v) \in Skills
      BY VersionsArePairs, ConstantsAssumption DEF TypeInv, RowsOK
    <3>2. /\ Plan("deploy", v, mode, targets, SkillOf(v), <<>>) \in PlanShapes
          /\ PlanOK(Plan("deploy", v, mode, targets, SkillOf(v), <<>>))
      BY <3>1, NoRecords DEF Plan, PlanShapes, PlanOK
    <3>3. QED
      BY <2>1, <3>2 DEF PrepareDeploy
  <2>2. ASSUME NEW D \in SUBSET Deployments, \A d \in D : Active(d), NEW s \in Skills,
               NEW kind \in {"undeploy", "delete"},
               NEW plan, plan = Plan(kind, None, None, {}, s, [e \in D |-> relations[e]])
        PROVE  plan \in PlanShapes /\ PlanOK(plan)
    <3>1. [e \in D |-> relations[e]] \in [D -> Relation]
      BY DEF TypeInv, RowsOK
    <3>2. [e \in D |-> relations[e]] \in Records
      BY <3>1 DEF Records
    <3>3. \A e \in D : Full(relations[e])
      BY <2>2 DEF TypeInv, RowsOK, Active
    <3>4. QED
      BY <2>2, <3>2, <3>3 DEF Plan, PlanShapes, PlanOK
  <2>3. ASSUME NEW d \in Deployments, PrepareUndeploy(op, d)
        PROVE  \E plan \in PlanShapes : PlanOK(plan) /\ prepared' = [prepared EXCEPT ![op] = plan]
    <3>1. Active(d) /\ SkillOf(relations[d].version) \in Skills
      BY <2>3, VersionsArePairs DEF PrepareUndeploy, Active, TypeInv, RowsOK, Full
    <3>2. \A e \in {d} : Active(e)
      BY <3>1
    <3>3. QED
      BY <2>2, <2>3, <3>1, <3>2 DEF PrepareUndeploy
  <2>4. ASSUME NEW s \in Skills, PrepareDelete(op, s)
        PROVE  \E plan \in PlanShapes : PlanOK(plan) /\ prepared' = [prepared EXCEPT ![op] = plan]
    <3>1. SkillsRelations(s) \in SUBSET Deployments /\ \A e \in SkillsRelations(s) : Active(e)
      BY DEF SkillsRelations
    <3>2. QED
      BY <2>2, <2>4, <3>1 DEF PrepareDelete
  <2>5. QED
    BY <2>1, <2>3, <2>4 DEF Prepare
<1>3. QED
  BY <1>1, <1>2, PlanStep, FrameRows, FrameFiles, FrameCalls DEF TypeInv

-----------------------------------------------------------------------------
(* How a call goes on                                                      *)

Advances(c) == \E k \in CallShapes : CallOK(k, sources') /\ call' = [call EXCEPT ![c] = k]

LEMMA AdvanceInv ==
  ASSUME CallsOK, SourcesStay, NEW c \in Callers, Advances(c)
  PROVE  CallsOK'
  BY CallStep DEF Advances

\* Only the call changes.
LEMMA OnlyTheCall ==
  ASSUME TypeInv, NEW c \in Callers, Advances(c), UNCHANGED <<database, files, store, prepared>>
  PROVE  TypeInv'
<1>1. UNCHANGED <<relations, catalog, recorded, store, disk, sources, prepared>>
  BY DEF database, files
<1>2. QED
  BY <1>1, SameSources, AdvanceInv, FrameRows, FrameFiles, FramePlans DEF TypeInv

LEMMA FinishAdvances == ASSUME NEW c \in Callers, Finish(c) PROVE Advances(c)
  BY NothingInHand DEF Finish, Advances, CallOK

LEMMA FailAdvances ==
  ASSUME CallsOK, NEW c \in Callers, call[c].step # "idle", Fail(c)
  PROVE  Advances(c)
<1>1. PICK k \in CallShapes : k = call[c] /\ CallOK(k, sources) /\ k.step # "idle"
  BY DEF CallsOK
<1>2. PICK n : n = IF k.goal = "deploy" THEN [k EXCEPT !.step = "next", !.failed = TRUE] ELSE Idle
  OBVIOUS
<1>3. call' = [call EXCEPT ![c] = n]
  BY <1>1, <1>2 DEF Fail
<1>4. n \in CallShapes /\ CallOK(n, sources')
  BY <1>1, <1>2, FailingIsOK
<1>5. QED
  BY <1>3, <1>4 DEF Advances

\* A call that goes to another step.
LEMMA GotoAdvances ==
  ASSUME CallsOK, NEW c \in Callers, NEW st \in Steps, Goto(c, st),
         \A n \in CallShapes :
           /\ n.step = st /\ n.goal = call[c].goal /\ n.todo = call[c].todo
           /\ n.skill = call[c].skill /\ n.id = call[c].id /\ n.record = call[c].record
           /\ n.staged = call[c].staged
           => CallOK(n, sources')
  PROVE  Advances(c)
<1>1. PICK k \in CallShapes : k = call[c]
  BY DEF CallsOK
<1>2. PICK n : n = [k EXCEPT !.step = st]
  OBVIOUS
<1>3. call' = [call EXCEPT ![c] = n]
  BY <1>1, <1>2 DEF Goto
<1>4. n \in CallShapes /\ CallOK(n, sources')
  BY <1>1, <1>2, StepsOfACall
<1>5. QED
  BY <1>3, <1>4 DEF Advances

-----------------------------------------------------------------------------
(* Requests                                                                *)

LEMMA CommitDeployInv ==
  ASSUME TypeInv, NEW c \in Callers, NEW op \in Operations, CommitDeploy(c, op)
  PROVE  TypeInv'
<1>1. PICK plan \in PlanShapes : plan = prepared[op] /\ PlanOK(plan) /\ plan.kind = "deploy"
  BY DEF TypeInv, PlansOK, CommitDeploy
<1>2. PICK r \in Relation : /\ r.version = plan.version /\ r.mode = plan.mode
                            /\ r = [NoRelation EXCEPT !.state = "deployed", !.managed = TRUE,
                                      !.version = plan.version, !.mode = plan.mode]
  BY <1>1 DEF PlanShapes, NoRelation, Relation
<1>i. PICK i \in CallShapes : i = Idle
  BY NothingInHand
<1>k. PICK k : k = [i EXCEPT !.step = "next", !.goal = "deploy", !.op = op,
                             !.todo = plan.targets, !.record = r]
  OBVIOUS
<1>3. /\ k \in CallShapes /\ k.step = "next" /\ k.goal = "deploy"
      /\ k.todo = plan.targets /\ k.record = r
  <2>1. plan.targets \in SUBSET Places
    BY DEF PlanShapes
  <2>2. QED
    BY <1>k, <2>1 DEF CallShapes, Steps, Goals
<1>4. CallOK(k, sources')
  BY <1>1, <1>2, <1>3 DEF CallOK, Deploying, PlanOK, PlanShapes, TreesAtHand
<1>5. call' = [call EXCEPT ![c] = k]
  BY <1>1, <1>2, <1>i, <1>k DEF CommitDeploy
<1>6. Advances(c)
  BY <1>3, <1>4, <1>5 DEF Advances
<1>7. QED
  BY <1>6, OnlyTheCall DEF CommitDeploy

LEMMA TodoOK ==
  ASSUME NEW plan \in PlanShapes, PlanOK(plan), NEW chosen, chosen \subseteq DOMAIN plan.records,
         NEW decisions \in [chosen -> Decisions]
  PROVE  Todo(plan.records, chosen, decisions) \subseteq FullRemovals
<1>1. DOMAIN plan.records \subseteq Deployments /\
      \A d \in DOMAIN plan.records : plan.records[d] \in Relation
  BY DEF PlanShapes, Records
<1>2. ASSUME NEW d \in chosen
      PROVE  [id |-> d, record |-> plan.records[d], decision |-> decisions[d]] \in FullRemovals
  BY <1>1 DEF FullRemovals, Removals, PlanOK
<1>3. QED
  BY <1>2 DEF Todo

LEMMA CommitRemovalInv ==
  ASSUME TypeInv, NEW c \in Callers, NEW op \in Operations
  PROVE  /\ \A d \in Deployments, decision \in Decisions :
              CommitUndeploy(c, op, d, decision) => TypeInv'
         /\ \A chosen \in SUBSET Deployments :
              \A decisions \in [chosen -> Decisions \ {"detach"}] :
                CommitDelete(c, op, chosen, decisions) => TypeInv'
<1>1. PICK plan \in PlanShapes : plan = prepared[op] /\ PlanOK(plan)
  BY DEF TypeInv, PlansOK
<1>i. PICK i \in CallShapes : i = Idle
  BY NothingInHand
<1>2. ASSUME NEW d \in Deployments, NEW decision \in Decisions, CommitUndeploy(c, op, d, decision)
      PROVE  TypeInv'
  <2>1. PICK todo \in SUBSET FullRemovals :
          todo = Todo(plan.records, {d}, [e \in {d} |-> decision])
    BY <1>1, <1>2, TodoOK DEF CommitUndeploy
  <2>2. PICK k : k = [i EXCEPT !.step = "decide", !.goal = "undeploy", !.op = op, !.todo = todo]
    OBVIOUS
  <2>3. k \in CallShapes /\ k.step = "decide" /\ k.goal = "undeploy" /\ k.todo = todo
    BY <2>2 DEF FullRemovals, CallShapes, Steps, Goals
  <2>4. call' = [call EXCEPT ![c] = k] /\ UNCHANGED <<database, files, store, prepared>>
    BY <1>1, <1>2, <1>i, <2>1, <2>2 DEF CommitUndeploy
  <2>5. CallOK(k, sources')
    BY <2>3 DEF CallOK, Removing, DeleteSteps
  <2>6. QED
    BY <2>3, <2>4, <2>5, OnlyTheCall DEF Advances
<1>3. ASSUME NEW chosen \in SUBSET Deployments,
             NEW decisions \in [chosen -> Decisions \ {"detach"}],
             CommitDelete(c, op, chosen, decisions)
      PROVE  TypeInv'
  <2>1. plan.kind \in {"undeploy", "delete"} /\ plan.skill \in Skills /\
         chosen = DOMAIN plan.records
    BY <1>1, <1>3 DEF CommitDelete, IsRemoval, Covers, PlanOK
  <2>2. PICK todo \in SUBSET FullRemovals : todo = Todo(plan.records, chosen, decisions)
    BY <1>1, <2>1, TodoOK
  <2>3. PICK k : k = [i EXCEPT !.step = "decide", !.goal = "delete", !.op = op,
                               !.skill = plan.skill, !.todo = todo]
    OBVIOUS
  <2>4. /\ k \in CallShapes /\ k.step = "decide" /\ k.goal = "delete"
        /\ k.todo = todo /\ k.skill = plan.skill
    BY <2>1, <2>3 DEF FullRemovals, CallShapes, Steps, Goals
  <2>5. call' = [call EXCEPT ![c] = k] /\ UNCHANGED <<database, files, store, prepared>>
    BY <1>1, <1>3, <1>i, <2>2, <2>3 DEF CommitDelete
  <2>6. CallOK(k, sources')
    BY <2>1, <2>4 DEF CallOK, Removing, DeleteSteps
  <2>7. QED
    BY <2>4, <2>5, <2>6, OnlyTheCall DEF Advances
<1>4. QED
  BY <1>2, <1>3

LEMMA ReconcileInv ==
  ASSUME TypeInv, NEW c \in Callers, NEW d \in Deployments, NEW goal \in DOMAIN FirstStep,
         Reconcile(c, d, goal)
  PROVE  TypeInv'
<1>1. PICK r \in Relation : r = relations[d] /\ Full(r)
  BY DEF Reconcile, Active, TypeInv, RowsOK
<1>2. PICK st \in Steps : /\ st = FirstStep[goal]
                          /\ \/ goal = "restore" /\ st = "replace"
                             \/ goal = "collect" /\ st = "capture"
                             \/ goal = "keep" /\ st = "keep"
                             \/ goal = "ignore" /\ st = "inspect"
  BY DEF FirstStep, Steps
<1>i. PICK i \in CallShapes : i = Idle
  BY NothingInHand
<1>k. PICK k : k = [i EXCEPT !.step = st, !.goal = goal, !.id = d, !.record = r]
  OBVIOUS
<1>3. k \in CallShapes /\ k.step = st /\ k.goal = goal /\ k.id = d /\ k.record = r
  <2>1. goal \in Goals
    BY <1>2 DEF Goals
  <2>2. QED
    BY <1>k, <2>1 DEF CallShapes
<1>4. CallOK(k, sources')
  BY <1>1, <1>2, <1>3 DEF CallOK, Reconciling, TreesAtHand
<1>5. Advances(c)
  BY <1>1, <1>2, <1>i, <1>k, <1>3, <1>4 DEF Advances, Reconcile
<1>6. QED
  BY <1>5, OnlyTheCall DEF Reconcile

-----------------------------------------------------------------------------
(* The steps of deploying and restoring                                    *)

LEMMA CallNow ==
  ASSUME TypeInv, NEW c \in Callers
  PROVE  \E k \in CallShapes : k = call[c] /\ CallOK(k, sources)
  BY DEF TypeInv, CallsOK

LEMMA FileStepFacts ==
  ASSUME NEW k \in CallShapes, NEW src, CallOK(k, src), k.step \in FileSteps
  PROVE  /\ k.record.place \in Places /\ k.record.version \in Versions /\ k.record.mode \in Modes
         /\ k.goal \in {"deploy", "restore"} /\ TreesAtHand(k, src)
  BY DEF CallOK, Deploying, Removing, Reconciling, Full, FileSteps, DeleteSteps

LEMMA FileStepGoes ==
  ASSUME NEW k \in CallShapes, NEW src, CallOK(k, src), k.step \in FileSteps,
         NEW n \in CallShapes, n.step \in FileSteps \union {"record"}, n.goal = k.goal,
         n.todo = k.todo, n.id = k.id, n.record = k.record, NEW src2, TreesAtHand(n, src2)
  PROVE  CallOK(n, src2)
<1>1. CASE k.goal = "deploy"
  <2>1. Deploying(k, src)
    BY <1>1 DEF CallOK, Removing, Reconciling, FileSteps, DeleteSteps
  <2>2. QED
    BY <1>1, <2>1 DEF CallOK, Deploying, FileSteps
<1>2. CASE k.goal # "deploy"
  <2>1. Reconciling(k, src) /\ k.goal = "restore"
    BY <1>2 DEF CallOK, Deploying, Removing, Reconciling, FileSteps, DeleteSteps
  <2>2. QED
    BY <1>2, <2>1 DEF CallOK, Reconciling
<1>3. QED
  BY <1>1, <1>2

LEMMA NextTargetInv == ASSUME TypeInv, NEW c \in Callers, NextTarget(c) PROVE TypeInv'
<1>1. PICK k \in CallShapes : k = call[c] /\ CallOK(k, sources)
  BY CallNow
<1>2. k.step = "next" /\ Deploying(k, sources)
  BY <1>1 DEF NextTarget, CallOK, Removing, Reconciling, FileSteps, DeleteSteps
<1>3. UNCHANGED <<database, files, store>> /\ UNCHANGED sources
  BY DEF NextTarget, files
<1>4. ASSUME NEW p \in k.todo, UNCHANGED prepared,
             call' = [call EXCEPT ![c].step = "source", ![c].todo = @ \ {p},
                                  ![c].staged = None, ![c].record.place = p]
      PROVE  TypeInv'
  <2>1. PICK r : r = [k.record EXCEPT !.place = p]
    OBVIOUS
  <2>2. /\ r \in Relation /\ r.place = p /\ r.version = k.record.version /\ r.mode = k.record.mode
        /\ p \in Places
    BY <1>2, <2>1 DEF Deploying, CallShapes, Relation
  <2>3. PICK n :
           n = [k EXCEPT !.step = "source", !.todo = k.todo \ {p}, !.staged = None, !.record = r]
    OBVIOUS
  <2>4. /\ n \in CallShapes /\ n.step = "source" /\ n.goal = k.goal
        /\ n.todo = k.todo \ {p} /\ n.record = r
    BY <2>2, <2>3 DEF CallShapes, Steps
  <2>5. call' = [call EXCEPT ![c] = n]
    BY <1>1, <1>4, <2>1, <2>3 DEF TypeInv, CallsOK
  <2>6. CallOK(n, sources')
    BY <1>2, <2>2, <2>4 DEF CallOK, Deploying, TreesAtHand, FileSteps
  <2>7. QED
    BY <1>3, <1>4, <2>4, <2>5, <2>6, OnlyTheCall DEF Advances
<1>5. CASE EndDeploy(c)
  <2>1. Advances(c) /\ (UNCHANGED prepared \/ Close(call[c].op))
    BY <1>5, FinishAdvances DEF EndDeploy
  <2>2. UNCHANGED <<relations, catalog, recorded, store, disk, sources>>
    BY <1>3 DEF database, files
  <2>3. PlansOK'
    BY <2>1, CloseInv, FramePlans DEF TypeInv
  <2>4. QED
    BY <2>1, <2>2, <2>3, SameSources, AdvanceInv, FrameRows, FrameFiles DEF TypeInv
<1>6. QED
  BY <1>1, <1>4, <1>5 DEF NextTarget

LEMMA FindSourceInv == ASSUME TypeInv, NEW c \in Callers, FindSource(c) PROVE TypeInv'
<1>1. PICK k \in CallShapes : k = call[c] /\ CallOK(k, sources)
  BY CallNow
<1>2. k.step \in FileSteps /\ k.record.version \in Versions
  BY <1>1, FileStepFacts DEF FindSource, FileSteps
<1>3. PICK st \in {"stage", "create"} :
        Goto(c, st) /\ (st = "stage" => sources[k.record.version] # None)
  BY <1>1 DEF FindSource, Version
<1>4. UNCHANGED <<database, files, store, prepared>> /\ UNCHANGED sources
  BY DEF FindSource, files
<1>5. st = "stage" => sources'[k.record.version] \in Trees
  BY <1>2, <1>3, <1>4 DEF TypeInv, FilesOK
<1>6. ASSUME NEW n \in CallShapes, n.step = st, n.goal = k.goal, n.todo = k.todo, n.id = k.id,
             n.record = k.record
      PROVE  CallOK(n, sources')
  <2>1. TreesAtHand(n, sources') /\ n.step \in FileSteps
    BY <1>5, <1>6 DEF TreesAtHand, FileSteps
  <2>2. QED
    BY <1>1, <1>2, <1>6, <2>1, FileStepGoes
<1>7. st \in Steps
  BY DEF Steps
<1>8. Advances(c)
  BY <1>1, <1>3, <1>6, <1>7, GotoAdvances DEF TypeInv
<1>9. QED
  BY <1>4, <1>8, OnlyTheCall

LEMMA SourceStep ==
  ASSUME TypeInv, NEW v \in Versions, NEW x \in Trees, sources' = [sources EXCEPT ![v] = x],
         UNCHANGED disk
  PROVE  FilesOK' /\ SourcesStay
<1>1. SourcesStay
  BY DEF SourcesStay, TypeInv, FilesOK
<1>2. \A p \in Places : disk[p].kind = "link" => disk[p].version \in Versions
  BY HeldTrees DEF TypeInv
<1>3. FilesOK'
  BY <1>2 DEF TypeInv, FilesOK
<1>4. QED
  BY <1>1, <1>3

LEMMA CreateSourceInv == ASSUME TypeInv, NEW c \in Callers, CreateSource(c) PROVE TypeInv'
<1>1. PICK k \in CallShapes : k = call[c] /\ CallOK(k, sources)
  BY CallNow
<1>2. k.step \in FileSteps /\ k.record.version \in Versions
  BY <1>1, FileStepFacts DEF CreateSource, FileSteps
<1>3. /\ Goto(c, "fill") /\ UNCHANGED <<relations, catalog, recorded, store, disk, prepared>>
      /\ sources' = [sources EXCEPT ![k.record.version] = IF @ = None THEN Partial ELSE @]
  BY <1>1 DEF CreateSource, Version, database
<1>4. PICK x \in Trees : sources' = [sources EXCEPT ![k.record.version] = x]
  BY <1>2, <1>3 DEF TypeInv, FilesOK, Trees
<1>5. FilesOK' /\ SourcesStay
  BY <1>2, <1>3, <1>4, SourceStep
<1>6. ASSUME NEW n \in CallShapes, n.step = "fill", n.goal = k.goal, n.todo = k.todo, n.id = k.id,
             n.record = k.record
      PROVE  CallOK(n, sources')
  <2>1. TreesAtHand(n, sources') /\ n.step \in FileSteps
    BY <1>6 DEF TreesAtHand, FileSteps
  <2>2. QED
    BY <1>1, <1>2, <1>6, <2>1, FileStepGoes
<1>7. "fill" \in Steps
  BY DEF Steps
<1>8. Advances(c)
  BY <1>1, <1>3, <1>6, <1>7, GotoAdvances DEF TypeInv
<1>9. QED
  BY <1>3, <1>5, <1>8, AdvanceInv, FrameRows, FramePlans DEF TypeInv

LEMMA FillSourceInv == ASSUME TypeInv, NEW c \in Callers, FillSource(c) PROVE TypeInv'
<1>1. PICK k \in CallShapes : k = call[c] /\ CallOK(k, sources)
  BY CallNow
<1>2. k.step = "fill" /\ k.step \in FileSteps /\ k.record.version \in Versions
  BY <1>1, FileStepFacts DEF FillSource, FileSteps
<1>3. UNCHANGED <<relations, catalog, recorded, store, disk, prepared>>
  BY DEF FillSource, database
<1>4. CASE Fail(c) /\ UNCHANGED sources
  <2>1. Advances(c)
    BY <1>1, <1>2, <1>4, FailAdvances DEF TypeInv
  <2>2. QED
    BY <1>3, <1>4, <2>1, OnlyTheCall DEF database, files
<1>5. CASE Goto(c, "stage") /\ sources' = [sources EXCEPT ![Version(c)] = ContentOf(Version(c))]
  <2>1. PICK x \in Trees : sources' = [sources EXCEPT ![k.record.version] = x]
    BY <1>1, <1>2, <1>5, VersionsArePairs DEF Version
  <2>2. FilesOK' /\ SourcesStay
    BY <1>2, <1>3, <2>1, SourceStep
  <2>3. sources'[k.record.version] \in Trees
    BY <1>2, <2>1 DEF TypeInv, FilesOK
  <2>4. ASSUME NEW n \in CallShapes, n.step = "stage", n.goal = k.goal, n.todo = k.todo,
               n.id = k.id, n.record = k.record
        PROVE  CallOK(n, sources')
    <3>1. TreesAtHand(n, sources') /\ n.step \in FileSteps
      BY <2>3, <2>4 DEF TreesAtHand, FileSteps
    <3>2. QED
      BY <1>1, <1>2, <2>4, <3>1, FileStepGoes
  <2>5. "stage" \in Steps
    BY DEF Steps
  <2>6. Advances(c)
    BY <1>1, <1>5, <2>4, <2>5, GotoAdvances DEF TypeInv
  <2>7. QED
    BY <1>3, <2>2, <2>6, AdvanceInv, FrameRows, FramePlans DEF TypeInv
<1>6. QED
  BY <1>4, <1>5 DEF FillSource

LEMMA StageInv == ASSUME TypeInv, NEW c \in Callers, Stage(c) PROVE TypeInv'
<1>1. PICK k \in CallShapes : k = call[c] /\ CallOK(k, sources)
  BY CallNow
<1>2. k.step = "stage" /\ k.step \in FileSteps /\ k.record.version \in Versions /\
      TreesAtHand(k, sources)
  BY <1>1, FileStepFacts DEF Stage, FileSteps
<1>3. UNCHANGED <<database, files, store, prepared>> /\ UNCHANGED sources
  BY DEF Stage, files
<1>4. CASE Fail(c)
  BY <1>1, <1>2, <1>3, <1>4, FailAdvances, OnlyTheCall DEF TypeInv
<1>5. CASE call' = [call EXCEPT ![c].step = "publish", ![c].staged = sources[Version(c)]]
  <2>1. PICK x \in Trees : x = sources[k.record.version]
    BY <1>2 DEF TreesAtHand
  <2>2. PICK n : n = [k EXCEPT !.step = "publish", !.staged = x]
    OBVIOUS
  <2>3. /\ n \in CallShapes /\ n.step = "publish" /\ n.goal = k.goal /\ n.todo = k.todo
        /\ n.id = k.id /\ n.record = k.record /\ n.staged = x
    BY <2>2 DEF CallShapes, Steps
  <2>4. call' = [call EXCEPT ![c] = n]
    BY <1>1, <1>5, <2>1, <2>2 DEF TypeInv, CallsOK, Version
  <2>5. TreesAtHand(n, sources') /\ n.step \in FileSteps
    BY <1>3, <2>1, <2>3 DEF TreesAtHand, FileSteps
  <2>6. CallOK(n, sources')
    BY <1>1, <1>2, <2>3, <2>5, FileStepGoes
  <2>7. QED
    BY <1>3, <2>3, <2>4, <2>6, OnlyTheCall DEF Advances
<1>6. QED
  BY <1>4, <1>5 DEF Stage

LEMMA DiskStep ==
  ASSUME TypeInv, NEW p \in Places, NEW h \in Holdings, disk' = [disk EXCEPT ![p] = h],
         UNCHANGED sources, h.kind = "link" => sources[h.version] \in Trees
  PROVE  FilesOK'
  BY DEF TypeInv, FilesOK

LEMMA PublishInv == ASSUME TypeInv, NEW c \in Callers, Publish(c) PROVE TypeInv'
<1>1. PICK k \in CallShapes : k = call[c] /\ CallOK(k, sources)
  BY CallNow
<1>2. /\ k.step = "publish" /\ k.step \in FileSteps /\ k.record.version \in Versions
      /\ k.record.place \in Places /\ sources[k.record.version] \in Trees /\ k.staged \in Trees
  BY <1>1, FileStepFacts DEF Publish, FileSteps, TreesAtHand
<1>3. UNCHANGED <<relations, catalog, recorded, store, sources, prepared>>
  BY DEF Publish, database
<1>4. FilesOK'
  <2>1. CASE UNCHANGED disk
    BY <1>3, <2>1, FrameFiles DEF TypeInv
  <2>2. CASE ~UNCHANGED disk
    <3>1. PICK h : /\ h \in {Copy(k.staged), Link(k.record.version)}
                   /\ disk' = [disk EXCEPT ![k.record.place] = h]
      BY <1>1, <2>2 DEF Publish, Place, Version
    <3>2. h \in Holdings /\ (h.kind = "link" => h.version = k.record.version)
      BY <1>2, <3>1 DEF Holdings, Copy, Link
    <3>3. QED
      BY <1>2, <1>3, <3>1, <3>2, DiskStep
  <2>3. QED
    BY <2>1, <2>2
<1>5. Advances(c)
  <2>1. CASE Fail(c)
    BY <1>1, <1>2, <2>1, FailAdvances DEF TypeInv
  <2>2. CASE Goto(c, "record")
    <3>1. ASSUME NEW n \in CallShapes, n.step = "record", n.goal = k.goal, n.todo = k.todo,
                 n.id = k.id, n.record = k.record, n.staged = k.staged
          PROVE  CallOK(n, sources')
      <4>1. TreesAtHand(n, sources')
        BY <1>2, <3>1 DEF TreesAtHand
      <4>2. QED
        BY <1>1, <1>2, <3>1, <4>1, FileStepGoes
    <3>2. "record" \in Steps
      BY DEF Steps
    <3>3. QED
      BY <1>1, <2>2, <3>1, <3>2, GotoAdvances DEF TypeInv
  <2>3. QED
    BY <2>1, <2>2 DEF Publish
<1>6. QED
  BY <1>3, <1>4, <1>5, SameSources, AdvanceInv, FrameRows, FramePlans DEF TypeInv

\* One row is written.
LEMMA RowStep ==
  ASSUME RowsOK, NEW d, NEW r \in Relation, r.state # "absent" => Full(r),
         relations' = [relations EXCEPT ![d] = r], UNCHANGED <<catalog, recorded, store>>
  PROVE  RowsOK'
  BY DEF RowsOK

LEMMA InsertRelationInv == ASSUME TypeInv, NEW c \in Callers, InsertRelation(c) PROVE TypeInv'
<1>1. PICK k \in CallShapes : k = call[c] /\ CallOK(k, sources)
  BY CallNow
<1>2. /\ k.step = "record" /\ k.goal = "deploy" /\ Deploying(k, sources)
      /\ k.record \in Relation /\ k.staged \in Trees
  BY <1>1 DEF InsertRelation, CallOK, Deploying, Removing, Reconciling, TreesAtHand, CallShapes
<1>3. PICK r :
          r = [k.record EXCEPT !.expected = TreeHash(k.staged), !.observed = TreeHash(k.staged)]
  OBVIOUS
<1>4. r \in Relation /\ Full(r)
  <2>1. TreeHash(k.staged) \in Hashes /\ k.record.place \in Places
    BY <1>2, HashesAreHashes DEF Deploying
  <2>2. QED
    BY <1>2, <1>3, <2>1 DEF Relation, Full, Deploying
<1>5. UNCHANGED <<catalog, recorded, store, disk, sources, prepared>>
  BY DEF InsertRelation, files
<1>6. RowsOK'
  <2>1. CASE UNCHANGED relations
    BY <1>5, <2>1, FrameRows DEF TypeInv
  <2>2. CASE ~UNCHANGED relations
    <3>1. PICK d \in Deployments : relations' = [relations EXCEPT ![d] = r]
      BY <1>1, <1>3, <2>2 DEF InsertRelation
    <3>2. QED
      BY <1>4, <1>5, <3>1, RowStep DEF TypeInv
  <2>3. QED
    BY <2>1, <2>2
<1>7. Advances(c)
  <2>1. CASE Fail(c)
    BY <1>1, <1>2, <2>1, FailAdvances DEF TypeInv
  <2>2. CASE Goto(c, "next")
    <3>1. \A n \in CallShapes :
            n.step = "next" /\ n.goal = k.goal /\ n.todo = k.todo /\ n.record = k.record
            => CallOK(n, sources')
      BY <1>2 DEF CallOK, Deploying, TreesAtHand
    <3>2. "next" \in Steps
      BY DEF Steps
    <3>3. QED
      BY <1>1, <2>2, <3>1, <3>2, GotoAdvances DEF TypeInv
  <2>3. QED
    BY <2>1, <2>2 DEF InsertRelation
<1>8. QED
  BY <1>5, <1>6, <1>7, SameSources, AdvanceInv, FrameFiles, FramePlans DEF TypeInv

-----------------------------------------------------------------------------
(* The steps of removing                                                   *)

LEMMA RemovalStepFacts ==
  ASSUME NEW k \in CallShapes, NEW src, CallOK(k, src),
         k.step \in {"decide", "verify", "mark"} \union DeleteSteps
  PROVE  Removing(k)
  BY DEF CallOK, Deploying, Reconciling, FileSteps, DeleteSteps

LEMMA RemovalGoes ==
  ASSUME NEW k \in CallShapes, Removing(k), NEW n \in CallShapes, n.goal = k.goal,
         n.todo = k.todo, n.skill = k.skill, n.id = k.id, n.record = k.record,
         \/ n.step = "decide"
         \/ n.step \in {"unlink", "mark"} /\ k.step \in {"verify", "unlink"}
         \/ n.step \in DeleteSteps /\ k.goal = "delete",
         NEW src
  PROVE  CallOK(n, src)
  BY DEF CallOK, Removing, DeleteSteps

LEMMA DecideInv == ASSUME TypeInv, NEW c \in Callers, Decide(c) PROVE TypeInv'
<1>1. PICK k \in CallShapes : k = call[c] /\ CallOK(k, sources)
  BY CallNow
<1>2. k.step = "decide" /\ Removing(k)
  BY <1>1, RemovalStepFacts DEF Decide
<1>3. UNCHANGED <<database, files, store>>
  BY DEF Decide
<1>4. ASSUME NEW next \in k.todo, UNCHANGED prepared,
             call' = [call EXCEPT ![c] =
               [@ EXCEPT !.todo = call[c].todo \ {next}, !.id = next.id, !.record = next.record,
                  !.decision = next.decision,
                  !.step = IF next.decision = "remove_owned" THEN "verify" ELSE "mark"]]
      PROVE  TypeInv'
  <2>1. next \in Removals /\ Full(next.record)
    BY <1>2 DEF Removing, FullRemovals
  <2>2. next.id \in Deployments /\ next.record \in Relation /\ next.decision \in Decisions
    BY <2>1 DEF Removals
  <2>3. PICK st \in {"verify", "mark"} :
           st = IF next.decision = "remove_owned" THEN "verify" ELSE "mark"
    OBVIOUS
  <2>4. PICK n : n = [k EXCEPT !.todo = k.todo \ {next}, !.id = next.id, !.record = next.record,
                        !.decision = next.decision,
                        !.step = IF next.decision = "remove_owned" THEN "verify" ELSE "mark"]
    OBVIOUS
  <2>5. /\ n \in CallShapes /\ n.step = st /\ n.goal = k.goal /\ n.todo = k.todo \ {next}
        /\ n.id = next.id /\ n.record = next.record /\ n.skill = k.skill
    BY <2>2, <2>3, <2>4 DEF CallShapes, Steps
  <2>6. call' = [call EXCEPT ![c] = n]
    BY <1>1, <1>4, <2>4
  <2>7. CallOK(n, sources')
    BY <1>2, <2>1, <2>2, <2>5 DEF CallOK, Removing, DeleteSteps
  <2>8. QED
    BY <1>3, <1>4, <2>5, <2>6, <2>7, OnlyTheCall DEF Advances
<1>5. CASE Finish(c) /\ Close(call[c].op)
  <2>1. UNCHANGED <<relations, catalog, recorded, store, disk, sources>>
    BY <1>3 DEF database, files
  <2>2. QED
    BY <1>5, <2>1, FinishAdvances, CloseInv, SameSources, AdvanceInv, FrameRows, FrameFiles
    DEF TypeInv
<1>6. CASE k.goal = "delete" /\ Goto(c, "delete_check") /\ UNCHANGED prepared
  <2>1. \A n \in CallShapes :
          /\ n.step = "delete_check" /\ n.goal = k.goal /\ n.todo = k.todo /\ n.skill = k.skill
          /\ n.id = k.id /\ n.record = k.record
          => CallOK(n, sources')
    BY <1>2, <1>6, RemovalGoes DEF DeleteSteps
  <2>2. "delete_check" \in Steps
    BY DEF Steps
  <2>3. QED
    BY <1>1, <1>3, <1>6, <2>1, <2>2, GotoAdvances, OnlyTheCall DEF TypeInv
<1>7. QED
  BY <1>1, <1>4, <1>5, <1>6 DEF Decide

LEMMA VerifyInv == ASSUME TypeInv, NEW c \in Callers, Verify(c) PROVE TypeInv'
<1>1. PICK k \in CallShapes : k = call[c] /\ CallOK(k, sources)
  BY CallNow
<1>2. k.step = "verify" /\ Removing(k)
  BY <1>1, RemovalStepFacts DEF Verify
<1>3. \A n \in CallShapes :
        /\ n.step = "unlink" /\ n.goal = k.goal /\ n.todo = k.todo /\ n.skill = k.skill
        /\ n.id = k.id /\ n.record = k.record
        => CallOK(n, sources')
  BY <1>2, RemovalGoes
<1>4. "unlink" \in Steps
  BY DEF Steps
<1>5. Advances(c)
  BY <1>1, <1>3, <1>4, GotoAdvances, FinishAdvances DEF Verify, TypeInv
<1>6. QED
  BY <1>5, OnlyTheCall DEF Verify

LEMMA VerifyIdentityInv == ASSUME TypeInv, NEW c \in Callers, VerifyIdentity(c) PROVE TypeInv'
<1>1. PICK k \in CallShapes : k = call[c] /\ CallOK(k, sources)
  BY CallNow
<1>2. k.step = "replace" /\ Reconciling(k, sources) /\ k.goal = "restore"
  BY <1>1 DEF VerifyIdentity, CallOK, Deploying, Removing, Reconciling, FileSteps, DeleteSteps
<1>3. \A n \in CallShapes :
        n.step = "unlink" /\ n.goal = k.goal /\ n.id = k.id /\ n.record = k.record
        => CallOK(n, sources')
  BY <1>2 DEF CallOK, Reconciling, TreesAtHand
<1>4. "unlink" \in Steps
  BY DEF Steps
<1>5. Advances(c)
  BY <1>1, <1>3, <1>4, GotoAdvances, FinishAdvances DEF VerifyIdentity, TypeInv
<1>6. QED
  BY <1>5, OnlyTheCall DEF VerifyIdentity

\* Who removes a tree.
LEMMA UnlinkFacts ==
  ASSUME NEW k \in CallShapes, NEW src, CallOK(k, src), k.step = "unlink"
  PROVE  /\ k.record.place \in Places
         /\ \/ Removing(k) /\ k.goal # "restore"
            \/ Reconciling(k, src) /\ k.goal = "restore"
  BY DEF CallOK, Deploying, Removing, Reconciling, FileSteps, DeleteSteps, Full

LEMMA UnlinkInv == ASSUME TypeInv, NEW c \in Callers, Unlink(c) PROVE TypeInv'
<1>1. PICK k \in CallShapes : k = call[c] /\ CallOK(k, sources) /\ k.step = "unlink"
  BY CallNow DEF Unlink
<1>2. UNCHANGED <<relations, catalog, recorded, store, sources, prepared>>
  BY DEF Unlink, database
<1>3. FilesOK'
  <2>1. CASE UNCHANGED disk
    BY <1>2, <2>1, FrameFiles DEF TypeInv
  <2>2. CASE ~UNCHANGED disk
    <3>1. PICK h \in {NoTree, Copy(Partial)} : disk' = [disk EXCEPT ![k.record.place] = h]
      BY <1>1, <2>2 DEF Unlink, Place
    <3>2. h \in Holdings /\ h.kind # "link"
      BY DEF Holdings, NoTree, Copy, Trees
    <3>3. QED
      BY <1>1, <1>2, <3>1, <3>2, UnlinkFacts, DiskStep
  <2>3. QED
    BY <2>1, <2>2
<1>4. Advances(c)
  <2>1. CASE Finish(c)
    BY <2>1, FinishAdvances
  <2>2. CASE k.goal = "restore" /\ Goto(c, "source")
    <3>1. \A n \in CallShapes :
            n.step = "source" /\ n.goal = k.goal /\ n.id = k.id /\ n.record = k.record
            => CallOK(n, sources')
      BY <1>1, <2>2, UnlinkFacts DEF CallOK, Reconciling, TreesAtHand, FileSteps
    <3>2. "source" \in Steps
      BY DEF Steps
    <3>3. QED
      BY <1>1, <2>2, <3>1, <3>2, GotoAdvances DEF TypeInv
  <2>3. CASE k.goal # "restore" /\ Goto(c, "mark")
    <3>1. \A n \in CallShapes :
            /\ n.step = "mark" /\ n.goal = k.goal /\ n.todo = k.todo /\ n.skill = k.skill
            /\ n.id = k.id /\ n.record = k.record
            => CallOK(n, sources')
      BY <1>1, <2>3, UnlinkFacts, RemovalGoes
    <3>2. "mark" \in Steps
      BY DEF Steps
    <3>3. QED
      BY <1>1, <2>3, <3>1, <3>2, GotoAdvances DEF TypeInv
  <2>4. QED
    BY <1>1, <2>1, <2>2, <2>3 DEF Unlink
<1>5. QED
  BY <1>2, <1>3, <1>4, SameSources, AdvanceInv, FrameRows, FramePlans DEF TypeInv

LEMMA MarkInv == ASSUME TypeInv, NEW c \in Callers, Mark(c) PROVE TypeInv'
<1>1. PICK k \in CallShapes : k = call[c] /\ CallOK(k, sources)
  BY CallNow
<1>2. k.step = "mark" /\ Removing(k) /\ k.id \in Deployments
  BY <1>1, RemovalStepFacts DEF Mark, Removing
<1>3. UNCHANGED <<catalog, recorded, store, disk, sources, prepared>>
  BY DEF Mark, files
<1>4. PICK old \in Relation : old = relations[k.id] /\ (old.state # "absent" => Full(old))
  BY <1>2 DEF TypeInv, RowsOK
<1>5. RowsOK'
  <2>1. CASE UNCHANGED relations
    BY <1>3, <2>1, FrameRows DEF TypeInv
  <2>2. CASE ~UNCHANGED relations
    <3>1. PICK r : /\ \/ r = [old EXCEPT !.managed = FALSE]
                      \/ r = [old EXCEPT !.state = "removed"]
                   /\ relations' = [relations EXCEPT ![k.id] = r] /\ old.state = "deployed"
      BY <1>1, <1>4, <2>2 DEF Mark, Active
    <3>2. r \in Relation /\ Full(r)
      BY <1>4, <3>1 DEF Relation, Full
    <3>3. QED
      BY <1>3, <3>1, <3>2, RowStep DEF TypeInv
  <2>3. QED
    BY <2>1, <2>2
<1>6. \A n \in CallShapes :
        /\ n.step = "decide" /\ n.goal = k.goal /\ n.todo = k.todo /\ n.skill = k.skill
        /\ n.id = k.id /\ n.record = k.record
        => CallOK(n, sources')
  BY <1>2, RemovalGoes
<1>7. "decide" \in Steps
  BY DEF Steps
<1>8. Advances(c)
  BY <1>1, <1>6, <1>7, GotoAdvances, FinishAdvances DEF Mark, TypeInv
<1>9. QED
  BY <1>3, <1>5, <1>8, SameSources, AdvanceInv, FrameFiles, FramePlans DEF TypeInv

LEMMA DeleteInv ==
  ASSUME TypeInv, NEW c \in Callers, DeleteCheck(c) \/ DeleteRows(c) \/ DeleteStore(c)
  PROVE  TypeInv'
<1>1. PICK k \in CallShapes : k = call[c] /\ CallOK(k, sources)
  BY CallNow
<1>2. k.step \in DeleteSteps /\ Removing(k) /\ k.goal = "delete" /\ k.skill \in Skills
  BY <1>1, RemovalStepFacts DEF DeleteCheck, DeleteRows, DeleteStore, Removing, DeleteSteps
<1>3. \A st \in DeleteSteps : \A n \in CallShapes :
        /\ n.step = st /\ n.goal = k.goal /\ n.todo = k.todo /\ n.skill = k.skill
        /\ n.id = k.id /\ n.record = k.record
        => CallOK(n, sources')
  BY <1>2, RemovalGoes
<1>4. DeleteSteps \subseteq Steps
  BY DEF DeleteSteps, Steps
<1>5. "delete_rows" \in DeleteSteps /\ "delete_store" \in DeleteSteps
  BY DEF DeleteSteps
<1>6. ASSUME NEW st \in DeleteSteps, Goto(c, st) PROVE Advances(c)
  <2>1. st \in Steps /\ CallsOK
    BY <1>4 DEF TypeInv
  <2>2. \A n \in CallShapes :
          /\ n.step = st /\ n.goal = call[c].goal /\ n.todo = call[c].todo
          /\ n.skill = call[c].skill /\ n.id = call[c].id /\ n.record = call[c].record
          => CallOK(n, sources')
    BY <1>1, <1>3
  <2>3. QED
    BY <1>6, <2>1, <2>2, GotoAdvances
<1>7. CASE DeleteCheck(c)
  <2>1. Advances(c)
    BY <1>5, <1>6, <1>7, FinishAdvances DEF DeleteCheck
  <2>2. QED
    BY <1>7, <2>1, OnlyTheCall DEF DeleteCheck
<1>8. CASE DeleteRows(c)
  <2>1. Advances(c)
    BY <1>5, <1>6, <1>8 DEF DeleteRows
  <2>2. /\ catalog' \subseteq catalog /\ recorded' \subseteq recorded
        /\ UNCHANGED <<store, disk, sources, prepared>>
    BY <1>8 DEF DeleteRows, files
  <2>3. /\ relations' \in [Deployments -> Relation]
        /\ \A d \in Deployments : relations'[d].state # "absent" => relations'[d] = relations[d]
    BY <1>8, NothingInHand DEF DeleteRows, TypeInv, RowsOK, NoRelation
  <2>4. RowsOK'
    BY <2>2, <2>3 DEF TypeInv, RowsOK
  <2>5. QED
    BY <2>1, <2>2, <2>4, SameSources, AdvanceInv, FrameFiles, FramePlans DEF TypeInv
<1>9. CASE DeleteStore(c)
  <2>1. Advances(c) /\ UNCHANGED <<relations, recorded, disk, sources>>
    BY <1>9, FinishAdvances DEF DeleteStore, files
  <2>2. store' \subseteq store /\ catalog' \subseteq catalog \union {k.skill}
    BY <1>1, <1>9 DEF DeleteStore, SkillsVersions
  <2>3. PlansOK'
    BY <1>9, CloseInv, FramePlans DEF DeleteStore, TypeInv
  <2>4. RowsOK'
    BY <1>2, <2>1, <2>2 DEF TypeInv, RowsOK
  <2>5. QED
    BY <2>1, <2>3, <2>4, SameSources, AdvanceInv, FrameFiles DEF TypeInv
<1>10. QED
  BY <1>7, <1>8, <1>9

-----------------------------------------------------------------------------
(* The other steps of reconciling                                          *)

LEMMA ReconcileStepFacts ==
  ASSUME NEW k \in CallShapes, NEW src, CallOK(k, src),
         \/ k.step \in {"capture", "keep", "inspect"}
         \/ k.step = "record" /\ k.goal # "deploy"
  PROVE  /\ Reconciling(k, src) /\ Full(k.record) /\ k.id \in Deployments
         /\ k.step = "capture" => k.goal = "collect"
         /\ k.step = "inspect" => k.goal = "ignore"
  BY DEF CallOK, Deploying, Removing, Reconciling, FileSteps, DeleteSteps

\* What was read of the target is recorded next.
LEMMA RecordNext ==
  ASSUME TypeInv, NEW c \in Callers, NEW k \in CallShapes, k = call[c], Reconciling(k, sources),
         k.goal \in {"collect", "ignore"}, NEW x \in Trees,
         call' = [call EXCEPT ![c].step = "record", ![c].staged = x]
  PROVE  Advances(c)
<1>1. PICK n : n = [k EXCEPT !.step = "record", !.staged = x]
  OBVIOUS
<1>s. "record" \in Steps /\ x \in Trees \union {None}
  BY DEF Steps
<1>2. /\ n \in CallShapes /\ n.step = "record" /\ n.goal = k.goal /\ n.id = k.id
      /\ n.record = k.record /\ n.staged = x
  BY <1>1, <1>s DEF CallShapes
<1>3. call' = [call EXCEPT ![c] = n]
  BY <1>1 DEF TypeInv, CallsOK
<1>4. CallOK(n, sources')
  BY <1>2 DEF CallOK, Reconciling, TreesAtHand
<1>5. QED
  BY <1>2, <1>3, <1>4 DEF Advances

LEMMA CaptureInv == ASSUME TypeInv, NEW c \in Callers, Capture(c) PROVE TypeInv'
<1>1. PICK k \in CallShapes : k = call[c] /\ CallOK(k, sources)
  BY CallNow
<1>2. /\ k.step = "capture" /\ k.goal = "collect" /\ Reconciling(k, sources)
      /\ k.record.place \in Places /\ k.record.version \in Versions
  BY <1>1, ReconcileStepFacts DEF Capture, Full
<1>3. UNCHANGED <<relations, catalog, recorded, disk, sources, prepared>>
  BY DEF Capture, database, files
<1>4. CASE disk[k.record.place].kind = "copy"
  <2>1. PICK x \in Trees : x = disk[k.record.place].content
    BY <1>2, <1>4, HeldTrees DEF TypeInv
  <2>2. /\ store' = store \union {<<SkillOf(k.record.version), x>>}
        /\ call' = [call EXCEPT ![c].step = "record", ![c].staged = x]
    BY <1>1, <1>4, <2>1 DEF Capture, Place, Version
  <2>3. RowsOK'
    BY <1>2, <1>3, <2>2, VersionsArePairs DEF TypeInv, RowsOK
  <2>4. Advances(c)
    BY <1>1, <1>2, <2>2, RecordNext
  <2>5. QED
    BY <1>3, <2>3, <2>4, SameSources, AdvanceInv, FrameFiles, FramePlans DEF TypeInv
<1>5. CASE disk[k.record.place].kind # "copy"
  <2>1. Finish(c) /\ UNCHANGED store
    BY <1>1, <1>5 DEF Capture, Place
  <2>2. QED
    BY <1>3, <2>1, FinishAdvances, OnlyTheCall DEF database, files
<1>6. QED
  BY <1>4, <1>5

LEMMA KeepInv == ASSUME TypeInv, NEW c \in Callers, KeepIndependent(c) PROVE TypeInv'
<1>1. PICK k \in CallShapes : k = call[c] /\ CallOK(k, sources)
  BY CallNow
<1>2. k.step = "keep" /\ k.id \in Deployments
  BY <1>1, ReconcileStepFacts DEF KeepIndependent
<1>3. UNCHANGED <<catalog, recorded, store, disk, sources, prepared>> /\ Advances(c)
  BY FinishAdvances DEF KeepIndependent, files
<1>4. PICK old \in Relation : old = relations[k.id] /\ (old.state # "absent" => Full(old))
  BY <1>2 DEF TypeInv, RowsOK
<1>5. RowsOK'
  <2>1. CASE UNCHANGED relations
    BY <1>3, <2>1, FrameRows DEF TypeInv
  <2>2. CASE ~UNCHANGED relations
    <3>1. PICK r : r = [old EXCEPT !.managed = FALSE]
      OBVIOUS
    <3>2. relations' = [relations EXCEPT ![k.id] = r] /\ old.state = "deployed"
      BY <1>1, <1>2, <1>4, <2>2, <3>1 DEF KeepIndependent, Active, TypeInv, RowsOK
    <3>3. r \in Relation /\ Full(r)
      BY <1>4, <3>1, <3>2 DEF Relation, Full
    <3>4. QED
      BY <1>3, <3>2, <3>3, RowStep DEF TypeInv
  <2>3. QED
    BY <2>1, <2>2
<1>6. QED
  BY <1>3, <1>5, SameSources, AdvanceInv, FrameFiles, FramePlans DEF TypeInv

LEMMA InspectInv == ASSUME TypeInv, NEW c \in Callers, InspectAgain(c) PROVE TypeInv'
<1>1. PICK k \in CallShapes : k = call[c] /\ CallOK(k, sources)
  BY CallNow
<1>2. /\ k.step = "inspect" /\ k.goal = "ignore" /\ Reconciling(k, sources)
      /\ k.record.place \in Places
  BY <1>1, ReconcileStepFacts DEF InspectAgain, Full
<1>3. CASE Observation(k.record) = "missing"
  <2>1. Finish(c) /\ UNCHANGED <<database, files, store, prepared>>
    BY <1>1, <1>3 DEF InspectAgain
  <2>2. QED
    BY <2>1, FinishAdvances, OnlyTheCall
<1>4. CASE Observation(k.record) # "missing"
  <2>1. Occupied(k.record.place)
    BY <1>4 DEF Observation
  <2>2. PICK x \in Trees : x = ContentAt(k.record.place)
    BY <1>2, <2>1, HeldTrees DEF TypeInv
  <2>3. call' = [call EXCEPT ![c].step = "record", ![c].staged = x]
    BY <1>1, <1>4, <2>2 DEF InspectAgain, Place
  <2>4. Advances(c)
    BY <1>1, <1>2, <2>3, RecordNext
  <2>5. QED
    BY <2>4, OnlyTheCall DEF InspectAgain
<1>5. QED
  BY <1>3, <1>4

LEMMA UpdateFactsInv == ASSUME TypeInv, NEW c \in Callers, UpdateFacts(c) PROVE TypeInv'
<1>1. PICK k \in CallShapes : k = call[c] /\ CallOK(k, sources)
  BY CallNow
<1>2. /\ k.step = "record" /\ k.goal # "deploy" /\ Reconciling(k, sources) /\ Full(k.record)
      /\ k.id \in Deployments /\ k.staged \in Trees
  BY <1>1, ReconcileStepFacts DEF UpdateFacts, Reconciling, TreesAtHand
<1>3. UNCHANGED <<catalog, recorded, store, disk, sources, prepared>> /\ Advances(c)
  BY FinishAdvances DEF UpdateFacts, files
<1>4. PICK old \in Relation : old = relations[k.id] /\ (old.state # "absent" => Full(old))
  BY <1>2 DEF TypeInv, RowsOK
<1>5. PICK version \in Versions, expected \in Hashes, observed \in Hashes :
        /\ version = IF k.goal = "collect" THEN <<SkillOf(k.record.version), k.staged>>
                     ELSE k.record.version
        /\ expected = IF k.goal = "collect" THEN ManifestHash(k.staged) ELSE k.record.expected
        /\ observed = IF k.goal = "collect" THEN ManifestHash(k.staged) ELSE TreeHash(k.staged)
  BY <1>2, VersionsArePairs, HashesAreHashes DEF Full
<1>6. RowsOK'
  <2>1. CASE UNCHANGED relations
    BY <1>3, <2>1, FrameRows DEF TypeInv
  <2>2. CASE ~UNCHANGED relations
    <3>1. PICK r :
           r = [old EXCEPT !.version = version, !.expected = expected, !.observed = observed]
      OBVIOUS
    <3>2. relations' = [relations EXCEPT ![k.id] = r] /\ old.state = "deployed"
      BY <1>1, <1>2, <1>4, <1>5, <2>2, <3>1 DEF UpdateFacts, Active, TypeInv, RowsOK
    <3>3. r \in Relation /\ Full(r)
      BY <1>4, <3>1, <3>2 DEF Relation, Full
    <3>4. QED
      BY <1>3, <3>2, <3>3, RowStep DEF TypeInv
  <2>3. QED
    BY <2>1, <2>2
<1>7. QED
  BY <1>3, <1>6, SameSources, AdvanceInv, FrameFiles, FramePlans DEF TypeInv

-----------------------------------------------------------------------------
(* The world around                                                        *)

LEMMA WorldInv == ASSUME TypeInv, World PROVE TypeInv'
<1>1. ASSUME NEW p \in Places, NEW x \in Trees, Edit(p, x) PROVE TypeInv'
  <2>1. UNCHANGED <<relations, catalog, recorded, store, prepared, call>>
    BY <1>1 DEF Edit, database
  <2>2. FilesOK' /\ SourcesStay
    <3>1. CASE disk[p].kind = "link"
      <4>1. PICK v \in Versions : v = disk[p].version
        BY <3>1, HeldTrees DEF TypeInv
      <4>2. QED
        BY <1>1, <3>1, <4>1, SourceStep DEF Edit
    <3>2. CASE disk[p].kind # "link"
      <4>1. /\ Copy(x) \in Holdings /\ Copy(x).kind # "link" /\ UNCHANGED sources
            /\ disk' = [disk EXCEPT ![p] = Copy(x)]
        BY <1>1, <3>2 DEF Edit, Copy, Holdings
      <4>2. QED
        BY <4>1, DiskStep, SameSources
    <3>3. QED
      BY <3>1, <3>2
  <2>3. CallsOK'
    BY <2>1, <2>2, SourcesKeepCalls DEF TypeInv, CallsOK
  <2>4. QED
    BY <2>1, <2>2, <2>3, FrameRows, FramePlans DEF TypeInv
<1>2. ASSUME NEW p \in Places, RemoveByHand(p) PROVE TypeInv'
  <2>1. UNCHANGED <<relations, catalog, recorded, store, prepared, call, sources>>
    BY <1>2 DEF RemoveByHand, database
  <2>2. NoTree \in Holdings /\ NoTree.kind # "link" /\ disk' = [disk EXCEPT ![p] = NoTree]
    BY <1>2 DEF RemoveByHand, NoTree, Holdings
  <2>3. FilesOK'
    BY <2>1, <2>2, DiskStep
  <2>4. QED
    BY <2>1, <2>3, FrameRows, FramePlans, FrameCalls DEF TypeInv
<1>3. CASE Crash
  <2>1. UNCHANGED <<relations, catalog, recorded, store, disk, sources>>
    BY <1>3 DEF Crash, database, files
  <2>2. /\ Closed \in PlanShapes /\ PlanOK(Closed) /\ NoPlan \in PlanShapes /\ PlanOK(NoPlan)
    BY NoRecords DEF Closed, NoPlan, Plan, PlanShapes, PlanOK
  <2>3. PlansOK'
    BY <1>3, <2>2 DEF Crash, PlansOK
  <2>4. CallsOK'
    BY <1>3, NothingInHand DEF Crash, CallsOK, CallOK
  <2>5. QED
    BY <2>1, <2>3, <2>4, FrameRows, FrameFiles DEF TypeInv
<1>4. QED
  BY <1>1, <1>2, <1>3 DEF World

-----------------------------------------------------------------------------
LEMMA StepInv == TypeInv /\ [Next]_vars => TypeInv'
<1> SUFFICES ASSUME TypeInv, [Next]_vars PROVE TypeInv'
  OBVIOUS
<1>1. CASE UNCHANGED vars
  BY <1>1, FrameRows, FrameFiles, FramePlans, FrameCalls DEF vars, TypeInv
<1>2. ASSUME NEW c \in Callers, Request(c) PROVE TypeInv'
  BY <1>2, CommitDeployInv, CommitRemovalInv, ReconcileInv DEF Request
<1>3. ASSUME NEW c \in Callers, Step(c) PROVE TypeInv'
  BY <1>3, NextTargetInv, FindSourceInv, CreateSourceInv, FillSourceInv, StageInv, PublishInv,
     InsertRelationInv, DecideInv, VerifyInv, VerifyIdentityInv, UnlinkInv, MarkInv, DeleteInv,
     CaptureInv, KeepInv, InspectInv, UpdateFactsInv
  DEF Step
<1>4. QED
  BY <1>1, <1>2, <1>3, PrepareInv, WorldInv DEF Next

LEMMA InvAlways == Spec => []TypeInv
  BY InitInv, StepInv, PTL DEF Spec

-----------------------------------------------------------------------------
(* Theorems                                                                *)

\* Rows are complete and plans and calls have the shape the code gives them, with any
\* number of commands, failures, edits and crashes (DeploymentService, RemovalService,
\* ReconcileService).
THEOREM TypeCorrect == Spec => []TypeOK
  BY InvAlways, InvImpliesTypeOK, PTL

-----------------------------------------------------------------------------
(* Who changes the targets                                                 *)

LEMMA WhoChangesTheDisk ==
  ASSUME NEW c \in Callers, Step(c), disk' # disk
  PROVE  Publish(c) \/ Unlink(c)
  BY DEF Step, NextTarget, FindSource, CreateSource, FillSource, Stage, InsertRelation,
     Decide, Verify, VerifyIdentity, Mark, DeleteCheck, DeleteRows, DeleteStore, Capture,
     KeepIndependent, InspectAgain, UpdateFacts, files

\* With any number of commands, edits during them, failures and crashes, deploying writes
\* over no tree that is present (DeploymentFilesystem::apply): the only steps of a command
\* that touch a target are the publication, which needs the path free, and the removal,
\* which no deployment takes.
THEOREM DeployWritesOverNothing == Spec => DeployLeavesPresentTreesAlone
<1>1. ASSUME TypeInv, [Next]_vars
      PROVE  [\A c \in Callers, p \in Places :
                Step(c) /\ call[c].goal = "deploy" /\ Occupied(p) => disk'[p] = disk[p]]_vars
  <2>1. ASSUME Next, NEW c \in Callers, NEW p \in Places, Step(c), call[c].goal = "deploy",
               Occupied(p), disk' # disk
        PROVE  disk'[p] = disk[p]
    <3>1. CASE Unlink(c)
      BY <3>1, CallNow, UnlinkFacts, <1>1, <2>1 DEF Unlink, Removing
    <3>2. CASE Publish(c)
      BY <3>2, <1>1, <2>1 DEF Publish, TypeInv, FilesOK
    <3>3. QED
      BY <2>1, <3>1, <3>2, WhoChangesTheDisk
  <2>2. QED
    BY <1>1, <2>1
<1>2. QED
  BY <1>1, InvAlways, PTL DEF Spec, DeployLeavesPresentTreesAlone

-----------------------------------------------------------------------------
(* One command at a time                                                   *)

\* The steps before which something was looked at.
LEMMA WhoGoesThere ==
  ASSUME TypeInv, NEW c \in Callers, Request(c) \/ Step(c),
         call'[c].step \in {"unlink", "delete_rows"}
  PROVE  Verify(c) \/ VerifyIdentity(c) \/ DeleteCheck(c)
<1> USE DEF TypeInv, CallsOK
<1>1. ASSUME Request(c) PROVE FALSE
  <2>1. ASSUME NEW op \in Operations, CommitDeploy(c, op) PROVE FALSE
    BY <2>1, NothingInHand DEF CommitDeploy, Idle
  <2>2. ASSUME NEW op \in Operations, NEW d \in Deployments, NEW decision \in Decisions,
               CommitUndeploy(c, op, d, decision)
        PROVE  FALSE
    BY <2>2 DEF CommitUndeploy, Idle
  <2>3. ASSUME NEW op \in Operations, NEW chosen \in SUBSET Deployments,
               NEW decisions \in [chosen -> Decisions \ {"detach"}],
               CommitDelete(c, op, chosen, decisions)
        PROVE  FALSE
    BY <2>3 DEF CommitDelete, Idle
  <2>4. ASSUME NEW d \in Deployments, NEW goal \in DOMAIN FirstStep,
             Reconcile(c, d, goal) PROVE FALSE
    BY <2>4 DEF Reconcile, Idle, FirstStep
  <2>5. QED
    BY <1>1, <2>1, <2>2, <2>3, <2>4 DEF Request
<1>2. ASSUME Finish(c) PROVE FALSE
  BY <1>2, NothingInHand DEF Finish
<1>3. ASSUME Fail(c) PROVE FALSE
  BY <1>3, NothingInHand DEF Fail, CallShapes
<1>4. ASSUME NEW st, Goto(c, st) PROVE call'[c].step = st
  BY <1>4 DEF Goto, CallShapes
<1>5. ASSUME NextTarget(c) PROVE FALSE
  <2>1. PICK k \in CallShapes : k = call[c]
    BY CallNow
  <2>2. ASSUME NEW p,
               call' = [call EXCEPT ![c].step = "source", ![c].todo = @ \ {p},
                                    ![c].staged = None, ![c].record.place = p]
        PROVE  FALSE
    <3>1. PICK n : n = [k EXCEPT !.step = "source", !.todo = k.todo \ {p}, !.staged = None,
                                 !.record = [k.record EXCEPT !.place = p]]
      OBVIOUS
    <3>2. n.step = "source"
      BY <3>1 DEF CallShapes
    <3>3. call' = [call EXCEPT ![c] = n]
      BY <2>1, <2>2, <3>1
    <3>4. QED
      BY <3>2, <3>3
  <2>3. QED
    BY <1>2, <1>5, <2>2 DEF NextTarget, EndDeploy
<1>6. ASSUME FindSource(c) \/ CreateSource(c) \/ FillSource(c) \/ Publish(c) \/ InsertRelation(c)
      PROVE  FALSE
  BY <1>3, <1>4, <1>6 DEF FindSource, CreateSource, FillSource, Publish, InsertRelation
<1>7. ASSUME Stage(c) \/ Capture(c) \/ InspectAgain(c) PROVE FALSE
  BY <1>2, <1>3, <1>7 DEF Stage, Capture, InspectAgain, CallShapes
<1>8. ASSUME Decide(c) PROVE FALSE
  <2>1. PICK k \in CallShapes : k = call[c]
    BY CallNow
  <2>2. ASSUME NEW next \in k.todo,
             call' = [call EXCEPT ![c] =
               [@ EXCEPT !.todo = call[c].todo \ {next}, !.id = next.id, !.record = next.record,
                  !.decision = next.decision,
                  !.step = IF next.decision = "remove_owned" THEN "verify" ELSE "mark"]]
        PROVE  FALSE
    <3>1. PICK n : n = [k EXCEPT !.todo = k.todo \ {next}, !.id = next.id,
                          !.record = next.record, !.decision = next.decision,
                          !.step = IF next.decision = "remove_owned" THEN "verify" ELSE "mark"]
      OBVIOUS
    <3>2. n.step \in {"verify", "mark"}
      BY <3>1 DEF CallShapes
    <3>3. call'[c] = n
      BY <2>1, <2>2, <3>1
    <3>4. QED
      BY <3>2, <3>3
  <2>3. QED
    BY <1>2, <1>4, <1>8, <2>1, <2>2 DEF Decide
<1>9. ASSUME Unlink(c) \/ Mark(c) \/ DeleteRows(c) PROVE FALSE
  BY <1>2, <1>4, <1>9 DEF Unlink, Mark, DeleteRows
<1>10. ASSUME DeleteStore(c) \/ KeepIndependent(c) \/ UpdateFacts(c) PROVE FALSE
  BY <1>2, <1>10 DEF DeleteStore, KeepIndependent, UpdateFacts
<1>11. QED
  BY <1>1, <1>5, <1>6, <1>7, <1>8, <1>9, <1>10 DEF Step

\* The tree that is about to go is the one the record expects.
VerifiedInv ==
  \A c \in Callers : call[c].step = "unlink" /\ call[c].goal # "restore" =>
    TreeHash(ContentAt(call[c].record.place)) = call[c].record.expected

LEMMA VerifiedStep ==
  ASSUME OneCaller, EditsBetweenCommands
  PROVE  TypeInv /\ VerifiedInv /\ [Next]_vars => VerifiedInv'
<1> SUFFICES ASSUME TypeInv, VerifiedInv, [Next]_vars,
                    NEW c \in Callers, call'[c].step = "unlink", call'[c].goal # "restore"
             PROVE  TreeHash(ContentAt(call[c].record.place))' = call'[c].record.expected
  BY DEF VerifiedInv
<1>1. CASE UNCHANGED <<call, disk, sources>>
  BY <1>1 DEF VerifiedInv, ContentAt, TreeHash
<1>2. ASSUME NEW op \in Operations, Prepare(op) PROVE UNCHANGED <<call, disk, sources>>
  BY <1>2 DEF Prepare, PrepareDeploy, PrepareUndeploy, PrepareDelete, files
<1>3. ASSUME World PROVE FALSE
  <2>1. CASE Crash
    BY <2>1, NothingInHand DEF Crash
  <2>2. CASE ~Crash
    BY <1>3, <2>2 DEF World, Edit, RemoveByHand, MayEdit, EditsBetweenCommands
  <2>3. QED
    BY <2>1, <2>2
<1>4. ASSUME NEW e \in Callers, Request(e) \/ Step(e)
      PROVE  TreeHash(ContentAt(call[c].record.place))' = call'[c].record.expected
  <2>1. e = c
    BY DEF OneCaller
  <2>2. PICK k \in CallShapes : k = call[c] /\ CallOK(k, sources)
    BY CallNow
  <2>3. Verify(c) \/ VerifyIdentity(c) \/ DeleteCheck(c)
    BY <1>4, <2>1, WhoGoesThere
  <2>4. (call'[c].goal = k.goal /\ call'[c].record = k.record) \/ Finish(c)
    BY <2>2, <2>3 DEF Verify, VerifyIdentity, DeleteCheck, Goto, TypeInv, CallsOK, CallShapes
  <2>5. ~Finish(c)
    BY NothingInHand DEF Finish, TypeInv, CallsOK
  <2>6. CASE VerifyIdentity(c)
    BY <2>2, <2>4, <2>5, <2>6
    DEF VerifyIdentity, CallOK, Deploying, Removing, Reconciling, FileSteps, DeleteSteps
  <2>7. CASE DeleteCheck(c)
    BY <2>5, <2>7 DEF DeleteCheck, Goto, TypeInv, CallsOK, CallShapes
  <2>8. CASE Verify(c)
    <3>1. TreeHash(ContentAt(k.record.place)) = k.record.expected
      BY <2>2, <2>5, <2>8 DEF Verify, Owned
    <3>2. UNCHANGED <<disk, sources>>
      BY <2>8 DEF Verify, files
    <3>3. QED
      BY <2>4, <2>5, <3>1, <3>2 DEF ContentAt, TreeHash
  <2>9. QED
    BY <2>3, <2>6, <2>7, <2>8
<1>5. QED
  BY <1>1, <1>2, <1>3, <1>4 DEF Next, vars

\* While one command runs at a time and users edit between commands, whatever the age of
\* the plan, a removal takes the tree that its record expects (verify_owned and
\* remove_target of DeploymentFilesystem are two looks at one unchanged tree).
THEOREM RemovalsTakeWhatTheyExpect ==
  OneCaller /\ EditsBetweenCommands => (Spec => OnlyUnmodifiedTreesRemoved)
<1> SUFFICES ASSUME OneCaller, EditsBetweenCommands PROVE Spec => OnlyUnmodifiedTreesRemoved
  OBVIOUS
<1>1. Init => VerifiedInv
  BY NothingInHand DEF Init, VerifiedInv
<1>2. TypeInv /\ VerifiedInv /\ [Next]_vars => VerifiedInv'
  BY VerifiedStep
<1>3. VerifiedInv => [\A c \in Callers :
        /\ Step(c) /\ call[c].step = "unlink" /\ call[c].goal # "restore"
        /\ disk' # disk
        => TreeHash(ContentAt(Place(c))) = call[c].record.expected]_vars
  BY DEF VerifiedInv, Place
<1>4. QED
  BY <1>1, <1>2, <1>3, InvAlways, PTL DEF Spec, OnlyUnmodifiedTreesRemoved

\* Between the check of delete_skill and its removal no relation of the skill is active.
CheckedInv ==
  \A c \in Callers : call[c].step = "delete_rows" => SkillsRelations(call[c].skill) = {}

LEMMA CheckedStep ==
  ASSUME OneCaller
  PROVE  TypeInv /\ CheckedInv /\ [Next]_vars => CheckedInv'
<1> SUFFICES ASSUME TypeInv, CheckedInv, [Next]_vars,
                    NEW c \in Callers, call'[c].step = "delete_rows"
             PROVE  SkillsRelations(call[c].skill)' = {}
  BY DEF CheckedInv
<1>1. CASE UNCHANGED <<call, relations>>
  BY <1>1 DEF CheckedInv, SkillsRelations, Active
<1>2. ASSUME NEW op \in Operations, Prepare(op) PROVE UNCHANGED <<call, relations>>
  BY <1>2 DEF Prepare, PrepareDeploy, PrepareUndeploy, PrepareDelete, database
<1>3. ASSUME World PROVE UNCHANGED <<call, relations>>
  <2>1. CASE Crash
    BY <2>1, NothingInHand DEF Crash
  <2>2. CASE ~Crash
    BY <1>3, <2>2 DEF World, Edit, RemoveByHand, database
  <2>3. QED
    BY <2>1, <2>2
<1>4. ASSUME NEW e \in Callers, Request(e) \/ Step(e)
      PROVE  SkillsRelations(call[c].skill)' = {}
  <2>1. e = c
    BY DEF OneCaller
  <2>2. PICK k \in CallShapes : k = call[c]
    BY CallNow
  <2>3. Verify(c) \/ VerifyIdentity(c) \/ DeleteCheck(c)
    BY <1>4, <2>1, WhoGoesThere
  <2>4. ~Finish(c)
    BY NothingInHand DEF Finish, TypeInv, CallsOK
  <2>5. CASE Verify(c) \/ VerifyIdentity(c)
    BY <2>4, <2>5 DEF Verify, VerifyIdentity, Goto, TypeInv, CallsOK, CallShapes
  <2>6. CASE DeleteCheck(c)
    <3>1. SkillsRelations(k.skill) = {} /\ UNCHANGED relations
      BY <2>2, <2>4, <2>6 DEF DeleteCheck, MayDelete, database
    <3>2. call'[c].skill = k.skill
      BY <2>2, <2>4, <2>6 DEF DeleteCheck, Goto, TypeInv, CallsOK, CallShapes
    <3>3. QED
      BY <3>1, <3>2 DEF SkillsRelations, Active
  <2>7. QED
    BY <2>3, <2>5, <2>6
<1>5. QED
  BY <1>1, <1>2, <1>3, <1>4 DEF Next, vars

\* While one command runs at a time, whatever fails, is edited or crashes, no row of an
\* active relation disappears (delete_skill and the ON DELETE CASCADE of `deployments`).
\* Finding 3 is the same statement about two commands.
THEOREM ActiveRelationsStay == OneCaller => (Spec => ActiveRelationsNeverVanish)
<1> SUFFICES ASSUME OneCaller PROVE Spec => ActiveRelationsNeverVanish
  OBVIOUS
<1>1. Init => CheckedInv
  BY NothingInHand DEF Init, CheckedInv
<1>2. TypeInv /\ CheckedInv /\ [Next]_vars => CheckedInv'
  BY CheckedStep
<1>3. ASSUME TypeInv, CheckedInv, [Next]_vars
      PROVE  [\A d \in Deployments : Active(d) => relations'[d].state # "absent"]_vars
  <2> SUFFICES ASSUME Next, NEW d \in Deployments, Active(d), relations' # relations
               PROVE  relations'[d].state # "absent"
    BY <1>3 DEF Active
  <2>1. PICK old \in Relation : old = relations[d] /\ old.state = "deployed"
    BY <1>3 DEF TypeInv, RowsOK, Active
  <2>2. PICK c \in Callers : \/ InsertRelation(c) \/ Mark(c) \/ DeleteRows(c)
                             \/ KeepIndependent(c) \/ UpdateFacts(c)
    <3>1. ASSUME NEW op \in Operations, Prepare(op) PROVE FALSE
      BY <3>1 DEF Prepare, PrepareDeploy, PrepareUndeploy, PrepareDelete, database
    <3>2. ASSUME NEW e \in Callers, Request(e) PROVE FALSE
      BY <3>2 DEF Request, CommitDeploy, CommitUndeploy, CommitDelete, Reconcile, database
    <3>3. ASSUME World PROVE FALSE
      BY <3>3 DEF World, Edit, RemoveByHand, Crash, database
    <3>4. ASSUME NEW e \in Callers, Step(e)
          PROVE  \/ InsertRelation(e) \/ Mark(e) \/ DeleteRows(e)
                 \/ KeepIndependent(e) \/ UpdateFacts(e)
      BY <3>4 DEF Step, NextTarget, FindSource, CreateSource, FillSource, Stage, Publish,
         Decide, Verify, VerifyIdentity, Unlink, DeleteCheck, DeleteStore, Capture,
         InspectAgain, database
    <3>5. QED
      BY <3>1, <3>2, <3>3, <3>4 DEF Next
  <2>3. CASE InsertRelation(c)
    <3>1. PICK e \in Deployments :
            relations[e] = NoRelation /\ \E r : relations' = [relations EXCEPT ![e] = r]
      BY <2>3 DEF InsertRelation
    <3>2. e # d
      BY <2>1, <3>1 DEF NoRelation
    <3>3. QED
      BY <2>1, <3>1, <3>2 DEF TypeInv, RowsOK
  <2>4. CASE DeleteRows(c)
    <3>1. SkillOf(relations[d].version) # call[c].skill
      BY <1>3, <2>4 DEF CheckedInv, DeleteRows, SkillsRelations
    <3>2. QED
      BY <2>1, <2>4, <3>1 DEF DeleteRows
  <2>5. CASE Mark(c) \/ KeepIndependent(c) \/ UpdateFacts(c)
    <3>1. call[c].id \in Deployments
      BY <1>3, <2>5, CallNow, RemovalStepFacts, ReconcileStepFacts
      DEF Mark, KeepIndependent, UpdateFacts, Removing
    <3>2. PICK r : relations' = [relations EXCEPT ![call[c].id] = r] /\ r.state # "absent"
      <4>1. PICK row \in Relation : row = relations[call[c].id]
        BY <1>3, <3>1 DEF TypeInv, RowsOK
      <4>2. CASE Mark(c)
        BY <2>1, <4>1, <4>2 DEF Mark, Active, Relation
      <4>3. CASE KeepIndependent(c)
        <5>1. PICK r : r = [row EXCEPT !.managed = FALSE]
          OBVIOUS
        <5>2. relations' = [relations EXCEPT ![call[c].id] = r] /\ row.state = "deployed"
          BY <4>1, <4>3, <5>1 DEF KeepIndependent, Active
        <5>3. r.state = row.state
          BY <5>1 DEF Relation
        <5>4. QED
          BY <5>2, <5>3
      <4>4. CASE UpdateFacts(c)
        <5>1. PICK version, expected, observed :
                /\ row.state = "deployed"
                /\ relations' = [relations EXCEPT ![call[c].id] =
                                  [@ EXCEPT !.version = version, !.expected = expected,
                                            !.observed = observed]]
          BY <4>1, <4>4 DEF UpdateFacts, Active
        <5>2. PICK r : r = [row EXCEPT !.version = version, !.expected = expected,
                                       !.observed = observed]
          OBVIOUS
        <5>3. relations' = [relations EXCEPT ![call[c].id] = r] /\ r.state = row.state
          BY <4>1, <5>1, <5>2 DEF Relation
        <5>4. QED
          BY <5>1, <5>3
      <4>5. QED
        BY <2>5, <4>2, <4>3, <4>4
    <3>3. QED
      BY <1>3, <2>1, <3>2 DEF TypeInv, RowsOK
  <2>6. QED
    BY <2>2, <2>3, <2>4, <2>5
<1>4. QED
  BY <1>1, <1>2, <1>3, InvAlways, PTL DEF Spec, ActiveRelationsNeverVanish

-----------------------------------------------------------------------------
(* How a call goes on, and what it leaves alone                            *)

LEMMA NextSplits ==
  ASSUME Next
  PROVE  \/ \E op \in Operations : Prepare(op)
         \/ \E c \in Callers : Request(c) \/ Step(c)
         \/ World
  BY DEF Next

\* A call is touched by its own command and by a crash.
LEMMA OthersWait ==
  ASSUME TypeInv, NEW c \in Callers, Request(c) \/ Step(c), NEW e \in Callers, e # c
  PROVE  call'[e] = call[e]
<1> USE DEF TypeInv, CallsOK
<1>1. CASE Request(c)
  BY <1>1 DEF Request, CommitDeploy, CommitUndeploy, CommitDelete, Reconcile
<1>2. ASSUME Finish(c) \/ Fail(c) \/ \E st : Goto(c, st) PROVE call'[e] = call[e]
  BY <1>2 DEF Finish, Fail, Goto
<1>3. CASE NextTarget(c) \/ Stage(c) \/ Decide(c) \/ Capture(c) \/ InspectAgain(c)
  BY <1>2, <1>3 DEF NextTarget, EndDeploy, Stage, Decide, Capture, InspectAgain
<1>4. CASE \/ FindSource(c) \/ CreateSource(c) \/ FillSource(c) \/ Publish(c)
           \/ InsertRelation(c) \/ Verify(c) \/ VerifyIdentity(c) \/ Unlink(c) \/ Mark(c)
           \/ DeleteCheck(c) \/ DeleteRows(c) \/ DeleteStore(c) \/ KeepIndependent(c)
           \/ UpdateFacts(c)
  <2>1. Finish(c) \/ Fail(c) \/ \E st : Goto(c, st)
    BY <1>4 DEF FindSource, CreateSource, FillSource, Publish, InsertRelation, Verify,
       VerifyIdentity, Unlink, Mark, DeleteCheck, DeleteRows, DeleteStore, KeepIndependent,
       UpdateFacts
  <2>2. QED
    BY <1>2, <2>1
<1>5. QED
  BY <1>1, <1>3, <1>4 DEF Step

\* What a call keeps until it ends.
Keeps(k, n) ==
  /\ n.goal = k.goal /\ n.op = k.op /\ n.skill = k.skill
  /\ k.goal = "deploy" => /\ n.record.version = k.record.version
                          /\ n.record.state = k.record.state
  /\ k.failed => n.failed

LEMMA CallsGoOn ==
  ASSUME TypeInv, NEW c \in Callers, Step(c)
  PROVE  /\ call[c].step # "idle"
         /\ Finish(c) \/ (UNCHANGED prepared /\ Keeps(call[c], call'[c]))
<1>k. PICK k \in CallShapes : k = call[c] /\ CallOK(k, sources)
  BY CallNow
<1> USE DEF TypeInv, CallsOK
<1>1. ASSUME NEW st, Goto(c, st) PROVE Keeps(k, call'[c])
  BY <1>1, <1>k DEF Goto, CallShapes, Keeps
<1>2. ASSUME Fail(c) PROVE Finish(c) \/ Keeps(k, call'[c])
  BY <1>2, <1>k DEF Fail, Finish, CallShapes, Keeps
<1>3. ASSUME NextTarget(c)
      PROVE  Finish(c) \/ (UNCHANGED prepared /\ Keeps(k, call'[c]))
  <2>1. ASSUME NEW p, UNCHANGED prepared,
               call' = [call EXCEPT ![c].step = "source", ![c].todo = @ \ {p},
                                    ![c].staged = None, ![c].record.place = p]
        PROVE  Keeps(k, call'[c])
    <3>1. PICK r : r = [k.record EXCEPT !.place = p]
      OBVIOUS
    <3>2. r.version = k.record.version /\ r.state = k.record.state
      BY <3>1 DEF CallShapes, Relation
    <3>3. PICK n : n = [k EXCEPT !.step = "source", !.todo = k.todo \ {p}, !.staged = None,
                                 !.record = r]
      OBVIOUS
    <3>4. Keeps(k, n)
      BY <3>2, <3>3 DEF CallShapes, Keeps
    <3>5. call' = [call EXCEPT ![c] = n]
      BY <1>k, <2>1, <3>1, <3>3
    <3>6. QED
      BY <3>4, <3>5
  <2>2. QED
    BY <1>3, <2>1 DEF NextTarget, EndDeploy
<1>4. ASSUME Stage(c) \/ Capture(c) \/ InspectAgain(c)
      PROVE  Finish(c) \/ Keeps(k, call'[c])
  BY <1>2, <1>4, <1>k DEF Stage, Capture, InspectAgain, CallShapes, Keeps
<1>5. ASSUME Decide(c)
      PROVE  Finish(c) \/ (UNCHANGED prepared /\ Keeps(k, call'[c]))
  <2>1. ASSUME NEW next \in k.todo, UNCHANGED prepared,
             call' = [call EXCEPT ![c] =
               [@ EXCEPT !.todo = call[c].todo \ {next}, !.id = next.id, !.record = next.record,
                  !.decision = next.decision,
                  !.step = IF next.decision = "remove_owned" THEN "verify" ELSE "mark"]]
        PROVE  Keeps(k, call'[c])
    <3>1. k.step = "decide" /\ Removing(k)
      BY <1>k, <1>5, RemovalStepFacts DEF Decide
    <3>2. QED
      BY <1>k, <2>1, <3>1 DEF CallShapes, Keeps, Removing
  <2>2. QED
    BY <1>1, <1>5, <1>k, <2>1 DEF Decide
<1>6. ASSUME \/ FindSource(c) \/ CreateSource(c) \/ FillSource(c) \/ Publish(c)
             \/ InsertRelation(c) \/ Verify(c) \/ VerifyIdentity(c) \/ Unlink(c) \/ Mark(c)
             \/ DeleteCheck(c) \/ DeleteRows(c) \/ DeleteStore(c) \/ KeepIndependent(c)
             \/ UpdateFacts(c)
      PROVE  /\ Finish(c) \/ Fail(c) \/ \E st : Goto(c, st)
             /\ Finish(c) \/ UNCHANGED prepared
  BY <1>6 DEF FindSource, CreateSource, FillSource, Publish, InsertRelation, Verify,
     VerifyIdentity, Unlink, Mark, DeleteCheck, DeleteRows, DeleteStore, KeepIndependent,
     UpdateFacts
<1>7. Stage(c) \/ Capture(c) \/ InspectAgain(c) => UNCHANGED prepared
  BY DEF Stage, Capture, InspectAgain
<1>8. k.step # "idle"
  BY <1>k DEF Step, NextTarget, Stage, Decide, Capture, InspectAgain,
     FindSource, CreateSource, FillSource, Publish, InsertRelation, Verify,
     VerifyIdentity, Unlink, Mark, DeleteCheck, DeleteRows, DeleteStore, KeepIndependent,
     UpdateFacts
<1>9. QED
  BY <1>k, <1>1, <1>2, <1>3, <1>4, <1>5, <1>6, <1>7, <1>8 DEF Step

\* The plan of a removal in progress is a removal; that of a deployment is the deployment
\* of the version in hand.
OpenPlansInv ==
  \A c \in Callers : call[c].step # "idle" =>
    /\ call[c].goal \in {"undeploy", "delete"} =>
         call[c].op \in Operations /\ IsRemoval(call[c].op)
    /\ call[c].goal = "deploy" =>
         /\ call[c].op \in Operations /\ prepared[call[c].op].kind = "deploy"
         /\ call[c].record.version = prepared[call[c].op].version
         /\ call[c].record.state = "deployed"

\* A plan that is there is not prepared again.
LEMMA PreparedOnce ==
  ASSUME TypeInv, NEW op \in Operations, Prepare(op)
  PROVE  /\ UNCHANGED <<database, files, store, call>> /\ prepared[op] = NoPlan
         /\ \A o \in Operations : prepared[o].kind # "none" => prepared'[o] = prepared[o]
<1>1. /\ UNCHANGED <<database, files, store, call>> /\ prepared[op] = NoPlan
      /\ \E plan : prepared' = [prepared EXCEPT ![op] = plan]
  BY DEF Prepare, PrepareDeploy, PrepareUndeploy, PrepareDelete
<1>2. NoPlan.kind = "none"
  BY DEF NoPlan, Plan
<1>3. QED
  BY <1>1, <1>2 DEF TypeInv, PlansOK

LEMMA WorldLeavesTheCatalog ==
  ASSUME World
  PROVE  /\ UNCHANGED <<database, store>>
         /\ Crash \/ UNCHANGED <<prepared, call>>
         /\ Crash => \A c \in Callers : call'[c] = Idle
  BY DEF World, Edit, RemoveByHand, Crash

LEMMA RequestOpens ==
  ASSUME TypeInv, NEW c \in Callers, Request(c)
  PROVE  /\ UNCHANGED <<database, files, store, prepared>> /\ call[c].step = "idle"
         /\ call'[c].goal \in {"undeploy", "delete"} =>
              /\ call'[c].op \in Operations /\ IsRemoval(call'[c].op)
              /\ call'[c].step = "decide"
         /\ call'[c].goal = "deploy" =>
              /\ call'[c].op \in Operations /\ prepared[call'[c].op].kind = "deploy"
              /\ call'[c].record.version = prepared[call'[c].op].version
              /\ call'[c].record.state = "deployed"
              /\ call'[c].todo = prepared[call'[c].op].targets /\ call'[c].step = "next"
         /\ call'[c].step # "delete_store"
<1> USE DEF TypeInv, CallsOK
<1>i. PICK i \in CallShapes : i = Idle
  BY NothingInHand
<1>1. ASSUME NEW op \in Operations, CommitDeploy(c, op)
      PROVE  /\ call'[c].goal = "deploy" /\ call'[c].op = op /\ prepared[op].kind = "deploy"
             /\ call'[c].record.version = prepared[op].version
             /\ call'[c].record.state = "deployed"
             /\ call'[c].todo = prepared[op].targets /\ call'[c].step = "next"
  BY <1>1, <1>i DEF CommitDeploy, CallShapes, NoRelation
<1>2. ASSUME NEW op \in Operations, NEW d \in Deployments, NEW decision \in Decisions,
             CommitUndeploy(c, op, d, decision)
      PROVE  /\ call'[c].goal = "undeploy" /\ call'[c].op = op /\ IsRemoval(op)
             /\ call'[c].step = "decide"
  BY <1>2, <1>i DEF CommitUndeploy, CallShapes
<1>3. ASSUME NEW op \in Operations, NEW chosen \in SUBSET Deployments,
             NEW decisions \in [chosen -> Decisions \ {"detach"}],
             CommitDelete(c, op, chosen, decisions)
      PROVE  /\ call'[c].goal = "delete" /\ call'[c].op = op /\ IsRemoval(op)
             /\ call'[c].step = "decide"
  BY <1>3, <1>i DEF CommitDelete, CallShapes
<1>4. ASSUME NEW d \in Deployments, NEW goal \in DOMAIN FirstStep, Reconcile(c, d, goal)
      PROVE  call'[c].goal \notin {"deploy", "undeploy", "delete"} /\ call'[c].step # "delete_store"
  BY <1>4, <1>i DEF Reconcile, CallShapes, FirstStep
<1>5. UNCHANGED <<database, files, store, prepared>> /\ call[c].step = "idle"
  BY DEF Request, CommitDeploy, CommitUndeploy, CommitDelete, Reconcile
<1>6. QED
  BY <1>1, <1>2, <1>3, <1>4, <1>5 DEF Request

LEMMA OpenPlansStep ==
  ASSUME OneCaller
  PROVE  TypeInv /\ OpenPlansInv /\ [Next]_vars => OpenPlansInv'
<1> SUFFICES ASSUME TypeInv, OpenPlansInv, [Next]_vars, NEW c \in Callers,
                    call'[c].step # "idle"
             PROVE  /\ call'[c].goal \in {"undeploy", "delete"} =>
                         call'[c].op \in Operations /\ IsRemoval(call[c].op)'
                    /\ call'[c].goal = "deploy" =>
                         /\ call'[c].op \in Operations /\ prepared'[call'[c].op].kind = "deploy"
                         /\ call'[c].record.version = prepared'[call'[c].op].version
                         /\ call'[c].record.state = "deployed"
  BY DEF OpenPlansInv
<1>1. CASE UNCHANGED <<call, prepared>>
  BY <1>1 DEF OpenPlansInv, IsRemoval
<1>2. ASSUME NEW op \in Operations, Prepare(op)
      PROVE  /\ call'[c].goal \in {"undeploy", "delete"} =>
                  call'[c].op \in Operations /\ IsRemoval(call[c].op)'
             /\ call'[c].goal = "deploy" =>
                  /\ call'[c].op \in Operations /\ prepared'[call'[c].op].kind = "deploy"
                  /\ call'[c].record.version = prepared'[call'[c].op].version
                  /\ call'[c].record.state = "deployed"
  BY <1>2, PreparedOnce DEF OpenPlansInv, IsRemoval
<1>3. CASE World
  BY <1>1, <1>3, WorldLeavesTheCatalog, NothingInHand
<1>4. ASSUME Request(c)
      PROVE  /\ call'[c].goal \in {"undeploy", "delete"} =>
                  call'[c].op \in Operations /\ IsRemoval(call[c].op)'
             /\ call'[c].goal = "deploy" =>
                  /\ call'[c].op \in Operations /\ prepared'[call'[c].op].kind = "deploy"
                  /\ call'[c].record.version = prepared'[call'[c].op].version
                  /\ call'[c].record.state = "deployed"
  BY <1>4, RequestOpens DEF IsRemoval
<1>5. CASE Step(c)
  <2>1. ~Finish(c)
    BY NothingInHand DEF Finish, TypeInv, CallsOK
  <2>2. UNCHANGED prepared /\ Keeps(call[c], call'[c]) /\ call[c].step # "idle"
    BY <1>5, <2>1, CallsGoOn
  <2>3. QED
    BY <2>2 DEF OpenPlansInv, Keeps, IsRemoval
<1>6. QED
  BY <1>1, <1>2, <1>3, <1>4, <1>5 DEF Next, vars, OneCaller

-----------------------------------------------------------------------------
(* Deleting a skill                                                        *)

\* The catalog holds nothing of the skill.
Gone(s) ==
  /\ s \notin catalog
  /\ \A v \in recorded : SkillOf(v) # s
  /\ \A d \in Deployments : relations[d].state # "absent" => SkillOf(relations[d].version) # s

\* A row keeps its version or takes a recorded one.
LEMMA RowsKeepTheirVersion ==
  ASSUME TypeInv, Next, NEW d \in Deployments, relations'[d].state # "absent"
  PROVE  \/ relations[d].state # "absent" /\ relations'[d].version = relations[d].version
         \/ relations'[d].version \in recorded
<1>1. PICK row \in Relation : row = relations[d]
  BY DEF TypeInv, RowsOK
<1>2. CASE UNCHANGED relations
  BY <1>2
<1>3. ASSUME NEW c \in Callers, Step(c), ~UNCHANGED relations
      PROVE  \/ InsertRelation(c) \/ Mark(c) \/ DeleteRows(c) \/ KeepIndependent(c)
             \/ UpdateFacts(c)
  BY <1>3 DEF Step, NextTarget, FindSource, CreateSource, FillSource, Stage, Publish,
     Decide, Verify, VerifyIdentity, Unlink, DeleteCheck, DeleteStore, Capture,
     InspectAgain, database
<1>4. ASSUME NEW c \in Callers, InsertRelation(c)
      PROVE  \/ relations[d].state # "absent" /\ relations'[d].version = relations[d].version
             \/ relations'[d].version \in recorded
  <2>1. PICK r : /\ r = [call[c].record EXCEPT !.expected = TreeHash(call[c].staged),
                                               !.observed = TreeHash(call[c].staged)]
                 /\ \/ /\ MayInsert(r)
                       /\ \E e \in Deployments : relations' = [relations EXCEPT ![e] = r]
                    \/ UNCHANGED relations
    BY <1>4 DEF InsertRelation
  <2>2. QED
    BY <1>2, <2>1 DEF MayInsert, TypeInv, RowsOK
<1>5. ASSUME NEW c \in Callers, DeleteRows(c)
      PROVE  relations[d].state # "absent" /\ relations'[d].version = relations[d].version
  <2>1. relations'[d] = relations[d] \/ relations'[d] = NoRelation
    BY <1>5 DEF DeleteRows
  <2>2. QED
    BY <2>1 DEF NoRelation
<1>6. ASSUME NEW c \in Callers, Mark(c) \/ KeepIndependent(c) \/ UpdateFacts(c), call[c].id = d,
             ~UNCHANGED relations
      PROVE  \/ relations[d].state # "absent" /\ relations'[d].version = relations[d].version
             \/ relations'[d].version \in recorded
  <2>1. row.state = "deployed"
    BY <1>1, <1>6 DEF Mark, KeepIndependent, UpdateFacts, Active
  <2>2. ASSUME NEW r, relations' = [relations EXCEPT ![d] = r] PROVE relations'[d] = r
    BY <2>2 DEF TypeInv, RowsOK
  <2>3. CASE Mark(c)
    <3>1. PICK r : /\ relations' = [relations EXCEPT ![d] = r]
                   /\ r = [row EXCEPT !.managed = FALSE] \/ r = [row EXCEPT !.state = "removed"]
      BY <1>1, <1>6, <2>3 DEF Mark
    <3>2. r.version = row.version
      BY <3>1 DEF Relation
    <3>3. QED
      BY <1>1, <2>1, <2>2, <3>1, <3>2
  <2>4. CASE KeepIndependent(c)
    <3>1. PICK r : r = [row EXCEPT !.managed = FALSE]
      OBVIOUS
    <3>2. relations' = [relations EXCEPT ![d] = r]
      BY <1>1, <1>6, <2>1, <2>4, <3>1 DEF KeepIndependent, Active, TypeInv, RowsOK
    <3>3. r.version = row.version
      BY <3>1 DEF Relation
    <3>4. QED
      BY <1>1, <2>1, <2>2, <3>2, <3>3
  <2>5. CASE UpdateFacts(c)
    <3>1. PICK version, expected, observed :
            /\ version \in recorded
            /\ relations' = [relations EXCEPT ![d] =
                 [@ EXCEPT !.version = version, !.expected = expected, !.observed = observed]]
      BY <1>6, <2>5 DEF UpdateFacts
    <3>2. PICK r : r = [row EXCEPT !.version = version, !.expected = expected,
                                   !.observed = observed]
      OBVIOUS
    <3>3. relations' = [relations EXCEPT ![d] = r] /\ r.version = version
      BY <1>1, <3>1, <3>2 DEF Relation
    <3>4. QED
      BY <2>2, <3>1, <3>3
  <2>6. QED
    BY <1>6, <2>3, <2>4, <2>5
<1>7. ASSUME NEW c \in Callers, Mark(c) \/ KeepIndependent(c) \/ UpdateFacts(c), call[c].id # d
      PROVE  relations'[d] = relations[d]
  BY <1>7 DEF Mark, KeepIndependent, UpdateFacts, TypeInv, RowsOK
<1>8. ASSUME NEW c \in Callers, Request(c) PROVE UNCHANGED relations
  BY <1>8, RequestOpens DEF database
<1>9. ASSUME NEW op \in Operations, Prepare(op) PROVE UNCHANGED relations
  BY <1>9, PreparedOnce DEF database
<1>10. World => UNCHANGED relations
  BY WorldLeavesTheCatalog DEF database
<1>11. QED
  BY <1>2, <1>3, <1>4, <1>5, <1>6, <1>7, <1>8, <1>9, <1>10 DEF Next

\* The catalog only shrinks, but for the failure of a delete.
LEMMA CatalogShrinks ==
  ASSUME Next
  PROVE  /\ recorded' \subseteq recorded
         /\ \/ catalog' \subseteq catalog
            \/ "io" \in Disturbances /\ \E c \in Callers : DeleteStore(c)
<1>1. ASSUME NEW c \in Callers, Step(c)
      PROVE  /\ recorded' \subseteq recorded
             /\ catalog' \subseteq catalog \/ ("io" \in Disturbances /\ DeleteStore(c))
  <2>1. CASE DeleteRows(c) \/ DeleteStore(c)
    BY <2>1 DEF DeleteRows, DeleteStore
  <2>2. CASE ~(DeleteRows(c) \/ DeleteStore(c))
    BY <1>1, <2>2 DEF Step, NextTarget, FindSource, CreateSource, FillSource, Stage, Publish,
       InsertRelation, Decide, Verify, VerifyIdentity, Unlink, Mark, DeleteCheck, Capture,
       KeepIndependent, InspectAgain, UpdateFacts, database
  <2>3. QED
    BY <2>1, <2>2
<1>2. ASSUME NEW c \in Callers, Request(c) PROVE UNCHANGED <<recorded, catalog>>
  BY <1>2 DEF Request, CommitDeploy, CommitUndeploy, CommitDelete, Reconcile, database
<1>3. ASSUME NEW op \in Operations, Prepare(op) PROVE UNCHANGED <<recorded, catalog>>
  BY <1>3 DEF Prepare, PrepareDeploy, PrepareUndeploy, PrepareDelete, database
<1>4. World => UNCHANGED <<recorded, catalog>>
  BY WorldLeavesTheCatalog DEF database
<1>5. QED
  BY <1>1, <1>2, <1>3, <1>4 DEF Next

LEMMA GoneStays ==
  ASSUME TypeInv, Next, NEW s, Gone(s), catalog' \subseteq catalog
  PROVE  Gone(s)'
<1>1. recorded' \subseteq recorded
  BY CatalogShrinks
<1>2. ASSUME NEW d \in Deployments, relations'[d].state # "absent"
      PROVE  SkillOf(relations'[d].version) # s
  BY <1>2, RowsKeepTheirVersion DEF Gone
<1>3. QED
  BY <1>1, <1>2 DEF Gone

GoneInv == \A c \in Callers : call[c].step = "delete_store" => Gone(call[c].skill)

LEMMA WhoReachesTheStore ==
  ASSUME TypeInv, NEW c \in Callers, Request(c) \/ Step(c), call'[c].step = "delete_store"
  PROVE  DeleteRows(c)
<1> USE DEF TypeInv, CallsOK
<1>1. ~Request(c)
  BY RequestOpens
<1>2. ~Finish(c)
  BY NothingInHand DEF Finish
<1>3. ~Fail(c)
  BY NothingInHand DEF Fail, CallShapes
<1>4. ASSUME NEW st, Goto(c, st) PROVE st = "delete_store"
  BY <1>4 DEF Goto, CallShapes
<1>5. ~NextTarget(c)
  <2>1. PICK k \in CallShapes : k = call[c]
    BY CallNow
  <2>2. ASSUME NEW p,
               call' = [call EXCEPT ![c].step = "source", ![c].todo = @ \ {p},
                                    ![c].staged = None, ![c].record.place = p]
        PROVE  FALSE
    <3>1. PICK n : n = [k EXCEPT !.step = "source", !.todo = k.todo \ {p}, !.staged = None,
                                 !.record = [k.record EXCEPT !.place = p]]
      OBVIOUS
    <3>2. n.step = "source"
      BY <3>1 DEF CallShapes
    <3>3. call' = [call EXCEPT ![c] = n]
      BY <2>1, <2>2, <3>1
    <3>4. QED
      BY <3>2, <3>3
  <2>3. QED
    BY <1>2, <2>2 DEF NextTarget, EndDeploy
<1>6. ~(FindSource(c) \/ CreateSource(c) \/ FillSource(c) \/ Publish(c) \/ InsertRelation(c))
  BY <1>3, <1>4 DEF FindSource, CreateSource, FillSource, Publish, InsertRelation
<1>7. ~(Stage(c) \/ Capture(c) \/ InspectAgain(c))
  BY <1>2, <1>3 DEF Stage, Capture, InspectAgain, CallShapes
<1>8. ~Decide(c)
  <2>1. PICK k \in CallShapes : k = call[c]
    BY CallNow
  <2>2. ASSUME NEW next \in k.todo,
             call' = [call EXCEPT ![c] =
               [@ EXCEPT !.todo = call[c].todo \ {next}, !.id = next.id, !.record = next.record,
                  !.decision = next.decision,
                  !.step = IF next.decision = "remove_owned" THEN "verify" ELSE "mark"]]
        PROVE  FALSE
    <3>1. PICK n : n = [k EXCEPT !.todo = k.todo \ {next}, !.id = next.id,
                          !.record = next.record, !.decision = next.decision,
                          !.step = IF next.decision = "remove_owned" THEN "verify" ELSE "mark"]
      OBVIOUS
    <3>2. n.step \in {"verify", "mark"}
      BY <3>1 DEF CallShapes
    <3>3. call'[c] = n
      BY <2>1, <2>2, <3>1
    <3>4. QED
      BY <3>2, <3>3
  <2>3. QED
    BY <1>2, <1>4, <2>1, <2>2 DEF Decide
<1>9. ~(Unlink(c) \/ Mark(c) \/ Verify(c) \/ VerifyIdentity(c) \/ DeleteCheck(c))
  BY <1>2, <1>4 DEF Unlink, Mark, Verify, VerifyIdentity, DeleteCheck
<1>10. ~(DeleteStore(c) \/ KeepIndependent(c) \/ UpdateFacts(c))
  BY <1>2 DEF DeleteStore, KeepIndependent, UpdateFacts
<1>11. QED
  BY <1>1, <1>5, <1>6, <1>7, <1>8, <1>9, <1>10 DEF Step

LEMMA GoneStep ==
  ASSUME OneCaller \/ "io" \notin Disturbances
  PROVE  TypeInv /\ GoneInv /\ [Next]_vars => GoneInv'
<1> SUFFICES ASSUME TypeInv, GoneInv, [Next]_vars, NEW c \in Callers,
                    call'[c].step = "delete_store"
             PROVE  Gone(call[c].skill)'
  BY DEF GoneInv
<1>k. PICK k \in CallShapes : k = call[c]
  BY CallNow
<1>1. CASE UNCHANGED vars
  BY <1>1 DEF vars, GoneInv, Gone
<1>2. ASSUME Next, call'[c] = call[c], catalog' \subseteq catalog PROVE Gone(call[c].skill)'
  <2>1. Gone(k.skill)
    BY <1>k, <1>2 DEF GoneInv
  <2>2. Gone(k.skill)'
    BY <1>2, <2>1, GoneStays
  <2>3. QED
    BY <1>k, <1>2, <2>2 DEF Gone
<1>3. CASE World
  BY <1>2, <1>3, WorldLeavesTheCatalog, NothingInHand DEF Next, database
<1>4. ASSUME NEW op \in Operations, Prepare(op) PROVE Gone(call[c].skill)'
  BY <1>2, <1>4, PreparedOnce DEF Next, database
<1>5. ASSUME Request(c) \/ Step(c) PROVE Gone(call[c].skill)'
  <2>1. DeleteRows(c)
    BY <1>5, WhoReachesTheStore
  <2>2. call'[c].skill = k.skill
    BY <1>k, <2>1 DEF DeleteRows, Goto, TypeInv, CallsOK, CallShapes
  <2>3. ASSUME NEW d \in Deployments, relations'[d].state # "absent"
        PROVE  SkillOf(relations'[d].version) # k.skill
    BY <1>k, <2>1, <2>3 DEF DeleteRows, NoRelation
  <2>4. k.skill \notin catalog' /\ \A v \in recorded' : SkillOf(v) # k.skill
    BY <1>k, <2>1 DEF DeleteRows
  <2>5. QED
    BY <2>2, <2>3, <2>4 DEF Gone
<1>6. ASSUME NEW e \in Callers, e # c, Request(e) \/ Step(e) PROVE Gone(call[c].skill)'
  <2>1. "io" \notin Disturbances
    BY <1>6 DEF OneCaller
  <2>2. Next /\ catalog' \subseteq catalog
    BY <1>6, <2>1, CatalogShrinks DEF Next
  <2>3. QED
    BY <1>2, <1>6, <2>2, OthersWait
<1>7. QED
  BY <1>1, <1>3, <1>4, <1>5, <1>6 DEF Next

\* While one command runs at a time, or while no file operation fails, a delete that is
\* answered with success (RemovalService::commit_delete) leaves nothing of the skill: no row
\* of the catalog, no version, no relation.  (With two commands, one of which fails,
\* the failed one puts back the row that the other has just deleted.)
THEOREM DeletesAreComplete ==
  OneCaller \/ "io" \notin Disturbances => (Spec => DeleteIsComplete)
<1> SUFFICES ASSUME OneCaller \/ "io" \notin Disturbances PROVE Spec => DeleteIsComplete
  OBVIOUS
<1>1. Init => GoneInv
  BY NothingInHand DEF Init, GoneInv
<1>2. TypeInv /\ GoneInv /\ [Next]_vars => GoneInv'
  BY GoneStep
<1>3. Init => OpenPlansInv
  BY NothingInHand DEF Init, OpenPlansInv
<1>4. OneCaller /\ TypeInv /\ OpenPlansInv /\ [Next]_vars => OpenPlansInv'
  BY OpenPlansStep
<1>5. ASSUME TypeInv, GoneInv, OneCaller => OpenPlansInv, [Next]_vars
      PROVE  [\A c \in Callers :
                /\ Step(c) /\ call[c].step = "delete_store" /\ prepared'[call[c].op] = Closed
                => /\ call[c].skill \notin catalog'
                   /\ \A v \in store' \union recorded' : SkillOf(v) # call[c].skill
                   /\ \A d \in Deployments : relations'[d].state # "absent" =>
                        SkillOf(relations'[d].version) # call[c].skill]_vars
  <2> SUFFICES ASSUME Next, NEW c \in Callers, Step(c), call[c].step = "delete_store",
                      prepared'[call[c].op] = Closed
               PROVE  /\ call[c].skill \notin catalog'
                      /\ \A v \in store' \union recorded' : SkillOf(v) # call[c].skill
                      /\ \A d \in Deployments : relations'[d].state # "absent" =>
                           SkillOf(relations'[d].version) # call[c].skill
    BY <1>5
  <2>1. PICK k \in CallShapes : k = call[c] /\ CallOK(k, sources)
    BY <1>5, CallNow
  <2>2. DeleteStore(c)
    BY DEF Step, NextTarget, FindSource, CreateSource, FillSource, Stage, Publish,
       InsertRelation, Decide, Verify, VerifyIdentity, Unlink, Mark, DeleteCheck, DeleteRows,
       Capture, KeepIndependent, InspectAgain, UpdateFacts
  <2>3. Gone(k.skill) /\ UNCHANGED <<relations, recorded>>
    BY <1>5, <2>1, <2>2 DEF GoneInv, DeleteStore
  <2>4. CASE UNCHANGED catalog /\ store' = store \ SkillsVersions(k.skill)
    BY <2>1, <2>3, <2>4 DEF Gone, SkillsVersions
  <2>5. CASE "io" \in Disturbances /\ UNCHANGED prepared
    <3>1. /\ k.goal = "delete" /\ k.op \in Operations /\ IsRemoval(k.op)
      BY <1>5, <2>1, <2>5, RemovalStepFacts DEF OpenPlansInv, Removing, DeleteSteps
    <3>2. Closed.kind = "closed"
      BY DEF Closed, Plan
    <3>3. QED
      BY <2>1, <2>5, <3>1, <3>2 DEF IsRemoval
  <2>6. QED
    BY <2>1, <2>2, <2>4, <2>5 DEF DeleteStore
<1>6. QED
  <2>1. CASE OneCaller
    <3>1. TypeInv /\ OpenPlansInv /\ [Next]_vars => OpenPlansInv'
      BY <1>4, <2>1
    <3>2. TypeInv /\ GoneInv /\ OpenPlansInv /\ [Next]_vars =>
             [\A c \in Callers :
                /\ Step(c) /\ call[c].step = "delete_store" /\ prepared'[call[c].op] = Closed
                => /\ call[c].skill \notin catalog'
                   /\ \A v \in store' \union recorded' : SkillOf(v) # call[c].skill
                   /\ \A d \in Deployments : relations'[d].state # "absent" =>
                        SkillOf(relations'[d].version) # call[c].skill]_vars
      BY <1>5
    <3>3. QED
      BY <1>1, <1>2, <1>3, <3>1, <3>2, InvAlways, PTL DEF Spec, DeleteIsComplete
  <2>2. CASE ~OneCaller
    <3>1. TypeInv /\ GoneInv /\ [Next]_vars =>
             [\A c \in Callers :
                /\ Step(c) /\ call[c].step = "delete_store" /\ prepared'[call[c].op] = Closed
                => /\ call[c].skill \notin catalog'
                   /\ \A v \in store' \union recorded' : SkillOf(v) # call[c].skill
                   /\ \A d \in Deployments : relations'[d].state # "absent" =>
                        SkillOf(relations'[d].version) # call[c].skill]_vars
      BY <1>5, <2>2
    <3>2. QED
      BY <1>1, <1>2, <3>1, InvAlways, PTL DEF Spec, DeleteIsComplete
  <2>3. QED
    BY <2>1, <2>2

-----------------------------------------------------------------------------
(* Closing the plan of a deployment                                        *)

DeployedAt(p, v) ==
  \E d \in Deployments : Active(d) /\ relations[d].place = p /\ relations[d].version = v

\* The places a deployment has not answered for yet.
Underway(k) == IF k.step = "next" THEN k.todo ELSE k.todo \union {k.record.place}

\* As long as no target failed, the targets left behind are deployed.
DoneInv ==
  \A c \in Callers : call[c].step # "idle" /\ call[c].goal = "deploy" /\ ~call[c].failed =>
    \A p \in prepared[call[c].op].targets \ Underway(call[c]) :
      DeployedAt(p, prepared[call[c].op].version)

LEMMA FailureIsKept ==
  ASSUME TypeInv, NEW c \in Callers, NEW k \in CallShapes, k = call[c], k.goal = "deploy", Fail(c)
  PROVE  call'[c].failed
<1>1. PICK n : n = [k EXCEPT !.step = "next", !.failed = TRUE]
  OBVIOUS
<1>2. call' = [call EXCEPT ![c] = n]
  BY <1>1 DEF Fail
<1>3. n.failed
  BY <1>1 DEF CallShapes
<1>4. QED
  BY <1>2, <1>3 DEF TypeInv, CallsOK

\* A step of a deployment that has not failed.
LEMMA DeploymentGoes ==
  ASSUME TypeInv, NEW c \in Callers, CallOK(call[c], sources),
         call[c].goal = "deploy", Step(c),
         call'[c].step # "idle", ~call'[c].failed
  PROVE  \/ InsertRelation(c)
         \/ UNCHANGED relations /\ Underway(call'[c]) = Underway(call[c])
<1>k. PICK k \in CallShapes : k = call[c]
  BY CallNow
<1>1. Deploying(k, sources) /\ k.step # "idle"
  BY <1>k, CallsGoOn DEF CallOK, Removing, Reconciling
<1>2. ~Finish(c) /\ ~Fail(c)
  BY <1>k, NothingInHand, FailureIsKept DEF Finish, TypeInv, CallsOK
<1>3. ASSUME NEW st \in Steps, Goto(c, st), st # "next", k.step # "next"
      PROVE  Underway(call'[c]) = Underway(k)
  BY <1>k, <1>3, StepsOfACall DEF Goto, Underway, TypeInv, CallsOK
<1>4. CASE NextTarget(c)
  <2>1. PICK p \in k.todo : call' = [call EXCEPT ![c].step = "source", ![c].todo = @ \ {p},
                                       ![c].staged = None, ![c].record.place = p]
    BY <1>k, <1>2, <1>4 DEF NextTarget, EndDeploy
  <2>2. PICK r : r = [k.record EXCEPT !.place = p]
    OBVIOUS
  <2>3. r.place = p
    BY <2>2 DEF CallShapes, Relation
  <2>4. PICK n : n = [k EXCEPT !.step = "source", !.todo = k.todo \ {p}, !.staged = None,
                               !.record = r]
    OBVIOUS
  <2>5. n.step = "source" /\ n.todo = k.todo \ {p} /\ n.record = r
    BY <2>4 DEF CallShapes
  <2>6. call' = [call EXCEPT ![c] = n]
    BY <1>k, <2>1, <2>2, <2>4 DEF TypeInv, CallsOK
  <2>7. k.step = "next" /\ UNCHANGED relations
    BY <1>k, <1>4 DEF NextTarget, database
  <2>8. Underway(n) = Underway(k)
    BY <2>3, <2>5, <2>7 DEF Underway
  <2>9. QED
    BY <1>k, <2>6, <2>7, <2>8 DEF TypeInv, CallsOK
<1>5. CASE FindSource(c) \/ CreateSource(c) \/ FillSource(c) \/ Publish(c)
  <2>1. PICK st \in {"stage", "create", "fill", "record"} : Goto(c, st)
    BY <1>2, <1>5 DEF FindSource, CreateSource, FillSource, Publish
  <2>2. k.step # "next" /\ UNCHANGED relations /\ st \in Steps /\ st # "next"
    BY <1>k, <1>5 DEF FindSource, CreateSource, FillSource, Publish, database, Steps
  <2>3. QED
    BY <1>k, <1>3, <2>1, <2>2
<1>6. CASE Stage(c)
  <2>1. PICK n : n = [k EXCEPT !.step = "publish", !.staged = sources[k.record.version]]
    OBVIOUS
  <2>2. call' = [call EXCEPT ![c] = n]
    BY <1>k, <1>2, <1>6, <2>1 DEF Stage, Version, TypeInv, CallsOK
  <2>3. n.step = "publish" /\ n.todo = k.todo /\ n.record = k.record
    BY <2>1 DEF CallShapes
  <2>4. k.step = "stage" /\ UNCHANGED relations
    BY <1>k, <1>6 DEF Stage, database
  <2>5. QED
    BY <1>k, <2>2, <2>3, <2>4 DEF Underway, TypeInv, CallsOK
<1>7. CASE InsertRelation(c)
  BY <1>7
<1>8. CASE Decide(c) \/ Verify(c) \/ VerifyIdentity(c) \/ Unlink(c) \/ Mark(c)
           \/ DeleteCheck(c) \/ DeleteRows(c) \/ DeleteStore(c)
           \/ Capture(c) \/ KeepIndependent(c) \/ InspectAgain(c) \/ UpdateFacts(c)
  <2>1. \/ k.step \in {"decide", "verify", "replace", "unlink", "mark", "delete_check",
                       "delete_rows", "delete_store", "capture", "keep", "inspect"}
        \/ k.goal # "deploy"
    BY <1>k, <1>8 DEF Decide, Verify, VerifyIdentity, Unlink, Mark, DeleteCheck, DeleteRows,
       DeleteStore, Capture, KeepIndependent, InspectAgain, UpdateFacts
  <2>2. QED
    BY <1>1, <2>1 DEF Deploying, FileSteps
<1>9. QED
  BY <1>4, <1>5, <1>6, <1>7, <1>8 DEF Step

\* The relation of the target in hand is inserted.
LEMMA TargetDeployed ==
  ASSUME TypeInv, NEW c \in Callers, NEW k \in CallShapes, k = call[c], CallOK(k, sources),
         k.record.state = "deployed", InsertRelation(c), ~call'[c].failed
  PROVE  /\ \A p, v : DeployedAt(p, v) => DeployedAt(p, v)'
         /\ DeployedAt(k.record.place, k.record.version)'
         /\ Underway(call'[c]) = k.todo /\ Underway(k) = k.todo \union {k.record.place}
<1> USE DEF TypeInv, CallsOK
<1>1. k.step = "record" /\ k.goal = "deploy"
  BY DEF InsertRelation
<1>2. PICK r : r = [k.record EXCEPT !.expected = TreeHash(k.staged),
                                    !.observed = TreeHash(k.staged)]
  OBVIOUS
<1>3. /\ Goto(c, "next")
      /\ \E d \in Deployments :
           relations[d] = NoRelation /\ relations' = [relations EXCEPT ![d] = r]
  BY <1>1, <1>2, FailureIsKept DEF InsertRelation
<1>4. PICK d \in Deployments :
        relations[d] = NoRelation /\ relations' = [relations EXCEPT ![d] = r]
  BY <1>3
<1>5. r.state = "deployed" /\ r.place = k.record.place /\ r.version = k.record.version
  BY <1>2 DEF CallShapes, Relation
<1>6. relations'[d] = r /\ \A e \in Deployments : e # d => relations'[e] = relations[e]
  BY <1>4 DEF RowsOK
<1>7. ~Active(d)
  BY <1>4 DEF Active, NoRelation
<1>8. \A p, v : DeployedAt(p, v) => DeployedAt(p, v)'
  BY <1>6, <1>7 DEF DeployedAt, Active
<1>9. DeployedAt(k.record.place, k.record.version)'
  BY <1>5, <1>6 DEF DeployedAt, Active
<1>10. "next" \in Steps
  BY DEF Steps
<1>11. Underway(call'[c]) = k.todo
  BY <1>3, <1>10, StepsOfACall DEF Goto, Underway
<1>12. QED
  BY <1>1, <1>8, <1>9, <1>11 DEF Underway

LEMMA DoneStep ==
  ASSUME OneCaller
  PROVE  TypeInv /\ OpenPlansInv /\ DoneInv /\ [Next]_vars => DoneInv'
<1> SUFFICES ASSUME TypeInv, OpenPlansInv, DoneInv, [Next]_vars, NEW c \in Callers,
                    call'[c].step # "idle", call'[c].goal = "deploy", ~call'[c].failed
             PROVE  \A p \in prepared'[call'[c].op].targets \ Underway(call'[c]) :
                      DeployedAt(p, prepared[call[c].op].version)'
  BY DEF DoneInv
<1>k. PICK k \in CallShapes : k = call[c] /\ CallOK(k, sources)
  BY CallNow
<1>1. ASSUME UNCHANGED <<relations, call>>, prepared'[k.op] = prepared[k.op]
      PROVE  \A p \in prepared'[call'[c].op].targets \ Underway(call'[c]) :
               DeployedAt(p, prepared[call[c].op].version)'
  BY <1>k, <1>1 DEF DoneInv, DeployedAt, Active
<1>2. ASSUME NEW op \in Operations, Prepare(op)
      PROVE  UNCHANGED <<relations, call>> /\ prepared'[k.op] = prepared[k.op]
  <2>1. UNCHANGED <<relations, call>>
    BY <1>2, PreparedOnce DEF database
  <2>2. k.op \in Operations /\ prepared[k.op].kind = "deploy"
    BY <1>k, <2>1 DEF OpenPlansInv
  <2>3. QED
    BY <1>2, <2>1, <2>2, PreparedOnce
<1>3. World => UNCHANGED <<relations, call, prepared>>
  BY WorldLeavesTheCatalog, NothingInHand DEF database
<1>4. ASSUME Request(c)
      PROVE  \A p \in prepared'[call'[c].op].targets \ Underway(call'[c]) :
               DeployedAt(p, prepared[call[c].op].version)'
  BY <1>4, RequestOpens DEF Underway
<1>5. ASSUME Step(c)
      PROVE  \A p \in prepared'[call'[c].op].targets \ Underway(call'[c]) :
               DeployedAt(p, prepared[call[c].op].version)'
  <2>1. ~Finish(c)
    BY NothingInHand DEF Finish, TypeInv, CallsOK
  <2>2. UNCHANGED prepared /\ Keeps(k, call'[c]) /\ k.step # "idle"
    BY <1>k, <1>5, <2>1, CallsGoOn
  <2>3. /\ k.goal = "deploy" /\ call'[c].op = k.op /\ ~k.failed
        /\ k.record.version = prepared[k.op].version /\ k.record.state = "deployed"
    BY <1>k, <2>2 DEF Keeps, OpenPlansInv
  <2>4. \A p \in prepared[k.op].targets \ Underway(k) : DeployedAt(p, prepared[k.op].version)
    BY <1>k, <2>2, <2>3 DEF DoneInv
  <2>5. CASE UNCHANGED relations /\ Underway(call'[c]) = Underway(k)
    BY <2>2, <2>3, <2>4, <2>5 DEF DeployedAt, Active
  <2>6. CASE InsertRelation(c)
    <3>1. /\ \A p, v : DeployedAt(p, v) => DeployedAt(p, v)'
          /\ DeployedAt(k.record.place, k.record.version)'
          /\ Underway(call'[c]) = k.todo /\ Underway(k) = k.todo \union {k.record.place}
      BY <1>k, <2>3, <2>6, TargetDeployed
    <3>2. PICK v : v = prepared[k.op].version
      OBVIOUS
    <3>3. \A p \in prepared[k.op].targets \ k.todo : DeployedAt(p, v)'
      BY <2>3, <2>4, <3>1, <3>2
    <3>4. prepared'[call'[c].op] = prepared[k.op]
      BY <2>2, <2>3
    <3>5. QED
      BY <2>2, <2>3, <3>1, <3>2, <3>3, <3>4 DEF DeployedAt, Active
  <2>7. QED
    BY <1>k, <1>5, <2>3, <2>5, <2>6, DeploymentGoes
<1>6. QED
  BY <1>1, <1>2, <1>3, <1>4, <1>5 DEF Next, vars, OneCaller

\* Who drops the plan of a deployment.
LEMMA WhoClosesADeployment ==
  ASSUME TypeInv, OpenPlansInv, NEW e \in Callers, Step(e), NEW op \in Operations,
         prepared[op].kind = "deploy", prepared'[op] = Closed
  PROVE  \E c \in Callers : /\ call[c].step = "next" /\ call[c].goal = "deploy"
                            /\ call[c].op = op /\ call[c].todo = {} /\ ~call[c].failed
                            /\ UNCHANGED relations
<1>1. Closed.kind = "closed"
  BY DEF Closed, Plan
<1>2. prepared'[op] # prepared[op]
  BY <1>1
<1>3. PICK c \in Callers : Step(c)
  OBVIOUS
<1>4. PICK k \in CallShapes : k = call[c] /\ CallOK(k, sources) /\ k.step # "idle"
  BY <1>3, CallNow, CallsGoOn
<1>5. Finish(c)
  BY <1>2, <1>3, CallsGoOn
<1>6. NextTarget(c) \/ Decide(c) \/ DeleteStore(c)
  BY <1>2, <1>3 DEF Step, FindSource, CreateSource, FillSource, Stage, Publish,
     InsertRelation, Verify, VerifyIdentity, Unlink, Mark, DeleteCheck, DeleteRows, Capture,
     KeepIndependent, InspectAgain, UpdateFacts
<1>7. Close(k.op)
  BY <1>2, <1>4, <1>6 DEF NextTarget, EndDeploy, Decide, DeleteStore
<1>8. k.op = op
  BY <1>2, <1>7 DEF Close, TypeInv, PlansOK
<1>9. ~(Decide(c) \/ DeleteStore(c))
  <2>1. ASSUME Decide(c) \/ DeleteStore(c) PROVE k.goal \in {"undeploy", "delete"}
    BY <1>4, <2>1, RemovalStepFacts DEF Decide, DeleteStore, Removing, DeleteSteps
  <2>2. QED
    BY <1>4, <1>8, <2>1 DEF OpenPlansInv, IsRemoval
<1>10. k.step = "next" /\ UNCHANGED relations
  BY <1>4, <1>6, <1>9 DEF NextTarget, database
<1>11. k.goal = "deploy"
  BY <1>4, <1>10 DEF CallOK, Deploying, Removing, Reconciling, FileSteps, DeleteSteps
<1>12. k.todo = {} /\ ~k.failed
  BY <1>2, <1>4, <1>6, <1>9 DEF NextTarget, EndDeploy
<1>13. QED
  BY <1>4, <1>8, <1>10, <1>11, <1>12

\* While one command runs at a time, whatever fails, is edited or crashes, the plan of a
\* deployment is dropped only when every target has an active relation of the planned
\* version (DeploymentService::commit: the plan leaves the map after the last target, if none
\* failed): what failed can be committed again.
THEOREM DroppedPlansAreDeployed == OneCaller => (Spec => ClosedPlansAreDeployed)
<1> SUFFICES ASSUME OneCaller PROVE Spec => ClosedPlansAreDeployed
  OBVIOUS
<1>1. Init => OpenPlansInv /\ DoneInv
  BY NothingInHand DEF Init, OpenPlansInv, DoneInv
<1>2. TypeInv /\ OpenPlansInv /\ [Next]_vars => OpenPlansInv'
  BY OpenPlansStep
<1>3. TypeInv /\ OpenPlansInv /\ DoneInv /\ [Next]_vars => DoneInv'
  BY DoneStep
<1>4. ASSUME TypeInv, OpenPlansInv, DoneInv, [Next]_vars
      PROVE  [\A op \in Operations :
               /\ prepared[op].kind = "deploy" /\ prepared'[op] = Closed
               /\ \E c \in Callers : Step(c)
               => \A p \in prepared[op].targets : \E d \in Deployments :
                    Active(d) /\ relations[d].place = p
                    /\ relations[d].version = prepared[op].version]_vars
  <2> SUFFICES ASSUME NEW e \in Callers, Step(e), NEW op \in Operations,
                      prepared[op].kind = "deploy", prepared'[op] = Closed
               PROVE  \A p \in prepared[op].targets : DeployedAt(p, prepared[op].version)
    BY <1>4 DEF DeployedAt
  <2>1. PICK c \in Callers : /\ call[c].step = "next" /\ call[c].goal = "deploy"
                             /\ call[c].op = op /\ call[c].todo = {} /\ ~call[c].failed
    BY <1>4, WhoClosesADeployment
  <2>2. Underway(call[c]) = {}
    BY <2>1 DEF Underway
  <2>3. QED
    BY <1>4, <2>1, <2>2 DEF DoneInv
<1>5. QED
  BY <1>1, <1>2, <1>3, <1>4, InvAlways, PTL DEF Spec, ClosedPlansAreDeployed

-----------------------------------------------------------------------------
(* What an active relation expects is at its place                         *)

\* Nobody edits, nothing fails and no skill is deleted; and one command runs at a time,
\* or any number of them deploy copies and undeploy.
CopiesOnly == Modes \subseteq {"copy"} /\ Requests \subseteq {"deploy", "undeploy"}
Calm == Disturbances = {} /\ "delete" \notin Requests /\ (OneCaller \/ CopiesOnly)

\* A row stands for the record, whose place no other row has.
Row(d, r) == relations[d].state # "absent" /\ relations[d].place = r.place

HasRow(p) == \E d \in Deployments : relations[d].state # "absent" /\ relations[d].place = p

RowsApart ==
  /\ \A d \in Deployments : relations[d].state # "absent" => relations[d].place \in RegisteredPlaces
  /\ \A d, e \in Deployments :
       /\ relations[d].state # "absent" /\ relations[e].state # "absent"
       /\ relations[d].place = relations[e].place
       => d = e

\* What a removal remembers still has its row: rows are marked, not deleted.
PlansKnow ==
  \A op \in Operations : \A d \in DOMAIN prepared[op].records : Row(d, prepared[op].records[d])

LinkTo(p, v) == disk[p].kind = "link" /\ disk[p].version = v
NoLinks == \A p \in Places : disk[p].kind # "link"

\* A target is deployed or removed; what was published stands until its relation is
\* inserted; a source is written while no target shows it.
CallBacked(k) ==
  /\ k.step # "idle" => k.goal \in {"deploy", "undeploy"}
  /\ k.step \in {"decide", "verify", "unlink", "mark"} => \A t \in k.todo : Row(t.id, t.record)
  /\ k.step \in {"verify", "unlink", "mark"} => Row(k.id, k.record)
  /\ k.step \in {"verify", "unlink"} => k.decision = "remove_owned"
  /\ k.step = "record" =>
       \/ HasRow(k.record.place)
       \/ Occupied(k.record.place) /\ ContentAt(k.record.place) = k.staged
  /\ k.step \in {"create", "fill"} => \A p \in Places : ~LinkTo(p, k.record.version)

\* The call has taken the tree of the relation and is about to mark it.
Leaving(d, k) == k.id = d /\ k.step = "mark" /\ k.decision = "remove_owned"

BackedInv ==
  /\ RowsApart /\ PlansKnow
  /\ Modes \subseteq {"copy"} => NoLinks
  /\ \A c \in Callers : CallBacked(call[c])
  /\ \A d \in Deployments :
       Active(d) => Owned(relations[d]) \/ \E c \in Callers : Leaving(d, call[c])

LEMMA OwnedIsUnchanged == ASSUME NEW r PROVE Owned(r) <=> Observation(r) = "unchanged"
  BY DEF Owned, Observation

LEMMA NobodyDisturbs == ASSUME Calm PROVE ~World /\ "io" \notin Disturbances
  BY DEF Calm, World, Edit, RemoveByHand, MayEdit, Crash

\* What a step of another call may do to a call: rows stay, a tree goes from a place with a
\* row only, and nothing is linked to a source that is written.
RowsStay ==
  \A d \in Deployments : relations[d].state # "absent" =>
    relations'[d].state # "absent" /\ relations'[d].place = relations[d].place
TreesStay ==
  \A p \in Places : Occupied(p) =>
    HasRow(p) \/ (Occupied(p)' /\ ContentAt(p)' = ContentAt(p))
NoNewLinks == \A p \in Places : disk'[p].kind = "link" => disk'[p] = disk[p]

LEMMA StaysBacked ==
  ASSUME NEW k \in CallShapes, CallOK(k, sources), CallBacked(k), RowsStay, TreesStay, NoNewLinks
  PROVE  CallBacked(k)'
<1>1. ASSUME NEW p, HasRow(p) PROVE HasRow(p)'
  BY <1>1 DEF HasRow, RowsStay
<1>2. ASSUME k.step \in {"decide", "verify", "unlink", "mark"}, NEW t \in k.todo
      PROVE  Row(t.id, t.record)'
  <2>1. CASE k.goal = "restore"
    BY <1>2, <2>1 DEF CallBacked, CallOK
  <2>2. CASE k.goal # "restore"
    <3>1. t.id \in Deployments
      BY <1>2, <2>2 DEF CallOK, Deploying, Removing, Reconciling, FileSteps, FullRemovals, Removals
    <3>2. QED
      BY <1>2, <3>1 DEF CallBacked, Row, RowsStay
  <2>3. QED
    BY <2>1, <2>2
<1>3. ASSUME k.step \in {"verify", "unlink", "mark"} PROVE Row(k.id, k.record)'
  <2>1. k.id \in Deployments
    BY <1>3 DEF CallOK, Deploying, Removing, Reconciling, FileSteps
  <2>2. QED
    BY <1>3, <2>1 DEF CallBacked, Row, RowsStay
<1>4. ASSUME k.step = "record"
      PROVE  \/ HasRow(k.record.place)'
             \/ (Occupied(k.record.place) /\ ContentAt(k.record.place) = k.staged)'
  <2>1. k.record.place \in Places
    BY <1>4 DEF CallOK, Deploying, Removing, Reconciling, FileSteps, DeleteSteps, Full
  <2>2. QED
    BY <1>1, <1>4, <2>1 DEF CallBacked, TreesStay
<1>5. ASSUME k.step \in {"create", "fill"}, NEW p \in Places
      PROVE  ~LinkTo(p, k.record.version)'
  BY <1>5 DEF CallBacked, LinkTo, NoNewLinks
<1>6. QED
  BY <1>2, <1>3, <1>4, <1>5 DEF CallBacked

LEMMA OthersBacked ==
  ASSUME TypeInv, BackedInv, NEW c \in Callers, \A e \in Callers : e # c => call'[e] = call[e],
         RowsStay, TreesStay, OneCaller \/ NoNewLinks
  PROVE  \A e \in Callers : e # c => CallBacked(call[e])'
<1> SUFFICES ASSUME NEW e \in Callers, e # c PROVE CallBacked(call[e])'
  OBVIOUS
<1>1. PICK k \in CallShapes : k = call[e] /\ CallOK(k, sources)
  BY CallNow
<1>2. CallBacked(k)'
  BY <1>1, StaysBacked DEF BackedInv, OneCaller
<1>3. call'[e] = k
  BY <1>1
<1>4. QED
  BY <1>2, <1>3 DEF CallBacked, Row, HasRow, Occupied, ContentAt, LinkTo

\* Rows stay and what the places show stays; one call goes on.
SameView ==
  /\ UNCHANGED <<relations, disk>>
  /\ \A p \in Places : Occupied(p) => ContentAt(p)' = ContentAt(p)

LEMMA CallGoesOn ==
  ASSUME TypeInv, BackedInv, NEW c \in Callers, SameView, PlansKnow',
         \A e \in Callers : e # c => call'[e] = call[e],
         call[c].step # "mark" \/ ~Active(call[c].id), CallBacked(call[c])'
  PROVE  BackedInv'
<1>1. RowsApart'
  BY DEF BackedInv, RowsApart, SameView
<1>2. Modes \subseteq {"copy"} => NoLinks'
  BY DEF BackedInv, NoLinks, SameView
<1>3. RowsStay /\ TreesStay /\ NoNewLinks
  BY DEF SameView, RowsStay, TreesStay, NoNewLinks, Occupied
<1>4. \A e \in Callers : CallBacked(call[e])'
  BY <1>3, OthersBacked
<1>5. ASSUME NEW d \in Deployments, Active(d)'
      PROVE  Owned(relations[d])' \/ \E e \in Callers : Leaving(d, call[e])'
  <2>1. Active(d) /\ UNCHANGED relations
    BY <1>5 DEF SameView, Active
  <2>2. CASE Owned(relations[d])
    <3>1. Owned(relations[d])'
      BY <2>1, <2>2, ConstantsAssumption DEF Owned, Occupied, SameView, TreeHash
    <3>2. QED
      BY <3>1
  <2>3. ASSUME NEW e \in Callers, Leaving(d, call[e]) PROVE Leaving(d, call[e])'
    BY <2>1, <2>3 DEF Leaving
  <2>4. QED
    BY <2>1, <2>2, <2>3 DEF BackedInv
<1>6. QED
  BY <1>1, <1>2, <1>4, <1>5 DEF BackedInv

\* Plans come and go, calls stay.
LEMMA OnlyPlansChange ==
  ASSUME BackedInv, UNCHANGED <<database, files, call>>, PlansKnow'
  PROVE  BackedInv'
<1>1. UNCHANGED <<relations, disk, sources, call>>
  BY DEF database, files
<1>2. RowsApart' /\ (Modes \subseteq {"copy"} => NoLinks')
  BY <1>1 DEF BackedInv, RowsApart, NoLinks
<1>3. \A c \in Callers : CallBacked(call[c])'
  BY <1>1 DEF BackedInv, CallBacked, Row, HasRow, Occupied, ContentAt, LinkTo
<1>4. \A d \in Deployments :
        Active(d)' => Owned(relations[d])' \/ \E c \in Callers : Leaving(d, call[c])'
  BY <1>1 DEF BackedInv, Active, Owned, Occupied, ContentAt, TreeHash, Leaving
<1>5. QED
  BY <1>1, <1>2, <1>3, <1>4 DEF BackedInv

LEMMA PlansBacked ==
  ASSUME TypeInv, PlansKnow, UNCHANGED relations, NEW op \in Operations, NEW plan \in PlanShapes,
         prepared' = [prepared EXCEPT ![op] = plan],
         \A d \in DOMAIN plan.records : Row(d, plan.records[d])
  PROVE  PlansKnow'
<1>1. ASSUME NEW o \in Operations, NEW d \in DOMAIN prepared'[o].records
      PROVE  Row(d, prepared'[o].records[d])
  <2>1. CASE o = op
    BY <1>1, <2>1 DEF TypeInv, PlansOK
  <2>2. CASE o # op
    BY <1>1, <2>2 DEF TypeInv, PlansOK, PlansKnow
  <2>3. QED
    BY <2>1, <2>2
<1>2. QED
  BY <1>1 DEF PlansKnow, Row

LEMMA PrepareBacked ==
  ASSUME Calm, TypeInv, BackedInv, NEW op \in Operations, Prepare(op)
  PROVE  BackedInv'
<1>1. UNCHANGED <<database, files, call>> /\ UNCHANGED relations
  BY PreparedOnce DEF database
<1>2. ASSUME NEW v \in store, NEW targets \in TargetSets, NEW mode \in Modes,
             PrepareDeploy(op, v, targets, mode)
      PROVE  PlansKnow'
  <2>1. PICK plan : plan = Plan("deploy", v, mode, targets, SkillOf(v), <<>>)
    OBVIOUS
  <2>2. prepared' = [prepared EXCEPT ![op] = plan] /\ DOMAIN plan.records = {}
    BY <1>2, <2>1, NoRecords DEF PrepareDeploy, Plan
  <2>3. PlansKnow
    BY DEF BackedInv
  <2>4. v \in Versions /\ targets \subseteq Places /\ SkillOf(v) \in Skills
    BY VersionsArePairs, ConstantsAssumption DEF TypeInv, RowsOK
  <2>5. plan \in PlanShapes
    BY <2>1, <2>4, NoRecords DEF Plan, PlanShapes
  <2>6. QED
    BY <1>1, <2>2, <2>3, <2>5, PlansBacked
<1>3. ASSUME NEW d \in Deployments, PrepareUndeploy(op, d)
      PROVE  PlansKnow'
  <2>1. PICK plan : plan = Plan("undeploy", None, None, {}, SkillOf(relations[d].version),
                                [e \in {d} |-> relations[e]])
    OBVIOUS
  <2>2. Active(d) /\ prepared' = [prepared EXCEPT ![op] = plan]
    BY <1>3, <2>1 DEF PrepareUndeploy
  <2>3. plan.records = [e \in {d} |-> relations[e]]
    BY <2>1 DEF Plan
  <2>4. \A e \in DOMAIN plan.records : Row(e, plan.records[e])
    BY <2>2, <2>3 DEF Row, Active
  <2>5. [e \in {d} |-> relations[e]] \in [{d} -> Relation]
    BY DEF TypeInv, RowsOK
  <2>6. [e \in {d} |-> relations[e]] \in Records
    BY <2>5 DEF Records
  <2>7. SkillOf(relations[d].version) \in Skills
    BY <2>2, VersionsArePairs DEF Active, TypeInv, RowsOK, Full
  <2>8. plan \in PlanShapes
    BY <2>1, <2>6, <2>7 DEF Plan, PlanShapes
  <2>9. QED
    BY <1>1, <2>2, <2>4, <2>8, PlansBacked DEF BackedInv
<1>4. ASSUME NEW s \in Skills, PrepareDelete(op, s) PROVE FALSE
  BY <1>4 DEF Calm, PrepareDelete
<1>5. PlansKnow'
  BY <1>2, <1>3, <1>4 DEF Prepare
<1>6. QED
  BY <1>1, <1>5, OnlyPlansChange

\* A command starts.
LEMMA RequestBacked ==
  ASSUME Calm, TypeInv, BackedInv, NEW c \in Callers, Request(c)
  PROVE  BackedInv'
<1>1. /\ UNCHANGED <<database, files, store, prepared>> /\ call[c].step = "idle"
      /\ \A e \in Callers : e # c => call'[e] = call[e]
  BY RequestOpens, OthersWait
<1>2. UNCHANGED <<relations, disk, sources, prepared>>
  BY <1>1 DEF database, files
<1>3. SameView /\ PlansKnow'
  BY <1>2 DEF SameView, ContentAt, BackedInv, PlansKnow, Row
<1>i. PICK i \in CallShapes : i = Idle
  BY NothingInHand
<1> USE DEF TypeInv, CallsOK
<1>4. ASSUME NEW op \in Operations, CommitDeploy(c, op) PROVE CallBacked(call[c])'
  <2>1. call'[c].step = "next" /\ call'[c].goal = "deploy"
    BY <1>4, <1>i DEF CommitDeploy, CallShapes
  <2>2. QED
    BY <2>1 DEF CallBacked
<1>5. ASSUME NEW op \in Operations, NEW d \in Deployments, NEW decision \in Decisions,
             CommitUndeploy(c, op, d, decision)
      PROVE  CallBacked(call[c])'
  <2>1. PICK todo : todo = Todo(prepared[op].records, {d}, [e \in {d} |-> decision])
    OBVIOUS
  <2>2. call'[c].step = "decide" /\ call'[c].goal = "undeploy" /\ call'[c].todo = todo
    BY <1>5, <1>i, <2>1 DEF CommitUndeploy, CallShapes
  <2>3. \A t \in todo : Row(t.id, t.record)
    BY <1>5, <2>1 DEF Todo, CommitUndeploy, BackedInv, PlansKnow
  <2>4. QED
    BY <1>2, <2>2, <2>3 DEF CallBacked, Row
<1>6. ASSUME NEW op \in Operations, NEW chosen \in SUBSET Deployments,
             NEW decisions \in [chosen -> Decisions \ {"detach"}],
             CommitDelete(c, op, chosen, decisions)
      PROVE  FALSE
  BY <1>6 DEF Calm, CommitDelete
<1>7. ASSUME NEW d \in Deployments, NEW goal \in DOMAIN FirstStep, Reconcile(c, d, goal)
      PROVE  FALSE
  <2>1. CASE OneCaller
    <3>1. Active(d) /\ Allowed(goal, Observation(relations[d]))
      BY <1>7 DEF Reconcile
    <3>2. ~ \E e \in Callers : Leaving(d, call[e])
      BY <1>1, <2>1 DEF OneCaller, Leaving
    <3>3. Observation(relations[d]) = "unchanged"
      BY <3>1, <3>2, OwnedIsUnchanged DEF BackedInv
    <3>4. QED
      BY <3>1, <3>3 DEF Allowed
  <2>2. CASE CopiesOnly
    BY <1>7, <2>2 DEF CopiesOnly, Reconcile, FirstStep
  <2>3. QED
    BY <2>1, <2>2 DEF Calm
<1>8. CallBacked(call[c])'
  BY <1>4, <1>5, <1>6, <1>7 DEF Request
<1>9. call[c].step # "mark"
  BY <1>1
<1>10. QED
  BY <1>1, <1>3, <1>8, <1>9, CallGoesOn

-----------------------------------------------------------------------------
(* Steps that touch neither rows nor targets                               *)

\* A call that goes to a step of which nothing is asked.
LEMMA GotoBacked ==
  ASSUME TypeInv, BackedInv, NEW c \in Callers, call[c].step # "idle", NEW st \in Steps,
         Goto(c, st), st \in {"next", "source", "stage", "publish"}
  PROVE  CallBacked(call[c])'
<1>1. PICK k \in CallShapes : k = call[c]
  BY CallNow
<1>2. k.goal \in {"deploy", "undeploy"}
  BY <1>1 DEF BackedInv, CallBacked
<1>3. PICK n : n = [k EXCEPT !.step = st]
  OBVIOUS
<1>4. n.step = st /\ n.goal = k.goal
  BY <1>1, <1>3, StepsOfACall
<1>5. call'[c] = n
  BY <1>1, <1>3 DEF Goto, TypeInv, CallsOK
<1>6. QED
  BY <1>2, <1>4, <1>5 DEF CallBacked

LEMMA FinishBacked == ASSUME TypeInv, NEW c \in Callers, Finish(c) PROVE CallBacked(call[c])'
  BY NothingInHand DEF Finish, CallBacked, TypeInv, CallsOK

LEMMA FailBacked ==
  ASSUME TypeInv, BackedInv, NEW c \in Callers, call[c].step # "idle", Fail(c)
  PROVE  CallBacked(call[c])'
<1>1. PICK k \in CallShapes : k = call[c]
  BY CallNow
<1>2. CASE k.goal # "deploy"
  <2>1. Finish(c)
    BY <1>1, <1>2 DEF Fail, Finish
  <2>2. QED
    BY <2>1, FinishBacked
<1>3. CASE k.goal = "deploy"
  <2>1. PICK n : n = [k EXCEPT !.step = "next", !.failed = TRUE]
    OBVIOUS
  <2>2. n.step = "next" /\ n.goal = "deploy"
    BY <1>3, <2>1 DEF CallShapes, Steps
  <2>3. call'[c] = n
    BY <1>1, <1>3, <2>1 DEF Fail, TypeInv, CallsOK
  <2>4. QED
    BY <2>2, <2>3 DEF CallBacked
<1>4. QED
  BY <1>2, <1>3

\* The plan in hand is closed, or none is touched.
LEMMA ClosedBacked ==
  ASSUME TypeInv, PlansKnow, UNCHANGED relations, NEW op, UNCHANGED prepared \/ Close(op)
  PROVE  PlansKnow'
<1>1. CASE UNCHANGED prepared
  BY <1>1 DEF PlansKnow, Row
<1>2. CASE Close(op)
  <2>1. DOMAIN Closed.records = {}
    BY NoRecords DEF Closed, Plan
  <2>2. \A o \in Operations : prepared'[o] = prepared[o] \/ prepared'[o] = Closed
    BY <1>2 DEF Close, TypeInv, PlansOK
  <2>3. QED
    BY <2>1, <2>2 DEF PlansKnow, Row
<1>3. QED
  BY <1>1, <1>2

LEMMA NextTargetBacked ==
  ASSUME TypeInv, BackedInv, NEW c \in Callers, NextTarget(c)
  PROVE  BackedInv'
<1>1. PICK k \in CallShapes : k = call[c] /\ CallOK(k, sources)
  BY CallNow
<1>2. /\ k.step = "next" /\ k.goal = "deploy" /\ SameView /\ UNCHANGED relations
      /\ \A e \in Callers : e # c => call'[e] = call[e]
  BY <1>1, OthersWait DEF NextTarget, CallOK, Deploying, Removing, Reconciling, FileSteps,
     DeleteSteps, SameView, database, files, ContentAt, Step
<1>3. ASSUME NEW p \in k.todo, UNCHANGED prepared,
             call' = [call EXCEPT ![c].step = "source", ![c].todo = @ \ {p},
                                  ![c].staged = None, ![c].record.place = p]
      PROVE  CallBacked(call[c])'
  <2>1. PICK r : r = [k.record EXCEPT !.place = p]
    OBVIOUS
  <2>2. PICK n : n = [k EXCEPT !.step = "source", !.todo = k.todo \ {p}, !.staged = None,
                               !.record = r]
    OBVIOUS
  <2>3. n.step = "source" /\ n.goal = "deploy"
    BY <1>2, <2>2 DEF CallShapes
  <2>4. call' = [call EXCEPT ![c] = n]
    BY <1>1, <1>3, <2>1, <2>2 DEF TypeInv, CallsOK
  <2>5. QED
    BY <2>3, <2>4 DEF CallBacked, TypeInv, CallsOK
<1>4. CallBacked(call[c])' /\ PlansKnow'
  BY <1>1, <1>2, <1>3, FinishBacked, ClosedBacked DEF NextTarget, EndDeploy, BackedInv
<1>5. QED
  BY <1>1, <1>2, <1>4, CallGoesOn

\* What a file step of a deployment is.
LEMMA FileStepsOfDeployments ==
  ASSUME TypeInv, BackedInv, NEW c \in Callers, Step(c), call[c].step \in FileSteps
  PROVE  \E k \in CallShapes :
           /\ k = call[c] /\ CallOK(k, sources) /\ k.goal = "deploy" /\ CallBacked(k)
           /\ k.record.version \in Versions /\ k.record.place \in Places /\ k.record.mode \in Modes
           /\ k.step # "idle"
           /\ \A e \in Callers : e # c => call'[e] = call[e]
<1>1. PICK k \in CallShapes : k = call[c] /\ CallOK(k, sources)
  BY CallNow
<1>2. /\ CallBacked(k) /\ k.record.version \in Versions /\ k.record.place \in Places
      /\ k.record.mode \in Modes /\ k.goal \in {"deploy", "restore"} /\ k.step # "idle"
  BY <1>1, FileStepFacts DEF BackedInv, FileSteps
<1>3. k.goal = "deploy"
  BY <1>2 DEF CallBacked
<1>4. QED
  BY <1>1, <1>2, <1>3, OthersWait

LEMMA FindSourceBacked ==
  ASSUME TypeInv, BackedInv, NEW c \in Callers, FindSource(c)
  PROVE  BackedInv'
<1>1. PICK k \in CallShapes :
        /\ k = call[c] /\ CallOK(k, sources) /\ k.goal = "deploy" /\ CallBacked(k)
        /\ k.record.version \in Versions /\ k.record.place \in Places /\ k.step # "idle"
        /\ \A e \in Callers : e # c => call'[e] = call[e]
  BY FileStepsOfDeployments DEF FindSource, FileSteps, Step
<1>2. UNCHANGED <<relations, disk, sources, prepared>> /\ k.step = "source"
  BY <1>1 DEF FindSource, database, files
<1>3. SameView /\ PlansKnow'
  BY <1>2 DEF SameView, ContentAt, BackedInv, PlansKnow, Row
<1>4. CASE Goto(c, "stage")
  <2>1. "stage" \in Steps
    BY DEF Steps
  <2>2. CallBacked(call[c])'
    BY <1>1, <1>4, <2>1, GotoBacked
  <2>3. QED
    BY <1>1, <1>2, <1>3, <2>2, CallGoesOn
<1>5. CASE sources[k.record.version] = None /\ Goto(c, "create")
  <2>1. \A p \in Places : ~LinkTo(p, k.record.version)
    BY <1>5, ConstantsAssumption DEF LinkTo, TypeInv, FilesOK, Trees
  <2>2. PICK n : n = [k EXCEPT !.step = "create"]
    OBVIOUS
  <2>3. n.step = "create" /\ n.goal = "deploy" /\ n.record = k.record
    BY <1>1, <2>2 DEF CallShapes
  <2>4. call'[c] = n
    BY <1>1, <1>5, <2>2 DEF Goto, TypeInv, CallsOK
  <2>5. CallBacked(call[c])'
    BY <1>2, <2>1, <2>3, <2>4 DEF CallBacked, LinkTo
  <2>6. QED
    BY <1>1, <1>2, <1>3, <2>5, CallGoesOn
<1>6. QED
  BY <1>1, <1>4, <1>5 DEF FindSource, Version

\* A source is written that no target shows.
LEMMA WritingASource ==
  ASSUME TypeInv, NEW v \in Versions, UNCHANGED disk, \A p \in Places : ~LinkTo(p, v),
         \/ UNCHANGED sources
         \/ \E x : sources' = [sources EXCEPT ![v] = x]
  PROVE  \A p \in Places : Occupied(p) => ContentAt(p)' = ContentAt(p)
<1>1. ASSUME NEW p \in Places, disk[p].kind = "link"
      PROVE  sources'[disk[p].version] = sources[disk[p].version]
  <2>1. disk[p].version \in Versions /\ disk[p].version # v
    BY <1>1, HeldTrees DEF TypeInv, LinkTo
  <2>2. QED
    BY <2>1 DEF TypeInv, FilesOK
<1>2. QED
  BY <1>1 DEF ContentAt

LEMMA CreateSourceBacked ==
  ASSUME TypeInv, BackedInv, NEW c \in Callers, CreateSource(c)
  PROVE  BackedInv'
<1>1. PICK k \in CallShapes :
        /\ k = call[c] /\ CallOK(k, sources) /\ k.goal = "deploy" /\ CallBacked(k)
        /\ k.record.version \in Versions /\ k.record.place \in Places /\ k.step # "idle"
        /\ \A e \in Callers : e # c => call'[e] = call[e]
  BY FileStepsOfDeployments DEF CreateSource, FileSteps, Step
<1>2. /\ UNCHANGED <<relations, disk, prepared>> /\ k.step = "create"
      /\ \A p \in Places : ~LinkTo(p, k.record.version)
  BY <1>1 DEF CreateSource, database, CallBacked
<1>3. PICK x : sources' = [sources EXCEPT ![k.record.version] = x]
  BY <1>1 DEF CreateSource, Version
<1>4. SameView /\ PlansKnow'
  BY <1>1, <1>2, <1>3, WritingASource DEF SameView, BackedInv, PlansKnow, Row
<1>5. PICK n : n = [k EXCEPT !.step = "fill"]
  OBVIOUS
<1>6. n.step = "fill" /\ n.goal = "deploy" /\ n.record = k.record
  BY <1>1, <1>5 DEF CallShapes
<1>7. call'[c] = n
  BY <1>1, <1>5 DEF CreateSource, Goto, TypeInv, CallsOK
<1>8. CallBacked(call[c])'
  BY <1>2, <1>6, <1>7 DEF CallBacked, LinkTo
<1>9. QED
  BY <1>1, <1>2, <1>4, <1>8, CallGoesOn

LEMMA FillSourceBacked ==
  ASSUME TypeInv, BackedInv, NEW c \in Callers, FillSource(c)
  PROVE  BackedInv'
<1>1. PICK k \in CallShapes :
        /\ k = call[c] /\ CallOK(k, sources) /\ k.goal = "deploy" /\ CallBacked(k)
        /\ k.record.version \in Versions /\ k.record.place \in Places /\ k.step # "idle"
        /\ \A e \in Callers : e # c => call'[e] = call[e]
  BY FileStepsOfDeployments DEF FillSource, FileSteps, Step
<1>2. /\ UNCHANGED <<relations, disk, prepared>> /\ k.step = "fill"
      /\ \A p \in Places : ~LinkTo(p, k.record.version)
      /\ UNCHANGED sources \/ \E x : sources' = [sources EXCEPT ![k.record.version] = x]
  BY <1>1 DEF FillSource, database, CallBacked, Version
<1>3. SameView /\ PlansKnow'
  BY <1>1, <1>2, WritingASource DEF SameView, BackedInv, PlansKnow, Row
<1>4. "stage" \in Steps
  BY DEF Steps
<1>5. CallBacked(call[c])'
  BY <1>1, <1>4, GotoBacked, FailBacked DEF FillSource
<1>6. QED
  BY <1>1, <1>2, <1>3, <1>5, CallGoesOn

LEMMA StageBacked ==
  ASSUME TypeInv, BackedInv, NEW c \in Callers, Stage(c)
  PROVE  BackedInv'
<1>1. PICK k \in CallShapes :
        /\ k = call[c] /\ CallOK(k, sources) /\ k.goal = "deploy" /\ CallBacked(k)
        /\ k.step # "idle" /\ \A e \in Callers : e # c => call'[e] = call[e]
  BY FileStepsOfDeployments DEF Stage, FileSteps, Step
<1>2. UNCHANGED <<relations, disk, sources, prepared>> /\ k.step = "stage"
  BY <1>1 DEF Stage, database, files
<1>3. SameView /\ PlansKnow'
  BY <1>2 DEF SameView, ContentAt, BackedInv, PlansKnow, Row
<1>4. CASE Fail(c)
  BY <1>1, <1>2, <1>3, <1>4, FailBacked, CallGoesOn
<1>5. CASE ~Fail(c)
  <2>1. PICK n : n = [k EXCEPT !.step = "publish", !.staged = sources[k.record.version]]
    OBVIOUS
  <2>2. n.step = "publish" /\ n.goal = "deploy"
    BY <1>1, <2>1 DEF CallShapes
  <2>3. call' = [call EXCEPT ![c] = n]
    BY <1>1, <1>5, <2>1 DEF Stage, Version, TypeInv, CallsOK
  <2>4. CallBacked(call[c])'
    BY <2>2, <2>3 DEF CallBacked, TypeInv, CallsOK
  <2>5. QED
    BY <1>1, <1>2, <1>3, <2>4, CallGoesOn
<1>6. QED
  BY <1>4, <1>5

LEMMA PublishBacked ==
  ASSUME Calm, TypeInv, BackedInv, NEW c \in Callers, Publish(c)
  PROVE  BackedInv'
<1>1. PICK k \in CallShapes :
        /\ k = call[c] /\ CallOK(k, sources) /\ k.goal = "deploy" /\ CallBacked(k)
        /\ k.record.version \in Versions /\ k.record.place \in Places /\ k.record.mode \in Modes
        /\ k.step # "idle" /\ \A e \in Callers : e # c => call'[e] = call[e]
  BY FileStepsOfDeployments DEF Publish, FileSteps, Step
<1>2. UNCHANGED <<relations, sources, prepared>> /\ k.step = "publish"
  BY <1>1 DEF Publish, database
<1>3. PlansKnow'
  BY <1>2 DEF BackedInv, PlansKnow, Row
<1>4. CASE UNCHANGED disk /\ Fail(c)
  <2>1. SameView
    BY <1>2, <1>4 DEF SameView, ContentAt
  <2>2. QED
    BY <1>1, <1>2, <1>3, <1>4, <2>1, FailBacked, CallGoesOn
<1>5. CASE ~Occupied(k.record.place) /\ ~(UNCHANGED disk /\ Fail(c))
  <2>1. PICK h : /\ h = IF k.record.mode = "copy" THEN Copy(k.staged) ELSE Link(k.record.version)
                 /\ disk' = [disk EXCEPT ![k.record.place] = h]
                 /\ IF k.record.mode = "copy" \/ sources[k.record.version] = k.staged
                    THEN Goto(c, "record") ELSE Fail(c)
    BY <1>1, <1>5 DEF Publish, Place, Version
  <2>2. /\ disk'[k.record.place] = h
        /\ \A p \in Places : p # k.record.place => disk'[p] = disk[p]
    BY <2>1, <1>1 DEF TypeInv, FilesOK
  <2>3. CopiesOnly => h = Copy(k.staged) /\ h.kind # "link"
    BY <1>1, <2>1 DEF CopiesOnly, Copy
  <2>4. RowsStay /\ RowsApart'
    BY <1>2 DEF RowsStay, BackedInv, RowsApart
  <2>5. \A p \in Places : Occupied(p) => Occupied(p)' /\ ContentAt(p)' = ContentAt(p)
    BY <1>2, <1>5, <2>2 DEF Occupied, ContentAt
  <2>6. TreesStay
    BY <2>5 DEF TreesStay
  <2>7. OneCaller \/ NoNewLinks
    BY <1>1, <2>2, <2>3 DEF Calm, NoNewLinks
  <2>8. \A e \in Callers : e # c => CallBacked(call[e])'
    BY <1>1, <2>4, <2>6, <2>7, OthersBacked
  <2>9. CallBacked(call[c])'
    <3>1. CASE Fail(c)
      BY <1>1, <3>1, FailBacked
    <3>2. CASE Goto(c, "record") /\ (k.record.mode = "copy" \/ sources[k.record.version] = k.staged)
      <4>1. Occupied(k.record.place)' /\ ContentAt(k.record.place)' = k.staged
        BY <1>2, <2>1, <2>2, <3>2 DEF Occupied, ContentAt, Copy, Link
      <4>2. PICK n : n = [k EXCEPT !.step = "record"]
        OBVIOUS
      <4>3. n.step = "record" /\ n.goal = "deploy" /\ n.record = k.record /\ n.staged = k.staged
        BY <1>1, <4>2 DEF CallShapes
      <4>4. call'[c] = n
        BY <1>1, <3>2, <4>2 DEF Goto, TypeInv, CallsOK
      <4>5. QED
        BY <4>1, <4>3, <4>4 DEF CallBacked, Occupied, ContentAt
    <3>3. QED
      BY <2>1, <3>1, <3>2
  <2>10. Modes \subseteq {"copy"} => NoLinks'
    <3>1. ASSUME Modes \subseteq {"copy"} PROVE h.kind # "link"
      BY <1>1, <2>1, <3>1 DEF Copy
    <3>2. QED
      BY <2>2, <3>1 DEF BackedInv, NoLinks
  <2>11. ASSUME NEW d \in Deployments, Active(d)'
         PROVE  Owned(relations[d])' \/ \E e \in Callers : Leaving(d, call[e])'
    <3>1. Active(d)
      BY <1>2, <2>11 DEF Active
    <3>2. CASE Owned(relations[d])
      BY <1>2, <2>5, <3>2, ConstantsAssumption DEF Owned, TreeHash, Occupied
    <3>3. ASSUME NEW e \in Callers, Leaving(d, call[e]) PROVE Leaving(d, call[e])'
      BY <1>1, <1>2, <3>3 DEF Leaving
    <3>4. QED
      BY <3>1, <3>2, <3>3 DEF BackedInv
  <2>12. QED
    BY <1>3, <2>4, <2>8, <2>9, <2>10, <2>11 DEF BackedInv
<1>6. QED
  BY <1>1, <1>4, <1>5, NobodyDisturbs DEF Publish, Place

LEMMA InsertRelationBacked ==
  ASSUME Calm, TypeInv, BackedInv, NEW c \in Callers, InsertRelation(c)
  PROVE  BackedInv'
<1>1. PICK k \in CallShapes : k = call[c] /\ CallOK(k, sources)
  BY CallNow
<1>2. /\ k.step = "record" /\ k.goal = "deploy" /\ Deploying(k, sources) /\ CallBacked(k)
      /\ k.record.place \in Places /\ \A e \in Callers : e # c => call'[e] = call[e]
  BY <1>1, OthersWait
  DEF InsertRelation, CallOK, Deploying, Removing, Reconciling, BackedInv, Step
<1>3. UNCHANGED <<disk, sources, prepared>>
  BY DEF InsertRelation, files
<1>4. PICK r : r = [k.record EXCEPT !.expected = TreeHash(k.staged),
                                    !.observed = TreeHash(k.staged)]
  OBVIOUS
<1>5. r.place = k.record.place /\ r.expected = TreeHash(k.staged) /\ r.state = k.record.state
  BY <1>4 DEF CallShapes, Relation
<1>6. CASE UNCHANGED relations /\ Fail(c)
  <2>1. SameView /\ PlansKnow'
    BY <1>3, <1>6 DEF SameView, ContentAt, BackedInv, PlansKnow, Row
  <2>2. QED
    BY <1>1, <1>2, <1>6, <2>1, FailBacked, CallGoesOn
<1>7. CASE MayInsert(r) /\ Goto(c, "next") /\ \E d \in Deployments :
             relations[d] = NoRelation /\ relations' = [relations EXCEPT ![d] = r]
  <2>1. PICK d \in Deployments :
          relations[d] = NoRelation /\ relations' = [relations EXCEPT ![d] = r]
    BY <1>7
  <2>2. /\ relations'[d] = r /\ relations[d].state = "absent" /\ ~Active(d)
        /\ \A e \in Deployments : e # d => relations'[e] = relations[e]
    BY <2>1 DEF TypeInv, RowsOK, NoRelation, Active
  <2>3. RowsStay
    BY <2>2 DEF RowsStay
  <2>4. RowsApart'
    <3>1. r.place \in RegisteredPlaces /\ \A e \in Deployments : relations[e].place # r.place
      BY <1>7 DEF MayInsert
    <3>2. QED
      BY <2>2, <3>1 DEF BackedInv, RowsApart
  <2>5. PlansKnow'
    BY <1>3, <2>2 DEF BackedInv, PlansKnow, Row, TypeInv, PlansOK, PlanShapes, Records
  <2>6. /\ Modes \subseteq {"copy"} => NoLinks'
        /\ TreesStay /\ NoNewLinks
    BY <1>3 DEF BackedInv, NoLinks, TreesStay, NoNewLinks, Occupied, ContentAt
  <2>7. "next" \in Steps
    BY DEF Steps
  <2>8. CallBacked(call[c])'
    BY <1>1, <1>2, <1>7, <2>7, GotoBacked
  <2>9. \A e \in Callers : CallBacked(call[e])'
    BY <1>2, <2>3, <2>6, <2>8, OthersBacked
  <2>10. ASSUME NEW e \in Deployments, Active(e)'
         PROVE  Owned(relations[e])' \/ \E f \in Callers : Leaving(e, call[f])'
    <3>1. CASE e = d
      <4>1. ~HasRow(k.record.place)
        BY <1>5, <1>7 DEF MayInsert, HasRow
      <4>2. Occupied(k.record.place) /\ ContentAt(k.record.place) = k.staged
        BY <1>2, <4>1 DEF CallBacked
      <4>3. r.place \in RegisteredPlaces
        BY <1>7 DEF MayInsert
      <4>4. Owned(relations[e])'
        BY <1>3, <1>5, <2>2, <3>1, <4>2, <4>3 DEF Owned, Occupied, ContentAt, TreeHash
      <4>5. QED
        BY <4>4
    <3>2. CASE e # d
      <4>1. Active(e) /\ relations'[e] = relations[e]
        BY <2>2, <2>10, <3>2 DEF Active
      <4>2. CASE Owned(relations[e])
        BY <1>3, <4>1, <4>2 DEF Owned, Occupied, ContentAt, TreeHash
      <4>3. ASSUME NEW f \in Callers, Leaving(e, call[f]) PROVE Leaving(e, call[f])'
        BY <1>1, <1>2, <4>3 DEF Leaving
      <4>4. QED
        BY <4>1, <4>2, <4>3 DEF BackedInv
    <3>3. QED
      BY <3>1, <3>2
  <2>11. QED
    BY <2>4, <2>5, <2>6, <2>9, <2>10 DEF BackedInv
<1>8. QED
  BY <1>1, <1>4, <1>6, <1>7 DEF InsertRelation

\* What a step of a removal is.
LEMMA RemovalSteps ==
  ASSUME TypeInv, BackedInv, NEW c \in Callers, Step(c),
         call[c].step \in {"decide", "verify", "unlink", "mark"}
  PROVE  \E k \in CallShapes :
           /\ k = call[c] /\ Removing(k) /\ k.goal = "undeploy" /\ CallBacked(k)
           /\ \A e \in Callers : e # c => call'[e] = call[e]
<1>1. PICK k \in CallShapes : k = call[c] /\ CallOK(k, sources)
  BY CallNow
<1>2. CallBacked(k) /\ k.step # "idle"
  BY <1>1 DEF BackedInv
<1>3. k.goal \in {"deploy", "undeploy"}
  BY <1>2 DEF CallBacked
<1>4. Removing(k)
  BY <1>1, <1>3 DEF CallOK, Deploying, Reconciling, FileSteps
<1>5. k.goal = "undeploy"
  BY <1>3, <1>4 DEF Removing
<1>6. QED
  BY <1>1, <1>2, <1>4, <1>5, OthersWait

LEMMA DecideBacked ==
  ASSUME TypeInv, BackedInv, NEW c \in Callers, Decide(c)
  PROVE  BackedInv'
<1>1. PICK k \in CallShapes :
        /\ k = call[c] /\ Removing(k) /\ k.goal = "undeploy" /\ CallBacked(k)
        /\ \A e \in Callers : e # c => call'[e] = call[e]
  BY RemovalSteps DEF Decide, Step
<1>2. k.step = "decide" /\ UNCHANGED <<relations, disk, sources>>
  BY <1>1 DEF Decide, database, files
<1>3. SameView
  BY <1>2 DEF SameView, ContentAt
<1>4. PlansKnow'
  BY <1>2, ClosedBacked DEF Decide, BackedInv
<1>5. ASSUME NEW next \in k.todo,
             call' = [call EXCEPT ![c] =
               [@ EXCEPT !.todo = call[c].todo \ {next}, !.id = next.id, !.record = next.record,
                  !.decision = next.decision,
                  !.step = IF next.decision = "remove_owned" THEN "verify" ELSE "mark"]]
      PROVE  CallBacked(call[c])'
  <2>1. PICK n : n = [k EXCEPT !.todo = k.todo \ {next}, !.id = next.id, !.record = next.record,
                        !.decision = next.decision,
                        !.step = IF next.decision = "remove_owned" THEN "verify" ELSE "mark"]
    OBVIOUS
  <2>2. /\ n.step = (IF next.decision = "remove_owned" THEN "verify" ELSE "mark")
        /\ n.goal = "undeploy" /\ n.todo = k.todo \ {next} /\ n.id = next.id
        /\ n.record = next.record /\ n.decision = next.decision
    BY <1>1, <2>1 DEF CallShapes
  <2>3. call'[c] = n
    BY <1>1, <1>5, <2>1 DEF TypeInv, CallsOK
  <2>4. \A t \in k.todo : Row(t.id, t.record)
    BY <1>1, <1>2 DEF CallBacked
  <2>5. \A t \in k.todo : Row(t.id, t.record)'
    BY <1>2, <2>4 DEF Row
  <2>6. QED
    BY <2>2, <2>3, <2>5 DEF CallBacked, Row
<1>6. CallBacked(call[c])'
  BY <1>1, <1>5, FinishBacked DEF Decide
<1>7. QED
  BY <1>1, <1>2, <1>3, <1>4, <1>6, CallGoesOn

LEMMA VerifyBacked ==
  ASSUME TypeInv, BackedInv, NEW c \in Callers, Verify(c)
  PROVE  BackedInv'
<1>1. PICK k \in CallShapes :
        /\ k = call[c] /\ Removing(k) /\ k.goal = "undeploy" /\ CallBacked(k)
        /\ \A e \in Callers : e # c => call'[e] = call[e]
  BY RemovalSteps DEF Verify, Step
<1>2. k.step = "verify" /\ UNCHANGED <<relations, disk, sources, prepared>>
  BY <1>1 DEF Verify, database, files
<1>3. SameView /\ PlansKnow'
  BY <1>2 DEF SameView, ContentAt, BackedInv, PlansKnow, Row
<1>4. ASSUME Goto(c, "unlink") PROVE CallBacked(call[c])'
  <2>1. PICK n : n = [k EXCEPT !.step = "unlink"]
    OBVIOUS
  <2>2. /\ n.step = "unlink" /\ n.goal = "undeploy" /\ n.todo = k.todo /\ n.id = k.id
        /\ n.record = k.record /\ n.decision = k.decision
    BY <1>1, <2>1 DEF CallShapes
  <2>3. call'[c] = n
    BY <1>1, <1>4, <2>1 DEF Goto, TypeInv, CallsOK
  <2>4. /\ \A t \in k.todo : Row(t.id, t.record)'
        /\ Row(k.id, k.record)' /\ k.decision = "remove_owned"
    BY <1>1, <1>2 DEF CallBacked, Row
  <2>5. QED
    BY <2>2, <2>3, <2>4 DEF CallBacked, Row
<1>5. CallBacked(call[c])'
  BY <1>4, FinishBacked DEF Verify
<1>6. QED
  BY <1>1, <1>2, <1>3, <1>5, CallGoesOn

LEMMA UnlinkBacked ==
  ASSUME Calm, TypeInv, BackedInv, NEW c \in Callers, Unlink(c)
  PROVE  BackedInv'
<1>1. PICK k \in CallShapes :
        /\ k = call[c] /\ Removing(k) /\ k.goal = "undeploy" /\ CallBacked(k)
        /\ \A e \in Callers : e # c => call'[e] = call[e]
  BY RemovalSteps DEF Unlink, Step
<1>2. /\ k.step = "unlink" /\ UNCHANGED <<relations, sources, prepared>>
      /\ k.record.place \in Places /\ k.id \in Deployments
      /\ Row(k.id, k.record) /\ k.decision = "remove_owned"
      /\ \A t \in k.todo : Row(t.id, t.record)
  BY <1>1 DEF Unlink, database, Removing, Full, CallBacked
<1>3. PlansKnow'
  BY <1>2 DEF BackedInv, PlansKnow, Row
<1>4. CASE UNCHANGED disk /\ Finish(c)
  <2>1. SameView
    BY <1>2, <1>4 DEF SameView, ContentAt
  <2>2. QED
    BY <1>1, <1>2, <1>3, <1>4, <2>1, FinishBacked, CallGoesOn
<1>5. CASE disk' = [disk EXCEPT ![k.record.place] = NoTree] /\ Goto(c, "mark")
  <2>1. PICK n : n = [k EXCEPT !.step = "mark"]
    OBVIOUS
  <2>2. /\ n.step = "mark" /\ n.goal = "undeploy" /\ n.todo = k.todo /\ n.id = k.id
        /\ n.record = k.record /\ n.decision = "remove_owned"
    BY <1>1, <1>2, <2>1 DEF CallShapes
  <2>3. call'[c] = n
    BY <1>1, <1>5, <2>1 DEF Goto, TypeInv, CallsOK
  <2>4. CallBacked(call[c])'
    BY <1>2, <2>2, <2>3 DEF CallBacked, Row
  <2>5. /\ disk'[k.record.place] = NoTree
        /\ \A p \in Places : p # k.record.place => disk'[p] = disk[p]
    BY <1>2, <1>5 DEF TypeInv, FilesOK
  <2>6. HasRow(k.record.place)
    BY <1>2 DEF HasRow, Row
  <2>7. RowsStay /\ NoNewLinks /\ RowsApart' /\ (Modes \subseteq {"copy"} => NoLinks')
    BY <1>2, <2>5 DEF RowsStay, NoNewLinks, NoTree, BackedInv, RowsApart, NoLinks
  <2>8. \A p \in Places : p # k.record.place =>
          Occupied(p)' = Occupied(p) /\ ContentAt(p)' = ContentAt(p)
    BY <1>2, <2>5 DEF Occupied, ContentAt
  <2>9. TreesStay
    BY <2>6, <2>8 DEF TreesStay
  <2>10. \A e \in Callers : CallBacked(call[e])'
    BY <1>1, <2>4, <2>7, <2>9, OthersBacked
  <2>11. ASSUME NEW d \in Deployments, Active(d)'
         PROVE  Owned(relations[d])' \/ \E e \in Callers : Leaving(d, call[e])'
    <3>1. Active(d)
      BY <1>2, <2>11 DEF Active
    <3>2. CASE relations[d].place = k.record.place
      <4>1. d = k.id
        BY <1>2, <3>1, <3>2 DEF Row, Active, BackedInv, RowsApart
      <4>2. Leaving(d, call[c])'
        BY <2>2, <2>3, <4>1 DEF Leaving
      <4>3. QED
        BY <4>2
    <3>3. CASE relations[d].place # k.record.place
      <4>1. CASE Owned(relations[d])
        <5>1. relations[d].place \in Places
          BY <4>1, ConstantsAssumption DEF Owned
        <5>2. Owned(relations[d])'
          BY <1>2, <2>8, <3>3, <4>1, <5>1 DEF Owned, TreeHash
        <5>3. QED
          BY <5>2
      <4>2. ASSUME NEW e \in Callers, Leaving(d, call[e]) PROVE Leaving(d, call[e])'
        BY <1>1, <1>2, <4>2 DEF Leaving
      <4>3. QED
        BY <3>1, <4>1, <4>2 DEF BackedInv
    <3>4. QED
      BY <3>2, <3>3
  <2>12. QED
    BY <1>3, <2>7, <2>10, <2>11 DEF BackedInv
<1>6. QED
  BY <1>1, <1>4, <1>5, NobodyDisturbs DEF Unlink, Place

LEMMA MarkBacked ==
  ASSUME TypeInv, BackedInv, NEW c \in Callers, Mark(c)
  PROVE  BackedInv'
<1>1. PICK k \in CallShapes :
        /\ k = call[c] /\ Removing(k) /\ k.goal = "undeploy" /\ CallBacked(k)
        /\ \A e \in Callers : e # c => call'[e] = call[e]
  BY RemovalSteps DEF Mark, Step
<1>2. /\ k.step = "mark" /\ UNCHANGED <<disk, sources, prepared>> /\ k.id \in Deployments
      /\ \A t \in k.todo : Row(t.id, t.record)
  BY <1>1 DEF Mark, files, Removing, CallBacked
<1>3. CASE ~Active(k.id)
  <2>1. Finish(c) /\ UNCHANGED relations
    BY <1>1, <1>3 DEF Mark
  <2>2. SameView /\ PlansKnow'
    BY <1>2, <2>1 DEF SameView, ContentAt, BackedInv, PlansKnow, Row
  <2>3. QED
    BY <1>1, <1>3, <2>1, <2>2, FinishBacked, CallGoesOn
<1>4. CASE Active(k.id)
  <2>1. PICK row \in Relation : row = relations[k.id] /\ row.state = "deployed"
    BY <1>2, <1>4 DEF Active, TypeInv, RowsOK
  <2>2. PICK r : r = IF k.decision = "detach" THEN [row EXCEPT !.managed = FALSE]
                     ELSE [row EXCEPT !.state = "removed"]
    OBVIOUS
  <2>3. relations' = [relations EXCEPT ![k.id] = r] /\ Goto(c, "decide")
    BY <1>1, <1>4, <2>1, <2>2 DEF Mark
  <2>4. /\ r.place = row.place /\ r.expected = row.expected /\ r.state # "absent"
        /\ r.state = "deployed" <=> k.decision = "detach"
    BY <2>1, <2>2 DEF Relation
  <2>5. /\ relations'[k.id] = r
        /\ \A d \in Deployments : d # k.id => relations'[d] = relations[d]
    BY <1>2, <2>3 DEF TypeInv, RowsOK
  <2>6. \A d \in Deployments :
          /\ relations'[d].place = relations[d].place
          /\ relations'[d].expected = relations[d].expected
          /\ relations[d].state # "absent" <=> relations'[d].state # "absent"
    BY <2>1, <2>4, <2>5
  <2>7. RowsStay /\ RowsApart'
    BY <2>6 DEF RowsStay, BackedInv, RowsApart
  <2>8. TreesStay /\ NoNewLinks /\ (Modes \subseteq {"copy"} => NoLinks')
    BY <1>2 DEF TreesStay, NoNewLinks, BackedInv, NoLinks, Occupied, ContentAt
  <2>9. PlansKnow'
    <3>1. \A op \in Operations : \A d \in DOMAIN prepared[op].records : d \in Deployments
      BY DEF TypeInv, PlansOK, PlanShapes, Records
    <3>2. QED
      BY <1>2, <2>6, <3>1 DEF BackedInv, PlansKnow, Row
  <2>10. CallBacked(call[c])'
    <3>1. PICK n : n = [k EXCEPT !.step = "decide"]
      OBVIOUS
    <3>2. n.step = "decide" /\ n.goal = "undeploy" /\ n.todo = k.todo
      BY <1>1, <3>1 DEF CallShapes
    <3>3. call'[c] = n
      BY <1>1, <2>3, <3>1 DEF Goto, TypeInv, CallsOK
    <3>4. \A t \in k.todo : t.id \in Deployments
      BY <1>1 DEF Removing, FullRemovals, Removals
    <3>5. \A t \in k.todo : Row(t.id, t.record)'
      BY <1>2, <2>6, <3>4 DEF Row
    <3>6. QED
      BY <3>2, <3>3, <3>5 DEF CallBacked, Row
  <2>11. \A e \in Callers : CallBacked(call[e])'
    BY <1>1, <2>7, <2>8, <2>10, OthersBacked
  <2>12. ASSUME NEW d \in Deployments, Active(d)'
         PROVE  Owned(relations[d])' \/ \E e \in Callers : Leaving(d, call[e])'
    <3>1. Active(d) /\ (d = k.id => k.decision = "detach")
      BY <2>1, <2>4, <2>5, <2>12 DEF Active
    <3>2. CASE Owned(relations[d])
      <4>1. Owned(relations[d])'
        BY <1>2, <2>6, <3>2 DEF Owned, Occupied, ContentAt, TreeHash
      <4>2. QED
        BY <4>1
    <3>3. ASSUME NEW e \in Callers, Leaving(d, call[e]) PROVE Leaving(d, call[e])'
      <4>1. e # c
        BY <1>1, <3>1, <3>3 DEF Leaving
      <4>2. QED
        BY <1>1, <3>3, <4>1 DEF Leaving
    <3>4. QED
      BY <3>1, <3>2, <3>3 DEF BackedInv
  <2>13. QED
    BY <2>7, <2>8, <2>9, <2>11, <2>12 DEF BackedInv
<1>5. QED
  BY <1>3, <1>4

\* No skill is deleted and no target is out of step, so none of these steps is taken.
LEMMA NothingElseRuns ==
  ASSUME TypeInv, BackedInv, NEW c \in Callers
  PROVE  ~(\/ VerifyIdentity(c) \/ DeleteCheck(c) \/ DeleteRows(c) \/ DeleteStore(c)
           \/ Capture(c) \/ KeepIndependent(c) \/ InspectAgain(c) \/ UpdateFacts(c))
<1>1. PICK k \in CallShapes : k = call[c] /\ CallOK(k, sources)
  BY CallNow
<1>2. k.step # "idle" => k.goal \in {"deploy", "undeploy"}
  BY <1>1 DEF BackedInv, CallBacked
<1>3. k.step \notin {"replace", "capture", "keep", "inspect"} \union DeleteSteps
  BY <1>1, <1>2 DEF CallOK, Deploying, Removing, Reconciling, FileSteps, DeleteSteps
<1>4. k.step = "record" => k.goal = "deploy"
  BY <1>1, <1>2 DEF CallOK, Deploying, Removing, Reconciling, DeleteSteps
<1>5. QED
  BY <1>1, <1>3, <1>4 DEF VerifyIdentity, DeleteCheck, DeleteRows, DeleteStore, Capture,
     KeepIndependent, InspectAgain, UpdateFacts, DeleteSteps

LEMMA BackedStep == ASSUME Calm PROVE TypeInv /\ BackedInv /\ [Next]_vars => BackedInv'
<1> SUFFICES ASSUME TypeInv, BackedInv, [Next]_vars PROVE BackedInv'
  OBVIOUS
<1>1. CASE UNCHANGED vars
  BY <1>1, OnlyPlansChange DEF vars, database, files, BackedInv, PlansKnow, Row
<1>2. ASSUME NEW op \in Operations, Prepare(op) PROVE BackedInv'
  BY <1>2, PrepareBacked
<1>3. ASSUME NEW c \in Callers, Request(c) PROVE BackedInv'
  BY <1>3, RequestBacked
<1>4. ASSUME NEW c \in Callers, Step(c) PROVE BackedInv'
  BY <1>4, NextTargetBacked, FindSourceBacked, CreateSourceBacked, FillSourceBacked,
     StageBacked, PublishBacked, InsertRelationBacked, DecideBacked, VerifyBacked,
     UnlinkBacked, MarkBacked, NothingElseRuns
  DEF Step
<1>5. ~World
  BY NobodyDisturbs
<1>6. QED
  BY <1>1, <1>2, <1>3, <1>4, <1>5 DEF Next

\* While nobody edits, nothing fails and no skill is deleted, what an active relation expects
\* is at its place unless a call is just working on that relation: with one command at a time
\* for every request, with any number of them for copies that are deployed and undeployed
\* (DeploymentFilesystem::apply before insert_sync, remove_target before mark_removed_sync).
THEOREM ActiveRelationsKeepTheirTree == Calm => (Spec => []ActiveRelationsAreBacked)
<1> SUFFICES ASSUME Calm PROVE Spec => []ActiveRelationsAreBacked
  OBVIOUS
<1>1. Init => BackedInv
  <2> SUFFICES ASSUME Init PROVE BackedInv
    OBVIOUS
  <2>1. \A d \in Deployments : relations[d].state = "absent" /\ ~Active(d)
    BY DEF Init, NoRelation, Active
  <2>2. \A op \in Operations : DOMAIN prepared[op].records = {}
    BY NoRecords DEF Init, NoPlan, Plan
  <2>3. \A p \in Places : disk[p].kind = "none"
    BY DEF Init, NoTree
  <2>4. \A c \in Callers : call[c].step = "idle"
    BY NothingInHand DEF Init
  <2>5. \A c \in Callers : CallBacked(call[c])
    BY <2>4 DEF CallBacked
  <2>6. QED
    BY <2>1, <2>2, <2>3, <2>5 DEF BackedInv, RowsApart, PlansKnow, NoLinks
<1>2. TypeInv /\ BackedInv /\ [Next]_vars => BackedInv'
  BY BackedStep
<1>3. BackedInv => ActiveRelationsAreBacked
  BY OwnedIsUnchanged DEF BackedInv, ActiveRelationsAreBacked, Leaving
<1>4. QED
  BY <1>1, <1>2, <1>3, InvAlways, PTL DEF Spec

=============================================================================
