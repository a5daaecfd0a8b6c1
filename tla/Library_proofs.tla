---------------------------- MODULE Library_proofs ----------------------------
(***************************************************************************)
(* Proofs about the library, for every set of skills, trees, sources and   *)
(* prepared imports, and for every choice of failing steps.                *)
(***************************************************************************)
EXTENDS Library, TLAPS

-----------------------------------------------------------------------------
(* Types                                                                   *)

\* A command works on one skill.
SkillNamed(k) == k.op # "none" => k.skill \in Skills

TypeInv == TypeOK /\ \A c \in Callers : SkillNamed(call[c])

LEMMA IdleTyped == Idle \in Calls /\ SkillNamed(Idle)
<1>1. Snapshot({}, {}, {}, NoPointers, NoRecords) \in
        [catalog : SUBSET Skills, behind : SUBSET Skills, versions : SUBSET Versions,
         current : [Skills -> Trees \union {None}], portable : [Skills -> Records]]
  BY DEF Snapshot, NoRecords, NoPointers, Records
<1>2. NoRecords \in [Skills -> Records] /\ <<>> \in Seq(StepNames) /\ 0 \in 0..MaxFaults
  BY ConstantsAssumption DEF NoRecords, Records
<1>3. QED
  BY <1>1, <1>2 DEF Idle, Calls, SkillNamed

LEMMA ScriptTyped == ASSUME NEW op \in Commands PROVE Script[op] \in Seq(StepNames)
<1>1. Script["create"] \in Seq(StepNames)
  BY DEF Script, StepNames, DatabaseSteps
<1>2. Script["import"] \in Seq(StepNames)
  BY DEF Script, StepNames, DatabaseSteps
<1>3. Script["choose"] \in Seq(StepNames)
  BY DEF Script, StepNames, DatabaseSteps
<1>4. Script["save"] \in Seq(StepNames)
  BY DEF Script, StepNames, DatabaseSteps
<1>5. Script["markdown"] \in Seq(StepNames)
  BY DEF Script, StepNames, DatabaseSteps
<1>6. Script["update"] \in Seq(StepNames)
  BY DEF Script, StepNames, DatabaseSteps
<1>7. Script["relink"] \in Seq(StepNames)
  BY DEF Script, StepNames, DatabaseSteps
<1>8. Script["rename"] \in Seq(StepNames)
  BY DEF Script, StepNames, DatabaseSteps
<1>9. Script["delete"] \in Seq(StepNames)
  BY DEF Script, StepNames, DatabaseSteps
<1>10. QED
  BY <1>1, <1>2, <1>3, <1>4, <1>5, <1>6, <1>7, <1>8, <1>9 DEF Commands

LEMMA UndoTyped ==
  ASSUME NEW k \in Calls, k.steps # <<>>
  PROVE  Undo(k) \in Seq(StepNames) /\ CleanupFails(k) \in Seq(StepNames)
<1>1. Cleanup \in Seq(StepNames)
  BY DEF Cleanup, StepNames, DatabaseSteps
<1>2. /\ <<"repoint">> \in Seq(StepNames) /\ <<"rerow">> \in Seq(StepNames)
      /\ <<"rerow", "read", "rerecord">> \in Seq(StepNames)
      /\ <<"discard">> \in Seq(StepNames) /\ <<>> \in Seq(StepNames)
  BY DEF StepNames, DatabaseSteps
<1>3. Discarded(k) \in Seq(StepNames)
  BY <1>2 DEF Discarded
<1>4. Tail(k.steps) \in Seq(StepNames)
  BY DEF Calls
<1>5. /\ Discarded(k) \o Discarded(k) \in Seq(StepNames)
      /\ Cleanup \o Discarded(k) \in Seq(StepNames)
      /\ <<"repoint">> \o Discarded(k) \in Seq(StepNames)
  BY <1>1, <1>2, <1>3
<1>6. CleanupFails(k) \in Seq(StepNames)
  BY <1>2, <1>3, <1>4 DEF CleanupFails
<1>7. Undo(k) \in Seq(StepNames)
  BY <1>1, <1>2, <1>3, <1>5 DEF Undo
<1>8. QED
  BY <1>6, <1>7

\* Replacing one call by a well-formed one keeps all calls well-formed.
LEMMA CallUpdate ==
  ASSUME TypeInv, NEW c \in Callers, NEW k \in Calls, SkillNamed(k),
         call' = [call EXCEPT ![c] = k]
  PROVE  call' \in [Callers -> Calls] /\ \A d \in Callers : SkillNamed(call'[d])
  BY DEF TypeInv, TypeOK

LEMMA AdvancedTyped ==
  ASSUME NEW k \in Calls, SkillNamed(k), k.steps # <<>>
  PROVE  Advanced(k) \in Calls /\ SkillNamed(Advanced(k))
<1>1. Tail(k.steps) \in Seq(StepNames)
  BY DEF Calls
<1>2. QED
  BY <1>1 DEF Advanced, Calls, SkillNamed

LEMMA AdvanceTyped ==
  ASSUME TypeInv, NEW c \in Callers, call[c].steps # <<>>, Advance(c)
  PROVE  call' \in [Callers -> Calls] /\ \A d \in Callers : SkillNamed(call'[d])
  BY AdvancedTyped, CallUpdate DEF Advance, TypeInv, TypeOK

\* A command that starts is well-formed.
LEMMA BeginsTyped ==
  ASSUME TypeInv, NEW c \in Callers, NEW op \in Commands, NEW s \in Skills,
         NEW fields \in Calls, Begins(c, op, s, fields)
  PROVE  TypeInv'
<1> DEFINE k == [fields EXCEPT !.op = op, !.skill = s, !.steps = Script[op],
                    !.left = IF fields.tree = None THEN {} ELSE fields.tree,
                    !.before = Snapshot(catalog, behind, versions, current, portable)]
<1>1. Script[op] \in Seq(StepNames)
  BY ScriptTyped
<1>2. (IF fields.tree = None THEN {} ELSE fields.tree) \in SUBSET Objects
  BY DEF Calls, Objects
<1>3. Snapshot(catalog, behind, versions, current, portable) \in
        [catalog : SUBSET Skills, behind : SUBSET Skills, versions : SUBSET Versions,
         current : [Skills -> Trees \union {None}], portable : [Skills -> Records]]
  BY DEF Snapshot, TypeInv, TypeOK
<1>4. k \in Calls /\ SkillNamed(k)
  BY <1>1, <1>2, <1>3 DEF Calls, SkillNamed
<1>5. call' = [call EXCEPT ![c] = k]
  BY DEF Begins
<1>6. call' \in [Callers -> Calls] /\ \A d \in Callers : SkillNamed(call'[d])
  BY <1>4, <1>5, CallUpdate
<1>7. QED
  BY <1>6 DEF TypeInv, TypeOK, Begins, database, store, records, world

\* A call that discards nothing.
Quiet == {k \in Calls : k.sweep = {} /\ k.doomed = None}

LEMMA IdleQuiet == Idle \in Quiet
  BY IdleTyped DEF Quiet, Idle

\* What is known when a command starts: a new skill has left no trace, an existing one has
\* a current version, and the call remembers it.
Prepared(op, s, fields) ==
  /\ fields.error = FALSE /\ fields.created = FALSE /\ fields.faults = 0
  /\ IF op \in {"create", "import"} THEN fields.previous = None /\ Fresh(s)
     ELSE Existing(s) /\ (op # "update" => fields.previous = current[s])
  /\ op = "rename" => fields.tree = current[s]
  /\ op \in {"choose", "save", "markdown"} => fields.tree \in Trees

\* What a command starts with is well-formed and prepared.
LEMMA StartPrepared ==
  ASSUME TypeInv, NEW c \in Callers, Start(c)
  PROVE  \E s \in Skills, op \in Commands, fields \in Quiet :
           Begins(c, op, s, fields) /\ Prepared(op, s, fields)
<1>1. PICK s \in Skills :
        \/ \E src \in Sources : Create(c, s, src) \/ RelinkSource(c, s, src)
        \/ \E p \in Plans : CommitImport(c, s, p)
        \/ \E t \in Trees : SetCurrentVersion(c, s, t) \/ SaveSkillContent(c, s, t)
        \/ \E t, u \in Trees : SaveMarkdownContent(c, s, t, u)
        \/ ApplySourceUpdate(c, s) \/ UpdateCatalogSkill(c, s) \/ DeleteSkill(c, s)
  BY DEF Start
<1>2. /\ "create" \in Commands /\ "import" \in Commands /\ "choose" \in Commands
      /\ "save" \in Commands /\ "markdown" \in Commands /\ "update" \in Commands
      /\ "relink" \in Commands /\ "rename" \in Commands /\ "delete" \in Commands
  BY DEF Commands
<1>3. current[s] \in Trees \union {None}
  BY DEF TypeInv, TypeOK
<1>4. CASE \E src \in Sources : Create(c, s, src)
  <2>1. PICK src \in Sources : Begins(c, "create", s, [Idle EXCEPT !.source = src])
    BY <1>4 DEF Create
  <2>2. [Idle EXCEPT !.source = src] \in Quiet
    BY IdleQuiet DEF Calls, Quiet
  <2>3. Fresh(s) /\ Prepared("create", s, [Idle EXCEPT !.source = src])
    BY <1>4 DEF Create, Prepared, Idle
  <2>4. QED
    BY <1>2, <2>1, <2>2, <2>3
<1>5. CASE \E src \in Sources : RelinkSource(c, s, src)
  <2>1. PICK src \in Sources :
          Begins(c, "relink", s, [Idle EXCEPT !.source = src, !.previous = current[s]])
    BY <1>5 DEF RelinkSource
  <2>2. [Idle EXCEPT !.source = src, !.previous = current[s]] \in Quiet
    BY <1>3, IdleQuiet DEF Calls, Quiet
  <2>3. Prepared("relink", s, [Idle EXCEPT !.source = src, !.previous = current[s]])
    BY <1>5 DEF RelinkSource, Prepared, Idle
  <2>4. QED
    BY <1>2, <2>1, <2>2, <2>3
<1>6. CASE \E p \in Plans : CommitImport(c, s, p)
  <2>1. PICK p \in Plans :
          /\ plans[p] # None
          /\ Begins(c, "import", s, [Idle EXCEPT !.source = plans[p], !.plan = p])
    BY <1>6 DEF CommitImport
  <2>2. plans[p] \in Sources
    BY <2>1 DEF TypeInv, TypeOK
  <2>3. [Idle EXCEPT !.source = plans[p], !.plan = p] \in Quiet
    BY <2>2, IdleQuiet DEF Calls, Quiet
  <2>4. Prepared("import", s, [Idle EXCEPT !.source = plans[p], !.plan = p])
    BY <1>6 DEF CommitImport, Prepared, Idle
  <2>5. QED
    BY <1>2, <2>1, <2>3, <2>4
<1>7. CASE \E t \in Trees : SetCurrentVersion(c, s, t) \/ SaveSkillContent(c, s, t)
  <2>1. PICK t \in Trees :
          \/ Begins(c, "choose", s, [Idle EXCEPT !.tree = t, !.previous = current[s]])
          \/ Begins(c, "save", s, [Idle EXCEPT !.tree = t, !.previous = current[s]])
    BY <1>7 DEF SetCurrentVersion, SaveSkillContent
  <2>2. [Idle EXCEPT !.tree = t, !.previous = current[s]] \in Quiet
    BY <1>3, IdleQuiet DEF Calls, Quiet
  <2>3. /\ Prepared("choose", s, [Idle EXCEPT !.tree = t, !.previous = current[s]])
        /\ Prepared("save", s, [Idle EXCEPT !.tree = t, !.previous = current[s]])
    BY <1>7 DEF SetCurrentVersion, SaveSkillContent, Prepared, Idle
  <2>4. QED
    BY <1>2, <2>1, <2>2, <2>3
<1>8. CASE \E t, u \in Trees : SaveMarkdownContent(c, s, t, u)
  <2>1. PICK t \in Trees, u \in Trees :
          /\ Begins(c, "markdown", s, [Idle EXCEPT !.tree = u, !.previous = t])
          /\ Existing(s) /\ current[s] = t
    BY <1>8 DEF SaveMarkdownContent
  <2>2. [Idle EXCEPT !.tree = u, !.previous = t] \in Quiet
    BY IdleQuiet DEF Calls, Quiet
  <2>3. Prepared("markdown", s, [Idle EXCEPT !.tree = u, !.previous = t])
    BY <2>1 DEF Prepared, Idle
  <2>4. QED
    BY <1>2, <2>1, <2>2, <2>3
<1>9. CASE ApplySourceUpdate(c, s)
  <2>1. Prepared("update", s, Idle)
    BY <1>9 DEF ApplySourceUpdate, Prepared, Idle
  <2>2. QED
    BY <1>2, <1>9, <2>1, IdleQuiet DEF ApplySourceUpdate
<1>10. CASE UpdateCatalogSkill(c, s) \/ DeleteSkill(c, s)
  <2>1. /\ [Idle EXCEPT !.tree = current[s], !.previous = current[s]] \in Quiet
        /\ [Idle EXCEPT !.previous = current[s]] \in Quiet
    BY <1>3, IdleQuiet DEF Calls, Quiet
  <2>2. CASE UpdateCatalogSkill(c, s)
    <3>1. Prepared("rename", s, [Idle EXCEPT !.tree = current[s], !.previous = current[s]])
      BY <2>2 DEF UpdateCatalogSkill, Prepared, Idle
    <3>2. QED
      BY <1>2, <2>1, <2>2, <3>1 DEF UpdateCatalogSkill
  <2>3. CASE DeleteSkill(c, s)
    <3>1. Prepared("delete", s, [Idle EXCEPT !.previous = current[s]])
      BY <2>3 DEF DeleteSkill, Prepared, Idle
    <3>2. QED
      BY <1>2, <2>1, <2>3, <3>1 DEF DeleteSkill
  <2>4. QED
    BY <1>10, <2>2, <2>3
<1>11. QED
  BY <1>1, <1>4, <1>5, <1>6, <1>7, <1>8, <1>9, <1>10

LEMMA StartTyped ==
  ASSUME TypeInv, NEW c \in Callers, Start(c) PROVE TypeInv'
<1>1. PICK s \in Skills, op \in Commands, fields \in Quiet :
        Begins(c, op, s, fields) /\ Prepared(op, s, fields)
  BY StartPrepared
<1>2. QED
  BY <1>1, BeginsTyped DEF Quiet

\* A command at a step works on a skill and can go on.
LEMMA AtTyped ==
  ASSUME TypeInv, NEW c \in Callers, NEW step, At(c, step)
  PROVE  /\ call[c] \in Calls /\ call[c].skill \in Skills /\ call[c].op # "none"
         /\ Advanced(call[c]) \in Calls /\ SkillNamed(Advanced(call[c]))
<1>1. call[c] \in Calls /\ SkillNamed(call[c]) /\ call[c].steps # <<>> /\ call[c].op # "none"
  BY DEF TypeInv, TypeOK, At, Busy
<1>2. QED
  BY <1>1, AdvancedTyped DEF SkillNamed

\* Fields that steps change.
LEMMA SourceTyped ==
  ASSUME NEW k \in Calls, SkillNamed(k), NEW objs \in SUBSET Objects,
         NEW src \in Sources, NEW t \in Trees
  PROVE  /\ [k EXCEPT !.source = src, !.tree = t, !.left = objs] \in Calls
         /\ SkillNamed([k EXCEPT !.source = src, !.tree = t, !.left = objs])
  BY DEF Calls, SkillNamed

LEMMA CreatedTyped ==
  ASSUME NEW k \in Calls, SkillNamed(k), NEW b \in BOOLEAN
  PROVE  [k EXCEPT !.created = b] \in Calls /\ SkillNamed([k EXCEPT !.created = b])
  BY DEF Calls, SkillNamed

LEMMA SweepFieldsTyped ==
  ASSUME NEW k \in Calls, SkillNamed(k), NEW objs \in SUBSET Objects
  PROVE  /\ [k EXCEPT !.left = objs, !.sweep = objs] \in Calls
         /\ SkillNamed([k EXCEPT !.left = objs, !.sweep = objs])
  BY DEF Calls, SkillNamed

LEMMA ScanTyped == ASSUME TypeInv, NEW c \in Callers, Scan(c) PROVE TypeInv'
<1> DEFINE src == IF call[c].op = "update" THEN link[call[c].skill] ELSE call[c].source
           k == [Advanced(call[c]) EXCEPT !.source = src, !.tree = upstream[src],
                                          !.left = upstream[src]]
<1>1. /\ At(c, "scan") /\ src # None /\ call' = [call EXCEPT ![c] = k]
      /\ UNCHANGED <<database, store, records, plans, lock, world>>
  BY DEF Scan
<1>2. /\ call[c] \in Calls /\ call[c].skill \in Skills
      /\ Advanced(call[c]) \in Calls /\ SkillNamed(Advanced(call[c]))
  BY <1>1, AtTyped
<1>3. src \in Sources
  BY <1>1, <1>2 DEF Calls, TypeInv, TypeOK
<1>4. upstream[src] \in Trees /\ upstream[src] \in SUBSET Objects
  BY <1>3 DEF TypeInv, TypeOK, Objects
<1>5. k \in Calls /\ SkillNamed(k)
  BY <1>2, <1>3, <1>4, SourceTyped
<1>6. QED
  BY <1>1, <1>5, CallUpdate DEF TypeInv, TypeOK, database, store, records, world

LEMMA CaptureTyped ==
  ASSUME TypeInv, NEW c \in Callers, Put(c) \/ PublishManifest(c) PROVE TypeInv'
<1>1. At(c, "capture") /\ call[c].tree \in Trees
  BY DEF Put, PublishManifest
<1>2. /\ call[c] \in Calls /\ call[c].skill \in Skills /\ call[c].op # "none"
      /\ Advanced(call[c]) \in Calls /\ SkillNamed(Advanced(call[c]))
  BY <1>1, AtTyped
<1>3. CASE Put(c)
  <2>1. PICK o \in call[c].left :
          /\ objects' = objects \union {o}
          /\ call' = [call EXCEPT ![c] = [call[c] EXCEPT !.left = call[c].left \ {o}]]
    BY <1>3 DEF Put
  <2>2. o \in Objects
    BY <1>2 DEF Calls
  <2>3. /\ [call[c] EXCEPT !.left = call[c].left \ {o}] \in Calls
        /\ SkillNamed([call[c] EXCEPT !.left = call[c].left \ {o}])
    BY <1>2 DEF Calls, SkillNamed
  <2>4. QED
    BY <1>3, <2>1, <2>2, <2>3, CallUpdate DEF Put, TypeInv, TypeOK, database, records, world
<1>4. CASE PublishManifest(c)
  <2> DEFINE v == Version(call[c].skill, call[c].tree)
             k == [Advanced(call[c]) EXCEPT !.created = v \notin versions]
  <2>1. versions' = versions \union {v} /\ call' = [call EXCEPT ![c] = k]
    BY <1>4 DEF PublishManifest
  <2>2. v \in Versions
    BY <1>1, <1>2 DEF Version, Versions
  <2>3. k \in Calls /\ SkillNamed(k)
    <3>1. (v \notin versions) \in BOOLEAN
      OBVIOUS
    <3>2. QED
      BY <1>2, <3>1, CreatedTyped
  <2>4. QED
    BY <1>4, <2>1, <2>2, <2>3, CallUpdate DEF PublishManifest, TypeInv, TypeOK, database, records, world
<1>5. QED
  BY <1>3, <1>4

LEMMA PointerTyped ==
  ASSUME TypeInv, NEW c \in Callers, Point(c) \/ Repoint(c) \/ ClearCurrent(c) PROVE TypeInv'
<1>1. /\ At(c, "point") \/ At(c, "repoint") \/ At(c, "clear")
      /\ Advance(c)
      /\ UNCHANGED <<database, objects, versions, records, plans, lock, world>>
  BY DEF Point, Repoint, ClearCurrent
<1>2. call[c] \in Calls /\ call[c].skill \in Skills
  BY <1>1, AtTyped
<1>3. call' \in [Callers -> Calls] /\ \A d \in Callers : SkillNamed(call'[d])
  BY <1>1, AdvanceTyped DEF At
<1>4. current' \in [Skills -> Trees \union {None}]
  <2>1. CASE Point(c)
    <3>1. Version(call[c].skill, call[c].tree) \in Versions
      BY <2>1 DEF Point, TypeInv, TypeOK
    <3>2. call[c].tree \in Trees
      BY <3>1 DEF Version, Versions
    <3>3. QED
      BY <2>1, <3>2 DEF Point, TypeInv, TypeOK
  <2>2. CASE Repoint(c)
    BY <1>2, <2>2 DEF Repoint, Calls, TypeInv, TypeOK
  <2>3. CASE ClearCurrent(c)
    BY <2>3 DEF ClearCurrent, TypeInv, TypeOK
  <2>4. QED
    BY <2>1, <2>2, <2>3
<1>5. QED
  BY <1>1, <1>3, <1>4 DEF TypeInv, TypeOK, database, records, world

LEMMA DiscardTyped ==
  ASSUME TypeInv, NEW c \in Callers, Discard(c) PROVE TypeInv'
<1> DEFINE v == Version(call[c].skill, call[c].tree)
           k == [Advanced(call[c]) EXCEPT !.left = v.tree, !.sweep = v.tree]
<1>1. At(c, "discard") /\ v \in versions /\ versions' = versions \ {v}
      /\ call' = [call EXCEPT ![c] = k]
  BY DEF Discard
<1>2. /\ call[c] \in Calls
      /\ Advanced(call[c]) \in Calls /\ SkillNamed(Advanced(call[c]))
  BY <1>1, AtTyped
<1>3. v.tree \in SUBSET Objects
  BY <1>1 DEF TypeInv, TypeOK, Versions, Objects
<1>4. k \in Calls /\ SkillNamed(k)
  BY <1>2, <1>3, SweepFieldsTyped
<1>5. QED
  BY <1>1, <1>4, CallUpdate DEF Discard, TypeInv, TypeOK, database, records, world

LEMMA SweepTyped ==
  ASSUME TypeInv, NEW c \in Callers, (\E o \in Objects : Inspect(c, o)) \/ RemoveObject(c)
  PROVE  TypeInv'
<1>1. call[c] \in Calls /\ SkillNamed(call[c])
  BY DEF TypeInv, TypeOK
<1>2. CASE \E o \in Objects : Inspect(c, o)
  <2>1. PICK o \in Objects : Inspect(c, o)
    BY <1>2
  <2> DEFINE gone == IF o \in objects /\ ~Referenced(o) THEN o ELSE None
             k == [call[c] EXCEPT !.sweep = call[c].sweep \ {o}, !.doomed = gone]
  <2>2. call' = [call EXCEPT ![c] = k]
    BY <2>1 DEF Inspect
  <2>3. gone \in Objects \union {None}
    OBVIOUS
  <2>4. k \in Calls /\ SkillNamed(k)
    <3> HIDE DEF gone
    <3>1. QED
      BY <1>1, <2>3 DEF Calls, SkillNamed
  <2>5. QED
    BY <2>1, <2>2, <2>4, CallUpdate DEF Inspect, TypeInv, TypeOK, database, store, records, world
<1>3. CASE RemoveObject(c)
  <2> DEFINE k == [call[c] EXCEPT !.doomed = None]
  <2>1. call' = [call EXCEPT ![c] = k]
    BY <1>3 DEF RemoveObject
  <2>2. k \in Calls /\ SkillNamed(k)
    BY <1>1 DEF Calls, SkillNamed
  <2>3. QED
    BY <1>3, <2>1, <2>2, CallUpdate DEF RemoveObject, TypeInv, TypeOK, database, records, world
<1>4. QED
  BY <1>2, <1>3

\* Other fields that steps change.
LEMMA WorkTyped ==
  ASSUME NEW k \in Calls, SkillNamed(k), NEW w \in SUBSET Trees
  PROVE  [k EXCEPT !.work = w] \in Calls /\ SkillNamed([k EXCEPT !.work = w])
  BY DEF Calls, SkillNamed

LEMMA DropTyped ==
  ASSUME NEW k \in Calls, SkillNamed(k), NEW w \in SUBSET Trees, NEW t \in Trees,
         NEW objs \in SUBSET Objects, NEW ss \in Seq(StepNames)
  PROVE  /\ [k EXCEPT !.work = w, !.tree = t, !.left = objs, !.steps = ss] \in Calls
         /\ SkillNamed([k EXCEPT !.work = w, !.tree = t, !.left = objs, !.steps = ss])
  BY DEF Calls, SkillNamed

LEMMA SeenTyped ==
  ASSUME NEW k \in Calls, SkillNamed(k), NEW f \in [Skills -> Records]
  PROVE  [k EXCEPT !.seen = f] \in Calls /\ SkillNamed([k EXCEPT !.seen = f])
  BY DEF Calls, SkillNamed

LEMMA TreeTyped ==
  ASSUME NEW k \in Calls, SkillNamed(k), NEW t \in Trees
  PROVE  [k EXCEPT !.tree = t] \in Calls /\ SkillNamed([k EXCEPT !.tree = t])
  BY DEF Calls, SkillNamed

LEMMA PreviousTyped ==
  ASSUME NEW k \in Calls, SkillNamed(k), NEW t \in Trees \union {None}
  PROVE  [k EXCEPT !.previous = t] \in Calls /\ SkillNamed([k EXCEPT !.previous = t])
  BY DEF Calls, SkillNamed

LEMMA FailTypedFields ==
  ASSUME NEW k \in Calls, SkillNamed(k), NEW ss \in Seq(StepNames), NEW n \in 0..MaxFaults
  PROVE  /\ [k EXCEPT !.steps = ss, !.error = TRUE, !.seen = NoRecords, !.faults = n] \in Calls
         /\ SkillNamed([k EXCEPT !.steps = ss, !.error = TRUE, !.seen = NoRecords, !.faults = n])
<1>1. NoRecords \in [Skills -> Records]
  BY DEF NoRecords, Records
<1>2. QED
  BY <1>1 DEF Calls, SkillNamed

LEMMA VersionsTyped ==
  ASSUME TypeInv, NEW c \in Callers, ListVersions(c) \/ DropVersions(c) PROVE TypeInv'
<1>1. At(c, "list") \/ At(c, "drop")
  BY DEF ListVersions, DropVersions
<1>2. /\ call[c] \in Calls /\ SkillNamed(call[c]) /\ call[c].steps # <<>>
      /\ Advanced(call[c]) \in Calls /\ SkillNamed(Advanced(call[c]))
  BY <1>1, AtTyped DEF TypeInv, At
<1>3. CASE ListVersions(c)
  <2> DEFINE w == {t \in Trees : Version(call[c].skill, t) \in versions}
             k == [Advanced(call[c]) EXCEPT !.work = w]
  <2>1. call' = [call EXCEPT ![c] = k]
    BY <1>3 DEF ListVersions
  <2>2. k \in Calls /\ SkillNamed(k)
    BY <1>2, WorkTyped
  <2>3. QED
    BY <1>3, <2>1, <2>2, CallUpdate
    DEF ListVersions, TypeInv, TypeOK, database, store, records, world
<1>4. CASE DropVersions(c) /\ call[c].work = {} /\ Advance(c)
  BY <1>2, <1>4, AdvanceTyped DEF DropVersions, TypeInv, TypeOK, database, store, records, world
<1>5. CASE DropVersions(c) /\ ~(call[c].work = {} /\ Advance(c))
  <2>1. PICK t \in call[c].work :
          call' = [call EXCEPT ![c].work = @ \ {t}, ![c].tree = t, ![c].left = t,
                               ![c].steps = <<"discard">> \o @]
    BY <1>5 DEF DropVersions
  <2> DEFINE w == call[c].work \ {t}
             ss == <<"discard">> \o call[c].steps
             k == [call[c] EXCEPT !.work = w, !.tree = t, !.left = t, !.steps = ss]
  <2>2. call' = [call EXCEPT ![c] = k]
    BY <2>1
  <2>3. t \in Trees /\ t \in SUBSET Objects /\ w \in SUBSET Trees
    BY <1>2 DEF Calls, Objects
  <2>4. ss \in Seq(StepNames)
    <3>1. <<"discard">> \in Seq(StepNames) /\ call[c].steps \in Seq(StepNames)
      BY <1>2 DEF StepNames, Calls
    <3>2. QED
      BY <3>1
  <2>5. k \in Calls /\ SkillNamed(k)
    BY <1>2, <2>3, <2>4, DropTyped
  <2>6. QED
    BY <1>5, <2>2, <2>5, CallUpdate DEF DropVersions, TypeInv, TypeOK, database, store, records, world
<1>6. QED
  BY <1>3, <1>4, <1>5 DEF DropVersions

LEMMA LibraryJsonTyped ==
  ASSUME TypeInv, NEW c \in Callers, ReadLibraryJson(c) \/ WriteLibraryJson(c) PROVE TypeInv'
<1>1. At(c, "read") \/ At(c, "record") \/ At(c, "rerecord") \/ At(c, "unrecord")
  BY DEF ReadLibraryJson, WriteLibraryJson
<1>2. /\ call[c] \in Calls
      /\ Advanced(call[c]) \in Calls /\ SkillNamed(Advanced(call[c]))
  BY <1>1, AtTyped
<1>3. CASE ReadLibraryJson(c)
  <2> DEFINE k == [Advanced(call[c]) EXCEPT !.seen = portable]
  <2>1. call' = [call EXCEPT ![c] = k] /\ portable \in [Skills -> Records]
    BY <1>3 DEF ReadLibraryJson, TypeInv, TypeOK
  <2>2. k \in Calls /\ SkillNamed(k)
    BY <1>2, <2>1, SeenTyped
  <2>3. QED
    BY <1>3, <2>1, <2>2, CallUpdate
    DEF ReadLibraryJson, TypeInv, TypeOK, database, store, records, world
<1>4. CASE WriteLibraryJson(c)
  <2> DEFINE says == CASE Head(call[c].steps) = "record" -> call[c].tree
                       [] Head(call[c].steps) = "rerecord" -> call[c].previous
                       [] OTHER -> Absent
             k == [Advanced(call[c]) EXCEPT !.seen = NoRecords]
  <2>1. /\ portable' = [call[c].seen EXCEPT ![call[c].skill] = says]
        /\ call' = [call EXCEPT ![c] = k]
    BY <1>4 DEF WriteLibraryJson
  <2>2. says \in Records
    BY <1>2 DEF Calls, Records
  <2>3. portable' \in [Skills -> Records]
    <3> HIDE DEF says
    <3>1. QED
      BY <1>2, <2>1, <2>2 DEF Calls
  <2>4. k \in Calls /\ SkillNamed(k)
    <3>1. NoRecords \in [Skills -> Records]
      BY DEF NoRecords, Records
    <3>2. QED
      BY <1>2, <3>1, SeenTyped
  <2>5. QED
    <3> HIDE DEF says
    <3>1. QED
      BY <1>4, <2>1, <2>3, <2>4, CallUpdate
      DEF WriteLibraryJson, TypeInv, TypeOK, database, store, records, world
<1>5. QED
  BY <1>3, <1>4

LEMMA DatabaseTyped ==
  ASSUME TypeInv, NEW c \in Callers,
         \/ LockDatabase(c) \/ Lookup(c) \/ InsertRow(c) \/ RemoveRow(c) \/ Relink(c)
         \/ SetRevision(c) \/ ClosePlan(c) \/ Reread(c) \/ OpenLibrary(c)
  PROVE  TypeInv'
<1>1. /\ \E step \in StepNames : At(c, step)
      /\ Advance(c)
  BY DEF LockDatabase, Lookup, InsertRow, RemoveRow, Relink, SetRevision, ClosePlan, Reread,
         OpenLibrary, StepNames, DatabaseSteps
<1>2. call[c] \in Calls /\ call[c].skill \in Skills
  BY <1>1, AtTyped
<1>3. call' \in [Callers -> Calls] /\ \A d \in Callers : SkillNamed(call'[d])
  BY <1>1, AdvanceTyped DEF At
<1>4. CASE LockDatabase(c) \/ Lookup(c) \/ Reread(c) \/ OpenLibrary(c)
  BY <1>3, <1>4 DEF LockDatabase, Lookup, Reread, OpenLibrary, TypeInv, TypeOK, database, store, records, world
<1>5. CASE InsertRow(c) \/ RemoveRow(c) \/ ClosePlan(c)
  BY <1>2, <1>3, <1>5
  DEF InsertRow, RemoveRow, ClosePlan, TypeInv, TypeOK, database, store, records, world
<1>6. CASE Relink(c)
  BY <1>2, <1>3, <1>6 DEF Relink, Calls, TypeInv, TypeOK, store, records, world
<1>7. CASE SetRevision(c)
  <2> DEFINE src == link[call[c].skill]
             tree == IF call[c].op = "relink" THEN call[c].previous ELSE call[c].tree
  <2>1. /\ tree \in Trees \union {None} /\ src \in Sources \union {None}
        /\ tree # None => tree \in Trees
    BY <1>2 DEF Calls, TypeInv, TypeOK
  <2>2. revision' \in [Sources -> Trees \union {None}] /\ accepted' \in [Sources -> SUBSET Trees]
    <3>1. CASE src = None
      BY <1>7, <3>1 DEF SetRevision, TypeInv, TypeOK
    <3>2. CASE src # None
      <4>1. /\ revision' = [revision EXCEPT ![src] = tree]
            /\ accepted' = [accepted EXCEPT ![src] = accepted[src] \union ({tree} \ {None})]
        BY <1>7, <3>2 DEF SetRevision
      <4> HIDE DEF src, tree
      <4>2. QED
        BY <2>1, <3>2, <4>1 DEF TypeInv, TypeOK
    <3>3. QED
      BY <3>1, <3>2
  <2>3. QED
    BY <1>3, <1>7, <2>2 DEF SetRevision, TypeInv, TypeOK, store, records, world
<1>8. QED
  BY <1>4, <1>5, <1>6, <1>7

LEMMA HashTyped == ASSUME TypeInv, NEW c \in Callers, HashTree(c) PROVE TypeInv'
<1> DEFINE src == link[call[c].skill]
           k == [Advanced(call[c]) EXCEPT !.tree = upstream[src]]
<1>1. /\ At(c, "hash") /\ call' = [call EXCEPT ![c] = k]
      /\ src # None /\ objects' = objects \union upstream[src]
      /\ UNCHANGED <<database, versions, current, records, plans, lock, world>>
  BY DEF HashTree, HasRevision
<1>2. /\ call[c].skill \in Skills
      /\ Advanced(call[c]) \in Calls /\ SkillNamed(Advanced(call[c]))
  BY <1>1, AtTyped
<1>3. upstream[src] \in Trees /\ upstream[src] \subseteq Objects
  BY <1>1, <1>2 DEF TypeInv, TypeOK, Objects
<1>4. k \in Calls /\ SkillNamed(k)
  BY <1>2, <1>3, TreeTyped
<1>5. objects' \subseteq Objects
  BY <1>1, <1>3 DEF TypeInv, TypeOK
<1>6. QED
  <2> HIDE DEF k
  <2>1. QED
    BY <1>1, <1>4, <1>5, CallUpdate DEF TypeInv, TypeOK, database, records, world

LEMMA CheckTyped == ASSUME TypeInv, NEW c \in Callers, CheckSource(c) PROVE TypeInv'
<1> DEFINE k == [Advanced(call[c]) EXCEPT !.previous = current[call[c].skill]]
<1>1. At(c, "check") /\ call' = [call EXCEPT ![c] = k]
  BY DEF CheckSource
<1>2. call[c].skill \in Skills /\ Advanced(call[c]) \in Calls /\ SkillNamed(Advanced(call[c]))
  BY <1>1, AtTyped
<1>3. current[call[c].skill] \in Trees \union {None}
  BY <1>2 DEF TypeInv, TypeOK
<1>4. k \in Calls /\ SkillNamed(k)
  BY <1>2, <1>3, PreviousTyped
<1>5. QED
  BY <1>1, <1>4, CallUpdate DEF CheckSource, TypeInv, TypeOK, database, store, records, world

LEMMA EndTyped == ASSUME TypeInv, NEW c \in Callers, Fail(c) \/ Answer(c) PROVE TypeInv'
<1>1. call[c] \in Calls /\ SkillNamed(call[c])
  BY DEF TypeInv, TypeOK
<1>2. CASE Fail(c)
  <2> DEFINE ss == IF call[c].error THEN CleanupFails(call[c]) ELSE Undo(call[c])
             n == call[c].faults + (IF Ready(c) THEN 1 ELSE 0)
             k == [call[c] EXCEPT !.steps = ss, !.error = TRUE, !.seen = NoRecords, !.faults = n]
  <2>1. call' = [call EXCEPT ![c] = k] /\ call[c].steps # <<>>
    BY <1>2 DEF Fail
  <2>2. ss \in Seq(StepNames)
    BY <1>1, <2>1, UndoTyped
  <2>3. n \in 0..MaxFaults
    <3>1. call[c].faults \in 0..MaxFaults
      BY <1>1 DEF Calls
    <3>2. Ready(c) => call[c].faults < MaxFaults
      BY <1>2 DEF Fail
    <3>3. QED
      BY <3>1, <3>2, ConstantsAssumption
  <2>4. k \in Calls /\ SkillNamed(k)
    <3> HIDE DEF ss, n
    <3>1. QED
      BY <1>1, <2>2, <2>3, FailTypedFields
  <2>5. QED
    <3> HIDE DEF k
    <3>1. QED
      BY <1>2, <2>1, <2>4, CallUpdate DEF Fail, TypeInv, TypeOK, database, store, records, world
<1>3. CASE Answer(c)
  <2>1. call' = [call EXCEPT ![c] = Idle]
    BY <1>3 DEF Answer
  <2>2. QED
    BY <1>3, <2>1, IdleTyped, CallUpdate DEF Answer, TypeInv, TypeOK, database, store, records, world
<1>4. QED
  BY <1>2, <1>3

LEMMA TypeInvStep == TypeInv /\ [Next]_vars => TypeInv'
<1> SUFFICES ASSUME TypeInv, [Next]_vars PROVE TypeInv'
  OBVIOUS
<1>1. CASE \E c \in Callers : Start(c)
  BY <1>1, StartTyped
<1>2. CASE \E c \in Callers : Step(c)
  <2>1. PICK c \in Callers : Step(c)
    BY <1>2
  <2>2. QED
    BY <2>1, ScanTyped, CaptureTyped, PointerTyped, DiscardTyped, SweepTyped, VersionsTyped,
       LibraryJsonTyped, DatabaseTyped, HashTyped, CheckTyped, EndTyped DEF Step
<1>3. CASE (\E p \in Plans : DropPlan(p)) \/ (\E p \in Plans, src \in Sources : PrepareImport(p, src))
  BY <1>3 DEF DropPlan, PrepareImport, TypeInv, TypeOK, database, store, records, world
<1>4. CASE \E src \in Sources, t \in Trees : UpstreamChanges(src, t)
  BY <1>4 DEF UpstreamChanges, TypeInv, TypeOK, database, store, records
<1>5. CASE Crash
  BY <1>5, IdleTyped DEF Crash, TypeInv, TypeOK, database, store, records, world
<1>6. CASE UNCHANGED vars
  BY <1>6 DEF vars, TypeInv, TypeOK, database, store, records, world
<1>7. QED
  BY <1>1, <1>2, <1>3, <1>4, <1>5, <1>6 DEF Next

LEMMA TypeInvInit == Init => TypeInv
<1> SUFFICES ASSUME Init PROVE TypeInv
  OBVIOUS
<1>1. call \in [Callers -> Calls] /\ \A c \in Callers : SkillNamed(call[c])
  BY IdleTyped DEF Init
<1>2. QED
  BY <1>1 DEF Init, TypeInv, TypeOK, NoPointers, NoRecords, Records

\* Every variable of the library keeps its type, whatever fails.
THEOREM TypeCorrect == Spec => []TypeOK
<1>1. TypeInv => TypeOK
  BY DEF TypeInv
<1>2. QED
  BY <1>1, TypeInvInit, TypeInvStep, PTL DEF Spec

-----------------------------------------------------------------------------
(* Versions stay whole                                                     *)

\* One command at a time.
OneCaller == \A c, d \in Callers : c = d

\* What a capture has put stays until its manifest is there; while a discard is under
\* way no capture relies on anything, and it removes only what no manifest names.
CallIsSafe(k) ==
  /\ k.tree \in Trees => k.tree \ k.left \subseteq objects
  /\ k.sweep # {} \/ k.doomed # None => k.left = k.tree
  /\ k.doomed # None => ~Referenced(k.doomed)

WholeInv == VersionsAreWhole /\ \A c \in Callers : CallIsSafe(call[c])

\* The call of the only caller is the one that matters.
LEMMA OnlyCall ==
  ASSUME OneCaller, NEW c \in Callers, VersionsAreWhole', CallIsSafe(call[c])'
  PROVE  WholeInv'
  BY DEF OneCaller, WholeInv

LEMMA CallBecomes ==
  ASSUME TypeInv, NEW c \in Callers, NEW k, call' = [call EXCEPT ![c] = k]
  PROVE  call'[c] = k
  BY DEF TypeInv, TypeOK

\* A step that leaves files and capture alone.
LEMMA QuietStep ==
  ASSUME OneCaller, TypeInv, WholeInv, NEW c \in Callers, NEW k, call' = [call EXCEPT ![c] = k],
         UNCHANGED <<objects, versions>>,
         k.tree = call[c].tree, k.left = call[c].left,
         k.sweep = call[c].sweep, k.doomed = call[c].doomed
  PROVE  WholeInv'
<1>1. \A d \in Callers : call'[d] = k
  BY DEF OneCaller, TypeInv, TypeOK
<1>2. QED
  BY <1>1 DEF WholeInv, VersionsAreWhole, CallIsSafe, Referenced

\* A call whose capture has not put anything yet.
LEMMA FreshCall ==
  ASSUME OneCaller, TypeInv, WholeInv, NEW c \in Callers, NEW k, call' = [call EXCEPT ![c] = k],
         UNCHANGED <<objects, versions>>,
         k.tree \in Trees => k.left = k.tree,
         k.sweep = {}, k.doomed = None
  PROVE  WholeInv'
<1>1. \A d \in Callers : call'[d] = k
  BY DEF OneCaller, TypeInv, TypeOK
<1>2. QED
  BY <1>1 DEF WholeInv, VersionsAreWhole, CallIsSafe, Referenced

LEMMA WholeInvBegins ==
  ASSUME OneCaller, TypeInv, WholeInv, NEW c \in Callers, NEW op \in Commands, NEW s \in Skills,
         NEW fields \in Quiet, Begins(c, op, s, fields)
  PROVE  WholeInv'
<1> DEFINE k == [fields EXCEPT !.op = op, !.skill = s, !.steps = Script[op],
                    !.left = IF fields.tree = None THEN {} ELSE fields.tree,
                    !.before = Snapshot(catalog, behind, versions, current, portable)]
<1>1. call' = [call EXCEPT ![c] = k] /\ UNCHANGED <<objects, versions>>
  BY DEF Begins, store
<1>2. k.tree \in Trees => k.left = k.tree
  BY ConstantsAssumption DEF Calls, Quiet
<1>3. k.sweep = {} /\ k.doomed = None
  BY DEF Calls, Quiet
<1>4. QED
  <2> HIDE DEF k
  <2>1. QED
    BY <1>1, <1>2, <1>3, FreshCall

LEMMA WholeInvStart ==
  ASSUME OneCaller, TypeInv, WholeInv, NEW c \in Callers, Start(c) PROVE WholeInv'
<1>1. PICK s \in Skills, op \in Commands, fields \in Quiet :
        Begins(c, op, s, fields) /\ Prepared(op, s, fields)
  BY StartPrepared
<1>2. QED
  BY <1>1, WholeInvBegins

\* Capturing: what is put stays, and the manifest comes last.
LEMMA WholeInvCapture ==
  ASSUME OneCaller, TypeInv, WholeInv, NEW c \in Callers, Put(c) \/ PublishManifest(c)
  PROVE  WholeInv'
<1>1. /\ call[c] \in Calls /\ CallIsSafe(call[c]) /\ call[c].tree \in Trees
      /\ call[c].sweep = {} /\ call[c].doomed = None
  BY DEF WholeInv, TypeInv, TypeOK, Put, PublishManifest, At, Sweeping
<1>2. CASE Put(c)
  <2>1. PICK o \in call[c].left :
          /\ objects' = objects \union {o}
          /\ call' = [call EXCEPT ![c] = [call[c] EXCEPT !.left = call[c].left \ {o}]]
          /\ versions' = versions
    BY <1>2 DEF Put
  <2> DEFINE k == [call[c] EXCEPT !.left = call[c].left \ {o}]
  <2>2. k.tree = call[c].tree /\ k.left = call[c].left \ {o} /\ k.sweep = {} /\ k.doomed = None
    BY <1>1 DEF Calls
  <2>3. VersionsAreWhole'
    BY <2>1 DEF WholeInv, VersionsAreWhole
  <2>4. call'[c] = k
    BY <2>1, CallBecomes
  <2>5. CallIsSafe(call[c])'
    <3> HIDE DEF k
    <3>1. k.tree \ k.left \subseteq objects'
      BY <1>1, <2>1, <2>2 DEF CallIsSafe
    <3>2. QED
      BY <2>2, <2>4, <3>1 DEF CallIsSafe
  <2>6. QED
    BY <2>3, <2>5, OnlyCall
<1>3. CASE PublishManifest(c)
  <2> DEFINE v == Version(call[c].skill, call[c].tree)
             k == [Advanced(call[c]) EXCEPT !.created = v \notin versions]
  <2>1. /\ versions' = versions \union {v} /\ call' = [call EXCEPT ![c] = k]
        /\ objects' = objects /\ call[c].left = {}
    BY <1>3 DEF PublishManifest
  <2>2. /\ k.tree = call[c].tree /\ k.left = call[c].left /\ k.sweep = {} /\ k.doomed = None
    BY <1>1 DEF Calls, Advanced
  <2>3. call[c].tree \subseteq objects
    BY <1>1, <2>1 DEF CallIsSafe
  <2>4. VersionsAreWhole'
    BY <2>1, <2>3 DEF WholeInv, VersionsAreWhole, Version
  <2>5. call'[c] = k
    BY <2>1, CallBecomes
  <2>6. CallIsSafe(call[c])'
    <3> HIDE DEF k
    <3>1. QED
      BY <1>1, <2>1, <2>2, <2>3, <2>5 DEF CallIsSafe
  <2>7. QED
    BY <2>4, <2>6, OnlyCall
<1>4. QED
  BY <1>2, <1>3

\* Discarding: the manifest goes first, and an object only when no manifest names it.
LEMMA WholeInvDiscard ==
  ASSUME OneCaller, TypeInv, WholeInv, NEW c \in Callers,
         Discard(c) \/ (\E o \in Objects : Inspect(c, o)) \/ RemoveObject(c)
  PROVE  WholeInv'
<1>1. call[c] \in Calls /\ CallIsSafe(call[c])
  BY DEF WholeInv, TypeInv, TypeOK
<1>2. CASE Discard(c)
  <2> DEFINE v == Version(call[c].skill, call[c].tree)
             k == [Advanced(call[c]) EXCEPT !.left = v.tree, !.sweep = v.tree]
  <2>1. /\ versions' = versions \ {v} /\ call' = [call EXCEPT ![c] = k] /\ objects' = objects
        /\ call[c].doomed = None
    BY <1>2 DEF Discard, At, Sweeping
  <2>2. v.tree = call[c].tree
    BY DEF Version
  <2>3. k.tree = call[c].tree /\ k.left = call[c].tree /\ k.doomed = None
    BY <1>1, <2>1, <2>2 DEF Calls, Advanced
  <2>4. VersionsAreWhole'
    BY <2>1 DEF WholeInv, VersionsAreWhole
  <2>5. call'[c] = k
    BY <2>1, CallBecomes
  <2>6. CallIsSafe(call[c])'
    <3> HIDE DEF k
    <3>1. QED
      BY <2>3, <2>5 DEF CallIsSafe
  <2>7. QED
    BY <2>4, <2>6, OnlyCall
<1>3. CASE \E o \in Objects : Inspect(c, o)
  <2>1. PICK o \in Objects : Inspect(c, o)
    BY <1>3
  <2> DEFINE gone == IF o \in objects /\ ~Referenced(o) THEN o ELSE None
             k == [call[c] EXCEPT !.sweep = call[c].sweep \ {o}, !.doomed = gone]
  <2>2. /\ call' = [call EXCEPT ![c] = k] /\ objects' = objects /\ versions' = versions
        /\ call[c].sweep # {}
    BY <2>1 DEF Inspect, store
  <2>3. call[c].left = call[c].tree
    BY <1>1, <2>2 DEF CallIsSafe
  <2>4. k.tree = call[c].tree /\ k.left = call[c].left /\ k.doomed = gone
    BY <1>1 DEF Calls
  <2>5. VersionsAreWhole'
    BY <2>2 DEF WholeInv, VersionsAreWhole
  <2>6. gone # None => \A v \in versions' : gone \notin v.tree
    BY <2>2 DEF Referenced
  <2>7. call'[c] = k
    BY <2>2, CallBecomes
  <2>8. CallIsSafe(call[c])'
    <3> HIDE DEF k, gone
    <3>1. QED
      BY <2>3, <2>4, <2>6, <2>7 DEF CallIsSafe, Referenced
  <2>9. QED
    BY <2>5, <2>8, OnlyCall
<1>4. CASE RemoveObject(c)
  <2> DEFINE k == [call[c] EXCEPT !.doomed = None]
  <2>1. /\ objects' = objects \ {call[c].doomed} /\ call' = [call EXCEPT ![c] = k]
        /\ versions' = versions /\ call[c].doomed # None
    BY <1>4 DEF RemoveObject
  <2>2. ~Referenced(call[c].doomed) /\ call[c].left = call[c].tree
    BY <1>1, <2>1 DEF CallIsSafe
  <2>3. k.tree = call[c].tree /\ k.left = call[c].left /\ k.doomed = None
    BY <1>1 DEF Calls
  <2>4. VersionsAreWhole'
    BY <2>1, <2>2 DEF WholeInv, VersionsAreWhole, Referenced
  <2>5. call'[c] = k
    BY <2>1, CallBecomes
  <2>6. CallIsSafe(call[c])'
    <3> HIDE DEF k
    <3>1. QED
      BY <2>2, <2>3, <2>5 DEF CallIsSafe
  <2>7. QED
    BY <2>4, <2>6, OnlyCall
<1>5. QED
  BY <1>2, <1>3, <1>4

\* Hashing puts a whole directory.
LEMMA WholeInvHash ==
  ASSUME OneCaller, TypeInv, WholeInv, NEW c \in Callers, HashTree(c) PROVE WholeInv'
<1> DEFINE t == upstream[link[call[c].skill]]
           k == [Advanced(call[c]) EXCEPT !.tree = t]
<1>1. /\ call' = [call EXCEPT ![c] = k] /\ objects' = objects \union t /\ versions' = versions
      /\ call[c] \in Calls /\ call[c].sweep = {} /\ call[c].doomed = None
  BY DEF HashTree, At, Sweeping, TypeInv, TypeOK
<1>2. k.tree = t /\ k.sweep = {} /\ k.doomed = None
  BY <1>1 DEF Calls, Advanced
<1>3. VersionsAreWhole'
  BY <1>1 DEF WholeInv, VersionsAreWhole
<1>4. call'[c] = k
  BY <1>1, CallBecomes
<1>5. CallIsSafe(call[c])'
  <2> HIDE DEF k
  <2>1. QED
    BY <1>1, <1>2, <1>4 DEF CallIsSafe
<1>6. QED
  BY <1>3, <1>5, OnlyCall

\* The other steps leave the object files and the manifests alone.
LEMMA WholeInvAdvance ==
  ASSUME OneCaller, TypeInv, WholeInv, NEW c \in Callers, Advance(c), call[c].steps # <<>>,
         UNCHANGED <<objects, versions>>
  PROVE  WholeInv'
<1>1. call[c] \in Calls
  BY DEF TypeInv, TypeOK
<1>2. /\ Advanced(call[c]).tree = call[c].tree /\ Advanced(call[c]).left = call[c].left
      /\ Advanced(call[c]).sweep = call[c].sweep /\ Advanced(call[c]).doomed = call[c].doomed
  BY <1>1 DEF Advanced, Calls
<1>3. call' = [call EXCEPT ![c] = Advanced(call[c])]
  BY DEF Advance
<1>4. QED
  BY <1>2, <1>3, QuietStep

LEMMA WholeInvOther ==
  ASSUME OneCaller, TypeInv, WholeInv, NEW c \in Callers,
         \/ Scan(c) \/ ListVersions(c) \/ DropVersions(c) \/ ReadLibraryJson(c)
         \/ WriteLibraryJson(c) \/ CheckSource(c) \/ Fail(c) \/ Answer(c)
  PROVE  WholeInv'
<1>1. call[c] \in Calls /\ CallIsSafe(call[c]) /\ UNCHANGED <<objects, versions>>
  BY DEF WholeInv, TypeInv, TypeOK, Scan, ListVersions, DropVersions, ReadLibraryJson,
         WriteLibraryJson, CheckSource, Fail, Answer, store
<1>2. CASE Scan(c)
  <2> DEFINE src == IF call[c].op = "update" THEN link[call[c].skill] ELSE call[c].source
             k == [Advanced(call[c]) EXCEPT !.source = src, !.tree = upstream[src],
                                            !.left = upstream[src]]
  <2>1. /\ call' = [call EXCEPT ![c] = k] /\ call[c].sweep = {} /\ call[c].doomed = None
    BY <1>2 DEF Scan, At, Sweeping
  <2>2. k.left = k.tree /\ k.sweep = {} /\ k.doomed = None
    BY <1>1, <2>1 DEF Calls, Advanced
  <2>3. QED
    <3> HIDE DEF k
    <3>1. QED
      BY <1>1, <2>1, <2>2, FreshCall
<1>3. CASE ListVersions(c)
  <2> DEFINE w == {t \in Trees : Version(call[c].skill, t) \in versions}
             k == [Advanced(call[c]) EXCEPT !.work = w]
  <2>1. call' = [call EXCEPT ![c] = k]
    BY <1>3 DEF ListVersions
  <2>2. /\ k.tree = call[c].tree /\ k.left = call[c].left
        /\ k.sweep = call[c].sweep /\ k.doomed = call[c].doomed
    BY <1>1 DEF Calls, Advanced
  <2>3. QED
    <3> HIDE DEF k
    <3>1. QED
      BY <1>1, <2>1, <2>2, QuietStep
<1>4. CASE DropVersions(c) /\ call[c].work = {} /\ Advance(c)
  BY <1>1, <1>4, WholeInvAdvance DEF DropVersions, At
<1>5. CASE DropVersions(c) /\ ~(call[c].work = {} /\ Advance(c))
  <2>1. PICK t \in call[c].work :
          call' = [call EXCEPT ![c].work = @ \ {t}, ![c].tree = t, ![c].left = t,
                               ![c].steps = <<"discard">> \o @]
    BY <1>5 DEF DropVersions
  <2> DEFINE k == [call[c] EXCEPT !.work = call[c].work \ {t}, !.tree = t, !.left = t,
                                  !.steps = <<"discard">> \o call[c].steps]
  <2>2. call' = [call EXCEPT ![c] = k] /\ call[c].sweep = {} /\ call[c].doomed = None
    BY <1>5, <2>1 DEF DropVersions, At, Sweeping
  <2>3. k.left = k.tree /\ k.sweep = {} /\ k.doomed = None
    BY <1>1, <2>2 DEF Calls
  <2>4. QED
    <3> HIDE DEF k
    <3>1. QED
      BY <1>1, <2>2, <2>3, FreshCall
<1>6. CASE ReadLibraryJson(c) \/ WriteLibraryJson(c)
  <2>1. PICK f \in {portable, NoRecords} :
          call' = [call EXCEPT ![c] = [Advanced(call[c]) EXCEPT !.seen = f]]
    BY <1>6 DEF ReadLibraryJson, WriteLibraryJson
  <2> DEFINE k == [Advanced(call[c]) EXCEPT !.seen = f]
  <2>2. /\ k.tree = call[c].tree /\ k.left = call[c].left
        /\ k.sweep = call[c].sweep /\ k.doomed = call[c].doomed
    BY <1>1 DEF Calls, Advanced
  <2>3. call' = [call EXCEPT ![c] = k]
    BY <2>1
  <2>4. QED
    <3> HIDE DEF k
    <3>1. QED
      BY <1>1, <2>2, <2>3, QuietStep
<1>7. CASE CheckSource(c)
  <2> DEFINE k == [Advanced(call[c]) EXCEPT !.previous = current[call[c].skill]]
  <2>1. call' = [call EXCEPT ![c] = k]
    BY <1>7 DEF CheckSource
  <2>2. /\ k.tree = call[c].tree /\ k.left = call[c].left
        /\ k.sweep = call[c].sweep /\ k.doomed = call[c].doomed
    BY <1>1 DEF Calls, Advanced
  <2>3. QED
    <3> HIDE DEF k
    <3>1. QED
      BY <1>1, <2>1, <2>2, QuietStep
<1>8. CASE Fail(c)
  <2> DEFINE ss == IF call[c].error THEN CleanupFails(call[c]) ELSE Undo(call[c])
             n == call[c].faults + (IF Ready(c) THEN 1 ELSE 0)
             k == [call[c] EXCEPT !.steps = ss, !.error = TRUE, !.seen = NoRecords, !.faults = n]
  <2>1. call' = [call EXCEPT ![c] = k]
    BY <1>8 DEF Fail
  <2>2. /\ k.tree = call[c].tree /\ k.left = call[c].left
        /\ k.sweep = call[c].sweep /\ k.doomed = call[c].doomed
    <3> HIDE DEF ss, n
    <3>1. QED
      BY <1>1 DEF Calls
  <2>3. QED
    <3> HIDE DEF k
    <3>1. QED
      BY <1>1, <2>1, <2>2, QuietStep
<1>9. CASE Answer(c)
  <2>1. call' = [call EXCEPT ![c] = Idle]
    BY <1>9 DEF Answer
  <2>2. Idle.tree \notin Trees /\ Idle.sweep = {} /\ Idle.doomed = None
    BY ConstantsAssumption DEF Idle
  <2>3. QED
    BY <1>1, <2>1, <2>2, FreshCall
<1>10. QED
  BY <1>2, <1>3, <1>4, <1>5, <1>6, <1>7, <1>8, <1>9 DEF DropVersions

LEMMA WholeInvStep == ASSUME OneCaller PROVE TypeInv /\ WholeInv /\ [Next]_vars => WholeInv'
<1> SUFFICES ASSUME TypeInv, WholeInv, [Next]_vars PROVE WholeInv'
  OBVIOUS
<1>1. CASE \E c \in Callers : Start(c)
  BY <1>1, WholeInvStart
<1>2. CASE \E c \in Callers : Step(c)
  <2>1. PICK c \in Callers : Step(c)
    BY <1>2
  <2>2. CASE \/ Point(c) \/ Repoint(c) \/ ClearCurrent(c) \/ Reread(c) \/ LockDatabase(c)
             \/ Lookup(c) \/ InsertRow(c) \/ RemoveRow(c) \/ Relink(c) \/ SetRevision(c)
             \/ ClosePlan(c) \/ OpenLibrary(c)
    <3>1. Advance(c) /\ call[c].steps # <<>> /\ UNCHANGED <<objects, versions>>
      BY <2>2 DEF Point, Repoint, ClearCurrent, Reread, LockDatabase, Lookup, InsertRow,
                  RemoveRow, Relink, SetRevision, ClosePlan, OpenLibrary, At, store
    <3>2. QED
      BY <3>1, WholeInvAdvance
  <2>3. QED
    BY <2>1, <2>2, WholeInvCapture, WholeInvDiscard, WholeInvHash, WholeInvOther DEF Step
<1>3. CASE (\E p \in Plans : DropPlan(p)) \/ (\E p \in Plans, src \in Sources : PrepareImport(p, src))
           \/ (\E src \in Sources, t \in Trees : UpstreamChanges(src, t)) \/ UNCHANGED vars
  <2>1. UNCHANGED <<objects, versions, call>>
    BY <1>3 DEF DropPlan, PrepareImport, UpstreamChanges, vars, store
  <2>2. QED
    BY <2>1 DEF WholeInv, VersionsAreWhole, CallIsSafe, Referenced
<1>4. CASE Crash
  <2>1. call' = [c \in Callers |-> Idle] /\ UNCHANGED <<objects, versions>>
    BY <1>4 DEF Crash, store
  <2>2. Idle.tree \notin Trees /\ Idle.sweep = {} /\ Idle.doomed = None
    BY ConstantsAssumption DEF Idle
  <2>3. QED
    BY <2>1, <2>2 DEF WholeInv, VersionsAreWhole, CallIsSafe
<1>5. QED
  BY <1>1, <1>2, <1>3, <1>4 DEF Next

\* Commands that run one after the other never leave a version without one of its
\* objects, whatever step fails and wherever the process ends: discard_sync counts the
\* manifests only after it has removed its own.
THEOREM WholeOneAtATime == ASSUME OneCaller PROVE Spec => []VersionsAreWhole
<1>1. Init => WholeInv
  <2>1. Idle.tree \notin Trees /\ Idle.sweep = {} /\ Idle.doomed = None
    BY ConstantsAssumption DEF Idle
  <2>2. QED
    BY <2>1 DEF Init, WholeInv, VersionsAreWhole, CallIsSafe
<1>2. WholeInv => VersionsAreWhole
  BY DEF WholeInv
<1>3. TypeInv /\ WholeInv /\ [Next]_vars => WholeInv'
  BY WholeInvStep
<1>4. QED
  BY <1>1, <1>2, <1>3, TypeInvInit, TypeInvStep, PTL DEF Spec
=============================================================================
