------------------------ MODULE LibraryScript_proofs --------------------------
(***************************************************************************)
(* What the position of a command in its script says about the library:    *)
(* the version it captures, the pointer it moves and the record it writes  *)
(* in library.json are those of the steps behind it, whatever steps fail;  *)
(* and what a failure leaves to put back, when at most one step of a       *)
(* command fails and it is one whose cleanup puts everything back.  For    *)
(* every set of skills, trees, sources and prepared imports.               *)
(***************************************************************************)
EXTENDS Library_proofs, SequenceTheorems

-----------------------------------------------------------------------------
(* Where a command is in its script                                        *)

\* Where the script of a command captures a version, moves the pointer of the skill and
\* writes library.json; past its end when it does not.
CapturesAt(op) == IF op \in {"import", "update"} THEN 4 ELSE 2
MovesAt(op) ==
  IF op \in {"create", "import"} THEN 6
  ELSE IF op \in {"save", "markdown"} THEN 3
  ELSE IF op \in {"update", "relink"} THEN 5
  ELSE IF op = "choose" THEN 2 ELSE IF op = "rename" THEN 7 ELSE 8
RecordsAt(op) ==
  IF op \in {"create", "import"} THEN 8
  ELSE IF op \in {"save", "markdown", "rename"} THEN 6
  ELSE IF op = "update" THEN 9 ELSE 5

Capturing == {"create", "import", "save", "markdown", "update"}

From(op, i) == SubSeq(Script[op], i, Len(Script[op]))

There(s, t) == t = None \/ Version(s, t) \in versions

\* An update has looked at the source and at the skill.
Checked(k, i) == k.op = "update" => i > 2

\* What is captured is there.
Captured(k, i) ==
  IF k.op \in Capturing
  THEN /\ i > CapturesAt(k.op) => k.tree \in Trees /\ Version(k.skill, k.tree) \in versions
       /\ k.created => i > CapturesAt(k.op) /\ k.tree # k.previous
  ELSE ~k.created

\* The pointer names the version from before the command, then the command's.
Pointed(k, i) ==
  /\ k.op \in {"create", "import"} => k.previous = None
  /\ k.op = "rename" => k.tree = k.previous
  /\ Checked(k, i) /\ i <= MovesAt(k.op) => current[k.skill] = k.previous
  /\ Checked(k, i) /\ (k.op = "delete" => i < 7) => There(k.skill, k.previous)
  /\ i > MovesAt(k.op) => current[k.skill] = (IF k.op = "delete" THEN None ELSE k.tree)

Recorded(k, i) ==
  i > RecordsAt(k.op) =>
    /\ k.skill \notin behind
    /\ portable[k.skill] = (IF k.op = "delete" THEN Absent ELSE k.tree)

Deleting(k, i) ==
  k.op = "delete" =>
    /\ i > 3 => k.skill \notin catalog
    /\ i = 7 => \A t \in k.work : Version(k.skill, t) \in versions

\* What the update replaces is what is recorded of the source.
Updating(k, i) ==
  k.op = "update" /\ 2 < i /\ i <= MovesAt(k.op) =>
    link[k.skill] # None /\ k.previous # None /\ revision[link[k.skill]] = k.previous

\* No step of the command has failed, and step i of its script is the next.
Working(k, i) ==
  /\ k.steps = From(k.op, i)
  /\ Captured(k, i) /\ Pointed(k, i) /\ Recorded(k, i) /\ Deleting(k, i) /\ Updating(k, i)

\* A delete is about to discard one of the versions that it has listed.
Dropping(k) ==
  /\ k.op = "delete" /\ k.steps = <<"discard">> \o From("delete", 7)
  /\ ~k.created /\ k.skill \notin catalog /\ current[k.skill] = k.previous
  /\ portable[k.skill] = Absent /\ k.skill \notin behind
  /\ k.tree \notin k.work
  /\ \A t \in k.work \union {k.tree} : Version(k.skill, t) \in versions

UndoSteps == {"unrow", "clear", "read", "unrecord", "discard", "repoint", "rerow", "rerecord"}

Progress(k) ==
  k.op # "none" =>
    IF k.error THEN k.steps \in Seq(UndoSteps)
    ELSE (\E i \in 1..(Len(Script[k.op]) + 1) : Working(k, i)) \/ Dropping(k)

RevisionsAreAccepted == \A src \in Sources : revision[src] \in accepted[src] \union {None}

WorkInv == RevisionsAreAccepted /\ \A c \in Callers : Progress(call[c])

\* The lengths of the scripts.
LEMMA ScriptTables ==
  /\ Len(Script["create"]) = 10 /\ Len(Script["import"]) = 10 /\ Len(Script["choose"]) = 5
  /\ Len(Script["save"]) = 6 /\ Len(Script["markdown"]) = 7 /\ Len(Script["update"]) = 10
  /\ Len(Script["relink"]) = 4 /\ Len(Script["rename"]) = 6 /\ Len(Script["delete"]) = 8
BY DEF Script

\* Where the marks lie in the scripts.
LEMMA ScriptLength ==
  ASSUME NEW op \in Commands
  PROVE  /\ Len(Script[op]) \in Nat \ {0}
         /\ MovesAt(op) \in Nat /\ RecordsAt(op) \in Nat /\ CapturesAt(op) \in Nat
         /\ op # "delete" => RecordsAt(op) <= Len(Script[op]) + 1
         /\ op \in Capturing \union {"choose"} => MovesAt(op) <= Len(Script[op])
         /\ op \in {"relink", "rename"} => MovesAt(op) = Len(Script[op]) + 1
         /\ op = "relink" => RecordsAt(op) = Len(Script[op]) + 1
         /\ op = "delete" => Len(Script[op]) = 8 /\ MovesAt(op) = 8 /\ RecordsAt(op) = 5
         /\ op # "relink" => RecordsAt(op) <= Len(Script[op])
         /\ op \notin {"relink", "rename"} => MovesAt(op) <= Len(Script[op])
<1> USE DEF Capturing, CapturesAt, MovesAt, RecordsAt
<1>1. CASE op = "create"
  BY <1>1, ScriptTables
<1>2. CASE op = "import"
  BY <1>2, ScriptTables
<1>3. CASE op = "choose"
  BY <1>3, ScriptTables
<1>4. CASE op = "save"
  BY <1>4, ScriptTables
<1>5. CASE op = "markdown"
  BY <1>5, ScriptTables
<1>6. CASE op = "update"
  BY <1>6, ScriptTables
<1>7. CASE op = "relink"
  BY <1>7, ScriptTables
<1>8. CASE op = "rename"
  BY <1>8, ScriptTables
<1>9. CASE op = "delete"
  BY <1>9, ScriptTables
<1>10. QED
  BY <1>1, <1>2, <1>3, <1>4, <1>5, <1>6, <1>7, <1>8, <1>9 DEF Commands

\* A script that is not done has a next step, and one position less to go.
LEMMA StepsLeft ==
  ASSUME NEW op \in Commands, NEW i \in 1..(Len(Script[op]) + 1), From(op, i) # <<>>
  PROVE  /\ i \in 1..Len(Script[op]) /\ i + 1 \in 1..(Len(Script[op]) + 1)
         /\ Head(From(op, i)) = Script[op][i] /\ Tail(From(op, i)) = From(op, i + 1)
<1>1. Script[op] \in Seq(StepNames) /\ Len(Script[op]) \in Nat
  BY ScriptTyped, ScriptLength
<1>2. i \in 1..Len(Script[op])
  BY <1>1, SubSeqEmpty DEF From
<1>3. QED
  BY <1>1, <1>2, HeadTailOfSubSeq DEF From

\* A script with no step left is at its end.
LEMMA StepsDone ==
  ASSUME NEW op \in Commands, NEW i \in 1..(Len(Script[op]) + 1), From(op, i) = <<>>
  PROVE  i = Len(Script[op]) + 1
<1>1. Script[op] \in Seq(StepNames) /\ Len(Script[op]) \in Nat
  BY ScriptTyped, ScriptLength
<1>2. SUFFICES ASSUME i \in 1..Len(Script[op]) PROVE FALSE
  BY <1>1
<1>3. \A j \in i .. Len(Script[op]) : Script[op][j] \in StepNames
  BY <1>1, <1>2
<1> DEFINE n == Len(Script[op])
<1>4. i \in Int /\ n \in Int /\ i <= n
  BY <1>1, <1>2
<1>5. Len(SubSeq(Script[op], i, n)) = n - i + 1
  <2> HIDE DEF n
  <2>1. QED
    BY <1>3, <1>4, SubSeqProperties DEF n
<1>6. QED
  BY <1>4, <1>5 DEF From

\* At its first position all of the script is left.
LEMMA ScriptStarts == ASSUME NEW op \in Commands PROVE From(op, 1) = Script[op]
BY ScriptTyped, SubSeqFull DEF From

\* What each step of a script is.
LEMMA Positions ==
  ASSUME NEW op \in Commands, NEW i \in 1..Len(Script[op])
  PROVE  /\ Script[op][i] = "capture" <=> op \in Capturing /\ i = CapturesAt(op)
         /\ Script[op][i] = "point" <=> op \in Capturing \union {"choose"} /\ i = MovesAt(op)
         /\ Script[op][i] = "record" <=> op \notin {"relink", "delete"} /\ i = RecordsAt(op)
         /\ Script[op][i] = "unrecord" <=> op = "delete" /\ i = 5
         /\ Script[op][i] = "clear" <=> op = "delete" /\ i = 8
         /\ Script[op][i] = "list" <=> op = "delete" /\ i = 6
         /\ Script[op][i] = "drop" <=> op = "delete" /\ i = 7
         /\ Script[op][i] = "unrow" <=> op = "delete" /\ i = 3
         /\ Script[op][i] = "row" <=> \/ op \in {"create", "import"} /\ i = 5
                                      \/ op = "rename" /\ i = 3
         /\ Script[op][i] = "hash" <=> op = "update" /\ i = 1
         /\ Script[op][i] = "check" <=> op = "update" /\ i = 2
         /\ Script[op][i] = "scan" <=> \/ op = "create" /\ i = 1
                                       \/ op \in {"import", "update"} /\ i = 3
         /\ Script[op][i] = "origin" <=> \/ op \in {"create", "import"} /\ i = 9
                                         \/ op = "relink" /\ i = 3
         /\ Script[op][i] = "revise" <=> \/ op \in {"create", "update"} /\ i = 10
                                         \/ op = "relink" /\ i = 4
         /\ Script[op][i] \notin {"discard", "repoint", "rerow", "rerecord"}
<1> USE DEF Capturing, CapturesAt, MovesAt, RecordsAt
<1>1. CASE op = "create"
  BY <1>1, ScriptTables DEF Script
<1>2. CASE op = "import"
  BY <1>2, ScriptTables DEF Script
<1>3. CASE op = "choose"
  BY <1>3, ScriptTables DEF Script
<1>4. CASE op = "save"
  BY <1>4, ScriptTables DEF Script
<1>5. CASE op = "markdown"
  BY <1>5, ScriptTables DEF Script
<1>6. CASE op = "update"
  BY <1>6, ScriptTables DEF Script
<1>7. CASE op = "relink"
  BY <1>7, ScriptTables DEF Script
<1>8. CASE op = "rename"
  BY <1>8, ScriptTables DEF Script
<1>9. CASE op = "delete"
  BY <1>9, ScriptTables DEF Script
<1>10. QED
  BY <1>1, <1>2, <1>3, <1>4, <1>5, <1>6, <1>7, <1>8, <1>9 DEF Commands

-----------------------------------------------------------------------------
(* Going on to the next step                                               *)

\* The steps that a failure leaves are those of a cleanup.
LEMMA UndoStepsOf ==
  ASSUME NEW k \in Calls, k.steps # <<>>
  PROVE  /\ Undo(k) \in Seq(UndoSteps)
         /\ k.steps \in Seq(UndoSteps) => CleanupFails(k) \in Seq(UndoSteps)
<1>1. Cleanup \in Seq(UndoSteps)
  BY DEF Cleanup, UndoSteps
<1>2. /\ <<"repoint">> \in Seq(UndoSteps) /\ <<"rerow">> \in Seq(UndoSteps)
      /\ <<"rerow", "read", "rerecord">> \in Seq(UndoSteps)
      /\ <<"discard">> \in Seq(UndoSteps) /\ <<>> \in Seq(UndoSteps)
  BY DEF UndoSteps
<1>3. Discarded(k) \in Seq(UndoSteps)
  BY <1>2 DEF Discarded
<1>4. /\ Discarded(k) \o Discarded(k) \in Seq(UndoSteps)
      /\ Cleanup \o Discarded(k) \in Seq(UndoSteps)
      /\ <<"repoint">> \o Discarded(k) \in Seq(UndoSteps)
  BY <1>1, <1>2, <1>3
<1>5. k.steps \in Seq(UndoSteps) => CleanupFails(k) \in Seq(UndoSteps)
  BY <1>2, <1>3 DEF CleanupFails
<1>6. Undo(k) \in Seq(UndoSteps)
  BY <1>1, <1>2, <1>3, <1>4 DEF Undo
<1>7. QED
  BY <1>5, <1>6

\* The call goes on to its next step.
Goes(c) ==
  /\ call'[c].op = call[c].op /\ call'[c].skill = call[c].skill
  /\ call'[c].error = call[c].error /\ call'[c].faults = call[c].faults
  /\ call'[c].before = call[c].before /\ call'[c].work = call[c].work
  /\ call[c].steps # <<>> /\ call'[c].steps = Tail(call[c].steps)

Keeps(c) ==
  /\ call'[c].tree = call[c].tree /\ call'[c].previous = call[c].previous
  /\ call'[c].created = call[c].created

\* Advancing goes on.
LEMMA AdvanceGoes ==
  ASSUME TypeInv, NEW c \in Callers, Advance(c), call[c].steps # <<>>
  PROVE  Goes(c) /\ Keeps(c) /\ call'[c].seen = call[c].seen
<1>1. call[c] \in Calls /\ call'[c] = Advanced(call[c])
  BY DEF TypeInv, TypeOK, Advance
<1>2. QED
  BY <1>1 DEF Goes, Keeps, Advanced, Calls

\* Scanning goes on with the scanned tree.
LEMMA ScanGoes ==
  ASSUME TypeInv, NEW c \in Callers, Scan(c)
  PROVE  /\ Goes(c) /\ call'[c].previous = call[c].previous
         /\ call'[c].created = call[c].created /\ call'[c].seen = call[c].seen
         /\ \E src \in Sources : call'[c].tree = upstream[src]
         /\ Busy(c) /\ call[c].op # "update" => call'[c].tree = upstream[call[c].source]
<1> DEFINE src == IF call[c].op = "update" THEN link[call[c].skill] ELSE call[c].source
           k == [Advanced(call[c]) EXCEPT !.source = src, !.tree = upstream[src],
                                          !.left = upstream[src]]
<1>1. call[c] \in Calls /\ call' = [call EXCEPT ![c] = k] /\ call[c].steps # <<>>
  BY DEF TypeInv, TypeOK, Scan, At
<1>2. call'[c] = k
  BY <1>1, CallBecomes
<1>3. src \in Sources
  BY AtTyped DEF Scan, TypeInv, TypeOK, Calls
<1>4. /\ k.op = call[c].op /\ k.skill = call[c].skill /\ k.error = call[c].error
      /\ k.faults = call[c].faults /\ k.before = call[c].before /\ k.work = call[c].work
      /\ k.steps = Tail(call[c].steps) /\ k.previous = call[c].previous
      /\ k.created = call[c].created /\ k.seen = call[c].seen /\ k.tree = upstream[src]
  BY <1>1 DEF Advanced, Calls
<1>5. QED
  BY <1>1, <1>2, <1>3, <1>4 DEF Goes

\* Hashing goes on with the hashed tree.
LEMMA HashGoes ==
  ASSUME TypeInv, NEW c \in Callers, HashTree(c)
  PROVE  /\ Goes(c) /\ call'[c].previous = call[c].previous
         /\ call'[c].created = call[c].created /\ call'[c].seen = call[c].seen
<1> DEFINE t == upstream[link[call[c].skill]]
           k == [Advanced(call[c]) EXCEPT !.tree = t]
<1>1. call[c] \in Calls /\ call' = [call EXCEPT ![c] = k] /\ call[c].steps # <<>>
  BY DEF TypeInv, TypeOK, HashTree, At
<1>2. call'[c] = k
  BY <1>1, CallBecomes
<1>3. /\ k.op = call[c].op /\ k.skill = call[c].skill /\ k.error = call[c].error
      /\ k.faults = call[c].faults /\ k.before = call[c].before /\ k.work = call[c].work
      /\ k.steps = Tail(call[c].steps) /\ k.previous = call[c].previous
      /\ k.created = call[c].created /\ k.seen = call[c].seen
  BY <1>1 DEF Advanced, Calls
<1>4. QED
  BY <1>1, <1>2, <1>3 DEF Goes

\* Publishing the manifest goes on.
LEMMA PublishGoes ==
  ASSUME TypeInv, NEW c \in Callers, PublishManifest(c)
  PROVE  /\ Goes(c) /\ call'[c].tree = call[c].tree /\ call'[c].previous = call[c].previous
         /\ call'[c].seen = call[c].seen
         /\ call'[c].created = (Version(call[c].skill, call[c].tree) \notin versions)
<1> DEFINE b == Version(call[c].skill, call[c].tree) \notin versions
           k == [Advanced(call[c]) EXCEPT !.created = b]
<1>1. call[c] \in Calls /\ call' = [call EXCEPT ![c] = k] /\ call[c].steps # <<>>
  BY DEF TypeInv, TypeOK, PublishManifest, At
<1>2. call'[c] = k
  BY <1>1, CallBecomes
<1>3. /\ k.op = call[c].op /\ k.skill = call[c].skill /\ k.error = call[c].error
      /\ k.faults = call[c].faults /\ k.before = call[c].before /\ k.work = call[c].work
      /\ k.steps = Tail(call[c].steps) /\ k.previous = call[c].previous
      /\ k.tree = call[c].tree /\ k.seen = call[c].seen /\ k.created = b
  <2> HIDE DEF b
  <2>1. QED
    BY <1>1 DEF Advanced, Calls
<1>4. QED
  BY <1>1, <1>2, <1>3 DEF Goes

\* The end of a discard goes on.
LEMMA DiscardGoes ==
  ASSUME TypeInv, NEW c \in Callers, Discard(c)
  PROVE  Goes(c) /\ Keeps(c) /\ call'[c].seen = call[c].seen
<1> DEFINE v == Version(call[c].skill, call[c].tree)
           k == [Advanced(call[c]) EXCEPT !.left = v.tree, !.sweep = v.tree]
<1>1. call[c] \in Calls /\ call' = [call EXCEPT ![c] = k] /\ call[c].steps # <<>>
  BY DEF TypeInv, TypeOK, Discard, At
<1>2. call'[c] = k
  BY <1>1, CallBecomes
<1>3. /\ k.op = call[c].op /\ k.skill = call[c].skill /\ k.error = call[c].error
      /\ k.faults = call[c].faults /\ k.before = call[c].before /\ k.work = call[c].work
      /\ k.steps = Tail(call[c].steps) /\ k.previous = call[c].previous
      /\ k.tree = call[c].tree /\ k.seen = call[c].seen /\ k.created = call[c].created
  <2> HIDE DEF v
  <2>1. QED
    BY <1>1 DEF Advanced, Calls
<1>4. QED
  BY <1>1, <1>2, <1>3 DEF Goes, Keeps

\* Reading library.json goes on.
LEMMA SeenGoes ==
  ASSUME TypeInv, NEW c \in Callers, ReadLibraryJson(c) \/ WriteLibraryJson(c)
  PROVE  /\ Goes(c) /\ Keeps(c)
         /\ ReadLibraryJson(c) => call'[c].seen = portable
<1>1. PICK f \in {portable, NoRecords} :
        /\ call' = [call EXCEPT ![c] = [Advanced(call[c]) EXCEPT !.seen = f]]
        /\ ReadLibraryJson(c) => f = portable
  <2>1. CASE ReadLibraryJson(c)
    BY <2>1 DEF ReadLibraryJson
  <2>2. CASE ~ReadLibraryJson(c)
    BY <2>2 DEF WriteLibraryJson
  <2>3. QED
    BY <2>1, <2>2
<1> DEFINE k == [Advanced(call[c]) EXCEPT !.seen = f]
<1>2. call[c] \in Calls /\ call'[c] = k /\ call[c].steps # <<>>
  BY <1>1, CallBecomes DEF TypeInv, TypeOK, ReadLibraryJson, WriteLibraryJson, At
<1>3. /\ k.op = call[c].op /\ k.skill = call[c].skill /\ k.error = call[c].error
      /\ k.faults = call[c].faults /\ k.before = call[c].before /\ k.work = call[c].work
      /\ k.steps = Tail(call[c].steps) /\ k.previous = call[c].previous
      /\ k.tree = call[c].tree /\ k.seen = f /\ k.created = call[c].created
  BY <1>2 DEF Advanced, Calls
<1>4. QED
  BY <1>1, <1>2, <1>3 DEF Goes, Keeps

\* An update that has found something to do goes on.
LEMMA CheckGoes ==
  ASSUME TypeInv, NEW c \in Callers, CheckSource(c)
  PROVE  /\ Goes(c) /\ call'[c].tree = call[c].tree /\ call'[c].created = call[c].created
         /\ call'[c].seen = call[c].seen /\ call'[c].previous = current[call[c].skill]
<1> DEFINE k == [Advanced(call[c]) EXCEPT !.previous = current[call[c].skill]]
<1>1. call[c] \in Calls /\ call' = [call EXCEPT ![c] = k] /\ call[c].steps # <<>>
  BY DEF TypeInv, TypeOK, CheckSource, At
<1>2. call'[c] = k
  BY <1>1, CallBecomes
<1>3. /\ k.op = call[c].op /\ k.skill = call[c].skill /\ k.error = call[c].error
      /\ k.faults = call[c].faults /\ k.before = call[c].before /\ k.work = call[c].work
      /\ k.steps = Tail(call[c].steps) /\ k.previous = current[call[c].skill]
      /\ k.tree = call[c].tree /\ k.seen = call[c].seen /\ k.created = call[c].created
  BY <1>1 DEF Advanced, Calls
<1>4. QED
  BY <1>1, <1>2, <1>3 DEF Goes

\* All of a call but what it lists.
LEMMA ListGoes ==
  ASSUME TypeInv, NEW c \in Callers, ListVersions(c)
  PROVE  /\ call'[c].op = call[c].op /\ call'[c].skill = call[c].skill
         /\ call'[c].error = call[c].error /\ call'[c].faults = call[c].faults
         /\ call'[c].before = call[c].before /\ Keeps(c)
         /\ call[c].steps # <<>> /\ call'[c].steps = Tail(call[c].steps)
         /\ call'[c].work = {t \in Trees : Version(call[c].skill, t) \in versions}
<1> DEFINE w == {t \in Trees : Version(call[c].skill, t) \in versions}
           k == [Advanced(call[c]) EXCEPT !.work = w]
<1>1. call[c] \in Calls /\ call' = [call EXCEPT ![c] = k] /\ call[c].steps # <<>>
  BY DEF TypeInv, TypeOK, ListVersions, At
<1>2. call'[c] = k
  BY <1>1, CallBecomes
<1>3. /\ k.op = call[c].op /\ k.skill = call[c].skill /\ k.error = call[c].error
      /\ k.faults = call[c].faults /\ k.before = call[c].before /\ k.work = w
      /\ k.steps = Tail(call[c].steps) /\ k.previous = call[c].previous
      /\ k.tree = call[c].tree /\ k.created = call[c].created
  <2> HIDE DEF w
  <2>1. QED
    BY <1>1 DEF Advanced, Calls
<1>4. QED
  BY <1>1, <1>2, <1>3 DEF Keeps

-----------------------------------------------------------------------------
(* Steps that mark no stage of the script                                  *)

\* A step of the only caller, and no other, makes progress.
LEMMA OneProgress ==
  ASSUME OneCaller, NEW c \in Callers, Progress(call[c])', RevisionsAreAccepted'
  PROVE  WorkInv'
  BY DEF OneCaller, WorkInv

\* Where a command that goes on is in its script.
LEMMA PickStep ==
  ASSUME TypeInv, WorkInv, NEW c \in Callers, call[c].op # "none", call[c].steps # <<>>,
         ~call[c].error
  PROVE  /\ call[c].op \in Commands
         /\ \/ Dropping(call[c])
            \/ \E i \in 1..Len(Script[call[c].op]) :
                 /\ Working(call[c], i) /\ i + 1 \in 1..(Len(Script[call[c].op]) + 1)
                 /\ Head(call[c].steps) = Script[call[c].op][i]
                 /\ Tail(call[c].steps) = From(call[c].op, i + 1)
<1>1. call[c].op \in Commands
  BY DEF TypeInv, TypeOK, Calls
<1>2. CASE ~Dropping(call[c])
  <2>1. PICK i \in 1..(Len(Script[call[c].op]) + 1) : Working(call[c], i)
    BY <1>2 DEF WorkInv, Progress
  <2>2. call[c].steps = From(call[c].op, i)
    BY <2>1 DEF Working
  <2>3. QED
    BY <1>1, <2>1, <2>2, StepsLeft
<1>3. QED
  BY <1>1, <1>2

\* A cleanup that goes on is still a cleanup.
LEMMA ErrorGoes ==
  ASSUME TypeInv, WorkInv, NEW c \in Callers, call[c].error,
         call'[c].op = call[c].op, call'[c].error = call[c].error,
         call[c].steps # <<>>, call'[c].steps = Tail(call[c].steps)
  PROVE  Progress(call[c])'
<1>1. call[c].op # "none" => call[c].steps \in Seq(UndoSteps)
  BY DEF WorkInv, Progress
<1>2. QED
  BY <1>1 DEF Progress

\* A working command has one more step behind it.
LEMMA WorkGoes ==
  ASSUME TypeInv, WorkInv, NEW c \in Callers, ~call[c].error, call[c].op # "none",
         call'[c].op = call[c].op, call'[c].error = call[c].error,
         NEW i \in 1..(Len(Script[call[c].op]) + 1), Working(call[c], i)'
  PROVE  Progress(call[c])'
  BY DEF Progress

\* Steps that leave versions, pointers and library.json alone and that mark no stage.
LEMMA QuietWork ==
  ASSUME TypeInv, NEW c \in Callers, call[c].op \in Commands,
         NEW i \in 1..Len(Script[call[c].op]), Working(call[c], i), Goes(c), Keeps(c),
         Tail(call[c].steps) = From(call[c].op, i + 1),
         Script[call[c].op][i] \notin {"capture", "point", "record", "unrecord", "clear", "list",
                                       "drop", "unrow", "check"},
         UNCHANGED <<versions, current, portable>>,
         behind' = behind \/ i < RecordsAt(call[c].op),
         call[c].op = "delete" => catalog' \subseteq catalog,
         call[c].op = "update" => i >= 5 \/ UNCHANGED <<link, revision>>
  PROVE  Working(call[c], i + 1)'
<1> DEFINE k == call[c]
           op == call[c].op
<1>1. /\ call'[c].op = op /\ call'[c].skill = k.skill /\ call'[c].steps = From(op, i + 1)
      /\ call'[c].tree = k.tree /\ call'[c].previous = k.previous
      /\ call'[c].created = k.created /\ call'[c].work = k.work
  BY DEF Goes, Keeps
<1>2. op \in Commands /\ i \in Nat /\ i >= 1 /\ i <= Len(Script[op]) /\ Len(Script[op]) \in Nat
  BY ScriptLength
<1>3. /\ op \in Capturing => i # CapturesAt(op)
      /\ op \in Capturing \union {"choose"} => i # MovesAt(op)
      /\ op \notin {"relink", "delete"} => i # RecordsAt(op)
      /\ op = "delete" => i \notin {3, 5, 6, 7, 8}
      /\ op = "update" => i # 2
  BY <1>2, Positions
<1>4. Captured(call[c], i + 1)'
  BY <1>1, <1>2, <1>3, ScriptLength DEF Working, Captured
<1>5. op \in {"relink", "rename"} => MovesAt(op) = Len(Script[op]) + 1
  BY <1>2, ScriptLength
<1>6. op = "delete" => MovesAt(op) = 8 /\ RecordsAt(op) = 5
  BY DEF MovesAt, RecordsAt
<1>7. op = "relink" => RecordsAt(op) = Len(Script[op]) + 1
  BY <1>2, ScriptLength
<1>8. op \in {"relink", "rename", "delete"} \/ op \in Capturing \union {"choose"}
  BY <1>2 DEF Commands, Capturing
<1>9. MovesAt(op) \in Nat /\ RecordsAt(op) \in Nat
  BY <1>2, ScriptLength
<1>10. Pointed(call[c], i + 1)'
  <2>1. Pointed(k, i)
    BY DEF Working
  <2>2. i + 1 <= MovesAt(op) => i <= MovesAt(op)
    BY <1>2, <1>9
  <2>3. i + 1 > MovesAt(op) => i > MovesAt(op)
    BY <1>2, <1>3, <1>5, <1>6, <1>8, <1>9
  <2>4. Checked(call[c], i + 1)' => Checked(k, i)
    BY <1>1, <1>2, <1>3 DEF Checked
  <2>5. op = "delete" /\ i + 1 < 7 => i < 7
    BY <1>2
  <2>6. There(k.skill, k.previous) => There(call[c].skill, call[c].previous)'
    BY <1>1 DEF There
  <2>7. Checked(call[c], i + 1)' => i + 1 \in Nat
    BY <1>2
  <2>8. QED
    BY <1>1, <2>1, <2>2, <2>3, <2>4, <2>5, <2>6 DEF Pointed
<1>11. Recorded(call[c], i + 1)'
  <2>1. i + 1 > RecordsAt(op) => i > RecordsAt(op)
    BY <1>2, <1>3, <1>6, <1>7, <1>9
  <2>2. i > RecordsAt(op) => behind' = behind
    BY <1>2, <1>9
  <2>3. QED
    BY <1>1, <2>1, <2>2 DEF Working, Recorded
<1>12. Deleting(call[c], i + 1)'
  BY <1>1, <1>2, <1>3 DEF Working, Deleting
<1>13. Updating(call[c], i + 1)'
  <2>1. op = "update" => MovesAt(op) = 5
    BY DEF MovesAt
  <2>2. QED
    BY <1>1, <1>2, <1>3, <2>1 DEF Working, Updating
<1>14. QED
  BY <1>1, <1>4, <1>10, <1>11, <1>12, <1>13 DEF Working

\* Scanning and hashing set the tree, which matters only once it is captured.
LEMMA ScanWork ==
  ASSUME TypeInv, NEW c \in Callers, call[c].op \in Commands,
         NEW i \in 1..Len(Script[call[c].op]), Working(call[c], i),
         Scan(c) \/ HashTree(c),
         Head(call[c].steps) = Script[call[c].op][i],
         Tail(call[c].steps) = From(call[c].op, i + 1)
  PROVE  Working(call[c], i + 1)'
<1> DEFINE k == call[c]
           op == call[c].op
<1>1. /\ call'[c].op = op /\ call'[c].skill = k.skill /\ call'[c].steps = From(op, i + 1)
      /\ call'[c].previous = k.previous /\ call'[c].created = k.created
  BY ScanGoes, HashGoes DEF Goes
<1>2. UNCHANGED <<catalog, versions, current, portable, link, revision>>
  BY DEF Scan, HashTree, database, store, records
<1>3. (op \in {"create", "update"} /\ i = 1) \/ (op \in {"import", "update"} /\ i = 3)
  BY Positions DEF Scan, HashTree, At
<1>4. /\ op \in Capturing /\ i < CapturesAt(op) /\ i < MovesAt(op) /\ i < RecordsAt(op)
      /\ op \notin {"rename", "delete"}
  BY <1>3 DEF Capturing, CapturesAt, MovesAt, RecordsAt
<1>5. CapturesAt(op) \in Nat /\ MovesAt(op) \in Nat /\ RecordsAt(op) \in Nat
  BY ScriptLength
<1>6. Captured(call[c], i + 1)'
  BY <1>1, <1>2, <1>3, <1>4, <1>5 DEF Working, Captured
<1>7. Pointed(call[c], i + 1)'
  BY <1>1, <1>2, <1>3, <1>4, <1>5 DEF Working, Pointed, Checked, There
<1>8. Recorded(call[c], i + 1)' /\ Deleting(call[c], i + 1)'
  BY <1>1, <1>3, <1>4, <1>5 DEF Recorded, Deleting
<1>9. Updating(call[c], i + 1)'
  BY <1>1, <1>2, <1>3, <1>4, <1>5 DEF Working, Updating
<1>10. QED
  BY <1>1, <1>6, <1>7, <1>8, <1>9 DEF Working

-----------------------------------------------------------------------------
(* Capturing, pointing, recording and checking                             *)

\* Capturing a version.
LEMMA CaptureWork ==
  ASSUME TypeInv, NEW c \in Callers, call[c].op \in Commands,
         NEW i \in 1..Len(Script[call[c].op]), Working(call[c], i), PublishManifest(c),
         Head(call[c].steps) = Script[call[c].op][i],
         Tail(call[c].steps) = From(call[c].op, i + 1)
  PROVE  Working(call[c], i + 1)'
<1> DEFINE k == call[c]
           op == call[c].op
           v == Version(call[c].skill, call[c].tree)
<1>1. /\ call'[c].op = op /\ call'[c].skill = k.skill /\ call'[c].steps = From(op, i + 1)
      /\ call'[c].previous = k.previous /\ call'[c].tree = k.tree
      /\ call'[c].created = (v \notin versions)
  BY PublishGoes DEF Goes
<1>2. /\ UNCHANGED <<catalog, current, portable, link, revision>>
      /\ versions' = versions \union {v} /\ k.tree \in Trees
  BY DEF PublishManifest, database, records
<1>3. op \in Capturing /\ i = CapturesAt(op)
  BY Positions DEF PublishManifest, At
<1>4. /\ op \notin {"rename", "delete"} /\ i + 1 <= MovesAt(op) /\ i + 1 <= RecordsAt(op)
      /\ op = "update" => i = 4
  BY <1>3 DEF Capturing, CapturesAt, MovesAt, RecordsAt
<1>5. Checked(k, i) /\ There(k.skill, k.previous)
  BY <1>4 DEF Working, Pointed, Checked
<1>6. Captured(call[c], i + 1)'
  <2>1. v \notin versions => k.tree # k.previous
    BY <1>2, <1>5, ConstantsAssumption DEF There
  <2>2. i + 1 > CapturesAt(op)
    BY <1>3, ScriptLength
  <2>3. Version(call'[c].skill, call'[c].tree) \in versions'
    BY <1>1, <1>2
  <2>4. QED
    BY <1>1, <1>2, <1>3, <2>1, <2>2, <2>3 DEF Captured
<1>7. Pointed(call[c], i + 1)'
  <2>1. There(call[c].skill, call[c].previous)'
    BY <1>1, <1>2, <1>5 DEF There
  <2>2. MovesAt(op) \in Nat
    BY ScriptLength
  <2>3. current[k.skill] = k.previous
    BY <1>4, <1>5, <2>2 DEF Working, Pointed
  <2>4. op \in {"create", "import"} => k.previous = None
    BY DEF Working, Pointed
  <2>5. ~(i + 1 > MovesAt(op))
    BY <1>4, <2>2
  <2>6. QED
    BY <1>1, <1>2, <1>4, <2>1, <2>3, <2>4, <2>5 DEF Pointed
<1>8. Recorded(call[c], i + 1)' /\ Deleting(call[c], i + 1)'
  <2>1. RecordsAt(op) \in Nat
    BY ScriptLength
  <2>2. QED
    BY <1>1, <1>4, <2>1 DEF Recorded, Deleting
<1>9. Updating(call[c], i + 1)'
  BY <1>1, <1>2, <1>4 DEF Working, Updating, MovesAt
<1>10. QED
  BY <1>1, <1>6, <1>7, <1>8, <1>9 DEF Working

\* Moving the pointer.
LEMMA PointWork ==
  ASSUME TypeInv, NEW c \in Callers, call[c].op \in Commands,
         NEW i \in 1..Len(Script[call[c].op]), Working(call[c], i), Point(c),
         Head(call[c].steps) = Script[call[c].op][i],
         Tail(call[c].steps) = From(call[c].op, i + 1)
  PROVE  Working(call[c], i + 1)'
<1> DEFINE k == call[c]
           op == call[c].op
<1>1. /\ call'[c].op = op /\ call'[c].skill = k.skill /\ call'[c].steps = From(op, i + 1)
      /\ call'[c].previous = k.previous /\ call'[c].tree = k.tree
      /\ call'[c].created = k.created
  BY AdvanceGoes DEF Goes, Keeps, Point, At
<1>2. /\ UNCHANGED <<catalog, versions, portable, link, revision>>
      /\ current'[k.skill] = k.tree
  BY AtTyped DEF Point, database, records, TypeInv, TypeOK
<1>3. op \in Capturing \union {"choose"} /\ i = MovesAt(op)
  BY Positions DEF Point, At
<1>4. /\ op \notin {"rename", "delete"} /\ i + 1 <= RecordsAt(op) /\ Checked(k, i)
      /\ op \in Capturing => i > CapturesAt(op)
  BY <1>3 DEF Capturing, CapturesAt, MovesAt, RecordsAt, Checked
<1>5. MovesAt(op) \in Nat /\ CapturesAt(op) \in Nat /\ RecordsAt(op) \in Nat
  BY ScriptLength
<1>6. Captured(call[c], i + 1)'
  BY <1>1, <1>2, <1>3, <1>4, <1>5 DEF Working, Captured
<1>7. Pointed(call[c], i + 1)'
  <2>1. There(call[c].skill, call[c].previous)'
    BY <1>1, <1>2, <1>4 DEF There, Working, Pointed
  <2>2. ~(i + 1 <= MovesAt(op))
    BY <1>3, <1>5
  <2>3. op \in {"create", "import"} => k.previous = None
    BY DEF Working, Pointed
  <2>4. QED
    BY <1>1, <1>2, <1>4, <2>1, <2>2, <2>3 DEF Pointed
<1>8. Recorded(call[c], i + 1)' /\ Deleting(call[c], i + 1)' /\ Updating(call[c], i + 1)'
  BY <1>1, <1>3, <1>4, <1>5 DEF Recorded, Deleting, Updating
<1>9. QED
  BY <1>1, <1>6, <1>7, <1>8 DEF Working

\* Writing the record in library.json.
LEMMA RecordWork ==
  ASSUME TypeInv, NEW c \in Callers, call[c].op \in Commands,
         NEW i \in 1..Len(Script[call[c].op]), Working(call[c], i), WriteLibraryJson(c),
         Head(call[c].steps) = Script[call[c].op][i],
         Tail(call[c].steps) = From(call[c].op, i + 1)
  PROVE  Working(call[c], i + 1)'
<1> DEFINE k == call[c]
           op == call[c].op
<1>1. /\ call'[c].op = op /\ call'[c].skill = k.skill /\ call'[c].steps = From(op, i + 1)
      /\ call'[c].previous = k.previous /\ call'[c].tree = k.tree
      /\ call'[c].created = k.created /\ call'[c].work = k.work
  BY SeenGoes DEF Goes, Keeps
<1>2. UNCHANGED <<catalog, versions, current, link, revision>>
  BY DEF WriteLibraryJson, database, store, records
<1>3. \/ At(c, "record") /\ op \notin {"relink", "delete"} /\ i = RecordsAt(op)
      \/ At(c, "unrecord") /\ op = "delete" /\ i = 5
  <2>1. ~At(c, "rerecord")
    BY Positions DEF At
  <2>2. QED
    BY <2>1, Positions DEF WriteLibraryJson, At
<1>4. k.skill \notin behind' /\ portable'[k.skill] = IF op = "delete" THEN Absent ELSE k.tree
  <2>1. call[c] \in Calls /\ k.skill \in Skills
    BY <1>3, AtTyped
  <2>2. k.seen \in [Skills -> Records]
    BY <2>1 DEF Calls
  <2>3. CASE At(c, "record") /\ op \notin {"relink", "delete"}
    BY <2>1, <2>2, <2>3 DEF WriteLibraryJson, At
  <2>4. CASE At(c, "unrecord") /\ op = "delete"
    BY <2>1, <2>2, <2>4 DEF WriteLibraryJson, At
  <2>5. QED
    BY <1>3, <2>3, <2>4
<1>5. MovesAt(op) \in Nat /\ CapturesAt(op) \in Nat /\ RecordsAt(op) \in Nat
  BY ScriptLength
<1>6. /\ op \in Capturing => i > CapturesAt(op)
      /\ op \notin {"rename", "delete"} => i > MovesAt(op)
      /\ op \in {"rename", "delete"} => i + 1 <= MovesAt(op)
      /\ op = "delete" => i = 5
      /\ Checked(k, i)
  BY <1>3 DEF Capturing, CapturesAt, MovesAt, RecordsAt, Checked, Commands
<1>7. Captured(call[c], i + 1)'
  BY <1>1, <1>2, <1>5, <1>6 DEF Working, Captured
<1>8. Pointed(call[c], i + 1)'
  <2>1. Pointed(k, i) /\ There(k.skill, k.previous)
    BY <1>6 DEF Working, Pointed
  <2>2. There(call[c].skill, call[c].previous)'
    BY <1>1, <1>2, <2>1 DEF There
  <2>3. CASE op \in {"rename", "delete"}
    <3>1. ~(i + 1 > MovesAt(op)) /\ i <= MovesAt(op)
      BY <1>5, <1>6, <2>3
    <3>2. QED
      BY <1>1, <1>2, <1>6, <2>1, <2>2, <2>3, <3>1 DEF Pointed
  <2>4. CASE op \notin {"rename", "delete"}
    <3>1. ~(i + 1 <= MovesAt(op)) /\ i > MovesAt(op)
      BY <1>5, <1>6, <2>4
    <3>2. QED
      BY <1>1, <1>2, <2>1, <2>2, <2>4, <3>1 DEF Pointed
  <2>5. QED
    BY <2>3, <2>4
<1>9. Recorded(call[c], i + 1)' /\ Deleting(call[c], i + 1)'
  BY <1>1, <1>2, <1>4, <1>6 DEF Recorded, Working, Deleting
<1>10. Updating(call[c], i + 1)'
  BY <1>1, <1>5, <1>6 DEF Updating
<1>11. QED
  BY <1>1, <1>7, <1>8, <1>9, <1>10 DEF Working

\* Checking the source of an update.
LEMMA CheckWork ==
  ASSUME TypeInv, NEW c \in Callers, call[c].op \in Commands,
         NEW i \in 1..Len(Script[call[c].op]), Working(call[c], i), CheckSource(c),
         Head(call[c].steps) = Script[call[c].op][i],
         Tail(call[c].steps) = From(call[c].op, i + 1)
  PROVE  Working(call[c], i + 1)'
<1> DEFINE k == call[c]
           s == call[c].skill
<1>1. /\ call'[c].op = k.op /\ call'[c].skill = s /\ call'[c].steps = From(k.op, i + 1)
      /\ call'[c].previous = current[s] /\ call'[c].tree = k.tree
      /\ call'[c].created = k.created
  BY CheckGoes DEF Goes
<1>2. UNCHANGED <<catalog, versions, current, portable, link, revision>>
  BY DEF CheckSource, database, store, records
<1>3. k.op = "update" /\ i = 2
  BY Positions DEF CheckSource, At
<1>4. HasRevision(s) /\ CurrentResolves(s) /\ SourceState(s, k.tree) = "update_available"
  BY DEF CheckSource, MayTakeUpstream
<1>5. link[s] # None /\ current[s] # None /\ revision[link[s]] = current[s]
  BY <1>4 DEF SourceState, HasRevision
<1>6. Captured(call[c], i + 1)'
  BY <1>1, <1>2, <1>3 DEF Working, Captured, Capturing, CapturesAt
<1>7. Pointed(call[c], i + 1)'
  BY <1>1, <1>2, <1>3, <1>4 DEF Pointed, MovesAt, There, CurrentResolves
<1>8. Recorded(call[c], i + 1)' /\ Deleting(call[c], i + 1)'
  BY <1>1, <1>3 DEF Recorded, Deleting, RecordsAt
<1>9. Updating(call[c], i + 1)'
  BY <1>1, <1>2, <1>4, <1>5 DEF Updating
<1>10. QED
  BY <1>1, <1>6, <1>7, <1>8, <1>9 DEF Working

-----------------------------------------------------------------------------
(* Deleting                                                                *)

\* The steps of a delete.
LEMMA ClearWork ==
  ASSUME TypeInv, NEW c \in Callers, call[c].op \in Commands,
         NEW i \in 1..Len(Script[call[c].op]), Working(call[c], i), ClearCurrent(c),
         Head(call[c].steps) = Script[call[c].op][i],
         Tail(call[c].steps) = From(call[c].op, i + 1)
  PROVE  Working(call[c], i + 1)'
<1> DEFINE k == call[c]
           op == call[c].op
<1>1. /\ call'[c].op = op /\ call'[c].skill = k.skill /\ call'[c].steps = From(op, i + 1)
      /\ call'[c].previous = k.previous /\ call'[c].tree = k.tree
      /\ call'[c].created = k.created
  BY AdvanceGoes DEF Goes, Keeps, ClearCurrent, At
<1>2. /\ UNCHANGED <<catalog, versions, portable, behind, link, revision>>
      /\ current'[k.skill] = None
  BY AtTyped DEF ClearCurrent, database, records, TypeInv, TypeOK
<1>3. op = "delete" /\ i = 8
  BY Positions DEF ClearCurrent, At
<1>4. Captured(call[c], i + 1)'
  BY <1>1, <1>3 DEF Working, Captured, Capturing
<1>5. Pointed(call[c], i + 1)' /\ Recorded(call[c], i + 1)'
  BY <1>1, <1>2, <1>3 DEF Working, Pointed, Recorded, MovesAt, RecordsAt
<1>6. Deleting(call[c], i + 1)' /\ Updating(call[c], i + 1)'
  BY <1>1, <1>2, <1>3 DEF Working, Deleting, Updating
<1>7. QED
  BY <1>1, <1>4, <1>5, <1>6 DEF Working

\* The row goes.
LEMMA UnrowWork ==
  ASSUME TypeInv, NEW c \in Callers, call[c].op \in Commands,
         NEW i \in 1..Len(Script[call[c].op]), Working(call[c], i), RemoveRow(c),
         Head(call[c].steps) = Script[call[c].op][i],
         Tail(call[c].steps) = From(call[c].op, i + 1)
  PROVE  Working(call[c], i + 1)'
<1> DEFINE k == call[c]
           op == call[c].op
<1>1. /\ call'[c].op = op /\ call'[c].skill = k.skill /\ call'[c].steps = From(op, i + 1)
      /\ call'[c].previous = k.previous /\ call'[c].tree = k.tree
      /\ call'[c].created = k.created
  BY AdvanceGoes DEF Goes, Keeps, RemoveRow, At
<1>2. /\ UNCHANGED <<versions, current, portable>>
      /\ k.skill \notin catalog'
  BY DEF RemoveRow, store, records
<1>3. op = "delete" /\ i = 3
  BY Positions DEF RemoveRow, At
<1>4. Captured(call[c], i + 1)'
  BY <1>1, <1>3 DEF Working, Captured, Capturing
<1>5. Pointed(call[c], i + 1)' /\ Recorded(call[c], i + 1)'
  BY <1>1, <1>2, <1>3 DEF Working, Pointed, Recorded, MovesAt, RecordsAt, There, Checked
<1>6. Deleting(call[c], i + 1)' /\ Updating(call[c], i + 1)'
  BY <1>1, <1>2, <1>3 DEF Working, Deleting, Updating
<1>7. QED
  BY <1>1, <1>4, <1>5, <1>6 DEF Working

\* The versions are listed.
LEMMA ListWork ==
  ASSUME TypeInv, NEW c \in Callers, call[c].op \in Commands,
         NEW i \in 1..Len(Script[call[c].op]), Working(call[c], i), ListVersions(c),
         Head(call[c].steps) = Script[call[c].op][i],
         Tail(call[c].steps) = From(call[c].op, i + 1)
  PROVE  Working(call[c], i + 1)'
<1> DEFINE k == call[c]
           op == call[c].op
<1>1. /\ call'[c].op = op /\ call'[c].skill = k.skill /\ call'[c].steps = From(op, i + 1)
      /\ call'[c].previous = k.previous /\ call'[c].tree = k.tree
      /\ call'[c].created = k.created
      /\ call'[c].work = {t \in Trees : Version(k.skill, t) \in versions}
  BY ListGoes DEF Keeps
<1>2. UNCHANGED <<catalog, versions, current, portable, behind>>
  BY DEF ListVersions, store, database, records
<1>3. op = "delete" /\ i = 6
  BY Positions DEF ListVersions, At
<1>4. Captured(call[c], i + 1)'
  BY <1>1, <1>3 DEF Working, Captured, Capturing
<1>5. Pointed(call[c], i + 1)' /\ Recorded(call[c], i + 1)'
  BY <1>1, <1>2, <1>3 DEF Working, Pointed, Recorded, MovesAt, RecordsAt, Checked
<1>6. Deleting(call[c], i + 1)' /\ Updating(call[c], i + 1)'
  BY <1>1, <1>2, <1>3 DEF Working, Deleting, Updating
<1>7. QED
  BY <1>1, <1>4, <1>5, <1>6 DEF Working

\* Nothing is left to discard.
LEMMA DroppedWork ==
  ASSUME TypeInv, NEW c \in Callers, call[c].op \in Commands,
         NEW i \in 1..Len(Script[call[c].op]), Working(call[c], i), At(c, "drop"), Advance(c),
         UNCHANGED <<catalog, versions, current, portable, behind>>,
         Head(call[c].steps) = Script[call[c].op][i],
         Tail(call[c].steps) = From(call[c].op, i + 1)
  PROVE  Working(call[c], i + 1)'
<1> DEFINE k == call[c]
           op == call[c].op
<1>1. /\ call'[c].op = op /\ call'[c].skill = k.skill /\ call'[c].steps = From(op, i + 1)
      /\ call'[c].previous = k.previous /\ call'[c].tree = k.tree
      /\ call'[c].created = k.created
  BY AdvanceGoes DEF Goes, Keeps, At
<1>2. op = "delete" /\ i = 7
  BY Positions DEF At
<1>3. Captured(call[c], i + 1)'
  BY <1>1, <1>2 DEF Working, Captured, Capturing
<1>4. Pointed(call[c], i + 1)' /\ Recorded(call[c], i + 1)'
  BY <1>1, <1>2 DEF Working, Pointed, Recorded, MovesAt, RecordsAt, Checked
<1>5. Deleting(call[c], i + 1)' /\ Updating(call[c], i + 1)'
  BY <1>1, <1>2 DEF Working, Deleting, Updating
<1>6. QED
  BY <1>1, <1>3, <1>4, <1>5 DEF Working

\* The call when one of the versions is about to be discarded.
LEMMA DropCall ==
  ASSUME TypeInv, NEW c \in Callers, NEW t,
         call' = [call EXCEPT ![c].work = @ \ {t}, ![c].tree = t, ![c].left = t,
                              ![c].steps = <<"discard">> \o @]
  PROVE  /\ call'[c].op = call[c].op /\ call'[c].skill = call[c].skill
         /\ call'[c].previous = call[c].previous /\ call'[c].created = call[c].created
         /\ call'[c].error = call[c].error /\ call'[c].faults = call[c].faults
         /\ call'[c].before = call[c].before
         /\ call'[c].tree = t /\ call'[c].work = call[c].work \ {t}
         /\ call'[c].steps = <<"discard">> \o call[c].steps
<1> DEFINE n == [call[c] EXCEPT !.work = call[c].work \ {t}, !.tree = t, !.left = t,
                                !.steps = <<"discard">> \o call[c].steps]
<1>1. call[c] \in Calls
  BY DEF TypeInv, TypeOK
<1>2. call' = [call EXCEPT ![c] = n]
  OBVIOUS
<1>3. call'[c] = n
  BY <1>2, CallBecomes
<1>4. /\ n.op = call[c].op /\ n.skill = call[c].skill /\ n.previous = call[c].previous
      /\ n.created = call[c].created /\ n.error = call[c].error /\ n.faults = call[c].faults
      /\ n.before = call[c].before /\ n.tree = t /\ n.work = call[c].work \ {t}
      /\ n.steps = <<"discard">> \o call[c].steps
  BY <1>1 DEF Calls
<1>5. QED
  BY <1>3, <1>4

\* One of the listed versions is taken.
LEMMA DropWork ==
  ASSUME TypeInv, NEW c \in Callers, call[c].op \in Commands,
         NEW i \in 1..Len(Script[call[c].op]), Working(call[c], i),
         Head(call[c].steps) = Script[call[c].op][i],
         At(c, "drop"), NEW t \in call[c].work,
         call'[c].op = call[c].op, call'[c].skill = call[c].skill,
         call'[c].previous = call[c].previous, call'[c].created = call[c].created,
         call'[c].tree = t, call'[c].work = call[c].work \ {t},
         call'[c].steps = <<"discard">> \o call[c].steps,
         UNCHANGED <<catalog, versions, current, portable, behind>>
  PROVE  Dropping(call[c])'
<1> DEFINE k == call[c]
<1>1. k.op = "delete" /\ i = 7
  BY Positions DEF At
<1>2. /\ ~k.created /\ k.skill \notin catalog /\ current[k.skill] = k.previous
      /\ portable[k.skill] = Absent /\ k.skill \notin behind /\ k.steps = From("delete", 7)
      /\ \A u \in k.work : Version(k.skill, u) \in versions
  BY <1>1 DEF Working, Captured, Capturing, Pointed, Checked, Recorded, Deleting, MovesAt,
              RecordsAt
<1>3. \A u \in call'[c].work \union {call'[c].tree} : Version(call'[c].skill, u) \in versions'
  BY <1>2
<1>4. QED
  BY <1>1, <1>2, <1>3 DEF Dropping

\* What is left to a delete that discards a version.
LEMMA DroppingSteps ==
  /\ <<"discard">> \o From("delete", 7) # <<>>
  /\ Head(<<"discard">> \o From("delete", 7)) = "discard"
  /\ Tail(<<"discard">> \o From("delete", 7)) = From("delete", 7)
<1>1. From("delete", 7) \in Seq(StepNames)
  <2>1. Script["delete"] \in Seq(StepNames) /\ Len(Script["delete"]) = 8
    BY ScriptTyped, ScriptTables DEF Commands
  <2>2. QED
    BY <2>1 DEF From
<1>2. QED
  BY <1>1

\* It is gone; the others are still there.
LEMMA DiscardWork ==
  ASSUME TypeInv, NEW c \in Callers, Dropping(call[c]), Discard(c)
  PROVE  Working(call[c], 7)'
<1> DEFINE k == call[c]
<1>1. /\ call'[c].op = "delete" /\ call'[c].skill = k.skill
      /\ call'[c].steps = From("delete", 7)
      /\ call'[c].previous = k.previous /\ call'[c].tree = k.tree
      /\ call'[c].created = k.created /\ call'[c].work = k.work
  BY DiscardGoes, DroppingSteps DEF Goes, Keeps, Dropping
<1>2. /\ UNCHANGED <<catalog, current, portable, behind>>
      /\ versions' = versions \ {Version(k.skill, k.tree)}
  BY DEF Discard, database, records
<1>3. \A t \in k.work : Version(k.skill, t) \in versions'
  BY <1>2 DEF Dropping, Version
<1>4. Captured(call[c], 7)'
  BY <1>1 DEF Dropping, Captured, Capturing
<1>5. Pointed(call[c], 7)' /\ Recorded(call[c], 7)'
  BY <1>1, <1>2 DEF Dropping, Pointed, Recorded, MovesAt, RecordsAt, Checked
<1>6. Deleting(call[c], 7)' /\ Updating(call[c], 7)'
  BY <1>1, <1>2, <1>3 DEF Dropping, Deleting, Updating
<1>7. QED
  BY <1>1, <1>4, <1>5, <1>6 DEF Working

-----------------------------------------------------------------------------
(* Every step of a command that has not failed                             *)

\* A step within a step: the command stays where it is.
LEMMA StayingWork ==
  ASSUME WorkInv, NEW c \in Callers,
         call'[c].op = call[c].op, call'[c].skill = call[c].skill,
         call'[c].steps = call[c].steps, call'[c].error = call[c].error,
         call'[c].tree = call[c].tree, call'[c].previous = call[c].previous,
         call'[c].created = call[c].created, call'[c].work = call[c].work,
         UNCHANGED <<catalog, link, revision, versions, current, portable, behind>>
  PROVE  Progress(call[c])'
<1>1. Progress(call[c])
  BY DEF WorkInv
<1>2. Dropping(call[c]) => Dropping(call[c])'
  BY DEF Dropping
<1>3. ASSUME NEW i \in Nat, Working(call[c], i) PROVE Working(call[c], i)'
  <2>1. Captured(call[c], i)' /\ Pointed(call[c], i)'
    BY <1>3 DEF Working, Captured, Pointed, Checked, There
  <2>2. Recorded(call[c], i)' /\ Deleting(call[c], i)' /\ Updating(call[c], i)'
    BY <1>3 DEF Working, Recorded, Deleting, Updating
  <2>3. QED
    BY <1>3, <2>1, <2>2 DEF Working
<1>4. \A i \in 1..(Len(Script[call[c].op]) + 1) : i \in Nat
  OBVIOUS
<1>5. QED
  BY <1>1, <1>2, <1>3, <1>4 DEF Progress

\* The steps with a field of their own.
LEMMA ScanProgress ==
  ASSUME TypeInv, WorkInv, NEW c \in Callers,
         Scan(c) \/ HashTree(c) \/ PublishManifest(c) \/ Point(c) \/ CheckSource(c)
  PROVE  Progress(call[c])'
<1>1. call[c].steps # <<>> /\ call[c].op # "none" /\ Head(call[c].steps) # "discard"
  BY DEF Scan, HashTree, PublishManifest, Point, CheckSource, At, Busy
<1>2. Goes(c)
  BY ScanGoes, HashGoes, PublishGoes, AdvanceGoes, CheckGoes DEF Point, At
<1>3. CASE call[c].error
  BY <1>2, <1>3, ErrorGoes DEF Goes
<1>4. CASE ~call[c].error
  <2>1. ~Dropping(call[c])
    BY <1>1, DroppingSteps DEF Dropping
  <2>2. PICK i \in 1..Len(Script[call[c].op]) :
          /\ Working(call[c], i) /\ i + 1 \in 1..(Len(Script[call[c].op]) + 1)
          /\ Head(call[c].steps) = Script[call[c].op][i]
          /\ Tail(call[c].steps) = From(call[c].op, i + 1)
    BY <1>1, <1>4, <2>1, PickStep
  <2>3. call[c].op \in Commands
    BY <1>1, <1>4, PickStep
  <2>4. Working(call[c], i + 1)'
    BY <2>2, <2>3, ScanWork, CaptureWork, PointWork, CheckWork
  <2>5. QED
    BY <1>1, <1>2, <1>4, <2>2, <2>4, WorkGoes DEF Goes
<1>5. QED
  BY <1>3, <1>4

\* What these steps leave of the call.
LEMMA ListFields ==
  ASSUME TypeInv, NEW c \in Callers,
         \/ ListVersions(c) \/ WriteLibraryJson(c) \/ ClearCurrent(c) \/ RemoveRow(c)
         \/ DropVersions(c) /\ Advance(c)
  PROVE  /\ call[c].steps # <<>> /\ call[c].op # "none" /\ Head(call[c].steps) # "discard"
         /\ call'[c].op = call[c].op /\ call'[c].error = call[c].error
         /\ call'[c].steps = Tail(call[c].steps)
<1>1. call[c].steps # <<>> /\ call[c].op # "none" /\ Head(call[c].steps) # "discard"
  BY DEF ListVersions, WriteLibraryJson, ClearCurrent, RemoveRow, DropVersions, At, Busy
<1>2. CASE ListVersions(c)
  BY <1>1, <1>2, ListGoes
<1>3. CASE WriteLibraryJson(c)
  BY <1>1, <1>3, SeenGoes DEF Goes
<1>4. CASE ClearCurrent(c) \/ RemoveRow(c) \/ (DropVersions(c) /\ Advance(c))
  BY <1>1, <1>4, AdvanceGoes DEF Goes, ClearCurrent, RemoveRow
<1>5. QED
  BY <1>1, <1>2, <1>3, <1>4

\* The steps of a delete, and the end of the record.
LEMMA ListProgress ==
  ASSUME TypeInv, WorkInv, NEW c \in Callers,
         \/ ListVersions(c) \/ WriteLibraryJson(c) \/ ClearCurrent(c) \/ RemoveRow(c)
         \/ DropVersions(c) /\ Advance(c)
  PROVE  Progress(call[c])'
<1>1. /\ call[c].steps # <<>> /\ call[c].op # "none" /\ Head(call[c].steps) # "discard"
      /\ call'[c].op = call[c].op /\ call'[c].error = call[c].error
      /\ call'[c].steps = Tail(call[c].steps)
  BY ListFields
<1>2. CASE call[c].error
  BY <1>1, <1>2, ErrorGoes
<1>3. CASE ~call[c].error
  <2>1. ~Dropping(call[c])
    BY <1>1, DroppingSteps DEF Dropping
  <2>2. PICK i \in 1..Len(Script[call[c].op]) :
          /\ Working(call[c], i) /\ i + 1 \in 1..(Len(Script[call[c].op]) + 1)
          /\ Head(call[c].steps) = Script[call[c].op][i]
          /\ Tail(call[c].steps) = From(call[c].op, i + 1)
    BY <1>1, <1>3, <2>1, PickStep
  <2>3. call[c].op \in Commands
    BY <1>1, <1>3, PickStep
  <2>4. CASE DropVersions(c) /\ Advance(c)
    <3>1. At(c, "drop") /\ UNCHANGED <<catalog, versions, current, portable, behind>>
      BY <2>4 DEF DropVersions, database, store, records
    <3>2. Working(call[c], i + 1)'
      BY <2>2, <2>3, <2>4, <3>1, DroppedWork
    <3>3. QED
      BY <1>1, <1>3, <2>2, <3>2, WorkGoes
  <2>5. CASE ~(DropVersions(c) /\ Advance(c))
    <3>1. Working(call[c], i + 1)'
      BY <2>2, <2>3, <2>5, ListWork, RecordWork, ClearWork, UnrowWork
    <3>2. QED
      BY <1>1, <1>3, <2>2, <3>1, WorkGoes
  <2>6. QED
    BY <2>4, <2>5
<1>4. QED
  BY <1>2, <1>3

\* The steps that advance.
LEMMA QuietProgress ==
  ASSUME TypeInv, WorkInv, NEW c \in Callers,
         \/ Reread(c) \/ ReadLibraryJson(c) \/ LockDatabase(c) \/ Lookup(c) \/ InsertRow(c)
         \/ Relink(c) \/ SetRevision(c) \/ ClosePlan(c) \/ OpenLibrary(c)
  PROVE  Progress(call[c])'
<1>1. /\ call[c].steps # <<>> /\ call[c].op # "none"
      /\ Head(call[c].steps) \in {"reread", "read", "lock", "lookup", "verify", "row", "rerow",
                                  "origin", "revise", "close", "open"}
  BY DEF Reread, ReadLibraryJson, LockDatabase, Lookup, InsertRow, Relink, SetRevision, ClosePlan,
         OpenLibrary, At, Busy
<1>2. Goes(c) /\ Keeps(c)
  <2>1. CASE ReadLibraryJson(c)
    BY <2>1, SeenGoes
  <2>2. CASE ~ReadLibraryJson(c)
    BY <1>1, <2>2, AdvanceGoes DEF Reread, LockDatabase, Lookup, InsertRow, Relink, SetRevision,
                                   ClosePlan, OpenLibrary
  <2>3. QED
    BY <2>1, <2>2
<1>3. CASE call[c].error
  BY <1>2, <1>3, ErrorGoes DEF Goes
<1>4. CASE ~call[c].error
  <2>1. ~Dropping(call[c])
    BY <1>1, DroppingSteps DEF Dropping
  <2>2. PICK i \in 1..Len(Script[call[c].op]) :
          /\ Working(call[c], i) /\ i + 1 \in 1..(Len(Script[call[c].op]) + 1)
          /\ Head(call[c].steps) = Script[call[c].op][i]
          /\ Tail(call[c].steps) = From(call[c].op, i + 1)
    BY <1>1, <1>4, <2>1, PickStep
  <2>3. call[c].op \in Commands
    BY <1>1, <1>4, PickStep
  <2>4. UNCHANGED <<versions, current, portable>>
    BY DEF Reread, ReadLibraryJson, LockDatabase, Lookup, InsertRow, Relink, SetRevision,
           ClosePlan, OpenLibrary, store, records
  <2>5. call[c].op = "delete" => catalog' \subseteq catalog
    <3>1. CASE InsertRow(c)
      <4>1. Script[call[c].op][i] \in {"row", "rerow"}
        BY <2>2, <3>1 DEF InsertRow, At
      <4>2. QED
        BY <2>3, <4>1, Positions
    <3>2. CASE ~InsertRow(c)
      BY <3>2 DEF Reread, ReadLibraryJson, LockDatabase, Lookup, Relink, SetRevision, ClosePlan,
                  OpenLibrary, database
    <3>3. QED
      BY <3>1, <3>2
  <2>6. call[c].op = "update" => i >= 5 \/ UNCHANGED <<link, revision>>
    <3>1. CASE Relink(c) \/ SetRevision(c)
      <4>1. Script[call[c].op][i] \in {"origin", "revise"}
        BY <2>2, <3>1 DEF Relink, SetRevision, At
      <4>2. QED
        BY <2>3, <4>1, Positions
    <3>2. CASE ~(Relink(c) \/ SetRevision(c))
      BY <3>2 DEF Reread, ReadLibraryJson, LockDatabase, Lookup, InsertRow, ClosePlan,
                  OpenLibrary, database
    <3>3. QED
      BY <3>1, <3>2
  <2>7. Script[call[c].op][i] \notin {"capture", "point", "record", "unrecord", "clear", "list",
                                      "drop", "unrow", "check"}
    BY <1>1, <2>2
  <2>8. behind' = behind \/ i < RecordsAt(call[c].op)
    <3>1. CASE InsertRow(c)
      <4>1. Script[call[c].op][i] \in {"row", "rerow"}
        BY <2>2, <3>1 DEF InsertRow, At
      <4>2. QED
        BY <2>3, <4>1, Positions DEF RecordsAt
    <3>2. CASE ~InsertRow(c)
      BY <3>2 DEF Reread, ReadLibraryJson, LockDatabase, Lookup, Relink, SetRevision, ClosePlan,
                  OpenLibrary, records
    <3>3. QED
      BY <3>1, <3>2
  <2>9. Working(call[c], i + 1)'
    BY <1>2, <2>2, <2>3, <2>4, <2>5, <2>6, <2>7, <2>8, QuietWork
  <2>10. QED
    BY <1>1, <1>2, <1>4, <2>2, <2>9, WorkGoes DEF Goes
<1>5. QED
  BY <1>3, <1>4

-----------------------------------------------------------------------------
(* Steps within a step, cleanups and failures                              *)

\* A step within a step changes what is left to put or to look at.
LEMMA SweepFields ==
  ASSUME TypeInv, NEW c \in Callers,
         Put(c) \/ (\E o \in Objects : Inspect(c, o)) \/ RemoveObject(c)
  PROVE  /\ call'[c].op = call[c].op /\ call'[c].skill = call[c].skill
         /\ call'[c].steps = call[c].steps /\ call'[c].error = call[c].error
         /\ call'[c].tree = call[c].tree /\ call'[c].previous = call[c].previous
         /\ call'[c].created = call[c].created /\ call'[c].work = call[c].work
         /\ call'[c].faults = call[c].faults /\ call'[c].before = call[c].before
         /\ call'[c].seen = call[c].seen
<1> DEFINE Same(n) ==
             /\ n.op = call[c].op /\ n.skill = call[c].skill /\ n.steps = call[c].steps
             /\ n.error = call[c].error /\ n.tree = call[c].tree /\ n.previous = call[c].previous
             /\ n.created = call[c].created /\ n.work = call[c].work /\ n.faults = call[c].faults
             /\ n.before = call[c].before /\ n.seen = call[c].seen
<1>1. call[c] \in Calls
  BY DEF TypeInv, TypeOK
<1>2. CASE Put(c)
  <2>1. PICK o \in call[c].left : call' = [call EXCEPT ![c].left = @ \ {o}]
    BY <1>2 DEF Put
  <2> DEFINE m == call[c].left \ {o}
             n == [call[c] EXCEPT !.left = m]
  <2>2. call' = [call EXCEPT ![c] = n]
    BY <2>1
  <2>3. call'[c] = n
    BY <2>2, CallBecomes
  <2>4. Same(n)
    <3> HIDE DEF m
    <3>1. QED
      BY <1>1 DEF Calls
  <2>5. QED
    BY <2>3, <2>4
<1>3. CASE \E o \in Objects : Inspect(c, o)
  <2>1. PICK o \in Objects : Inspect(c, o)
    BY <1>3
  <2> DEFINE w == call[c].sweep \ {o}
             d == IF o \in objects /\ ~Referenced(o) THEN o ELSE None
             n == [call[c] EXCEPT !.sweep = w, !.doomed = d]
  <2>2. call' = [call EXCEPT ![c] = n]
    BY <2>1 DEF Inspect
  <2>3. call'[c] = n
    BY <2>2, CallBecomes
  <2>4. Same(n)
    <3> HIDE DEF w, d
    <3>1. QED
      BY <1>1 DEF Calls
  <2>5. QED
    BY <2>3, <2>4
<1>4. CASE RemoveObject(c)
  <2> DEFINE n == [call[c] EXCEPT !.doomed = None]
  <2>1. call' = [call EXCEPT ![c] = n]
    BY <1>4 DEF RemoveObject
  <2>2. call'[c] = n
    BY <2>1, CallBecomes
  <2>3. Same(n)
    BY <1>1 DEF Calls
  <2>4. QED
    BY <2>2, <2>3
<1>5. QED
  BY <1>2, <1>3, <1>4

\* Putting and looking at objects stays at the step.
LEMMA SweepProgress ==
  ASSUME TypeInv, WorkInv, NEW c \in Callers,
         Put(c) \/ (\E o \in Objects : Inspect(c, o)) \/ RemoveObject(c)
  PROVE  Progress(call[c])'
<1>1. UNCHANGED <<catalog, link, revision, versions, current, portable, behind>>
  BY DEF Put, Inspect, RemoveObject, database, store, records
<1>2. QED
  BY <1>1, SweepFields, StayingWork

\* What only a cleanup does, and a delete discarding versions.
LEMMA UndoProgress ==
  ASSUME TypeInv, WorkInv, NEW c \in Callers, Repoint(c) \/ Discard(c)
  PROVE  Progress(call[c])'
<1>1. /\ call[c].steps # <<>> /\ call[c].op # "none"
      /\ Head(call[c].steps) \in {"repoint", "discard"}
  BY DEF Repoint, Discard, At, Busy
<1>2. Goes(c)
  BY <1>1, AdvanceGoes, DiscardGoes DEF Repoint
<1>3. CASE call[c].error
  BY <1>2, <1>3, ErrorGoes DEF Goes
<1>4. CASE ~call[c].error
  <2>1. Dropping(call[c])
    BY <1>1, <1>4, PickStep, Positions
  <2>2. call[c].op = "delete" /\ Discard(c)
    BY <2>1, DroppingSteps DEF Dropping, Repoint, At
  <2>3. Working(call[c], 7)'
    BY <2>1, <2>2, DiscardWork
  <2>4. 7 \in 1..(Len(Script["delete"]) + 1)
    BY ScriptTables
  <2>5. QED
    BY <1>1, <1>2, <1>4, <2>2, <2>3, <2>4, WorkGoes DEF Goes
<1>5. QED
  BY <1>3, <1>4

\* A delete that discards versions.
LEMMA DropProgress ==
  ASSUME TypeInv, WorkInv, NEW c \in Callers, DropVersions(c), ~Advance(c)
  PROVE  Progress(call[c])'
<1>1. /\ call[c].steps # <<>> /\ call[c].op # "none" /\ Head(call[c].steps) = "drop"
  BY DEF DropVersions, At, Busy
<1>2. UNCHANGED <<catalog, versions, current, portable, behind>> /\ At(c, "drop")
  BY DEF DropVersions, database, store, records
<1>3. PICK t \in call[c].work :
        call' = [call EXCEPT ![c].work = @ \ {t}, ![c].tree = t, ![c].left = t,
                             ![c].steps = <<"discard">> \o @]
  BY DEF DropVersions
<1>4. /\ call'[c].op = call[c].op /\ call'[c].skill = call[c].skill
      /\ call'[c].previous = call[c].previous /\ call'[c].created = call[c].created
      /\ call'[c].error = call[c].error
      /\ call'[c].tree = t /\ call'[c].work = call[c].work \ {t}
      /\ call'[c].steps = <<"discard">> \o call[c].steps
  BY <1>3, DropCall
<1>5. CASE call[c].error
  <2>1. call[c].steps \in Seq(UndoSteps)
    BY <1>1, <1>5 DEF WorkInv, Progress
  <2>2. Head(call[c].steps) \in UndoSteps
    BY <1>1, <2>1
  <2>3. QED
    BY <1>1, <2>2 DEF UndoSteps
<1>6. CASE ~call[c].error
  <2>1. ~Dropping(call[c])
    BY <1>1, DroppingSteps DEF Dropping
  <2>2. PICK i \in 1..Len(Script[call[c].op]) :
          Working(call[c], i) /\ Head(call[c].steps) = Script[call[c].op][i]
    BY <1>1, <1>6, <2>1, PickStep
  <2>3. call[c].op \in Commands
    BY <1>1, <1>6, PickStep
  <2>4. Dropping(call[c])'
    BY <1>2, <1>4, <2>2, <2>3, DropWork
  <2>5. QED
    BY <1>4, <1>6, <2>4 DEF Progress
<1>7. QED
  BY <1>5, <1>6

\* A failure replaces the steps by those of the cleanup.
LEMMA FailFields ==
  ASSUME TypeInv, NEW c \in Callers, Fail(c)
  PROVE  /\ call[c] \in Calls /\ call[c].op # "none" /\ call[c].steps # <<>>
         /\ call'[c].op = call[c].op /\ call'[c].skill = call[c].skill /\ call'[c].error = TRUE
         /\ call'[c].steps = (IF call[c].error THEN CleanupFails(call[c]) ELSE Undo(call[c]))
         /\ call'[c].faults = call[c].faults + (IF Ready(c) THEN 1 ELSE 0)
         /\ call'[c].tree = call[c].tree /\ call'[c].previous = call[c].previous
         /\ call'[c].created = call[c].created /\ call'[c].work = call[c].work
         /\ call'[c].before = call[c].before
         /\ UNCHANGED <<database, store, records, plans, lock, world>>
<1> DEFINE ss == IF call[c].error THEN CleanupFails(call[c]) ELSE Undo(call[c])
           f == call[c].faults + (IF Ready(c) THEN 1 ELSE 0)
           n == [call[c] EXCEPT !.steps = ss, !.error = TRUE, !.seen = NoRecords, !.faults = f]
<1>1. call[c] \in Calls /\ call[c].op # "none" /\ call[c].steps # <<>>
  BY DEF TypeInv, TypeOK, Fail, Busy
<1>2. call' = [call EXCEPT ![c] = n]
  BY DEF Fail
<1>3. call'[c] = n
  BY <1>2, CallBecomes
<1>4. /\ n.op = call[c].op /\ n.skill = call[c].skill /\ n.error = TRUE /\ n.steps = ss
      /\ n.faults = f /\ n.tree = call[c].tree /\ n.previous = call[c].previous
      /\ n.created = call[c].created /\ n.work = call[c].work /\ n.before = call[c].before
  <2> HIDE DEF ss, f
  <2>1. QED
    BY <1>1 DEF Calls
<1>5. UNCHANGED <<database, store, records, plans, lock, world>>
  BY DEF Fail
<1>6. QED
  BY <1>1, <1>3, <1>4, <1>5

\* A failed step leaves a cleanup, or the error of a step without one.
LEMMA FailProgress ==
  ASSUME TypeInv, WorkInv, NEW c \in Callers, Fail(c)
  PROVE  Progress(call[c])'
<1>1. /\ call[c] \in Calls /\ call[c].op # "none" /\ call[c].steps # <<>>
      /\ call'[c].op = call[c].op /\ call'[c].error = TRUE
      /\ call'[c].steps = (IF call[c].error THEN CleanupFails(call[c]) ELSE Undo(call[c]))
  BY FailFields
<1>2. call[c].error => call[c].steps \in Seq(UndoSteps)
  BY <1>1 DEF WorkInv, Progress
<1>3. call'[c].steps \in Seq(UndoSteps)
  BY <1>1, <1>2, UndoStepsOf
<1>4. QED
  BY <1>1, <1>3 DEF Progress

\* What a command begins with.
LEMMA BeginsFields ==
  ASSUME TypeInv, NEW c \in Callers, NEW op \in Commands, NEW s, NEW fields \in Calls,
         Begins(c, op, s, fields)
  PROVE  /\ call'[c].op = op /\ call'[c].skill = s /\ call'[c].steps = From(op, 1)
         /\ call'[c].tree = fields.tree /\ call'[c].previous = fields.previous
         /\ call'[c].created = fields.created /\ call'[c].error = fields.error
         /\ call'[c].faults = fields.faults /\ call'[c].source = fields.source
         /\ call'[c].before = Snapshot(catalog, behind, versions, current, portable)
         /\ UNCHANGED <<database, store, records, plans, lock, world>>
<1> DEFINE l == IF fields.tree = None THEN {} ELSE fields.tree
           b == Snapshot(catalog, behind, versions, current, portable)
           n == [fields EXCEPT !.op = op, !.skill = s, !.steps = Script[op], !.left = l,
                               !.before = b]
<1>1. call' = [call EXCEPT ![c] = n]
  BY DEF Begins
<1>2. call'[c] = n
  BY <1>1, CallBecomes
<1>3. /\ n.op = op /\ n.skill = s /\ n.steps = Script[op] /\ n.tree = fields.tree
      /\ n.previous = fields.previous /\ n.created = fields.created /\ n.error = fields.error
      /\ n.faults = fields.faults /\ n.source = fields.source /\ n.before = b
  <2> HIDE DEF l, b
  <2>1. QED
    BY DEF Calls
<1>4. UNCHANGED <<database, store, records, plans, lock, world>>
  BY DEF Begins
<1>5. QED
  BY <1>2, <1>3, <1>4, ScriptStarts

-----------------------------------------------------------------------------
(* The start of a command                                                  *)

\* A command begins at the first step of its script.
LEMMA StartProgress ==
  ASSUME TypeInv, NEW c \in Callers, Start(c)
  PROVE  Progress(call[c])'
<1>1. PICK s \in Skills, op \in Commands, fields \in Quiet :
        Begins(c, op, s, fields) /\ Prepared(op, s, fields)
  BY StartPrepared
<1>2. /\ call'[c].op = op /\ call'[c].skill = s /\ call'[c].steps = From(op, 1)
      /\ call'[c].tree = fields.tree /\ call'[c].previous = fields.previous
      /\ call'[c].created = fields.created /\ call'[c].error = fields.error
      /\ UNCHANGED <<database, store, records, plans, lock, world>>
  BY <1>1, BeginsFields DEF Quiet
<1>3. UNCHANGED <<catalog, link, revision, versions, current, portable, behind>>
  BY <1>2 DEF database, store, records
<1>4. /\ ~(1 > CapturesAt(op)) /\ ~(1 > MovesAt(op)) /\ ~(1 > RecordsAt(op))
      /\ 1 \in 1..(Len(Script[op]) + 1) /\ 1 <= MovesAt(op)
  BY ScriptLength DEF CapturesAt, MovesAt, RecordsAt
<1>5. ~call'[c].created /\ ~call'[c].error
  BY <1>1, <1>2 DEF Prepared
<1>6. Captured(call[c], 1)'
  BY <1>2, <1>4, <1>5 DEF Captured
<1>7. Pointed(call[c], 1)'
  <2>1. op \in {"create", "import"} => fields.previous = None /\ current[s] = None
    BY <1>1 DEF Prepared, Fresh
  <2>2. op \notin {"create", "import", "update"} =>
          fields.previous = current[s] /\ CurrentResolves(s)
    BY <1>1 DEF Prepared, Existing
  <2>3. op = "rename" => fields.tree = current[s]
    BY <1>1 DEF Prepared
  <2>4. Checked(call[c], 1)' => op # "update"
    BY <1>2 DEF Checked
  <2>5. Checked(call[c], 1)' =>
          current'[call'[c].skill] = call'[c].previous /\ There(call[c].skill, call[c].previous)'
    BY <1>2, <1>3, <2>1, <2>2, <2>4 DEF There, CurrentResolves
  <2>6. QED
    BY <1>2, <1>3, <1>4, <2>1, <2>2, <2>3, <2>5 DEF Pointed
<1>8. Recorded(call[c], 1)' /\ Deleting(call[c], 1)' /\ Updating(call[c], 1)'
  BY <1>2, <1>4 DEF Recorded, Deleting, Updating
<1>9. Working(call[c], 1)'
  BY <1>2, <1>6, <1>7, <1>8 DEF Working
<1>10. QED
  BY <1>2, <1>4, <1>5, <1>9 DEF Progress

-----------------------------------------------------------------------------
(* What the scripts keep, and what follows                                 *)

\* Every revision that is recorded is one that the source held, or that a relink declared.
LEMMA AcceptedStep ==
  ASSUME TypeInv, WorkInv, [Next]_vars PROVE RevisionsAreAccepted'
<1>1. RevisionsAreAccepted
  BY DEF WorkInv
<1>2. CASE \E c \in Callers : SetRevision(c)
  <2>1. PICK c \in Callers : SetRevision(c)
    BY <1>2
  <2> DEFINE src == link[call[c].skill]
             tree == IF call[c].op = "relink" THEN call[c].previous ELSE call[c].tree
  <2>2. \/ UNCHANGED <<revision, accepted>>
        \/ /\ revision' = [revision EXCEPT ![src] = tree]
           /\ accepted' = [accepted EXCEPT ![src] = @ \union ({tree} \ {None})]
    BY <2>1 DEF SetRevision
  <2>3. revision \in [Sources -> Trees \union {None}] /\ accepted \in [Sources -> SUBSET Trees]
    BY DEF TypeInv, TypeOK
  <2>4. QED
    <3> HIDE DEF src, tree
    <3>1. QED
      BY <1>1, <2>2, <2>3 DEF RevisionsAreAccepted
<1>3. CASE \E src \in Sources, t \in Trees : UpstreamChanges(src, t)
  <2>1. PICK src \in Sources, t \in Trees : UpstreamChanges(src, t)
    BY <1>3
  <2>2. revision' = revision /\ accepted' = [accepted EXCEPT ![src] = @ \union {t}]
    BY <2>1 DEF UpstreamChanges, database
  <2>3. accepted \in [Sources -> SUBSET Trees]
    BY DEF TypeInv, TypeOK
  <2>4. QED
    BY <1>1, <2>2, <2>3 DEF RevisionsAreAccepted
<1>4. CASE \E c \in Callers : Start(c)
  <2>1. PICK c \in Callers, s \in Skills, op \in Commands, fields \in Quiet :
          Begins(c, op, s, fields)
    BY <1>4, StartPrepared
  <2>2. UNCHANGED <<revision, accepted>>
    BY <2>1 DEF Begins, database, world
  <2>3. QED
    BY <1>1, <2>2 DEF RevisionsAreAccepted
<1>5. CASE \E c \in Callers : Step(c) /\ ~SetRevision(c)
  <2>1. PICK c \in Callers : Step(c) /\ ~SetRevision(c)
    BY <1>5
  <2>2. UNCHANGED <<revision, accepted>>
    BY <2>1 DEF Step, Scan, Put, PublishManifest, Point, Repoint, ClearCurrent, Discard, Inspect,
                RemoveObject, ListVersions, DropVersions, Reread, OpenLibrary, ReadLibraryJson,
                WriteLibraryJson, LockDatabase, Lookup, InsertRow, RemoveRow, Relink, HashTree,
                CheckSource, ClosePlan, Fail, Answer, database, world
  <2>3. QED
    BY <1>1, <2>2 DEF RevisionsAreAccepted
<1>6. CASE Crash \/ (\E p \in Plans : DropPlan(p) \/ \E src \in Sources : PrepareImport(p, src))
           \/ UNCHANGED vars
  <2>1. UNCHANGED <<revision, accepted>>
    BY <1>6 DEF Crash, DropPlan, PrepareImport, vars, database, world
  <2>2. QED
    BY <1>1, <2>1 DEF RevisionsAreAccepted
<1>7. QED
  BY <1>2, <1>3, <1>4, <1>5, <1>6 DEF Next

\* An idle call has no script.
LEMMA IdleProgress == ASSUME NEW k, k = Idle PROVE k.op = "none"
  BY DEF Idle

\* Every step keeps the command in its script.
LEMMA StepProgress ==
  ASSUME TypeInv, WorkInv, NEW c \in Callers, Step(c)
  PROVE  Progress(call[c])'
<1>1. CASE Answer(c)
  <2>1. call'[c] = Idle
    BY <1>1 DEF Answer, TypeInv, TypeOK
  <2>2. QED
    BY <2>1, IdleProgress DEF Progress
<1>2. CASE ~Answer(c)
  BY <1>2, ScanProgress, ListProgress, QuietProgress, SweepProgress, UndoProgress, DropProgress,
     FailProgress DEF Step
<1>3. QED
  BY <1>1, <1>2

\* The invariant of the scripts is inductive.
LEMMA WorkInvStep == ASSUME OneCaller PROVE TypeInv /\ WorkInv /\ [Next]_vars => WorkInv'
<1> SUFFICES ASSUME TypeInv, WorkInv, [Next]_vars PROVE WorkInv'
  OBVIOUS
<1>1. RevisionsAreAccepted'
  BY AcceptedStep
<1>2. CASE \E c \in Callers : Start(c) \/ Step(c)
  BY <1>1, <1>2, StartProgress, StepProgress, OneProgress
<1>3. CASE (\E p \in Plans : DropPlan(p) \/ \E src \in Sources : PrepareImport(p, src))
           \/ (\E src \in Sources, t \in Trees : UpstreamChanges(src, t)) \/ UNCHANGED vars
  <2>1. UNCHANGED <<call, catalog, link, revision, versions, current, portable, behind>>
    BY <1>3 DEF DropPlan, PrepareImport, UpstreamChanges, vars, database, store, records
  <2>2. \A c \in Callers : Progress(call[c])'
    BY <2>1, StayingWork
  <2>3. QED
    BY <1>1, <2>2 DEF WorkInv
<1>4. CASE Crash
  <2>1. \A c \in Callers : call'[c] = Idle
    BY <1>4 DEF Crash
  <2>2. \A c \in Callers : Progress(call[c])'
    BY <2>1, IdleProgress DEF Progress
  <2>3. QED
    BY <1>1, <2>2 DEF WorkInv
<1>5. QED
  BY <1>2, <1>3, <1>4 DEF Next

\* The invariant of the scripts holds at first.
LEMMA WorkInvInit == Init => WorkInv
<1> SUFFICES ASSUME Init PROVE WorkInv
  OBVIOUS
<1>1. \A c \in Callers : call[c] = Idle
  BY DEF Init
<1>2. \A c \in Callers : Progress(call[c])
  BY <1>1, IdleProgress DEF Progress
<1>3. RevisionsAreAccepted
  BY DEF Init, RevisionsAreAccepted
<1>4. QED
  BY <1>2, <1>3 DEF WorkInv

\* Taking upstream replaces only content that came from the source: check_source_update has
\* found the current version equal to the recorded revision, fails without one, and nothing
\* between the check and set_current moves the pointer, the link or the revision.
THEOREM LocalEditsAreProtected == ASSUME OneCaller PROVE Spec => UpdatesKeepLocalEdits
<1>1. TypeInv /\ WorkInv /\ [Next]_vars =>
        [\A c \in Callers :
           TakesUpstream(c) => current[call[c].skill] \in accepted[link[call[c].skill]]]_vars
  <2> SUFFICES ASSUME TypeInv, WorkInv, NEW c \in Callers, TakesUpstream(c)
               PROVE  current[call[c].skill] \in accepted[link[call[c].skill]]
    OBVIOUS
  <2>1. /\ call[c].op = "update" /\ call[c].steps # <<>> /\ Head(call[c].steps) = "point"
    BY DEF TakesUpstream, At
  <2>2. ~call[c].error
    <3>1. SUFFICES ASSUME call[c].error PROVE FALSE
      OBVIOUS
    <3>2. call[c].steps \in Seq(UndoSteps)
      BY <2>1, <3>1 DEF WorkInv, Progress
    <3>3. Head(call[c].steps) \in UndoSteps
      BY <2>1, <3>2
    <3>4. QED
      BY <2>1, <3>3 DEF UndoSteps
  <2>3. ~Dropping(call[c])
    BY <2>1 DEF Dropping
  <2>4. PICK i \in 1..Len(Script["update"]) :
          Working(call[c], i) /\ Script["update"][i] = "point"
    BY <2>1, <2>2, <2>3, PickStep
  <2>5. i = 5
    BY <2>4, Positions DEF Commands, MovesAt
  <2>6. /\ link[call[c].skill] # None /\ call[c].previous # None
        /\ revision[link[call[c].skill]] = call[c].previous
        /\ current[call[c].skill] = call[c].previous
    BY <2>1, <2>4, <2>5 DEF Working, Updating, Pointed, Checked, MovesAt
  <2>7. call[c].skill \in Skills
    BY <2>1 DEF TypeInv, SkillNamed
  <2>8. link[call[c].skill] \in Sources
    BY <2>6, <2>7 DEF TypeInv, TypeOK
  <2>9. QED
    BY <2>6, <2>8 DEF WorkInv, RevisionsAreAccepted
<1>2. TypeInv /\ WorkInv /\ [Next]_vars => WorkInv'
  BY WorkInvStep
<1>3. QED
  BY <1>1, <1>2, TypeInvInit, TypeInvStep, WorkInvInit, PTL
     DEF Spec, UpdatesKeepLocalEdits

\* A command that answers Ok has written to library.json what it has set the pointer to: every
\* script that moves the pointer writes the record after it, a rename writes the version that
\* it has read, and a delete removes both.
THEOREM LibraryJsonIsCurrent == ASSUME OneCaller PROVE Spec => LibraryJsonFollowsCurrent
<1>1. TypeInv /\ WorkInv /\ [Next]_vars =>
        [\A c \in Callers :
           Answer(c) /\ ~call[c].error /\ call[c].op # "relink" =>
             /\ call[c].skill \notin behind
             /\ portable[call[c].skill] =
                  IF call[c].op = "delete" THEN Absent ELSE current[call[c].skill]]_vars
  <2> SUFFICES ASSUME TypeInv, WorkInv, Next, NEW c \in Callers, Answer(c), ~call[c].error,
                      call[c].op # "relink"
               PROVE  /\ call[c].skill \notin behind
                      /\ portable[call[c].skill] =
                           IF call[c].op = "delete" THEN Absent ELSE current[call[c].skill]
    OBVIOUS
  <2>1. call[c].steps = <<>> /\ call[c].op # "none"
    BY DEF Answer, Busy
  <2>2. call[c].op \in Commands
    BY <2>1 DEF TypeInv, TypeOK, Calls
  <2>3. ~Dropping(call[c])
    BY <2>1, DroppingSteps DEF Dropping
  <2>4. PICK i \in 1..(Len(Script[call[c].op]) + 1) : Working(call[c], i)
    BY <2>1, <2>3 DEF WorkInv, Progress
  <2>5. i = Len(Script[call[c].op]) + 1
    BY <2>1, <2>2, <2>4, StepsDone DEF Working
  <2>6. i > RecordsAt(call[c].op)
    BY <2>2, <2>5, ScriptLength
  <2>7. CASE call[c].op = "rename"
    <3>1. i <= MovesAt(call[c].op) /\ Checked(call[c], i)
      BY <2>5, <2>7, ScriptTables DEF MovesAt, Checked
    <3>2. QED
      BY <2>4, <2>6, <2>7, <3>1 DEF Working, Pointed, Recorded
  <2>8. CASE call[c].op # "rename"
    <3>1. i > MovesAt(call[c].op)
      BY <2>2, <2>5, <2>8, ScriptLength
    <3>2. QED
      BY <2>4, <2>6, <2>8, <3>1 DEF Working, Pointed, Recorded
  <2>9. QED
    BY <2>7, <2>8
<1>2. TypeInv /\ WorkInv /\ [Next]_vars => WorkInv'
  BY WorkInvStep
<1>3. QED
  BY <1>1, <1>2, TypeInvInit, TypeInvStep, WorkInvInit, PTL DEF Spec, LibraryJsonFollowsCurrent

-----------------------------------------------------------------------------
(* What a failure can undo                                                 *)

\* At most one step of a command fails, and it is one whose failure the code rolls back.
OneFault == MaxFaults <= 1 /\ Failing \subseteq RolledBack

IsNew(k) == k.op \in {"create", "import"}

\* The parts of the skill that are as they were before the command.
RowIsBack(k) == (k.skill \in catalog) = ~IsNew(k)
ManifestIsBack(k) == k.created => Version(k.skill, k.tree) \notin versions
PointerIsBack(k) == current[k.skill] = k.before.current[k.skill]
RecordIsBack(k) == portable[k.skill] = k.before.portable[k.skill]
FieldsAreBack(k) == (k.skill \in behind) = (k.skill \in k.before.behind)

\* What else there is is as before: putting back the parts of the skill restores everything.
Restorable(k) ==
  /\ k.before.catalog = (IF IsNew(k) THEN catalog \ {k.skill} ELSE catalog \union {k.skill})
  /\ k.before.versions =
       (IF k.created THEN versions \ {Version(k.skill, k.tree)} ELSE versions)
  /\ k.before.current = [current EXCEPT ![k.skill] = k.before.current[k.skill]]
  /\ k.before.portable = [portable EXCEPT ![k.skill] = k.before.portable[k.skill]]
  /\ k.before.behind = (IF k.skill \in k.before.behind THEN behind \union {k.skill}
                        ELSE behind \ {k.skill})
  /\ IsNew(k) => /\ k.before.current[k.skill] = None /\ k.before.portable[k.skill] = Absent
                 /\ k.skill \notin k.before.behind
                 /\ \A t \in Trees : Version(k.skill, t) \notin k.before.versions

\* Where the row of the skill comes or goes.
RowAt(op) == IF op \in {"create", "import"} THEN 5 ELSE IF op = "delete" THEN 3 ELSE 11

\* Where the record of a skill that exists becomes older than its row, or as new.
ChangesAt(op) ==
  IF op \in {"create", "import"} THEN 11 ELSE IF op = "rename" THEN 3 ELSE RecordsAt(op)

\* Before step i, the parts that later steps change are as they were.
KeptAt(k, i) ==
  (k.op = "delete" => i <= 6) =>
    /\ Restorable(k)
    /\ i <= RowAt(k.op) => RowIsBack(k)
    /\ i <= MovesAt(k.op) => PointerIsBack(k)
    /\ i <= RecordsAt(k.op) => RecordIsBack(k)
    /\ i <= ChangesAt(k.op) => FieldsAreBack(k)
    /\ Checked(k, i) => k.previous = k.before.current[k.skill]
    /\ i = RecordsAt(k.op) /\ k.op # "relink" => k.seen = portable

\* The order of the steps of a cleanup.
Follows ==
  {<<"unrow", "clear">>, <<"clear", "read">>, <<"read", "unrecord">>, <<"unrecord", "discard">>,
   <<"discard", "discard">>, <<"repoint", "discard">>}

\* Which steps a cleanup has, what they follow and which is the last.
Ordered(k) ==
  /\ k.steps \in Seq(UndoSteps)
  /\ \A j \in 1..Len(k.steps) :
       /\ k.steps[j] = "discard" => k.created
       /\ k.steps[j] = "rerow" => k.op \in {"delete", "rename"}
       /\ k.steps[j] \in {"unrow", "clear", "read", "unrecord"} => IsNew(k)
       /\ k.steps[j] = "repoint" => ~IsNew(k)
       /\ IF j = Len(k.steps)
          THEN k.steps[j] \in (IF k.created THEN {"discard"} ELSE {"repoint", "rerow"})
          ELSE <<k.steps[j], k.steps[j + 1]>> \in Follows

Up(k, names) == k.steps # <<>> /\ Head(k.steps) \in names

\* A command that failed: the parts that are not back are those that the next steps put back.
Cleaning(k) ==
  /\ Restorable(k) /\ Ordered(k)
  /\ k.steps # <<>> => k.faults = MaxFaults
  /\ RowIsBack(k) \/ Up(k, {"unrow", "rerow"})
  /\ PointerIsBack(k) \/ Up(k, {"unrow", "clear", "repoint"})
  /\ RecordIsBack(k) \/ Up(k, {"unrow", "clear", "read", "unrecord"})
  /\ FieldsAreBack(k) \/ (k.op = "rename" /\ Up(k, {"rerow"}))
  /\ ManifestIsBack(k) \/ k.steps # <<>>
  /\ Up(k, {"unrecord"}) => k.seen = portable
  /\ k.steps # <<>> =>
       /\ k.previous = k.before.current[k.skill] /\ There(k.skill, k.previous)
       /\ k.created => k.tree # k.previous

Recoverable(k) ==
  k.op # "none" =>
    IF k.error THEN Cleaning(k)
    ELSE \A i \in 1..(Len(Script[k.op]) + 1) : k.steps = From(k.op, i) => KeptAt(k, i)

BackInv == \A c \in Callers : Recoverable(call[c])

\* A position in a script is told by the steps that are left.
LEMMA OnePosition ==
  ASSUME NEW op \in Commands, NEW i \in 1..(Len(Script[op]) + 1),
         NEW j \in 1..(Len(Script[op]) + 1), From(op, i) = From(op, j)
  PROVE  i = j
<1> DEFINE n == Len(Script[op])
<1>1. Script[op] \in Seq(StepNames) /\ n \in Nat
  BY ScriptTyped, ScriptLength
<1>2. ASSUME NEW m \in 1..n PROVE Len(From(op, m)) = n - m + 1
  <2>1. \A l \in m .. n : Script[op][l] \in StepNames
    BY <1>1
  <2>2. m \in Int /\ n \in Int /\ m <= n
    BY <1>1
  <2>3. Len(SubSeq(Script[op], m, n)) = n - m + 1
    <3> HIDE DEF n
    <3>1. QED
      BY <2>1, <2>2, SubSeqProperties
  <2>4. QED
    BY <2>3 DEF From
<1>3. From(op, n + 1) = <<>>
  BY <1>1, SubSeqEmpty DEF From
<1>4. ASSUME NEW m \in 1..n PROVE From(op, m) # <<>>
  BY <1>1, <1>2, <1>4
<1> HIDE DEF n
<1>5. i = n + 1 \/ i \in 1..n
  BY <1>1 DEF n
<1>6. j = n + 1 \/ j \in 1..n
  BY <1>1 DEF n
<1>7. CASE i \in 1..n /\ j \in 1..n
  <2>1. n - i + 1 = n - j + 1
    BY <1>2, <1>7
  <2>2. QED
    BY <1>1, <1>7, <2>1
<1>8. QED
  BY <1>3, <1>4, <1>5, <1>6, <1>7

\* What a step does to the parts of its skill leaves the rest as before.
LEMMA RestorableMoves ==
  ASSUME TypeInv, NEW c \in Callers, call[c].skill \in Skills, Restorable(call[c]),
         call'[c].op = call[c].op, call'[c].skill = call[c].skill,
         call'[c].before = call[c].before,
         catalog' \in {catalog, catalog \union {call[c].skill}, catalog \ {call[c].skill}},
         behind' \in {behind, behind \union {call[c].skill}, behind \ {call[c].skill}},
         current' = current \/ \E x : current' = [current EXCEPT ![call[c].skill] = x],
         portable' = portable \/ \E x : portable' = [portable EXCEPT ![call[c].skill] = x],
         (IF call'[c].created THEN versions' \ {Version(call'[c].skill, call'[c].tree)}
          ELSE versions') =
         (IF call[c].created THEN versions \ {Version(call[c].skill, call[c].tree)} ELSE versions)
  PROVE  Restorable(call[c])'
<1> DEFINE k == call[c]
           s == call[c].skill
           b == call[c].before
<1>1. current \in [Skills -> Trees \union {None}] /\ portable \in [Skills -> Records]
  BY DEF TypeInv, TypeOK
<1>2. (IF IsNew(k) THEN catalog' \ {s} ELSE catalog' \union {s}) =
        (IF IsNew(k) THEN catalog \ {s} ELSE catalog \union {s})
  OBVIOUS
<1>3. [current' EXCEPT ![s] = b.current[s]] = [current EXCEPT ![s] = b.current[s]]
  BY <1>1
<1>4. [portable' EXCEPT ![s] = b.portable[s]] = [portable EXCEPT ![s] = b.portable[s]]
  BY <1>1
<1>5. IsNew(call[c])' = IsNew(k)
  BY DEF IsNew
<1>6. (IF s \in b.behind THEN behind' \union {s} ELSE behind' \ {s}) =
        (IF s \in b.behind THEN behind \union {s} ELSE behind \ {s})
  OBVIOUS
<1>7. QED
  BY <1>2, <1>3, <1>4, <1>5, <1>6 DEF Restorable

\* From one position to the next.
LEMMA KeptGoes ==
  ASSUME NEW c \in Callers, NEW i \in Nat, call[c].op \in Commands, KeptAt(call[c], i),
         call'[c].op = call[c].op, call'[c].skill = call[c].skill,
         call'[c].before = call[c].before,
         call[c].op = "delete" => i + 1 <= 6,
         Restorable(call[c])',
         i + 1 <= RowAt(call[c].op) => UNCHANGED catalog,
         i + 1 <= MovesAt(call[c].op) => UNCHANGED current,
         i + 1 <= RecordsAt(call[c].op) => UNCHANGED portable,
         i + 1 <= ChangesAt(call[c].op) => UNCHANGED behind,
         Checked(call[c], i + 1)' => call'[c].previous = call[c].before.current[call[c].skill],
         i + 1 = RecordsAt(call[c].op) /\ call[c].op # "relink" => call'[c].seen = portable'
  PROVE  KeptAt(call[c], i + 1)'
<1> DEFINE k == call[c]
           op == call[c].op
<1>1. /\ MovesAt(op) \in Nat /\ RecordsAt(op) \in Nat /\ RowAt(op) \in Nat
      /\ ChangesAt(op) \in Nat
  BY ScriptLength DEF RowAt, ChangesAt
<1>2. /\ i + 1 <= RowAt(op) => RowIsBack(k)
      /\ i + 1 <= MovesAt(op) => PointerIsBack(k)
      /\ i + 1 <= RecordsAt(op) => RecordIsBack(k)
      /\ i + 1 <= ChangesAt(op) => FieldsAreBack(k)
  BY <1>1 DEF KeptAt
<1>3. i + 1 <= RowAt(op) => RowIsBack(call[c])'
  BY <1>2 DEF RowIsBack, IsNew
<1>4. i + 1 <= MovesAt(op) => PointerIsBack(call[c])'
  BY <1>2 DEF PointerIsBack
<1>5. i + 1 <= RecordsAt(op) => RecordIsBack(call[c])'
  BY <1>2 DEF RecordIsBack
<1>6. i + 1 <= ChangesAt(op) => FieldsAreBack(call[c])'
  BY <1>2 DEF FieldsAreBack
<1>7. QED
  BY <1>3, <1>4, <1>5, <1>6 DEF KeptAt

-----------------------------------------------------------------------------
(* Steps that keep it so                                                   *)

\* Where library.json, the row and the version are read.
LEMMA ReadsAt ==
  ASSUME NEW op \in Commands, NEW i \in 1..Len(Script[op])
  PROVE  /\ Script[op][i] = "read" <=> op # "relink" /\ i + 1 = RecordsAt(op)
         /\ Script[op][i] \in {"lookup", "verify"} =>
              op \notin {"create", "import"} /\ i <= RowAt(op)
         /\ Script[op][i] = "reread" => op \in Capturing /\ i > CapturesAt(op)
<1> USE DEF RecordsAt, RowAt, Capturing, CapturesAt
<1>1. CASE op = "create"
  BY <1>1, ScriptTables DEF Script
<1>2. CASE op = "import"
  BY <1>2, ScriptTables DEF Script
<1>3. CASE op = "choose"
  BY <1>3, ScriptTables DEF Script
<1>4. CASE op = "save"
  BY <1>4, ScriptTables DEF Script
<1>5. CASE op = "markdown"
  BY <1>5, ScriptTables DEF Script
<1>6. CASE op = "update"
  BY <1>6, ScriptTables DEF Script
<1>7. CASE op = "relink"
  BY <1>7, ScriptTables DEF Script
<1>8. CASE op = "rename"
  BY <1>8, ScriptTables DEF Script
<1>9. CASE op = "delete"
  BY <1>9, ScriptTables DEF Script
<1>10. QED
  BY <1>1, <1>2, <1>3, <1>4, <1>5, <1>6, <1>7, <1>8, <1>9 DEF Commands

\* The position that a command comes to is the one that matters.
LEMMA ComesTo ==
  ASSUME NEW c \in Callers, call'[c].op \in Commands, ~call'[c].error,
         NEW i \in 1..(Len(Script[call'[c].op]) + 1), call'[c].steps = From(call'[c].op, i),
         KeptAt(call[c], i)'
  PROVE  Recoverable(call[c])'
<1> DEFINE op == call'[c].op
<1>1. ASSUME NEW j \in 1..(Len(Script[op]) + 1), call'[c].steps = From(op, j)
      PROVE  KeptAt(call[c], j)'
  <2>1. i = j
    BY <1>1, OnePosition
  <2>2. QED
    BY <2>1
<1>2. QED
  BY <1>1 DEF Recoverable

\* The same for a step that goes on.
LEMMA ComesNext ==
  ASSUME NEW c \in Callers, Goes(c), call[c].op \in Commands, ~call[c].error,
         NEW i \in 1..Len(Script[call[c].op]), i + 1 \in 1..(Len(Script[call[c].op]) + 1),
         Tail(call[c].steps) = From(call[c].op, i + 1), KeptAt(call[c], i + 1)'
  PROVE  Recoverable(call[c])'
<1>1. call'[c].op = call[c].op /\ ~call'[c].error /\ call'[c].steps = From(call[c].op, i + 1)
  BY DEF Goes
<1>2. QED
  BY <1>1, ComesTo

\* Steps that move nothing.
LEMMA QuietKept ==
  ASSUME TypeInv, NEW c \in Callers, call[c].op \in Commands, call[c].skill \in Skills,
         NEW i \in 1..Len(Script[call[c].op]), KeptAt(call[c], i), Goes(c), Keeps(c),
         Script[call[c].op][i] \notin {"read", "check", "list", "drop", "clear"},
         UNCHANGED <<catalog, versions, current, portable, behind>>
  PROVE  KeptAt(call[c], i + 1)'
<1> DEFINE k == call[c]
           op == call[c].op
<1>1. /\ call'[c].op = op /\ call'[c].skill = k.skill /\ call'[c].before = k.before
      /\ call'[c].tree = k.tree /\ call'[c].previous = k.previous
      /\ call'[c].created = k.created
  BY DEF Goes, Keeps
<1>2. i \in Nat /\ i <= Len(Script[op]) /\ Len(Script[op]) \in Nat
  BY ScriptLength
<1>3. CASE op = "delete" /\ i + 1 > 6
  BY <1>1, <1>3 DEF KeptAt
<1>4. CASE op = "delete" => i + 1 <= 6
  <2>1. op = "delete" => i <= 6
    BY <1>2, <1>4
  <2>2. Restorable(k) /\ (Checked(k, i) => k.previous = k.before.current[k.skill])
    BY <2>1 DEF KeptAt
  <2>3. Restorable(call[c])'
    BY <1>1, <2>2, RestorableMoves
  <2>4. Checked(call[c], i + 1)' => Checked(k, i)
    <3>1. op = "update" => i # 2
      BY Positions
    <3>2. QED
      BY <1>1, <1>2, <3>1 DEF Checked
  <2>5. ~(i + 1 = RecordsAt(op) /\ op # "relink")
    BY ReadsAt
  <2>6. QED
    BY <1>1, <1>2, <1>4, <2>2, <2>3, <2>4, <2>5, KeptGoes
<1>5. QED
  BY <1>2, <1>3, <1>4

\* Scanning and hashing: nothing has been created yet.
LEMMA ScanKept ==
  ASSUME TypeInv, NEW c \in Callers, call[c].op \in Commands, call[c].skill \in Skills,
         NEW i \in 1..Len(Script[call[c].op]), Working(call[c], i), KeptAt(call[c], i),
         Scan(c) \/ HashTree(c), Head(call[c].steps) = Script[call[c].op][i]
  PROVE  KeptAt(call[c], i + 1)'
<1> DEFINE k == call[c]
           op == call[c].op
<1>1. /\ call'[c].op = op /\ call'[c].skill = k.skill /\ call'[c].before = k.before
      /\ call'[c].previous = k.previous /\ call'[c].created = k.created
  BY ScanGoes, HashGoes DEF Goes
<1>2. UNCHANGED <<catalog, versions, current, portable, behind>>
  BY DEF Scan, HashTree, database, store, records
<1>3. (op \in {"create", "update"} /\ i = 1) \/ (op \in {"import", "update"} /\ i = 3)
  BY Positions DEF Scan, HashTree, At
<1>4. op # "delete" /\ op \in Capturing /\ i < CapturesAt(op) /\ i + 1 < RecordsAt(op)
  BY <1>3 DEF Capturing, CapturesAt, RecordsAt
<1>5. ~k.created
  BY <1>4, ScriptLength DEF Working, Captured
<1>6. /\ Restorable(k)
      /\ Checked(call[c], i + 1)' => k.previous = k.before.current[k.skill]
  BY <1>1, <1>3, <1>4 DEF KeptAt, Checked
<1>7. Restorable(call[c])'
  BY <1>1, <1>2, <1>5, <1>6, RestorableMoves
<1>8. QED
  BY <1>1, <1>2, <1>4, <1>6, <1>7, KeptGoes, ScriptLength

\* Capturing: a version that was there before was not created.
LEMMA CaptureKept ==
  ASSUME TypeInv, NEW c \in Callers, call[c].op \in Commands, call[c].skill \in Skills,
         NEW i \in 1..Len(Script[call[c].op]), Working(call[c], i), KeptAt(call[c], i),
         PublishManifest(c), Head(call[c].steps) = Script[call[c].op][i]
  PROVE  KeptAt(call[c], i + 1)'
<1> DEFINE k == call[c]
           op == call[c].op
           v == Version(call[c].skill, call[c].tree)
<1>1. /\ call'[c].op = op /\ call'[c].skill = k.skill /\ call'[c].before = k.before
      /\ call'[c].previous = k.previous /\ call'[c].tree = k.tree
      /\ call'[c].created = (v \notin versions)
  BY PublishGoes DEF Goes
<1>2. UNCHANGED <<catalog, current, portable, behind>> /\ versions' = versions \union {v}
  BY DEF PublishManifest, database, records
<1>3. op \in Capturing /\ i = CapturesAt(op)
  BY Positions DEF PublishManifest, At
<1>4. op # "delete" /\ i + 1 < RecordsAt(op) /\ Checked(k, i)
  BY <1>3 DEF Capturing, CapturesAt, RecordsAt, Checked
<1>5. ~k.created
  BY <1>3, <1>4, ScriptLength DEF Working, Captured
<1>6. Restorable(k) /\ k.previous = k.before.current[k.skill]
  BY <1>4 DEF KeptAt
<1>7. (IF call'[c].created THEN versions' \ {Version(call'[c].skill, call'[c].tree)}
       ELSE versions') = versions
  <2>1. Version(call'[c].skill, call'[c].tree) = v
    BY <1>1
  <2>2. QED
    <3> HIDE DEF v
    <3>1. QED
      BY <1>1, <1>2, <2>1
<1>8. Restorable(call[c])'
  BY <1>1, <1>2, <1>5, <1>6, <1>7, RestorableMoves
<1>9. QED
  BY <1>1, <1>2, <1>4, <1>6, <1>8, KeptGoes, ScriptLength

-----------------------------------------------------------------------------
(* Steps that change a part of the skill                                   *)

\* Moving the pointer.
LEMMA PointKept ==
  ASSUME TypeInv, NEW c \in Callers, call[c].op \in Commands, call[c].skill \in Skills,
         NEW i \in 1..Len(Script[call[c].op]), KeptAt(call[c], i), Point(c),
         Head(call[c].steps) = Script[call[c].op][i]
  PROVE  KeptAt(call[c], i + 1)'
<1> DEFINE k == call[c]
           op == call[c].op
<1>1. /\ call'[c].op = op /\ call'[c].skill = k.skill /\ call'[c].before = k.before
      /\ call'[c].previous = k.previous /\ call'[c].tree = k.tree
      /\ call'[c].created = k.created
  BY AdvanceGoes DEF Goes, Keeps, Point, At
<1>2. /\ UNCHANGED <<catalog, versions, portable, behind>>
      /\ current' = [current EXCEPT ![k.skill] = k.tree]
  BY DEF Point, database, records
<1>3. op \in Capturing \union {"choose"} /\ i = MovesAt(op)
  BY Positions DEF Point, At
<1>4. op # "delete" /\ i + 1 < RecordsAt(op) /\ Checked(k, i)
  BY <1>3 DEF Capturing, MovesAt, RecordsAt, Checked
<1>5. Restorable(k) /\ k.previous = k.before.current[k.skill]
  BY <1>4 DEF KeptAt
<1>6. Restorable(call[c])'
  BY <1>1, <1>2, <1>5, RestorableMoves
<1>7. ~(i + 1 <= MovesAt(op))
  BY <1>3, ScriptLength
<1>8. QED
  BY <1>1, <1>2, <1>4, <1>5, <1>6, <1>7, KeptGoes, ScriptLength

\* Reading library.json.
LEMMA ReadKept ==
  ASSUME TypeInv, NEW c \in Callers, call[c].op \in Commands, call[c].skill \in Skills,
         NEW i \in 1..Len(Script[call[c].op]), KeptAt(call[c], i), ReadLibraryJson(c),
         Head(call[c].steps) = Script[call[c].op][i]
  PROVE  KeptAt(call[c], i + 1)'
<1> DEFINE k == call[c]
           op == call[c].op
<1>1. /\ call'[c].op = op /\ call'[c].skill = k.skill /\ call'[c].before = k.before
      /\ call'[c].previous = k.previous /\ call'[c].tree = k.tree
      /\ call'[c].created = k.created /\ call'[c].seen = portable
  BY SeenGoes DEF Goes, Keeps
<1>2. UNCHANGED <<catalog, versions, current, portable, behind>>
  BY DEF ReadLibraryJson, database, store, records
<1>3. op # "relink" /\ i + 1 = RecordsAt(op)
  BY ReadsAt DEF ReadLibraryJson, At
<1>4. (op = "delete" => i + 1 <= 6) /\ Checked(k, i)
  BY <1>3 DEF RecordsAt, Checked
<1>5. Restorable(k) /\ k.previous = k.before.current[k.skill]
  BY <1>4 DEF KeptAt
<1>6. Restorable(call[c])'
  BY <1>1, <1>2, <1>5, RestorableMoves
<1>7. QED
  BY <1>1, <1>2, <1>4, <1>5, <1>6, KeptGoes

\* Writing it: the records of the other skills are those that were read.
LEMMA WriteKept ==
  ASSUME TypeInv, NEW c \in Callers, call[c].op \in Commands, call[c].skill \in Skills,
         NEW i \in 1..Len(Script[call[c].op]), KeptAt(call[c], i), WriteLibraryJson(c),
         Head(call[c].steps) = Script[call[c].op][i]
  PROVE  KeptAt(call[c], i + 1)'
<1> DEFINE k == call[c]
           op == call[c].op
<1>1. /\ call'[c].op = op /\ call'[c].skill = k.skill /\ call'[c].before = k.before
      /\ call'[c].previous = k.previous /\ call'[c].tree = k.tree
      /\ call'[c].created = k.created
  BY SeenGoes DEF Goes, Keeps
<1>2. /\ UNCHANGED <<catalog, versions, current>> /\ behind' = behind \ {k.skill}
      /\ \E x : portable' = [k.seen EXCEPT ![k.skill] = x]
  BY DEF WriteLibraryJson, database, store, records
<1>3. op # "relink" /\ i = RecordsAt(op)
  BY Positions DEF WriteLibraryJson, At, RecordsAt
<1>4. (op = "delete" => i + 1 <= 6) /\ Checked(k, i)
  BY <1>3 DEF RecordsAt, Checked
<1>5. Restorable(k) /\ k.previous = k.before.current[k.skill] /\ k.seen = portable
  BY <1>3, <1>4 DEF KeptAt
<1>6. Restorable(call[c])'
  BY <1>1, <1>2, <1>5, RestorableMoves
<1>7. ~(i + 1 <= RecordsAt(op)) /\ i + 1 # RecordsAt(op)
  BY <1>3, ScriptLength
<1>8. i + 1 <= ChangesAt(op) => UNCHANGED behind
  <2>1. SUFFICES ASSUME i + 1 <= ChangesAt(op) PROVE k.skill \notin behind
    BY <1>2
  <2>2. op \in {"create", "import"}
    BY <1>3, <2>1 DEF ChangesAt, RecordsAt
  <2>3. i <= ChangesAt(op)
    BY <1>3, <2>2 DEF ChangesAt, RecordsAt
  <2>4. FieldsAreBack(k) /\ k.skill \notin k.before.behind
    BY <1>4, <1>5, <2>2, <2>3 DEF KeptAt, Restorable, IsNew
  <2>5. QED
    BY <2>4 DEF FieldsAreBack
<1>9. QED
  BY <1>1, <1>2, <1>4, <1>5, <1>6, <1>7, <1>8, KeptGoes

\* The row comes, or goes.
LEMMA RowKept ==
  ASSUME TypeInv, NEW c \in Callers, call[c].op \in Commands, call[c].skill \in Skills,
         NEW i \in 1..Len(Script[call[c].op]), KeptAt(call[c], i), InsertRow(c) \/ RemoveRow(c),
         Head(call[c].steps) = Script[call[c].op][i]
  PROVE  KeptAt(call[c], i + 1)'
<1> DEFINE k == call[c]
           op == call[c].op
<1>1. call[c].steps # <<>> /\ Advance(c) /\ Head(call[c].steps) \in {"row", "rerow", "unrow"}
  BY DEF InsertRow, RemoveRow, At
<1>2. /\ call'[c].op = op /\ call'[c].skill = k.skill /\ call'[c].before = k.before
      /\ call'[c].previous = k.previous /\ call'[c].tree = k.tree
      /\ call'[c].created = k.created
  BY <1>1, AdvanceGoes DEF Goes, Keeps
<1>3. /\ UNCHANGED <<versions, current, portable>>
      /\ catalog' \in {catalog \union {k.skill}, catalog \ {k.skill}}
      /\ op = "rename" => catalog' = catalog \union {k.skill} \/ RemoveRow(c)
      /\ behind' \in {behind, behind \union {k.skill}, behind \ {k.skill}}
      /\ op # "rename" => UNCHANGED behind
  BY DEF InsertRow, RemoveRow, store, records
<1>4. \/ op \in {"create", "import"} /\ i = 5
      \/ op \in {"delete", "rename"} /\ i = 3
  BY <1>1, Positions
<1>5. (op = "delete" => i + 1 <= 6) /\ Checked(k, i) /\ i + 1 # RecordsAt(op)
      /\ (op = "rename" => ~(i + 1 <= ChangesAt(op)) /\ i <= RowAt(op))
  BY <1>4 DEF RecordsAt, RowAt, ChangesAt, Checked
<1>6. Restorable(k) /\ k.previous = k.before.current[k.skill]
  BY <1>4, <1>5 DEF KeptAt
<1>7. Restorable(call[c])'
  BY <1>2, <1>3, <1>6, RestorableMoves
<1>8. i + 1 <= RowAt(op) => UNCHANGED catalog
  <2>1. CASE op = "rename"
    <3>1. ~RemoveRow(c)
      BY <2>1, Positions DEF RemoveRow, At
    <3>2. k.skill \in catalog
      BY <1>5, <2>1 DEF KeptAt, RowIsBack, IsNew
    <3>3. QED
      BY <1>3, <2>1, <3>1, <3>2
  <2>2. CASE op # "rename"
    BY <1>4, <2>2 DEF RowAt
  <2>3. QED
    BY <2>1, <2>2
<1>9. QED
  BY <1>2, <1>3, <1>5, <1>6, <1>7, <1>8, KeptGoes

\* An update remembers the current version.
LEMMA CheckKept ==
  ASSUME TypeInv, NEW c \in Callers, call[c].op \in Commands, call[c].skill \in Skills,
         NEW i \in 1..Len(Script[call[c].op]), KeptAt(call[c], i), CheckSource(c),
         Head(call[c].steps) = Script[call[c].op][i]
  PROVE  KeptAt(call[c], i + 1)'
<1> DEFINE k == call[c]
           op == call[c].op
<1>1. /\ call'[c].op = op /\ call'[c].skill = k.skill /\ call'[c].before = k.before
      /\ call'[c].previous = current[k.skill] /\ call'[c].tree = k.tree
      /\ call'[c].created = k.created
  BY CheckGoes DEF Goes
<1>2. UNCHANGED <<catalog, versions, current, portable, behind>>
  BY DEF CheckSource, database, store, records
<1>3. op = "update" /\ i = 2
  BY Positions DEF CheckSource, At
<1>4. i + 1 # RecordsAt(op) /\ i <= MovesAt(op)
  BY <1>3 DEF RecordsAt, MovesAt
<1>5. Restorable(k) /\ current[k.skill] = k.before.current[k.skill]
  BY <1>3, <1>4 DEF KeptAt, PointerIsBack
<1>6. Restorable(call[c])'
  BY <1>1, <1>2, <1>5, RestorableMoves
<1>7. QED
  BY <1>1, <1>2, <1>3, <1>4, <1>5, <1>6, KeptGoes

-----------------------------------------------------------------------------
(* Every step of a command that has not failed yet                         *)

\* A step within a step.
LEMMA StayingBack ==
  ASSUME BackInv, NEW c \in Callers,
         call'[c].op = call[c].op, call'[c].skill = call[c].skill,
         call'[c].steps = call[c].steps, call'[c].error = call[c].error,
         call'[c].tree = call[c].tree, call'[c].previous = call[c].previous,
         call'[c].created = call[c].created, call'[c].before = call[c].before,
         call'[c].faults = call[c].faults, call'[c].seen = call[c].seen,
         UNCHANGED <<catalog, versions, current, portable, behind>>
  PROVE  Recoverable(call[c])'
<1>1. Recoverable(call[c])
  BY DEF BackInv
<1>2. /\ RowIsBack(call[c])' = RowIsBack(call[c])
      /\ ManifestIsBack(call[c])' = ManifestIsBack(call[c])
      /\ PointerIsBack(call[c])' = PointerIsBack(call[c])
      /\ RecordIsBack(call[c])' = RecordIsBack(call[c])
      /\ FieldsAreBack(call[c])' = FieldsAreBack(call[c])
  BY DEF RowIsBack, ManifestIsBack, PointerIsBack, RecordIsBack, FieldsAreBack, IsNew
<1>3. Restorable(call[c])' = Restorable(call[c])
  BY DEF Restorable, IsNew
<1>4. Cleaning(call[c]) => Cleaning(call[c])'
  <2>1. Ordered(call[c]) => Ordered(call[c])'
    BY DEF Ordered, IsNew
  <2>2. QED
    BY <1>2, <1>3, <2>1 DEF Cleaning, Up, There
<1>5. ASSUME NEW i \in Nat, KeptAt(call[c], i) PROVE KeptAt(call[c], i)'
  BY <1>2, <1>3, <1>5 DEF KeptAt, Checked
<1>6. \A i \in 1..(Len(Script[call[c].op]) + 1) : i \in Nat
  OBVIOUS
<1>7. QED
  BY <1>1, <1>4, <1>5, <1>6 DEF Recoverable

\* A delete that discards a version is at no position of its script.
LEMMA DroppingBack ==
  ASSUME NEW c \in Callers, call'[c].op \in Commands, ~call'[c].error,
         call'[c].steps # <<>>, Head(call'[c].steps) = "discard"
  PROVE  Recoverable(call[c])'
<1> DEFINE op == call'[c].op
<1>1. ASSUME NEW i \in 1..(Len(Script[op]) + 1), call'[c].steps = From(op, i) PROVE FALSE
  <2>1. i \in 1..Len(Script[op]) /\ Script[op][i] = "discard"
    BY <1>1, StepsLeft
  <2>2. QED
    BY <2>1, Positions
<1>2. QED
  BY <1>1 DEF Recoverable

\* The end of a delete.
LEMMA LateBack ==
  ASSUME NEW c \in Callers, call'[c].op = "delete", ~call'[c].error, NEW i \in 7..9,
         call'[c].steps = From("delete", i)
  PROVE  Recoverable(call[c])'
<1>1. Len(Script["delete"]) + 1 = 9 /\ "delete" \in Commands
  BY ScriptTables DEF Commands
<1>2. KeptAt(call[c], i)'
  BY DEF KeptAt
<1>3. i \in 1..(Len(Script["delete"]) + 1)
  BY <1>1
<1>4. QED
  BY <1>1, <1>2, <1>3, ComesTo

\* The steps of a command that has not failed, but for the end of a delete.
LEMMA GoingBack ==
  ASSUME TypeInv, WorkInv, BackInv, NEW c \in Callers, ~call[c].error,
         \/ Scan(c) \/ HashTree(c) \/ PublishManifest(c) \/ Point(c) \/ CheckSource(c)
         \/ ReadLibraryJson(c) \/ WriteLibraryJson(c) \/ InsertRow(c) \/ RemoveRow(c)
         \/ OpenLibrary(c) \/ Reread(c) \/ LockDatabase(c) \/ Lookup(c) \/ Relink(c)
         \/ SetRevision(c) \/ ClosePlan(c)
  PROVE  Recoverable(call[c])'
<1>1. /\ call[c].steps # <<>> /\ call[c].op # "none" /\ Head(call[c].steps) # "discard"
      /\ call[c].skill \in Skills
  BY AtTyped DEF Scan, HashTree, PublishManifest, Point, CheckSource, ReadLibraryJson,
                 WriteLibraryJson, InsertRow, RemoveRow, OpenLibrary, Reread, LockDatabase,
                 Lookup, Relink, SetRevision, ClosePlan, At, Busy
<1>2. Goes(c)
  <2>1. CASE Scan(c) \/ HashTree(c) \/ PublishManifest(c) \/ CheckSource(c)
             \/ ReadLibraryJson(c) \/ WriteLibraryJson(c)
    BY <2>1, ScanGoes, HashGoes, PublishGoes, CheckGoes, SeenGoes
  <2>2. CASE ~(Scan(c) \/ HashTree(c) \/ PublishManifest(c) \/ CheckSource(c)
               \/ ReadLibraryJson(c) \/ WriteLibraryJson(c))
    BY <1>1, <2>2, AdvanceGoes DEF Point, InsertRow, RemoveRow, OpenLibrary, Reread,
                                   LockDatabase, Lookup, Relink, SetRevision, ClosePlan
  <2>3. QED
    BY <2>1, <2>2
<1>3. ~Dropping(call[c])
  BY <1>1, DroppingSteps DEF Dropping
<1>4. PICK i \in 1..Len(Script[call[c].op]) :
        /\ Working(call[c], i) /\ i + 1 \in 1..(Len(Script[call[c].op]) + 1)
        /\ Head(call[c].steps) = Script[call[c].op][i]
        /\ Tail(call[c].steps) = From(call[c].op, i + 1)
  BY <1>1, <1>3, PickStep
<1>5. call[c].op \in Commands /\ i \in 1..(Len(Script[call[c].op]) + 1)
  BY <1>1, PickStep, ScriptLength
<1>6. KeptAt(call[c], i)
  BY <1>1, <1>4, <1>5 DEF BackInv, Recoverable, Working
<1>7. KeptAt(call[c], i + 1)'
  <2>1. CASE Scan(c) \/ HashTree(c) \/ PublishManifest(c) \/ Point(c) \/ CheckSource(c)
    BY <1>1, <1>4, <1>5, <1>6, <2>1, ScanKept, CaptureKept, PointKept, CheckKept
  <2>2. CASE ReadLibraryJson(c) \/ WriteLibraryJson(c) \/ InsertRow(c) \/ RemoveRow(c)
    BY <1>1, <1>4, <1>5, <1>6, <2>2, ReadKept, WriteKept, RowKept
  <2>3. CASE OpenLibrary(c) \/ Reread(c) \/ LockDatabase(c) \/ Lookup(c) \/ Relink(c)
             \/ SetRevision(c) \/ ClosePlan(c)
    <3>1. UNCHANGED <<catalog, versions, current, portable, behind>>
      BY <2>3 DEF OpenLibrary, Reread, LockDatabase, Lookup, Relink, SetRevision, ClosePlan,
                  database, store, records
    <3>2. Head(call[c].steps) \notin {"read", "check", "list", "drop", "clear"}
      BY <2>3 DEF OpenLibrary, Reread, LockDatabase, Lookup, Relink, SetRevision, ClosePlan, At
    <3>3. Keeps(c)
      BY <1>1, <2>3, AdvanceGoes DEF OpenLibrary, Reread, LockDatabase, Lookup, Relink,
                                     SetRevision, ClosePlan
    <3>4. QED
      BY <1>1, <1>2, <1>4, <1>5, <1>6, <3>1, <3>2, <3>3, QuietKept
  <2>4. QED
    BY <2>1, <2>2, <2>3
<1>8. QED
  BY <1>2, <1>4, <1>5, <1>7, ComesNext

\* The steps that end a delete.
LEMMA EndingBack ==
  ASSUME TypeInv, WorkInv, NEW c \in Callers, ~call[c].error,
         \/ ListVersions(c) \/ DropVersions(c) \/ ClearCurrent(c) \/ Discard(c) \/ Repoint(c)
  PROVE  Recoverable(call[c])'
<1>1. /\ call[c].steps # <<>> /\ call[c].op # "none" /\ call[c].op \in Commands
      /\ Head(call[c].steps) \in {"list", "drop", "clear", "discard", "repoint"}
  BY DEF ListVersions, DropVersions, ClearCurrent, Discard, Repoint, At, Busy, TypeInv, TypeOK,
         Calls
<1>2. CASE Dropping(call[c])
  <2>1. Discard(c) /\ call[c].op = "delete" /\ Tail(call[c].steps) = From("delete", 7)
    BY <1>2, DroppingSteps DEF Dropping, ListVersions, DropVersions, ClearCurrent, Repoint, At
  <2>2. call'[c].op = "delete" /\ ~call'[c].error /\ call'[c].steps = From("delete", 7)
    BY <2>1, DiscardGoes DEF Goes
  <2>3. QED
    BY <2>2, LateBack
<1>3. CASE ~Dropping(call[c])
  <2>1. PICK i \in 1..Len(Script[call[c].op]) :
          /\ Head(call[c].steps) = Script[call[c].op][i]
          /\ Tail(call[c].steps) = From(call[c].op, i + 1)
    BY <1>1, <1>3, PickStep
  <2>2. call[c].op = "delete" /\ i \in {6, 7, 8}
    BY <1>1, <2>1, Positions
  <2>3. CASE DropVersions(c) /\ ~Advance(c)
    <3>1. PICK t \in call[c].work :
            call' = [call EXCEPT ![c].work = @ \ {t}, ![c].tree = t, ![c].left = t,
                                 ![c].steps = <<"discard">> \o @]
      BY <2>3 DEF DropVersions
    <3>2. /\ call'[c].op = "delete" /\ ~call'[c].error
          /\ call'[c].steps = <<"discard">> \o call[c].steps
      BY <2>2, <3>1, DropCall
    <3>3. call[c].steps \in Seq(StepNames)
      BY DEF TypeInv, TypeOK, Calls
    <3>4. call'[c].steps # <<>> /\ Head(call'[c].steps) = "discard"
      BY <3>2, <3>3
    <3>5. QED
      BY <1>1, <2>2, <3>2, <3>4, DroppingBack
  <2>4. CASE ListVersions(c) \/ ClearCurrent(c) \/ (DropVersions(c) /\ Advance(c))
    <3>1. /\ call'[c].op = "delete" /\ ~call'[c].error
          /\ call'[c].steps = From("delete", i + 1) /\ i + 1 \in 7..9
      BY <2>1, <2>2, <2>4, ListFields
    <3>2. QED
      BY <3>1, LateBack
  <2>5. CASE Discard(c) \/ Repoint(c)
    BY <2>2, <2>1, <2>5, Positions, <1>1 DEF Discard, Repoint, At
  <2>6. QED
    BY <2>3, <2>4, <2>5 DEF ListVersions
<1>4. QED
  BY <1>2, <1>3

-----------------------------------------------------------------------------
(* The order of a cleanup                                                  *)

\* What the order says of the first step and of the rest.
LEMMA OrderedTail ==
  ASSUME NEW k, Ordered(k), k.steps # <<>>
  PROVE  /\ Head(k.steps) \in UndoSteps
         /\ Head(k.steps) = "discard" => k.created
         /\ Head(k.steps) = "rerow" => k.op \in {"delete", "rename"}
         /\ Head(k.steps) \in {"unrow", "clear", "read", "unrecord"} => IsNew(k)
         /\ Head(k.steps) = "repoint" => ~IsNew(k)
         /\ IF Tail(k.steps) = <<>>
            THEN Head(k.steps) \in (IF k.created THEN {"discard"} ELSE {"repoint", "rerow"})
            ELSE <<Head(k.steps), Head(Tail(k.steps))>> \in Follows
<1> DEFINE ss == k.steps
           ts == Tail(k.steps)
           n == Len(k.steps)
<1>1. ss \in Seq(UndoSteps) /\ n \in Nat /\ n >= 1
  BY DEF Ordered
<1>2. Head(ss) = ss[1] /\ 1 \in 1..n /\ ss[1] \in UndoSteps
  BY <1>1
<1>3. ts \in Seq(UndoSteps) /\ Len(ts) = n - 1
  BY <1>1
<1>4. \A j \in 1..(n - 1) : ts[j] = ss[j + 1]
  BY <1>1
<1>5. /\ ss[1] = "discard" => k.created
      /\ ss[1] = "rerow" => k.op \in {"delete", "rename"}
      /\ ss[1] \in {"unrow", "clear", "read", "unrecord"} => IsNew(k)
      /\ ss[1] = "repoint" => ~IsNew(k)
      /\ IF 1 = n
         THEN ss[1] \in (IF k.created THEN {"discard"} ELSE {"repoint", "rerow"})
         ELSE <<ss[1], ss[1 + 1]>> \in Follows
  BY <1>2 DEF Ordered
<1> HIDE DEF ss, ts, n
<1>6. IF ts = <<>>
      THEN ss[1] \in (IF k.created THEN {"discard"} ELSE {"repoint", "rerow"})
      ELSE <<ss[1], Head(ts)>> \in Follows
  <2>1. CASE ts = <<>>
    <3>1. n = 1
      BY <1>1, <1>3, <2>1, EmptySeq
    <3>2. QED
      BY <1>5, <2>1, <3>1
  <2>2. CASE ts # <<>>
    <3>1. Len(ts) \in Nat \ {0}
      BY <1>3, <2>2, EmptySeq
    <3>2. Head(ts) = ts[1]
      BY <1>3, <3>1
    <3>3. 1 \in 1..(n - 1) /\ n # 1
      BY <1>1, <1>3, <3>1
    <3>4. QED
      BY <1>4, <1>5, <2>2, <3>2, <3>3
  <2>3. QED
    BY <2>1, <2>2
<1>7. QED
  BY <1>2, <1>5, <1>6 DEF ss, ts

\* The rest of a cleanup is in order.
LEMMA OrderedGoes ==
  ASSUME NEW c \in Callers, Ordered(call[c]), call[c].steps # <<>>,
         call'[c].op = call[c].op, call'[c].created = call[c].created,
         call'[c].steps = Tail(call[c].steps)
  PROVE  Ordered(call[c])'
<1> DEFINE ss == call[c].steps
           n == Len(call[c].steps)
           ts == Tail(call[c].steps)
<1>1. ss \in Seq(UndoSteps) /\ n \in Nat /\ n >= 1
  BY DEF Ordered
<1>2. ts \in Seq(UndoSteps) /\ Len(ts) = n - 1
  BY <1>1
<1>3. \A j \in 1..(n - 1) : ts[j] = ss[j + 1] /\ j + 1 \in 1..n
  BY <1>1
<1>4. \A j \in 1..(n - 1) : j # n - 1 => ts[j + 1] = ss[j + 1 + 1]
  BY <1>1
<1>5. \A j \in 1..(n - 1) : j = n - 1 <=> j + 1 = n
  BY <1>1
<1>6. IsNew(call[c])' = IsNew(call[c])
  BY DEF IsNew
<1> HIDE DEF ts, ss, n
<1>7. ASSUME NEW j \in 1..(n - 1)
      PROVE  /\ ts[j] = "discard" => call[c].created
             /\ ts[j] = "rerow" => call[c].op \in {"delete", "rename"}
             /\ ts[j] \in {"unrow", "clear", "read", "unrecord"} => IsNew(call[c])
             /\ ts[j] = "repoint" => ~IsNew(call[c])
             /\ IF j = n - 1
                THEN ts[j] \in (IF call[c].created THEN {"discard"} ELSE {"repoint", "rerow"})
                ELSE <<ts[j], ts[j + 1]>> \in Follows
  <2>1. /\ ss[j + 1] = "discard" => call[c].created
        /\ ss[j + 1] = "rerow" => call[c].op \in {"delete", "rename"}
        /\ ss[j + 1] \in {"unrow", "clear", "read", "unrecord"} => IsNew(call[c])
        /\ ss[j + 1] = "repoint" => ~IsNew(call[c])
        /\ IF j + 1 = n
           THEN ss[j + 1] \in (IF call[c].created THEN {"discard"} ELSE {"repoint", "rerow"})
           ELSE <<ss[j + 1], ss[j + 1 + 1]>> \in Follows
    BY <1>3 DEF Ordered, ss, n
  <2>2. QED
    BY <1>3, <1>4, <1>5, <2>1
<1>8. QED
  BY <1>2, <1>6, <1>7 DEF Ordered, ts

\* A cleanup that goes on: what holds for the call and what is left to show.
LEMMA CleaningGoes ==
  ASSUME TypeInv, NEW c \in Callers, call[c].op # "none", call[c].skill \in Skills,
         call[c].error, Cleaning(call[c]), Goes(c), Keeps(c),
         catalog' \in {catalog, catalog \union {call[c].skill}, catalog \ {call[c].skill}},
         behind' \in {behind, behind \union {call[c].skill}, behind \ {call[c].skill}},
         current' = current \/ \E x : current' = [current EXCEPT ![call[c].skill] = x],
         portable' = portable \/ \E x : portable' = [portable EXCEPT ![call[c].skill] = x],
         \/ versions' = versions
         \/ /\ versions' = versions \ {Version(call[c].skill, call[c].tree)}
            /\ call[c].created,
         RowIsBack(call[c])', FieldsAreBack(call[c])',
         PointerIsBack(call[c])' \/ Up(call[c], {"clear"})',
         RecordIsBack(call[c])' \/ Up(call[c], {"clear", "read", "unrecord"})',
         ManifestIsBack(call[c])' \/ call'[c].steps # <<>>,
         Up(call[c], {"unrecord"})' => call'[c].seen = portable'
  PROVE  Recoverable(call[c])'
<1> DEFINE k == call[c]
<1>1. /\ call'[c].op = k.op /\ call'[c].skill = k.skill /\ call'[c].before = k.before
      /\ call'[c].error /\ call'[c].faults = k.faults /\ call'[c].tree = k.tree
      /\ call'[c].previous = k.previous /\ call'[c].created = k.created
      /\ k.steps # <<>> /\ call'[c].steps = Tail(k.steps)
  BY DEF Goes, Keeps
<1>2. /\ Restorable(k) /\ Ordered(k) /\ k.faults = MaxFaults
      /\ k.previous = k.before.current[k.skill] /\ There(k.skill, k.previous)
      /\ k.created => k.tree # k.previous
  BY <1>1 DEF Cleaning
<1>3. (IF k.created THEN versions' \ {Version(k.skill, k.tree)} ELSE versions') =
        (IF k.created THEN versions \ {Version(k.skill, k.tree)} ELSE versions)
  OBVIOUS
<1>4. Restorable(call[c])'
  BY <1>1, <1>2, <1>3, RestorableMoves
<1>5. Ordered(call[c])'
  BY <1>1, <1>2, OrderedGoes
<1>6. There(call[c].skill, call[c].previous)'
  <2>1. k.created => Version(k.skill, k.previous) # Version(k.skill, k.tree)
    BY <1>2 DEF Version
  <2>2. QED
    BY <1>1, <1>2, <2>1 DEF There
<1>7. Cleaning(call[c])'
  BY <1>1, <1>2, <1>4, <1>5, <1>6 DEF Cleaning, Up
<1>8. QED
  BY <1>1, <1>7 DEF Recoverable

-----------------------------------------------------------------------------
(* The steps of a cleanup                                                  *)

\* The row of a new skill goes first.
LEMMA UnrowBack ==
  ASSUME TypeInv, NEW c \in Callers, call[c].error, Cleaning(call[c]), RemoveRow(c)
  PROVE  Recoverable(call[c])'
<1> DEFINE k == call[c]
<1>1. /\ k.op # "none" /\ k.skill \in Skills /\ k.steps # <<>> /\ Head(k.steps) = "unrow"
  BY AtTyped DEF RemoveRow, At
<1>2. Goes(c) /\ Keeps(c)
  BY <1>1, AdvanceGoes DEF RemoveRow
<1>3. UNCHANGED <<versions, current, portable, behind>> /\ catalog' = catalog \ {k.skill}
  BY DEF RemoveRow, store, records
<1>4. IsNew(k) /\ Tail(k.steps) # <<>> /\ Head(Tail(k.steps)) = "clear"
  BY <1>1, OrderedTail DEF Cleaning, Follows
<1>5. RowIsBack(call[c])' /\ Up(call[c], {"clear"})' /\ call'[c].steps # <<>>
  BY <1>2, <1>3, <1>4 DEF Goes, RowIsBack, IsNew, Up
<1>6. Head(call'[c].steps) = "clear"
  BY <1>2, <1>4 DEF Goes
<1>7. FieldsAreBack(call[c])'
  BY <1>1, <1>2, <1>3 DEF Cleaning, Up, Goes, FieldsAreBack
<1>8. QED
  BY <1>1, <1>2, <1>3, <1>5, <1>6, <1>7, CleaningGoes DEF Up

\* Its pointer goes next.
LEMMA ClearBack ==
  ASSUME TypeInv, NEW c \in Callers, call[c].error, Cleaning(call[c]), ClearCurrent(c)
  PROVE  Recoverable(call[c])'
<1> DEFINE k == call[c]
<1>1. /\ k.op # "none" /\ k.skill \in Skills /\ k.steps # <<>> /\ Head(k.steps) = "clear"
  BY AtTyped DEF ClearCurrent, At
<1>2. Goes(c) /\ Keeps(c)
  BY <1>1, AdvanceGoes DEF ClearCurrent
<1>3. /\ UNCHANGED <<catalog, versions, portable, behind>>
      /\ current' = [current EXCEPT ![k.skill] = None]
  BY DEF ClearCurrent, database, records
<1>4. IsNew(k) /\ Tail(k.steps) # <<>> /\ Head(Tail(k.steps)) = "read"
  BY <1>1, OrderedTail DEF Cleaning, Follows
<1>5. RowIsBack(k) /\ k.before.current[k.skill] = None
  BY <1>1, <1>4 DEF Cleaning, Up, Restorable
<1>6. RowIsBack(call[c])' /\ Up(call[c], {"read"})' /\ call'[c].steps # <<>>
  BY <1>2, <1>3, <1>4, <1>5 DEF Goes, RowIsBack, IsNew, Up
<1>7. PointerIsBack(call[c])'
  BY <1>1, <1>2, <1>3, <1>5 DEF Goes, PointerIsBack, TypeInv, TypeOK
<1>8. FieldsAreBack(call[c])'
  BY <1>1, <1>2, <1>3 DEF Cleaning, Up, Goes, FieldsAreBack
<1>9. QED
  BY <1>1, <1>2, <1>3, <1>6, <1>7, <1>8, CleaningGoes DEF Up

\* Its record: library.json is read and written.
LEMMA RecordBack ==
  ASSUME TypeInv, NEW c \in Callers, call[c].error, Cleaning(call[c]),
         ReadLibraryJson(c) \/ WriteLibraryJson(c)
  PROVE  Recoverable(call[c])'
<1> DEFINE k == call[c]
<1>1. /\ k.op # "none" /\ k.skill \in Skills /\ k.steps # <<>>
      /\ Head(k.steps) \in {"read", "record", "rerecord", "unrecord"}
  BY AtTyped DEF ReadLibraryJson, WriteLibraryJson, At
<1>2. Goes(c) /\ Keeps(c)
  BY SeenGoes
<1>3. UNCHANGED <<catalog, versions, current>> /\ behind' \in {behind, behind \ {k.skill}}
  BY DEF ReadLibraryJson, WriteLibraryJson, database, store, records
<1>4. /\ IsNew(k) /\ Tail(k.steps) # <<>>
      /\ \/ Head(k.steps) = "read" /\ Head(Tail(k.steps)) = "unrecord"
         \/ Head(k.steps) = "unrecord" /\ Head(Tail(k.steps)) = "discard"
  BY <1>1, OrderedTail DEF Cleaning, Follows, UndoSteps
<1>5. RowIsBack(k) /\ PointerIsBack(k) /\ k.before.portable[k.skill] = Absent
  BY <1>1, <1>4 DEF Cleaning, Up, Restorable
<1>6. RowIsBack(call[c])' /\ PointerIsBack(call[c])' /\ call'[c].steps # <<>>
  BY <1>2, <1>3, <1>4, <1>5 DEF Goes, RowIsBack, IsNew, PointerIsBack
<1>7. FieldsAreBack(call[c])'
  <2>1. FieldsAreBack(k) /\ k.skill \notin k.before.behind
    BY <1>1, <1>4 DEF Cleaning, Up, Restorable
  <2>2. QED
    BY <1>2, <1>3, <2>1 DEF Goes, FieldsAreBack
<1>8. CASE ReadLibraryJson(c)
  <2>1. portable' = portable /\ call'[c].seen = portable
    BY <1>8, SeenGoes DEF ReadLibraryJson, records
  <2>2. Head(call'[c].steps) = "unrecord"
    BY <1>2, <1>4, <1>8 DEF Goes, ReadLibraryJson, At
  <2>3. QED
    BY <1>1, <1>2, <1>3, <1>6, <1>7, <2>1, <2>2, CleaningGoes DEF Up
<1>9. CASE WriteLibraryJson(c)
  <2>1. Head(k.steps) = "unrecord" /\ Head(call'[c].steps) = "discard"
    BY <1>2, <1>4, <1>9 DEF Goes, WriteLibraryJson, At
  <2>2. k.seen = portable
    BY <1>1, <2>1 DEF Cleaning, Up
  <2>3. portable' = [portable EXCEPT ![k.skill] = Absent]
    BY <1>9, <2>1, <2>2 DEF WriteLibraryJson
  <2>4. RecordIsBack(call[c])'
    BY <1>1, <1>2, <1>5, <2>3 DEF Goes, RecordIsBack, TypeInv, TypeOK
  <2>5. QED
    BY <1>1, <1>2, <1>3, <1>6, <1>7, <2>1, <2>3, <2>4, CleaningGoes DEF Up
<1>10. QED
  BY <1>8, <1>9

\* Its version, or the one that a save has created.
LEMMA DiscardBack ==
  ASSUME TypeInv, NEW c \in Callers, call[c].error, Cleaning(call[c]), Discard(c)
  PROVE  Recoverable(call[c])'
<1> DEFINE k == call[c]
<1>1. /\ k.op # "none" /\ k.skill \in Skills /\ k.steps # <<>> /\ Head(k.steps) = "discard"
  BY AtTyped DEF Discard, At
<1>2. Goes(c) /\ Keeps(c)
  BY DiscardGoes
<1>3. /\ UNCHANGED <<catalog, current, portable, behind>>
      /\ versions' = versions \ {Version(k.skill, k.tree)}
  BY DEF Discard, database, records
<1>4. k.created /\ (Tail(k.steps) # <<>> => Head(Tail(k.steps)) = "discard")
  BY <1>1, OrderedTail DEF Cleaning, Follows
<1>5. RowIsBack(k) /\ PointerIsBack(k) /\ RecordIsBack(k) /\ FieldsAreBack(k)
  BY <1>1 DEF Cleaning, Up
<1>6. /\ RowIsBack(call[c])' /\ PointerIsBack(call[c])' /\ RecordIsBack(call[c])'
      /\ FieldsAreBack(call[c])'
  BY <1>2, <1>3, <1>5 DEF Goes, RowIsBack, IsNew, PointerIsBack, RecordIsBack, FieldsAreBack
<1>7. ManifestIsBack(call[c])' /\ ~Up(call[c], {"unrecord"})'
  BY <1>2, <1>3, <1>4 DEF Goes, Keeps, ManifestIsBack, Up
<1>8. QED
  BY <1>1, <1>2, <1>3, <1>4, <1>6, <1>7, CleaningGoes

\* The pointer of a skill that exists.
LEMMA RepointBack ==
  ASSUME TypeInv, NEW c \in Callers, call[c].error, Cleaning(call[c]), Repoint(c)
  PROVE  Recoverable(call[c])'
<1> DEFINE k == call[c]
<1>1. /\ k.op # "none" /\ k.skill \in Skills /\ k.steps # <<>> /\ Head(k.steps) = "repoint"
  BY AtTyped DEF Repoint, At
<1>2. Goes(c) /\ Keeps(c)
  BY <1>1, AdvanceGoes DEF Repoint
<1>3. /\ UNCHANGED <<catalog, versions, portable, behind>>
      /\ current' = [current EXCEPT ![k.skill] = k.previous]
  BY DEF Repoint, database, records
<1>4. IF Tail(k.steps) = <<>> THEN ~k.created ELSE Head(Tail(k.steps)) = "discard"
  BY <1>1, OrderedTail DEF Cleaning, Follows
<1>5. /\ RowIsBack(k) /\ RecordIsBack(k) /\ FieldsAreBack(k)
      /\ k.previous = k.before.current[k.skill]
  BY <1>1 DEF Cleaning, Up
<1>6. RowIsBack(call[c])' /\ RecordIsBack(call[c])' /\ FieldsAreBack(call[c])'
  BY <1>2, <1>3, <1>5 DEF Goes, RowIsBack, IsNew, RecordIsBack, FieldsAreBack
<1>7. PointerIsBack(call[c])'
  BY <1>1, <1>2, <1>3, <1>5 DEF Goes, PointerIsBack, TypeInv, TypeOK
<1>8. (ManifestIsBack(call[c])' \/ call'[c].steps # <<>>) /\ ~Up(call[c], {"unrecord"})'
  BY <1>2, <1>4 DEF Goes, Keeps, ManifestIsBack, Up
<1>9. QED
  BY <1>1, <1>2, <1>3, <1>6, <1>7, <1>8, CleaningGoes

\* The row that a failed delete or rename puts back.
LEMMA RerowBack ==
  ASSUME TypeInv, NEW c \in Callers, call[c].error, Cleaning(call[c]), InsertRow(c)
  PROVE  Recoverable(call[c])'
<1> DEFINE k == call[c]
<1>1. /\ k.op # "none" /\ k.skill \in Skills /\ k.steps # <<>>
      /\ Head(k.steps) \in {"row", "rerow"}
  BY AtTyped DEF InsertRow, At
<1>2. Goes(c) /\ Keeps(c)
  BY <1>1, AdvanceGoes DEF InsertRow
<1>3. /\ UNCHANGED <<versions, current, portable>> /\ catalog' = catalog \union {k.skill}
      /\ behind' = IF k.op # "rename" THEN behind
                   ELSE IF At(c, "row") \/ k.skill \in k.before.behind
                   THEN behind \union {k.skill} ELSE behind \ {k.skill}
  BY DEF InsertRow, store
<1>4. k.op \in {"delete", "rename"} /\ Tail(k.steps) = <<>> /\ ~k.created /\ Head(k.steps) = "rerow"
  BY <1>1, OrderedTail DEF Cleaning, Follows, UndoSteps
<1>5. PointerIsBack(k) /\ RecordIsBack(k)
  BY <1>1, <1>4 DEF Cleaning, Up
<1>6. PointerIsBack(call[c])' /\ RecordIsBack(call[c])'
  BY <1>2, <1>3, <1>5 DEF Goes, PointerIsBack, RecordIsBack
<1>7. RowIsBack(call[c])' /\ ManifestIsBack(call[c])' /\ ~Up(call[c], {"unrecord"})'
  BY <1>2, <1>3, <1>4 DEF Goes, Keeps, RowIsBack, IsNew, ManifestIsBack, Up
<1>8. FieldsAreBack(call[c])'
  <2>1. k.op = "delete" => FieldsAreBack(k)
    BY DEF Cleaning
  <2>2. k.op = "rename" => (k.skill \in behind') = (k.skill \in k.before.behind)
    BY <1>3, <1>4 DEF At
  <2>3. QED
    BY <1>2, <1>3, <1>4, <2>1, <2>2 DEF Goes, FieldsAreBack
<1>9. behind' \in {behind, behind \union {k.skill}, behind \ {k.skill}}
  BY <1>3
<1>10. QED
  BY <1>1, <1>2, <1>3, <1>6, <1>7, <1>8, <1>9, CleaningGoes

-----------------------------------------------------------------------------
(* The cleanups that there are                                             *)

\* The cleanup of create_skill, which discards twice.
LEMMA LongCleanup ==
  ASSUME NEW k, k.created, IsNew(k), k.steps = Cleanup \o <<"discard">>
  PROVE  Ordered(k)
<1> DEFINE ss == Cleanup \o <<"discard">>
<1>1. Cleanup \in Seq(UndoSteps) /\ <<"discard">> \in Seq(UndoSteps)
  BY DEF Cleanup, UndoSteps
<1>2. Len(Cleanup) = 5 /\ Len(<<"discard">>) = 1
  BY DEF Cleanup
<1>3. /\ ss \in Seq(UndoSteps) /\ Len(ss) = Len(Cleanup) + Len(<<"discard">>)
      /\ \A j \in 1..(Len(Cleanup) + Len(<<"discard">>)) :
           ss[j] = IF j <= Len(Cleanup) THEN Cleanup[j] ELSE <<"discard">>[j - Len(Cleanup)]
  <2> HIDE DEF UndoSteps
  <2>1. QED
    BY <1>1, ConcatProperties
<1>4. /\ ss[1] = Cleanup[1] /\ ss[2] = Cleanup[2] /\ ss[3] = Cleanup[3] /\ ss[4] = Cleanup[4]
      /\ ss[5] = Cleanup[5] /\ ss[6] = <<"discard">>[1] /\ Len(ss) = 6
  <2> HIDE DEF ss
  <2>1. QED
    BY <1>2, <1>3
<1>5. /\ ss[1] = "unrow" /\ ss[2] = "clear" /\ ss[3] = "read" /\ ss[4] = "unrecord"
      /\ ss[5] = "discard" /\ ss[6] = "discard"
  BY <1>4 DEF Cleanup
<1> HIDE DEF ss
<1>6. \A j \in 1..6 : j \in {1, 2, 3, 4, 5, 6}
  OBVIOUS
<1>7. ASSUME NEW j \in {1, 2, 3, 4, 5} PROVE <<ss[j], ss[j + 1]>> \in Follows
  <2>1. ss[1 + 1] = ss[2] /\ ss[2 + 1] = ss[3] /\ ss[3 + 1] = ss[4] /\ ss[4 + 1] = ss[5]
        /\ ss[5 + 1] = ss[6]
    OBVIOUS
  <2>2. QED
    BY <1>5, <2>1 DEF Follows
<1>8. ASSUME NEW j \in 1..6
      PROVE  /\ ss[j] \notin {"rerow", "repoint"}
             /\ j = 6 => ss[j] = "discard"
             /\ j # 6 => <<ss[j], ss[j + 1]>> \in Follows
  BY <1>5, <1>6, <1>7
<1>9. k.steps = ss
  BY DEF ss
<1>10. ss \in Seq(UndoSteps) /\ Len(ss) = 6
  BY <1>3, <1>4
<1>11. ASSUME NEW j \in 1..6
       PROVE  /\ ss[j] = "discard" => k.created
              /\ ss[j] = "rerow" => k.op \in {"delete", "rename"}
              /\ ss[j] \in {"unrow", "clear", "read", "unrecord"} => IsNew(k)
              /\ ss[j] = "repoint" => ~IsNew(k)
              /\ IF j = 6
                 THEN ss[j] \in (IF k.created THEN {"discard"} ELSE {"repoint", "rerow"})
                 ELSE <<ss[j], ss[j + 1]>> \in Follows
  BY <1>8
<1>12. QED
  BY <1>9, <1>10, <1>11 DEF Ordered

\* One discard after another.
LEMMA TwoDiscards == <<"discard">> \o <<"discard">> = <<"discard", "discard">>
<1> DEFINE S == {"discard"}
           one == <<"discard">>
           two == <<"discard", "discard">>
<1>1. one \in Seq(S) /\ Len(one) = 1 /\ two \in Seq(S) /\ Len(two) = 2
  OBVIOUS
<1>2. one[1] = "discard" /\ two[1] = "discard" /\ two[2] = "discard"
  OBVIOUS
<1> HIDE DEF S, one, two
<1>3. /\ one \o one \in Seq(S) /\ Len(one \o one) = Len(one) + Len(one)
      /\ \A i \in 1..(Len(one) + Len(one)) :
           (one \o one)[i] = IF i <= Len(one) THEN one[i] ELSE one[i - Len(one)]
  BY <1>1, ConcatProperties
<1>4. Len(one \o one) = 2 /\ \A i \in 1..2 : (one \o one)[i] = two[i]
  BY <1>1, <1>2, <1>3
<1>5. one \o one = two
  BY <1>1, <1>3, <1>4, SeqEqual
<1>6. QED
  BY <1>5 DEF one, two

\* The cleanups are in order.
LEMMA CleanupsAreOrdered ==
  ASSUME NEW k,
         \/ k.steps = <<>>
         \/ k.created /\ k.steps = <<"discard">>
         \/ k.created /\ k.steps = <<"discard", "discard">>
         \/ k.created /\ IsNew(k) /\ k.steps = Cleanup
         \/ k.created /\ IsNew(k) /\ k.steps = Cleanup \o <<"discard">>
         \/ ~k.created /\ ~IsNew(k) /\ k.steps = <<"repoint">>
         \/ k.created /\ ~IsNew(k) /\ k.steps = <<"repoint", "discard">>
         \/ ~k.created /\ k.op \in {"delete", "rename"} /\ k.steps = <<"rerow">>
  PROVE  Ordered(k)
<1> USE DEF Ordered, UndoSteps, Follows
<1>1. CASE k.steps = <<>>
  BY <1>1
<1>2. CASE k.created /\ k.steps = <<"discard">>
  BY <1>2
<1>3. CASE k.created /\ k.steps = <<"discard", "discard">>
  BY <1>3
<1>4. CASE k.created /\ IsNew(k) /\ k.steps = Cleanup
  BY <1>4 DEF Cleanup
<1>5. CASE k.created /\ IsNew(k) /\ k.steps = Cleanup \o <<"discard">>
  <2>1. IsNew(k) /\ k.created
    BY <1>5
  <2> HIDE DEF Ordered, UndoSteps, Follows
  <2>2. QED
    BY <1>5, <2>1, LongCleanup
<1>6. CASE ~k.created /\ ~IsNew(k) /\ k.steps = <<"repoint">>
  BY <1>6
<1>7. CASE k.created /\ ~IsNew(k) /\ k.steps = <<"repoint", "discard">>
  BY <1>7
<1>8. CASE ~k.created /\ k.op \in {"delete", "rename"} /\ k.steps = <<"rerow">>
  BY <1>8
<1>9. QED
  BY <1>1, <1>2, <1>3, <1>4, <1>5, <1>6, <1>7, <1>8

\* A cleanup fails only where its last step, the second discard of a create, finds nothing.
LEMMA FailedCleanup ==
  ASSUME TypeInv, NEW c \in Callers, call[c].error, Cleaning(call[c]), Fail(c)
  PROVE  Recoverable(call[c])'
<1> DEFINE k == call[c]
<1>1. /\ k \in Calls /\ k.op # "none" /\ k.steps # <<>> /\ call'[c].op = k.op
      /\ call'[c].skill = k.skill /\ call'[c].error = TRUE
      /\ call'[c].steps = CleanupFails(k)
      /\ call'[c].faults = k.faults + (IF Ready(c) THEN 1 ELSE 0)
      /\ call'[c].tree = k.tree /\ call'[c].previous = k.previous
      /\ call'[c].created = k.created /\ call'[c].before = k.before
      /\ UNCHANGED <<catalog, versions, current, portable, behind>>
  BY FailFields DEF database, store, records
<1>2. /\ Head(k.steps) \in UndoSteps /\ (Head(k.steps) = "discard" => k.created)
  BY <1>1, OrderedTail DEF Cleaning
<1>3. ~Ready(c) /\ ~Sweeping(c)
  BY <1>1 DEF Fail, Cleaning, TypeInv, TypeOK, Calls
<1>4. Head(k.steps) # "repoint"
  <2>1. SUFFICES ASSUME Head(k.steps) = "repoint" PROVE FALSE
    OBVIOUS
  <2>2. k.previous # None => Version(k.skill, k.previous) \in versions
    BY <1>1 DEF Cleaning, There
  <2>3. QED
    BY <1>3, <2>1, <2>2 DEF Ready, At
<1>5. Head(k.steps) = "discard"
  BY <1>2, <1>3, <1>4 DEF Ready, At, UndoSteps
<1>6. Version(k.skill, k.tree) \notin versions
  BY <1>1, <1>3, <1>5 DEF Ready, At, Busy
<1>7. call'[c].steps \in {<<>>, <<"discard">>}
  BY <1>1, <1>2, <1>5 DEF CleanupFails, Discarded
<1>8. /\ RowIsBack(k) /\ PointerIsBack(k) /\ RecordIsBack(k) /\ FieldsAreBack(k)
      /\ Restorable(k)
  BY <1>5 DEF Cleaning, Up
<1>9. /\ RowIsBack(call[c])' /\ PointerIsBack(call[c])' /\ RecordIsBack(call[c])'
      /\ FieldsAreBack(call[c])' /\ Restorable(call[c])' /\ ManifestIsBack(call[c])'
  BY <1>1, <1>6, <1>8 DEF RowIsBack, IsNew, PointerIsBack, RecordIsBack, FieldsAreBack,
                          Restorable, ManifestIsBack
<1>10. Ordered(call[c])'
  BY <1>1, <1>2, <1>5, <1>7, CleanupsAreOrdered
<1>11. call'[c].faults = k.faults /\ k.faults = MaxFaults
  BY <1>1, <1>3 DEF Cleaning, Calls
<1>12. ~Up(call[c], {"unrecord"})'
  BY <1>7 DEF Up
<1>13. Cleaning(call[c])'
  BY <1>1, <1>9, <1>10, <1>11, <1>12 DEF Cleaning, There
<1>14. QED
  BY <1>1, <1>13 DEF Recoverable

\* The commands that capture a version of a skill that exists.
Saves == {"save", "markdown", "update"}

\* What a failure leaves to do, and which parts of the skill have not been changed by then.
LEMMA UndoTable ==
  ASSUME NEW k \in Calls, k.op \in Commands, NEW i \in 1..Len(Script[k.op]), k.steps # <<>>,
         Head(k.steps) = Script[k.op][i], <<k.op, Head(k.steps)>> \in RolledBack
  PROVE  \/ /\ Undo(k) = <<>> /\ (k.op \in Capturing => i <= CapturesAt(k.op))
            /\ i <= RowAt(k.op) /\ i <= MovesAt(k.op) /\ i <= RecordsAt(k.op)
            /\ i <= ChangesAt(k.op)
         \/ /\ k.op = "create" /\ i = 3 /\ Undo(k) = Discarded(k)
         \/ /\ k.op = "create" /\ i = 5 /\ Undo(k) = Discarded(k) \o Discarded(k)
         \/ /\ k.op = "create" /\ i > 5 /\ Undo(k) = Cleanup \o Discarded(k)
         \/ /\ k.op = "import" /\ i >= 5 /\ Undo(k) = Cleanup
         \/ /\ k.op = "choose" /\ i > 2 /\ i <= RecordsAt(k.op) /\ Undo(k) = <<"repoint">>
         \/ /\ k.op \in Saves /\ i = MovesAt(k.op) /\ Undo(k) = Discarded(k)
         \/ /\ k.op \in Saves /\ MovesAt(k.op) < i /\ i <= RecordsAt(k.op)
            /\ Undo(k) = <<"repoint">> \o Discarded(k)
         \/ /\ k.op = "delete" /\ i \in {4, 5} /\ Undo(k) = <<"rerow">>
         \/ /\ k.op = "rename" /\ i \in {5, 6} /\ Undo(k) = <<"rerow">>
<1> USE DEF Capturing, CapturesAt, MovesAt, RecordsAt, RowAt, ChangesAt, Saves, RolledBack,
            Undone, Undo
<1>1. CASE k.op = "create"
  BY <1>1, ScriptTables DEF Script
<1>2. CASE k.op = "import"
  BY <1>2, ScriptTables DEF Script
<1>3. CASE k.op = "choose"
  BY <1>3, ScriptTables DEF Script
<1>4. CASE k.op = "save"
  BY <1>4, ScriptTables DEF Script
<1>5. CASE k.op = "markdown"
  BY <1>5, ScriptTables DEF Script
<1>6. CASE k.op = "update"
  BY <1>6, ScriptTables DEF Script
<1>7. CASE k.op = "relink"
  BY <1>7, ScriptTables DEF Script
<1>8. CASE k.op = "rename"
  BY <1>8, ScriptTables DEF Script
<1>9. CASE k.op = "delete"
  BY <1>9, ScriptTables DEF Script
<1>10. QED
  BY <1>1, <1>2, <1>3, <1>4, <1>5, <1>6, <1>7, <1>8, <1>9 DEF Commands

-----------------------------------------------------------------------------
(* Failures                                                                *)

\* What a step needs is there, but for an update that is not due and a version that the
\* user chose.
LEMMA AlmostReady ==
  ASSUME TypeInv, NEW c \in Callers, call[c].op \in Commands, call[c].steps # <<>>,
         ~Sweeping(c), NEW i \in 1..Len(Script[call[c].op]), Working(call[c], i),
         KeptAt(call[c], i), Head(call[c].steps) = Script[call[c].op][i], ~Ready(c)
  PROVE  \/ Head(call[c].steps) \in {"hash", "check"}
         \/ Head(call[c].steps) = "point" /\ call[c].op = "choose"
<1> DEFINE k == call[c]
           op == call[c].op
           h == Head(call[c].steps)
<1>1. op # "none"
  BY DEF Commands
<1>2. h \in {"lookup", "verify", "hash", "check", "scan", "point", "discard", "reread",
             "repoint"}
  BY DEF Ready, At
<1>3. CASE h \in {"lookup", "verify"}
  <2>1. op \notin {"create", "import"} /\ i <= RowAt(op)
    BY <1>3, ReadsAt
  <2>2. op = "delete" => i <= 6
    BY <2>1 DEF RowAt
  <2>3. k.skill \in catalog
    BY <2>1, <2>2 DEF KeptAt, RowIsBack, IsNew
  <2>4. QED
    BY <1>1, <1>3, <2>3 DEF Ready, At, Busy
<1>4. CASE h = "scan"
  <2>1. op = "update" => i = 3
    BY <1>4, Positions
  <2>2. op = "update" => link[k.skill] # None
    BY <2>1 DEF Working, Updating, MovesAt
  <2>3. QED
    BY <1>1, <1>4, <2>2 DEF Ready, At, Busy
<1>5. CASE h \in {"point", "reread"} /\ op # "choose"
  <2>1. op \in Capturing /\ i > CapturesAt(op)
    <3>1. CASE h = "point"
      BY <1>5, <3>1, Positions DEF Capturing, CapturesAt, MovesAt
    <3>2. CASE h = "reread"
      BY <3>2, ReadsAt
    <3>3. QED
      BY <1>5, <3>1, <3>2
  <2>2. Version(k.skill, k.tree) \in versions
    BY <2>1 DEF Working, Captured
  <2>3. QED
    BY <1>1, <1>5, <2>2 DEF Ready, At, Busy
<1>6. h \notin {"discard", "repoint"}
  BY Positions
<1>7. h = "reread" => op # "choose"
  BY ReadsAt DEF Capturing
<1>8. QED
  BY <1>2, <1>3, <1>4, <1>5, <1>6, <1>7

\* The parts of the skill after a failure, and what is left to do.
LEMMA FailedParts ==
  ASSUME TypeInv, NEW c \in Callers, call[c] \in Calls, call[c].op \in Commands,
         call[c].steps # <<>>, NEW i \in 1..Len(Script[call[c].op]), Working(call[c], i),
         KeptAt(call[c], i), Head(call[c].steps) = Script[call[c].op][i],
         <<call[c].op, Head(call[c].steps)>> \in RolledBack
  PROVE  LET k == call[c]
             steps == Undo(k)
         IN /\ Ordered([k EXCEPT !.steps = steps]) /\ Restorable(k)
            /\ RowIsBack(k) \/ (steps # <<>> /\ Head(steps) \in {"unrow", "rerow"})
            /\ PointerIsBack(k) \/ (steps # <<>> /\ Head(steps) \in {"unrow", "repoint"})
            /\ RecordIsBack(k) \/ (steps # <<>> /\ Head(steps) = "unrow")
            /\ \/ FieldsAreBack(k)
               \/ k.op = "rename" /\ steps # <<>> /\ Head(steps) = "rerow"
            /\ ManifestIsBack(k) \/ steps # <<>>
            /\ steps # <<>> =>
                 /\ Head(steps) # "unrecord"
                 /\ k.previous = k.before.current[k.skill] /\ There(k.skill, k.previous)
                 /\ k.created => k.tree # k.previous
<1> DEFINE k == call[c]
           op == call[c].op
           n == [k EXCEPT !.steps = Undo(k)]
<1>1. /\ n.op = op /\ n.created = k.created /\ n.steps = Undo(k) /\ IsNew(n) = IsNew(k)
  BY DEF Calls, IsNew
<1>2. /\ MovesAt(op) \in Nat /\ RecordsAt(op) \in Nat /\ CapturesAt(op) \in Nat
      /\ i \in Nat
  BY ScriptLength
<1>3. Discarded(k) = (IF k.created THEN <<"discard">> ELSE <<>>)
  BY DEF Discarded
<1>4. op \notin Capturing => ~k.created
  BY DEF Working, Captured
<1>5. k.created => op \in Capturing /\ i > CapturesAt(op) /\ k.tree # k.previous
  BY <1>4 DEF Working, Captured
<1>6. ASSUME op = "delete" => i <= 5
      PROVE  /\ Restorable(k)
             /\ i <= RowAt(op) => RowIsBack(k)
             /\ i <= MovesAt(op) => PointerIsBack(k)
             /\ i <= RecordsAt(op) => RecordIsBack(k)
             /\ i <= ChangesAt(op) => FieldsAreBack(k)
             /\ Checked(k, i) => k.previous = k.before.current[k.skill]
             /\ Checked(k, i) => There(k.skill, k.previous)
  BY <1>6 DEF KeptAt, Working, Pointed
<1> HIDE DEF n
<1>7. CASE /\ Undo(k) = <<>> /\ (op \in Capturing => i <= CapturesAt(op))
           /\ i <= RowAt(op) /\ i <= MovesAt(op) /\ i <= RecordsAt(op) /\ i <= ChangesAt(op)
  <2>1. op = "delete" => i <= 5
    BY <1>7 DEF RowAt
  <2>2. ~k.created
    BY <1>2, <1>5, <1>7
  <2>3. Ordered(n)
    BY <1>1, <1>7, CleanupsAreOrdered
  <2>4. QED
    BY <1>6, <1>7, <2>1, <2>2, <2>3 DEF ManifestIsBack, n
<1>8. CASE \/ op = "create" /\ i = 3 /\ Undo(k) = Discarded(k)
           \/ op = "create" /\ i = 5 /\ Undo(k) = Discarded(k) \o Discarded(k)
           \/ op = "create" /\ i > 5 /\ Undo(k) = Cleanup \o Discarded(k)
           \/ op = "import" /\ i >= 5 /\ Undo(k) = Cleanup
  <2>1. op \in Capturing /\ i > CapturesAt(op) /\ Checked(k, i) /\ IsNew(k) /\ op # "delete"
    BY <1>8 DEF Capturing, CapturesAt, Checked, IsNew
  <2>2. k.tree \in Trees /\ Version(k.skill, k.tree) \in versions
    BY <2>1 DEF Working, Captured
  <2>3. k.created
    BY <1>6, <2>1, <2>2 DEF Restorable
  <2>4. FieldsAreBack(k)
    <3>1. op \in {"create", "import"}
      BY <1>8
    <3>2. Len(Script[op]) = 10
      BY <3>1, ScriptTables
    <3>3. i <= 10
      BY <3>2
    <3>4. QED
      BY <1>2, <1>6, <2>1, <3>1, <3>3 DEF ChangesAt
  <2>5. CASE /\ op = "create" /\ i \in {3, 5}
             /\ Undo(k) \in {Discarded(k), Discarded(k) \o Discarded(k)}
    <3> HIDE DEF k
    <3>7. Discarded(k) = <<"discard">>
      BY <1>3, <2>3
    <3>1. Undo(k) \in {<<"discard">>, <<"discard", "discard">>}
      BY <2>5, <3>7, TwoDiscards
    <3> USE DEF k
    <3>2. Ordered(n)
      BY <1>1, <2>3, <3>1, CleanupsAreOrdered
    <3>3. i <= RowAt(op) /\ i <= MovesAt(op) /\ i <= RecordsAt(op)
      BY <2>5 DEF RowAt, MovesAt, RecordsAt
    <3>4. Undo(k) # <<>> /\ Head(Undo(k)) = "discard"
      BY <3>1
    <3>5. QED
      BY <1>5, <1>6, <2>1, <2>3, <2>4, <3>2, <3>3, <3>4 DEF n
  <2>6. CASE Undo(k) = Cleanup \/ Undo(k) = Cleanup \o Discarded(k)
    <3>1. Undo(k) = Cleanup \/ Undo(k) = Cleanup \o <<"discard">>
      BY <1>3, <2>3, <2>6
    <3>2. Ordered(n)
      BY <1>1, <2>1, <2>3, <3>1, CleanupsAreOrdered
    <3>3. Undo(k) # <<>> /\ Head(Undo(k)) = "unrow"
      BY <3>1 DEF Cleanup
    <3>4. QED
      BY <1>5, <1>6, <2>1, <2>3, <2>4, <3>2, <3>3 DEF n
  <2>7. QED
    BY <1>8, <2>5, <2>6
<1>9. CASE op = "choose" /\ i > 2 /\ i <= RecordsAt(op) /\ Undo(k) = <<"repoint">>
  <2>1. /\ ~k.created /\ ~IsNew(k) /\ Checked(k, i) /\ i <= RowAt(op) /\ op # "delete"
        /\ i <= ChangesAt(op)
    BY <1>4, <1>9 DEF Capturing, IsNew, Checked, RowAt, RecordsAt, ChangesAt
  <2>2. Ordered(n)
    BY <1>1, <1>9, <2>1, CleanupsAreOrdered
  <2>3. QED
    BY <1>6, <1>9, <2>1, <2>2 DEF n
<1>10. CASE op \in Saves /\ i = MovesAt(op) /\ Undo(k) = Discarded(k)
  <2>1. /\ ~IsNew(k) /\ Checked(k, i) /\ i <= RowAt(op) /\ i <= RecordsAt(op)
        /\ op # "delete" /\ i <= ChangesAt(op)
    BY <1>10 DEF Saves, IsNew, Checked, RowAt, RecordsAt, MovesAt, ChangesAt
  <2>2. Ordered(n)
    BY <1>1, <1>3, <1>10, <2>1, CleanupsAreOrdered
  <2>3. k.created => Undo(k) # <<>> /\ Head(Undo(k)) = "discard"
    BY <1>3, <1>10
  <2>4. ~k.created => Undo(k) = <<>>
    BY <1>3, <1>10
  <2>5. QED
    BY <1>2, <1>5, <1>6, <1>10, <2>1, <2>2, <2>3, <2>4 DEF n, ManifestIsBack
<1>11. CASE /\ op \in Saves /\ MovesAt(op) < i /\ i <= RecordsAt(op)
            /\ Undo(k) = <<"repoint">> \o Discarded(k)
  <2>1. /\ ~IsNew(k) /\ Checked(k, i) /\ i <= RowAt(op) /\ op # "delete"
        /\ i <= ChangesAt(op)
    BY <1>11 DEF Saves, IsNew, Checked, RowAt, RecordsAt, MovesAt, ChangesAt
  <2>2. Undo(k) = IF k.created THEN <<"repoint", "discard">> ELSE <<"repoint">>
    BY <1>3, <1>11
  <2>3. Ordered(n)
    BY <1>1, <2>1, <2>2, CleanupsAreOrdered
  <2>4. Undo(k) # <<>> /\ Head(Undo(k)) = "repoint"
    BY <2>2
  <2>5. QED
    BY <1>5, <1>6, <1>11, <2>1, <2>3, <2>4 DEF n
<1>12. CASE op = "delete" /\ i \in {4, 5} /\ Undo(k) = <<"rerow">>
  <2>1. /\ ~k.created /\ Checked(k, i) /\ i <= MovesAt(op) /\ i <= RecordsAt(op) /\ i <= 5
        /\ i <= ChangesAt(op)
    BY <1>4, <1>12 DEF Capturing, Checked, MovesAt, RecordsAt, ChangesAt
  <2>2. Ordered(n)
    BY <1>1, <1>12, <2>1, CleanupsAreOrdered
  <2>3. QED
    BY <1>6, <1>12, <2>1, <2>2 DEF n
<1>13. CASE op = "rename" /\ i \in {5, 6} /\ Undo(k) = <<"rerow">>
  <2>1. /\ ~k.created /\ Checked(k, i) /\ i <= RowAt(op) /\ i <= MovesAt(op)
        /\ i <= RecordsAt(op)
    BY <1>4, <1>13 DEF Capturing, Checked, RowAt, MovesAt, RecordsAt
  <2>2. Ordered(n)
    BY <1>1, <1>13, <2>1, CleanupsAreOrdered
  <2>3. QED
    BY <1>6, <1>13, <2>1, <2>2 DEF n
<1>14. QED
  BY <1>7, <1>8, <1>9, <1>10, <1>11, <1>12, <1>13, UndoTable

\* A step that fails leaves a command that can be undone.
LEMMA FailedWork ==
  ASSUME OneFault, TypeInv, WorkInv, BackInv, NEW c \in Callers, ~call[c].error, Fail(c)
  PROVE  Recoverable(call[c])'
<1> DEFINE k == call[c]
           op == call[c].op
           h == Head(call[c].steps)
<1>1. /\ k \in Calls /\ k.op # "none" /\ k.steps # <<>> /\ call'[c].op = op
      /\ call'[c].skill = k.skill /\ call'[c].error = TRUE /\ call'[c].steps = Undo(k)
      /\ call'[c].faults = k.faults + (IF Ready(c) THEN 1 ELSE 0)
      /\ call'[c].tree = k.tree /\ call'[c].previous = k.previous
      /\ call'[c].created = k.created /\ call'[c].before = k.before
      /\ UNCHANGED <<catalog, versions, current, portable, behind>>
  BY FailFields DEF database, store, records
<1>2. /\ (<<op, h>> \in Failing /\ k.faults < MaxFaults) \/ ~Ready(c)
      /\ k.faults \in Nat /\ MaxFaults \in Nat /\ k.faults <= MaxFaults
  BY <1>1, ConstantsAssumption DEF Fail, Calls
<1>3. <<op, h>> \notin Failing \/ <<op, h>> \in RolledBack
  BY DEF OneFault
<1>4. ~Sweeping(c)
  BY DEF Fail
<1>5. ~Dropping(k)
  <2>1. SUFFICES ASSUME Dropping(k) PROVE FALSE
    OBVIOUS
  <2>2. h = "discard" /\ Version(k.skill, k.tree) \in versions
    BY <2>1, DroppingSteps DEF Dropping
  <2>3. Ready(c)
    BY <1>1, <1>4, <2>2 DEF Ready, At
  <2>4. QED
    BY <1>2, <1>3, <2>2, <2>3 DEF RolledBack
<1>6. PICK i \in 1..Len(Script[op]) : Working(k, i) /\ h = Script[op][i]
  BY <1>1, <1>5, PickStep
<1>7. op \in Commands /\ i \in 1..(Len(Script[op]) + 1)
  BY <1>1, PickStep, ScriptLength
<1>8. KeptAt(k, i)
  BY <1>1, <1>6, <1>7 DEF BackInv, Recoverable, Working
<1>9. ~Ready(c) => h \in {"hash", "check"} \/ (h = "point" /\ op = "choose")
  BY <1>1, <1>4, <1>6, <1>7, <1>8, AlmostReady
<1>10. <<op, h>> \in RolledBack
  BY <1>2, <1>3, <1>7, <1>9 DEF RolledBack
<1>11. Undo(k) # <<>> => call'[c].faults = MaxFaults
  <2>1. CASE ~Ready(c)
    <3>1. op = "update" \/ op = "choose"
      BY <1>6, <1>7, <1>9, <2>1, Positions
    <3>2. Undo(k) = <<>>
      BY <1>9, <2>1, <3>1, <1>6, <1>7, Positions DEF Undo, Undone
    <3>3. QED
      BY <3>2
  <2>2. CASE Ready(c)
    BY <1>1, <1>2, <2>2 DEF OneFault
  <2>3. QED
    BY <2>1, <2>2
<1>12. /\ Ordered([k EXCEPT !.steps = Undo(k)]) /\ Restorable(k)
       /\ RowIsBack(k) \/ (Undo(k) # <<>> /\ Head(Undo(k)) \in {"unrow", "rerow"})
       /\ PointerIsBack(k) \/ (Undo(k) # <<>> /\ Head(Undo(k)) \in {"unrow", "repoint"})
       /\ RecordIsBack(k) \/ (Undo(k) # <<>> /\ Head(Undo(k)) = "unrow")
       /\ \/ FieldsAreBack(k)
          \/ op = "rename" /\ Undo(k) # <<>> /\ Head(Undo(k)) = "rerow"
       /\ ManifestIsBack(k) \/ Undo(k) # <<>>
       /\ Undo(k) # <<>> =>
            /\ Head(Undo(k)) # "unrecord"
            /\ k.previous = k.before.current[k.skill] /\ There(k.skill, k.previous)
            /\ k.created => k.tree # k.previous
  BY <1>1, <1>6, <1>7, <1>8, <1>10, FailedParts
<1>13. /\ RowIsBack(call[c])' = RowIsBack(k) /\ PointerIsBack(call[c])' = PointerIsBack(k)
       /\ RecordIsBack(call[c])' = RecordIsBack(k)
       /\ FieldsAreBack(call[c])' = FieldsAreBack(k)
       /\ ManifestIsBack(call[c])' = ManifestIsBack(k)
       /\ Restorable(call[c])' = Restorable(k)
  BY <1>1 DEF RowIsBack, PointerIsBack, RecordIsBack, FieldsAreBack, ManifestIsBack, Restorable,
              IsNew, op
<1> HIDE DEF k, op, h
<1>14. Ordered(call[c])'
  <2> DEFINE n == [k EXCEPT !.steps = Undo(k)]
  <2>1. n.steps = Undo(k) /\ n.op = op /\ n.created = k.created
    BY <1>1 DEF Calls, k, op
  <2>2. Ordered(n)
    BY <1>12
  <2> HIDE DEF n
  <2>3. QED
    BY <1>1, <2>1, <2>2 DEF Ordered, IsNew
<1>15. Cleaning(call[c])'
  BY <1>1, <1>11, <1>12, <1>13, <1>14 DEF Cleaning, Up, There
<1>16. QED
  BY <1>1, <1>15 DEF Recoverable, op

\* At the start of a command everything is as before.
LEMMA StartBack ==
  ASSUME TypeInv, NEW c \in Callers, Start(c)
  PROVE  Recoverable(call[c])'
<1>1. PICK s \in Skills, op \in Commands, fields \in Quiet :
        Begins(c, op, s, fields) /\ Prepared(op, s, fields)
  BY StartPrepared
<1>2. /\ call'[c].op = op /\ call'[c].skill = s /\ call'[c].steps = From(op, 1)
      /\ call'[c].previous = fields.previous
      /\ call'[c].created = fields.created /\ call'[c].error = fields.error
      /\ call'[c].before = Snapshot(catalog, behind, versions, current, portable)
      /\ UNCHANGED <<catalog, versions, current, portable, behind>>
  BY <1>1, BeginsFields DEF Quiet, database, store, records
<1>3. ~call'[c].created /\ ~call'[c].error
  BY <1>1, <1>2 DEF Prepared
<1>4. current \in [Skills -> Trees \union {None}] /\ portable \in [Skills -> Records]
  BY DEF TypeInv, TypeOK
<1>5. /\ call'[c].before.catalog = catalog /\ call'[c].before.versions = versions
      /\ call'[c].before.current = current /\ call'[c].before.portable = portable
      /\ call'[c].before.behind = behind
  BY <1>2 DEF Snapshot
<1>6. IF op \in {"create", "import"} THEN Fresh(s) ELSE s \in catalog
  BY <1>1 DEF Prepared, Existing
<1>7. /\ RowIsBack(call[c])' /\ PointerIsBack(call[c])' /\ RecordIsBack(call[c])'
      /\ FieldsAreBack(call[c])'
  BY <1>2, <1>5, <1>6 DEF RowIsBack, PointerIsBack, RecordIsBack, FieldsAreBack, IsNew, Fresh
<1>8. Restorable(call[c])'
  BY <1>2, <1>3, <1>4, <1>5, <1>6 DEF Restorable, IsNew, Fresh
<1>9. Checked(call[c], 1)' => call'[c].previous = call'[c].before.current[s]
  BY <1>1, <1>2, <1>5, <1>6 DEF Prepared, Checked, Fresh
<1>10. KeptAt(call[c], 1)'
  BY <1>2, <1>7, <1>8, <1>9 DEF KeptAt, RecordsAt
<1>11. 1 \in 1..(Len(Script[op]) + 1)
  BY ScriptLength
<1>12. QED
  BY <1>2, <1>3, <1>10, <1>11, ComesTo

\* Every step of a command.
LEMMA StepBack ==
  ASSUME OneFault, TypeInv, WorkInv, BackInv, NEW c \in Callers, Step(c)
  PROVE  Recoverable(call[c])'
<1>1. CASE Answer(c)
  <2>1. call'[c] = Idle
    BY <1>1 DEF Answer, TypeInv, TypeOK
  <2>2. QED
    BY <2>1, IdleProgress DEF Recoverable
<1>2. CASE Put(c) \/ (\E o \in Objects : Inspect(c, o)) \/ RemoveObject(c)
  <2>1. UNCHANGED <<catalog, versions, current, portable, behind>>
    BY <1>2 DEF Put, Inspect, RemoveObject, database, store, records
  <2>2. QED
    BY <1>2, <2>1, SweepFields, StayingBack
<1>3. CASE ~call[c].error /\ Fail(c)
  BY <1>3, FailedWork
<1>4. CASE ~call[c].error /\ ~Fail(c) /\ ~Answer(c)
           /\ ~(Put(c) \/ (\E o \in Objects : Inspect(c, o)) \/ RemoveObject(c))
  BY <1>4, GoingBack, EndingBack DEF Step
<1>5. CASE call[c].error /\ ~Answer(c)
           /\ ~(Put(c) \/ (\E o \in Objects : Inspect(c, o)) \/ RemoveObject(c))
  <2>1. call[c].op # "none" /\ call[c].steps # <<>>
    BY <1>5 DEF Step, Scan, PublishManifest, Point, Repoint, ClearCurrent, Discard, ListVersions,
                DropVersions, Reread, OpenLibrary, ReadLibraryJson, WriteLibraryJson,
                LockDatabase, Lookup, InsertRow, RemoveRow, Relink, SetRevision, HashTree,
                CheckSource, ClosePlan, Fail, At, Busy
  <2>2. Cleaning(call[c])
    BY <1>5, <2>1 DEF BackInv, Recoverable
  <2>3. Head(call[c].steps) \in UndoSteps
    BY <2>1, <2>2, OrderedTail DEF Cleaning
  <2>4. \/ RemoveRow(c) \/ ClearCurrent(c) \/ ReadLibraryJson(c) \/ WriteLibraryJson(c)
        \/ Discard(c) \/ Repoint(c) \/ InsertRow(c) \/ Fail(c)
    BY <1>5, <2>3 DEF Step, Scan, PublishManifest, Point, ListVersions, DropVersions, Reread,
                      OpenLibrary, LockDatabase, Lookup, Relink, SetRevision, HashTree,
                      CheckSource, ClosePlan, At, UndoSteps
  <2>5. QED
    BY <1>5, <2>2, <2>4, UnrowBack, ClearBack, RecordBack, DiscardBack, RepointBack, RerowBack,
       FailedCleanup
<1>6. QED
  BY <1>1, <1>2, <1>3, <1>4, <1>5

\* The invariant of the roll-backs is inductive.
LEMMA BackInvStep ==
  ASSUME OneCaller, OneFault PROVE TypeInv /\ WorkInv /\ BackInv /\ [Next]_vars => BackInv'
<1> SUFFICES ASSUME TypeInv, WorkInv, BackInv, [Next]_vars PROVE BackInv'
  OBVIOUS
<1>1. CASE \E c \in Callers : Start(c) \/ Step(c)
  <2>1. PICK c \in Callers : Start(c) \/ Step(c)
    BY <1>1
  <2>2. Recoverable(call[c])'
    BY <2>1, StartBack, StepBack
  <2>3. \A d \in Callers : d = c
    BY DEF OneCaller
  <2>4. QED
    BY <2>2, <2>3 DEF BackInv
<1>2. CASE (\E p \in Plans : DropPlan(p) \/ \E src \in Sources : PrepareImport(p, src))
           \/ (\E src \in Sources, t \in Trees : UpstreamChanges(src, t)) \/ UNCHANGED vars
  <2>1. UNCHANGED <<call, catalog, versions, current, portable, behind>>
    BY <1>2 DEF DropPlan, PrepareImport, UpstreamChanges, vars, database, store, records
  <2>2. \A c \in Callers : Recoverable(call[c])'
    BY <2>1, StayingBack
  <2>3. QED
    BY <2>2 DEF BackInv
<1>3. CASE Crash
  <2>1. \A c \in Callers : call'[c] = Idle
    BY <1>3 DEF Crash
  <2>2. \A c \in Callers : Recoverable(call[c])'
    BY <2>1, IdleProgress DEF Recoverable
  <2>3. QED
    BY <2>2 DEF BackInv
<1>4. QED
  BY <1>1, <1>2, <1>3 DEF Next

\* The invariant of the roll-backs holds at first.
LEMMA BackInvInit == Init => BackInv
<1> SUFFICES ASSUME Init PROVE BackInv
  OBVIOUS
<1>1. \A c \in Callers : call[c] = Idle
  BY DEF Init
<1>2. QED
  BY <1>1, IdleProgress DEF BackInv, Recoverable

-----------------------------------------------------------------------------
(* What is rolled back, and what resolves                                  *)

\* A discard takes no current version: that of a delete has lost its row, a cleanup has moved
\* the pointer back before.
LEMMA DiscardResolves ==
  ASSUME TypeInv, WorkInv, BackInv, CurrentVersionExists, NEW c \in Callers, Discard(c)
  PROVE  CurrentVersionExists'
<1> DEFINE k == call[c]
<1>1. /\ k.op # "none" /\ k.skill \in Skills /\ k.steps # <<>> /\ Head(k.steps) = "discard"
  BY AtTyped DEF Discard, At
<1>2. /\ UNCHANGED <<catalog, current>>
      /\ versions' = versions \ {Version(k.skill, k.tree)}
  BY DEF Discard, database
<1>3. \A s \in catalog : s # k.skill => CurrentResolves(s)'
  BY <1>2 DEF CurrentVersionExists, CurrentResolves, Version
<1>4. k.skill \in catalog => current[k.skill] # k.tree
  <2>1. CASE k.error
    <3>1. Cleaning(k)
      BY <1>1, <2>1 DEF BackInv, Recoverable
    <3>2. k.created
      BY <1>1, <3>1, OrderedTail DEF Cleaning
    <3>3. /\ PointerIsBack(k) /\ k.previous = k.before.current[k.skill] /\ k.tree # k.previous
      BY <1>1, <3>1, <3>2 DEF Cleaning, Up
    <3>4. QED
      BY <3>3 DEF PointerIsBack
  <2>2. CASE ~k.error
    <3>1. Dropping(k)
      BY <1>1, <2>2, PickStep, Positions
    <3>2. QED
      BY <3>1 DEF Dropping
  <2>3. QED
    BY <2>1, <2>2
<1>5. \A s \in catalog : s = k.skill => CurrentResolves(s)'
  BY <1>2, <1>4 DEF CurrentVersionExists, CurrentResolves, Version
<1>6. QED
  BY <1>2, <1>3, <1>5 DEF CurrentVersionExists

\* A row comes with no pointer, or with the one that it had.
LEMMA InsertResolves ==
  ASSUME TypeInv, WorkInv, BackInv, CurrentVersionExists, NEW c \in Callers, InsertRow(c)
  PROVE  CurrentVersionExists'
<1> DEFINE k == call[c]
<1>1. /\ k.op # "none" /\ k.skill \in Skills /\ k.steps # <<>>
      /\ Head(k.steps) \in {"row", "rerow"}
  BY AtTyped DEF InsertRow, At
<1>2. UNCHANGED <<versions, current>> /\ catalog' = catalog \union {k.skill}
  BY DEF InsertRow, store
<1>3. CurrentResolves(k.skill)
  <2>1. CASE k.error
    <3>1. Cleaning(k)
      BY <1>1, <2>1 DEF BackInv, Recoverable
    <3>2. Head(k.steps) = "rerow"
      BY <1>1, <3>1, OrderedTail DEF Cleaning, UndoSteps
    <3>3. PointerIsBack(k) /\ k.previous = k.before.current[k.skill] /\ There(k.skill, k.previous)
      BY <1>1, <3>1, <3>2 DEF Cleaning, Up
    <3>4. QED
      BY <3>3 DEF PointerIsBack, There, CurrentResolves
  <2>2. CASE ~k.error
    <3>1. ~Dropping(k)
      BY <1>1, DroppingSteps DEF Dropping
    <3>2. PICK i \in 1..Len(Script[k.op]) :
            Working(k, i) /\ Script[k.op][i] \in {"row", "rerow"}
      BY <1>1, <2>2, <3>1, PickStep
    <3>3. (k.op \in {"create", "import"} /\ i = 5) \/ (k.op = "rename" /\ i = 3)
      BY <1>1, <2>2, <3>2, PickStep, Positions
    <3>4. current[k.skill] = k.previous /\ There(k.skill, k.previous)
      BY <3>2, <3>3 DEF Working, Pointed, Checked, MovesAt
    <3>5. QED
      BY <3>4 DEF CurrentResolves, There
  <2>3. QED
    BY <2>1, <2>2
<1>4. QED
  BY <1>2, <1>3 DEF CurrentVersionExists, CurrentResolves

\* A pointer is moved to a version that is there, or taken away.
LEMMA PointerResolves ==
  ASSUME TypeInv, CurrentVersionExists, NEW c \in Callers,
         Point(c) \/ Repoint(c) \/ ClearCurrent(c)
  PROVE  CurrentVersionExists'
<1> DEFINE s == call[c].skill
<1>1. s \in Skills /\ current \in [Skills -> Trees \union {None}] /\ catalog \subseteq Skills
  BY AtTyped DEF Point, Repoint, ClearCurrent, TypeInv, TypeOK
<1>2. UNCHANGED <<catalog, versions>>
  BY DEF Point, Repoint, ClearCurrent, database
<1>3. PICK t : current' = [current EXCEPT ![s] = t] /\ (t = None \/ Version(s, t) \in versions)
  BY DEF Point, Repoint, ClearCurrent
<1>4. QED
  BY <1>1, <1>2, <1>3 DEF CurrentVersionExists, CurrentResolves

\* Fewer rows, the same pointers and more versions break nothing.
LEMMA FewerRows ==
  ASSUME CurrentVersionExists, current' = current, catalog' \subseteq catalog,
         versions \subseteq versions'
  PROVE  CurrentVersionExists'
BY DEF CurrentVersionExists, CurrentResolves

\* Every step keeps the current versions there.
LEMMA CurrentStep ==
  TypeInv /\ WorkInv /\ BackInv /\ CurrentVersionExists /\ [Next]_vars => CurrentVersionExists'
<1> SUFFICES ASSUME TypeInv, WorkInv, BackInv, CurrentVersionExists, [Next]_vars
             PROVE  CurrentVersionExists'
  OBVIOUS
<1>1. CASE \E c \in Callers : Start(c)
  BY <1>1, StartPrepared, FewerRows DEF Begins, database, store, records
<1>2. CASE \E c \in Callers : Step(c)
  <2>1. PICK c \in Callers : Step(c)
    BY <1>2
  <2>2. CASE Discard(c) \/ InsertRow(c) \/ Point(c) \/ Repoint(c) \/ ClearCurrent(c)
    BY <2>2, DiscardResolves, InsertResolves, PointerResolves
  <2>3. CASE PublishManifest(c) \/ RemoveRow(c) \/ OpenLibrary(c) \/ HashTree(c)
    BY <2>3, FewerRows
       DEF PublishManifest, RemoveRow, OpenLibrary, HashTree, database, store, records
  <2>4. CASE \/ Scan(c) \/ Put(c) \/ (\E o \in Objects : Inspect(c, o)) \/ RemoveObject(c)
             \/ ListVersions(c) \/ DropVersions(c) \/ Reread(c)
    BY <2>4, FewerRows
       DEF Scan, Put, Inspect, RemoveObject, ListVersions, DropVersions, Reread, database,
           store, records
  <2>5. CASE \/ ReadLibraryJson(c) \/ WriteLibraryJson(c) \/ LockDatabase(c) \/ Lookup(c)
             \/ Relink(c) \/ SetRevision(c) \/ CheckSource(c) \/ ClosePlan(c)
             \/ Fail(c) \/ Answer(c)
    BY <2>5, FewerRows
       DEF ReadLibraryJson, WriteLibraryJson, LockDatabase, Lookup, Relink, SetRevision,
           CheckSource, ClosePlan, Fail, Answer, database, store, records
  <2>6. QED
    BY <2>1, <2>2, <2>3, <2>4, <2>5 DEF Step
<1>3. CASE (\E p \in Plans : DropPlan(p) \/ \E src \in Sources : PrepareImport(p, src))
           \/ (\E src \in Sources, t \in Trees : UpstreamChanges(src, t)) \/ Crash
           \/ UNCHANGED vars
  BY <1>3, FewerRows
     DEF DropPlan, PrepareImport, UpstreamChanges, Crash, vars, database, store, records
<1>4. QED
  BY <1>1, <1>2, <1>3 DEF Next

\* The `current` file of a skill in the catalog names a version that is there, across
\* cleanups and crashes, as long as a command meets at most one failing step and the step is
\* one of those whose cleanup puts everything back.
THEOREM CurrentVersionsAreThere ==
  ASSUME OneCaller, OneFault PROVE Spec => []CurrentVersionExists
<1>1. Init => CurrentVersionExists
  BY DEF Init, CurrentVersionExists
<1>2. TypeInv /\ WorkInv /\ [Next]_vars => WorkInv'
  BY WorkInvStep
<1>3. TypeInv /\ WorkInv /\ BackInv /\ [Next]_vars => BackInv'
  BY BackInvStep
<1>4. QED
  BY <1>1, <1>2, <1>3, CurrentStep, TypeInvInit, TypeInvStep, WorkInvInit, BackInvInit, PTL
     DEF Spec

\* A command answered with an error has put rows, versions, pointers and library.json back
\* ("failed_import_commit_removes_partial_catalog_and_version_state"): when the last step of
\* its cleanup is done every part of the skill is as it was, and nothing else was touched.
THEOREM FailuresRollBack ==
  ASSUME OneCaller, OneFault PROVE Spec => FailedCommandsRollBack
<1>1. TypeInv /\ BackInv /\ [Next]_vars =>
        [\A c \in Callers : Answer(c) /\ call[c].error =>
           call[c].before = Snapshot(catalog, behind, versions, current, portable)]_vars
  <2> SUFFICES ASSUME TypeInv, BackInv, Next, NEW c \in Callers, Answer(c), call[c].error
               PROVE  call[c].before = Snapshot(catalog, behind, versions, current, portable)
    OBVIOUS
  <2> DEFINE k == call[c]
             b == call[c].before
  <2>1. k.steps = <<>> /\ k.op # "none"
    BY DEF Answer, Busy
  <2>2. /\ Restorable(k) /\ RowIsBack(k) /\ PointerIsBack(k) /\ RecordIsBack(k)
        /\ FieldsAreBack(k) /\ ManifestIsBack(k)
    BY <2>1 DEF BackInv, Recoverable, Cleaning, Up
  <2>3. /\ current \in [Skills -> Trees \union {None}] /\ portable \in [Skills -> Records]
        /\ b \in [catalog : SUBSET Skills, behind : SUBSET Skills,
                  versions : SUBSET Versions, current : [Skills -> Trees \union {None}],
                  portable : [Skills -> Records]]
    BY DEF TypeInv, TypeOK, Calls
  <2>4. b.catalog = catalog
    BY <2>2 DEF Restorable, RowIsBack
  <2>5. b.versions = versions
    BY <2>2 DEF Restorable, ManifestIsBack
  <2>6. b.current = current
    BY <2>2, <2>3 DEF Restorable, PointerIsBack
  <2>7. b.portable = portable
    BY <2>2, <2>3 DEF Restorable, RecordIsBack
  <2>8. b.behind = behind
    BY <2>2 DEF Restorable, FieldsAreBack
  <2> HIDE DEF b
  <2>9. QED
    BY <2>3, <2>4, <2>5, <2>6, <2>7, <2>8 DEF Snapshot, b
<1>2. TypeInv /\ WorkInv /\ [Next]_vars => WorkInv'
  BY WorkInvStep
<1>3. TypeInv /\ WorkInv /\ BackInv /\ [Next]_vars => BackInv'
  BY BackInvStep
<1>4. QED
  BY <1>1, <1>2, <1>3, TypeInvInit, TypeInvStep, WorkInvInit, BackInvInit, PTL
     DEF Spec, FailedCommandsRollBack
=============================================================================
