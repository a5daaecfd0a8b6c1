------------------------------- MODULE Backup -------------------------------
(***************************************************************************)
(* Backup packages and the restore of one into the library: BackupService, *)
(* RetentionService, RestoreService and the commands that call them.       *)
(*                                                                         *)
(* A package is a directory of its own, its manifest written last.  A      *)
(* restore fills a staging directory beside the library, moves the library *)
(* aside and the staging directory into its place.  The process may end    *)
(* between any two steps; the next start creates an empty library where    *)
(* there is none.  Commands that write into the library, and programs that *)
(* damage a package, act between these commands.                           *)
(***************************************************************************)
EXTENDS Naturals, FiniteSets

CONSTANTS
  Skills,
  Contents,   \* of a SKILL.md, and of everything else in the library
  Sensitive,  \* the contents in which detect_sensitive finds a credential
  Backups,    \* bound: package numbers, in the order of their creation
  MaxAside,   \* bound: trees that restores have left aside
  None

VARIABLES
  packages,  \* [Backups -> Package or None]
  making,    \* the package that is being written, 0 when none is
  doomed,    \* the packages that retention still has to remove
  library,   \* the tree at the library's place, or None
  restore,   \* the restore that runs
  aside,     \* trees left aside by earlier restores
  kept       \* history: what the last restore was not told to replace

backup_vars == <<packages, making, doomed, library, restore, aside, kept>>

\* What is under the library's root: a SKILL.md per skill, the index portable/skills.json,
\* and everything else as one file; copies are the SKILL.md files of KeepBoth, each under a
\* new name.  Of the index and the rest matters who wrote them: nobody, a command or the
\* user ("edited"), a restore ("portable").
Files == Skills \union {"index", "store"}
Texts == Contents \union {"empty", "edited", "portable"}
Trees == [files : [Files -> Texts \union {None}], copies : SUBSET (Skills \X Contents)]
NoFiles == [files |-> [f \in Files |-> None], copies |-> {}]
EmptyTree == [NoFiles EXCEPT !.files["store"] = "empty"]

\* The tree that is there, as one who copies it finds it.
Standing == IF library = None THEN NoFiles ELSE library

\* A package: a SKILL.md per skill.  Its own index is in every package and in its manifest;
\* one that is damaged makes the package invalid, as a damaged skill does, and is left out.
Packed == [Skills -> Contents \union {None}]
Package == [files : Packed, manifest : Packed \union {None}, marked : BOOLEAN]

Exists(p) == packages[p] # None

\* Fault: the digests are not compared.
Valid_Listed(p) ==
  /\ Exists(p) /\ packages[p].manifest # None
  /\ \A s \in Skills : packages[p].manifest[s] # None => packages[p].files[s] # None

\* BackupService::verify: backup.json can be read and every file it lists has its digest.
Valid(p) ==
  /\ Exists(p) /\ packages[p].manifest # None
  /\ \A s \in Skills : packages[p].manifest[s] \in {None, packages[p].files[s]}

Restore == [step : {"none", "staged", "moved", "switched"},
            stage : Trees \union {None}, previous : Trees \union {None}]
NoRestore == [step |-> "none", stage |-> None, previous |-> None]

Init ==
  /\ packages = [p \in Backups |-> None] /\ making = 0 /\ doomed = {}
  /\ library \in {EmptyTree, [EmptyTree EXCEPT !.files["index"] = "edited"]}
  /\ restore = NoRestore /\ aside = {} /\ kept = {}

Quiet == making = 0 /\ doomed = {} /\ restore.step = "none"

-----------------------------------------------------------------------------
(* Packages                                                                *)

SensitiveDecisions == {"resolve_first", "exclude", "include", None}

Included(content, decision) ==
  {s \in Skills : content[s] # None
                  /\ (content[s] \in Sensitive => decision[s] # "exclude")}

\* create: each sensitive skill needs a decision before anything is written; a decision
\* to resolve it first is found while writing and leaves the package without manifest.
CreateBackup(content, decision) ==
  LET chosen == Included(content, decision)
  IN /\ Quiet
     /\ \A s \in Skills : content[s] \in Sensitive => decision[s] # None
     /\ \E p \in Backups :
          /\ \A q \in Backups : Exists(q) <=> q < p
          /\ making' = IF \E s \in Skills : content[s] \in Sensitive
                                            /\ decision[s] = "resolve_first" THEN 0 ELSE p
          /\ packages' = [packages EXCEPT ![p] =
               [files |-> [s \in Skills |-> IF s \in chosen THEN content[s] ELSE None],
                manifest |-> None,
                marked |-> \E s \in chosen : content[s] \in Sensitive]]
     /\ UNCHANGED <<doomed, library, restore, aside, kept>>

\* A write fails, or the process ends.
BackupFails ==
  /\ making # 0 /\ making' = 0
  /\ UNCHANGED <<packages, doomed, library, restore, aside, kept>>

WriteManifest ==
  /\ making # 0 /\ making' = 0
  /\ packages' = [packages EXCEPT ![making].manifest = packages[making].files]
  /\ UNCHANGED <<doomed, library, restore, aside, kept>>

\* Fault: a policy of no backups keeps none.
Doomed_AsAsked(max) ==
  {p \in Backups : Valid(p) /\ Cardinality({q \in Backups : Valid(q) /\ q > p}) >= max}

\* RetentionService::apply keeps the newest of the valid packages, one at least.
Doomed(max) ==
  LET keep == IF max = 0 THEN 1 ELSE max
  IN {p \in Backups : Valid(p) /\ Cardinality({q \in Backups : Valid(q) /\ q > p}) >= keep}

\* RunRollingBackup, after the new package was verified.
ApplyRetention(max) ==
  /\ Quiet
  /\ doomed' = Doomed(max)
  /\ UNCHANGED <<packages, making, library, restore, aside, kept>>

\* The newest of them goes first; its files go one by one.
RemovePackage ==
  \E p \in doomed :
    /\ \A q \in doomed : q <= p
    /\ \/ /\ packages' = [packages EXCEPT ![p] = None]
          /\ doomed' = doomed \ {p}
       \/ /\ packages' = [packages EXCEPT ![p].files = [s \in Skills |-> None]]
          /\ doomed' = {}
    /\ UNCHANGED <<making, library, restore, aside, kept>>

\* A file of a package is changed; files that are missing are what RemovePackage leaves.
Damage(p, s) ==
  /\ Quiet /\ Exists(p)
  /\ \E x \in Contents \ {packages[p].files[s]} :
       packages' = [packages EXCEPT ![p].files[s] = x]
  /\ UNCHANGED <<making, doomed, library, restore, aside, kept>>

-----------------------------------------------------------------------------
(* Restore                                                                 *)

RestoreDecisions == {"overwrite", "keep_both", "skip", None}

Taken(package, decision) ==
  {s \in Skills : package.manifest[s] # None /\ decision[s] # "skip"}

\* Fault: KeepBoth writes its copy over the skill.
Restored_NoCopies(tree, package, decision) ==
  [tree EXCEPT !.files = [f \in Files |->
     IF f \in Taken(package, decision) THEN package.files[f]
     ELSE IF f = "index" THEN "portable" ELSE tree.files[f]]]

\* copy_existing_tree and copy_verified_files: the skills of the package are placed as they
\* were decided about; its index always, without the fields that belong to one device, over
\* one that is there.
Restored(tree, package, decision) ==
  LET copied == {s \in Taken(package, decision) : decision[s] = "keep_both"}
  IN [files |-> [f \in Files |->
        IF f \in Taken(package, decision) \ copied THEN package.files[f]
        ELSE IF f = "index" THEN "portable" ELSE tree.files[f]],
      copies |-> tree.copies \union {<<s, package.files[s]>> : s \in copied}]

Held(tree) == {f \in Files \X Texts : tree.files[f[1]] = f[2]}

\* What a restore may replace: the skills it was told to, and the index untold.
Replaced(package, decision) ==
  {"index"} \union {s \in Skills : package.manifest[s] # None /\ decision[s] = "overwrite"}

\* CommitRestore plans again, and wants a decision for every conflict of the plan; a
\* decision is also followed where there is no conflict.
CommitRestore(p, decision) ==
  LET package == packages[p]
  IN /\ Quiet /\ Valid(p)
     /\ \A s \in Skills :
          package.manifest[s] # None /\ Standing.files[s] # None => decision[s] # None
     /\ restore' = [step |-> "staged", stage |-> Restored(Standing, package, decision),
                    previous |-> None]
     /\ kept' = {h \in Held(Standing) : h[1] \notin Replaced(package, decision)}
     /\ UNCHANGED <<packages, making, doomed, library, aside>>

\* A tree that is there is moved aside; without one the staged tree just takes the place.
MoveAside ==
  /\ restore.step = "staged"
  /\ restore' = [restore EXCEPT !.step = "moved", !.previous = library]
  /\ library' = None
  /\ UNCHANGED <<packages, making, doomed, aside, kept>>

Switch ==
  /\ restore.step = "moved"
  /\ library' = restore.stage
  /\ restore' = [restore EXCEPT !.step = "switched", !.stage = None]
  /\ UNCHANGED <<packages, making, doomed, aside, kept>>

\* The second rename fails and the first is taken back, which may fail too.
SwitchFails ==
  /\ restore.step = "moved" /\ restore' = NoRestore
  /\ \/ library' = restore.previous /\ UNCHANGED aside
     \/ /\ restore.previous # None /\ Cardinality(aside) < MaxAside
        /\ aside' = aside \union {restore.previous} /\ UNCHANGED library
  /\ UNCHANGED <<packages, making, doomed, kept>>

RemovePrevious ==
  /\ restore.step = "switched" /\ restore' = NoRestore
  /\ UNCHANGED <<packages, making, doomed, library, aside, kept>>

\* The process ends, or staging or the first rename fails; what the running restore has
\* moved aside stays there.
Crash ==
  /\ restore.step # "none" /\ restore' = NoRestore
  /\ \/ restore.previous = None /\ UNCHANGED aside
     \/ /\ restore.previous # None /\ Cardinality(aside) < MaxAside
        /\ aside' = aside \union {restore.previous}
  /\ UNCHANGED <<packages, making, doomed, library, kept>>

\* CentralLibrary::initialize at the next start.
InitializeLibrary ==
  /\ library = None /\ restore.step = "none"
  /\ library' = EmptyTree
  /\ UNCHANGED <<packages, making, doomed, restore, aside, kept>>

Written(f) == IF f \in Skills THEN Contents ELSE {"edited"}

\* Another command, or the user, writes into the library; no command writes the index.
Edit(f, x) ==
  /\ Quiet /\ library # None /\ library.files[f] # x
  /\ library' = [library EXCEPT !.files[f] = x]
  /\ kept' = {h \in kept : h[1] # f}
  /\ UNCHANGED <<packages, making, doomed, restore, aside>>

-----------------------------------------------------------------------------
Next ==
  \/ \E content \in Packed, decision \in [Skills -> SensitiveDecisions] :
       CreateBackup(content, decision)
  \/ BackupFails \/ WriteManifest \/ RemovePackage
  \/ \E max \in {0, 1} : ApplyRetention(max)
  \/ \E p \in Backups : \/ \E s \in Skills : Damage(p, s)
                        \/ \E d \in [Skills -> RestoreDecisions] : CommitRestore(p, d)
  \/ MoveAside \/ Switch \/ SwitchFails \/ RemovePrevious \/ Crash \/ InitializeLibrary
  \/ \E f \in Files \ {"index"} : \E x \in Written(f) : Edit(f, x)

Spec == Init /\ [][Next]_backup_vars

-----------------------------------------------------------------------------
(* Properties                                                              *)

TypeOK ==
  /\ packages \in [Backups -> Package \union {None}]
  /\ making \in {0} \union Backups
  /\ doomed \subseteq Backups
  /\ library \in Trees \union {None}
  /\ restore \in Restore
  /\ aside \subseteq Trees
  /\ kept \subseteq Files \X Texts

\* Whatever fails and wherever the process ends, what a restore was not told to overwrite
\* is in the library, or in the tree that was moved aside: the skills and everything else
\* but the index, which a restore writes over without asking (Replaced).
UndecidedContentSurvives ==
  \A h \in kept :
    \E t \in (aside \union {library, restore.previous}) \ {None} : t.files[h[1]] = h[2]

\* A restore brings into the library only what a package recorded when it was made, and a
\* package with sensitive content says so, whatever happened to its files since.
RestoresWhatWasRecorded ==
  restore.step = "none" /\ restore'.step = "staged" =>
    \A s \in Skills :
      restore'.stage.files[s] # Standing.files[s] =>
        \E p \in Backups :
          /\ Exists(p) /\ packages[p].manifest # None
          /\ packages[p].manifest[s] = restore'.stage.files[s]
          /\ packages[p].manifest[s] \in Sensitive => packages[p].marked

OnlyRecordedContentIsRestored == [][RestoresWhatWasRecorded]_backup_vars

\* Retention takes a package that could be restored only where a newer one can be, also
\* when it is asked to keep none, skips damaged packages, or fails in the middle.
KeepsANewerOne ==
  \A p \in doomed : Valid(p) /\ ~Valid(p)' => \E q \in Backups : q > p /\ Valid(q)

RetentionKeepsABackup == [][KeepsANewerOne]_backup_vars

=============================================================================
