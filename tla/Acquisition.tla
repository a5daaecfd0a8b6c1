---------------------------- MODULE Acquisition ----------------------------
(***************************************************************************)
(* Fetching a source: HttpsSourceFetcher follows redirects and downloads   *)
(* an archive that ArchiveExtractor unpacks and flatten_archive_root moves *)
(* up; GixSourceFetcher clones and walks a repository in a blocking task   *)
(* that its caller watches, stops after a deadline and finally gives up.   *)
(* Every step works in a temporary directory of its own, which is removed  *)
(* with the value that owns it; the source that is answered owns one.      *)
(***************************************************************************)
EXTENDS Naturals

CONSTANTS
  Tasks,         \* blocking tasks of git fetches
  MaxFiles,      \* bound on the files of a directory
  MaxEntries,    \* limits.max_entries
  MaxExpanded,   \* limits.max_expanded_bytes; every file is of size one
  MaxDownload,   \* limits.max_file_bytes, for the archive
  MaxRedirects,
  None

VARIABLES
  fetch,     \* the fetch that its caller awaits, None between two
  task,      \* per blocking task: None, or how far it has come
  dirs,      \* temporary directories: <<owner, name>>
  received   \* what the last fetch answered

acquisition_vars == <<fetch, task, dirs, received>>

\* A source: the files in its root, and in one directory below.
Sources == [top : 0..MaxFiles, sub : 0..MaxFiles]
Nothing == [top |-> 0, sub |-> 0]

Files(source) == source.top + source.sub

\* A download and the extraction of its archive; or the wait for a blocking task.
ArchiveStages == {"request", "body", "extract", "flatten"}
GitStages == {"waiting", "stopping"}
Fetches == [stage : ArchiveStages, source : Sources, count : Nat, got : Sources]
           \union [stage : GitStages, task : Tasks]

\* A blocking task, and what it has written of its source.
Walks == [stage : {"clone", "open", "walk"}, source : Sources, got : Sources, stop : BOOLEAN]

\* What a fetch answers: an error, or a source that holds files.
Answer(status, files) == [status |-> status, holds |-> files]
NoAnswer == Answer("none", Nothing)
Error == Answer("error", Nothing)

\* An archive has an entry for the wrapping directory, and one for the directory in it.
ArchiveEntries(source) == Files(source) + 1 + IF source.sub > 0 THEN 1 ELSE 0

Init ==
  /\ fetch = None /\ received = NoAnswer /\ dirs = {}
  /\ task = [t \in Tasks |-> None]

-----------------------------------------------------------------------------
(* Ends of a fetch.                                                        *)

Owned(owner) == {dir \in dirs : dir[1] = owner}

\* cleanup_fetch_error, and the directories that go with the values dropped.
FailArchive ==
  /\ fetch' = None /\ received' = Error
  /\ dirs' = dirs \ Owned("archive")
  /\ UNCHANGED task

At(stage) == fetch # None /\ fetch.stage = stage

Advance(stage) ==
  /\ fetch' = [fetch EXCEPT !.stage = stage]
  /\ UNCHANGED <<task, received>>

-----------------------------------------------------------------------------
(* HttpsSourceFetcher::fetch and the archive.                              *)

\* The address is validated before there is a workspace.
BeginHttps(source) ==
  /\ fetch = None
  /\ fetch' = [stage |-> "request", source |-> source, count |-> 0, got |-> Nothing]
  /\ dirs' = (dirs \ Owned("answer")) \union {<<"archive", "download">>}
  /\ received' = NoAnswer /\ UNCHANGED task

\* A redirect to an address that the policy accepts.
Redirect ==
  /\ At("request") /\ fetch.count < MaxRedirects
  /\ fetch' = [fetch EXCEPT !.count = @ + 1]
  /\ UNCHANGED <<task, dirs, received>>

\* A refused address, one redirect too many, a status, a content length over the limit,
\* a transport error, the timeout of the request: before and while the body is read.
FailHttps == (At("request") \/ At("body")) /\ FailArchive

StartBody ==
  /\ At("request")
  /\ fetch' = [fetch EXCEPT !.stage = "body", !.count = 0]
  /\ UNCHANGED <<task, dirs, received>>

\* The archive takes one chunk and one for each file; the chunk over the limit fails.
ReadChunk ==
  /\ At("body") /\ fetch.count <= Files(fetch.source)
  /\ IF fetch.count + 1 > MaxDownload THEN FailArchive
     ELSE /\ fetch' = [fetch EXCEPT !.count = @ + 1]
          /\ UNCHANGED <<task, dirs, received>>

\* The stream ends, at its end or before it.  An archive cut short lacks the record at
\* its end, so validate_zip_entry_count refuses it; the extraction has a new workspace.
EndBody ==
  /\ At("body")
  /\ IF \/ fetch.count <= Files(fetch.source)
        \/ ArchiveEntries(fetch.source) > MaxEntries
     THEN FailArchive
     ELSE /\ Advance("extract")
          /\ dirs' = dirs \union {<<"archive", "tree">>}

\* copy_bounded: the file that exceeds the limit is not written to its end.
ExtractEntry ==
  /\ At("extract")
  /\ \E f \in {"top", "sub"} :
       /\ fetch.got[f] < fetch.source[f]
       /\ IF Files(fetch.got) + 1 > MaxExpanded THEN FailArchive
          ELSE /\ fetch' = [fetch EXCEPT !.got[f] = @ + 1]
               /\ UNCHANGED <<task, dirs, received>>

FailExtract == (At("extract") \/ At("flatten")) /\ FailArchive

EndExtract ==
  /\ At("extract") /\ fetch.got = fetch.source
  /\ Advance("flatten") /\ UNCHANGED dirs

\* flatten_archive_root has moved the wrapper's children up; the download is dropped.
AnswerArchive ==
  /\ At("flatten")
  /\ received' = Answer("source", fetch.got) /\ fetch' = None
  /\ dirs' = (dirs \ Owned("archive")) \union {<<"answer", "tree">>}
  /\ UNCHANGED task

-----------------------------------------------------------------------------
(* GixSourceFetcher::fetch: the blocking task.                             *)

BeginGit(t, source, remote) ==
  /\ fetch = None /\ task[t] = None
  /\ fetch' = [stage |-> "waiting", task |-> t]
  /\ task' = [task EXCEPT ![t] =
       [stage |-> IF remote THEN "clone" ELSE "open", source |-> source,
        got |-> Nothing, stop |-> FALSE]]
  /\ dirs' = (dirs \ Owned("answer")) \union IF remote THEN {<<t, "clone">>} ELSE {}
  /\ received' = NoAnswer

IsAwaited(t) == At("waiting") /\ fetch.task = t
IsBeingStopped(t) == At("stopping") /\ fetch.task = t

Running(t, stage) == task[t] # None /\ task[t].stage = stage

\* The result reaches the caller who waits for it; cancel_git_task, or nobody, drops it.
EndTask(t, result) ==
  /\ task' = [task EXCEPT ![t] = None]
  /\ IF IsAwaited(t)
     THEN /\ received' = result /\ fetch' = None
          /\ dirs' = (dirs \ Owned(t)) \union
               IF result = Error THEN {} ELSE {<<"answer", "tree">>}
     ELSE /\ IF IsBeingStopped(t) THEN received' = Error /\ fetch' = None
             ELSE UNCHANGED <<received, fetch>>
          /\ dirs' = dirs \ Owned(t)

\* The repository cannot be cloned, opened or read, or its entries not written; gix
\* looks at the stop flag while it receives.
FailTask(t) == task[t] # None /\ EndTask(t, Error)

Materialize(t) ==
  /\ Running(t, "clone") \/ Running(t, "open")
  /\ task' = [task EXCEPT ![t].stage = "walk"]
  /\ dirs' = dirs \union {<<t, "tree">>}
  /\ UNCHANGED <<fetch, received>>

Over(files) == files > MaxEntries \/ files > MaxExpanded

\* materialize_tree, an entry of the root or of the directory below: each level counts
\* its own entries, and looks at the stop flag before each.
WalkEntry(t, level) ==
  LET walk == task[t]
      written == [walk.got EXCEPT ![level] = @ + 1]
  IN  /\ Running(t, "walk")
      /\ walk.got[level] < walk.source[level]
      /\ IF walk.stop \/ Over(written[level]) THEN EndTask(t, Error)
         ELSE /\ task' = [task EXCEPT ![t].got = written]
              /\ UNCHANGED <<fetch, dirs, received>>

\* Fault: what the directory holds is not counted in its parent.
Total_Level(walk) == walk.got.top

\* The entries of the directory below are added to those of the root.
Total(walk) == walk.got.top + walk.got.sub

EndWalk(t) ==
  /\ Running(t, "walk") /\ task[t].got = task[t].source
  /\ EndTask(t, IF Over(Total(task[t])) THEN Error ELSE Answer("source", task[t].got))

-----------------------------------------------------------------------------
(* GixSourceFetcher::fetch: the caller.                                    *)

\* The clone has grown over the limit, or the deadline has passed.
StopTask ==
  /\ At("waiting")
  /\ fetch' = [fetch EXCEPT !.stage = "stopping"]
  /\ task' = [task EXCEPT ![fetch.task].stop = TRUE]
  /\ UNCHANGED <<dirs, received>>

\* A second later the task still runs, in a read or a clone: the caller returns, and the
\* clone directory is removed under it.
GiveUp ==
  /\ At("stopping")
  /\ fetch' = None /\ received' = Error
  /\ dirs' = dirs \ {<<fetch.task, "clone">>}
  /\ UNCHANGED task

\* The caller is done with the source.
Drop ==
  /\ fetch = None /\ received # NoAnswer
  /\ received' = NoAnswer
  /\ dirs' = dirs \ Owned("answer")
  /\ UNCHANGED <<fetch, task>>

-----------------------------------------------------------------------------
Next ==
  \/ \E source \in Sources : BeginHttps(source)
  \/ Redirect \/ FailHttps \/ StartBody \/ ReadChunk \/ EndBody
  \/ ExtractEntry \/ FailExtract \/ EndExtract \/ AnswerArchive
  \/ \E t \in Tasks, source \in Sources, remote \in BOOLEAN : BeginGit(t, source, remote)
  \/ \E t \in Tasks : FailTask(t) \/ Materialize(t) \/ EndWalk(t)
  \/ \E t \in Tasks, level \in {"top", "sub"} : WalkEntry(t, level)
  \/ StopTask \/ GiveUp \/ Drop

Spec == Init /\ [][Next]_acquisition_vars

-----------------------------------------------------------------------------
(* Properties                                                              *)

TypeOK ==
  /\ fetch \in Fetches \union {None} /\ task \in [Tasks -> Walks \union {None}]
  /\ dirs \subseteq ({"archive", "answer"} \union Tasks) \X {"download", "tree", "clone"}
  /\ received \in [status : {"none", "error", "source"}, holds : Sources]

\* A fetch that answers hands over a tree within the limits, with a directory of its own;
\* and when no fetch and no task runs, that is the only directory there is: errors, a
\* deadline, and a task that ends after its caller gave up leave nothing behind.
OnlyTheAnswerStays ==
  /\ received.status = "source" =>
       /\ Files(received.holds) <= MaxEntries /\ Files(received.holds) <= MaxExpanded
       /\ <<"answer", "tree">> \in dirs
  /\ (fetch = None /\ \A t \in Tasks : task[t] = None) =>
       dirs = IF received.status = "source" THEN {<<"answer", "tree">>} ELSE {}

=============================================================================
