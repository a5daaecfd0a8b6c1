-------------------------------- MODULE Watch --------------------------------
(***************************************************************************)
(* Hints about changed files and the scans that confirm them: WatchService,*)
(* which queues hints under a key per skill, and the jobs of the           *)
(* RuntimeScheduler that take the queue, scan, and publish FactsChanged.   *)
(* A job holds what it took while it scans; hints keep arriving.           *)
(***************************************************************************)
EXTENDS Functions, WatchHints

CONSTANT Jobs  \* jobs that run run_scheduled_confirmation

VARIABLES
  watching,      \* WatchState.running
  queue,         \* WatchState.pending: key -> hint
  compensation,  \* WatchState.compensation_pending
  recognized,    \* WatchState.recognized_skill_roots
  jobs,          \* [Jobs -> Job]
  unseen         \* history: skills changed, with a hint accepted, and not scanned since

watch_vars == <<watching, queue, compensation, recognized, jobs, unseen>>

Job == [step : {"waiting", "compensate", "confirm", "publish", "aborted"},
        hints : SUBSET Hints, compensation : BOOLEAN]
Waiting == [step |-> "waiting", hints |-> {}, compensation |-> FALSE]

Init ==
  /\ watching = FALSE /\ queue = << >> /\ compensation = FALSE /\ recognized = {}
  /\ jobs = [j \in Jobs |-> Waiting]
  /\ unseen = {}

-----------------------------------------------------------------------------
WatchStart ==
  /\ watching' = TRUE
  /\ UNCHANGED <<queue, compensation, recognized, jobs, unseen>>

\* stop: what is queued is forgotten, what a job took is not: when its scan fails it is
\* queued again, and a second stop forgets that too.
WatchStop ==
  /\ watching' = FALSE
  /\ queue' = << >> /\ compensation' = FALSE
  /\ unseen' = {}
  /\ UNCHANGED <<recognized, jobs>>

\* set_recognized_skill_roots: what is queued keeps its key.
SetRecognizedSkillRoots(roots) ==
  /\ recognized' = roots
  /\ UNCHANGED <<watching, queue, compensation, jobs, unseen>>

\* A file changes and submit_hint is told.  (set_active_roots decides which skills these
\* hints are about; every choice of it is in here.)
SubmitHint(h) ==
  LET roots == recognized \union SkillRoot(h)
  IN /\ watching
     /\ recognized' = roots
     /\ queue' = Put(queue, Key(h, roots), h)
     /\ unseen' = unseen \union {h.skill}
     /\ UNCHANGED <<watching, compensation, jobs>>

\* Notifications were dropped, the machine slept or a share came back: anything may have
\* changed.
SubmitCompensation ==
  /\ watching
  /\ compensation' = TRUE
  /\ unseen' = Skills
  /\ UNCHANGED <<watching, queue, recognized, jobs>>

-----------------------------------------------------------------------------
(* confirm_pending                                                         *)

TakePending(j) ==
  /\ jobs[j].step = "waiting" /\ watching
  /\ queue # << >> \/ compensation
  /\ jobs' = [jobs EXCEPT ![j] = [step |-> IF compensation THEN "compensate" ELSE "confirm",
                                  hints |-> Range(queue), compensation |-> compensation]]
  /\ queue' = << >> /\ compensation' = FALSE
  /\ UNCHANGED <<watching, recognized, unseen>>

\* external: WatchConfirmation::compensation_scan reads every skill.
CompensationScan(j) ==
  /\ jobs[j].step = "compensate"
  /\ unseen' = {}
  /\ jobs' = [jobs EXCEPT ![j].step = IF jobs[j].hints = {} THEN "publish" ELSE "confirm"]
  /\ UNCHANGED <<watching, queue, compensation, recognized>>

\* external: WatchConfirmation::confirm reads the skills of the hints.
ConfirmScan(j) ==
  /\ jobs[j].step = "confirm"
  /\ unseen' = unseen \ SkillsOf(jobs[j].hints)
  /\ jobs' = [jobs EXCEPT ![j].step = "publish"]
  /\ UNCHANGED <<watching, queue, compensation, recognized>>

\* Fault: the hints are put back, the compensation is not.
Restored_HintsOnly(job) == compensation

Restored(job) == compensation \/ job.compensation

\* A scan fails: everything that was taken goes back, under today's keys.
ScanFails(j) ==
  LET keys == {Key(h, recognized) : h \in jobs[j].hints}
  IN /\ jobs[j].step \in {"compensate", "confirm"}
     /\ queue' \in {q \in [DOMAIN queue \union keys -> Hints] :
                     \A k \in DOMAIN q :
                       IF k \in keys THEN q[k] \in jobs[j].hints /\ Key(q[k], recognized) = k
                       ELSE q[k] = queue[k]}
     /\ compensation' = Restored(jobs[j])
     /\ jobs' = [jobs EXCEPT ![j] = Waiting]
     /\ UNCHANGED <<watching, recognized, unseen>>

\* FactsChanged is sent.
Publish(j) ==
  /\ jobs[j].step = "publish"
  /\ jobs' = [jobs EXCEPT ![j] = Waiting]
  /\ UNCHANGED <<watching, queue, compensation, recognized, unseen>>

-----------------------------------------------------------------------------
\* RuntimeScheduler::stop: the job is dropped where it waits, with the hints it took and
\* has not scanned.
Abort(j) ==
  /\ jobs[j].step # "aborted"
  /\ jobs' = [jobs EXCEPT ![j] = [Waiting EXCEPT !.step = "aborted"]]
  /\ unseen' = unseen \ CASE jobs[j].step = "compensate" -> Skills
                          [] jobs[j].step = "confirm" -> SkillsOf(jobs[j].hints)
                          [] OTHER -> {}
  /\ UNCHANGED <<watching, queue, compensation, recognized>>

Next ==
  \/ WatchStart \/ WatchStop \/ SubmitCompensation
  \/ \E roots \in SUBSET Skills : SetRecognizedSkillRoots(roots)
  \/ \E h \in Hints : SubmitHint(h)
  \/ \E j \in Jobs : \/ TakePending(j) \/ CompensationScan(j) \/ ConfirmScan(j)
                     \/ ScanFails(j) \/ Publish(j) \/ Abort(j)

Spec == Init /\ [][Next]_watch_vars

-----------------------------------------------------------------------------
TypeOK ==
  /\ watching \in BOOLEAN /\ compensation \in BOOLEAN
  /\ DOMAIN queue \subseteq Keys /\ Range(queue) \subseteq Hints
  /\ recognized \subseteq Skills /\ unseen \subseteq Skills
  /\ jobs \in [Jobs -> Job]

\* A change whose hint was accepted stays known until a scan has read it: it is queued, or
\* in the hands of a job that has not scanned yet, also when scans fail, run at once, or
\* hints replace each other.
AcceptedHintsStayKnown ==
  \A s \in unseen :
    \/ compensation \/ s \in SkillsOf(Range(queue))
    \/ \E j \in Jobs : \/ jobs[j].step = "compensate"
                       \/ jobs[j].step = "confirm" /\ s \in SkillsOf(jobs[j].hints)

=============================================================================
