-------------------------- MODULE OperationJournal --------------------------
(***************************************************************************)
(* The durable operation journal: OperationService (run, cancel,           *)
(* prepare_undo_checked, commit_undo_checked), the OperationContext handed *)
(* to a mutation, the SQLite row store behind them, and the health and     *)
(* recovery services that edit the same rows without the writer permit.    *)
(*                                                                         *)
(* A row is one record of the `operations` table.  A call is one future    *)
(* returned by the service.  A handle is one open Database with its own    *)
(* writer mutex (one OS process); a journal is one OperationJournal with   *)
(* its own in-memory cancellation set.  `fact` is the one object of the    *)
(* library that mutations change: a request's fingerprint identifies the   *)
(* value it writes.                                                        *)
(***************************************************************************)
EXTENDS Naturals, FiniteSets

CONSTANTS
  Ids,           \* operation ids chosen by callers (idempotency keys)
  PlanIds,       \* ids drawn by OperationId::new() for undo plans
  Callers,       \* concurrent calls
  Handles,       \* open Database values, each with its own writer mutex
  Journals,      \* OperationJournal values, each with its cancellation set
  HandleOf,      \* the Database a journal was built on
  Fingerprints,  \* requests; also the values they write
  InitialFact,   \* the value before any mutation
  NoCaller, NoId, NoInverse, UndoFingerprint,
  Rereads,       \* how often a row in flight is read again and looked at (63)
  Disturbances   \* which of "crash", "abandon", "resolve", "health", "edit" occur

AllIds == Ids \union PlanIds
Facts == Fingerprints \union {InitialFact}

ASSUME ConstantsAssumption ==
  /\ HandleOf \in [Journals -> Handles] /\ Journals # {}
  /\ Ids \intersect PlanIds = {}
  /\ NoCaller \notin Callers /\ NoId \notin AllIds \union Facts \union {UndoFingerprint}
  /\ UndoFingerprint \notin Facts /\ InitialFact \notin Fingerprints
  /\ Rereads \in Nat

VARIABLES
  rows,       \* [AllIds -> Row]: the operations table
  fact,       \* the object the mutations change
  writer,     \* [Handles -> Callers or NoCaller]: who holds the writer permit
  cancels,    \* [Journals -> SUBSET AllIds]: ids whose cancellation was requested
  call,       \* [Callers -> Call]: the progress of each call
  repairPlan, \* [Handles -> AllIds or NoId]: the operation a prepared repair is about
  effects,    \* history: how often each operation's mutation took effect
  answered,   \* history: ids for which some run or undo returned Ok
  cancelled   \* history: ids for which some cancel returned phase RolledBack

vars == <<rows, fact, writer, cancels, call, repairPlan, effects, answered, cancelled>>
history == <<answered, cancelled>>

-----------------------------------------------------------------------------
(* Rows                                                                    *)

Unfinished == {"planned", "prepared", "applying", "verifying"}
TerminalPhases == {"committed", "needs_recovery", "rolled_back"}
Phases == Unfinished \union TerminalPhases

\* An error code as the row stores it: parse_error_code decodes 16 of the codes
\* of ErrorCode; a row holding any other one fails every later get().
ErrorKinds == {"decodable", "undecodable"}

Inverses == [preconditions : Facts, facts : Facts]

Row == [phase : Phases \union {"absent"},
        fingerprint : Facts \union {UndoFingerprint},
        inverse : Inverses \union {NoInverse},
        result : BOOLEAN,
        error : ErrorKinds \union {"none"}]

Absent == [phase |-> "absent", fingerprint |-> UndoFingerprint,
           inverse |-> NoInverse, result |-> FALSE, error |-> "none"]

\* OperationRecord::planned
Planned(fp) == [phase |-> "planned", fingerprint |-> fp,
                inverse |-> NoInverse, result |-> FALSE, error |-> "none"]

\* The record prepare_undo_internal inserts.
UndoPlanned(inverse) == [phase |-> "prepared", fingerprint |-> UndoFingerprint,
                         inverse |-> inverse, result |-> FALSE, error |-> "none"]

\* Fault: a rolled-back id is taken as free.
Exists_RolledBackIsFree(r) == r.phase \notin {"absent", "rolled_back"}

Exists(r) == r.phase # "absent"

\* get() returns a record: the row exists and its error code decodes.
Readable(r) == Exists(r) /\ r.error # "undecodable"

\* Fault: committed rows may still be rolled back.
IsTerminal_ExceptCommitted(r) == r.phase \in {"needs_recovery", "rolled_back"}

IsTerminal(r) == r.phase \in TerminalPhases

\* Fault: a row without a result decodes as an empty one.
Replayable_WithoutResult(r, fp) ==
  Readable(r) /\ r.fingerprint = fp /\ r.phase = "committed"

\* decode_result succeeds on a row claimed by the same request.
Replayable(r, fp) ==
  /\ Readable(r) /\ r.fingerprint = fp
  /\ r.phase = "committed" /\ r.result

\* The row is claimed by the same request and still in flight.
InFlight(r, fp) == Readable(r) /\ r.fingerprint = fp /\ ~IsTerminal(r)

\* Fault: the status name "failed" is stored as the phase.
WithError_StatusAsPhase(r, kind) == [r EXCEPT !.phase = "failed", !.error = kind]

WithError(r, kind) == [r EXCEPT !.phase = "needs_recovery", !.error = kind]

-----------------------------------------------------------------------------
(* Calls                                                                   *)

WaitSteps == {"run_wait", "cancel_wait", "prepare_wait", "undo_wait"}

\* Where a call resumes once it is granted the writer permit.
Granted == [run_wait |-> "run_lookup", cancel_wait |-> "cancel_lookup",
            prepare_wait |-> "prepare_check", undo_wait |-> "undo_check"]

\* Steps at which a call owns the row of `id` and may still write to it.
RunOwnerSteps == {"run_planned", "mutation", "mutated", "run_returned", "run_verifying"}
UndoOwnerSteps == {"undo_begin", "undo_apply", "undo_applied", "undo_verifying"}

HoldSteps == {"run_lookup", "run_insert", "run_poll", "cancel_lookup", "cancel_write",
              "prepare_check", "undo_check"} \union RunOwnerSteps \union UndoOwnerSteps

Call == [step : {"idle"} \union WaitSteps \union HoldSteps,
         journal : Journals,
         id : AllIds \union {NoId},
         fingerprint : Facts \union {UndoFingerprint},
         record : Row,             \* the OperationRecord the call holds in memory
         rereads : 0 .. Rereads,   \* of a row in flight
         observed : Facts,         \* current_facts, read before the call was made
         checkpointFailed : BOOLEAN,
         outcome : {"ok"} \union ErrorKinds]

Idle == [step |-> "idle", journal |-> CHOOSE j \in Journals : TRUE, id |-> NoId,
         fingerprint |-> UndoFingerprint, record |-> Absent, rereads |-> 0,
         observed |-> InitialFact, checkpointFailed |-> FALSE, outcome |-> "ok"]

Handle(c) == HandleOf[call[c].journal]
RowOf(c) == rows[call[c].id]

Start(c, step, j, id) == [Idle EXCEPT !.step = step, !.journal = j, !.id = id]

Goto(c, step) == call' = [call EXCEPT ![c].step = step]

\* The call answers its caller; dropping the guard releases the writer permit.
Finish(c) ==
  /\ call' = [call EXCEPT ![c] = Idle]
  /\ writer' = [writer EXCEPT ![Handle(c)] = IF @ = c THEN NoCaller ELSE @]

\* repository.update / checkpoint: the whole record replaces the row.
Save(c, r) == rows' = [rows EXCEPT ![call[c].id] = r]

ClearCancel(c) ==
  cancels' = [cancels EXCEPT ![call[c].journal] = @ \ {call[c].id}]

Init ==
  /\ rows = [id \in AllIds |-> Absent]
  /\ fact = InitialFact
  /\ writer = [h \in Handles |-> NoCaller]
  /\ cancels = [j \in Journals |-> {}]
  /\ call = [c \in Callers |-> Idle]
  /\ repairPlan = [h \in Handles |-> NoId]
  /\ effects = [id \in AllIds |-> 0]
  /\ answered = {} /\ cancelled = {}

\* Fault: each call locks a mutex of its own.
Acquire_OwnMutex(c) ==
  /\ call[c].step \in WaitSteps
  /\ writer' = [writer EXCEPT ![Handle(c)] = c]
  /\ Goto(c, Granted[call[c].step])
  /\ UNCHANGED <<rows, fact, cancels, repairPlan, effects, history>>

\* acquire_writer: the tokio mutex of the Database the journal was built on.
Acquire(c) ==
  /\ call[c].step \in WaitSteps
  /\ writer[Handle(c)] = NoCaller
  /\ writer' = [writer EXCEPT ![Handle(c)] = c]
  /\ Goto(c, Granted[call[c].step])
  /\ UNCHANGED <<rows, fact, cancels, repairPlan, effects, history>>

-----------------------------------------------------------------------------
(* run                                                                     *)

RunStart(c, j, id, fp) ==
  /\ call[c].step = "idle"
  /\ call' = [call EXCEPT ![c] = [Start(c, "run_wait", j, id) EXCEPT !.fingerprint = fp]]
  /\ UNCHANGED <<rows, fact, writer, cancels, repairPlan, effects, history>>

\* The answer to a run that finds its row: the stored result, or an error.
RunAnswer(c) ==
  /\ answered' = IF Replayable(RowOf(c), call[c].fingerprint)
                 THEN answered \union {call[c].id} ELSE answered
  /\ Finish(c)

RunLookup(c) ==
  /\ call[c].step = "run_lookup"
  /\ \/ /\ ~Exists(RowOf(c))
        /\ Goto(c, "run_insert")
        /\ UNCHANGED <<writer, answered>>
     \/ /\ InFlight(RowOf(c), call[c].fingerprint)
        /\ Goto(c, "run_poll")
        /\ UNCHANGED <<writer, answered>>
     \/ /\ Exists(RowOf(c)) /\ ~InFlight(RowOf(c), call[c].fingerprint)
        /\ RunAnswer(c)
  /\ UNCHANGED <<rows, fact, cancels, repairPlan, effects, cancelled>>

\* The row in flight is read again: the call answers once it is no longer.
RunReread(c) ==
  /\ call[c].rereads < Rereads
  /\ \/ /\ InFlight(RowOf(c), call[c].fingerprint)
        /\ call' = [call EXCEPT ![c].rereads = @ + 1]
        /\ UNCHANGED <<writer, answered>>
     \/ /\ ~InFlight(RowOf(c), call[c].fingerprint)
        /\ RunAnswer(c)

\* The loop ends after 64 reads.  What the last one found is not looked at: the
\* call answers a conflict.
RunGiveUp(c) ==
  /\ call[c].rereads = Rereads
  /\ Finish(c)
  /\ UNCHANGED answered

\* Fault: a row in flight is read again until it is no longer.
RunPoll_ForEver(c) ==
  /\ call[c].step = "run_poll"
  /\ ~InFlight(RowOf(c), call[c].fingerprint)
  /\ RunAnswer(c)
  /\ UNCHANGED <<rows, fact, cancels, repairPlan, effects, cancelled>>

RunPoll(c) ==
  /\ call[c].step = "run_poll"
  /\ RunReread(c) \/ RunGiveUp(c)
  /\ UNCHANGED <<rows, fact, cancels, repairPlan, effects, cancelled>>

\* Fault: INSERT OR REPLACE in place of INSERT.
RunInsert_Replaces(c) ==
  /\ call[c].step = "run_insert"
  /\ Save(c, Planned(call[c].fingerprint))
  /\ call' = [call EXCEPT ![c].step = "run_planned",
                          ![c].record = Planned(call[c].fingerprint)]
  /\ UNCHANGED <<fact, writer, cancels, repairPlan, effects, history>>

\* The primary-key insert is the claim; its loser reads the winner's row.
RunInsert(c) ==
  /\ call[c].step = "run_insert"
  /\ \/ /\ ~Exists(RowOf(c))
        /\ Save(c, Planned(call[c].fingerprint))
        /\ call' = [call EXCEPT ![c].step = "run_planned",
                                ![c].record = Planned(call[c].fingerprint)]
        /\ UNCHANGED <<writer, answered>>
     \/ /\ InFlight(RowOf(c), call[c].fingerprint)
        /\ Goto(c, "run_poll")
        /\ UNCHANGED <<rows, writer, answered>>
     \/ /\ Exists(RowOf(c)) /\ ~InFlight(RowOf(c), call[c].fingerprint)
        /\ RunAnswer(c)
        /\ UNCHANGED rows
  /\ UNCHANGED <<fact, cancels, repairPlan, effects, cancelled>>

RunApplying(c) ==
  /\ call[c].step = "run_planned"
  /\ LET r == [call[c].record EXCEPT !.phase = "applying"] IN
       /\ Save(c, r)
       /\ call' = [call EXCEPT ![c].step = "mutation", ![c].record = r]
  /\ UNCHANGED <<fact, writer, cancels, repairPlan, effects, history>>

\* OperationContext::set_inverse, set_progress, record_object_result and
\* set_recovery_data: change the record, then checkpoint it over the row.  The
\* checkpoint may fail; the failure is kept for the end of the run.
ContextCheckpoint(c) ==
  /\ call[c].step \in {"mutation", "mutated"}
  /\ \E inverse \in {call[c].record.inverse}
                    \union (IF call[c].step = "mutation"
                            THEN {[preconditions |-> call[c].fingerprint, facts |-> fact]}
                            ELSE {}),
        saved \in BOOLEAN :
       LET r == [call[c].record EXCEPT !.inverse = inverse] IN
       /\ call' = [call EXCEPT ![c].record = r,
                               ![c].checkpointFailed = @ \/ ~saved]
       /\ IF saved THEN Save(c, r) ELSE UNCHANGED rows
  /\ UNCHANGED <<fact, writer, cancels, repairPlan, effects, history>>

\* The mutation takes effect.
MutationEffect(c) ==
  /\ call[c].step = "mutation"
  /\ fact' = call[c].fingerprint
  /\ effects' = [effects EXCEPT ![call[c].id] = @ + 1]
  /\ Goto(c, "mutated")
  /\ UNCHANGED <<rows, writer, cancels, repairPlan, history>>

\* The mutation returns: Ok after its effect, an error before or after it.
MutationReturn(c, outcome) ==
  /\ call[c].step \in {"mutation", "mutated"}
  /\ outcome = "ok" => call[c].step = "mutated"
  /\ call' = [call EXCEPT ![c].step = "run_returned", ![c].outcome = outcome]
  /\ UNCHANGED <<rows, fact, writer, cancels, repairPlan, effects, history>>

\* How a run ends: a lost checkpoint first, then a requested cancellation, then
\* the mutation's own error; otherwise the run goes on to verify.
IsCancelled(c) == call[c].id \in cancels[call[c].journal]

RunReturned(c) ==
  /\ call[c].step = "run_returned"
  /\ \/ /\ call[c].checkpointFailed
        /\ Save(c, WithError(call[c].record, "decodable"))
        /\ Finish(c)
     \/ /\ ~call[c].checkpointFailed /\ IsCancelled(c)
        /\ Save(c, [call[c].record EXCEPT !.phase = "rolled_back"])
        /\ Finish(c)
     \/ /\ ~call[c].checkpointFailed /\ ~IsCancelled(c) /\ call[c].outcome = "ok"
        /\ LET r == [call[c].record EXCEPT !.phase = "verifying"] IN
             /\ Save(c, r)
             /\ call' = [call EXCEPT ![c].step = "run_verifying", ![c].record = r]
        /\ UNCHANGED writer
     \/ /\ ~call[c].checkpointFailed /\ ~IsCancelled(c) /\ call[c].outcome # "ok"
        /\ Save(c, WithError(call[c].record, call[c].outcome))
        /\ Finish(c)
  /\ UNCHANGED <<fact, cancels, repairPlan, effects, history>>

RunCommit(c) ==
  /\ call[c].step = "run_verifying"
  /\ Save(c, [call[c].record EXCEPT !.phase = "committed", !.result = TRUE])
  /\ answered' = answered \union {call[c].id}
  /\ Finish(c)
  /\ UNCHANGED <<fact, cancels, repairPlan, effects, cancelled>>

-----------------------------------------------------------------------------
(* cancel                                                                  *)

\* The flag is raised before the call waits for the writer permit.
CancelStart(c, j, id) ==
  /\ call[c].step = "idle"
  /\ call' = [call EXCEPT ![c] = Start(c, "cancel_wait", j, id)]
  /\ cancels' = [cancels EXCEPT ![j] = @ \union {id}]
  /\ UNCHANGED <<rows, fact, writer, repairPlan, effects, history>>

\* An absent or undecodable row ends the call by `?`: the flag stays raised.
CancelLookup(c) ==
  /\ call[c].step = "cancel_lookup"
  /\ \/ /\ ~Readable(RowOf(c))
        /\ Finish(c)
        /\ UNCHANGED <<cancels, cancelled>>
     \/ /\ Readable(RowOf(c)) /\ IsTerminal(RowOf(c))
        /\ ClearCancel(c)
        /\ cancelled' = IF RowOf(c).phase = "rolled_back"
                        THEN cancelled \union {call[c].id} ELSE cancelled
        /\ Finish(c)
     \/ /\ Readable(RowOf(c)) /\ ~IsTerminal(RowOf(c))
        /\ call' = [call EXCEPT ![c].step = "cancel_write", ![c].record = RowOf(c)]
        /\ UNCHANGED <<writer, cancels, cancelled>>
  /\ UNCHANGED <<rows, fact, repairPlan, effects, answered>>

CancelWrite(c) ==
  /\ call[c].step = "cancel_write"
  /\ Save(c, [call[c].record EXCEPT !.phase = "rolled_back"])
  /\ ClearCancel(c)
  /\ cancelled' = cancelled \union {call[c].id}
  /\ Finish(c)
  /\ UNCHANGED <<fact, repairPlan, effects, answered>>

-----------------------------------------------------------------------------
(* prepare_undo_checked and commit_undo_checked.  Both take `current_facts` *)
(* as an argument: the caller reads them before the call waits for the     *)
(* writer permit.                                                          *)

UndoStart(c, step, j, id) ==
  /\ call[c].step = "idle"
  /\ call' = [call EXCEPT ![c] = [Start(c, step, j, id) EXCEPT !.observed = fact]]
  /\ UNCHANGED <<rows, fact, writer, cancels, repairPlan, effects, history>>

PrepareStart(c, j, id) == UndoStart(c, "prepare_wait", j, id)

CommitStart(c, j, id) == UndoStart(c, "undo_wait", j, id)

MayPrepareUndo(c) ==
  /\ Readable(RowOf(c)) /\ RowOf(c).phase = "committed"
  /\ RowOf(c).inverse # NoInverse
  /\ call[c].observed = RowOf(c).inverse.preconditions

\* Inserts a fresh plan row, or answers an error.  (PlanIds bounds the plans: a
\* prepare that finds no fresh id left answers an error.)
PrepareCheck(c) ==
  /\ call[c].step = "prepare_check"
  /\ \/ /\ MayPrepareUndo(c)
        /\ \E plan \in PlanIds :
             /\ ~Exists(rows[plan])
             /\ rows' = [rows EXCEPT ![plan] = UndoPlanned(RowOf(c).inverse)]
     \/ /\ MayPrepareUndo(c) => \A plan \in PlanIds : Exists(rows[plan])
        /\ UNCHANGED rows
  /\ Finish(c)
  /\ UNCHANGED <<fact, cancels, repairPlan, effects, history>>

\* Fault: the phase of the plan is not checked.
MayCommitUndo_AnyPhase(c) ==
  /\ Readable(RowOf(c)) /\ RowOf(c).inverse # NoInverse
  /\ call[c].observed = RowOf(c).inverse.preconditions

MayCommitUndo(c) ==
  /\ Readable(RowOf(c)) /\ RowOf(c).inverse # NoInverse
  /\ RowOf(c).phase = "prepared"
  /\ call[c].observed = RowOf(c).inverse.preconditions

UndoCheck(c) ==
  /\ call[c].step = "undo_check"
  /\ \/ /\ MayCommitUndo(c)
        /\ call' = [call EXCEPT ![c].step = "undo_begin", ![c].record = RowOf(c)]
        /\ UNCHANGED writer
     \/ /\ ~MayCommitUndo(c)
        /\ Finish(c)
  /\ UNCHANGED <<rows, fact, cancels, repairPlan, effects, history>>

UndoApplying(c) ==
  /\ call[c].step = "undo_begin"
  /\ LET r == [call[c].record EXCEPT !.phase = "applying"] IN
       /\ Save(c, r)
       /\ call' = [call EXCEPT ![c].step = "undo_apply", ![c].record = r]
  /\ UNCHANGED <<fact, writer, cancels, repairPlan, effects, history>>

\* apply_inverse succeeds: the recorded facts are restored.
UndoEffect(c) ==
  /\ call[c].step = "undo_apply"
  /\ fact' = call[c].record.inverse.facts
  /\ effects' = [effects EXCEPT ![call[c].id] = @ + 1]
  /\ Goto(c, "undo_applied")
  /\ UNCHANGED <<rows, writer, cancels, repairPlan, history>>

\* apply_inverse, or the re-read of the facts after it, answers an error.
UndoFail(c, kind) ==
  /\ call[c].step \in {"undo_apply", "undo_applied"}
  /\ Save(c, WithError(call[c].record, kind))
  /\ Finish(c)
  /\ UNCHANGED <<fact, cancels, repairPlan, effects, history>>

\* read_facts_after_apply, compared with the facts the inverse should restore.
UndoVerify(c) ==
  /\ call[c].step = "undo_applied"
  /\ \/ /\ fact = call[c].record.inverse.facts
        /\ LET r == [call[c].record EXCEPT !.phase = "verifying", !.result = TRUE] IN
             /\ Save(c, r)
             /\ call' = [call EXCEPT ![c].step = "undo_verifying", ![c].record = r]
        /\ UNCHANGED writer
     \/ /\ fact # call[c].record.inverse.facts
        /\ Save(c, WithError(call[c].record, "decodable"))
        /\ Finish(c)
  /\ UNCHANGED <<fact, cancels, repairPlan, effects, history>>

UndoCommit(c) ==
  /\ call[c].step = "undo_verifying"
  /\ Save(c, [call[c].record EXCEPT !.phase = "committed"])
  /\ answered' = answered \union {call[c].id}
  /\ Finish(c)
  /\ UNCHANGED <<fact, cancels, repairPlan, effects, cancelled>>

-----------------------------------------------------------------------------
(* Health and recovery edit the rows by SQL, without the writer permit.    *)

\* LocalRecoveryBackend::resolve: complete or roll back a listed candidate.
Resolve(id, phase) ==
  /\ "resolve" \in Disturbances
  /\ rows[id].phase \in Unfinished \union {"needs_recovery"}
  /\ rows' = [rows EXCEPT ![id].phase = phase]
  /\ UNCHANGED <<fact, writer, cancels, call, repairPlan, effects, history>>

\* HealthService::run and prepare_repair: one finding per unfinished row.  The
\* finding carries no operation id; repairPlan remembers which row raised it.
HealthPrepare(h, id) ==
  /\ "health" \in Disturbances
  /\ repairPlan[h] = NoId
  /\ rows[id].phase \in Unfinished
  /\ repairPlan' = [repairPlan EXCEPT ![h] = id]
  /\ UNCHANGED <<rows, fact, writer, cancels, call, effects, history>>

\* commit_repair: marks every row that is unfinished now.
HealthCommit(h) ==
  /\ repairPlan[h] # NoId
  /\ rows' = [id \in AllIds |->
                IF rows[id].phase \in Unfinished
                THEN [rows[id] EXCEPT !.phase = "needs_recovery"] ELSE rows[id]]
  /\ repairPlan' = [repairPlan EXCEPT ![h] = NoId]
  /\ UNCHANGED <<fact, writer, cancels, call, effects, history>>

-----------------------------------------------------------------------------
(* Failures                                                                *)

\* The future ends early: a repository call fails and `?` returns, or the
\* caller drops the future at an await.  The guard releases the permit; the row
\* and the cancellation flags stay as they are.
Abandon(c) ==
  /\ "abandon" \in Disturbances
  /\ call[c].step # "idle"
  /\ Finish(c)
  /\ UNCHANGED <<rows, fact, cancels, repairPlan, effects, history>>

\* The process of a handle dies: everything it kept in memory is gone.
Crash(h) ==
  /\ "crash" \in Disturbances
  /\ writer' = [writer EXCEPT ![h] = NoCaller]
  /\ cancels' = [j \in Journals |-> IF HandleOf[j] = h THEN {} ELSE cancels[j]]
  /\ call' = [c \in Callers |-> IF Handle(c) = h THEN Idle ELSE call[c]]
  /\ repairPlan' = [repairPlan EXCEPT ![h] = NoId]
  /\ UNCHANGED <<rows, fact, effects, history>>

\* Another program changes the object.
ExternalEdit(value) ==
  /\ "edit" \in Disturbances
  /\ fact' = value
  /\ UNCHANGED <<rows, writer, cancels, call, repairPlan, effects, history>>

-----------------------------------------------------------------------------

\* What a call does on its own once it was made.
Step(c) ==
  \/ RunLookup(c) \/ RunPoll(c) \/ RunInsert(c) \/ RunApplying(c)
  \/ MutationEffect(c)
  \/ \E outcome \in {"ok"} \union ErrorKinds : MutationReturn(c, outcome)
  \/ RunReturned(c) \/ RunCommit(c)
  \/ CancelLookup(c) \/ CancelWrite(c)
  \/ PrepareCheck(c)
  \/ UndoCheck(c) \/ UndoApplying(c) \/ UndoEffect(c) \/ UndoVerify(c) \/ UndoCommit(c)
  \/ \E kind \in ErrorKinds : UndoFail(c, kind)

Request(c, j) ==
  \/ \E id \in Ids, fp \in Fingerprints : RunStart(c, j, id, fp)
  \/ \E id \in AllIds : CancelStart(c, j, id) \/ PrepareStart(c, j, id)
  \/ \E plan \in PlanIds : CommitStart(c, j, plan)

Maintenance ==
  \/ \E id \in AllIds, phase \in {"committed", "rolled_back"} : Resolve(id, phase)
  \/ \E h \in Handles, id \in AllIds : HealthPrepare(h, id)
  \/ \E h \in Handles : HealthCommit(h)

Failure ==
  \/ \E c \in Callers : Abandon(c)
  \/ \E h \in Handles : Crash(h)
  \/ \E value \in Facts : ExternalEdit(value)

Next ==
  \/ \E c \in Callers : Acquire(c) \/ Step(c) \/ ContextCheckpoint(c)
  \/ \E c \in Callers, j \in Journals : Request(c, j)
  \/ Maintenance
  \/ Failure

Spec == Init /\ [][Next]_vars

\* The runtime polls every ready call again, mutations return, and the tokio
\* mutex is FIFO: a waiting call is granted the permit if it is free again and
\* again.
FairSpec ==
  Spec /\ \A c \in Callers : WF_vars(Step(c)) /\ SF_vars(Acquire(c))

-----------------------------------------------------------------------------
(* Properties                                                              *)

TypeOK ==
  /\ rows \in [AllIds -> Row]
  /\ fact \in Facts
  /\ writer \in [Handles -> Callers \union {NoCaller}]
  /\ cancels \in [Journals -> SUBSET AllIds]
  /\ call \in [Callers -> Call]
  /\ repairPlan \in [Handles -> AllIds \union {NoId}]
  /\ effects \in [AllIds -> Nat]
  /\ answered \subseteq AllIds
  /\ cancelled \subseteq AllIds

\* Two mutations of one handle never overlap: a call that may touch rows or the
\* library holds its handle's permit (OperationJournal, journal.rs).
OneWriterPerHandle ==
  \A c, d \in Callers :
    /\ call[c].step \in HoldSteps => writer[Handle(c)] = c
    /\ call[c].step \in HoldSteps /\ call[d].step \in HoldSteps
         /\ Handle(c) = Handle(d) => c = d

\* However often a request is retried, by however many processes, across
\* crashes, repairs and resolutions, the mutation of one operation id takes
\* effect at most once (OperationService::run).
AtMostOneEffect == \A id \in Ids : effects[id] <= 1

\* A call that answered Ok stands for exactly one effect, and its row keeps the
\* result for the retries to come: no later cancel, repair, resolution or crash
\* un-commits it.
AnsweredStaysCommitted ==
  \A id \in answered :
    /\ effects[id] = 1
    /\ rows[id].phase = "committed" /\ rows[id].result

\* Once a cancel answered "rolled back", no run or undo of that id answers Ok,
\* before or after (OperationService::cancel waits for the writer permit).
CancelledNeverAnswers ==
  /\ cancelled \intersect answered = {}
  /\ \A id \in cancelled : rows[id].phase = "rolled_back"

\* An undo plan is consumed by the first commit that applies it.
UndoPlanAppliesOnce == \A plan \in PlanIds : effects[plan] <= 1

\* Every call is answered: no call waits for ever for the permit, a row or
\* another call.
EveryCallReturns ==
  \A c \in Callers : call[c].step # "idle" ~> call[c].step = "idle"

\* The journal implements its contract: the row's fingerprint is the claim and
\* the answers given are the verdict.
Contract == INSTANCE OperationContract WITH
  Operations <- AllIds,
  Requests <- Facts \union {UndoFingerprint},
  NoRequest <- NoId,
  claim <- [id \in AllIds |-> IF Exists(rows[id]) THEN rows[id].fingerprint ELSE NoId],
  verdict <- [id \in AllIds |-> CASE id \in answered -> "confirmed"
                                  [] id \in cancelled -> "withdrawn"
                                  [] OTHER -> "open"]

ImplementsContract == Contract!Spec

\* --- What the repository says and the code does not do.

\* operation_service.rs: the journal "refuses stale observations before any
\* inverse write begins".
UndoFactsAreFresh ==
  \A c \in Callers :
    call[c].step = "undo_apply" => fact = call[c].record.inverse.preconditions
=============================================================================
