----------------------- MODULE OperationJournal_proofs ----------------------
(***************************************************************************)
(* Proofs about the operation journal, for every number of calls, ids,     *)
(* processes and journals and every set of disturbances.                   *)
(***************************************************************************)
EXTENDS OperationJournal, TLAPS

-----------------------------------------------------------------------------
(* Types                                                                   *)

\* Steps of a run, from its request to its end.
RunSteps == {"run_wait", "run_lookup", "run_insert", "run_poll"} \union RunOwnerSteps
UndoSteps == {"undo_wait", "undo_check"} \union UndoOwnerSteps
Steps == {"idle"} \union WaitSteps \union HoldSteps

\* What a call knows about its own id, request and record at each step.
Consistent(k) ==
  /\ k.step # "idle" => k.id \in AllIds
  /\ k.step \in RunSteps => k.id \in Ids /\ k.fingerprint \in Fingerprints
  /\ k.step \in UndoSteps => k.id \in PlanIds
  /\ k.step \in UndoOwnerSteps => k.record.inverse \in Inverses
  /\ k.step \in RunOwnerSteps \union UndoOwnerSteps => Exists(k.record)

CallsTyped ==
  /\ call \in [Callers -> Call]
  /\ \A c \in Callers : Consistent(call[c])

TypeInv == TypeOK /\ CallsTyped

LEMMA IdleTyped ==
  /\ Idle \in Call /\ Consistent(Idle)
  /\ Idle.step = "idle" /\ Idle.record = Absent
  BY ConstantsAssumption DEF Idle, Call, AllIds, Facts, Absent, Row, Phases, Unfinished,
     Consistent, RunSteps, RunOwnerSteps, UndoSteps, UndoOwnerSteps

\* Replacing one call by a well-formed one keeps all calls well-formed.
LEMMA CallUpdate ==
  ASSUME CallsTyped, NEW c \in Callers, NEW k \in Call, Consistent(k),
         call' = [call EXCEPT ![c] = k]
  PROVE  CallsTyped'
<1>1. \A d \in Callers : call'[d] = IF d = c THEN k ELSE call[d]
  BY DEF CallsTyped
<1>2. QED
  BY <1>1 DEF CallsTyped

LEMMA FinishTyped ==
  ASSUME TypeInv, NEW c \in Callers, Finish(c)
  PROVE  CallsTyped' /\ writer' \in [Handles -> Callers \union {NoCaller}]
<1>1. CallsTyped'
  BY CallUpdate, IdleTyped DEF Finish, TypeInv
<1>2. QED
  BY <1>1 DEF Finish, TypeInv, TypeOK

LEMMA GotoTyped ==
  ASSUME TypeInv, NEW c \in Callers, NEW s \in Steps, Goto(c, s),
         Consistent([call[c] EXCEPT !.step = s])
  PROVE  CallsTyped'
<1>1. [call[c] EXCEPT !.step = s] \in Call
  BY DEF TypeInv, CallsTyped, Call, Steps
<1>2. QED
  BY <1>1, CallUpdate DEF TypeInv, CallsTyped, Goto

\* A call that moves on with a new record.
LEMMA RecordTyped ==
  ASSUME TypeInv, NEW c \in Callers, NEW s \in Steps, NEW r \in Row,
         call' = [call EXCEPT ![c].step = s, ![c].record = r],
         Consistent([call[c] EXCEPT !.step = s, !.record = r])
  PROVE  CallsTyped'
<1>1. [call[c] EXCEPT !.step = s, !.record = r] \in Call
  BY DEF TypeInv, CallsTyped, Call, Steps
<1>2. call' = [call EXCEPT ![c] = [call[c] EXCEPT !.step = s, !.record = r]]
  BY DEF TypeInv, CallsTyped, Call
<1>3. QED
  BY <1>1, <1>2, CallUpdate DEF TypeInv

\* A new call.
LEMMA StartTyped ==
  ASSUME TypeInv, NEW c \in Callers, NEW j \in Journals, NEW id \in AllIds, NEW s \in Steps
  PROVE  /\ Start(c, s, j, id) \in Call
         /\ Start(c, s, j, id).step = s /\ Start(c, s, j, id).id = id
         /\ Start(c, s, j, id).record = Absent
  BY IdleTyped DEF Start, Call, Steps

LEMMA CallChanges ==
  ASSUME NEW k \in Call
  PROVE  /\ \A fp \in Facts : LET n == [k EXCEPT !.fingerprint = fp] IN
              n \in Call /\ n.step = k.step /\ n.id = k.id /\ n.fingerprint = fp
         /\ \A value \in Facts : LET n == [k EXCEPT !.observed = value] IN
              n \in Call /\ n.step = k.step /\ n.id = k.id
  BY DEF Call

LEMMA SaveTyped ==
  ASSUME TypeInv, NEW c \in Callers, NEW r \in Row, Save(c, r)
  PROVE  rows' \in [AllIds -> Row]
  BY DEF TypeInv, TypeOK, Save

LEMMA EffectsTyped ==
  ASSUME TypeInv, NEW id \in AllIds, effects' = [effects EXCEPT ![id] = @ + 1]
  PROVE  effects' \in [AllIds -> Nat]
<1>1. effects \in [AllIds -> Nat] /\ effects[id] + 1 \in Nat
  BY DEF TypeInv, TypeOK
<1>2. QED
  BY <1>1

\* The records the service writes are rows.
LEMMA RowUpdates ==
  ASSUME NEW r \in Row
  PROVE  /\ \A phase \in Phases :
              /\ [r EXCEPT !.phase = phase] \in Row
              /\ [r EXCEPT !.phase = phase, !.result = TRUE] \in Row
              /\ Exists([r EXCEPT !.phase = phase])
              /\ Exists([r EXCEPT !.phase = phase, !.result = TRUE])
              /\ [r EXCEPT !.phase = phase].inverse = r.inverse
              /\ [r EXCEPT !.phase = phase, !.result = TRUE].inverse = r.inverse
         /\ \A kind \in ErrorKinds : WithError(r, kind) \in Row /\ Exists(WithError(r, kind))
         /\ \A fp \in Facts : Planned(fp) \in Row /\ Exists(Planned(fp))
         /\ \A inverse \in Inverses :
              UndoPlanned(inverse) \in Row /\ Exists(UndoPlanned(inverse))
         /\ \A inverse \in Inverses \union {NoInverse} :
              /\ [r EXCEPT !.inverse = inverse] \in Row
              /\ Exists(r) => Exists([r EXCEPT !.inverse = inverse])
<1> USE DEF Row, Exists
<1>1. "absent" \notin Phases /\ {"needs_recovery", "planned", "prepared"} \subseteq Phases
  BY DEF Phases, Unfinished, TerminalPhases
<1>2. ASSUME NEW phase \in Phases
      PROVE  /\ [r EXCEPT !.phase = phase] \in Row
             /\ [r EXCEPT !.phase = phase, !.result = TRUE] \in Row
             /\ Exists([r EXCEPT !.phase = phase])
             /\ Exists([r EXCEPT !.phase = phase, !.result = TRUE])
             /\ [r EXCEPT !.phase = phase].inverse = r.inverse
             /\ [r EXCEPT !.phase = phase, !.result = TRUE].inverse = r.inverse
  BY <1>1
<1>3. ASSUME NEW kind \in ErrorKinds
      PROVE  WithError(r, kind) \in Row /\ Exists(WithError(r, kind))
  BY <1>1 DEF WithError
<1>4. ASSUME NEW fp \in Facts PROVE Planned(fp) \in Row /\ Exists(Planned(fp))
  BY <1>1 DEF Planned
<1>5. ASSUME NEW inverse \in Inverses
      PROVE  UndoPlanned(inverse) \in Row /\ Exists(UndoPlanned(inverse))
  BY <1>1 DEF UndoPlanned
<1>6. ASSUME NEW inverse \in Inverses \union {NoInverse}
      PROVE  /\ [r EXCEPT !.inverse = inverse] \in Row
             /\ Exists(r) => Exists([r EXCEPT !.inverse = inverse])
  OBVIOUS
<1>7. QED
  BY <1>2, <1>3, <1>4, <1>5, <1>6

LEMMA RecordsAreRows ==
  ASSUME TypeInv, NEW c \in Callers
  PROVE  /\ call[c].record \in Row
         /\ call[c].id \in AllIds => RowOf(c) \in Row
         /\ call[c].fingerprint \in Facts \union {UndoFingerprint}
         /\ call[c].step \in Steps /\ call[c] \in Call
  BY DEF TypeInv, TypeOK, CallsTyped, Call, RowOf, Steps

\* The frame of a type proof: what is left once calls, rows and permits are typed.
LEMMA TypeFrame ==
  ASSUME TypeInv, CallsTyped', rows' \in [AllIds -> Row], fact' \in Facts,
         writer' \in [Handles -> Callers \union {NoCaller}],
         cancels' \in [Journals -> SUBSET AllIds],
         effects' \in [AllIds -> Nat],
         repairPlan' \in [Handles -> AllIds \union {NoId}],
         answered' \subseteq AllIds, cancelled' \subseteq AllIds
  PROVE  TypeInv'
  BY DEF TypeInv, TypeOK, CallsTyped

LEMMA InitTypeInv == Init => TypeInv
<1> SUFFICES ASSUME Init PROVE TypeInv
  OBVIOUS
<1>1. Absent \in Row /\ InitialFact \in Facts
  BY DEF Absent, Row, Facts, Phases
<1>2. QED
  BY <1>1, IdleTyped DEF Init, TypeInv, TypeOK, CallsTyped

LEMMA RunTypeInv ==
  ASSUME TypeInv, NEW c \in Callers,
         \/ RunLookup(c) \/ RunPoll(c) \/ RunInsert(c) \/ RunApplying(c)
         \/ ContextCheckpoint(c) \/ MutationEffect(c) \/ RunReturned(c) \/ RunCommit(c)
         \/ \E outcome \in {"ok"} \union ErrorKinds : MutationReturn(c, outcome)
  PROVE  TypeInv'
<1> DEFINE k == call[c]
<1>0. /\ k \in Call /\ Consistent(k) /\ k.record \in Row /\ k.step \in Steps
      /\ rows \in [AllIds -> Row] /\ fact \in Facts
      /\ writer \in [Handles -> Callers \union {NoCaller}]
      /\ cancels \in [Journals -> SUBSET AllIds] /\ effects \in [AllIds -> Nat]
      /\ repairPlan \in [Handles -> AllIds \union {NoId}]
      /\ answered \subseteq AllIds /\ cancelled \subseteq AllIds
  BY RecordsAreRows DEF TypeInv, TypeOK, CallsTyped
<1> USE DEF history
<1>1. ASSUME k.step \in RunSteps, RunAnswer(c)
      PROVE  /\ CallsTyped' /\ writer' \in [Handles -> Callers \union {NoCaller}]
             /\ answered' \subseteq AllIds
  <2>1. k.id \in AllIds
    BY <1>0, <1>1 DEF Consistent, AllIds
  <2>2. QED
    BY <1>0, <1>1, <2>1, FinishTyped DEF RunAnswer
<1>2. CASE RunLookup(c)
  <2>1. k.step \in RunSteps
    BY <1>2 DEF RunLookup, RunSteps
  <2>2. ASSUME NEW s \in {"run_insert", "run_poll"}, Goto(c, s) PROVE CallsTyped'
    <3>1. s \in Steps /\ s # "idle" /\ s \in RunSteps /\ s \notin UndoSteps
          /\ s \notin RunOwnerSteps \union UndoOwnerSteps
      BY DEF Steps, HoldSteps, RunSteps, UndoSteps, RunOwnerSteps, UndoOwnerSteps
    <3>2. Consistent([k EXCEPT !.step = s])
      BY <1>0, <2>1, <3>1 DEF Consistent, Call, AllIds, UndoSteps
    <3>3. QED
      BY <2>2, <3>1, <3>2, GotoTyped
  <2>3. QED
    BY <1>0, <1>1, <1>2, <2>1, <2>2, TypeFrame DEF RunLookup
<1>3. CASE RunPoll(c)
  <2>1. k.step \in RunSteps
    BY <1>3 DEF RunPoll, RunSteps
  <2>2. CASE RunAnswer(c)
    BY <1>0, <1>1, <1>3, <2>1, <2>2, TypeFrame DEF RunPoll
  <2>3. CASE RunGiveUp(c)
    BY <1>0, <1>3, <2>3, FinishTyped, TypeFrame DEF RunPoll, RunGiveUp
  <2>4. CASE /\ k.rereads < Rereads
             /\ call' = [call EXCEPT ![c].rereads = @ + 1]
             /\ UNCHANGED <<writer, answered>>
    <3>1. [k EXCEPT !.rereads = @ + 1] \in Call
      BY <1>0, <2>4, ConstantsAssumption DEF Call
    <3>2. Consistent([k EXCEPT !.rereads = @ + 1])
      BY <1>0 DEF Consistent, Call
    <3>3. CallsTyped'
      BY <2>4, <3>1, <3>2, CallUpdate DEF TypeInv
    <3>4. QED
      BY <1>0, <1>3, <2>4, <3>3, TypeFrame DEF RunPoll
  <2>5. QED
    BY <1>3, <2>2, <2>3, <2>4 DEF RunPoll, RunReread
<1>4. CASE RunInsert(c)
  <2>1. k.step \in RunSteps /\ k.id \in Ids /\ k.fingerprint \in Fingerprints
    BY <1>0, <1>4 DEF RunInsert, RunSteps, Consistent
  <2>2. Planned(k.fingerprint) \in Row /\ Exists(Planned(k.fingerprint))
    BY <1>0, <2>1, RowUpdates DEF Facts
  <2>3. CASE /\ Save(c, Planned(k.fingerprint))
             /\ call' = [call EXCEPT ![c].step = "run_planned",
                                     ![c].record = Planned(k.fingerprint)]
             /\ UNCHANGED <<writer, answered>>
    <3>1. "run_planned" \in Steps /\ "run_planned" \notin UndoSteps
          /\ "run_planned" \notin UndoOwnerSteps
      BY DEF Steps, HoldSteps, RunOwnerSteps, UndoSteps, UndoOwnerSteps
    <3>2. Consistent([k EXCEPT !.step = "run_planned", !.record = Planned(k.fingerprint)])
      BY <1>0, <2>1, <2>2, <3>1 DEF Consistent, Call, AllIds
    <3>3. CallsTyped'
      BY <2>2, <2>3, <3>1, <3>2, RecordTyped
    <3>4. rows' \in [AllIds -> Row]
      BY <2>2, <2>3, SaveTyped
    <3>5. QED
      BY <1>0, <1>4, <2>3, <3>3, <3>4, TypeFrame DEF RunInsert
  <2>4. CASE Goto(c, "run_poll") /\ UNCHANGED <<rows, writer, answered>>
    <3>1. "run_poll" \in Steps /\ "run_poll" \notin UndoSteps
          /\ "run_poll" \notin RunOwnerSteps \union UndoOwnerSteps
      BY DEF Steps, HoldSteps, RunOwnerSteps, UndoSteps, UndoOwnerSteps
    <3>2. Consistent([k EXCEPT !.step = "run_poll"])
      BY <1>0, <2>1, <3>1 DEF Consistent, Call, AllIds
    <3>3. CallsTyped'
      BY <2>4, <3>1, <3>2, GotoTyped
    <3>4. QED
      BY <1>0, <1>4, <2>4, <3>3, TypeFrame DEF RunInsert
  <2>5. CASE RunAnswer(c) /\ UNCHANGED rows
    BY <1>0, <1>1, <1>4, <2>1, <2>5, TypeFrame DEF RunInsert
  <2>6. QED
    BY <1>4, <2>3, <2>4, <2>5 DEF RunInsert
<1>5. CASE RunApplying(c)
  <2> DEFINE r == [k.record EXCEPT !.phase = "applying"]
  <2>1. r \in Row /\ Exists(r)
    BY <1>0, RowUpdates DEF Phases, Unfinished
  <2>2. k.id \in Ids /\ k.fingerprint \in Fingerprints
    BY <1>0, <1>5 DEF RunApplying, RunSteps, RunOwnerSteps, Consistent
  <2>3. "mutation" \in Steps /\ "mutation" \notin UndoSteps /\ "mutation" \notin UndoOwnerSteps
    BY DEF Steps, HoldSteps, RunOwnerSteps, UndoSteps, UndoOwnerSteps
  <2>4. Consistent([k EXCEPT !.step = "mutation", !.record = r])
    BY <1>0, <2>1, <2>2, <2>3 DEF Consistent, Call, AllIds
  <2>5. CallsTyped' /\ rows' \in [AllIds -> Row]
    BY <1>5, <2>1, <2>3, <2>4, RecordTyped, SaveTyped DEF RunApplying
  <2>6. QED
    BY <1>0, <1>5, <2>5, TypeFrame DEF RunApplying
<1>6. CASE ContextCheckpoint(c)
  <2>1. k.step \in {"mutation", "mutated"} /\ k.id \in Ids /\ k.fingerprint \in Fingerprints
        /\ Exists(k.record)
    BY <1>0, <1>6 DEF ContextCheckpoint, RunSteps, RunOwnerSteps, Consistent
  <2>2. PICK inverse \in {k.record.inverse}
                    \union (IF k.step = "mutation"
                            THEN {[preconditions |-> k.fingerprint, facts |-> fact]}
                            ELSE {}), saved \in BOOLEAN :
          /\ call' = [call EXCEPT ![c].record = [k.record EXCEPT !.inverse = inverse],
                                  ![c].checkpointFailed = @ \/ ~saved]
          /\ IF saved THEN Save(c, [k.record EXCEPT !.inverse = inverse]) ELSE UNCHANGED rows
    BY <1>6 DEF ContextCheckpoint
  <2> DEFINE r == [k.record EXCEPT !.inverse = inverse]
             n == [k EXCEPT !.record = r, !.checkpointFailed = @ \/ ~saved]
  <2>3. inverse \in Inverses \union {NoInverse}
    BY <1>0, <2>1, <2>2 DEF Row, Inverses, Facts
  <2>4. r \in Row /\ Exists(r)
    BY <1>0, <2>1, <2>3, RowUpdates
  <2>5. n \in Call
    BY <1>0, <2>4 DEF Call
  <2>6. k.step \notin UndoSteps /\ k.step \notin UndoOwnerSteps
    BY <2>1 DEF UndoSteps, UndoOwnerSteps
  <2>7. Consistent(n)
    BY <1>0, <2>1, <2>4, <2>6 DEF Consistent, Call, AllIds
  <2>8. call' = [call EXCEPT ![c] = n]
    BY <1>0, <2>2 DEF TypeInv, CallsTyped, Call
  <2>9. CallsTyped'
    BY <2>5, <2>7, <2>8, CallUpdate DEF TypeInv
  <2>10. rows' \in [AllIds -> Row]
    BY <1>0, <2>2, <2>4, SaveTyped
  <2>11. QED
    BY <1>0, <1>6, <2>9, <2>10, TypeFrame DEF ContextCheckpoint
<1>7. CASE MutationEffect(c)
  <2>1. k.step = "mutation" /\ k.id \in Ids /\ k.fingerprint \in Fingerprints /\ Exists(k.record)
    BY <1>0, <1>7 DEF MutationEffect, RunSteps, RunOwnerSteps, Consistent
  <2>2. "mutated" \in Steps /\ "mutated" \notin UndoSteps /\ "mutated" \notin UndoOwnerSteps
    BY DEF Steps, HoldSteps, RunOwnerSteps, UndoSteps, UndoOwnerSteps
  <2>3. Consistent([k EXCEPT !.step = "mutated"])
    BY <1>0, <2>1, <2>2 DEF Consistent, Call, AllIds
  <2>4. CallsTyped'
    BY <1>7, <2>2, <2>3, GotoTyped DEF MutationEffect
  <2>5. fact' \in Facts
    BY <1>7, <2>1 DEF MutationEffect, Facts
  <2>6. effects' \in [AllIds -> Nat]
    BY <1>7, <2>1, EffectsTyped DEF MutationEffect, AllIds
  <2>7. QED
    BY <1>0, <1>7, <2>4, <2>5, <2>6, TypeFrame DEF MutationEffect
<1>8. CASE RunReturned(c)
  <2>1. k.step = "run_returned" /\ k.id \in Ids /\ k.fingerprint \in Fingerprints
    BY <1>0, <1>8 DEF RunReturned, RunSteps, RunOwnerSteps, Consistent
  <2>2. CASE Finish(c) /\ \E r \in Row : Save(c, r)
    BY <1>0, <1>8, <2>2, FinishTyped, SaveTyped, TypeFrame DEF RunReturned
  <2> DEFINE v == [k.record EXCEPT !.phase = "verifying"]
  <2>3. CASE /\ Save(c, v) /\ UNCHANGED writer
             /\ call' = [call EXCEPT ![c].step = "run_verifying", ![c].record = v]
    <3>1. v \in Row /\ Exists(v)
      BY <1>0, RowUpdates DEF Phases, Unfinished
    <3>2. "run_verifying" \in Steps /\ "run_verifying" \notin UndoSteps
          /\ "run_verifying" \notin UndoOwnerSteps
      BY DEF Steps, HoldSteps, RunOwnerSteps, UndoSteps, UndoOwnerSteps
    <3>3. Consistent([k EXCEPT !.step = "run_verifying", !.record = v])
      BY <1>0, <2>1, <3>1, <3>2 DEF Consistent, Call, AllIds
    <3>4. CallsTyped' /\ rows' \in [AllIds -> Row]
      BY <2>3, <3>1, <3>2, <3>3, RecordTyped, SaveTyped
    <3>5. QED
      BY <1>0, <1>8, <2>3, <3>4, TypeFrame DEF RunReturned
  <2>4. /\ WithError(k.record, "decodable") \in Row
        /\ [k.record EXCEPT !.phase = "rolled_back"] \in Row
        /\ k.outcome # "ok" => WithError(k.record, k.outcome) \in Row
    BY <1>0, RowUpdates DEF Phases, TerminalPhases, ErrorKinds, Call
  <2>5. QED
    BY <1>8, <2>2, <2>3, <2>4 DEF RunReturned
<1>9. CASE RunCommit(c)
  <2>1. k.id \in AllIds
    BY <1>0, <1>9 DEF RunCommit, RunSteps, RunOwnerSteps, Consistent, AllIds
  <2>2. [k.record EXCEPT !.phase = "committed", !.result = TRUE] \in Row
    BY <1>0, RowUpdates DEF Phases, TerminalPhases
  <2>3. QED
    BY <1>0, <1>9, <2>1, <2>2, FinishTyped, SaveTyped, TypeFrame DEF RunCommit
<1>10. ASSUME NEW outcome \in {"ok"} \union ErrorKinds, MutationReturn(c, outcome)
       PROVE  TypeInv'
  <2> DEFINE n == [k EXCEPT !.step = "run_returned", !.outcome = outcome]
  <2>1. k.step \in {"mutation", "mutated"} /\ k.id \in Ids /\ k.fingerprint \in Fingerprints
        /\ Exists(k.record)
    BY <1>0, <1>10 DEF MutationReturn, RunSteps, RunOwnerSteps, Consistent
  <2>2. "run_returned" \notin UndoSteps /\ "run_returned" \notin UndoOwnerSteps
    BY DEF UndoSteps, UndoOwnerSteps
  <2>3. n \in Call
    BY <1>0 DEF Call, HoldSteps, RunOwnerSteps
  <2>4. Consistent(n)
    BY <1>0, <2>1, <2>2 DEF Consistent, Call, AllIds
  <2>5. call' = [call EXCEPT ![c] = n]
    BY <1>0, <1>10 DEF MutationReturn, TypeInv, CallsTyped, Call
  <2>6. CallsTyped'
    BY <2>3, <2>4, <2>5, CallUpdate DEF TypeInv
  <2>7. QED
    BY <1>0, <1>10, <2>6, TypeFrame DEF MutationReturn
<1>11. QED
  BY <1>2, <1>3, <1>4, <1>5, <1>6, <1>7, <1>8, <1>9, <1>10

LEMMA CancelTypeInv ==
  ASSUME TypeInv, NEW c \in Callers, CancelLookup(c) \/ CancelWrite(c)
  PROVE  TypeInv'
<1> DEFINE k == call[c]
<1>0. /\ k \in Call /\ Consistent(k) /\ k.record \in Row /\ k.step \in Steps
      /\ rows \in [AllIds -> Row] /\ fact \in Facts
      /\ writer \in [Handles -> Callers \union {NoCaller}]
      /\ cancels \in [Journals -> SUBSET AllIds] /\ effects \in [AllIds -> Nat]
      /\ repairPlan \in [Handles -> AllIds \union {NoId}]
      /\ answered \subseteq AllIds /\ cancelled \subseteq AllIds
  BY RecordsAreRows DEF TypeInv, TypeOK, CallsTyped
<1>1. k.id \in AllIds /\ k.step \in {"cancel_lookup", "cancel_write"}
  BY <1>0 DEF CancelLookup, CancelWrite, Consistent
<1>2. ClearCancel(c) => cancels' \in [Journals -> SUBSET AllIds]
  BY <1>0 DEF ClearCancel
<1> USE DEF history
<1>3. CASE CancelLookup(c)
  <2>1. CASE Finish(c)
    BY <1>0, <1>1, <1>2, <1>3, <2>1, FinishTyped, TypeFrame DEF CancelLookup
  <2>2. CASE /\ call' = [call EXCEPT ![c].step = "cancel_write", ![c].record = RowOf(c)]
             /\ UNCHANGED <<writer, cancels, cancelled>>
    <3>1. RowOf(c) \in Row /\ "cancel_write" \in Steps
      BY <1>1, RecordsAreRows DEF Steps, HoldSteps
    <3>2. "cancel_write" \notin RunSteps \union UndoSteps \union UndoOwnerSteps
                                       \union RunOwnerSteps
      BY DEF RunSteps, UndoSteps, UndoOwnerSteps, RunOwnerSteps
    <3>3. Consistent([k EXCEPT !.step = "cancel_write", !.record = RowOf(c)])
      BY <1>0, <1>1, <3>2 DEF Consistent, Call
    <3>4. CallsTyped'
      BY <2>2, <3>1, <3>3, RecordTyped
    <3>5. QED
      BY <1>0, <1>3, <2>2, <3>4, TypeFrame DEF CancelLookup
  <2>3. QED
    BY <1>3, <2>1, <2>2 DEF CancelLookup
<1>4. CASE CancelWrite(c)
  <2>1. [k.record EXCEPT !.phase = "rolled_back"] \in Row
    BY <1>0, RowUpdates DEF Phases, TerminalPhases
  <2>2. rows' \in [AllIds -> Row]
    BY <1>4, <2>1, SaveTyped DEF CancelWrite
  <2>3. QED
    BY <1>0, <1>1, <1>2, <1>4, <2>2, FinishTyped, TypeFrame DEF CancelWrite
<1>5. QED
  BY <1>3, <1>4

LEMMA UndoTypeInv ==
  ASSUME TypeInv, NEW c \in Callers,
         \/ PrepareCheck(c) \/ UndoCheck(c) \/ UndoApplying(c) \/ UndoEffect(c)
         \/ UndoVerify(c) \/ UndoCommit(c) \/ \E kind \in ErrorKinds : UndoFail(c, kind)
  PROVE  TypeInv'
<1> DEFINE k == call[c]
<1>0. /\ k \in Call /\ Consistent(k) /\ k.record \in Row /\ k.step \in Steps
      /\ rows \in [AllIds -> Row] /\ fact \in Facts
      /\ writer \in [Handles -> Callers \union {NoCaller}]
      /\ cancels \in [Journals -> SUBSET AllIds] /\ effects \in [AllIds -> Nat]
      /\ repairPlan \in [Handles -> AllIds \union {NoId}]
      /\ answered \subseteq AllIds /\ cancelled \subseteq AllIds
  BY RecordsAreRows DEF TypeInv, TypeOK, CallsTyped
<1> USE DEF history
\* A plan call that moves on to another owner step with a new record.
<1>1. ASSUME k.id \in PlanIds, NEW s \in UndoOwnerSteps, NEW r \in Row, Exists(r),
             r.inverse \in Inverses,
             call' = [call EXCEPT ![c].step = s, ![c].record = r]
      PROVE  CallsTyped'
  <2>1. s \in Steps /\ s \notin RunSteps
    BY <1>1 DEF Steps, HoldSteps, RunSteps, RunOwnerSteps, UndoOwnerSteps
  <2>2. Consistent([k EXCEPT !.step = s, !.record = r])
    BY <1>0, <1>1, <2>1 DEF Consistent, Call, AllIds
  <2>3. QED
    BY <1>1, <2>1, <2>2, RecordTyped
<1>2. k.step \in UndoOwnerSteps =>
        k.id \in PlanIds /\ k.record.inverse \in Inverses /\ Exists(k.record)
  BY <1>0 DEF Consistent, UndoSteps
<1>3. CASE PrepareCheck(c)
  <2>1. CallsTyped' /\ writer' \in [Handles -> Callers \union {NoCaller}]
    BY <1>3, FinishTyped DEF PrepareCheck
  <2>2. rows' \in [AllIds -> Row]
    <3>1. CASE UNCHANGED rows
      BY <1>0, <3>1
    <3>2. CASE MayPrepareUndo(c)
               /\ \E plan \in PlanIds :
                    rows' = [rows EXCEPT ![plan] = UndoPlanned(RowOf(c).inverse)]
      <4>1. k.id \in AllIds
        BY <1>0, <1>3 DEF PrepareCheck, Consistent
      <4>2. RowOf(c) \in Row /\ RowOf(c).inverse \in Inverses
        BY <3>2, <4>1, RecordsAreRows DEF MayPrepareUndo, Row
      <4>3. UndoPlanned(RowOf(c).inverse) \in Row
        BY <4>2, RowUpdates
      <4>4. QED
        BY <1>0, <3>2, <4>3
    <3>3. QED
      BY <1>3, <3>1, <3>2 DEF PrepareCheck
  <2>3. QED
    BY <1>0, <1>3, <2>1, <2>2, TypeFrame DEF PrepareCheck
<1>4. CASE UndoCheck(c)
  <2>1. CASE Finish(c)
    BY <1>0, <1>4, <2>1, FinishTyped, TypeFrame DEF UndoCheck
  <2>2. CASE /\ MayCommitUndo(c) /\ UNCHANGED writer
             /\ call' = [call EXCEPT ![c].step = "undo_begin", ![c].record = RowOf(c)]
    <3>1. k.id \in PlanIds /\ k.id \in AllIds
      BY <1>0, <1>4 DEF UndoCheck, Consistent, UndoSteps
    <3>2. RowOf(c) \in Row /\ RowOf(c).inverse \in Inverses /\ Exists(RowOf(c))
      BY <2>2, <3>1, RecordsAreRows DEF MayCommitUndo, Readable, Row
    <3>3. CallsTyped'
      BY <1>1, <2>2, <3>1, <3>2 DEF UndoOwnerSteps
    <3>4. QED
      BY <1>0, <1>4, <2>2, <3>3, TypeFrame DEF UndoCheck
  <2>3. QED
    BY <1>4, <2>1, <2>2 DEF UndoCheck
<1>5. CASE UndoApplying(c)
  <2> DEFINE r == [k.record EXCEPT !.phase = "applying"]
  <2>1. k.id \in PlanIds /\ k.record.inverse \in Inverses
    BY <1>2, <1>5 DEF UndoApplying, UndoOwnerSteps
  <2>2. r \in Row /\ Exists(r) /\ r.inverse = k.record.inverse
    BY <1>0, RowUpdates DEF Phases, Unfinished
  <2>3. CallsTyped' /\ rows' \in [AllIds -> Row]
    BY <1>1, <1>5, <2>1, <2>2, SaveTyped DEF UndoApplying, UndoOwnerSteps
  <2>4. QED
    BY <1>0, <1>5, <2>3, TypeFrame DEF UndoApplying
<1>6. CASE UndoEffect(c)
  <2>1. k.id \in PlanIds /\ k.record.inverse \in Inverses /\ Exists(k.record)
        /\ k.step # "idle"
    BY <1>2, <1>6 DEF UndoEffect, UndoOwnerSteps
  <2>2. "undo_applied" \in Steps /\ "undo_applied" \notin RunSteps
    BY DEF Steps, HoldSteps, UndoOwnerSteps, RunSteps, RunOwnerSteps
  <2>3. Consistent([k EXCEPT !.step = "undo_applied"])
    BY <1>0, <2>1, <2>2 DEF Consistent, Call, AllIds
  <2>4. CallsTyped'
    BY <1>6, <2>2, <2>3, GotoTyped DEF UndoEffect
  <2>5. fact' \in Facts
    BY <1>6, <2>1 DEF UndoEffect, Inverses
  <2>6. effects' \in [AllIds -> Nat]
    BY <1>6, <2>1, EffectsTyped DEF UndoEffect, AllIds
  <2>7. QED
    BY <1>0, <1>6, <2>4, <2>5, <2>6, TypeFrame DEF UndoEffect
<1>7. ASSUME NEW r \in Row, Save(c, r), Finish(c),
             UNCHANGED <<fact, cancels, repairPlan, effects, cancelled>>,
             answered' \subseteq AllIds
      PROVE  TypeInv'
  BY <1>0, <1>7, FinishTyped, SaveTyped, TypeFrame
<1>8. CASE UndoVerify(c)
  <2> DEFINE r == [k.record EXCEPT !.phase = "verifying", !.result = TRUE]
  <2>1. k.id \in PlanIds /\ k.record.inverse \in Inverses
    BY <1>2, <1>8 DEF UndoVerify, UndoOwnerSteps
  <2>2. r \in Row /\ Exists(r) /\ r.inverse = k.record.inverse
    BY <1>0, RowUpdates DEF Phases, Unfinished
  <2>3. CASE /\ Save(c, r) /\ UNCHANGED writer
             /\ call' = [call EXCEPT ![c].step = "undo_verifying", ![c].record = r]
    <3>1. CallsTyped' /\ rows' \in [AllIds -> Row]
      BY <1>1, <2>1, <2>2, <2>3, SaveTyped DEF UndoOwnerSteps
    <3>2. QED
      BY <1>0, <1>8, <2>3, <3>1, TypeFrame DEF UndoVerify
  <2>4. CASE Save(c, WithError(k.record, "decodable")) /\ Finish(c)
    <3>1. WithError(k.record, "decodable") \in Row
      BY <1>0, RowUpdates DEF ErrorKinds
    <3>2. QED
      BY <1>0, <1>7, <1>8, <2>4, <3>1 DEF UndoVerify
  <2>5. QED
    BY <1>8, <2>3, <2>4 DEF UndoVerify
<1>9. CASE UndoCommit(c)
  <2>1. k.id \in AllIds
    BY <1>2, <1>9 DEF UndoCommit, UndoOwnerSteps, AllIds
  <2>2. [k.record EXCEPT !.phase = "committed"] \in Row
    BY <1>0, RowUpdates DEF Phases, TerminalPhases
  <2>3. QED
    BY <1>0, <1>7, <1>9, <2>1, <2>2 DEF UndoCommit
<1>10. ASSUME NEW kind \in ErrorKinds, UndoFail(c, kind) PROVE TypeInv'
  <2>1. WithError(k.record, kind) \in Row
    BY <1>0, RowUpdates
  <2>2. QED
    BY <1>0, <1>7, <1>10, <2>1 DEF UndoFail
<1>11. QED
  BY <1>3, <1>4, <1>5, <1>6, <1>8, <1>9, <1>10

LEMMA RequestTypeInv ==
  ASSUME TypeInv, NEW c \in Callers, NEW j \in Journals, Request(c, j)
  PROVE  TypeInv'
<1> USE DEF history
<1>0. TypeOK /\ CallsTyped
  BY DEF TypeInv
<1>1. ASSUME NEW id \in AllIds, NEW s \in Steps \ {"idle"}, NEW k \in Call,
             k.step = s, k.id = id, s \notin RunSteps \union UndoOwnerSteps,
             s \in UndoSteps => id \in PlanIds,
             call' = [call EXCEPT ![c] = k]
      PROVE  CallsTyped'
  <2>1. Consistent(k)
    BY <1>1 DEF Consistent, RunSteps
  <2>2. QED
    BY <1>0, <1>1, <2>1, CallUpdate
<1>2. ASSUME NEW id \in Ids, NEW fp \in Fingerprints, RunStart(c, j, id, fp)
      PROVE  TypeInv'
  <2> DEFINE k == [Start(c, "run_wait", j, id) EXCEPT !.fingerprint = fp]
  <2>1. id \in AllIds /\ "run_wait" \in Steps /\ fp \in Facts
    BY DEF AllIds, Facts, Steps, WaitSteps
  <2>2. k \in Call /\ k.step = "run_wait" /\ k.id = id /\ k.fingerprint = fp
    BY <2>1, StartTyped, CallChanges
  <2>3. "run_wait" \notin UndoSteps \union UndoOwnerSteps \union RunOwnerSteps
    BY DEF UndoSteps, UndoOwnerSteps, RunOwnerSteps
  <2>4. Consistent(k)
    BY <2>1, <2>2, <2>3 DEF Consistent
  <2>5. CallsTyped'
    BY <1>0, <1>2, <2>2, <2>4, CallUpdate DEF RunStart
  <2>6. QED
    BY <1>0, <1>2, <2>5, TypeFrame DEF RunStart, TypeOK
<1>3. ASSUME NEW id \in AllIds, CancelStart(c, j, id) PROVE TypeInv'
  <2>1. "cancel_wait" \in Steps \ {"idle"}
        /\ "cancel_wait" \notin RunSteps \union UndoOwnerSteps \union UndoSteps
    BY DEF Steps, WaitSteps, RunSteps, RunOwnerSteps, UndoOwnerSteps, UndoSteps
  <2> DEFINE k == Start(c, "cancel_wait", j, id)
  <2>2. CallsTyped'
    <3>1. k \in Call /\ k.step = "cancel_wait" /\ k.id = id
      BY <2>1, StartTyped
    <3>2. call' = [call EXCEPT ![c] = k]
      BY <1>3 DEF CancelStart
    <3> HIDE DEF k
    <3>3. QED
      BY <1>1, <2>1, <3>1, <3>2
  <2>3. cancels' \in [Journals -> SUBSET AllIds]
    BY <1>0, <1>3 DEF CancelStart, TypeOK
  <2>4. QED
    BY <1>0, <1>3, <2>2, <2>3, TypeFrame DEF CancelStart, TypeOK
<1>4. ASSUME NEW id \in AllIds, NEW s \in {"prepare_wait", "undo_wait"},
             s = "undo_wait" => id \in PlanIds, UndoStart(c, s, j, id)
      PROVE  TypeInv'
  <2> DEFINE k == [Start(c, s, j, id) EXCEPT !.observed = fact]
  <2>1. s \in Steps \ {"idle"} /\ s \notin RunSteps \union UndoOwnerSteps
        /\ (s \in UndoSteps => s = "undo_wait")
    BY DEF Steps, WaitSteps, RunSteps, RunOwnerSteps, UndoOwnerSteps, UndoSteps
  <2>2. k \in Call /\ k.step = s /\ k.id = id
    BY <1>0, <2>1, StartTyped, CallChanges DEF TypeOK
  <2>3. CallsTyped'
    BY <1>1, <1>4, <2>1, <2>2 DEF UndoStart
  <2>4. QED
    BY <1>0, <1>4, <2>3, TypeFrame DEF UndoStart, TypeOK
<1>5. PlanIds \subseteq AllIds
  BY DEF AllIds
<1>6. QED
  BY <1>2, <1>3, <1>4, <1>5 DEF Request, PrepareStart, CommitStart

LEMMA AcquireTypeInv ==
  ASSUME TypeInv, NEW c \in Callers, Acquire(c)
  PROVE  TypeInv'
<1> DEFINE k == call[c]
           s == Granted[k.step]
<1> USE DEF history
<1>0. TypeOK /\ CallsTyped /\ k \in Call /\ Consistent(k)
  BY RecordsAreRows DEF TypeInv, CallsTyped
<1>1. /\ k.step \in WaitSteps /\ k.id \in AllIds
      /\ k.step \in RunSteps => k.id \in Ids /\ k.fingerprint \in Fingerprints
      /\ k.step \in UndoSteps => k.id \in PlanIds
  BY <1>0 DEF Acquire, Consistent, WaitSteps
<1>2. /\ s \in Steps /\ s \notin RunOwnerSteps \union UndoOwnerSteps
      /\ s \in RunSteps => k.step \in RunSteps
      /\ s \in UndoSteps => k.step \in UndoSteps
  BY <1>1 DEF Granted, WaitSteps, Steps, HoldSteps, RunSteps, RunOwnerSteps, UndoSteps,
              UndoOwnerSteps
<1>3. Consistent([k EXCEPT !.step = s])
  BY <1>0, <1>1, <1>2 DEF Consistent, Call
<1>4. CallsTyped'
  BY <1>2, <1>3, GotoTyped DEF Acquire
<1>5. writer' \in [Handles -> Callers \union {NoCaller}]
  BY <1>0 DEF Acquire, TypeOK
<1>6. QED
  BY <1>0, <1>4, <1>5, TypeFrame DEF Acquire, TypeOK

LEMMA MaintenanceTypeInv == TypeInv /\ Maintenance => TypeInv'
<1> SUFFICES ASSUME TypeInv, Maintenance PROVE TypeInv'
  OBVIOUS
<1> USE DEF history
<1>0. TypeOK /\ CallsTyped
  BY DEF TypeInv
<1>1. ASSUME NEW r \in Row, NEW phase \in Phases PROVE [r EXCEPT !.phase = phase] \in Row
  BY RowUpdates
<1>2. {"committed", "rolled_back", "needs_recovery"} \subseteq Phases
  BY DEF Phases, TerminalPhases
<1>3. ASSUME NEW id \in AllIds, NEW phase \in {"committed", "rolled_back"}, Resolve(id, phase)
      PROVE  TypeInv'
  <2>1. rows' = [rows EXCEPT ![id] = [rows[id] EXCEPT !.phase = phase]]
    BY <1>3 DEF Resolve
  <2>2. rows' \in [AllIds -> Row]
    BY <1>0, <1>1, <1>2, <2>1 DEF TypeOK
  <2>3. CallsTyped'
    BY <1>0, <1>3 DEF Resolve, CallsTyped
  <2>4. QED
    BY <1>0, <1>3, <2>2, <2>3, TypeFrame DEF Resolve, TypeOK
<1>4. ASSUME NEW h \in Handles, NEW id \in AllIds, HealthPrepare(h, id) PROVE TypeInv'
  <2>1. CallsTyped' /\ repairPlan' \in [Handles -> AllIds \union {NoId}]
    BY <1>0, <1>4 DEF HealthPrepare, CallsTyped, TypeOK
  <2>2. QED
    BY <1>0, <1>4, <2>1, TypeFrame DEF HealthPrepare, TypeOK
<1>5. ASSUME NEW h \in Handles, HealthCommit(h) PROVE TypeInv'
  <2>1. CallsTyped' /\ repairPlan' \in [Handles -> AllIds \union {NoId}]
    BY <1>0, <1>5 DEF HealthCommit, CallsTyped, TypeOK
  <2>2. rows' \in [AllIds -> Row]
    BY <1>0, <1>1, <1>2, <1>5 DEF HealthCommit, TypeOK
  <2>3. QED
    BY <1>0, <1>5, <2>1, <2>2, TypeFrame DEF HealthCommit, TypeOK
<1>6. QED
  BY <1>3, <1>4, <1>5 DEF Maintenance

LEMMA FailureTypeInv == TypeInv /\ Failure => TypeInv'
<1> SUFFICES ASSUME TypeInv, Failure PROVE TypeInv'
  OBVIOUS
<1> USE DEF history
<1>0. TypeOK /\ CallsTyped
  BY DEF TypeInv
<1>1. ASSUME NEW c \in Callers, Abandon(c) PROVE TypeInv'
  BY <1>0, <1>1, FinishTyped, TypeFrame DEF Abandon, TypeOK
<1>2. ASSUME NEW h \in Handles, Crash(h) PROVE TypeInv'
  <2>1. CallsTyped'
    BY <1>0, <1>2, IdleTyped DEF Crash, CallsTyped
  <2>2. /\ writer' \in [Handles -> Callers \union {NoCaller}]
        /\ cancels' \in [Journals -> SUBSET AllIds]
        /\ repairPlan' \in [Handles -> AllIds \union {NoId}]
    BY <1>0, <1>2 DEF Crash, TypeOK
  <2>3. QED
    BY <1>0, <1>2, <2>1, <2>2, TypeFrame DEF Crash, TypeOK
<1>3. ASSUME NEW value \in Facts, ExternalEdit(value) PROVE TypeInv'
  <2>1. CallsTyped'
    BY <1>0, <1>3 DEF ExternalEdit, CallsTyped
  <2>2. QED
    BY <1>0, <1>3, <2>1, TypeFrame DEF ExternalEdit, TypeOK
<1>4. QED
  BY <1>1, <1>2, <1>3 DEF Failure

LEMMA StepTypeInv == TypeInv /\ [Next]_vars => TypeInv'
<1> SUFFICES ASSUME TypeInv, [Next]_vars PROVE TypeInv'
  OBVIOUS
<1>1. CASE UNCHANGED vars
  BY <1>1 DEF vars, TypeInv, TypeOK, CallsTyped
<1>2. ASSUME NEW c \in Callers, Acquire(c) \/ Step(c) \/ ContextCheckpoint(c)
      PROVE  TypeInv'
  BY <1>2, AcquireTypeInv, RunTypeInv, CancelTypeInv, UndoTypeInv DEF Step
<1>3. ASSUME NEW c \in Callers, NEW j \in Journals, Request(c, j) PROVE TypeInv'
  BY <1>3, RequestTypeInv
<1>4. QED
  BY <1>1, <1>2, <1>3, MaintenanceTypeInv, FailureTypeInv DEF Next

\* Rows, permits, cancellation sets, calls and histories keep their types in
\* every behaviour of the journal (operation_service.rs, journal.rs).
THEOREM TypeCorrect == Spec => []TypeOK
<1>1. Spec => []TypeInv
  BY InitTypeInv, StepTypeInv, PTL DEF Spec
<1>2. TypeInv => TypeOK
  BY DEF TypeInv
<1>3. QED
  BY <1>1, <1>2, PTL

-----------------------------------------------------------------------------
(* One writer per handle                                                   *)

PermitHeld == \A c \in Callers : call[c].step \in HoldSteps => writer[Handle(c)] = c

\* A call goes on: it keeps its permit, its journal and its id.
Advance(c) ==
  /\ UNCHANGED writer
  /\ \A d \in Callers \ {c} : call'[d] = call[d]
  /\ call'[c].journal = call[c].journal /\ call'[c].id = call[c].id

\* A call holds the permit whenever it works, and then goes on or ends.
LEMMA OwnStep ==
  ASSUME TypeInv, NEW c \in Callers, Step(c) \/ ContextCheckpoint(c)
  PROVE  call[c].step \in HoldSteps /\ (Finish(c) \/ Advance(c))
<1>1. call \in [Callers -> Call] /\ call[c] \in Call
  BY DEF TypeInv, CallsTyped
<1>2. \A s \in Steps : Goto(c, s) /\ UNCHANGED writer => Advance(c)
  BY <1>1 DEF Goto, Advance, Call
<1>3. \A s, r : call' = [call EXCEPT ![c].step = s, ![c].record = r] /\ UNCHANGED writer
                  => Advance(c)
  BY <1>1 DEF Advance, Call
<1>4. {"run_insert", "run_poll", "mutated", "undo_applied"} \subseteq Steps
  BY DEF Steps, HoldSteps, RunOwnerSteps, UndoOwnerSteps
<1> USE DEF HoldSteps, RunOwnerSteps, UndoOwnerSteps
<1>5. CASE RunLookup(c)
  BY <1>2, <1>4, <1>5 DEF RunLookup, RunAnswer
<1>5a. CASE RunPoll(c)
  <2>1. call' = [call EXCEPT ![c].rereads = @ + 1] /\ UNCHANGED writer => Advance(c)
    BY <1>1 DEF Advance, Call
  <2>2. QED
    BY <1>5a, <2>1 DEF RunPoll, RunReread, RunGiveUp, RunAnswer
<1>6. CASE RunInsert(c)
  BY <1>2, <1>3, <1>4, <1>6 DEF RunInsert, RunAnswer
<1>7. CASE RunApplying(c) \/ RunReturned(c) \/ RunCommit(c)
  BY <1>3, <1>7 DEF RunApplying, RunReturned, RunCommit
<1>8. CASE MutationEffect(c)
  BY <1>2, <1>4, <1>8 DEF MutationEffect
<1>9. ASSUME NEW outcome \in {"ok"} \union ErrorKinds, MutationReturn(c, outcome)
      PROVE  call[c].step \in HoldSteps /\ Advance(c)
  BY <1>1, <1>9 DEF MutationReturn, Advance, Call
<1>10. CASE ContextCheckpoint(c)
  <2>1. PICK inverse, saved :
          call' = [call EXCEPT ![c].record = [call[c].record EXCEPT !.inverse = inverse],
                               ![c].checkpointFailed = @ \/ ~saved]
    BY <1>10 DEF ContextCheckpoint
  <2>2. call' = [call EXCEPT ![c] =
                   [call[c] EXCEPT !.record = [call[c].record EXCEPT !.inverse = inverse],
                                   !.checkpointFailed = @ \/ ~saved]]
    BY <1>1, <2>1 DEF Call
  <2>3. Advance(c)
    BY <1>1, <1>10, <2>2 DEF ContextCheckpoint, Advance, Call
  <2>4. QED
    BY <1>10, <2>3 DEF ContextCheckpoint
<1>11. CASE CancelLookup(c) \/ CancelWrite(c) \/ PrepareCheck(c)
  BY <1>3, <1>11 DEF CancelLookup, CancelWrite, PrepareCheck
<1>12. CASE UndoCheck(c) \/ UndoApplying(c) \/ UndoVerify(c) \/ UndoCommit(c)
  BY <1>3, <1>12 DEF UndoCheck, UndoApplying, UndoVerify, UndoCommit
<1>13. CASE UndoEffect(c)
  BY <1>2, <1>4, <1>13 DEF UndoEffect
<1>14. ASSUME NEW kind \in ErrorKinds, UndoFail(c, kind)
       PROVE  call[c].step \in HoldSteps /\ Finish(c)
  BY <1>14 DEF UndoFail
<1>15. QED
  BY <1>5, <1>5a, <1>6, <1>7, <1>8, <1>9, <1>10, <1>11, <1>12, <1>13, <1>14 DEF Step

\* Ending a call disturbs no other call's permit.
LEMMA FinishPermit ==
  ASSUME TypeInv, PermitHeld, NEW c \in Callers, Finish(c)
  PROVE  PermitHeld'
<1> SUFFICES ASSUME NEW d \in Callers, call'[d].step \in HoldSteps
             PROVE  writer'[HandleOf[call'[d].journal]] = d
  BY DEF PermitHeld, Handle
<1>1. call \in [Callers -> Call] /\ writer \in [Handles -> Callers \union {NoCaller}]
  BY DEF TypeInv, CallsTyped, TypeOK
<1>2. d # c
  BY <1>1, IdleTyped DEF Finish, HoldSteps, RunOwnerSteps, UndoOwnerSteps
<1>3. call'[d] = call[d] /\ writer[Handle(d)] = d /\ Handle(d) \in Handles
  BY <1>1, <1>2, ConstantsAssumption DEF Finish, PermitHeld, Handle, Call
<1>4. QED
  BY <1>1, <1>2, <1>3 DEF Finish, Handle

\* A request only puts one call in the queue for the permit.
LEMMA RequestWaits ==
  ASSUME TypeInv, NEW c \in Callers, NEW j \in Journals, Request(c, j)
  PROVE  /\ UNCHANGED writer
         /\ \A d \in Callers \ {c} : call'[d] = call[d]
         /\ call'[c].step \in WaitSteps
<1>0. call \in [Callers -> Call]
  BY DEF TypeInv, CallsTyped
<1>1. ASSUME NEW s \in WaitSteps, NEW id \in AllIds,
             \/ call' = [call EXCEPT ![c] = Start(c, s, j, id)]
             \/ \E fp \in Facts :
                  call' = [call EXCEPT ![c] = [Start(c, s, j, id) EXCEPT !.fingerprint = fp]]
             \/ call' = [call EXCEPT ![c] = [Start(c, s, j, id) EXCEPT !.observed = fact]]
      PROVE  call'[c].step \in WaitSteps /\ \A d \in Callers \ {c} : call'[d] = call[d]
  <2> DEFINE start == Start(c, s, j, id)
  <2>1. s \in Steps /\ fact \in Facts
    BY DEF Steps, TypeInv, TypeOK
  <2>2. start \in Call /\ start.step = s
    BY <2>1, StartTyped
  <2>3. /\ \A fp \in Facts : [start EXCEPT !.fingerprint = fp].step = s
        /\ [start EXCEPT !.observed = fact].step = s
    BY <2>1, <2>2, CallChanges
  <2> HIDE DEF start
  <2>4. QED
    BY <1>0, <1>1, <2>2, <2>3 DEF start
<1>2. /\ {"run_wait", "cancel_wait", "prepare_wait", "undo_wait"} \subseteq WaitSteps
      /\ Ids \subseteq AllIds /\ PlanIds \subseteq AllIds /\ Fingerprints \subseteq Facts
  BY DEF WaitSteps, AllIds, Facts
<1>3. QED
  BY <1>1, <1>2 DEF Request, RunStart, CancelStart, PrepareStart, CommitStart, UndoStart

LEMMA PermitStep == TypeInv /\ PermitHeld /\ [Next]_vars => PermitHeld'
<1> SUFFICES ASSUME TypeInv, PermitHeld, [Next]_vars PROVE PermitHeld'
  OBVIOUS
<1>0. /\ call \in [Callers -> Call] /\ writer \in [Handles -> Callers \union {NoCaller}]
      /\ \A c \in Callers : Handle(c) \in Handles /\ c # NoCaller
  BY ConstantsAssumption DEF TypeInv, CallsTyped, TypeOK, Handle, Call
<1>1. ASSUME NEW c \in Callers, Step(c) \/ ContextCheckpoint(c) PROVE PermitHeld'
  <2>1. call[c].step \in HoldSteps /\ (Finish(c) \/ Advance(c))
    BY <1>1, OwnStep
  <2>2. CASE Advance(c)
    BY <1>0, <2>1, <2>2 DEF Advance, PermitHeld, Handle
  <2>3. QED
    BY <2>1, <2>2, FinishPermit
<1>2. ASSUME NEW c \in Callers, Acquire(c) PROVE PermitHeld'
  <2>1. /\ \A d \in Callers \ {c} : call'[d] = call[d]
        /\ call'[c].journal = call[c].journal
    BY <1>0, <1>2 DEF Acquire, Goto, Call
  <2>2. writer[Handle(c)] = NoCaller /\ writer' = [writer EXCEPT ![Handle(c)] = c]
    BY <1>2 DEF Acquire
  <2>3. \A d \in Callers \ {c} : call[d].step \in HoldSteps => Handle(d) # Handle(c)
    BY <1>0, <2>2 DEF PermitHeld
  <2>4. QED
    BY <1>0, <2>1, <2>2, <2>3 DEF PermitHeld, Handle
<1>3. ASSUME NEW c \in Callers, NEW j \in Journals, Request(c, j) PROVE PermitHeld'
  <2>1. /\ UNCHANGED writer
        /\ \A d \in Callers \ {c} : call'[d] = call[d]
        /\ call'[c].step \in WaitSteps
    BY <1>3, RequestWaits
  <2>2. \A s \in WaitSteps : s \notin HoldSteps
    BY DEF WaitSteps, HoldSteps, RunOwnerSteps, UndoOwnerSteps
  <2>3. QED
    BY <1>0, <2>1, <2>2 DEF PermitHeld, Handle
<1>4. CASE UNCHANGED <<call, writer>>
  BY <1>4 DEF PermitHeld, Handle
<1>5. ASSUME Maintenance PROVE PermitHeld'
  BY <1>4, <1>5 DEF Maintenance, Resolve, HealthPrepare, HealthCommit
<1>6. ASSUME NEW h \in Handles, Crash(h) PROVE PermitHeld'
  <2>1. \A d \in Callers : call'[d].step \in HoldSteps =>
                             call'[d] = call[d] /\ Handle(d) # h
    BY <1>0, <1>6, IdleTyped DEF Crash, HoldSteps, RunOwnerSteps, UndoOwnerSteps
  <2>2. QED
    BY <1>0, <1>6, <2>1 DEF Crash, PermitHeld, Handle
<1>7. ASSUME Failure PROVE PermitHeld'
  BY <1>4, <1>6, <1>7, FinishPermit DEF Failure, Abandon, ExternalEdit
<1>8. QED
  BY <1>1, <1>2, <1>3, <1>4, <1>5, <1>7 DEF Next, vars

\* Two mutations of one Database never overlap, whatever calls, journals and
\* disturbances there are: a working call holds its Database's writer mutex and
\* is the only one that does (OperationJournal::acquire_writer).
THEOREM SingleWriter == Spec => []OneWriterPerHandle
<1>1. Init => PermitHeld
  BY IdleTyped DEF Init, PermitHeld, HoldSteps, RunOwnerSteps, UndoOwnerSteps
<1>2. Spec => [](TypeInv /\ PermitHeld)
  BY <1>1, InitTypeInv, StepTypeInv, PermitStep, PTL DEF Spec
<1>3. PermitHeld => OneWriterPerHandle
  BY DEF PermitHeld, OneWriterPerHandle
<1>4. QED
  BY <1>2, <1>3, PTL

-----------------------------------------------------------------------------
(* At most one effect                                                      *)

BeforeEffect == {"run_planned", "mutation"}

\* A claim outlives its owner, and only the owner of an unspent claim may still
\* take effect.
Once ==
  /\ \A id \in Ids : ~Exists(rows[id]) => effects[id] = 0
  /\ \A c \in Callers : call[c].step \in RunOwnerSteps => Exists(RowOf(c))
  /\ \A c, d \in Callers :
       call[c].step \in RunOwnerSteps /\ call[d].step \in RunOwnerSteps
         /\ call[c].id = call[d].id => c = d
  /\ \A c \in Callers : call[c].step \in BeforeEffect => effects[call[c].id] = 0
  /\ AtMostOneEffect

\* A step that removes no row, makes no call the owner of a claim and counts no
\* effect of a run.
RowsKept == \A id \in AllIds : Exists(rows[id]) => Exists(rows'[id])
OwnersKept ==
  \A d \in Callers : call'[d].step \in RunOwnerSteps =>
    /\ call[d].step \in RunOwnerSteps /\ call'[d].id = call[d].id
    /\ call'[d].step \in BeforeEffect => call[d].step \in BeforeEffect
EffectsKept == \A id \in Ids : effects'[id] = effects[id]

LEMMA OwnerIds ==
  ASSUME TypeInv, NEW c \in Callers, call[c].step \in RunOwnerSteps
  PROVE  call[c].id \in Ids /\ call[c].id \in AllIds
  BY DEF TypeInv, CallsTyped, Consistent, RunSteps, AllIds

LEMMA QuietStep ==
  ASSUME TypeInv, TypeInv', Once, RowsKept, OwnersKept, EffectsKept
  PROVE  Once'
<1>1. BeforeEffect \subseteq RunOwnerSteps
  BY DEF BeforeEffect, RunOwnerSteps
<1>2. \A id \in Ids : id \in AllIds
  BY DEF AllIds
<1>3. \A d \in Callers : call'[d].step \in RunOwnerSteps =>
        /\ call[d].step \in RunOwnerSteps /\ call'[d].id = call[d].id
        /\ call[d].id \in Ids /\ call[d].id \in AllIds
  BY OwnerIds DEF OwnersKept
<1>4. (\A id \in Ids : ~Exists(rows[id]) => effects[id] = 0)'
  BY <1>2 DEF Once, RowsKept, EffectsKept
<1>5. (\A c \in Callers : call[c].step \in RunOwnerSteps => Exists(RowOf(c)))'
  BY <1>3 DEF Once, RowsKept, RowOf
<1>6. (\A c, d \in Callers :
        call[c].step \in RunOwnerSteps /\ call[d].step \in RunOwnerSteps
          /\ call[c].id = call[d].id => c = d)'
  BY <1>3 DEF Once
<1>7. (\A c \in Callers : call[c].step \in BeforeEffect => effects[call[c].id] = 0)'
  BY <1>1, <1>3 DEF Once, OwnersKept, EffectsKept
<1>8. AtMostOneEffect'
  BY DEF Once, AtMostOneEffect, EffectsKept
<1>9. QED
  BY <1>4, <1>5, <1>6, <1>7, <1>8 DEF Once

LEMMA SaveKeeps ==
  ASSUME TypeInv, NEW c \in Callers, NEW r, Exists(r), Save(c, r)
  PROVE  RowsKept
<1>1. rows \in [AllIds -> Row]
  BY DEF TypeInv, TypeOK
<1>2. QED
  BY <1>1 DEF Save, RowsKept

LEMMA EndOwners ==
  ASSUME TypeInv, NEW c \in Callers, Finish(c)
  PROVE  OwnersKept
<1>1. call \in [Callers -> Call]
  BY DEF TypeInv, CallsTyped
<1>2. QED
  BY <1>1, IdleTyped DEF Finish, OwnersKept, RunOwnerSteps

\* A call moves to a step that is not a claim before its effect.
LEMMA MoveOwners ==
  ASSUME TypeInv, NEW c \in Callers, Advance(c),
         \/ call'[c].step \notin RunOwnerSteps
         \/ call[c].step \in BeforeEffect
         \/ call[c].step \in RunOwnerSteps /\ call'[c].step \notin BeforeEffect
  PROVE  OwnersKept
<1>1. BeforeEffect \subseteq RunOwnerSteps
  BY DEF BeforeEffect, RunOwnerSteps
<1>2. QED
  BY <1>1 DEF Advance, OwnersKept

\* A call claims its id: the insert of its row succeeds.
Claim(c) == RunInsert(c) /\ ~Exists(RowOf(c))

LEMMA QuietCall ==
  ASSUME TypeInv, NEW c \in Callers, Step(c) \/ ContextCheckpoint(c),
         ~Claim(c), ~MutationEffect(c)
  PROVE  RowsKept /\ OwnersKept /\ EffectsKept
<1> DEFINE k == call[c]
<1>0. /\ call \in [Callers -> Call] /\ k \in Call /\ Consistent(k) /\ k.record \in Row
      /\ Finish(c) \/ Advance(c)
  BY RecordsAreRows, OwnStep DEF TypeInv, CallsTyped
<1>1. \A phase \in Phases :
        Save(c, [k.record EXCEPT !.phase = phase]) => RowsKept
  BY <1>0, RowUpdates, SaveKeeps
<1>2. \A phase \in Phases :
        Save(c, [k.record EXCEPT !.phase = phase, !.result = TRUE]) => RowsKept
  BY <1>0, RowUpdates, SaveKeeps
<1>3. \A kind \in ErrorKinds : Save(c, WithError(k.record, kind)) => RowsKept
  BY <1>0, RowUpdates, SaveKeeps
<1>4. UNCHANGED rows => RowsKept
  BY DEF RowsKept
<1>5. UNCHANGED effects => EffectsKept
  BY DEF EffectsKept
<1>6. {"planned", "prepared", "applying", "verifying", "committed", "rolled_back"}
        \subseteq Phases /\ "decodable" \in ErrorKinds
  BY DEF Phases, Unfinished, TerminalPhases, ErrorKinds
<1>7. ASSUME NEW s, NEW r, call' = [call EXCEPT ![c].step = s, ![c].record = r]
      PROVE  call'[c].step = s
  BY <1>0, <1>7 DEF Call
<1>8. ASSUME NEW s, Goto(c, s) PROVE call'[c].step = s
  BY <1>0, <1>8 DEF Call, Goto
<1> USE DEF RunOwnerSteps, BeforeEffect
<1>9. CASE RunLookup(c)
  <2>1. OwnersKept
    <3>1. CASE Finish(c)
      BY <3>1, EndOwners
    <3>2. CASE Advance(c) /\ (Goto(c, "run_insert") \/ Goto(c, "run_poll"))
      BY <1>8, <3>2, MoveOwners
    <3>3. QED
      BY <1>0, <1>9, <3>1, <3>2 DEF RunLookup, RunAnswer
  <2>2. QED
    BY <1>4, <1>5, <1>9, <2>1 DEF RunLookup
<1>10. CASE RunPoll(c)
  <2>1. OwnersKept
    <3>1. CASE Finish(c)
      BY <3>1, EndOwners
    <3>2. CASE Advance(c) /\ call' = [call EXCEPT ![c].rereads = @ + 1]
      <4>1. call'[c].step = "run_poll"
        BY <1>0, <1>10, <3>2 DEF RunPoll, Call
      <4>2. QED
        BY <3>2, <4>1, MoveOwners
    <3>3. QED
      BY <1>0, <1>10, <3>1, <3>2 DEF RunPoll, RunReread, RunGiveUp, RunAnswer
  <2>2. QED
    BY <1>4, <1>5, <1>10, <2>1 DEF RunPoll
<1>11. CASE RunInsert(c)
  <2>1. OwnersKept
    <3>1. CASE Finish(c)
      BY <3>1, EndOwners
    <3>2. CASE Advance(c) /\ Goto(c, "run_poll")
      BY <1>8, <3>2, MoveOwners
    <3>3. QED
      BY <1>0, <1>11, <3>1, <3>2 DEF RunInsert, RunAnswer, Claim
  <2>2. UNCHANGED rows
    BY <1>11 DEF RunInsert, Claim
  <2>3. QED
    BY <1>4, <1>5, <1>11, <2>1, <2>2 DEF RunInsert
<1>12. CASE RunApplying(c)
  <2>1. Advance(c) \/ Finish(c)
    BY <1>0
  <2>2. OwnersKept
    BY <1>12, <2>1, EndOwners, MoveOwners DEF RunApplying
  <2>3. QED
    BY <1>1, <1>5, <1>6, <1>12, <2>2 DEF RunApplying
<1>13. CASE RunReturned(c)
  <2>1. OwnersKept
    <3>1. CASE Finish(c)
      BY <3>1, EndOwners
    <3>2. CASE Advance(c) /\ call'[c].step = "run_verifying"
      BY <1>13, <3>2, MoveOwners DEF RunReturned
    <3>3. QED
      BY <1>0, <1>7, <1>13, <3>1, <3>2 DEF RunReturned
  <2>2. k.outcome # "ok" => k.outcome \in ErrorKinds
    BY <1>0 DEF Call
  <2>3. QED
    BY <1>1, <1>3, <1>5, <1>6, <1>13, <2>1, <2>2 DEF RunReturned
<1>14. CASE RunCommit(c)
  BY <1>2, <1>5, <1>6, <1>14, EndOwners DEF RunCommit
<1>15. ASSUME NEW outcome \in {"ok"} \union ErrorKinds, MutationReturn(c, outcome)
       PROVE  RowsKept /\ OwnersKept /\ EffectsKept
  <2>1. call'[c].step = "run_returned"
    BY <1>0, <1>15 DEF MutationReturn, Call
  <2>2. OwnersKept
    BY <1>0, <1>15, <2>1, EndOwners, MoveOwners DEF MutationReturn
  <2>3. QED
    BY <1>4, <1>5, <1>15, <2>2 DEF MutationReturn
<1>16. CASE ContextCheckpoint(c)
  <2>1. PICK inverse \in {k.record.inverse}
                    \union (IF k.step = "mutation"
                            THEN {[preconditions |-> k.fingerprint, facts |-> fact]}
                            ELSE {}), saved \in BOOLEAN :
          /\ call' = [call EXCEPT ![c].record = [k.record EXCEPT !.inverse = inverse],
                                  ![c].checkpointFailed = @ \/ ~saved]
          /\ IF saved THEN Save(c, [k.record EXCEPT !.inverse = inverse]) ELSE UNCHANGED rows
    BY <1>16 DEF ContextCheckpoint
  <2>2. Exists([k.record EXCEPT !.inverse = inverse])
    BY <1>0, <1>16 DEF ContextCheckpoint, Consistent, Exists, Row
  <2>3. RowsKept
    BY <1>4, <2>1, <2>2, SaveKeeps
  <2>4. call' = [call EXCEPT ![c] =
                   [k EXCEPT !.record = [k.record EXCEPT !.inverse = inverse],
                             !.checkpointFailed = @ \/ ~saved]]
    BY <1>0, <2>1 DEF Call
  <2>5. call'[c].step = k.step
    BY <1>0, <2>4 DEF Call
  <2>6. OwnersKept
    BY <1>0, <1>16, <2>5, EndOwners, MoveOwners DEF ContextCheckpoint
  <2>7. QED
    BY <1>5, <1>16, <2>3, <2>6 DEF ContextCheckpoint
<1>17. CASE CancelLookup(c)
  <2>1. OwnersKept
    <3>1. CASE Finish(c)
      BY <3>1, EndOwners
    <3>2. CASE Advance(c) /\ call'[c].step = "cancel_write"
      BY <3>2, MoveOwners
    <3>3. QED
      BY <1>0, <1>7, <1>17, <3>1, <3>2 DEF CancelLookup
  <2>2. QED
    BY <1>4, <1>5, <1>17, <2>1 DEF CancelLookup
<1>18. CASE CancelWrite(c)
  BY <1>1, <1>5, <1>6, <1>18, EndOwners DEF CancelWrite
<1>19. CASE PrepareCheck(c)
  <2>1. RowsKept
    <3>1. CASE UNCHANGED rows
      BY <1>4, <3>1
    <3>2. CASE \E plan \in PlanIds :
                 rows' = [rows EXCEPT ![plan] = UndoPlanned(RowOf(c).inverse)]
      BY <3>2 DEF RowsKept, TypeInv, TypeOK, UndoPlanned, Exists
    <3>3. QED
      BY <1>19, <3>1, <3>2 DEF PrepareCheck
  <2>2. QED
    BY <1>5, <1>19, <2>1, EndOwners DEF PrepareCheck
<1>20. CASE UndoCheck(c)
  <2>1. OwnersKept
    <3>1. CASE Finish(c)
      BY <3>1, EndOwners
    <3>2. CASE Advance(c) /\ call'[c].step = "undo_begin"
      BY <3>2, MoveOwners
    <3>3. QED
      BY <1>0, <1>7, <1>20, <3>1, <3>2 DEF UndoCheck
  <2>2. QED
    BY <1>4, <1>5, <1>20, <2>1 DEF UndoCheck
<1>21. CASE UndoApplying(c)
  <2>1. call'[c].step = "undo_apply"
    BY <1>7, <1>21 DEF UndoApplying
  <2>2. OwnersKept
    BY <1>0, <2>1, EndOwners, MoveOwners
  <2>3. QED
    BY <1>1, <1>5, <1>6, <1>21, <2>2 DEF UndoApplying
<1>22. CASE UndoEffect(c)
  <2>1. call'[c].step = "undo_applied"
    BY <1>8, <1>22 DEF UndoEffect
  <2>2. OwnersKept
    BY <1>0, <2>1, EndOwners, MoveOwners
  <2>3. k.id \in PlanIds /\ k.id \notin Ids
    BY <1>0, <1>22, ConstantsAssumption DEF UndoEffect, Consistent, UndoSteps, UndoOwnerSteps
  <2>4. EffectsKept
    BY <1>22, <2>3 DEF UndoEffect, EffectsKept, TypeInv, TypeOK, AllIds
  <2>5. QED
    BY <1>4, <1>22, <2>2, <2>4 DEF UndoEffect
<1>23. CASE UndoVerify(c)
  <2>1. OwnersKept
    <3>1. CASE Finish(c)
      BY <3>1, EndOwners
    <3>2. CASE Advance(c) /\ call'[c].step = "undo_verifying"
      BY <3>2, MoveOwners
    <3>3. QED
      BY <1>0, <1>7, <1>23, <3>1, <3>2 DEF UndoVerify
  <2>2. QED
    BY <1>2, <1>3, <1>5, <1>6, <1>23, <2>1 DEF UndoVerify
<1>24. CASE UndoCommit(c)
  BY <1>1, <1>5, <1>6, <1>24, EndOwners DEF UndoCommit
<1>25. ASSUME NEW kind \in ErrorKinds, UndoFail(c, kind)
       PROVE  RowsKept /\ OwnersKept /\ EffectsKept
  BY <1>3, <1>5, <1>25, EndOwners DEF UndoFail
<1>26. QED
  BY <1>9, <1>10, <1>11, <1>12, <1>13, <1>14, <1>15, <1>16, <1>17, <1>18, <1>19, <1>20,
     <1>21, <1>22, <1>23, <1>24, <1>25 DEF Step

LEMMA ClaimOnce ==
  ASSUME TypeInv, TypeInv', Once, NEW c \in Callers, Claim(c)
  PROVE  Once'
<1> DEFINE id == call[c].id
           p == Planned(call[c].fingerprint)
<1>0. call \in [Callers -> Call] /\ rows \in [AllIds -> Row] /\ effects \in [AllIds -> Nat]
  BY DEF TypeInv, TypeOK, CallsTyped
<1>1. call[c].step = "run_insert" /\ id \in Ids /\ id \in AllIds
      /\ call[c].fingerprint \in Facts
  BY DEF Claim, RunInsert, TypeInv, CallsTyped, Consistent, RunSteps, AllIds, Facts
<1>2. /\ rows' = [rows EXCEPT ![id] = p]
      /\ call' = [call EXCEPT ![c].step = "run_planned", ![c].record = p]
      /\ effects' = effects
  BY DEF Claim, RunInsert, InFlight, Readable, Save
<1>3. Exists(p)
  BY DEF Planned, Exists
<1>4. /\ \A d \in Callers \ {c} : call'[d] = call[d]
      /\ call'[c].step = "run_planned" /\ call'[c].id = id
  BY <1>0, <1>2 DEF Call
<1>5. ~Exists(rows[id]) /\ effects[id] = 0
  BY <1>1 DEF Claim, RowOf, Once
<1>6. \A d \in Callers : call[d].step \in RunOwnerSteps => call[d].id # id /\ d # c
  BY <1>1, <1>5 DEF Once, RowOf, RunOwnerSteps
<1>7. \A i \in AllIds : Exists(rows[i]) \/ i = id => Exists(rows'[i])
  BY <1>0, <1>2, <1>3
<1>8. (\A i \in Ids : ~Exists(rows[i]) => effects[i] = 0)'
  BY <1>2, <1>7 DEF Once, AllIds
<1>9. (\A d \in Callers : call[d].step \in RunOwnerSteps => Exists(RowOf(d)))'
  BY <1>1, <1>4, <1>7, OwnerIds DEF Once, RowOf
<1>10. (\A d, e \in Callers :
         call[d].step \in RunOwnerSteps /\ call[e].step \in RunOwnerSteps
           /\ call[d].id = call[e].id => d = e)'
  BY <1>4, <1>6 DEF Once
<1>11. (\A d \in Callers : call[d].step \in BeforeEffect => effects[call[d].id] = 0)'
  BY <1>2, <1>4, <1>5 DEF Once
<1>12. AtMostOneEffect'
  BY <1>2 DEF Once, AtMostOneEffect
<1>13. QED
  BY <1>8, <1>9, <1>10, <1>11, <1>12 DEF Once

LEMMA EffectOnce ==
  ASSUME TypeInv, TypeInv', Once, NEW c \in Callers, MutationEffect(c)
  PROVE  Once'
<1> DEFINE id == call[c].id
<1>0. call \in [Callers -> Call] /\ effects \in [AllIds -> Nat]
  BY DEF TypeInv, TypeOK, CallsTyped
<1>1. call[c].step = "mutation" /\ call[c].step \in RunOwnerSteps
      /\ call[c].step \in BeforeEffect
  BY DEF MutationEffect, RunOwnerSteps, BeforeEffect
<1>2. id \in Ids /\ id \in AllIds
  BY <1>1, OwnerIds
<1>3. /\ effects' = [effects EXCEPT ![id] = effects[id] + 1]
      /\ call' = [call EXCEPT ![c].step = "mutated"] /\ rows' = rows
  BY DEF MutationEffect, Goto
<1>4. /\ \A d \in Callers \ {c} : call'[d] = call[d]
      /\ call'[c].step = "mutated" /\ call'[c].id = id
  BY <1>0, <1>3 DEF Call
<1>5. effects[id] = 0 /\ effects'[id] = 1 /\ \A i \in AllIds \ {id} : effects'[i] = effects[i]
  BY <1>0, <1>1, <1>2, <1>3 DEF Once
<1>6. Exists(rows[id])
  BY <1>1 DEF Once, RowOf
<1>7. BeforeEffect \subseteq RunOwnerSteps /\ "mutated" \in RunOwnerSteps
      /\ "mutated" \notin BeforeEffect
  BY DEF BeforeEffect, RunOwnerSteps
<1>8. \A d \in Callers \ {c} : call[d].step \in RunOwnerSteps => call[d].id # id
  BY <1>1 DEF Once
<1>9. (\A i \in Ids : ~Exists(rows[i]) => effects[i] = 0)'
  BY <1>3, <1>5, <1>6 DEF Once, AllIds
<1>10. (\A d \in Callers : call[d].step \in RunOwnerSteps => Exists(RowOf(d)))'
  BY <1>3, <1>4, <1>6 DEF Once, RowOf
<1>11. (\A d, e \in Callers :
         call[d].step \in RunOwnerSteps /\ call[e].step \in RunOwnerSteps
           /\ call[d].id = call[e].id => d = e)'
  BY <1>4, <1>8 DEF Once
<1>12. (\A d \in Callers : call[d].step \in BeforeEffect => effects[call[d].id] = 0)'
  BY <1>4, <1>5, <1>7, <1>8, OwnerIds DEF Once
<1>13. AtMostOneEffect'
  BY <1>5 DEF Once, AtMostOneEffect, AllIds
<1>14. QED
  BY <1>9, <1>10, <1>11, <1>12, <1>13 DEF Once

LEMMA OnceStep == TypeInv /\ Once /\ [Next]_vars => Once'
<1> SUFFICES ASSUME TypeInv, Once, [Next]_vars PROVE Once'
  OBVIOUS
<1>0. TypeInv' /\ call \in [Callers -> Call] /\ rows \in [AllIds -> Row]
  BY StepTypeInv DEF TypeInv, CallsTyped, TypeOK
<1>1. ASSUME NEW c \in Callers, Step(c) \/ ContextCheckpoint(c) PROVE Once'
  BY <1>0, <1>1, QuietCall, QuietStep, ClaimOnce, EffectOnce
<1>2. UNCHANGED rows => RowsKept
  BY DEF RowsKept
<1>3. UNCHANGED effects => EffectsKept
  BY DEF EffectsKept
<1>4. (\A d \in Callers : call'[d] = call[d] \/ call'[d].step \notin RunOwnerSteps)
        => OwnersKept
  BY DEF OwnersKept
<1>5. ASSUME NEW c \in Callers, Acquire(c) PROVE Once'
  <2>1. Granted[call[c].step] \notin RunOwnerSteps
    BY <1>5 DEF Acquire, Granted, WaitSteps, RunOwnerSteps
  <2>2. \A d \in Callers : call'[d] = call[d] \/ call'[d].step \notin RunOwnerSteps
    BY <1>0, <1>5, <2>1 DEF Acquire, Goto, Call
  <2>3. QED
    BY <1>0, <1>2, <1>3, <1>4, <1>5, <2>2, QuietStep DEF Acquire
<1>6. ASSUME NEW c \in Callers, NEW j \in Journals, Request(c, j) PROVE Once'
  <2>1. \A d \in Callers \ {c} : call'[d] = call[d]
    BY <1>6, RequestWaits
  <2>2. call'[c].step \in WaitSteps
    BY <1>6, RequestWaits
  <2>3. call'[c].step \notin RunOwnerSteps
    BY <2>2 DEF WaitSteps, RunOwnerSteps
  <2>4. UNCHANGED rows /\ UNCHANGED effects
    BY <1>6 DEF Request, RunStart, CancelStart, PrepareStart, CommitStart, UndoStart
  <2>5. QED
    BY <1>0, <1>2, <1>3, <1>4, <2>1, <2>3, <2>4, QuietStep
<1>7. ASSUME Maintenance PROVE Once'
  <2>1. UNCHANGED effects /\ UNCHANGED call
    BY <1>7 DEF Maintenance, Resolve, HealthPrepare, HealthCommit
  <2>2. RowsKept
    <3>1. ASSUME NEW id \in AllIds, NEW phase \in {"committed", "rolled_back"},
                 Resolve(id, phase)
          PROVE  RowsKept
      BY <1>0, <3>1 DEF Resolve, RowsKept, Exists, Row
    <3>2. ASSUME NEW h \in Handles, HealthCommit(h) PROVE RowsKept
      BY <1>0, <3>2 DEF HealthCommit, RowsKept, Exists, Row
    <3>3. QED
      BY <1>2, <1>7, <3>1, <3>2 DEF Maintenance, HealthPrepare
  <2>3. QED
    BY <1>0, <1>3, <1>4, <2>1, <2>2, QuietStep
<1>8. ASSUME Failure PROVE Once'
  <2>1. UNCHANGED rows /\ UNCHANGED effects
    BY <1>8 DEF Failure, Abandon, Crash, ExternalEdit
  <2>2. OwnersKept
    <3>1. ASSUME NEW c \in Callers, Abandon(c) PROVE OwnersKept
      BY <3>1, EndOwners DEF Abandon
    <3>2. ASSUME NEW h \in Handles, Crash(h) PROVE OwnersKept
      BY <1>0, <1>4, <3>2, IdleTyped DEF Crash, RunOwnerSteps
    <3>3. QED
      BY <1>4, <1>8, <3>1, <3>2 DEF Failure, ExternalEdit
  <2>3. QED
    BY <1>0, <1>2, <1>3, <2>1, <2>2, QuietStep
<1>9. CASE UNCHANGED vars
  BY <1>0, <1>2, <1>3, <1>4, <1>9, QuietStep DEF vars
<1>10. QED
  BY <1>1, <1>5, <1>6, <1>7, <1>8, <1>9 DEF Next

\* Retries, processes, crashes, repairs and resolutions notwithstanding, the
\* mutation of one operation id takes effect at most once
\* (OperationService::run and the primary key of `operations`).
THEOREM EffectAtMostOnce == Spec => []AtMostOneEffect
<1>1. Init => Once
  BY IdleTyped DEF Init, Once, AtMostOneEffect, AllIds, RunOwnerSteps, BeforeEffect
<1>2. Spec => [](TypeInv /\ Once)
  BY <1>1, InitTypeInv, StepTypeInv, OnceStep, PTL DEF Spec
<1>3. Once => AtMostOneEffect
  BY DEF Once
<1>4. QED
  BY <1>2, <1>3, PTL
=============================================================================
