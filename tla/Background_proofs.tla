------------------------- MODULE Background_proofs --------------------------
(***************************************************************************)
(* Theorems about the components of run background: the reconciliation     *)
(* under its Redis lock, the export of a table, the broadcast of alerts,   *)
(* the federation of event streams and the commitments of reserves. Each   *)
(* part is about one component and uses nothing of the others; the last    *)
(* part puts them together.                                                *)
(***************************************************************************)
EXTENDS BackgroundMC, FiniteSetTheorems, FunctionTheorems, SequenceTheorems,
        WellFoundedInduction, TLAPS

-----------------------------------------------------------------------------
(***************************************************************************)
(* The reconciliation job: any number of runs and workers, any execution   *)
(* times, any lapses of the lock.                                          *)
(***************************************************************************)

RunState == [pc : {"waiting", "skipped", "completed", "failed"} \cup Under,
             attempts : 0..MaxRunAttempts, stalls : 0..2, outcome : Outcomes]

RunStatus == [execution : Hourly \X Nat, status : Outcomes \cup {"running"}]

\* A job that may still throw or stall has an attempt and a stall left.
AttemptsLeft ==
  \A j \in Hourly : run[j].pc \in {"waiting"} \cup Under =>
    run[j].attempts < MaxRunAttempts /\ run[j].stalls <= 1

RunInv == ReconciliationTypeOK /\ AttemptsLeft

LEMMA ExecutionType ==
  ASSUME ReconciliationTypeOK, NEW j \in Hourly
  PROVE  /\ Execution(j) \in Hourly \X Nat
         /\ \A k \in Hourly : k # j => Execution(k) # Execution(j)
<1>1. run[j].attempts \in Nat /\ run[j].stalls \in Nat
  BY ReconciliationAssumption DEF ReconciliationTypeOK
<1> QED BY <1>1 DEF Execution

\* A record is what its fields are.
LEMMA OnlyRecord ==
  ASSUME NEW p, NEW a, NEW s, NEW o,
         NEW q \in [pc : {p}, attempts : {a}, stalls : {s}, outcome : {o}]
  PROVE  q = [pc |-> p, attempts |-> a, stalls |-> s, outcome |-> o]
OBVIOUS

\* What a step that sets two fields of a job leaves of it.
LEMMA AfterThrow ==
  ASSUME NEW r \in RunState, NEW attempts, NEW pc
  PROVE  [r EXCEPT !.attempts = attempts, !.pc = pc]
           = [pc |-> pc, attempts |-> attempts, stalls |-> r.stalls, outcome |-> r.outcome]
<1>1. [r EXCEPT !.attempts = attempts, !.pc = pc]
        \in [pc : {pc}, attempts : {attempts}, stalls : {r.stalls}, outcome : {r.outcome}]
  BY DEF RunState
<1> QED BY <1>1, OnlyRecord

LEMMA AfterStall ==
  ASSUME NEW r \in RunState, NEW stalls, NEW pc
  PROVE  [r EXCEPT !.stalls = stalls, !.pc = pc]
           = [pc |-> pc, attempts |-> r.attempts, stalls |-> stalls, outcome |-> r.outcome]
<1>1. [r EXCEPT !.stalls = stalls, !.pc = pc]
        \in [pc : {pc}, attempts : {r.attempts}, stalls : {stalls}, outcome : {r.outcome}]
  BY DEF RunState
<1> QED BY <1>1, OnlyRecord

LEMMA AfterOutcome ==
  ASSUME NEW r \in RunState, NEW outcome, NEW pc
  PROVE  [r EXCEPT !.pc = pc, !.outcome = outcome]
           = [pc |-> pc, attempts |-> r.attempts, stalls |-> r.stalls, outcome |-> outcome]
<1>1. [r EXCEPT !.pc = pc, !.outcome = outcome]
        \in [pc : {pc}, attempts : {r.attempts}, stalls : {r.stalls}, outcome : {outcome}]
  BY DEF RunState
<1> QED BY <1>1, OnlyRecord

LEMMA RunInit == ReconciliationInit => RunInv
<1> SUFFICES ASSUME ReconciliationInit PROVE RunInv
  OBVIOUS
<1>1. /\ 0 \in 0 .. MaxRunAttempts /\ 0 < MaxRunAttempts
      /\ 0 \in 0 .. MaxExpiries /\ 0 \in 0 .. MaxRunFaults /\ 0 \in 0 .. MaxJobDeaths
  BY ReconciliationAssumption
<1> QED BY <1>1 DEF ReconciliationInit, RunInv, ReconciliationTypeOK, AttemptsLeft,
                    Outcomes, Under

\* What each step does to the job, in as much as types and attempts go.
LEMMA ThrowsType ==
  ASSUME RunInv, NEW j \in Hourly, run[j].pc \in {"waiting"} \cup Under, RunThrows(j)
  PROVE  /\ run' \in [Hourly -> RunState]
         /\ AttemptsLeft'
<1> DEFINE next == [pc |-> IF run[j].attempts + 1 < MaxRunAttempts THEN "waiting" ELSE "failed",
                   attempts |-> run[j].attempts + 1, stalls |-> run[j].stalls,
                   outcome |-> run[j].outcome]
<1>2. /\ run \in [Hourly -> RunState]
      /\ run[j] \in RunState /\ run[j].attempts < MaxRunAttempts /\ run[j].stalls <= 1
  BY DEF RunInv, ReconciliationTypeOK, AttemptsLeft, RunState
<1>1. run' = [run EXCEPT ![j] = next]
  <2>1. [run[j] EXCEPT !.attempts = run[j].attempts + 1,
                       !.pc = IF run[j].attempts + 1 < MaxRunAttempts THEN "waiting" ELSE "failed"]
          = next
    BY <1>2, AfterThrow
  <2> QED BY <2>1 DEF RunThrows
<1>4. /\ run[j].attempts + 1 \in 0..MaxRunAttempts
      /\ run[j].stalls \in 0..2 /\ run[j].outcome \in Outcomes
  BY <1>2, ReconciliationAssumption DEF RunState
<1>5. next.pc \in {"waiting", "failed"}
      /\ (next.pc = "waiting" => next.attempts < MaxRunAttempts)
  OBVIOUS
<1>6. next \in RunState
  BY <1>4, <1>5 DEF RunState
<1>3. next \in RunState /\ next.stalls <= 1
      /\ (next.pc = "waiting" => next.attempts < MaxRunAttempts) /\ next.pc \notin Under
  BY <1>2, <1>5, <1>6 DEF Under
<1> HIDE DEF next
<1> QED BY <1>1, <1>3 DEF RunInv, ReconciliationTypeOK, AttemptsLeft, RunState

LEMMA GoesType ==
  ASSUME RunInv, NEW j \in Hourly, run[j].pc \in {"waiting"} \cup Under,
         NEW pc \in {"skipped", "completed", "failed"} \cup Under,
         NEW outcome \in Outcomes,
         run' = [run EXCEPT ![j] = [run[j] EXCEPT !.pc = pc, !.outcome = outcome]]
  PROVE  /\ run' \in [Hourly -> RunState]
         /\ AttemptsLeft'
BY DEF RunInv, ReconciliationTypeOK, AttemptsLeft, RunState

LEMMA RunStep == RunInv /\ [ReconciliationNext]_reconciliationVars => RunInv'
<1> SUFFICES ASSUME RunInv, [ReconciliationNext]_reconciliationVars
             PROVE  RunInv'
  OBVIOUS
<1>1. /\ run \in [Hourly -> RunState] /\ lock \in (Hourly \X Nat) \cup {NoLock}
      /\ runs \subseteq RunStatus /\ lapsed \subseteq Hourly \X Nat
      /\ abandoned \subseteq Hourly \X Nat /\ expiries \in 0..MaxExpiries
      /\ runFaults \in 0..MaxRunFaults /\ jobDeaths \in 0..MaxJobDeaths
  BY DEF RunInv, ReconciliationTypeOK, RunState, RunStatus
<1>2. Faulty => runFaults' \in 0..MaxRunFaults
  BY <1>1, ReconciliationAssumption DEF Faulty
<1> DEFINE Kept == /\ run' \in [Hourly -> RunState] /\ AttemptsLeft'
                   /\ lock' \in (Hourly \X Nat) \cup {NoLock}
                   /\ runs' \subseteq RunStatus /\ lapsed' \subseteq Hourly \X Nat
                   /\ abandoned' \subseteq Hourly \X Nat /\ expiries' \in 0..MaxExpiries
                   /\ runFaults' \in 0..MaxRunFaults /\ jobDeaths' \in 0..MaxJobDeaths
<1> SUFFICES Kept
  BY DEF RunInv, ReconciliationTypeOK, RunState, RunStatus
<1>3. ASSUME NEW j \in Hourly,
             \/ AcquireLock(j) \/ StartRun(j) \/ VerifySupply(j) \/ FinishRun(j)
             \/ FailRun(j) \/ ReleaseLock(j)
      PROVE  Kept
  <2>1. Execution(j) \in Hourly \X Nat
    BY ExecutionType DEF RunInv
  <2>2. run[j] \in RunState /\ run[j].outcome \in Outcomes
    BY <1>1 DEF RunState
  <2>3. CASE AcquireLock(j)
    <3>1. run[j].pc = "waiting" /\ UNCHANGED <<runs, expiries, jobDeaths, lapsed>>
      BY <2>3 DEF AcquireLock
    <3>2. run' \in [Hourly -> RunState] /\ AttemptsLeft'
      <4>1. ASSUME NEW pc \in {"start", "skipped"}, run' = [run EXCEPT ![j].pc = pc]
            PROVE  run' \in [Hourly -> RunState] /\ AttemptsLeft'
        BY <4>1, <3>1, <1>1 DEF RunInv, AttemptsLeft, RunState, Under
      <4> QED BY <2>3, <3>1, <4>1, ThrowsType DEF AcquireLock
    <3>3. /\ lock' \in (Hourly \X Nat) \cup {NoLock}
          /\ abandoned' \subseteq Hourly \X Nat /\ runFaults' \in 0..MaxRunFaults
      BY <2>3, <2>1, <1>1, <1>2 DEF AcquireLock, Abandons
    <3> QED BY <3>1, <3>2, <3>3, <1>1
  <2>4. CASE StartRun(j)
    <3>1. run[j].pc = "start" /\ UNCHANGED <<lock, expiries, jobDeaths, lapsed>>
      BY <2>4 DEF StartRun
    <3>2. run' \in [Hourly -> RunState] /\ AttemptsLeft'
      <4>1. ASSUME run' = [run EXCEPT ![j].pc = "verify"]
            PROVE  run' \in [Hourly -> RunState] /\ AttemptsLeft'
        BY <4>1, <3>1, <1>1 DEF RunInv, AttemptsLeft, RunState, Under
      <4> QED BY <2>4, <3>1, <4>1, ThrowsType DEF StartRun, Under
    <3>3. /\ runs' \subseteq RunStatus
          /\ abandoned' \subseteq Hourly \X Nat /\ runFaults' \in 0..MaxRunFaults
      BY <2>4, <2>1, <1>1, <1>2 DEF StartRun, Abandons, RunStatus
    <3> QED BY <3>1, <3>2, <3>3, <1>1
  <2>5. CASE VerifySupply(j)
    <3>1. run' \in [Hourly -> RunState] /\ AttemptsLeft'
      <4>1. PICK pc \in {"finish", "fail"}, outcome \in Outcomes :
              run' = [run EXCEPT ![j] = [run[j] EXCEPT !.pc = pc, !.outcome = outcome]]
        BY <2>5, <2>2, <1>1 DEF VerifySupply, RunState
      <4> QED BY <2>5, <4>1, GoesType DEF VerifySupply, Under
    <3> QED BY <2>5, <3>1, <1>1, <1>2 DEF VerifySupply
  <2>6. CASE FinishRun(j)
    <3>1. run' \in [Hourly -> RunState] /\ AttemptsLeft'
      <4>1. PICK pc \in {"release", "fail"} : run' = [run EXCEPT ![j].pc = pc]
        BY <2>6 DEF FinishRun
      <4> QED BY <2>6, <4>1, <1>1 DEF FinishRun, RunInv, AttemptsLeft, RunState, Under
    <3> QED BY <2>6, <2>1, <2>2, <3>1, <1>1, <1>2 DEF FinishRun, SetStatus, RunStatus
  <2>7. CASE FailRun(j)
    <3>1. run' \in [Hourly -> RunState] /\ AttemptsLeft'
      BY <2>7, <1>1 DEF FailRun, RunInv, AttemptsLeft, RunState, Under
    <3> QED BY <2>7, <2>1, <3>1, <1>1, <1>2
            DEF FailRun, SetStatus, RunStatus, Abandons, Outcomes
  <2>8. CASE ReleaseLock(j)
    <3>1. run' \in [Hourly -> RunState] /\ AttemptsLeft'
      <4>1. CASE run[j].pc = "release"
        BY <2>8, <4>1, <1>1 DEF ReleaseLock, RunInv, AttemptsLeft, RunState, Under
      <4>2. CASE run[j].pc = "rethrow"
        BY <2>8, <4>2, ThrowsType DEF ReleaseLock, Under
      <4> QED BY <2>8, <4>1, <4>2 DEF ReleaseLock
    <3> QED BY <2>8, <2>1, <3>1, <1>1, <1>2 DEF ReleaseLock, ReleasedLock, Abandons
  <2> QED BY <1>3, <2>3, <2>4, <2>5, <2>6, <2>7, <2>8
<1>4. ASSUME NEW j \in Hourly, JobDies(j)
      PROVE  Kept
  <2> DEFINE next == [pc |-> IF run[j].stalls = 0 THEN "waiting" ELSE "failed",
                     attempts |-> run[j].attempts, stalls |-> run[j].stalls + 1,
                     outcome |-> run[j].outcome]
  <2>9. [run[j] EXCEPT !.stalls = run[j].stalls + 1,
                       !.pc = IF run[j].stalls = 0 THEN "waiting" ELSE "failed"] = next
    BY <1>1, AfterStall
  <2>1. run' = [run EXCEPT ![j] = next] /\ run[j].pc \in Under
    BY <1>4, <2>9 DEF JobDies, Executing
  <2>2. run[j] \in RunState /\ run[j].attempts < MaxRunAttempts /\ run[j].stalls <= 1
    BY <1>1, <2>1 DEF RunInv, AttemptsLeft
  <2>6. /\ run[j].attempts \in 0..MaxRunAttempts
        /\ run[j].stalls + 1 \in 0..2 /\ run[j].outcome \in Outcomes
    BY <2>2 DEF RunState
  <2>7. next.pc \in {"waiting", "failed"} /\ (next.pc = "waiting" => next.stalls <= 1)
    OBVIOUS
  <2>8. next \in RunState
    BY <2>6, <2>7 DEF RunState
  <2>3. /\ next \in RunState /\ next.pc \notin Under
        /\ next.pc = "waiting" => next.attempts < MaxRunAttempts /\ next.stalls <= 1
    BY <2>2, <2>7, <2>8 DEF Under
  <2> HIDE DEF next
  <2>4. run' \in [Hourly -> RunState] /\ AttemptsLeft'
    BY <2>1, <2>3, <1>1 DEF RunInv, AttemptsLeft
  <2>5. jobDeaths' \in 0..MaxJobDeaths
    BY <1>4, <1>1, ReconciliationAssumption DEF JobDies
  <2> QED BY <1>4, <1>1, <2>4, <2>5, ExecutionType DEF JobDies, Abandons, RunInv
<1>5. CASE LockExpires
  <2>1. expiries' \in 0..MaxExpiries
    BY <1>5, <1>1, ReconciliationAssumption DEF LockExpires
  <2> QED BY <1>5, <1>1, <2>1 DEF LockExpires, RunInv, AttemptsLeft
<1>6. CASE UNCHANGED reconciliationVars
  BY <1>6, <1>1 DEF reconciliationVars, RunInv, AttemptsLeft
<1> QED BY <1>3, <1>4, <1>5, <1>6 DEF ReconciliationNext

\* Whoever is under way has the lock, or it expired under him.
HoldsOrLapsed == \A j \in Executing : lock = Execution(j) \/ Execution(j) \in lapsed

\* The status of a run that is about to release the lock has been written, or
\* could not be.
StatusWritten ==
  \A j \in Hourly, r \in runs : r.execution = Execution(j) /\ r.status = "running" =>
    /\ run[j].pc # "release"
    /\ run[j].pc = "rethrow" => Execution(j) \in abandoned

StoryInv == RunInv /\ HoldsOrLapsed /\ StatusWritten /\ LockHasHolder /\ RunningIsUnderWay


\* An execution that ends has its job waiting for another, or ended.
LEMMA ThrowsExecution ==
  ASSUME RunInv, NEW j \in Hourly, run[j].pc \in {"waiting"} \cup Under, RunThrows(j)
  PROVE  /\ run'[j].pc \notin Under
         /\ \A k \in Hourly : k # j => run'[k] = run[k]
BY DEF RunThrows, Under, RunInv, ReconciliationTypeOK

LEMMA StoryStep ==
  StoryInv /\ [ReconciliationNext]_reconciliationVars
    => HoldsOrLapsed' /\ StatusWritten' /\ LockHasHolder' /\ RunningIsUnderWay'
<1> SUFFICES ASSUME StoryInv, [ReconciliationNext]_reconciliationVars
             PROVE  HoldsOrLapsed' /\ StatusWritten' /\ LockHasHolder' /\ RunningIsUnderWay'
  OBVIOUS
<1> USE DEF StoryInv, HoldsOrLapsed, StatusWritten, LockHasHolder, RunningIsUnderWay, Executing
<1> DEFINE Kept == HoldsOrLapsed' /\ StatusWritten' /\ LockHasHolder' /\ RunningIsUnderWay'
           Same(k) == run'[k] = run[k] /\ Execution(k)' = Execution(k)
<1>1. \A j \in Hourly : /\ Execution(j) \in Hourly \X Nat /\ Execution(j) # NoLock
                        /\ \A k \in Hourly : k # j => Execution(k) # Execution(j)
  BY ExecutionType, ReconciliationAssumption DEF RunInv
<1>2. run \in [Hourly -> RunState]
  BY DEF RunInv, ReconciliationTypeOK, RunState
\* A step of one job leaves the executions of the others alone.
<1>3. ASSUME NEW j \in Hourly, NEW next, run' = [run EXCEPT ![j] = next]
      PROVE  \A k \in Hourly : k # j => Same(k)
  BY <1>2, <1>3 DEF Execution
\* A step that only moves the job on leaves its execution alone.
<1>4. ASSUME NEW j \in Hourly, NEW pc, run' = [run EXCEPT ![j].pc = pc]
      PROVE  /\ Execution(j)' = Execution(j) /\ run'[j].pc = pc
             /\ \A k \in Hourly : k # j => Same(k)
  BY <1>2, <1>4 DEF Execution, RunState
\* A job that throws has left its execution.
<1>5. ASSUME NEW j \in Hourly, run[j].pc \in {"waiting"} \cup Under, RunThrows(j)
      PROVE  run'[j].pc \notin Under /\ \A k \in Hourly : k # j => Same(k)
  BY <1>5, ThrowsExecution DEF Execution
<1>6. ASSUME NEW j \in Hourly, AcquireLock(j)
      PROVE  Kept
  <2>1. run[j].pc = "waiting" /\ UNCHANGED <<runs, lapsed>>
    BY <1>6 DEF AcquireLock
  <2>2. CASE lock = NoLock /\ lock' = Execution(j) /\ run' = [run EXCEPT ![j].pc = "start"]
             /\ UNCHANGED <<runFaults, abandoned>>
    <3>1. /\ Execution(j)' = Execution(j) /\ run'[j].pc = "start"
          /\ \A k \in Hourly : k # j => Same(k)
      BY <2>2, <1>4
    <3>2. HoldsOrLapsed' /\ LockHasHolder'
      BY <2>1, <2>2, <3>1, <1>1 DEF Under
    <3>3. StatusWritten' /\ RunningIsUnderWay'
      BY <2>1, <2>2, <3>1, <1>1 DEF Under
    <3> QED BY <3>2, <3>3
  <2>3. CASE lock # NoLock /\ run' = [run EXCEPT ![j].pc = "skipped"]
             /\ UNCHANGED <<lock, runFaults, abandoned>>
    <3>1. /\ Execution(j)' = Execution(j) /\ run'[j].pc = "skipped"
          /\ \A k \in Hourly : k # j => Same(k)
      BY <2>3, <1>4
    <3>2. HoldsOrLapsed' /\ LockHasHolder'
      BY <2>1, <2>3, <3>1, <1>1 DEF Under
    <3>3. StatusWritten' /\ RunningIsUnderWay'
      BY <2>1, <2>3, <3>1, <1>1 DEF Under
    <3> QED BY <3>2, <3>3
  <2>4. CASE Faulty /\ RunThrows(j) /\ Abandons(j)
             /\ lock' \in {lock, IF lock = NoLock THEN Execution(j) ELSE lock}
    BY <2>1, <2>4, <1>1, <1>5 DEF Under, Abandons
  <2> QED BY <1>6, <2>2, <2>3, <2>4 DEF AcquireLock
<1>7. ASSUME NEW j \in Hourly, StartRun(j)
      PROVE  Kept
  <2>1. run[j].pc = "start" /\ UNCHANGED <<lock, lapsed>>
    BY <1>7 DEF StartRun
  <2>2. CASE /\ runs' = runs \cup {[execution |-> Execution(j), status |-> "running"]}
             /\ run' = [run EXCEPT ![j].pc = "verify"]
             /\ UNCHANGED <<runFaults, abandoned>>
    <3>1. /\ Execution(j)' = Execution(j) /\ run'[j].pc = "verify"
          /\ \A k \in Hourly : k # j => Same(k)
      BY <2>2, <1>4
    <3>2. HoldsOrLapsed' /\ LockHasHolder'
      BY <2>1, <2>2, <3>1, <1>1 DEF Under
    <3>3. StatusWritten' /\ RunningIsUnderWay'
      BY <2>1, <2>2, <3>1, <1>1 DEF Under
    <3> QED BY <3>2, <3>3
  <2>3. CASE Faulty /\ RunThrows(j) /\ Abandons(j) /\ UNCHANGED runs
    BY <2>1, <2>3, <1>1, <1>5 DEF Under, Abandons
  <2> QED BY <1>7, <2>2, <2>3 DEF StartRun
<1>8. ASSUME NEW j \in Hourly, VerifySupply(j)
      PROVE  Kept
  <2>4. /\ run[j].pc = "verify" /\ run'[j].pc \in {"finish", "fail"}
        /\ Execution(j)' = Execution(j)
        /\ UNCHANGED <<lock, runs, lapsed, abandoned>>
    <3>1. run[j].pc = "verify" /\ UNCHANGED <<lock, runs, lapsed, abandoned>>
      BY <1>8 DEF VerifySupply
    <3>2. run'[j].pc \in {"finish", "fail"} /\ run'[j].attempts = run[j].attempts
          /\ run'[j].stalls = run[j].stalls
      <4>1. ASSUME NEW outcome \in Outcomes,
                   run' = [run EXCEPT ![j] = [run[j] EXCEPT !.pc = "finish", !.outcome = outcome]]
            PROVE  run'[j].pc = "finish" /\ run'[j].attempts = run[j].attempts
                   /\ run'[j].stalls = run[j].stalls
        <5>1. run'[j] = [run[j] EXCEPT !.pc = "finish", !.outcome = outcome]
          BY <4>1, <1>2
        <5>2. run[j] \in RunState
          BY <1>2
        <5>3. run'[j] = [pc |-> "finish", attempts |-> run[j].attempts,
                         stalls |-> run[j].stalls, outcome |-> outcome]
          BY <5>1, <5>2, AfterOutcome
        <5> QED BY <5>3
      <4>2. ASSUME run' = [run EXCEPT ![j].pc = "fail"]
            PROVE  run'[j].pc = "fail" /\ run'[j].attempts = run[j].attempts
                   /\ run'[j].stalls = run[j].stalls
        BY <4>2, <1>2 DEF RunState
      <4> QED BY <1>8, <4>1, <4>2 DEF VerifySupply
    <3> QED BY <3>1, <3>2 DEF Execution
  <2>5. \A k \in Hourly : k # j => Same(k)
    BY <1>8, <1>3 DEF VerifySupply
  <2>1. /\ run[j].pc = "verify" /\ run'[j].pc \in {"finish", "fail"}
        /\ Execution(j)' = Execution(j) /\ \A k \in Hourly : k # j => Same(k)
        /\ UNCHANGED <<lock, runs, lapsed, abandoned>>
    BY <2>4, <2>5
  <2>2. HoldsOrLapsed' /\ LockHasHolder'
    BY <2>1, <1>1 DEF Under
  <2>3. StatusWritten' /\ RunningIsUnderWay'
    BY <2>1, <1>1 DEF Under
  <2> QED BY <2>2, <2>3
<1>9. ASSUME NEW j \in Hourly, FinishRun(j)
      PROVE  Kept
  <2>1. run[j].pc = "finish" /\ UNCHANGED <<lock, lapsed, abandoned>>
        /\ Execution(j)' = Execution(j) /\ \A k \in Hourly : k # j => Same(k)
    BY <1>9, <1>4 DEF FinishRun
  <2>2. run[j].outcome # "running"
    BY <1>2 DEF RunState, Outcomes
  <2>3. CASE SetStatus(j, run[j].outcome) /\ run'[j].pc = "release"
    <3>1. \A r \in runs' : r.status = "running" => r \in runs /\ r.execution # Execution(j)
      BY <2>2, <2>3 DEF SetStatus
    <3> QED BY <2>1, <2>3, <3>1, <1>1 DEF Under
  <2>4. CASE run'[j].pc = "fail" /\ UNCHANGED runs
    BY <2>1, <2>4, <1>1 DEF Under
  <2> QED BY <1>9, <1>4, <2>3, <2>4 DEF FinishRun
<1>10. ASSUME NEW j \in Hourly, FailRun(j)
       PROVE  Kept
  <2>1. run[j].pc = "fail" /\ run'[j].pc = "rethrow" /\ UNCHANGED <<lock, lapsed>>
        /\ Execution(j)' = Execution(j) /\ \A k \in Hourly : k # j => Same(k)
    BY <1>10, <1>4 DEF FailRun
  <2>2. CASE SetStatus(j, "failed") /\ UNCHANGED abandoned
    <3>1. \A r \in runs' : r.status = "running" => r \in runs /\ r.execution # Execution(j)
      BY <2>2 DEF SetStatus
    <3> QED BY <2>1, <2>2, <3>1, <1>1 DEF Under
  <2>3. CASE Abandons(j) /\ UNCHANGED runs
    BY <2>1, <2>3, <1>1 DEF Under, Abandons
  <2> QED BY <1>10, <2>2, <2>3 DEF FailRun
<1>11. ASSUME NEW j \in Hourly, ReleaseLock(j)
       PROVE  Kept
  <2>1. run[j].pc \in {"release", "rethrow"} /\ UNCHANGED <<runs, lapsed>>
    BY <1>11 DEF ReleaseLock
  <2>2. run'[j].pc \notin Under /\ \A k \in Hourly : k # j => Same(k)
    BY <1>11, <2>1, <1>4, <1>5 DEF ReleaseLock, Under
  <2>3. \/ lock' = ReleasedLock(j) /\ UNCHANGED abandoned
        \/ Abandons(j) /\ UNCHANGED lock
    BY <1>11 DEF ReleaseLock
  <2>4. HoldsOrLapsed' /\ LockHasHolder'
    BY <2>1, <2>2, <2>3, <1>1 DEF Under, Abandons, ReleasedLock
  <2>5. StatusWritten' /\ RunningIsUnderWay'
    BY <2>1, <2>2, <2>3, <1>1 DEF Under, Abandons
  <2> QED BY <2>4, <2>5
<1>12. CASE LockExpires
  BY <1>12, <1>1 DEF LockExpires, Execution
<1>13. ASSUME NEW j \in Hourly, JobDies(j)
       PROVE  Kept
  <2>1. /\ run[j].pc \in Under /\ UNCHANGED <<lock, runs, lapsed>> /\ Abandons(j)
        /\ run'[j].pc \notin Under /\ \A k \in Hourly : k # j => Same(k)
    BY <1>13, <1>2 DEF JobDies, Under, RunState, Execution
  <2> QED BY <2>1, <1>1 DEF Abandons, Under
<1>14. CASE UNCHANGED reconciliationVars
  BY <1>14 DEF reconciliationVars, Execution
<1> QED BY <1>6, <1>7, <1>8, <1>9, <1>10, <1>11, <1>12, <1>13, <1>14 DEF ReconciliationNext

\* Lock, jobs and recorded runs tell one story.
THEOREM ReconciliationUnderLock == ReconciliationSpec => []RunsUnderLock
<1>1. ReconciliationInit => StoryInv
  BY RunInit DEF ReconciliationInit, StoryInv, HoldsOrLapsed, StatusWritten, LockHasHolder,
                 RunningIsUnderWay, Executing, Under
<1>2. StoryInv /\ [ReconciliationNext]_reconciliationVars => StoryInv'
  BY RunStep, StoryStep DEF StoryInv
<1>3. StoryInv => RunsUnderLock
  <2> SUFFICES ASSUME StoryInv PROVE OneRunUnlessLapsed
    BY DEF StoryInv, RunsUnderLock
  <2> QED BY ExecutionType DEF StoryInv, RunInv, HoldsOrLapsed, OneRunUnlessLapsed, Executing
<1> QED BY <1>1, <1>2, <1>3, PTL DEF ReconciliationSpec

\* The types of the state, for any values of the constants.
LEMMA ReconciliationTypeCorrect == ReconciliationSpec => []ReconciliationTypeOK
<1>1. RunInv => ReconciliationTypeOK
  BY DEF RunInv
<1> QED BY <1>1, RunInit, RunStep, PTL DEF ReconciliationSpec

-----------------------------------------------------------------------------
(***************************************************************************)
(* The export of a table: any rows in any order of their times, any page   *)
(* size, any number of executions at a time and of faults.                 *)
(***************************************************************************)

ExporterState ==
  [pc : {"idle", "begin", "read", "stat", "complete", "fail", "return", "throw"},
   offset : Nat, rows : SUBSET Rows]

ExportTypes ==
  /\ arrival \in [Rows -> Nat] /\ dropped \subseteq Rows
  /\ record \in [status : {"none", "pending", "processing", "deleted"} \cup Settled,
                 filePath : BOOLEAN]
  /\ exportJob \in [state : {"none", "waiting", "active"} \cup Settled,
                    holder : Exporters \cup {NoExporter}, attempts : Nat, stalls : Nat]
  /\ exporter \in [Exporters -> ExporterState]
  /\ file \in [present : BOOLEAN, rows : SUBSET Rows]
  /\ opened \subseteq {r \in Rows : arrival[r] > 0}
  /\ overtaken \in BOOLEAN /\ cutOff \in BOOLEAN

\* The rows a whole file has: there from the beginning, still there, and alone
\* with their time
Owed == {r \in opened \cap Present : \A s \in Rows \ {r} : arrival[s] # arrival[r]}

Newer(r) == {s \in Present : arrival[s] > arrival[r]}

Deleting == deletion # "idle" \/ record.status = "deleted"

\* The execution that is under way holds the job.
OneExecution ==
  \A w \in Exporters : exporter[w].pc # "idle" =>
    exportJob.holder = w /\ exportJob.state = "active"

\* A row that is owed has been read, or as many rows as were skipped are newer.
ReadsOn(w) ==
  /\ exporter[w].pc = "begin" => exporter[w].offset = 0 /\ exporter[w].rows = {}
  /\ exporter[w].pc = "read" =>
       /\ record.status = "processing"
       /\ format # "pdf" => file.present /\ file.rows = exporter[w].rows
       /\ \A r \in Owed :
            r \in exporter[w].rows \/ Cardinality(Newer(r)) >= exporter[w].offset

Whole == file.present /\ Owed \subseteq file.rows

FileFollows ==
  ~overtaken /\ ~Deleting =>
    /\ \A w \in Exporters :
         /\ ReadsOn(w)
         /\ exporter[w].pc \in {"stat", "complete"} => record.status = "processing" /\ Whole
    /\ record.status = "completed" => Whole

\* What the record says when an execution ends, and when its job has settled
StatusFollows ==
  /\ record.status = "none" =>
       exportJob.state = "none" /\ \A w \in Exporters : exporter[w].pc = "idle"
  /\ ~overtaken =>
       /\ (exportJob.state = "active" /\ exportJob.holder = NoExporter) => cutOff
       /\ record.status # "deleted" =>
            /\ \A w \in Exporters : exporter[w].pc = "return" => record.status = "completed"
            /\ ~cutOff => \A w \in Exporters : exporter[w].pc = "throw" => record.status = "failed"
            /\ ~cutOff /\ exportJob.state \in Settled => record.status = exportJob.state

ExportInv ==
  /\ ExportTypes
  /\ ~overtaken => OneExecution
  /\ FileFollows
  /\ StatusFollows

-----------------------------------------------------------------------------
(* Pages *)

LEMMA PresentFinite ==
  ASSUME ExportTypes, NEW S \in SUBSET Present
  PROVE  IsFiniteSet(S) /\ Cardinality(S) \in Nat
<1>1. S \in SUBSET Rows
  BY DEF Present
<1> QED BY <1>1, ExportAssumption, FS_Subset, FS_CardinalityType

LEMMA OwedFacts ==
  ASSUME ExportTypes, NEW r \in Owed
  PROVE  /\ r \in Present /\ r \in Rows /\ arrival[r] \in Nat
         /\ \A s \in Present : s \in Rows /\ arrival[s] \in Nat
         /\ \A s \in Present : s # r => arrival[s] # arrival[r]
         /\ Newer(r) \in SUBSET Present
         /\ IsFiniteSet(Newer(r)) /\ Cardinality(Newer(r)) \in Nat
<1>1. Newer(r) \in SUBSET Present
  BY DEF Newer
<1> QED BY <1>1, PresentFinite DEF Owed, Present, ExportTypes

\* A row that is owed and was not skipped yet is on the page or after it; the
\* last page leaves none.
LEMMA PageTakesOwed ==
  ASSUME ExportTypes, NEW offset \in Nat, NEW page \in Pages(offset), NEW r \in Owed,
         Cardinality(Newer(r)) >= offset, r \notin page
  PROVE  /\ Cardinality(page) = PageSize
         /\ Cardinality(Newer(r)) >= offset + PageSize
<1>0. PageSize \in Nat \ {0} /\ page \in SUBSET Present
  BY ExportAssumption DEF Pages
<1>1. PICK before \in SUBSET (Present \ page) :
        /\ \/ Cardinality(before) = offset
           \/ before = Present /\ Cardinality(before) < offset
        /\ \/ Cardinality(page) = PageSize
           \/ page = Present \ before /\ Cardinality(page) < PageSize
        /\ \A a \in before, b \in Present \ before : arrival[a] >= arrival[b]
        /\ \A a \in page, b \in Present \ (before \cup page) : arrival[a] >= arrival[b]
  BY DEF Pages
<1> DEFINE G == Newer(r)
<1>2. /\ r \in Present /\ arrival[r] \in Nat
      /\ \A s \in Present : arrival[s] \in Nat /\ (s # r => arrival[s] # arrival[r])
      /\ G \in SUBSET Present /\ IsFiniteSet(G) /\ Cardinality(G) \in Nat
      /\ \A s \in Present : s \in G <=> arrival[s] > arrival[r]
      /\ r \notin G
  <2>1. /\ r \in Present /\ arrival[r] \in Nat
        /\ \A s \in Present : arrival[s] \in Nat /\ (s # r => arrival[s] # arrival[r])
        /\ G \in SUBSET Present /\ IsFiniteSet(G) /\ Cardinality(G) \in Nat
    BY OwedFacts
  <2>2. \A s \in Present : s \in G <=> arrival[s] > arrival[r]
    BY DEF Newer
  <2> HIDE DEF G
  <2> QED BY <2>1, <2>2
<1>3. /\ IsFiniteSet(before) /\ Cardinality(before) \in Nat
      /\ IsFiniteSet(page) /\ Cardinality(page) \in Nat
  BY <1>0, <1>1, PresentFinite
<1> HIDE DEF G
<1>4. r \notin before
  <2> SUFFICES ASSUME r \in before PROVE FALSE
    OBVIOUS
  <2>1. G \in SUBSET (before \ {r})
    <3> SUFFICES ASSUME NEW g \in G PROVE g \in before /\ g # r
      OBVIOUS
    <3>1. g \in Present /\ arrival[g] > arrival[r] /\ arrival[g] \in Nat /\ g # r
      BY <1>2
    <3>2. g \notin before => arrival[r] >= arrival[g]
      BY <1>1, <3>1
    <3> QED BY <3>1, <3>2, <1>2
  <2>2. /\ IsFiniteSet(before \ {r})
        /\ Cardinality(before \ {r}) = Cardinality(before) - 1
    BY <1>3, FS_RemoveElement
  <2>3. Cardinality(G) <= Cardinality(before \ {r})
    BY <2>1, <2>2, FS_Subset
  <2> QED BY <2>2, <2>3, <1>1, <1>2, <1>3 DEF G
<1>5. Cardinality(before) = offset
  BY <1>1, <1>2, <1>4
<1>6. Cardinality(page) = PageSize
  BY <1>1, <1>2, <1>4
<1>7. before \cup page \in SUBSET G
  <2>1. ASSUME NEW a \in before \cup page PROVE arrival[a] >= arrival[r] /\ a # r /\ a \in Present
    BY <2>1, <1>0, <1>1, <1>2, <1>4
  <2> QED BY <2>1, <1>2
<1>8. /\ IsFiniteSet(before \cup page)
      /\ Cardinality(before \cup page) = offset + PageSize
  <2>1. Cardinality(before \cap page) = 0
    BY <1>1, FS_EmptySet
  <2>2. /\ IsFiniteSet(before \cup page)
        /\ Cardinality(before \cup page)
             = Cardinality(before) + Cardinality(page) - Cardinality(before \cap page)
    BY <1>3, FS_Union
  <2> QED BY <2>1, <2>2, <1>0, <1>3, <1>5, <1>6
<1>9. Cardinality(before \cup page) <= Cardinality(G)
  BY <1>2, <1>7, FS_Subset
<1> QED BY <1>6, <1>8, <1>9 DEF G

-----------------------------------------------------------------------------
(* Steps *)

LEMMA ExportFields ==
  ASSUME ExportTypes
  PROVE  /\ record.status \in {"none", "pending", "processing", "deleted"} \cup Settled
         /\ record.filePath \in BOOLEAN /\ file.present \in BOOLEAN /\ file.rows \in SUBSET Rows
         /\ \A w \in Exporters : /\ exporter[w].offset \in Nat /\ exporter[w].rows \in SUBSET Rows
                                 /\ exporter[w] \in ExporterState
BY DEF ExportTypes, ExporterState

LEMMA MovesFacts ==
  ASSUME ExportTypes, NEW w \in Exporters, NEW pc \in {"idle", "begin", "read", "stat", "complete",
                                                      "fail", "return", "throw"}, Moves(w, pc)
  PROVE  /\ exporter' \in [Exporters -> ExporterState]
         /\ exporter'[w].pc = pc /\ exporter'[w].offset = exporter[w].offset
         /\ exporter'[w].rows = exporter[w].rows
         /\ \A v \in Exporters : v # w => exporter'[v] = exporter[v]
<1> DEFINE t == [exporter[w] EXCEPT !.pc = pc]
<1>1. t \in ExporterState /\ t.pc = pc /\ t.offset = exporter[w].offset /\ t.rows = exporter[w].rows
  BY ExportFields DEF ExporterState
<1>2. exporter' = [exporter EXCEPT ![w] = t]
  BY DEF Moves
<1> HIDE DEF t
<1> QED BY <1>1, <1>2 DEF ExportTypes

LEMMA SetRecordFacts ==
  ASSUME ExportTypes, NEW status \in {"pending", "processing"} \cup Settled,
         NEW path \in BOOLEAN, SetRecord(status, path)
  PROVE  /\ record' \in [status : {"none", "pending", "processing", "deleted"} \cup Settled,
                         filePath : BOOLEAN]
         /\ record.status = "deleted" => record' = record
         /\ record.status # "deleted" => record'.status = status
<1>1. CASE record.status = "deleted"
  BY <1>1 DEF SetRecord, ExportTypes
<1>2. CASE record.status # "deleted"
  BY <1>2 DEF SetRecord
<1> QED BY <1>1, <1>2

\* Nobody but the execution that holds the job is under way.
LEMMA OthersIdle ==
  ASSUME ExportInv, ~overtaken, NEW w \in Exporters, exporter[w].pc # "idle"
  PROVE  /\ \A v \in Exporters : v # w => exporter[v].pc = "idle"
         /\ exportJob.holder = w /\ exportJob.state = "active"
BY DEF ExportInv, OneExecution

LEMMA OwedStays ==
  ASSUME UNCHANGED <<rowVars, opened>>
  PROVE  Owed' = Owed /\ Present' = Present /\ \A r : Newer(r)' = Newer(r)
BY DEF rowVars, Owed, Present, Newer

\* Whatever arrives and leaves, no row becomes owed, and none gets newer rows
\* taken from before it.
LEMMA RowsKeep ==
  ASSUME ExportInv, NEW r \in Rows, RowArrives(r) \/ OldestRowDropped(r)
  PROVE  ExportInv'
<1> DEFINE rest == <<format, record, exportJob, exporter, file, deletion, opened, overtaken, cutOff>>
<1>0. ExportTypes /\ UNCHANGED rest
  BY DEF ExportInv, RowArrives, OldestRowDropped
<1>1. /\ arrival' \in [Rows -> Nat] /\ dropped' \subseteq Rows /\ dropped \subseteq dropped'
      /\ \A s \in Rows : arrival[s] > 0 => arrival'[s] = arrival[s]
  <2>1. CASE RowArrives(r)
    BY <2>1, <1>0, ExportAssumption DEF RowArrives, ExportTypes
  <2>2. CASE OldestRowDropped(r)
    BY <2>2, <1>0 DEF OldestRowDropped, ExportTypes, Present
  <2> QED BY <2>1, <2>2
<1>2. ExportTypes'
  BY <1>0, <1>1 DEF ExportTypes
<1>3. ASSUME NEW s \in Owed' PROVE s \in Owed /\ Newer(s) \subseteq Newer(s)'
  <2>1. /\ s \in Rows /\ s \in opened /\ arrival[s] > 0 /\ arrival'[s] = arrival[s]
        /\ s \notin dropped' /\ \A x \in Rows \ {s} : arrival'[x] # arrival'[s]
        /\ arrival[s] \in Nat
    BY <1>0, <1>1 DEF Owed, Present, ExportTypes
  <2>2. \A x \in Rows \ {s} : arrival[x] # arrival[s]
    BY <2>1, <1>1, <1>0 DEF ExportTypes
  <2>3. s \in Present
    BY <2>1, <1>1 DEF Present
  <2>4. ASSUME NEW x \in Newer(s) PROVE x \in Newer(s)'
    <3>1. /\ x \in Rows /\ arrival[x] > 0 /\ x \notin dropped /\ arrival[x] > arrival[s]
          /\ arrival'[x] = arrival[x] /\ arrival[x] \in Nat
      BY <1>0, <1>1, <2>4 DEF Newer, Present, ExportTypes
    <3>2. x \notin dropped'
      <4>1. CASE RowArrives(r)
        BY <4>1, <3>1 DEF RowArrives
      <4>2. CASE OldestRowDropped(r)
        BY <4>2, <3>1, <2>1, <2>3 DEF OldestRowDropped
      <4> QED BY <4>1, <4>2
    <3> QED BY <3>1, <3>2, <2>1 DEF Newer, Present
  <2> QED BY <2>1, <2>2, <2>3, <2>4 DEF Owed
<1>4. ASSUME NEW s \in Owed'
      PROVE  Cardinality(Newer(s)) <= Cardinality(Newer(s)') /\ Cardinality(Newer(s)) \in Nat
             /\ Cardinality(Newer(s)') \in Nat
  <2>1. Newer(s)' \subseteq Rows
    BY DEF Newer, Present
  <2>2. IsFiniteSet(Newer(s)') /\ Cardinality(Newer(s)') \in Nat
    BY <2>1, ExportAssumption, FS_Subset, FS_CardinalityType
  <2> QED BY <2>2, <1>0, <1>3, OwedFacts, FS_Subset
<1>5. FileFollows'
  <2> SUFFICES ASSUME ~overtaken, ~Deleting PROVE FileFollows'
    BY <1>0 DEF FileFollows, Deleting
  <2>1. \A w \in Exporters : ReadsOn(w)'
    <3>1. ASSUME NEW w \in Exporters, exporter[w].pc = "read", NEW s \in Owed',
                 s \notin exporter[w].rows
          PROVE  Cardinality(Newer(s)') >= exporter[w].offset
      <4>1. Cardinality(Newer(s)) >= exporter[w].offset /\ exporter[w].offset \in Nat
        BY <1>0, <1>3, <3>1, ExportFields DEF ExportInv, FileFollows, ReadsOn
      <4> QED BY <4>1, <1>4
    <3> QED BY <3>1, <1>0 DEF ReadsOn, ExportInv, FileFollows
  <2>2. Whole => Whole'
    BY <1>0, <1>3 DEF Whole
  <2> QED BY <2>1, <2>2, <1>0 DEF ExportInv, FileFollows
<1>6. OneExecution' = OneExecution
  BY <1>0 DEF OneExecution
<1>7. StatusFollows'
  BY <1>0 DEF ExportInv, StatusFollows
<1> QED BY <1>0, <1>2, <1>5, <1>6, <1>7 DEF ExportInv

LEMMA RequestKeeps ==
  ASSUME ExportInv, RequestExport
  PROVE  ExportInv'
<1>0. /\ ExportTypes /\ record.status = "none" /\ exportJob.state = "none"
      /\ UNCHANGED <<rowVars, exporter, file, format, deletion, opened, overtaken, cutOff>>
      /\ record'.status = "pending"
  BY DEF ExportInv, StatusFollows, RequestExport
<1>1. ExportTypes'
  BY <1>0 DEF ExportTypes, RequestExport, rowVars
<1>2. /\ exportJob'.state \in {"none", "waiting"} /\ exportJob'.holder = exportJob.holder
  BY <1>0 DEF RequestExport, ExportTypes
<1>3. ASSUME ~overtaken PROVE \A w \in Exporters : exporter[w].pc = "idle"
  BY <1>0, <1>3 DEF ExportInv, OneExecution
<1>4. ~overtaken' => OneExecution'
  BY <1>0, <1>3 DEF OneExecution
<1>5. FileFollows'
  BY <1>0, <1>3 DEF FileFollows, ReadsOn
<1>6. StatusFollows'
  BY <1>0, <1>2, <1>3 DEF StatusFollows, Settled
<1> QED BY <1>1, <1>4, <1>5, <1>6 DEF ExportInv

\* From the first step of a deletion on, nothing is owed.
LEMMA DeletionKeeps ==
  ASSUME ExportInv, DeleteRead \/ DeleteFile \/ DeleteRow
  PROVE  ExportInv'
<1>0. /\ ExportTypes
      /\ UNCHANGED <<rowVars, format, exportJob, exporter, opened, overtaken, cutOff>>
  BY DEF ExportInv, DeleteRead, DeleteFile, DeleteRow
<1>1. Deleting'
  BY DEF Deleting, DeleteRead, DeleteFile, DeleteRow
<1>2. record' = record \/ record'.status = "deleted"
  BY DEF DeleteRead, DeleteFile, DeleteRow
<1>a. /\ record' \in [status : {"none", "pending", "processing", "deleted"} \cup Settled,
                      filePath : BOOLEAN]
      /\ file' \in [present : BOOLEAN, rows : SUBSET Rows]
  <2>1. CASE DeleteRead
    BY <2>1, <1>0 DEF ExportTypes, DeleteRead
  <2>2. CASE DeleteFile
    <3>1. file' = file \/ file' = [present |-> FALSE, rows |-> {}]
      BY <2>2 DEF DeleteFile
    <3>2. record' = record
      BY <2>2 DEF DeleteFile
    <3>3. [present |-> FALSE, rows |-> {}] \in [present : BOOLEAN, rows : SUBSET Rows]
      OBVIOUS
    <3> QED BY <3>1, <3>2, <3>3, <1>0 DEF ExportTypes
  <2>3. CASE DeleteRow
    <3>1. record' = record \/ record' = [status |-> "deleted", filePath |-> FALSE]
      BY <2>3 DEF DeleteRow
    <3>2. file' = file
      BY <2>3 DEF DeleteRow
    <3>3. [status |-> "deleted", filePath |-> FALSE] \in
            [status : {"none", "pending", "processing", "deleted"} \cup Settled,
             filePath : BOOLEAN]
      OBVIOUS
    <3> QED BY <3>1, <3>2, <3>3, <1>0 DEF ExportTypes
  <2> QED BY <2>1, <2>2, <2>3
<1>3. ExportTypes'
  BY <1>0, <1>a DEF ExportTypes, rowVars
<1>4. OneExecution' = OneExecution
  BY <1>0 DEF OneExecution
<1>5. StatusFollows'
  BY <1>0, <1>2 DEF ExportInv, StatusFollows
<1> QED BY <1>0, <1>1, <1>3, <1>4, <1>5 DEF ExportInv, FileFollows

LEMMA TakeExportKeeps ==
  ASSUME ExportInv, NEW w \in Exporters, TakeExport(w)
  PROVE  ExportInv'
<1> DEFINE fresh == [pc |-> "begin", offset |-> 0, rows |-> {}]
<1>0. /\ ExportTypes /\ exportJob.state = "waiting" /\ cutOff' = FALSE
      /\ UNCHANGED <<rowVars, format, record, file, deletion, opened, overtaken>>
  BY DEF ExportInv, TakeExport
<1>1. fresh \in ExporterState /\ fresh.pc = "begin" /\ fresh.offset = 0 /\ fresh.rows = {}
  BY DEF ExporterState
<1>2. exporter' = [exporter EXCEPT ![w] = fresh]
  BY DEF TakeExport
<1> HIDE DEF fresh
<1>3. /\ exporter' \in [Exporters -> ExporterState] /\ exporter'[w].pc = "begin"
      /\ exporter'[w].offset = 0 /\ exporter'[w].rows = {}
      /\ \A v \in Exporters : v # w => exporter'[v] = exporter[v]
  BY <1>0, <1>1, <1>2 DEF ExportTypes
<1>4. /\ exportJob' \in [state : {"none", "waiting", "active"} \cup Settled,
                         holder : Exporters \cup {NoExporter}, attempts : Nat, stalls : Nat]
      /\ exportJob'.state = "active" /\ exportJob'.holder = w
  BY <1>0 DEF TakeExport, ExportTypes
<1>5. ExportTypes'
  BY <1>0, <1>3, <1>4 DEF ExportTypes, rowVars
<1>6. ASSUME ~overtaken PROVE \A v \in Exporters : exporter[v].pc = "idle"
  BY <1>0, <1>6 DEF ExportInv, OneExecution
<1>7. ~overtaken' => OneExecution'
  BY <1>0, <1>3, <1>4, <1>6 DEF OneExecution
<1>8. FileFollows'
  BY <1>0, <1>3, <1>6, OwedStays DEF ExportInv, FileFollows, ReadsOn, Deleting, Whole
<1>9. StatusFollows'
  <2>1. record.status # "none"
    BY <1>0 DEF ExportInv, StatusFollows
  <2> QED BY <2>1, <1>0, <1>3, <1>4, <1>6, ExportAssumption DEF StatusFollows, Settled
<1> QED BY <1>5, <1>7, <1>8, <1>9 DEF ExportInv

\* An execution goes on, and leaves the job to itself.
LEMMA OneExecutionStays ==
  ASSUME ExportInv, NEW w \in Exporters, exporter[w].pc # "idle", exportJob' = exportJob,
         \A v \in Exporters : v # w => exporter'[v] = exporter[v], overtaken' = overtaken
  PROVE  ~overtaken' => OneExecution'
BY DEF ExportInv, OneExecution

LEMMA BeginKeeps ==
  ASSUME ExportInv, NEW w \in Exporters, BeginExport(w)
  PROVE  ExportInv'
<1>0. /\ ExportTypes /\ exporter[w].pc = "begin"
      /\ UNCHANGED <<rowVars, format, exportJob, deletion, overtaken, cutOff>>
  BY DEF ExportInv, BeginExport
<1>1. CASE Moves(w, "read") /\ SetRecord("processing", record.filePath) /\ opened' = Present
           /\ file' = IF format = "pdf" THEN file ELSE [present |-> TRUE, rows |-> {}]
  <2>1. /\ exporter' \in [Exporters -> ExporterState]
        /\ exporter'[w].pc = "read" /\ exporter'[w].offset = exporter[w].offset
        /\ exporter'[w].rows = exporter[w].rows
        /\ \A v \in Exporters : v # w => exporter'[v] = exporter[v]
    BY <1>0, <1>1, MovesFacts
  <2>2. /\ record' \in [status : {"none", "pending", "processing", "deleted"} \cup Settled,
                        filePath : BOOLEAN]
        /\ record.status = "deleted" => record' = record
        /\ record.status # "deleted" => record'.status = "processing"
    BY <1>0, <1>1, ExportFields, SetRecordFacts
  <2>3. file' \in [present : BOOLEAN, rows : SUBSET Rows]
    BY <1>0, <1>1 DEF ExportTypes
  <2>4. opened' \subseteq {r \in Rows : arrival'[r] > 0}
    BY <1>0, <1>1 DEF Present, rowVars
  <2>5. ExportTypes'
    BY <1>0, <2>1, <2>2, <2>3, <2>4 DEF ExportTypes, rowVars
  <2>6. ~overtaken' => OneExecution'
    BY <1>0, <2>1, OneExecutionStays
  <2>7. FileFollows'
    <3> SUFFICES ASSUME ~overtaken, ~Deleting' PROVE FileFollows'
      BY <1>0 DEF FileFollows
    <3>1. ~Deleting /\ record'.status = "processing"
      BY <1>0, <2>2 DEF Deleting
    <3>2. \A v \in Exporters : v # w => exporter'[v].pc = "idle"
      BY <1>0, <2>1, OthersIdle
    <3>3. exporter'[w].offset = 0 /\ exporter'[w].rows = {}
      BY <3>1, <1>0, <2>1 DEF ExportInv, FileFollows, ReadsOn
    <3>4. format # "pdf" => file'.present /\ file'.rows = {}
      BY <1>1
    <3>5. ASSUME NEW r \in Owed' PROVE Cardinality(Newer(r)') \in Nat
      <4>1. Newer(r)' \subseteq Rows
        BY DEF Newer, Present
      <4> QED BY <4>1, ExportAssumption, FS_Subset, FS_CardinalityType
    <3>6. ReadsOn(w)'
      BY <3>1, <3>3, <3>4, <3>5, <2>1, <1>0 DEF ReadsOn
    <3> QED BY <3>1, <3>2, <3>6, <2>1 DEF FileFollows, ReadsOn
  <2>8. StatusFollows'
    <3>1. record.status # "none"
      BY <1>0 DEF ExportInv, StatusFollows
    <3>2. ASSUME ~overtaken
          PROVE  /\ exportJob.holder = w /\ exportJob.state = "active"
                 /\ \A v \in Exporters : exporter'[v].pc \in {"idle", "read"}
      BY <3>2, <1>0, <2>1, OthersIdle
    <3> QED BY <3>1, <3>2, <1>0, <2>2, ExportAssumption DEF StatusFollows, Settled
  <2> QED BY <2>5, <2>6, <2>7, <2>8 DEF ExportInv
<1>2. CASE Moves(w, "fail") /\ UNCHANGED <<record, opened, file>>
  <2>1. /\ exporter' \in [Exporters -> ExporterState] /\ exporter'[w].pc = "fail"
        /\ \A v \in Exporters : v # w => exporter'[v] = exporter[v]
    BY <1>0, <1>2, MovesFacts
  <2>2. ExportTypes'
    BY <1>0, <1>2, <2>1 DEF ExportTypes, rowVars
  <2>3. ~overtaken' => OneExecution'
    BY <1>0, <2>1, OneExecutionStays
  <2>4. FileFollows'
    BY <1>0, <1>2, <2>1, OwedStays DEF ExportInv, FileFollows, ReadsOn, Deleting, Whole
  <2>5. StatusFollows'
    BY <1>0, <1>2, <2>1 DEF ExportInv, StatusFollows
  <2> QED BY <2>2, <2>3, <2>4, <2>5 DEF ExportInv
<1> QED BY <1>1, <1>2 DEF BeginExport

\* A failure on the way: only the execution moves, to the catch block.
LEMMA FailingKeeps ==
  ASSUME ExportInv, NEW w \in Exporters, exporter[w].pc # "idle",
         NEW pc \in {"fail", "complete"}, Moves(w, pc),
         pc = "complete" => exporter[w].pc = "stat",
         UNCHANGED <<rowVars, format, record, exportJob, file, deletion, opened, overtaken, cutOff>>
  PROVE  ExportInv'
<1>0. ExportTypes
  BY DEF ExportInv
<1>1. /\ exporter' \in [Exporters -> ExporterState] /\ exporter'[w].pc = pc
      /\ \A v \in Exporters : v # w => exporter'[v] = exporter[v]
  BY <1>0, MovesFacts
<1>2. ExportTypes'
  BY <1>0, <1>1 DEF ExportTypes, rowVars
<1>3. ~overtaken' => OneExecution'
  BY <1>1, OneExecutionStays
<1>4. FileFollows'
  BY <1>1, OwedStays DEF ExportInv, FileFollows, ReadsOn, Deleting, Whole
<1>5. StatusFollows'
  BY <1>1 DEF ExportInv, StatusFollows
<1> QED BY <1>2, <1>3, <1>4, <1>5 DEF ExportInv

LEMMA StatKeeps ==
  ASSUME ExportInv, NEW w \in Exporters, StatFile(w) \/ WriteFails(w)
  PROVE  ExportInv'
<1>1. CASE StatFile(w)
  BY <1>1, FailingKeeps DEF StatFile
<1>2. CASE WriteFails(w)
  BY <1>2, FailingKeeps DEF WriteFails
<1> QED BY <1>1, <1>2

\* The execution is gone; its job is active without a holder.
LEMMA DeathKeeps ==
  ASSUME ExportInv, NEW w \in Exporters, exporter[w].pc # "idle", Dies(w),
         UNCHANGED <<rowVars, format, record, file, deletion, opened, overtaken>>
  PROVE  ExportInv'
<1> DEFINE gone == [pc |-> "idle", offset |-> 0, rows |-> {}]
<1>0. ExportTypes /\ cutOff' = TRUE
  BY DEF ExportInv, Dies
<1>1. gone \in ExporterState /\ gone.pc = "idle"
  BY DEF ExporterState
<1>2. exporter' = [exporter EXCEPT ![w] = gone]
  BY DEF Dies
<1> HIDE DEF gone
<1>3. /\ exporter' \in [Exporters -> ExporterState] /\ exporter'[w].pc = "idle"
      /\ \A v \in Exporters : v # w => exporter'[v] = exporter[v]
  BY <1>0, <1>1, <1>2 DEF ExportTypes
<1>4. /\ exportJob' \in [state : {"none", "waiting", "active"} \cup Settled,
                         holder : Exporters \cup {NoExporter}, attempts : Nat, stalls : Nat]
      /\ exportJob'.state = exportJob.state
  BY <1>0 DEF Dies, ExportTypes
<1>5. ExportTypes'
  BY <1>0, <1>3, <1>4 DEF ExportTypes, rowVars
<1>6. ~overtaken' => OneExecution'
  BY <1>3, OthersIdle DEF OneExecution
<1>7. FileFollows'
  BY <1>3, OwedStays DEF ExportInv, FileFollows, ReadsOn, Deleting, Whole
<1>8. StatusFollows'
  BY <1>0, <1>3, <1>4 DEF ExportInv, StatusFollows
<1> QED BY <1>5, <1>6, <1>7, <1>8 DEF ExportInv

LEMMA QueryKeeps ==
  ASSUME ExportInv, NEW w \in Exporters, QueryFails(w) \/ ExporterDies(w)
  PROVE  ExportInv'
<1>1. CASE QueryFails(w)
  <2>1. CASE Moves(w, "fail") /\ UNCHANGED <<exportJob, cutOff>>
    BY <1>1, <2>1, FailingKeeps DEF QueryFails
  <2>2. CASE Dies(w)
    BY <1>1, <2>2, DeathKeeps DEF QueryFails
  <2> QED BY <1>1, <2>1, <2>2 DEF QueryFails
<1>2. CASE ExporterDies(w)
  BY <1>2, DeathKeeps DEF ExporterDies
<1> QED BY <1>1, <1>2

LEMMA CompleteKeeps ==
  ASSUME ExportInv, NEW w \in Exporters, CompleteRecord(w)
  PROVE  ExportInv'
<1>0. /\ ExportTypes /\ exporter[w].pc = "complete"
      /\ UNCHANGED <<rowVars, format, exportJob, file, deletion, opened, overtaken, cutOff>>
  BY DEF ExportInv, CompleteRecord
<1>1. CASE Moves(w, "fail") /\ UNCHANGED record
  BY <1>0, <1>1, FailingKeeps
<1>2. CASE Moves(w, "return") /\ SetRecord("completed", TRUE)
  <2>1. /\ exporter' \in [Exporters -> ExporterState] /\ exporter'[w].pc = "return"
        /\ \A v \in Exporters : v # w => exporter'[v] = exporter[v]
    BY <1>0, <1>2, MovesFacts
  <2>2. /\ record' \in [status : {"none", "pending", "processing", "deleted"} \cup Settled,
                        filePath : BOOLEAN]
        /\ record.status = "deleted" => record' = record
        /\ record.status # "deleted" => record'.status = "completed"
    BY <1>0, <1>2, SetRecordFacts DEF Settled
  <2>3. ExportTypes'
    BY <1>0, <2>1, <2>2 DEF ExportTypes, rowVars
  <2>4. ~overtaken' => OneExecution'
    BY <1>0, <2>1, OneExecutionStays
  <2>5. ASSUME ~overtaken PROVE \A v \in Exporters : v # w => exporter'[v].pc = "idle"
    BY <2>5, <1>0, <2>1, OthersIdle
  <2>6. FileFollows'
    BY <1>0, <2>1, <2>2, <2>5, OwedStays DEF ExportInv, FileFollows, ReadsOn, Deleting, Whole
  <2>7. StatusFollows'
    <3>1. ASSUME ~overtaken PROVE exportJob.holder = w /\ exportJob.state = "active"
      BY <3>1, <1>0, OthersIdle
    <3> QED BY <3>1, <1>0, <2>1, <2>2, <2>5, ExportAssumption
            DEF ExportInv, StatusFollows, Settled
  <2> QED BY <2>3, <2>4, <2>6, <2>7 DEF ExportInv
<1> QED BY <1>1, <1>2 DEF CompleteRecord

LEMMA FailRecordKeeps ==
  ASSUME ExportInv, NEW w \in Exporters, FailRecord(w)
  PROVE  ExportInv'
<1>0. /\ ExportTypes /\ exporter[w].pc = "fail" /\ Moves(w, "throw")
      /\ UNCHANGED <<rowVars, format, exportJob, file, deletion, opened, overtaken>>
  BY DEF ExportInv, FailRecord
<1>1. /\ exporter' \in [Exporters -> ExporterState] /\ exporter'[w].pc = "throw"
      /\ \A v \in Exporters : v # w => exporter'[v] = exporter[v]
  BY <1>0, MovesFacts
<1>2. /\ record' \in [status : {"none", "pending", "processing", "deleted"} \cup Settled,
                      filePath : BOOLEAN]
      /\ \/ /\ cutOff' = cutOff
            /\ record.status = "deleted" => record' = record
            /\ record.status # "deleted" => record'.status = "failed"
         \/ cutOff' = TRUE /\ record' = record
  <2>1. CASE SetRecord("failed", record.filePath) /\ UNCHANGED cutOff
    BY <1>0, <2>1, ExportFields, SetRecordFacts DEF Settled
  <2>2. CASE cutOff' = TRUE /\ UNCHANGED record
    BY <1>0, <2>2 DEF ExportTypes
  <2> QED BY <2>1, <2>2 DEF FailRecord
<1>3. ExportTypes'
  BY <1>0, <1>1, <1>2 DEF ExportTypes, rowVars
<1>4. ~overtaken' => OneExecution'
  BY <1>0, <1>1, OneExecutionStays
<1>5. ASSUME ~overtaken
      PROVE  /\ \A v \in Exporters : v # w => exporter'[v].pc = "idle"
             /\ exportJob.holder = w /\ exportJob.state = "active"
  BY <1>5, <1>0, <1>1, OthersIdle
<1>6. FileFollows'
  BY <1>0, <1>1, <1>2, <1>5, OwedStays DEF ExportInv, FileFollows, ReadsOn, Deleting, Whole
<1>7. StatusFollows'
  BY <1>0, <1>1, <1>2, <1>5, ExportAssumption DEF ExportInv, StatusFollows, Settled
<1> QED BY <1>3, <1>4, <1>6, <1>7 DEF ExportInv

LEMMA EndKeeps ==
  ASSUME ExportInv, NEW w \in Exporters, EndExport(w)
  PROVE  ExportInv'
<1>0. /\ ExportTypes /\ exporter[w].pc \in {"return", "throw"} /\ Moves(w, "idle")
      /\ UNCHANGED <<rowVars, format, record, file, deletion, opened, overtaken, cutOff>>
  BY DEF ExportInv, EndExport
<1>1. /\ exporter' \in [Exporters -> ExporterState] /\ exporter'[w].pc = "idle"
      /\ \A v \in Exporters : v # w => exporter'[v] = exporter[v]
  BY <1>0, MovesFacts
<1>2. /\ exportJob' \in [state : {"none", "waiting", "active"} \cup Settled,
                         holder : Exporters \cup {NoExporter}, attempts : Nat, stalls : Nat]
      /\ exportJob.holder = w /\ exporter[w].pc = "return" => exportJob'.state = "completed"
      /\ exportJob.holder = w /\ exporter[w].pc = "throw" => exportJob'.state \in {"waiting", "failed"}
      /\ exportJob.holder # w => exportJob' = exportJob
  <2>1. CASE exportJob.holder # w
    BY <2>1, <1>0 DEF EndExport, ExportTypes
  <2>2. CASE exportJob.holder = w /\ exporter[w].pc = "return"
    <3>1. exportJob' = [exportJob EXCEPT !.state = "completed", !.holder = NoExporter]
      BY <2>2 DEF EndExport
    <3> QED BY <3>1, <2>2, <1>0 DEF ExportTypes, Settled
  <2>3. CASE exportJob.holder = w /\ exporter[w].pc = "throw"
    <3> DEFINE state == IF exportJob.attempts + 1 < MaxExportAttempts THEN "waiting" ELSE "failed"
    <3>1. exportJob' = [exportJob EXCEPT !.attempts = @ + 1, !.holder = NoExporter, !.state = state]
      BY <2>3 DEF EndExport
    <3>2. state \in {"waiting", "failed"}
      OBVIOUS
    <3> HIDE DEF state
    <3>3. exportJob.attempts + 1 \in Nat
      BY <1>0 DEF ExportTypes
    <3> QED BY <3>1, <3>2, <3>3, <2>3, <1>0 DEF ExportTypes, Settled
  <2> QED BY <1>0, <2>1, <2>2, <2>3
<1>3. ExportTypes'
  BY <1>0, <1>1, <1>2 DEF ExportTypes, rowVars
<1>4. ASSUME ~overtaken
      PROVE  /\ \A v \in Exporters : exporter'[v].pc = "idle"
             /\ exportJob.holder = w /\ exportJob.state = "active"
  BY <1>4, <1>0, <1>1, OthersIdle
<1>5. ~overtaken' => OneExecution'
  BY <1>0, <1>4 DEF OneExecution
<1>6. FileFollows'
  BY <1>0, <1>4, OwedStays DEF ExportInv, FileFollows, ReadsOn, Deleting, Whole
<1>7. StatusFollows'
  <2>1. record.status # "none"
    BY <1>0 DEF ExportInv, StatusFollows
  <2> SUFFICES ASSUME ~overtaken PROVE StatusFollows'
    BY <2>1, <1>0 DEF StatusFollows
  <2>2. exportJob'.state \in {"completed", "waiting", "failed"}
    BY <1>0, <1>2, <1>4
  <2>3. ASSUME record.status # "deleted", ~cutOff, exportJob'.state \in Settled
        PROVE  record.status = exportJob'.state
    <3>1. CASE exporter[w].pc = "return"
      BY <3>1, <2>3, <1>2, <1>4 DEF ExportInv, StatusFollows
    <3>2. CASE exporter[w].pc = "throw"
      BY <3>2, <2>3, <1>2, <1>4 DEF ExportInv, StatusFollows, Settled
    <3> QED BY <1>0, <3>1, <3>2
  <2> QED BY <2>1, <2>2, <2>3, <1>0, <1>4 DEF StatusFollows
<1> QED BY <1>3, <1>5, <1>6, <1>7 DEF ExportInv

\* The next page, and after the last one of a PDF the file
LEMMA ReadKeeps ==
  ASSUME ExportInv, NEW w \in Exporters, ReadPage(w)
  PROVE  ExportInv'
<1>0. /\ ExportTypes /\ exporter[w].pc = "read"
      /\ UNCHANGED <<rowVars, format, record, exportJob, deletion, opened, overtaken, cutOff>>
  BY DEF ExportInv, ReadPage
<1> DEFINE offset == exporter[w].offset
           read == exporter[w].rows
<1>1. PICK page \in Pages(offset) :
        LET last == Cardinality(page) < PageSize
        IN  /\ exporter' = [exporter EXCEPT ![w] =
                 [pc |-> IF last THEN "stat" ELSE "read", rows |-> read \cup page,
                  offset |-> IF last THEN @.offset ELSE @.offset + PageSize]]
            /\ file' = CASE format # "pdf" /\ file.present ->
                              [present |-> TRUE, rows |-> file.rows \cup page]
                         [] format = "pdf" /\ last -> [present |-> TRUE, rows |-> read \cup page]
                         [] OTHER -> file
  BY DEF ReadPage
<1>2. /\ page \in SUBSET Rows /\ Cardinality(page) \in Nat /\ PageSize \in Nat \ {0}
      /\ offset \in Nat /\ read \in SUBSET Rows /\ file.rows \in SUBSET Rows
      /\ file.present \in BOOLEAN
  <2>1. page \in SUBSET Present
    BY <1>1 DEF Pages
  <2>2. Cardinality(page) \in Nat /\ page \in SUBSET Rows
    BY <2>1, <1>0, PresentFinite DEF Present
  <2> QED BY <2>2, <1>0, ExportFields, ExportAssumption
<1>3. PICK t \in ExporterState :
        /\ exporter' = [exporter EXCEPT ![w] = t] /\ t.rows = read \cup page
        /\ Cardinality(page) < PageSize => t.pc = "stat"
        /\ ~(Cardinality(page) < PageSize) => t.pc = "read" /\ t.offset = offset + PageSize
  <2>1. CASE Cardinality(page) < PageSize
    <3> DEFINE u == [pc |-> "stat", rows |-> read \cup page, offset |-> offset]
    <3>1. exporter' = [exporter EXCEPT ![w] = u]
      BY <1>1, <2>1
    <3>2. u \in ExporterState /\ u.rows = read \cup page /\ u.pc = "stat"
      BY <1>2 DEF ExporterState
    <3> QED BY <3>1, <3>2, <2>1
  <2>2. CASE ~(Cardinality(page) < PageSize)
    <3> DEFINE u == [pc |-> "read", rows |-> read \cup page, offset |-> offset + PageSize]
    <3>1. exporter' = [exporter EXCEPT ![w] = u]
      BY <1>1, <2>2
    <3>2. /\ u \in ExporterState /\ u.rows = read \cup page /\ u.pc = "read"
          /\ u.offset = offset + PageSize
      BY <1>2 DEF ExporterState
    <3> QED BY <3>1, <3>2, <2>2
  <2> QED BY <2>1, <2>2
<1>4. /\ exporter' \in [Exporters -> ExporterState] /\ exporter'[w] = t
      /\ \A v \in Exporters : v # w => exporter'[v] = exporter[v]
      /\ t.pc \in {"read", "stat"}
  BY <1>0, <1>2, <1>3 DEF ExportTypes
<1>5. /\ file' \in [present : BOOLEAN, rows : SUBSET Rows]
      /\ format # "pdf" /\ file.present => file'.present /\ file'.rows = file.rows \cup page
      /\ format = "pdf" /\ Cardinality(page) < PageSize =>
           file'.present /\ file'.rows = read \cup page
  <2>1. CASE format # "pdf" /\ file.present
    <3>1. file' = [present |-> TRUE, rows |-> file.rows \cup page]
      BY <1>1, <2>1
    <3> QED BY <3>1, <2>1, <1>2
  <2>2. CASE format = "pdf" /\ Cardinality(page) < PageSize
    <3>1. file' = [present |-> TRUE, rows |-> read \cup page]
      BY <1>1, <2>2
    <3> QED BY <3>1, <2>2, <1>2
  <2>3. CASE ~(format # "pdf" /\ file.present) /\ ~(format = "pdf" /\ Cardinality(page) < PageSize)
    <3>1. file' = file
      BY <1>1, <2>3
    <3> QED BY <3>1, <2>3, <1>0 DEF ExportTypes
  <2> QED BY <2>1, <2>2, <2>3
<1> HIDE DEF offset, read
<1>6. ExportTypes'
  BY <1>0, <1>4, <1>5 DEF ExportTypes, rowVars
<1>7. ~overtaken' => OneExecution'
  BY <1>0, <1>4, OneExecutionStays
<1>8. FileFollows'
  <2> SUFFICES ASSUME ~overtaken, ~Deleting PROVE FileFollows'
    BY <1>0 DEF FileFollows, Deleting
  <2>1. \A v \in Exporters : v # w => exporter'[v].pc = "idle"
    BY <1>0, <1>4, OthersIdle
  <2>2. /\ record.status = "processing"
        /\ format # "pdf" => file.present /\ file.rows = read
        /\ \A r \in Owed : r \in read \/ Cardinality(Newer(r)) >= offset
    BY <1>0 DEF ExportInv, FileFollows, ReadsOn, offset, read
  <2>3. Owed' = Owed /\ \A r : Newer(r)' = Newer(r)
    BY <1>0, OwedStays
  <2>4. ASSUME NEW r \in Owed, r \notin read \cup page
        PROVE  /\ Cardinality(page) = PageSize /\ Cardinality(Newer(r)) >= offset + PageSize
    BY <2>4, <2>2, <1>0, <1>1, <1>2, PageTakesOwed
  <2>5. ReadsOn(w)'
    <3>1. ASSUME t.pc = "read", NEW r \in Owed, r \notin t.rows
          PROVE  Cardinality(Newer(r)) >= t.offset
      BY <3>1, <2>4, <1>2, <1>3
    <3>2. ASSUME t.pc = "read", format # "pdf" PROVE file'.present /\ file'.rows = t.rows
      BY <3>2, <2>2, <1>3, <1>5
    <3>3. \A r \in Owed' : t.pc = "read" =>
            r \in t.rows \/ Cardinality(Newer(r)') >= t.offset
      BY <3>1, <2>3
    <3>4. record' = record /\ format' = format
      BY <1>0
    <3>5. exporter'[w] = t
      BY <1>4
    <3> QED BY <3>2, <3>3, <3>4, <3>5, <2>2, <1>4 DEF ReadsOn
  <2>6. t.pc = "stat" => Whole'
    <3> SUFFICES ASSUME t.pc = "stat" PROVE Whole'
      OBVIOUS
    <3>1. Cardinality(page) < PageSize
      BY <1>3
    <3>2. Owed \subseteq read \cup page
      BY <3>1, <2>4, <1>2
    <3>3. file'.present /\ file'.rows = read \cup page
      BY <3>1, <2>2, <1>5
    <3> QED BY <3>2, <3>3, <2>3 DEF Whole
  <2>7. ASSUME NEW v \in Exporters
        PROVE  /\ ReadsOn(v)'
               /\ exporter'[v].pc \in {"stat", "complete"} => record'.status = "processing" /\ Whole'
    <3>1. CASE v = w
      BY <3>1, <2>2, <2>5, <2>6, <1>0, <1>4
    <3>2. CASE v # w
      <4>1. exporter'[v].pc = "idle"
        BY <3>2, <2>1
      <4> QED BY <4>1 DEF ReadsOn
    <3> QED BY <3>1, <3>2
  <2>8. record'.status = "processing"
    BY <2>2, <1>0
  <2> QED BY <2>7, <2>8 DEF FileFollows
<1>9. StatusFollows'
  BY <1>0, <1>4 DEF ExportInv, StatusFollows
<1> QED BY <1>6, <1>7, <1>8, <1>9 DEF ExportInv

LEMMA LoseLockKeeps ==
  ASSUME ExportInv, LoseExportLock
  PROVE  ExportInv'
<1>0. /\ ExportTypes /\ overtaken' = TRUE
      /\ UNCHANGED <<rowVars, format, record, exporter, file, deletion, opened, cutOff>>
  BY DEF ExportInv, LoseExportLock
<1>1. /\ exportJob' \in [state : {"none", "waiting", "active"} \cup Settled,
                         holder : Exporters \cup {NoExporter}, attempts : Nat, stalls : Nat]
      /\ exportJob'.state = exportJob.state
  BY <1>0 DEF LoseExportLock, ExportTypes
<1>2. ExportTypes'
  BY <1>0, <1>1 DEF ExportTypes, rowVars
<1> QED BY <1>0, <1>1, <1>2 DEF ExportInv, FileFollows, StatusFollows

LEMMA RequeueKeeps ==
  ASSUME ExportInv, RequeueStalledExport
  PROVE  ExportInv'
<1>0. /\ ExportTypes /\ exportJob.state = "active" /\ exportJob.holder = NoExporter
      /\ UNCHANGED <<rowVars, format, record, exporter, file, deletion, opened, overtaken, cutOff>>
  BY DEF ExportInv, RequeueStalledExport
<1>1. PICK state \in {"waiting", "failed"} :
        exportJob' = [exportJob EXCEPT !.stalls = @ + 1, !.state = state]
  BY DEF RequeueStalledExport
<1>2. exportJob.stalls + 1 \in Nat
  BY <1>0 DEF ExportTypes
<1>3. /\ exportJob' \in [state : {"none", "waiting", "active"} \cup Settled,
                         holder : Exporters \cup {NoExporter}, attempts : Nat, stalls : Nat]
      /\ exportJob'.state = state
  BY <1>0, <1>1, <1>2 DEF ExportTypes, Settled
<1>4. ExportTypes'
  BY <1>0, <1>3 DEF ExportTypes, rowVars
<1>5. ASSUME ~overtaken PROVE cutOff /\ \A w \in Exporters : exporter[w].pc = "idle"
  BY <1>5, <1>0, ExportAssumption DEF ExportInv, OneExecution, StatusFollows
<1>6. ~overtaken' => OneExecution'
  BY <1>0, <1>5 DEF OneExecution
<1>7. FileFollows'
  BY <1>0, OwedStays DEF ExportInv, FileFollows, ReadsOn, Deleting, Whole
<1>8. StatusFollows'
  BY <1>0, <1>3, <1>5 DEF ExportInv, StatusFollows
<1> QED BY <1>4, <1>6, <1>7, <1>8 DEF ExportInv

LEMMA ExportInvInit ==
  ASSUME ExportInit
  PROVE  ExportInv
<1> DEFINE fresh == [pc |-> "idle", offset |-> 0, rows |-> {}]
<1>1. fresh \in ExporterState /\ fresh.pc = "idle"
  BY DEF ExporterState
<1>2. exporter = [w \in Exporters |-> fresh]
  BY DEF ExportInit
<1> HIDE DEF fresh
<1>3. exporter \in [Exporters -> ExporterState] /\ \A w \in Exporters : exporter[w].pc = "idle"
  BY <1>1, <1>2
<1>4. /\ arrival \in [Rows -> Nat] /\ dropped = {} /\ opened = {} /\ ~overtaken /\ cutOff = FALSE
      /\ overtaken = FALSE
      /\ record = [status |-> "none", filePath |-> FALSE]
      /\ exportJob = [state |-> "none", holder |-> NoExporter, attempts |-> 0, stalls |-> 0]
      /\ file = [present |-> FALSE, rows |-> {}]
  BY ExportAssumption DEF ExportInit
<1>5. ExportTypes
  BY <1>3, <1>4 DEF ExportTypes
<1>6. OneExecution /\ FileFollows /\ StatusFollows
  BY <1>3, <1>4 DEF OneExecution, FileFollows, ReadsOn, StatusFollows, Settled
<1> QED BY <1>5, <1>6 DEF ExportInv

LEMMA ExportInvStep ==
  ASSUME ExportInv, [ExportNext]_exportVars
  PROVE  ExportInv'
<1>1. CASE UNCHANGED exportVars
  <2>1. UNCHANGED <<arrival, dropped, format, record, exportJob, exporter, file, deletion,
                    opened, overtaken, cutOff>>
    BY <1>1 DEF exportVars, rowVars
  <2>2. ExportTypes' /\ OneExecution' = OneExecution /\ StatusFollows' = StatusFollows
    BY <2>1 DEF ExportInv, ExportTypes, OneExecution, StatusFollows
  <2>3. FileFollows'
    <3>1. Owed' = Owed /\ \A r : Newer(r)' = Newer(r)
      BY <2>1, OwedStays DEF rowVars
    <3> QED BY <3>1, <2>1 DEF ExportInv, FileFollows, ReadsOn, Deleting, Whole
  <2> QED BY <2>1, <2>2, <2>3 DEF ExportInv
<1>2. ASSUME NEW r \in Rows, RowArrives(r) \/ OldestRowDropped(r) PROVE ExportInv'
  BY <1>2, RowsKeep
<1>3. CASE RequestExport
  BY <1>3, RequestKeeps
<1>4. CASE DeleteRead \/ DeleteFile \/ DeleteRow
  BY <1>4, DeletionKeeps
<1>5. ASSUME NEW w \in Exporters,
             \/ TakeExport(w) \/ BeginExport(w) \/ ReadPage(w) \/ QueryFails(w) \/ WriteFails(w)
             \/ StatFile(w) \/ CompleteRecord(w) \/ FailRecord(w) \/ EndExport(w)
             \/ ExporterDies(w)
      PROVE  ExportInv'
  BY <1>5, TakeExportKeeps, BeginKeeps, ReadKeeps, QueryKeeps, StatKeeps, CompleteKeeps,
     FailRecordKeeps, EndKeeps
<1>6. CASE LoseExportLock
  BY <1>6, LoseLockKeeps
<1>7. CASE RequeueStalledExport
  BY <1>7, RequeueKeeps
<1> QED BY <1>1, <1>2, <1>3, <1>4, <1>5, <1>6, <1>7 DEF ExportNext

LEMMA ExportInvTells ==
  ASSUME ExportInv
  PROVE  RecordTellsTruth
<1>1. CompletedIsWhole
  <2> SUFFICES ASSUME record.status = "completed", deletion = "idle", ~overtaken
               PROVE  /\ file.present
                      /\ \A r \in opened \cap Present :
                           (\A s \in Rows \ {r} : arrival[s] # arrival[r]) => r \in file.rows
    BY DEF CompletedIsWhole
  <2>1. Whole
    BY DEF ExportInv, FileFollows, Deleting
  <2> QED BY <2>1 DEF Whole, Owed
<1>2. RecordAgrees
  BY DEF RecordAgrees, ExportInv, StatusFollows
<1> QED BY <1>1, <1>2 DEF RecordTellsTruth

\* What the record of an export says is so, for any table, page size, number of
\* executions and faults: while no execution overtakes another, the file of a
\* completed export holds every row that was there from the first page on and
\* stays, and the status agrees with the settled job.  Pages in descending order
\* of time only ever push an unread row further back, so as many rows as were
\* skipped are newer than it.
THEOREM ExportRecordsTellTruth == ExportSpec => []RecordTellsTruth
<1>1. ExportInit => ExportInv
  BY ExportInvInit
<1>2. ExportInv /\ [ExportNext]_exportVars => ExportInv'
  BY ExportInvStep
<1>3. ExportInv => RecordTellsTruth
  BY ExportInvTells
<1> QED BY <1>1, <1>2, <1>3, PTL DEF ExportSpec

-----------------------------------------------------------------------------
(* Types of the export *)

\* A job that may run again has attempts and a stall left, and a job that is held
\* is active.
JobCounted ==
  /\ exportJob.attempts <= MaxExportAttempts /\ exportJob.stalls <= 2
  /\ exportJob.state \notin Settled => exportJob.attempts < MaxExportAttempts /\ exportJob.stalls < 2
  /\ exportJob.holder # NoExporter => exportJob.state = "active"

ExportBounds ==
  /\ JobCounted
  /\ arrival \in [Rows -> 0 .. MaxRowTime] /\ format \in Formats
  /\ deletion \in {"idle", "unlink", "row", "refused"}

ExportTypeInv == ExportInv /\ ExportBounds

LEMMA ExportTypeInvInit == ExportInit => ExportTypeInv
<1> SUFFICES ASSUME ExportInit PROVE ExportBounds
  BY ExportInvInit DEF ExportTypeInv
<1>1. JobCounted
  BY ExportAssumption DEF ExportInit, JobCounted, Settled
<1> QED BY <1>1 DEF ExportInit, ExportBounds

\* The fields of the job one by one
LEMMA JobFieldTypes ==
  ASSUME ExportTypes
  PROVE  /\ exportJob.attempts \in Nat /\ exportJob.stalls \in Nat
         /\ exportJob.holder \in Exporters \cup {NoExporter}
         /\ exportJob.state \in {"none", "waiting", "active"} \cup Settled
BY DEF ExportTypes

LEMMA HolderLeaves ==
  ASSUME ExportTypes, JobCounted, exportJob' = [exportJob EXCEPT !.holder = NoExporter]
  PROVE  JobCounted'
<1>1. /\ exportJob'.attempts = exportJob.attempts /\ exportJob'.stalls = exportJob.stalls
      /\ exportJob'.holder = NoExporter /\ exportJob'.state = exportJob.state
  BY DEF ExportTypes
<1> QED BY <1>1 DEF JobCounted

LEMMA ExportBoundsStep ==
  ASSUME ExportTypeInv, ExportNext
  PROVE  ExportBounds'
<1>0. ExportTypes /\ ExportBounds /\ MaxExportAttempts \in Nat \ {0}
  BY ExportAssumption DEF ExportTypeInv, ExportInv
<1>a. ASSUME JobCounted', UNCHANGED <<arrival, format, deletion>> PROVE ExportBounds'
  BY <1>0, <1>a DEF ExportBounds
<1>b. ASSUME UNCHANGED <<exportJob, arrival, format, deletion>> PROVE ExportBounds'
  BY <1>0, <1>b DEF ExportBounds, JobCounted
<1>1. ASSUME NEW r \in Rows, RowArrives(r) PROVE ExportBounds'
  <2>1. JobCounted'
    BY <1>0, <1>1 DEF RowArrives, ExportBounds, JobCounted
  <2>2. arrival' \in [Rows -> 0 .. MaxRowTime]
    BY <1>0, <1>1, ExportAssumption DEF RowArrives, ExportBounds
  <2> QED BY <2>1, <2>2, <1>0, <1>1 DEF RowArrives, ExportBounds
<1>2. ASSUME NEW r \in Rows, OldestRowDropped(r) PROVE ExportBounds'
  BY <1>2, <1>b DEF OldestRowDropped
<1>3. CASE RequestExport
  <2>1. JobCounted'
    <3>1. CASE UNCHANGED exportJob
      BY <3>1, <1>0 DEF ExportBounds, JobCounted
    <3>2. CASE exportJob' = [exportJob EXCEPT !.state = "waiting"]
      <4>1. /\ exportJob'.attempts = exportJob.attempts /\ exportJob'.stalls = exportJob.stalls
            /\ exportJob'.holder = exportJob.holder /\ exportJob'.state = "waiting"
        BY <3>2, <1>0 DEF ExportTypes
      <4>2. exportJob.state = "none"
        BY <1>3 DEF RequestExport, ExportTypeInv, ExportInv, StatusFollows
      <4>3. "none" \notin Settled /\ "none" # "active"
        BY DEF Settled
      <4> QED BY <4>1, <4>2, <4>3, <1>0 DEF ExportBounds, JobCounted
    <3> QED BY <3>1, <3>2, <1>3 DEF RequestExport
  <2> QED BY <2>1, <1>3, <1>a DEF RequestExport, rowVars
<1>4. CASE DeleteRead \/ DeleteFile \/ DeleteRow
  <2>1. UNCHANGED <<exportJob, arrival, format>> /\ deletion' \in {"idle", "unlink", "row", "refused"}
    BY <1>4 DEF DeleteRead, DeleteFile, DeleteRow, rowVars
  <2> QED BY <2>1, <1>0 DEF ExportBounds, JobCounted
<1>5. ASSUME NEW w \in Exporters, TakeExport(w) PROVE ExportBounds'
  <2>1. exportJob' = [exportJob EXCEPT !.state = "active", !.holder = w] /\ exportJob.state = "waiting"
    BY <1>5 DEF TakeExport
  <2>2. /\ exportJob'.attempts = exportJob.attempts /\ exportJob'.stalls = exportJob.stalls
        /\ exportJob'.state = "active"
    BY <2>1, <1>0 DEF ExportTypes
  <2>3. JobCounted'
    BY <2>1, <2>2, <1>0 DEF ExportBounds, JobCounted, Settled
  <2> QED BY <2>3, <1>5, <1>a DEF TakeExport, rowVars
<1>c. ASSUME NEW w \in Exporters, Dies(w) PROVE JobCounted'
  <2>1. CASE exportJob' = exportJob
    BY <2>1, <1>0 DEF ExportBounds, JobCounted
  <2>2. CASE exportJob' = [exportJob EXCEPT !.holder = NoExporter]
    BY <2>2, <1>0, HolderLeaves DEF ExportBounds
  <2> QED BY <2>1, <2>2, <1>c DEF Dies
<1>6. ASSUME NEW w \in Exporters,
             BeginExport(w) \/ ReadPage(w) \/ WriteFails(w) \/ StatFile(w) \/ CompleteRecord(w) \/ FailRecord(w)
      PROVE  ExportBounds'
  <2>1. UNCHANGED <<exportJob, rowVars, format, deletion>>
    BY <1>6 DEF BeginExport, ReadPage, WriteFails, StatFile, CompleteRecord, FailRecord
  <2> QED BY <2>1, <1>b DEF rowVars
<1>7. ASSUME NEW w \in Exporters, QueryFails(w) PROVE ExportBounds'
  <2>1. UNCHANGED <<rowVars, format, deletion>> /\ (UNCHANGED exportJob \/ Dies(w))
    BY <1>7 DEF QueryFails
  <2> QED BY <2>1, <1>a, <1>b, <1>c DEF rowVars
<1>8. ASSUME NEW w \in Exporters, EndExport(w) PROVE ExportBounds'
  <2>0. UNCHANGED <<rowVars, format, deletion>>
    BY <1>8 DEF EndExport
  <2>1. CASE exportJob' = exportJob
    BY <2>0, <2>1, <1>b DEF rowVars
  <2>2. CASE exportJob.holder = w /\ exportJob' = [exportJob EXCEPT !.state = "completed", !.holder = NoExporter]
    <3>1. /\ exportJob'.attempts = exportJob.attempts /\ exportJob'.stalls = exportJob.stalls
          /\ exportJob'.state = "completed" /\ exportJob'.holder = NoExporter
      BY <2>2, <1>0 DEF ExportTypes
    <3>2. JobCounted'
      BY <3>1, <1>0 DEF ExportBounds, JobCounted, Settled
    <3> QED BY <3>2, <2>0, <1>a DEF rowVars
  <2>3. CASE /\ exportJob.holder = w
             /\ exportJob' = [exportJob EXCEPT
                 !.attempts = exportJob.attempts + 1, !.holder = NoExporter,
                 !.state = IF exportJob.attempts + 1 < MaxExportAttempts THEN "waiting" ELSE "failed"]
    <3>1. /\ exportJob'.attempts = exportJob.attempts + 1 /\ exportJob'.stalls = exportJob.stalls
          /\ exportJob'.state = IF exportJob.attempts + 1 < MaxExportAttempts THEN "waiting" ELSE "failed"
          /\ exportJob'.holder = NoExporter
      BY <2>3, <1>0 DEF ExportTypes
    <3>2. exportJob.state = "active"
      BY <2>3, <1>0, ExportAssumption DEF ExportBounds, JobCounted
    <3>3. /\ exportJob.attempts < MaxExportAttempts /\ exportJob.stalls < 2
          /\ exportJob.attempts \in Nat /\ exportJob.stalls \in Nat
      BY <3>2, <1>0, JobFieldTypes DEF ExportBounds, JobCounted, Settled
    <3>4. JobCounted'
      BY <3>1, <3>3, <1>0 DEF JobCounted, Settled
    <3> QED BY <3>4, <2>0, <1>a DEF rowVars
  <2> QED BY <2>1, <2>2, <2>3, <1>8 DEF EndExport
<1>9. ASSUME NEW w \in Exporters, ExporterDies(w) PROVE ExportBounds'
  BY <1>9, <1>a, <1>c DEF ExporterDies, rowVars
<1>10. CASE LoseExportLock
  <2>1. JobCounted'
    BY <1>10, <1>0, HolderLeaves DEF LoseExportLock, ExportBounds
  <2> QED BY <2>1, <1>10, <1>a DEF LoseExportLock, rowVars
<1>11. CASE RequeueStalledExport
  <2>1. exportJob' = [exportJob EXCEPT !.stalls = exportJob.stalls + 1,
                        !.state = IF exportJob.stalls = 0 THEN "waiting" ELSE "failed"]
        /\ exportJob.state = "active" /\ exportJob.holder = NoExporter
    BY <1>11 DEF RequeueStalledExport
  <2>2. /\ exportJob'.attempts = exportJob.attempts /\ exportJob'.stalls = exportJob.stalls + 1
        /\ exportJob'.state = IF exportJob.stalls = 0 THEN "waiting" ELSE "failed"
        /\ exportJob'.holder = NoExporter
    BY <2>1, <1>0 DEF ExportTypes
  <2>3. /\ exportJob.attempts < MaxExportAttempts /\ exportJob.stalls < 2
        /\ exportJob.attempts \in Nat /\ exportJob.stalls \in Nat
    BY <2>1, <1>0, JobFieldTypes DEF ExportBounds, JobCounted, Settled
  <2>4. JobCounted'
    BY <2>2, <2>3, <1>0 DEF JobCounted, Settled
  <2> QED BY <2>4, <1>11, <1>a DEF RequeueStalledExport, rowVars
<1> QED BY <1>1, <1>2, <1>3, <1>4, <1>5, <1>6, <1>7, <1>8, <1>9, <1>10, <1>11 DEF ExportNext

LEMMA ExportTypeInvStep ==
  ASSUME ExportTypeInv, [ExportNext]_exportVars
  PROVE  ExportTypeInv'
<1>1. ExportInv'
  BY ExportInvStep DEF ExportTypeInv
<1>2. CASE ExportNext
  BY <1>1, <1>2, ExportBoundsStep DEF ExportTypeInv
<1>3. CASE UNCHANGED exportVars
  BY <1>1, <1>3 DEF ExportTypeInv, ExportBounds, JobCounted, exportVars, rowVars
<1> QED BY <1>2, <1>3

LEMMA ExportTypeInvTypes == ExportTypeInv => ExportTypeOK
<1> SUFFICES ASSUME ExportTypeInv PROVE ExportTypeOK
  OBVIOUS
<1>0. ExportTypes /\ ExportBounds /\ MaxExportAttempts \in Nat \ {0}
  BY ExportAssumption DEF ExportTypeInv, ExportInv
<1>1. exportJob.attempts \in 0..MaxExportAttempts /\ exportJob.stalls \in 0..2
  BY <1>0, JobFieldTypes DEF ExportBounds, JobCounted
<1>2. exportJob \in [state : {"none", "waiting", "active"} \cup Settled,
                     holder : Exporters \cup {NoExporter},
                     attempts : 0..MaxExportAttempts, stalls : 0..2]
  BY <1>0, <1>1 DEF ExportTypes
<1>3. opened \subseteq Rows
  BY <1>0 DEF ExportTypes
<1> QED BY <1>0, <1>2, <1>3 DEF ExportTypes, ExportBounds, ExportTypeOK, ExporterState

\* The types of the state, for any values of the constants.
LEMMA ExportTypeCorrect == ExportSpec => []ExportTypeOK
<1>1. ExportTypeInv => ExportTypeOK
  BY ExportTypeInvTypes
<1> QED BY <1>1, ExportTypeInvInit, ExportTypeInvStep, PTL DEF ExportSpec

-----------------------------------------------------------------------------
(***************************************************************************)
(* The broadcast of alerts: any instances, clients and alerts, any number  *)
(* of fetches at a time, any limit of a fetch.                             *)
(***************************************************************************)

FetchState == [pc : {"idle", "query", "rows", "send", "publish"}, rows : SUBSET Alerts]

BroadcastTypes ==
  /\ time \in [Alerts -> Nat]
  /\ isActive \in [Instances -> BOOLEAN]
  /\ home \in [Clients -> Instances \cup {NoHome}] /\ left \subseteq Clients
  /\ subscribers \in [Instances -> SUBSET Clients]
  /\ lastSeenAt \in [Instances -> Nat]
  /\ fetch \in [Instances -> [Fetches -> FetchState]]
  /\ inbox \in [Instances -> Seq(Alerts)]
  /\ received \in [Clients -> [Alerts -> Nat]]
  /\ sentBy \in [Alerts -> SUBSET Instances]
  /\ \A a \in Alerts : IsFiniteSet(sentBy[a])

\* How often a sequence holds an alert
Copies(s, a) == Cardinality({k \in 1 .. Len(s) : s[k] = a})

\* The alerts a fetch still has to broadcast
ToSend(i, f) == IF fetch[i][f].pc \in {"send", "publish"} THEN fetch[i][f].rows ELSE {}

\* What an instance has broadcast or is about to is not past its cursor, and what
\* it is about to broadcast it has not broadcast, nor will another of its fetches.
CursorKeeps ==
  \A i \in Instances :
    /\ \A a \in Alerts : i \in sentBy[a] => time[a] > 0 /\ time[a] <= lastSeenAt[i]
    /\ \A f \in Fetches : fetch[i][f].rows \subseteq Inserted
    /\ \A f \in Fetches : \A a \in ToSend(i, f) :
         /\ time[a] <= lastSeenAt[i] /\ i \notin sentBy[a]
         /\ \A g \in Fetches \ {f} : a \notin ToSend(i, g)

\* What an instance's own broadcast adds
Own(c, a) == IF home[c] \in sentBy[a] THEN 1 ELSE 0

\* What was sent to a client, with what its instance has yet to receive
CopiesCounted ==
  \A a \in Alerts :
    /\ \A i \in Instances : Copies(inbox[i], a) <= Cardinality(sentBy[a])
    /\ \A c \in Clients :
         /\ home[c] # NoHome =>
              received[c][a] + Copies(inbox[home[c]], a) <= Cardinality(sentBy[a]) + Own(c, a)
         /\ (home[c] = NoHome /\ c \notin left) => received[c][a] = 0
         /\ c \in left => home[c] = NoHome /\ received[c][a] <= Cardinality(sentBy[a]) + 1

BroadcastInv == BroadcastTypes /\ CursorKeeps /\ CopiesCounted /\ PollsForItsSubscribers

-----------------------------------------------------------------------------
(* Counting *)

LEMMA CopiesType ==
  ASSUME NEW s \in Seq(Alerts), NEW a
  PROVE  IsFiniteSet({k \in 1 .. Len(s) : s[k] = a}) /\ Copies(s, a) \in Nat
<1>1. IsFiniteSet(1 .. Len(s))
  BY FS_Interval, LenProperties
<1>2. {k \in 1 .. Len(s) : s[k] = a} \in SUBSET (1 .. Len(s))
  OBVIOUS
<1> QED BY <1>1, <1>2, FS_Subset, FS_CardinalityType DEF Copies

LEMMA CopiesOfEmpty == \A a : Copies(<<>>, a) = 0
<1> TAKE a
<1>1. {k \in 1 .. Len(<<>>) : (<<>>)[k] = a} = {}
  OBVIOUS
<1> QED BY <1>1, FS_EmptySet DEF Copies

LEMMA CopiesAppend ==
  ASSUME NEW s \in Seq(Alerts), NEW b \in Alerts, NEW a
  PROVE  Copies(Append(s, b), a) = IF a = b THEN Copies(s, a) + 1 ELSE Copies(s, a)
<1> DEFINE K == {k \in 1 .. Len(s) : s[k] = a}
           L == {k \in 1 .. Len(Append(s, b)) : Append(s, b)[k] = a}
<1>1. PICK n \in Nat : n = Len(s)
  BY LenProperties
<1>2. /\ Len(Append(s, b)) = n + 1 /\ Append(s, b)[n + 1] = b
      /\ \A k \in 1 .. n : Append(s, b)[k] = s[k]
  BY <1>1
<1>3. L = IF a = b THEN K \cup {n + 1} ELSE K
  BY <1>1, <1>2
<1>4. n + 1 \notin K
  BY <1>1
<1>5. IsFiniteSet(K)
  BY CopiesType
<1>6. Cardinality(K) = Copies(s, a) /\ Cardinality(L) = Copies(Append(s, b), a)
  BY DEF Copies
<1> HIDE DEF K, L
<1> QED BY <1>3, <1>4, <1>5, <1>6, FS_AddElement

LEMMA CopiesTail ==
  ASSUME NEW s \in Seq(Alerts), s # <<>>, NEW a
  PROVE  Copies(s, a) = IF a = Head(s) THEN Copies(Tail(s), a) + 1 ELSE Copies(Tail(s), a)
<1> DEFINE t == Tail(s)
           K == {k \in 1 .. Len(t) : t[k] = a}
           L == {k \in 1 .. Len(s) : s[k] = a}
<1>1. PICK n \in Nat : n = Len(t)
  BY HeadTailProperties, LenProperties
<1>2. /\ t \in Seq(Alerts) /\ Len(s) = n + 1 /\ Head(s) = s[1]
      /\ \A k \in 1 .. n : t[k] = s[k + 1]
  BY <1>1, HeadTailProperties, LenProperties
<1> HIDE DEF t
<1>3. L \ {1} = {k \in 2 .. n + 1 : s[k] = a}
  BY <1>2
<1>4. /\ IsFiniteSet(K) /\ IsFiniteSet(L)
  BY <1>2, CopiesType
<1> DEFINE f == [k \in K |-> k + 1]
<1>5. f \in Bijection(K, L \ {1})
  <2>1. f \in [K -> L \ {1}]
    BY <1>1, <1>2, <1>3
  <2>2. \A k, l \in K : f[k] = f[l] => k = l
    BY <1>1
  <2>3. \A m \in L \ {1} : \E k \in K : f[k] = m
    <3> TAKE m \in L \ {1}
    <3>1. m \in 2 .. n + 1 /\ s[m] = a
      BY <1>3
    <3>2. m - 1 \in K
      BY <3>1, <1>1, <1>2
    <3> QED BY <3>1, <3>2
  <2> HIDE DEF K, L, f
  <2> QED BY <2>1, <2>2, <2>3, Fun_IsBij
<1>6. Cardinality(L \ {1}) = Cardinality(K)
  BY <1>4, <1>5, FS_Bijection DEF ExistsBijection
<1>7. 1 \in L <=> a = Head(s)
  BY <1>1, <1>2
<1>8. Cardinality(K) = Copies(t, a) /\ Cardinality(L) = Copies(s, a) /\ Cardinality(L) \in Nat
  BY <1>2, CopiesType DEF Copies
<1> HIDE DEF K, L
<1>9. Cardinality(L \ {1}) = IF 1 \in L THEN Cardinality(L) - 1 ELSE Cardinality(L)
  BY <1>4, FS_RemoveElement
<1>10. Copies(t, a) \in Nat
  BY <1>2, CopiesType
<1> QED BY <1>6, <1>7, <1>8, <1>9, <1>10 DEF t

LEMMA SentType ==
  ASSUME BroadcastTypes
  PROVE  \A a \in Alerts : IsFiniteSet(sentBy[a]) /\ Cardinality(sentBy[a]) \in Nat
BY FS_CardinalityType DEF BroadcastTypes

-----------------------------------------------------------------------------
(* Steps *)

LEMMA CountsStay ==
  ASSUME UNCHANGED <<home, left, inbox, received, sentBy>>
  PROVE  CopiesCounted' = CopiesCounted
BY DEF CopiesCounted, Copies, Own

LEMMA FetchFields ==
  ASSUME BroadcastTypes, NEW i \in Instances, NEW f \in Fetches
  PROVE  fetch[i][f] \in FetchState /\ fetch[i][f].rows \in SUBSET Alerts /\ lastSeenAt[i] \in Nat
BY DEF BroadcastTypes, FetchState

LEMMA NoFetchType == NoFetch \in FetchState /\ NoFetch.pc = "idle" /\ NoFetch.rows = {}
BY DEF NoFetch, FetchState

\* A fetch moves and sends nothing: what it keeps to be sent it had before.
LEMMA FetchMoves ==
  ASSUME BroadcastInv, NEW i \in Instances, NEW f \in Fetches, NEW t \in FetchState,
         fetch' = [fetch EXCEPT ![i][f] = t],
         t.rows \subseteq Inserted,
         t.pc \in {"send", "publish"} => t.rows \subseteq ToSend(i, f),
         UNCHANGED <<time, lastSeenAt, sentBy>>
  PROVE  CursorKeeps' /\ fetch' \in [Instances -> [Fetches -> FetchState]]
<1>0. BroadcastTypes /\ CursorKeeps
  BY DEF BroadcastInv
<1>1. /\ fetch' \in [Instances -> [Fetches -> FetchState]] /\ fetch'[i][f] = t
      /\ \A j \in Instances, g \in Fetches : j # i \/ g # f => fetch'[j][g] = fetch[j][g]
  BY <1>0 DEF BroadcastTypes
<1>2. \A j \in Instances, g \in Fetches : ToSend(j, g)' \subseteq ToSend(j, g)
  <2> TAKE j \in Instances, g \in Fetches
  <2>1. CASE j = i /\ g = f
    BY <2>1, <1>1 DEF ToSend
  <2>2. CASE j # i \/ g # f
    BY <2>2, <1>1 DEF ToSend
  <2> QED BY <2>1, <2>2
<1>3. Inserted' = Inserted
  BY DEF Inserted
<1>4. \A j \in Instances, g \in Fetches : fetch'[j][g].rows \subseteq Inserted
  BY <1>0, <1>1 DEF CursorKeeps
<1> HIDE DEF ToSend
<1> QED BY <1>0, <1>1, <1>2, <1>3, <1>4 DEF CursorKeeps

LEMMA BroadcastInitially ==
  ASSUME BroadcastInit
  PROVE  BroadcastInv
<1>1. BroadcastTypes
  BY NoFetchType, FS_EmptySet DEF BroadcastInit, BroadcastTypes
<1>2. CursorKeeps
  BY NoFetchType DEF BroadcastInit, CursorKeeps, ToSend
<1>3. CopiesCounted
  <2>1. \A a \in Alerts : Cardinality(sentBy[a]) = 0
    BY FS_EmptySet DEF BroadcastInit
  <2> QED BY <2>1, CopiesOfEmpty DEF BroadcastInit, CopiesCounted, Own
<1>4. PollsForItsSubscribers
  BY DEF BroadcastInit, PollsForItsSubscribers
<1> QED BY <1>1, <1>2, <1>3, <1>4 DEF BroadcastInv

LEMMA AlertInsertedKeeps ==
  ASSUME BroadcastInv, NEW a \in Alerts, AlertInserted(a)
  PROVE  BroadcastInv'
<1>0. BroadcastTypes /\ CursorKeeps /\ CopiesCounted /\ PollsForItsSubscribers
  BY DEF BroadcastInv
<1>1. UNCHANGED <<fetch, lastSeenAt, sentBy, home, left, inbox, received, subscribers, isActive>>
  BY DEF AlertInserted, wsVars, pollingVars
<1>2. time[a] = 0
  BY DEF AlertInserted
<1>3. PICK t \in 1 .. MaxTime : time' = [time EXCEPT ![a] = t]
  BY DEF AlertInserted
<1>4. /\ time' \in [Alerts -> Nat] /\ time'[a] > 0
      /\ \A b \in Alerts \ {a} : time'[b] = time[b]
  BY <1>0, <1>3 DEF BroadcastTypes
<1>5. BroadcastTypes'
  BY <1>0, <1>1, <1>4 DEF BroadcastTypes
<1>6. Inserted \subseteq Inserted' /\ a \notin Inserted
  <2>1. \A b \in Inserted : b \in Alerts \ {a} /\ time[b] > 0
    BY <1>2 DEF Inserted
  <2>2. \A b \in Inserted : time'[b] > 0
    BY <2>1, <1>4
  <2> QED BY <2>1, <2>2 DEF Inserted
<1>7. CursorKeeps'
  <2>1. \A i \in Instances, f \in Fetches : ToSend(i, f)' = ToSend(i, f) /\ a \notin ToSend(i, f)
    BY <1>0, <1>1, <1>6 DEF ToSend, CursorKeeps
  <2>2. \A i \in Instances, f \in Fetches : ToSend(i, f) \subseteq Alerts
    BY <1>0, FetchFields DEF ToSend
  <2>3. \A i \in Instances, f \in Fetches : fetch'[i][f].rows \subseteq Inserted'
    BY <1>0, <1>1, <1>6 DEF CursorKeeps
  <2>4. \A i \in Instances, b \in Alerts :
          i \in sentBy'[b] => time'[b] > 0 /\ time'[b] <= lastSeenAt'[i]
    <3> TAKE i \in Instances, b \in Alerts
    <3>1. i \in sentBy[b] => time[b] > 0 /\ time[b] <= lastSeenAt[i]
      BY <1>0 DEF CursorKeeps
    <3>2. i \in sentBy[b] => b # a
      BY <3>1, <1>2
    <3> QED BY <1>1, <1>4, <3>1, <3>2
  <2>5. \A i \in Instances, f \in Fetches : \A b \in ToSend(i, f) :
          /\ time'[b] <= lastSeenAt[i] /\ i \notin sentBy[b]
          /\ \A g \in Fetches \ {f} : b \notin ToSend(i, g)
    BY <1>0, <1>4, <2>1, <2>2 DEF CursorKeeps
  <2> QED BY <1>1, <2>1, <2>3, <2>4, <2>5 DEF CursorKeeps
<1>8. CopiesCounted' /\ PollsForItsSubscribers'
  BY <1>0, <1>1, CountsStay DEF PollsForItsSubscribers
<1> QED BY <1>5, <1>7, <1>8 DEF BroadcastInv

\* The fetches are as they were
LEMMA CursorStays ==
  ASSUME CursorKeeps, UNCHANGED <<time, lastSeenAt, fetch, sentBy>>
  PROVE  CursorKeeps'
<1>1. Inserted' = Inserted /\ \A i, f : ToSend(i, f)' = ToSend(i, f)
  BY DEF Inserted, ToSend
<1> QED BY <1>1 DEF CursorKeeps

LEMMA StutterKeeps ==
  ASSUME BroadcastInv, UNCHANGED broadcastVars
  PROVE  BroadcastInv'
<1> USE DEF broadcastVars, wsVars, pollingVars
<1>1. BroadcastTypes'
  BY DEF BroadcastInv, BroadcastTypes
<1>2. PollsForItsSubscribers'
  BY DEF BroadcastInv, PollsForItsSubscribers
<1> QED BY <1>1, <1>2, CursorStays, CountsStay DEF BroadcastInv

LEMMA RedisReadyKeeps ==
  ASSUME BroadcastInv, NEW i \in Instances, RedisReady(i)
  PROVE  BroadcastInv'
<1> USE DEF RedisReady, wsVars, pollingVars
<1>1. BroadcastTypes'
  BY DEF BroadcastInv, BroadcastTypes
<1>2. PollsForItsSubscribers'
  BY DEF BroadcastInv, PollsForItsSubscribers
<1> QED BY <1>1, <1>2, CursorStays, CountsStay DEF BroadcastInv

LEMMA ConnectKeeps ==
  ASSUME BroadcastInv, NEW c \in Clients, NEW i \in Instances, Connect(c, i)
  PROVE  BroadcastInv'
<1>0. BroadcastTypes /\ CursorKeeps /\ CopiesCounted /\ PollsForItsSubscribers
  BY DEF BroadcastInv
<1>1. UNCHANGED <<time, fetch, lastSeenAt, sentBy, left, inbox, received, subscribers, isActive>>
  BY DEF Connect, pollingVars
<1>2. home[c] = NoHome /\ c \notin left /\ home' = [home EXCEPT ![c] = i]
  BY DEF Connect
<1>3. /\ home' \in [Clients -> Instances \cup {NoHome}] /\ home'[c] = i
      /\ \A d \in Clients \ {c} : home'[d] = home[d]
  BY <1>0, <1>2 DEF BroadcastTypes
<1>4. BroadcastTypes'
  BY <1>0, <1>1, <1>3 DEF BroadcastTypes
<1>5. CopiesCounted'
  <2> SUFFICES ASSUME NEW a \in Alerts
      PROVE  /\ \A j \in Instances : Copies(inbox[j], a) <= Cardinality(sentBy[a])
             /\ \A d \in Clients :
                  /\ home'[d] # NoHome => received[d][a] + Copies(inbox[home'[d]], a)
                                            <= Cardinality(sentBy[a]) + Own(d, a)'
                  /\ (home'[d] = NoHome /\ d \notin left) => received[d][a] = 0
                  /\ d \in left => home'[d] = NoHome /\ received[d][a] <= Cardinality(sentBy[a]) + 1
    BY <1>1 DEF CopiesCounted, Copies
  <2>1. \A d \in Clients \ {c} : Own(d, a)' = Own(d, a)
    BY <1>1, <1>3 DEF Own
  <2>2. Own(c, a)' \in {0, 1} /\ received[c][a] = 0 /\ Copies(inbox[i], a) \in Nat
    BY <1>0, <1>2, CopiesType DEF Own, CopiesCounted, BroadcastTypes
  <2>3. Cardinality(sentBy[a]) \in Nat
    BY <1>0, SentType
  <2> HIDE DEF Own
  <2>4. received[c][a] + Copies(inbox[i], a) <= Cardinality(sentBy[a]) + Own(c, a)'
    BY <1>0, <2>2, <2>3 DEF CopiesCounted
  <2> QED BY <1>0, <1>2, <1>3, <2>1, <2>4, BroadcastAssumption DEF CopiesCounted
<1>6. PollsForItsSubscribers'
  BY <1>0, <1>1, <1>2, <1>3, BroadcastAssumption DEF PollsForItsSubscribers, BroadcastTypes
<1> QED BY <1>0, <1>1, <1>4, <1>5, <1>6, CursorStays DEF BroadcastInv

LEMMA SubscribeKeeps ==
  ASSUME BroadcastInv, NEW c \in Clients, Subscribe(c)
  PROVE  BroadcastInv'
<1>0. BroadcastTypes /\ CursorKeeps /\ CopiesCounted /\ PollsForItsSubscribers
  BY DEF BroadcastInv
<1> DEFINE i == home[c]
<1>1. UNCHANGED <<time, home, left, lastSeenAt, sentBy, inbox, received>>
  BY DEF Subscribe
<1>2. i \in Instances
  BY <1>0 DEF Subscribe, BroadcastTypes
<1>3. /\ subscribers' = [subscribers EXCEPT ![i] = subscribers[i] \cup {c}]
      /\ isActive' = [isActive EXCEPT ![i] = TRUE]
  BY <1>0, <1>2 DEF Subscribe, BroadcastTypes
<1>4. /\ subscribers' \in [Instances -> SUBSET Clients] /\ isActive' \in [Instances -> BOOLEAN]
      /\ subscribers'[i] = subscribers[i] \cup {c} /\ isActive'[i]
      /\ \A j \in Instances \ {i} : subscribers'[j] = subscribers[j] /\ isActive'[j] = isActive[j]
  BY <1>0, <1>2, <1>3 DEF BroadcastTypes
<1>5. PollsForItsSubscribers'
  BY <1>0, <1>1, <1>2, <1>4 DEF PollsForItsSubscribers
<1>6. CursorKeeps' /\ fetch' \in [Instances -> [Fetches -> FetchState]]
  <2>1. CASE UNCHANGED fetch
    BY <2>1, <1>0, <1>1, CursorStays DEF BroadcastTypes
  <2>2. CASE \E f \in Fetches : fetch[i][f] = NoFetch /\ fetch' = [fetch EXCEPT ![i][f].pc = "query"]
    <3>1. PICK f \in Fetches : fetch[i][f] = NoFetch /\ fetch' = [fetch EXCEPT ![i][f].pc = "query"]
      BY <2>2
    <3> DEFINE t == [NoFetch EXCEPT !.pc = "query"]
    <3>2. t \in FetchState /\ t.pc = "query" /\ t.rows = {}
      BY DEF NoFetch, FetchState
    <3>3. fetch' = [fetch EXCEPT ![i][f] = t]
      BY <3>1
    <3> HIDE DEF t, i
    <3> QED BY <1>1, <1>2, <3>2, <3>3, FetchMoves
  <2> QED BY <2>1, <2>2 DEF Subscribe
<1>7. BroadcastTypes'
  BY <1>0, <1>1, <1>4, <1>6 DEF BroadcastTypes
<1> QED BY <1>0, <1>1, <1>5, <1>6, <1>7, CountsStay DEF BroadcastInv

LEMMA RemoveSubscriberKeeps ==
  ASSUME BroadcastInv, NEW c \in Clients, home[c] # NoHome, RemoveSubscriber(c)
  PROVE  /\ subscribers' \in [Instances -> SUBSET Clients] /\ isActive' \in [Instances -> BOOLEAN]
         /\ \A j \in Instances : (isActive'[j] <=> subscribers'[j] # {})
                                 /\ subscribers'[j] \subseteq subscribers[j] \ {c}
<1>0. BroadcastTypes /\ PollsForItsSubscribers
  BY DEF BroadcastInv
<1> DEFINE i == home[c]
<1>1. i \in Instances
  BY <1>0 DEF BroadcastTypes
<1>2. /\ subscribers' = [subscribers EXCEPT ![i] = subscribers[i] \ {c}]
      /\ isActive' = [isActive EXCEPT ![i] = isActive[i] /\ subscribers[i] \ {c} # {}]
  BY <1>0, <1>1 DEF RemoveSubscriber, BroadcastTypes
<1>3. /\ subscribers' \in [Instances -> SUBSET Clients] /\ isActive' \in [Instances -> BOOLEAN]
      /\ subscribers'[i] = subscribers[i] \ {c}
      /\ isActive'[i] <=> (isActive[i] /\ subscribers[i] \ {c} # {})
      /\ \A j \in Instances \ {i} : subscribers'[j] = subscribers[j] /\ isActive'[j] = isActive[j]
  BY <1>0, <1>1, <1>2 DEF BroadcastTypes
<1>4. isActive[i] <=> subscribers[i] # {}
  BY <1>0, <1>1 DEF PollsForItsSubscribers
<1>5. \A j \in Instances \ {i} : c \notin subscribers[j]
  BY <1>0 DEF PollsForItsSubscribers
<1> HIDE DEF i
<1> QED BY <1>0, <1>1, <1>3, <1>4, <1>5 DEF PollsForItsSubscribers

LEMMA UnsubscribeKeeps ==
  ASSUME BroadcastInv, NEW c \in Clients, Unsubscribe(c)
  PROVE  BroadcastInv'
<1>0. BroadcastTypes /\ CursorKeeps /\ CopiesCounted /\ PollsForItsSubscribers
  BY DEF BroadcastInv
<1>1. UNCHANGED <<time, fetch, lastSeenAt, sentBy, home, left, inbox, received>>
  BY DEF Unsubscribe, pollingVars
<1>2. /\ subscribers' \in [Instances -> SUBSET Clients] /\ isActive' \in [Instances -> BOOLEAN]
      /\ \A j \in Instances : (isActive'[j] <=> subscribers'[j] # {})
                              /\ subscribers'[j] \subseteq subscribers[j] \ {c}
  BY RemoveSubscriberKeeps DEF Unsubscribe
<1>3. BroadcastTypes'
  BY <1>0, <1>1, <1>2 DEF BroadcastTypes
<1>4. PollsForItsSubscribers'
  BY <1>0, <1>1, <1>2 DEF PollsForItsSubscribers
<1> QED BY <1>0, <1>1, <1>3, <1>4, CursorStays, CountsStay DEF BroadcastInv

LEMMA RemoveClientKeeps ==
  ASSUME BroadcastInv, NEW c \in Clients, RemoveClient(c)
  PROVE  BroadcastInv'
<1>0. BroadcastTypes /\ CursorKeeps /\ CopiesCounted /\ PollsForItsSubscribers
  BY DEF BroadcastInv
<1>1. UNCHANGED <<time, fetch, lastSeenAt, sentBy, inbox, received>>
  BY DEF RemoveClient, pollingVars
<1>2. home[c] # NoHome /\ home' = [home EXCEPT ![c] = NoHome] /\ left' = left \cup {c}
  BY DEF RemoveClient
<1>3. /\ home' \in [Clients -> Instances \cup {NoHome}] /\ home'[c] = NoHome
      /\ \A d \in Clients \ {c} : home'[d] = home[d]
  BY <1>0, <1>2 DEF BroadcastTypes
<1>4. /\ subscribers' \in [Instances -> SUBSET Clients] /\ isActive' \in [Instances -> BOOLEAN]
      /\ \A j \in Instances : (isActive'[j] <=> subscribers'[j] # {})
                              /\ subscribers'[j] \subseteq subscribers[j] \ {c}
  BY RemoveSubscriberKeeps DEF RemoveClient
<1>5. BroadcastTypes'
  BY <1>0, <1>1, <1>2, <1>3, <1>4 DEF BroadcastTypes
<1>6. PollsForItsSubscribers'
  BY <1>0, <1>3, <1>4 DEF PollsForItsSubscribers, BroadcastTypes
<1>7. CopiesCounted'
  <2> SUFFICES ASSUME NEW a \in Alerts
      PROVE  /\ \A j \in Instances : Copies(inbox[j], a) <= Cardinality(sentBy[a])
             /\ \A d \in Clients :
                  /\ home'[d] # NoHome => received[d][a] + Copies(inbox[home'[d]], a)
                                            <= Cardinality(sentBy[a]) + Own(d, a)'
                  /\ (home'[d] = NoHome /\ d \notin left') => received[d][a] = 0
                  /\ d \in left' => home'[d] = NoHome /\ received[d][a] <= Cardinality(sentBy[a]) + 1
    BY <1>1 DEF CopiesCounted, Copies
  <2>1. \A d \in Clients \ {c} : Own(d, a)' = Own(d, a)
    BY <1>1, <1>3 DEF Own
  <2>2. /\ Own(c, a) \in {0, 1} /\ received[c][a] \in Nat /\ Copies(inbox[home[c]], a) \in Nat
    BY <1>0, <1>2, CopiesType DEF Own, BroadcastTypes
  <2>3. Cardinality(sentBy[a]) \in Nat
    BY <1>0, SentType
  <2>4. received[c][a] <= Cardinality(sentBy[a]) + 1
    <3>1. received[c][a] + Copies(inbox[home[c]], a) <= Cardinality(sentBy[a]) + Own(c, a)
      BY <1>0, <1>2 DEF CopiesCounted
    <3> QED BY <2>2, <2>3, <3>1
  <2> QED BY <1>0, <1>2, <1>3, <2>1, <2>4 DEF CopiesCounted
<1> QED BY <1>0, <1>1, <1>5, <1>6, <1>7, CursorStays DEF BroadcastInv

\* A fetch moves and nothing else does.
LEMMA FetchOnly ==
  ASSUME BroadcastInv, NEW i \in Instances, NEW f \in Fetches, NEW t \in FetchState,
         fetch' = [fetch EXCEPT ![i][f] = t],
         t.rows \subseteq Inserted,
         t.pc \in {"send", "publish"} => t.rows \subseteq ToSend(i, f),
         UNCHANGED <<time, listening, wsVars, lastSeenAt, sentBy, inbox, received>>
  PROVE  BroadcastInv'
<1> USE DEF wsVars
<1>1. CursorKeeps' /\ fetch' \in [Instances -> [Fetches -> FetchState]]
  BY FetchMoves
<1>2. BroadcastTypes'
  BY <1>1 DEF BroadcastInv, BroadcastTypes
<1>3. PollsForItsSubscribers'
  BY DEF BroadcastInv, PollsForItsSubscribers
<1> QED BY <1>1, <1>2, <1>3, CountsStay DEF BroadcastInv

LEMMA FetchStartKeeps ==
  ASSUME BroadcastInv, NEW i \in Instances, NEW f \in Fetches, FetchStart(i, f)
  PROVE  BroadcastInv'
<1> DEFINE t == [NoFetch EXCEPT !.pc = "query"]
<1>1. t \in FetchState /\ t.pc = "query" /\ t.rows = {}
  BY DEF NoFetch, FetchState
<1>2. fetch' = [fetch EXCEPT ![i][f] = t]
  BY DEF FetchStart
<1>3. UNCHANGED <<time, listening, wsVars, lastSeenAt, sentBy, inbox, received>>
  BY DEF FetchStart
<1> HIDE DEF t
<1> QED BY <1>1, <1>2, <1>3, FetchOnly

LEMMA FetchRowsKeeps ==
  ASSUME BroadcastInv, NEW i \in Instances, NEW f \in Fetches, FetchRows(i, f)
  PROVE  BroadcastInv'
<1>1. UNCHANGED <<time, listening, wsVars, lastSeenAt, sentBy, inbox, received>>
  BY DEF FetchRows
<1>2. CASE \E found \in SUBSET Inserted : fetch' = [fetch EXCEPT ![i][f] = [pc |-> "rows", rows |-> found]]
  <2>1. PICK found \in SUBSET Inserted : fetch' = [fetch EXCEPT ![i][f] = [pc |-> "rows", rows |-> found]]
    BY <1>2
  <2> DEFINE t == [pc |-> "rows", rows |-> found]
  <2>2. t \in FetchState /\ t.pc = "rows" /\ t.rows \subseteq Inserted
    BY DEF FetchState, Inserted
  <2>3. fetch' = [fetch EXCEPT ![i][f] = t]
    BY <2>1
  <2> HIDE DEF t
  <2> QED BY <1>1, <2>2, <2>3, FetchOnly
<1>3. CASE fetch' = [fetch EXCEPT ![i][f] = NoFetch]
  BY <1>1, <1>3, NoFetchType, FetchOnly
<1> QED BY <1>2, <1>3 DEF FetchRows

LEMMA PublishedKeeps ==
  ASSUME BroadcastInv, NEW i \in Instances, NEW f \in Fetches, Published(i, f)
  PROVE  BroadcastInv'
<1>0. BroadcastTypes /\ CursorKeeps
  BY DEF BroadcastInv
<1>1. UNCHANGED <<time, listening, wsVars, lastSeenAt, sentBy, inbox, received>>
  BY DEF Published
<1>2. fetch[i][f].pc = "publish"
  BY DEF Published
<1> DEFINE t == [fetch[i][f] EXCEPT !.pc = "send"]
<1>3. t \in FetchState /\ t.pc = "send" /\ t.rows = fetch[i][f].rows
  BY <1>0, FetchFields DEF FetchState
<1>4. t.rows \subseteq Inserted /\ t.rows \subseteq ToSend(i, f)
  BY <1>0, <1>2, <1>3 DEF CursorKeeps, ToSend
<1>5. \/ fetch' = [fetch EXCEPT ![i][f] = NoFetch]
      \/ fetch' = [fetch EXCEPT ![i][f] = t]
  BY <1>0 DEF Published, BroadcastTypes
<1> HIDE DEF t
<1>6. CASE fetch' = [fetch EXCEPT ![i][f] = NoFetch]
  BY <1>1, <1>6, NoFetchType, FetchOnly
<1>7. CASE fetch' = [fetch EXCEPT ![i][f] = t]
  BY <1>1, <1>3, <1>4, <1>7, FetchOnly
<1> QED BY <1>5, <1>6, <1>7

\* The rows past the cursor were neither broadcast nor taken by another fetch.
LEMMA FilterNewKeeps ==
  ASSUME BroadcastInv, NEW i \in Instances, NEW f \in Fetches, FilterNew(i, f)
  PROVE  BroadcastInv'
<1>0. BroadcastTypes /\ CursorKeeps /\ CopiesCounted /\ PollsForItsSubscribers
  BY DEF BroadcastInv
<1>1. UNCHANGED <<time, listening, wsVars, sentBy, inbox, received>> /\ fetch[i][f].pc = "rows"
  BY DEF FilterNew
<1> DEFINE new == NewAlerts(i, fetch[i][f].rows)
<1>2. CASE new = {}
  <2>1. fetch' = [fetch EXCEPT ![i][f] = NoFetch] /\ UNCHANGED lastSeenAt
    BY <1>2 DEF FilterNew
  <2> QED BY <1>1, <2>1, NoFetchType, FetchOnly
<1>3. CASE new # {}
  <2>1. PICK latest \in {time[a] : a \in new} :
          (\A a \in new : time[a] <= latest) /\ lastSeenAt' = [lastSeenAt EXCEPT ![i] = latest]
    BY <1>3 DEF FilterNew
  <2> DEFINE t == [pc |-> "send", rows |-> new]
  <2>2. fetch' = [fetch EXCEPT ![i][f] = t]
    BY <1>3 DEF FilterNew
  <2>3. new \subseteq fetch[i][f].rows /\ \A a \in new : time[a] > lastSeenAt[i]
    BY DEF NewAlerts
  <2>4. fetch[i][f].rows \subseteq Inserted /\ fetch[i][f].rows \subseteq Alerts
    BY <1>0, FetchFields DEF CursorKeeps
  <2> HIDE DEF new
  <2>5. t \in FetchState /\ t.pc = "send" /\ t.rows = new
    BY <2>3, <2>4 DEF FetchState
  <2> HIDE DEF t
  <2>6. /\ fetch' \in [Instances -> [Fetches -> FetchState]] /\ fetch'[i][f] = t
        /\ \A j \in Instances, g \in Fetches : j # i \/ g # f => fetch'[j][g] = fetch[j][g]
    BY <1>0, <2>2, <2>5 DEF BroadcastTypes
  <2>7. latest \in Nat /\ latest >= lastSeenAt[i] /\ lastSeenAt[i] \in Nat
    BY <1>0, <2>1, <2>3, <2>4 DEF BroadcastTypes
  <2>8. /\ lastSeenAt' \in [Instances -> Nat] /\ lastSeenAt'[i] = latest
        /\ \A j \in Instances \ {i} : lastSeenAt'[j] = lastSeenAt[j]
    BY <1>0, <2>1, <2>7 DEF BroadcastTypes
  <2>9. BroadcastTypes'
    BY <1>0, <1>1, <2>6, <2>8 DEF BroadcastTypes, wsVars
  <2>10. /\ ToSend(i, f)' = new
         /\ \A j \in Instances, g \in Fetches : j # i \/ g # f => ToSend(j, g)' = ToSend(j, g)
    BY <2>5, <2>6 DEF ToSend
  <2>11. \A j \in Instances, g \in Fetches : ToSend(j, g) \subseteq Alerts
    BY <1>0, FetchFields DEF ToSend
  <2>12. CursorKeeps'
    <3>1. Inserted' = Inserted
      BY <1>1 DEF Inserted
    <3>2. \A j \in Instances, g \in Fetches : fetch'[j][g].rows \subseteq Inserted'
      <4> TAKE j \in Instances, g \in Fetches
      <4>1. CASE j = i /\ g = f
        BY <4>1, <2>3, <2>4, <2>5, <2>6, <3>1
      <4>2. CASE j # i \/ g # f
        BY <4>2, <1>0, <2>6, <3>1 DEF CursorKeeps
      <4> QED BY <4>1, <4>2
    <3>3. \A j \in Instances : lastSeenAt'[j] >= lastSeenAt[j] /\ lastSeenAt[j] \in Nat
      <4> TAKE j \in Instances
      <4>1. lastSeenAt[j] \in Nat
        BY <1>0 DEF BroadcastTypes
      <4> QED BY <4>1, <2>7, <2>8
    <3>4. \A j \in Instances, a \in Alerts :
            j \in sentBy[a] => time[a] > 0 /\ time[a] <= lastSeenAt'[j]
      <4> TAKE j \in Instances, a \in Alerts
      <4>1. j \in sentBy[a] => time[a] > 0 /\ time[a] <= lastSeenAt[j]
        BY <1>0 DEF CursorKeeps
      <4>2. lastSeenAt'[j] >= lastSeenAt[j] /\ lastSeenAt[j] \in Nat /\ lastSeenAt'[j] \in Nat
        BY <3>3, <2>8
      <4>3. time[a] \in Nat
        BY <1>0 DEF BroadcastTypes
      <4> QED BY <4>1, <4>2, <4>3
    <3>5. \A a \in new : /\ time[a] <= lastSeenAt'[i] /\ i \notin sentBy[a]
                         /\ \A g \in Fetches : a \notin ToSend(i, g)
      <4> TAKE a \in new
      <4>1. a \in Alerts /\ time[a] \in Nat /\ time[a] > lastSeenAt[i] /\ time[a] <= latest
        BY <1>0, <2>1, <2>3, <2>4 DEF BroadcastTypes
      <4>2. i \notin sentBy[a] /\ \A g \in Fetches : a \notin ToSend(i, g)
        <5>1. i \in sentBy[a] => time[a] <= lastSeenAt[i]
          BY <1>0, <4>1 DEF CursorKeeps
        <5>2. \A g \in Fetches : a \in ToSend(i, g) => time[a] <= lastSeenAt[i]
          BY <1>0, <4>1 DEF CursorKeeps
        <5> QED BY <4>1, <5>1, <5>2, <2>7
      <4> QED BY <4>1, <4>2, <2>8
    <3>6. \A j \in Instances, g \in Fetches : \A a \in ToSend(j, g)' :
            /\ time[a] <= lastSeenAt'[j] /\ j \notin sentBy[a]
            /\ \A h \in Fetches \ {g} : a \notin ToSend(j, h)'
      <4> TAKE j \in Instances, g \in Fetches
      <4>1. CASE j = i /\ g = f
        BY <4>1, <2>10, <3>5
      <4>2. CASE j # i \/ g # f
        <5> TAKE a \in ToSend(j, g)'
        <5>1. a \in ToSend(j, g) /\ a \in Alerts /\ time[a] \in Nat
          BY <4>2, <1>0, <2>10, <2>11 DEF BroadcastTypes
        <5>2. /\ time[a] <= lastSeenAt[j] /\ j \notin sentBy[a]
              /\ \A h \in Fetches \ {g} : a \notin ToSend(j, h)
          BY <5>1, <1>0 DEF CursorKeeps
        <5>3. \A h \in Fetches \ {g} : a \notin ToSend(j, h)'
          BY <5>1, <5>2, <2>10, <3>5
        <5>4. lastSeenAt'[j] >= lastSeenAt[j] /\ lastSeenAt[j] \in Nat /\ lastSeenAt'[j] \in Nat
          BY <3>3, <2>8
        <5> QED BY <5>1, <5>2, <5>3, <5>4
      <4> QED BY <4>1, <4>2
    <3> QED BY <1>1, <3>2, <3>4, <3>6 DEF CursorKeeps
  <2>13. PollsForItsSubscribers' /\ CopiesCounted'
    BY <1>0, <1>1, CountsStay DEF PollsForItsSubscribers, wsVars
  <2> QED BY <2>9, <2>12, <2>13 DEF BroadcastInv
<1> QED BY <1>2, <1>3

\* broadcastLocal sends to the connections of the instance and to no other.
LEMMA SentToItsOwn ==
  ASSUME BroadcastTypes, PollsForItsSubscribers, NEW i \in Instances, NEW a \in Alerts,
         BroadcastLocal(i, a)
  PROVE  /\ received' \in [Clients -> [Alerts -> Nat]]
         /\ \A c \in Clients, b \in Alerts :
              /\ received'[c][b] <= received[c][b] + 1
              /\ b # a \/ home[c] # i => received'[c][b] = received[c][b]
<1>1. \A c \in Clients : /\ c \in subscribers[i] => received'[c] = [received[c] EXCEPT ![a] = received[c][a] + 1]
                         /\ c \notin subscribers[i] => received'[c] = received[c]
  <2> TAKE c \in Clients
  <2>1. received[c] \in [Alerts -> Nat]
    BY DEF BroadcastTypes
  <2>2. received'[c] = [received[c] EXCEPT ![a] = IF c \in subscribers[i] THEN received[c][a] + 1 ELSE received[c][a]]
    BY <2>1 DEF BroadcastLocal
  <2>3. [received[c] EXCEPT ![a] = received[c][a]] = received[c]
    BY <2>1
  <2> QED BY <2>2, <2>3
<1>2. \A c \in Clients, b \in Alerts :
        received'[c][b] = IF b = a /\ c \in subscribers[i] THEN received[c][b] + 1 ELSE received[c][b]
  <2> TAKE c \in Clients, b \in Alerts
  <2>1. received[c] \in [Alerts -> Nat]
    BY DEF BroadcastTypes
  <2>2. CASE c \in subscribers[i]
    BY <2>1, <2>2, <1>1
  <2>3. CASE c \notin subscribers[i]
    BY <2>3, <1>1
  <2> QED BY <2>2, <2>3
<1>3. \A c \in Clients : received'[c] \in [Alerts -> Nat]
  <2> TAKE c \in Clients
  <2>1. received[c] \in [Alerts -> Nat]
    BY DEF BroadcastTypes
  <2>2. CASE c \in subscribers[i]
    <3>1. received[c][a] + 1 \in Nat
      BY <2>1
    <3>2. received'[c] = [received[c] EXCEPT ![a] = received[c][a] + 1]
      BY <2>2, <1>1
    <3> QED BY <2>1, <3>1, <3>2
  <2>3. CASE c \notin subscribers[i]
    BY <2>1, <2>3, <1>1
  <2> QED BY <2>2, <2>3
<1>4. received' \in [Clients -> [Alerts -> Nat]]
  <2> DEFINE now(c) == [received[c] EXCEPT ![a] = IF c \in subscribers[i] THEN @ + 1 ELSE @]
  <2>1. received' = [c \in Clients |-> now(c)]
    BY DEF BroadcastLocal
  <2> HIDE DEF now
  <2>2. \A c \in Clients : now(c) \in [Alerts -> Nat]
    BY <1>3, <2>1
  <2> QED BY <2>1, <2>2
<1>5. \A c \in Clients : c \in subscribers[i] => home[c] = i
  BY DEF PollsForItsSubscribers
<1>6. \A c \in Clients, b \in Alerts : received[c][b] \in Nat
  BY DEF BroadcastTypes
<1> QED BY <1>2, <1>4, <1>5, <1>6

LEMMA BroadcastNextKeeps ==
  ASSUME BroadcastInv, NEW i \in Instances, NEW f \in Fetches, BroadcastNext(i, f)
  PROVE  BroadcastInv'
<1>0. BroadcastTypes /\ CursorKeeps /\ CopiesCounted /\ PollsForItsSubscribers
  BY DEF BroadcastInv
<1>1. UNCHANGED <<time, home, subscribers, isActive, left, lastSeenAt>> /\ fetch[i][f].pc = "send"
  BY DEF BroadcastNext, wsVars
<1>2. PICK a \in fetch[i][f].rows :
        /\ BroadcastLocal(i, a)
        /\ sentBy' = [sentBy EXCEPT ![a] = @ \cup {i}]
        /\ \E reached \in SUBSET {j \in Instances : listening[j]} :
             inbox' = [j \in Instances |-> IF j \in reached THEN Append(inbox[j], a) ELSE inbox[j]]
        /\ fetch' = [fetch EXCEPT ![i][f] = [pc |-> "publish", rows |-> fetch[i][f].rows \ {a}]]
  BY DEF BroadcastNext
<1>3. PICK reached : inbox' = [j \in Instances |-> IF j \in reached THEN Append(inbox[j], a) ELSE inbox[j]]
  BY <1>2
<1>4. fetch[i][f].rows \subseteq Inserted /\ fetch[i][f].rows \subseteq Alerts /\ a \in Alerts
  BY <1>0, <1>2, FetchFields DEF CursorKeeps
<1>5. ToSend(i, f) = fetch[i][f].rows
  BY <1>1 DEF ToSend
<1>6. /\ time[a] > 0 /\ time[a] <= lastSeenAt[i] /\ i \notin sentBy[a]
      /\ \A g \in Fetches \ {f} : a \notin ToSend(i, g)
  <2>1. time[a] > 0
    BY <1>2, <1>4 DEF Inserted
  <2> QED BY <1>0, <1>2, <1>5, <2>1 DEF CursorKeeps
<1>7. /\ sentBy' \in [Alerts -> SUBSET Instances] /\ sentBy'[a] = sentBy[a] \cup {i}
      /\ \A b \in Alerts \ {a} : sentBy'[b] = sentBy[b]
  BY <1>0, <1>2, <1>4 DEF BroadcastTypes
<1>8. /\ IsFiniteSet(sentBy'[a]) /\ Cardinality(sentBy'[a]) = Cardinality(sentBy[a]) + 1
      /\ \A b \in Alerts : IsFiniteSet(sentBy[b]) /\ Cardinality(sentBy[b]) \in Nat
  BY <1>0, <1>4, <1>6, <1>7, SentType, FS_AddElement
<1> DEFINE t == [pc |-> "publish", rows |-> fetch[i][f].rows \ {a}]
<1>9. t \in FetchState /\ t.pc = "publish" /\ t.rows = fetch[i][f].rows \ {a}
  BY <1>4 DEF FetchState
<1>10. fetch' = [fetch EXCEPT ![i][f] = t]
  BY <1>2
<1> HIDE DEF t
<1>11. /\ fetch' \in [Instances -> [Fetches -> FetchState]] /\ fetch'[i][f] = t
       /\ \A j \in Instances, g \in Fetches : j # i \/ g # f => fetch'[j][g] = fetch[j][g]
  BY <1>0, <1>9, <1>10 DEF BroadcastTypes
<1>12. /\ ToSend(i, f)' = ToSend(i, f) \ {a}
       /\ \A j \in Instances, g \in Fetches : j # i \/ g # f => ToSend(j, g)' = ToSend(j, g)
  BY <1>5, <1>9, <1>11 DEF ToSend
<1>13. \A j \in Instances, g \in Fetches : ToSend(j, g) \subseteq Alerts
  BY <1>0, FetchFields DEF ToSend
<1>14. CursorKeeps'
  <2>1. \A j \in Instances, g \in Fetches : fetch'[j][g].rows \subseteq Inserted'
    <3>1. Inserted' = Inserted
      BY <1>1 DEF Inserted
    <3> TAKE j \in Instances, g \in Fetches
    <3>2. CASE j = i /\ g = f
      BY <3>1, <3>2, <1>4, <1>9, <1>11
    <3>3. CASE j # i \/ g # f
      BY <3>1, <3>3, <1>0, <1>11 DEF CursorKeeps
    <3> QED BY <3>2, <3>3
  <2>2. \A j \in Instances, b \in Alerts :
          j \in sentBy'[b] => time[b] > 0 /\ time[b] <= lastSeenAt[j]
    <3> TAKE j \in Instances, b \in Alerts
    <3>1. j \in sentBy[b] => time[b] > 0 /\ time[b] <= lastSeenAt[j]
      BY <1>0 DEF CursorKeeps
    <3> QED BY <3>1, <1>6, <1>7
  <2>3. \A j \in Instances, g \in Fetches : \A b \in ToSend(j, g)' :
          /\ time[b] <= lastSeenAt[j] /\ j \notin sentBy'[b]
          /\ \A h \in Fetches \ {g} : b \notin ToSend(j, h)'
    <3> TAKE j \in Instances, g \in Fetches
    <3> TAKE b \in ToSend(j, g)'
    <3>1. b \in ToSend(j, g) /\ b \in Alerts
      BY <1>12, <1>13
    <3>2. \A h \in Fetches : ToSend(j, h)' \subseteq ToSend(j, h)
      BY <1>12
    <3>3. /\ time[b] <= lastSeenAt[j] /\ j \notin sentBy[b]
          /\ \A h \in Fetches \ {g} : b \notin ToSend(j, h)
      BY <3>1, <1>0 DEF CursorKeeps
    <3>4. b # a \/ j # i
      BY <1>6, <1>12
    <3> QED BY <3>1, <3>2, <3>3, <3>4, <1>7
  <2> QED BY <1>1, <2>1, <2>2, <2>3 DEF CursorKeeps
<1>15. \A j \in Instances : /\ inbox'[j] \in Seq(Alerts)
                            /\ \A b \in Alerts : /\ Copies(inbox'[j], b) <= Copies(inbox[j], b) + 1
                                                 /\ b # a => Copies(inbox'[j], b) = Copies(inbox[j], b)
  <2> TAKE j \in Instances
  <2>1. inbox[j] \in Seq(Alerts)
    BY <1>0 DEF BroadcastTypes
  <2>2. \A b \in Alerts : Copies(inbox[j], b) \in Nat
    BY <2>1, CopiesType
  <2>3. CASE inbox'[j] = inbox[j]
    BY <2>1, <2>2, <2>3
  <2>4. CASE inbox'[j] = Append(inbox[j], a)
    <3>1. inbox'[j] \in Seq(Alerts)
      BY <2>1, <2>4, <1>4
    <3>2. \A b \in Alerts : Copies(inbox'[j], b) = IF b = a THEN Copies(inbox[j], b) + 1 ELSE Copies(inbox[j], b)
      BY <2>1, <2>4, <1>4, CopiesAppend
    <3> QED BY <2>2, <3>1, <3>2
  <2> QED BY <1>3, <2>3, <2>4
<1>16. /\ received' \in [Clients -> [Alerts -> Nat]]
       /\ \A c \in Clients, b \in Alerts :
            /\ received'[c][b] <= received[c][b] + 1
            /\ b # a \/ home[c] # i => received'[c][b] = received[c][b]
  BY <1>0, <1>2, <1>4, SentToItsOwn
<1>17. BroadcastTypes'
  <2>1. inbox' \in [Instances -> Seq(Alerts)]
    BY <1>3, <1>15
  <2>2. \A b \in Alerts : IsFiniteSet(sentBy'[b])
    BY <1>7, <1>8
  <2> QED BY <1>0, <1>1, <1>7, <1>11, <1>16, <2>1, <2>2 DEF BroadcastTypes
<1>18. CopiesCounted'
  <2> SUFFICES ASSUME NEW b \in Alerts
      PROVE  /\ \A j \in Instances : Copies(inbox'[j], b) <= Cardinality(sentBy'[b])
             /\ \A c \in Clients :
                  /\ home[c] # NoHome => received'[c][b] + Copies(inbox'[home[c]], b)
                                           <= Cardinality(sentBy'[b]) + Own(c, b)'
                  /\ (home[c] = NoHome /\ c \notin left) => received'[c][b] = 0
                  /\ c \in left => home[c] = NoHome /\ received'[c][b] <= Cardinality(sentBy'[b]) + 1
    BY <1>1 DEF CopiesCounted, Copies
  <2>1. \A j \in Instances : inbox[j] \in Seq(Alerts) /\ inbox'[j] \in Seq(Alerts)
    BY <1>0, <1>15 DEF BroadcastTypes
  <2>2. \A j \in Instances : Copies(inbox[j], b) \in Nat /\ Copies(inbox'[j], b) \in Nat
    BY <2>1, CopiesType
  <2>3. \A c \in Clients : received[c][b] \in Nat /\ received'[c][b] \in Nat
    BY <1>0, <1>16 DEF BroadcastTypes
  <2>4. /\ \A j \in Instances : Copies(inbox[j], b) <= Cardinality(sentBy[b])
        /\ \A c \in Clients :
             /\ home[c] # NoHome => received[c][b] + Copies(inbox[home[c]], b)
                                      <= Cardinality(sentBy[b]) + Own(c, b)
             /\ (home[c] = NoHome /\ c \notin left) => received[c][b] = 0
             /\ c \in left => home[c] = NoHome /\ received[c][b] <= Cardinality(sentBy[b]) + 1
    BY <1>0 DEF CopiesCounted
  <2>5. \A c \in Clients : home[c] # NoHome => home[c] \in Instances
    BY <1>0 DEF BroadcastTypes
  <2>6. CASE b # a
    <3>1. \A c \in Clients : Own(c, b)' = Own(c, b)
      BY <2>6, <1>1, <1>7 DEF Own
    <3> QED BY <2>4, <2>5, <2>6, <3>1, <1>7, <1>15, <1>16
  <2>7. CASE b = a
    <3>1. Cardinality(sentBy'[b]) = Cardinality(sentBy[b]) + 1 /\ Cardinality(sentBy[b]) \in Nat
      BY <2>7, <1>8
    <3>2. \A c \in Clients : Own(c, b)' \in {0, 1} /\ Own(c, b) \in {0, 1} /\ Own(c, b) <= Own(c, b)'
      BY <2>7, <1>1, <1>7 DEF Own
    <3>3. \A c \in Clients : home[c] = i => Own(c, b) = 0 /\ Own(c, b)' = 1
      BY <2>7, <1>1, <1>6, <1>7 DEF Own
    <3> HIDE DEF Own
    <3>4. \A j \in Instances : Copies(inbox'[j], b) <= Cardinality(sentBy'[b])
      BY <2>2, <2>4, <3>1, <1>15
    <3> SUFFICES ASSUME NEW c \in Clients
        PROVE  /\ home[c] # NoHome => received'[c][b] + Copies(inbox'[home[c]], b)
                                        <= Cardinality(sentBy'[b]) + Own(c, b)'
               /\ (home[c] = NoHome /\ c \notin left) => received'[c][b] = 0
               /\ c \in left => home[c] = NoHome /\ received'[c][b] <= Cardinality(sentBy'[b]) + 1
      BY <3>4
    <3>5. CASE home[c] = i
      <4>1. received'[c][b] <= received[c][b] + 1 /\ Copies(inbox'[i], b) <= Copies(inbox[i], b) + 1
        BY <1>15, <1>16
      <4>2. received[c][b] + Copies(inbox[i], b) <= Cardinality(sentBy[b])
        BY <2>4, <3>3, <3>5, <2>5, <3>1, BroadcastAssumption
      <4>3. c \notin left /\ home[c] # NoHome
        BY <2>4, <3>5, BroadcastAssumption
      <4> QED BY <4>1, <4>2, <4>3, <3>1, <3>3, <3>5, <2>2, <2>3
    <3>6. CASE home[c] # i
      <4>1. received'[c][b] = received[c][b]
        BY <3>6, <1>16
      <4>2. ASSUME home[c] # NoHome
            PROVE  received'[c][b] + Copies(inbox'[home[c]], b) <= Cardinality(sentBy'[b]) + Own(c, b)'
        <5>1. Copies(inbox'[home[c]], b) <= Copies(inbox[home[c]], b) + 1
          BY <4>2, <2>5, <1>15
        <5>2. received[c][b] + Copies(inbox[home[c]], b) <= Cardinality(sentBy[b]) + Own(c, b)
          BY <4>2, <2>4
        <5>3. Copies(inbox[home[c]], b) \in Nat /\ Copies(inbox'[home[c]], b) \in Nat
          BY <4>2, <2>2, <2>5
        <5>4. Own(c, b)' \in {0, 1} /\ Own(c, b) \in {0, 1} /\ Own(c, b) <= Own(c, b)'
          BY <3>2
        <5> QED BY <4>1, <5>1, <5>2, <5>3, <5>4, <3>1, <2>3
      <4> QED BY <4>1, <4>2, <2>3, <2>4, <3>1
    <3> QED BY <3>5, <3>6
  <2> QED BY <2>6, <2>7
<1>19. PollsForItsSubscribers'
  BY <1>0, <1>1 DEF PollsForItsSubscribers
<1> QED BY <1>14, <1>17, <1>18, <1>19 DEF BroadcastInv

LEMMA RedisMessageKeeps ==
  ASSUME BroadcastInv, NEW i \in Instances, RedisMessage(i)
  PROVE  BroadcastInv'
<1>0. BroadcastTypes /\ CursorKeeps /\ CopiesCounted /\ PollsForItsSubscribers
  BY DEF BroadcastInv
<1>1. UNCHANGED <<time, home, subscribers, isActive, left, lastSeenAt, fetch, sentBy>>
  BY DEF RedisMessage, wsVars, pollingVars
<1> DEFINE a == Head(inbox[i])
<1>2. inbox[i] # <<>> /\ inbox[i] \in Seq(Alerts)
  BY <1>0 DEF RedisMessage, BroadcastTypes
<1>3. a \in Alerts /\ Tail(inbox[i]) \in Seq(Alerts)
  BY <1>2, HeadTailProperties
<1>4. inbox' = [inbox EXCEPT ![i] = Tail(inbox[i])] /\ BroadcastLocal(i, a)
  BY <1>0 DEF RedisMessage, BroadcastTypes
<1>5. /\ inbox' \in [Instances -> Seq(Alerts)] /\ inbox'[i] = Tail(inbox[i])
      /\ \A j \in Instances \ {i} : inbox'[j] = inbox[j]
  BY <1>0, <1>3, <1>4 DEF BroadcastTypes
<1>6. \A b \in Alerts : Copies(inbox[i], b) = IF b = a THEN Copies(inbox'[i], b) + 1 ELSE Copies(inbox'[i], b)
  BY <1>2, <1>5, CopiesTail
<1> HIDE DEF a
<1>7. /\ received' \in [Clients -> [Alerts -> Nat]]
      /\ \A c \in Clients, b \in Alerts :
           /\ received'[c][b] <= received[c][b] + 1
           /\ b # a \/ home[c] # i => received'[c][b] = received[c][b]
  BY <1>0, <1>3, <1>4, SentToItsOwn
<1>8. BroadcastTypes'
  BY <1>0, <1>1, <1>5, <1>7 DEF BroadcastTypes
<1>9. CopiesCounted'
  <2> SUFFICES ASSUME NEW b \in Alerts
      PROVE  /\ \A j \in Instances : Copies(inbox'[j], b) <= Cardinality(sentBy[b])
             /\ \A c \in Clients :
                  /\ home[c] # NoHome => received'[c][b] + Copies(inbox'[home[c]], b)
                                           <= Cardinality(sentBy[b]) + Own(c, b)
                  /\ (home[c] = NoHome /\ c \notin left) => received'[c][b] = 0
                  /\ c \in left => home[c] = NoHome /\ received'[c][b] <= Cardinality(sentBy[b]) + 1
    BY <1>1 DEF CopiesCounted, Copies, Own
  <2>1. \A j \in Instances : inbox[j] \in Seq(Alerts) /\ inbox'[j] \in Seq(Alerts)
    BY <1>0, <1>5 DEF BroadcastTypes
  <2>2. \A j \in Instances : Copies(inbox[j], b) \in Nat /\ Copies(inbox'[j], b) \in Nat
    BY <2>1, CopiesType
  <2>3. \A c \in Clients : received[c][b] \in Nat /\ received'[c][b] \in Nat
    BY <1>0, <1>7 DEF BroadcastTypes
  <2>4. /\ \A j \in Instances : Copies(inbox[j], b) <= Cardinality(sentBy[b])
        /\ \A c \in Clients :
             /\ home[c] # NoHome => received[c][b] + Copies(inbox[home[c]], b)
                                      <= Cardinality(sentBy[b]) + Own(c, b)
             /\ (home[c] = NoHome /\ c \notin left) => received[c][b] = 0
             /\ c \in left => home[c] = NoHome /\ received[c][b] <= Cardinality(sentBy[b]) + 1
    BY <1>0 DEF CopiesCounted
  <2>5. Cardinality(sentBy[b]) \in Nat /\ \A c \in Clients : Own(c, b) \in {0, 1}
    BY <1>0, SentType DEF Own
  <2>6. \A c \in Clients : home[c] # NoHome => home[c] \in Instances
    BY <1>0 DEF BroadcastTypes
  <2> HIDE DEF Own
  <2>7. \A j \in Instances : Copies(inbox'[j], b) <= Copies(inbox[j], b)
    <3> TAKE j \in Instances
    <3>1. CASE j = i
      <4>1. Copies(inbox[i], b) = IF b = a THEN Copies(inbox'[i], b) + 1 ELSE Copies(inbox'[i], b)
        BY <1>6
      <4> QED BY <3>1, <4>1, <2>2
    <3>2. CASE j # i
      BY <3>2, <1>5, <2>2
    <3> QED BY <3>1, <3>2
  <2>8. \A j \in Instances : Copies(inbox'[j], b) <= Cardinality(sentBy[b])
    BY <2>2, <2>4, <2>5, <2>7
  <2> SUFFICES ASSUME NEW c \in Clients
      PROVE  /\ home[c] # NoHome => received'[c][b] + Copies(inbox'[home[c]], b)
                                      <= Cardinality(sentBy[b]) + Own(c, b)
             /\ (home[c] = NoHome /\ c \notin left) => received'[c][b] = 0
             /\ c \in left => home[c] = NoHome /\ received'[c][b] <= Cardinality(sentBy[b]) + 1
    BY <2>8
  <2>9. CASE home[c] = i /\ b = a
    <3>1. received'[c][b] <= received[c][b] + 1 /\ Copies(inbox[i], b) = Copies(inbox'[i], b) + 1
      BY <2>9, <1>6, <1>7
    <3>2. received[c][b] + Copies(inbox[i], b) <= Cardinality(sentBy[b]) + Own(c, b)
      BY <2>4, <2>9, BroadcastAssumption
    <3>3. c \notin left /\ home[c] # NoHome
      BY <2>4, <2>9, BroadcastAssumption
    <3> QED BY <3>1, <3>2, <3>3, <2>2, <2>3, <2>5, <2>9
  <2>10. CASE home[c] # i \/ b # a
    <3>1. received'[c][b] = received[c][b]
      BY <2>10, <1>7
    <3>2. ASSUME home[c] # NoHome
          PROVE  received'[c][b] + Copies(inbox'[home[c]], b) <= Cardinality(sentBy[b]) + Own(c, b)
      <4>1. Copies(inbox'[home[c]], b) <= Copies(inbox[home[c]], b)
        BY <3>2, <2>6, <2>7
      <4>2. received[c][b] + Copies(inbox[home[c]], b) <= Cardinality(sentBy[b]) + Own(c, b)
        BY <3>2, <2>4
      <4>3. Copies(inbox[home[c]], b) \in Nat /\ Copies(inbox'[home[c]], b) \in Nat
        BY <3>2, <2>2, <2>6
      <4> QED BY <3>1, <4>1, <4>2, <4>3, <2>3, <2>5
    <3> QED BY <3>1, <3>2, <2>4
  <2> QED BY <2>9, <2>10
<1>10. PollsForItsSubscribers'
  BY <1>0, <1>1 DEF PollsForItsSubscribers
<1> QED BY <1>0, <1>1, <1>8, <1>9, <1>10, CursorStays DEF BroadcastInv

-----------------------------------------------------------------------------
(* Conclusion *)

LEMMA BroadcastStep ==
  ASSUME BroadcastInv, [BroadcastNextState]_broadcastVars
  PROVE  BroadcastInv'
<1>1. ASSUME NEW a \in Alerts, AlertInserted(a) PROVE BroadcastInv'
  BY <1>1, AlertInsertedKeeps
<1>2. ASSUME NEW c \in Clients, NEW i \in Instances, Connect(c, i) PROVE BroadcastInv'
  BY <1>2, ConnectKeeps
<1>3. ASSUME NEW c \in Clients, Subscribe(c) PROVE BroadcastInv'
  BY <1>3, SubscribeKeeps
<1>4. ASSUME NEW c \in Clients, Unsubscribe(c) PROVE BroadcastInv'
  BY <1>4, UnsubscribeKeeps
<1>5. ASSUME NEW c \in Clients, RemoveClient(c) PROVE BroadcastInv'
  BY <1>5, RemoveClientKeeps
<1>6. ASSUME NEW i \in Instances, RedisReady(i) PROVE BroadcastInv'
  BY <1>6, RedisReadyKeeps
<1>7. ASSUME NEW i \in Instances, RedisMessage(i) PROVE BroadcastInv'
  BY <1>7, RedisMessageKeeps
<1>8. ASSUME NEW i \in Instances, NEW f \in Fetches, FetchStart(i, f) PROVE BroadcastInv'
  BY <1>8, FetchStartKeeps
<1>9. ASSUME NEW i \in Instances, NEW f \in Fetches, FetchRows(i, f) PROVE BroadcastInv'
  BY <1>9, FetchRowsKeeps
<1>10. ASSUME NEW i \in Instances, NEW f \in Fetches, FilterNew(i, f) PROVE BroadcastInv'
  BY <1>10, FilterNewKeeps
<1>11. ASSUME NEW i \in Instances, NEW f \in Fetches, BroadcastNext(i, f) PROVE BroadcastInv'
  BY <1>11, BroadcastNextKeeps
<1>12. ASSUME NEW i \in Instances, NEW f \in Fetches, Published(i, f) PROVE BroadcastInv'
  BY <1>12, PublishedKeeps
<1>13. CASE UNCHANGED broadcastVars
  BY <1>13, StutterKeeps
<1> QED BY <1>1, <1>2, <1>3, <1>4, <1>5, <1>6, <1>7, <1>8, <1>9, <1>10, <1>11, <1>12, <1>13
        DEF BroadcastNextState

LEMMA BroadcastConclusion ==
  ASSUME BroadcastInv
  PROVE  BroadcastsBounded
<1>0. BroadcastTypes /\ CopiesCounted /\ PollsForItsSubscribers
  BY DEF BroadcastInv
<1>1. ReceivedPerBroadcast
  <2> SUFFICES ASSUME NEW c \in Clients, NEW a \in Alerts
      PROVE  received[c][a] <= Cardinality(sentBy[a]) + Cardinality(sentBy[a] \cap {home[c]})
                                 + (IF c \in left THEN 1 ELSE 0)
    BY DEF ReceivedPerBroadcast
  <2>1. received[c][a] \in Nat /\ IsFiniteSet(sentBy[a]) /\ Cardinality(sentBy[a]) \in Nat
    BY <1>0, SentType DEF BroadcastTypes
  <2>2. Cardinality(sentBy[a] \cap {home[c]}) = Own(c, a)
    <3>1. CASE home[c] \in sentBy[a]
      <4>1. sentBy[a] \cap {home[c]} = {home[c]}
        BY <3>1
      <4>2. Cardinality({home[c]}) = 1
        BY FS_Singleton
      <4> QED BY <3>1, <4>1, <4>2 DEF Own
    <3>2. CASE home[c] \notin sentBy[a]
      <4>1. sentBy[a] \cap {home[c]} = {}
        BY <3>2
      <4> QED BY <3>2, <4>1, FS_EmptySet DEF Own
    <3> QED BY <3>1, <3>2
  <2>3. Own(c, a) \in {0, 1}
    BY DEF Own
  <2>4. /\ home[c] # NoHome => received[c][a] + Copies(inbox[home[c]], a) <= Cardinality(sentBy[a]) + Own(c, a)
        /\ (home[c] = NoHome /\ c \notin left) => received[c][a] = 0
        /\ c \in left => home[c] = NoHome /\ received[c][a] <= Cardinality(sentBy[a]) + 1
    BY <1>0 DEF CopiesCounted
  <2> HIDE DEF Own
  <2>5. CASE home[c] # NoHome
    <3>1. Copies(inbox[home[c]], a) \in Nat
      BY <2>5, <1>0, CopiesType DEF BroadcastTypes
    <3> QED BY <2>1, <2>2, <2>3, <2>4, <2>5, <3>1
  <2>6. CASE home[c] = NoHome
    BY <2>1, <2>2, <2>3, <2>4, <2>6
  <2> QED BY <2>5, <2>6
<1> QED BY <1>0, <1>1 DEF BroadcastsBounded

\* Alerts reach a client at most once per broadcasting instance, and once more
\* from its own, and an instance polls exactly while it has subscribers
\* (alerts.channel.ts:47, base.channel.ts:70, websocket.server.ts:262).
THEOREM AlertBroadcastsAreBounded == BroadcastSpec => []BroadcastsBounded
<1>1. BroadcastInit => BroadcastInv
  BY BroadcastInitially
<1>2. BroadcastInv /\ [BroadcastNextState]_broadcastVars => BroadcastInv'
  BY BroadcastStep
<1>3. BroadcastInv => BroadcastsBounded
  BY BroadcastConclusion
<1> QED BY <1>1, <1>2, <1>3, PTL DEF BroadcastSpec

-----------------------------------------------------------------------------
(* Types of the broadcast *)

\* The times of the rows are within their bound, and so are the cursors.
TimesBounded ==
  /\ time \in [Alerts -> 0 .. MaxTime] /\ lastSeenAt \in [Instances -> 0 .. MaxTime]
  /\ listening \in [Instances -> BOOLEAN]

BroadcastTypeInv == BroadcastInv /\ TimesBounded

LEMMA BroadcastTypeInvInit == BroadcastInit => BroadcastTypeInv
<1> SUFFICES ASSUME BroadcastInit PROVE TimesBounded
  BY BroadcastInitially DEF BroadcastTypeInv
<1>1. 0 \in 0 .. MaxTime
  BY BroadcastAssumption
<1> QED BY <1>1 DEF BroadcastInit, TimesBounded

LEMMA TimesBoundedStep ==
  ASSUME BroadcastTypeInv, BroadcastNextState
  PROVE  TimesBounded'
<1>0. TimesBounded /\ BroadcastTypes /\ MaxTime \in Nat
  BY BroadcastAssumption DEF BroadcastTypeInv, BroadcastInv
<1>1. ASSUME UNCHANGED <<time, lastSeenAt, listening>> PROVE TimesBounded'
  BY <1>0, <1>1 DEF TimesBounded
<1>2. ASSUME NEW a \in Alerts, AlertInserted(a) PROVE TimesBounded'
  BY <1>0, <1>2 DEF AlertInserted, TimesBounded, pollingVars
<1>3. ASSUME NEW i \in Instances, RedisReady(i) PROVE TimesBounded'
  BY <1>0, <1>3 DEF RedisReady, TimesBounded, pollingVars
<1>4. ASSUME NEW i \in Instances, NEW f \in Fetches, FilterNew(i, f) PROVE TimesBounded'
  <2>1. UNCHANGED <<time, listening>>
    BY <1>4 DEF FilterNew
  <2>2. CASE UNCHANGED lastSeenAt
    BY <2>1, <2>2, <1>1
  <2>3. CASE lastSeenAt' # lastSeenAt
    <3>1. PICK latest \in {time[a] : a \in NewAlerts(i, fetch[i][f].rows)} :
            lastSeenAt' = [lastSeenAt EXCEPT ![i] = latest]
      BY <2>3, <1>4 DEF FilterNew
    <3>2. fetch[i][f].rows \subseteq Alerts
      BY <1>0 DEF BroadcastTypes, FetchState
    <3>3. latest \in 0 .. MaxTime
      BY <3>1, <3>2, <1>0 DEF NewAlerts, TimesBounded
    <3> QED BY <2>1, <3>1, <3>3, <1>0 DEF TimesBounded
  <2> QED BY <2>2, <2>3
<1>5. ASSUME NEW c \in Clients,
             (\E i \in Instances : Connect(c, i)) \/ Subscribe(c) \/ Unsubscribe(c) \/ RemoveClient(c)
      PROVE  TimesBounded'
  BY <1>1, <1>5 DEF Connect, Subscribe, Unsubscribe, RemoveClient, pollingVars
<1>6. ASSUME NEW i \in Instances, RedisMessage(i) PROVE TimesBounded'
  BY <1>1, <1>6 DEF RedisMessage, pollingVars
<1>7. ASSUME NEW i \in Instances, NEW f \in Fetches,
             FetchStart(i, f) \/ FetchRows(i, f) \/ BroadcastNext(i, f) \/ Published(i, f)
      PROVE  TimesBounded'
  BY <1>1, <1>7 DEF FetchStart, FetchRows, BroadcastNext, Published
<1> QED BY <1>2, <1>3, <1>4, <1>5, <1>6, <1>7 DEF BroadcastNextState

LEMMA BroadcastTypeInvStep ==
  ASSUME BroadcastTypeInv, [BroadcastNextState]_broadcastVars
  PROVE  BroadcastTypeInv'
<1>1. BroadcastInv'
  BY BroadcastStep DEF BroadcastTypeInv
<1>2. CASE BroadcastNextState
  BY <1>1, <1>2, TimesBoundedStep DEF BroadcastTypeInv
<1>3. CASE UNCHANGED broadcastVars
  BY <1>1, <1>3 DEF BroadcastTypeInv, TimesBounded, broadcastVars, pollingVars
<1> QED BY <1>2, <1>3

LEMMA BroadcastTypeInvTypes == BroadcastTypeInv => BroadcastTypeOK
BY DEF BroadcastTypeInv, TimesBounded, BroadcastInv, BroadcastTypes, FetchState, BroadcastTypeOK

\* The types of the state, for any values of the constants.
LEMMA BroadcastTypeCorrect == BroadcastSpec => []BroadcastTypeOK
<1>1. BroadcastTypeInv => BroadcastTypeOK
  BY BroadcastTypeInvTypes
<1> QED BY <1>1, BroadcastTypeInvInit, BroadcastTypeInvStep, PTL DEF BroadcastSpec

-----------------------------------------------------------------------------
(***************************************************************************)
(* The federation of event streams: any window and replay capacity, any    *)
(* number of polls at a time, of events and of stream errors.              *)
(***************************************************************************)

FeedEvents == [feed : Feeds, number : Nat]

\* The event at a place of a sequence, none before its beginning
EventAt(s, p) == IF 1 <= p /\ p <= Len(s) THEN s[p] ELSE NoEvent

\* The place of what slot k holds when n events have passed and slot h is next
PlaceOf(k, h, n, size) == IF k < h THEN n - h + k + 1 ELSE n - h - size + k + 1

\* The slots hold the latest events of the sequence; the next slot is the oldest.
HoldsLatest(slots, h, size, s) ==
  /\ slots \in [0 .. (size - 1) -> FeedEvents \cup {NoEvent}] /\ h \in 0 .. (size - 1)
  /\ \A k \in 0 .. (size - 1) : slots[k] = EventAt(s, PlaceOf(k, h, Len(s), size))
  /\ Len(s) < size => h = Len(s)

FederationTypes ==
  /\ produced \in [Feeds -> Nat]
  /\ feedCursor \in [Streamed -> Nat] /\ startedAt \in [Streamed -> Nat]
  /\ openings \in Nat /\ streams \subseteq [feed : Streamed, opening : Nat, read : Nat]
  /\ strays \in Nat
  /\ poll \in [Polls -> [pc : {"idle", "number", "block"}, number : Nat]]
  /\ forwarded \in Seq(FeedEvents)

WindowInv ==
  /\ forwarded \in Seq(FeedEvents)
  /\ HoldsLatest(ring, ringHead, WindowSize, forwarded)
  /\ HoldsLatest(events, head, ReplayCapacity, forwarded)
  /\ filled = IF Len(forwarded) < ReplayCapacity THEN Len(forwarded) ELSE ReplayCapacity
  /\ \A e \in seenIds : \E p \in 1 .. Len(forwarded) :
       p > Len(forwarded) - WindowSize /\ forwarded[p] = e
  /\ \A p \in 1 .. Len(forwarded) : p > Len(forwarded) - WindowSize => forwarded[p] \in seenIds
  /\ \A i, j \in 1 .. Len(forwarded) :
       i < j /\ forwarded[i] = forwarded[j] => j - i > WindowSize

WasForwarded(e) == \E p \in 1 .. Len(forwarded) : forwarded[p] = e

\* Every payment after the start and up to x was forwarded.
CoveredTo(x) == \A k \in Nat : startedAt["payments"] < k /\ k <= x => WasForwarded(Event("payments", k))

\* Streams, cursor and listeners are at places up to which nothing was left out.
PaymentsInv ==
  /\ startedAt["payments"] <= produced["payments"]
  /\ feedCursor["payments"] <= produced["payments"] /\ CoveredTo(feedCursor["payments"])
  /\ \A s \in streams : s.feed = "payments" => s.read <= produced["payments"] /\ CoveredTo(s.read)
  /\ \A k \in Nat : WasForwarded(Event("payments", k)) => k <= produced["payments"] /\ CoveredTo(k)

FederationInv == FederationTypes /\ WindowInv /\ PaymentsInv /\ ReadsOrReconnects

-----------------------------------------------------------------------------
(* Slots in a circle *)

LEMMA Modulo ==
  ASSUME NEW W \in Nat \ {0}, NEW x \in 0 .. (2 * W - 1)
  PROVE  x % W = IF x < W THEN x ELSE x - W
OBVIOUS

LEMMA NextSlot ==
  ASSUME NEW size \in Nat \ {0}, NEW h \in 0 .. (size - 1)
  PROVE  (h + 1) % size = IF h + 1 = size THEN 0 ELSE h + 1
<1>1. PICK x \in 0 .. (2 * size - 1) : x = h + 1
  OBVIOUS
<1>2. x % size = IF x < size THEN x ELSE x - size
  BY Modulo
<1> QED BY <1>1, <1>2

LEMMA NoEventIsNone == \A e \in FeedEvents : e # NoEvent
BY DEF FeedEvents, Feeds, Streamed, NoEvent

LEMMA AppendedAt ==
  ASSUME NEW s \in Seq(FeedEvents), NEW e \in FeedEvents
  PROVE  /\ Append(s, e) \in Seq(FeedEvents) /\ Len(Append(s, e)) = Len(s) + 1 /\ Len(s) \in Nat
         /\ EventAt(Append(s, e), Len(s) + 1) = e
         /\ \A p \in Int : p <= Len(s) => EventAt(Append(s, e), p) = EventAt(s, p)
         /\ \A p \in 1 .. Len(s) : Append(s, e)[p] = s[p]
         /\ Append(s, e)[Len(s) + 1] = e
<1>1. /\ Append(s, e) \in Seq(FeedEvents) /\ Len(Append(s, e)) = Len(s) + 1 /\ Len(s) \in Nat
      /\ \A p \in 1 .. Len(s) : Append(s, e)[p] = s[p]
      /\ Append(s, e)[Len(s) + 1] = e
  BY AppendProperties, LenProperties
<1> QED BY <1>1 DEF EventAt

\* Overwriting the oldest slot keeps the latest events.
LEMMA SlotReplaced ==
  ASSUME NEW size \in Nat \ {0}, NEW slots, NEW h, NEW s \in Seq(FeedEvents), NEW e \in FeedEvents,
         HoldsLatest(slots, h, size, s)
  PROVE  HoldsLatest([slots EXCEPT ![h] = e], (h + 1) % size, size, Append(s, e))
<1> DEFINE n == Len(s)
           h2 == (h + 1) % size
           new == [slots EXCEPT ![h] = e]
           t == Append(s, e)
<1>1. /\ t \in Seq(FeedEvents) /\ Len(t) = n + 1 /\ n \in Nat /\ EventAt(t, n + 1) = e
      /\ \A p \in Int : p <= n => EventAt(t, p) = EventAt(s, p)
  BY AppendedAt
<1>2. /\ slots \in [0 .. (size - 1) -> FeedEvents \cup {NoEvent}] /\ h \in 0 .. (size - 1)
      /\ \A k \in 0 .. (size - 1) : slots[k] = EventAt(s, PlaceOf(k, h, n, size))
      /\ n < size => h = n
  BY DEF HoldsLatest
<1>3. h2 = IF h + 1 = size THEN 0 ELSE h + 1
  BY <1>2, NextSlot
<1> HIDE DEF h2
<1>4. /\ new \in [0 .. (size - 1) -> FeedEvents \cup {NoEvent}] /\ new[h] = e
      /\ \A k \in 0 .. (size - 1) : k # h => new[k] = slots[k]
  BY <1>2
<1>5. h2 \in 0 .. (size - 1) /\ (n + 1 < size => h2 = n + 1)
  BY <1>1, <1>2, <1>3
<1> HIDE DEF n, new, t
<1>6. \A k \in 0 .. (size - 1) : new[k] = EventAt(t, PlaceOf(k, h2, n + 1, size))
  <2> TAKE k \in 0 .. (size - 1)
  <2>1. CASE k = h
    <3>1. PlaceOf(k, h2, n + 1, size) = n + 1
      BY <2>1, <1>1, <1>2, <1>3 DEF PlaceOf
    <3> QED BY <2>1, <3>1, <1>1, <1>4
  <2>2. CASE k # h
    <3>1. PlaceOf(k, h2, n + 1, size) = PlaceOf(k, h, n, size)
      BY <2>2, <1>1, <1>2, <1>3 DEF PlaceOf
    <3>2. PlaceOf(k, h, n, size) \in Int /\ PlaceOf(k, h, n, size) <= n
      BY <2>2, <1>1, <1>2 DEF PlaceOf
    <3> QED BY <2>2, <3>1, <3>2, <1>1, <1>2, <1>4
  <2> QED BY <2>1, <2>2
<1> QED BY <1>1, <1>4, <1>5, <1>6 DEF HoldsLatest, n, new, t, h2

\* The replay buffer, read oldest first, is the end of what was forwarded.
LEMMA SnapshotIsLatest ==
  ASSUME WindowInv
  PROVE  LET n == Len(forwarded)
             kept == IF n < ReplayCapacity THEN n ELSE ReplayCapacity
         IN Snapshot = SubSeq(forwarded, n - kept + 1, n)
<1> DEFINE n == Len(forwarded)
           R == ReplayCapacity
           kept == IF n < R THEN n ELSE R
           S == SubSeq(forwarded, n - kept + 1, n)
<1>1. R \in Nat \ {0} /\ n \in Nat
  BY FederationAssumption, LenProperties DEF WindowInv
<1>2. kept \in Nat /\ kept <= n /\ kept <= R /\ filled = kept
  BY <1>1 DEF WindowInv
<1>3. S = [i \in 1 .. kept |-> forwarded[n - kept + i]]
  <2> HIDE DEF kept
  <2>0. n - kept + 1 \in 1 .. n + 1
    <3> HIDE DEF n
    <3> QED BY <1>1, <1>2
  <2>1. PICK m \in 1 .. n + 1 : m = n - kept + 1
    BY ONLY Zenon, <2>0
  <2>2. /\ SubSeq(forwarded, m, n) \in Seq(FeedEvents)
        /\ Len(SubSeq(forwarded, m, n)) = IF m <= n THEN n - m + 1 ELSE 0
        /\ \A i \in 1 .. n - m + 1 : SubSeq(forwarded, m, n)[i] = forwarded[m + i - 1]
    BY <1>1, <2>1, SubSeqProperties DEF WindowInv
  <2>3. Len(S) = kept /\ S \in Seq(FeedEvents)
    BY <1>1, <1>2, <2>1, <2>2
  <2>4. \A i \in 1 .. kept : S[i] = forwarded[n - kept + i]
    BY <1>1, <1>2, <2>1, <2>2
  <2> HIDE DEF S
  <2>5. S = [i \in 1 .. kept |-> S[i]]
    BY <2>3
  <2> QED BY <2>4, <2>5
<1>4. /\ head \in 0 .. (R - 1) /\ (n < R => head = n)
      /\ \A k \in 0 .. (R - 1) : events[k] = EventAt(forwarded, PlaceOf(k, head, n, R))
  BY DEF WindowInv, HoldsLatest
<1> HIDE DEF n, R, kept, S
<1>5. CASE filled < R
  <2>1. kept = n /\ n < R /\ head = n
    BY <1>5, <1>1, <1>2, <1>4 DEF kept
  <2>2. \A i \in 1 .. kept : events[i - 1] = forwarded[n - kept + i]
    <3> TAKE i \in 1 .. kept
    <3>1. i - 1 \in 0 .. (R - 1) /\ PlaceOf(i - 1, head, n, R) = i
      BY <2>1, <1>1 DEF PlaceOf
    <3>2. EventAt(forwarded, i) = forwarded[i]
      BY <2>1, <1>1 DEF EventAt, n
    <3> QED BY <3>1, <3>2, <2>1, <1>1, <1>4
  <2>3. Snapshot = [i \in 1 .. kept |-> events[i - 1]]
    BY <1>2, <1>5 DEF Snapshot, R
  <2> QED BY <2>2, <2>3, <1>3 DEF n, R, kept, S
<1>6. CASE ~(filled < R)
  <2>1. kept = R /\ n >= R
    BY <1>6, <1>1, <1>2 DEF kept
  <2> DEFINE tail == (head - filled + R) % R
  <2>2. tail = head
    <3>1. head - filled + R = head
      BY <2>1, <1>1, <1>2, <1>4
    <3>2. head \in 0 .. (2 * R - 1) /\ head < R
      BY <1>1, <1>4
    <3> QED BY <3>1, <3>2, <1>1, Modulo
  <2> HIDE DEF tail
  <2>3. \A i \in 1 .. kept : events[(tail + i - 1) % R] = forwarded[n - kept + i]
    <3> TAKE i \in 1 .. kept
    <3> DEFINE k == (head + i - 1) % R
    <3>1. k = IF head + i - 1 < R THEN head + i - 1 ELSE head + i - 1 - R
      <4>1. PICK x \in 0 .. (2 * R - 1) : x = head + i - 1
        BY <2>1, <1>1, <1>4
      <4>2. x % R = IF x < R THEN x ELSE x - R
        BY <1>1, Modulo
      <4>3. k = x % R
        BY <4>1
      <4> HIDE DEF k
      <4> QED BY <4>1, <4>2, <4>3, <1>1, <1>4, <2>1
    <3> HIDE DEF k
    <3>2. k \in 0 .. (R - 1) /\ PlaceOf(k, head, n, R) = n - R + i
      BY <3>1, <2>1, <1>1, <1>4 DEF PlaceOf
    <3>3. EventAt(forwarded, n - R + i) = forwarded[n - R + i]
      BY <2>1, <1>1 DEF EventAt, n
    <3> QED BY <3>2, <3>3, <2>1, <2>2, <1>4 DEF k
  <2>4. Snapshot = [i \in 1 .. kept |-> events[(tail + i - 1) % R]]
    BY <1>2, <1>6 DEF Snapshot, R, tail
  <2> QED BY <2>3, <2>4, <1>3 DEF n, R, kept, S
<1> QED BY <1>5, <1>6

-----------------------------------------------------------------------------
(* An event comes in *)

LEMMA WindowStays ==
  ASSUME UNCHANGED <<windowVars, bufferVars, forwarded>>
  PROVE  WindowInv' = WindowInv
BY DEF WindowInv, windowVars, bufferVars, HoldsLatest, EventAt

LEMMA IngestKeeps ==
  ASSUME WindowInv, NEW e \in FeedEvents, Ingest(e)
  PROVE  WindowInv' /\ \A x : WasForwarded(x)' <=> WasForwarded(x) \/ x = e
<1> DEFINE n == Len(forwarded)
           W == WindowSize
<1>0. /\ forwarded \in Seq(FeedEvents)
      /\ HoldsLatest(ring, ringHead, WindowSize, forwarded)
      /\ HoldsLatest(events, head, ReplayCapacity, forwarded)
      /\ filled = IF Len(forwarded) < ReplayCapacity THEN Len(forwarded) ELSE ReplayCapacity
      /\ \A x \in seenIds : \E p \in 1 .. n : p > n - W /\ forwarded[p] = x
      /\ \A p \in 1 .. n : p > n - W => forwarded[p] \in seenIds
      /\ \A i, j \in 1 .. n : i < j /\ forwarded[i] = forwarded[j] => j - i > W
  BY DEF WindowInv
<1>1. CASE e \in seenIds
  <2>1. UNCHANGED <<windowVars, bufferVars, forwarded>>
    BY <1>1 DEF Ingest
  <2>2. WasForwarded(e)
    BY <1>0, <1>1 DEF WasForwarded
  <2> QED BY <2>1, <2>2, WindowStays DEF WasForwarded
<1>2. CASE e \notin seenIds
  <2>1. AdmitId(e) /\ Push(e) /\ forwarded' = Append(forwarded, e)
    BY <1>2 DEF Ingest
  <2>2. W \in Nat \ {0} /\ ReplayCapacity \in Nat \ {0} /\ n \in Nat
    BY <1>0, FederationAssumption, LenProperties
  <2>3. HoldsLatest(ring, ringHead, WindowSize, forwarded)'
    BY <1>0, <2>1, <2>2, SlotReplaced DEF AdmitId
  <2>4. HoldsLatest(events, head, ReplayCapacity, forwarded)'
    BY <1>0, <2>1, <2>2, SlotReplaced DEF Push
  <2>5. /\ forwarded' \in Seq(FeedEvents) /\ Len(forwarded') = n + 1
        /\ \A p \in 1 .. n : forwarded'[p] = forwarded[p]
        /\ forwarded'[n + 1] = e
    BY <1>0, <2>1, AppendedAt
  <2>6. \A x : WasForwarded(x)' <=> WasForwarded(x) \/ x = e
    <3>1. 1 .. (n + 1) = (1 .. n) \cup {n + 1}
      BY <2>2
    <3> HIDE DEF n
    <3>2. \A x : WasForwarded(x) <=> \E p \in 1 .. n : forwarded[p] = x
      BY DEF WasForwarded, n
    <3>3. \A x : WasForwarded(x)' <=> \E p \in 1 .. (n + 1) : forwarded'[p] = x
      BY <2>5 DEF WasForwarded
    <3> QED BY <2>5, <3>1, <3>2, <3>3
  <2>7. (filled = IF Len(forwarded) < ReplayCapacity THEN Len(forwarded) ELSE ReplayCapacity)'
    BY <1>0, <2>1, <2>2, <2>5 DEF Push
  <2> HIDE DEF n, W
  <2>8. \A i, j \in 1 .. n + 1 : i < j /\ forwarded'[i] = forwarded'[j] => j - i > W
    <3> SUFFICES ASSUME NEW i \in 1 .. n + 1, NEW j \in 1 .. n + 1, i < j, forwarded'[i] = forwarded'[j]
        PROVE  j - i > W
      OBVIOUS
    <3>1. i \in 1 .. n /\ forwarded'[i] = forwarded[i]
      BY <2>2, <2>5
    <3>2. CASE j \in 1 .. n
      BY <3>1, <3>2, <1>0, <2>5
    <3>3. CASE j = n + 1
      <4>1. forwarded[i] = e
        BY <3>1, <3>3, <2>5
      <4>2. ~(i > n - W)
        BY <4>1, <3>1, <1>0, <1>2
      <4> QED BY <4>2, <3>1, <3>3, <2>2
    <3> QED BY <3>2, <3>3, <2>2
  <2>9. /\ \A x \in seenIds' : \E p \in 1 .. n + 1 : p > n + 1 - W /\ forwarded'[p] = x
        /\ \A p \in 1 .. n + 1 : p > n + 1 - W => forwarded'[p] \in seenIds'
    <3>1. seenIds' = (seenIds \ {ring[ringHead]}) \cup {e}
      BY <2>1 DEF AdmitId
    <3>2. ring[ringHead] = EventAt(forwarded, n + 1 - W) /\ n + 1 - W \in Int
      <4>1. PlaceOf(ringHead, ringHead, n, W) = n + 1 - W
        BY <1>0, <2>2 DEF PlaceOf, HoldsLatest, W
      <4>2. ringHead \in 0 .. (W - 1) /\ ring[ringHead] = EventAt(forwarded, PlaceOf(ringHead, ringHead, n, W))
        BY <1>0 DEF HoldsLatest, n, W
      <4> QED BY <4>1, <4>2, <2>2
    <3>3. ASSUME NEW x \in seenIds'
          PROVE  \E p \in 1 .. n + 1 : p > n + 1 - W /\ forwarded'[p] = x
      <4>1. CASE x = e
        <5>1. n + 1 \in 1 .. n + 1 /\ n + 1 > n + 1 - W
          BY <2>2
        <5> QED BY <4>1, <5>1, <2>5
      <4>2. CASE x # e
        <5>1. x \in seenIds /\ x # ring[ringHead]
          BY <3>1, <3>3, <4>2
        <5>2. PICK p \in 1 .. n : p > n - W /\ forwarded[p] = x
          BY <5>1, <1>0
        <5>3. p # n + 1 - W
          <6> SUFFICES ASSUME p = n + 1 - W PROVE FALSE
            OBVIOUS
          <6>1. EventAt(forwarded, p) = forwarded[p]
            BY <2>2 DEF EventAt, n
          <6> QED BY <6>1, <5>1, <5>2, <3>2
        <5>4. p \in 1 .. n + 1 /\ p > n + 1 - W /\ forwarded'[p] = x
          BY <5>2, <5>3, <2>2, <2>5
        <5> QED BY <5>4
      <4> QED BY <4>1, <4>2
    <3>4. ASSUME NEW p \in 1 .. n + 1, p > n + 1 - W
          PROVE  forwarded'[p] \in seenIds'
      <4> DEFINE x == forwarded'[p]
      <4>1. CASE p = n + 1
        BY <4>1, <3>1, <3>4, <2>5
      <4>2. CASE p # n + 1
        <5>1. p \in 1 .. n /\ forwarded[p] = x /\ p > n - W
          BY <4>2, <3>4, <2>2, <2>5
        <5>2. x \in seenIds
          BY <5>1, <1>0
        <5>3. x # ring[ringHead]
          <6>1. CASE 1 <= n + 1 - W
            <7>1. PICK q \in 1 .. n : q = n + 1 - W
              BY <6>1, <2>2
            <7>2. ring[ringHead] = forwarded[q]
              BY <7>1, <3>2, <2>2 DEF EventAt, n
            <7>3. q < p /\ ~(p - q > W)
              BY <7>1, <3>4, <5>1, <2>2
            <7> QED BY <7>2, <7>3, <5>1, <1>0
          <6>2. CASE ~(1 <= n + 1 - W)
            <7>1. ring[ringHead] = NoEvent
              BY <6>2, <3>2 DEF EventAt
            <7>2. x \in FeedEvents
              BY <5>1, <1>0 DEF n
            <7> QED BY <7>1, <7>2, NoEventIsNone
          <6> QED BY <6>1, <6>2
        <5> QED BY <5>2, <5>3, <3>1
      <4> QED BY <4>1, <4>2
    <3> QED BY <3>3, <3>4
  <2>10. /\ \A x \in seenIds' : \E p \in 1 .. Len(forwarded') :
              p > Len(forwarded') - WindowSize /\ forwarded'[p] = x
         /\ \A p \in 1 .. Len(forwarded') :
              p > Len(forwarded') - WindowSize => forwarded'[p] \in seenIds'
    BY <2>2, <2>5, <2>9 DEF W
  <2>11. \A i, j \in 1 .. Len(forwarded') :
           i < j /\ forwarded'[i] = forwarded'[j] => j - i > WindowSize
    BY <2>5, <2>8 DEF W
  <2>12. WindowInv'
    BY <2>3, <2>4, <2>5, <2>7, <2>10, <2>11 DEF WindowInv
  <2> QED BY <2>6, <2>12
<1> QED BY <1>1, <1>2

-----------------------------------------------------------------------------
(* Streams *)

LEMMA WhereItResumes ==
  ASSUME FederationTypes
  PROVE  /\ \A f \in Streamed : ResumesAt(f) \subseteq Nat
         /\ ResumesAt("payments") = IF feedCursor["payments"] = 0 THEN {produced["payments"]}
                                    ELSE {feedCursor["payments"]}
BY DEF ResumesAt, FederationTypes, Streamed, Feeds

LEMMA FederationInitially ==
  ASSUME FederationInit
  PROVE  FederationInv
<1>1. FederationTypes
  BY DEF FederationInit, FederationTypes
<1>2. WindowInv
  <2>1. forwarded = <<>> /\ Len(forwarded) = 0 /\ forwarded \in Seq(FeedEvents)
    BY DEF FederationInit
  <2>2. \A p \in Int : EventAt(forwarded, p) = NoEvent
    <3> TAKE p \in Int
    <3>1. CASE 1 <= p /\ p <= Len(forwarded)
      BY <3>1, <2>1
    <3>2. CASE ~(1 <= p /\ p <= Len(forwarded))
      BY <3>2 DEF EventAt
    <3> QED BY <3>1, <3>2
  <2>6. ASSUME NEW size \in Nat \ {0}, NEW slots, slots = [i \in 0 .. (size - 1) |-> NoEvent]
        PROVE  HoldsLatest(slots, 0, size, forwarded)
    <3>1. \A k \in 0 .. (size - 1) : PlaceOf(k, 0, 0, size) \in Int
      BY DEF PlaceOf
    <3>2. \A k \in 0 .. (size - 1) : slots[k] = EventAt(forwarded, PlaceOf(k, 0, 0, size))
      BY <2>2, <2>6, <3>1
    <3> QED BY <2>1, <2>6, <3>2 DEF HoldsLatest
  <2>3. HoldsLatest(ring, ringHead, WindowSize, forwarded)
    BY <2>6, FederationAssumption DEF FederationInit
  <2>4. HoldsLatest(events, head, ReplayCapacity, forwarded)
    BY <2>6, FederationAssumption DEF FederationInit
  <2>5. filled = 0 /\ seenIds = {}
    BY DEF FederationInit
  <2> QED BY <2>1, <2>3, <2>4, <2>5, FederationAssumption DEF WindowInv
<1>3. PaymentsInv
  BY DEF FederationInit, PaymentsInv, CoveredTo, WasForwarded, Streamed, Feeds
<1>4. ReadsOrReconnects
  BY DEF FederationInit, ReadsOrReconnects
<1> QED BY <1>1, <1>2, <1>3, <1>4 DEF FederationInv

\* Nothing comes in and no stream is opened; the streams that are left are some
\* of those before.
LEMMA NothingComes ==
  ASSUME FederationInv,
         streams' \subseteq streams,
         strays' \in Nat,
         poll' \in [Polls -> [pc : {"idle", "number", "block"}, number : Nat]],
         UNCHANGED <<produced, feedCursor, openings, startedAt, windowVars, bufferVars, forwarded>>
  PROVE  FederationTypes' /\ WindowInv' /\ PaymentsInv'
<1>1. FederationTypes'
  BY DEF FederationInv, FederationTypes
<1>2. WindowInv'
  BY WindowStays DEF FederationInv
<1>3. \A x : CoveredTo(x)' = CoveredTo(x)
  BY DEF CoveredTo, WasForwarded
<1>4. PaymentsInv'
  BY <1>3 DEF FederationInv, PaymentsInv, WasForwarded
<1> QED BY <1>1, <1>2, <1>4

LEMMA ChainMovesKeeps ==
  ASSUME FederationInv, NEW f \in Feeds, ChainMoves(f)
  PROVE  FederationInv'
<1>0. FederationTypes /\ WindowInv /\ PaymentsInv /\ ReadsOrReconnects
  BY DEF FederationInv
<1>1. UNCHANGED <<connectorVars, pollVars, windowVars, bufferVars, forwarded>>
  BY DEF ChainMoves
<1>2. produced' \in [Feeds -> Nat] /\ produced'["payments"] >= produced["payments"]
      /\ produced["payments"] \in Nat
  <2>1. produced' = [produced EXCEPT ![f] = produced[f] + 1]
    BY <1>0 DEF ChainMoves, FederationTypes
  <2>2. "payments" \in Feeds
    BY DEF Feeds, Streamed
  <2> QED BY <1>0, <2>1, <2>2 DEF FederationTypes
<1>3. FederationTypes'
  BY <1>0, <1>1, <1>2 DEF FederationTypes, connectorVars, pollVars
<1>4. WindowInv'
  BY <1>0, <1>1, WindowStays
<1>5. PaymentsInv'
  <2>1. \A x : CoveredTo(x)' = CoveredTo(x) /\ WasForwarded(x)' = WasForwarded(x)
    BY <1>1 DEF CoveredTo, WasForwarded, connectorVars
  <2>2. startedAt["payments"] \in Nat /\ feedCursor["payments"] \in Nat /\ \A s \in streams : s.read \in Nat
    BY <1>0 DEF FederationTypes, Streamed
  <2>3. produced'["payments"] \in Nat
    BY <1>2 DEF Feeds, Streamed
  <2> HIDE DEF CoveredTo, WasForwarded
  <2>4. \A k \in Nat : k <= produced["payments"] => k <= produced'["payments"]
    BY <1>2, <2>3
  <2> QED BY <1>0, <1>1, <2>1, <2>2, <2>4 DEF PaymentsInv, connectorVars
<1>6. ReadsOrReconnects'
  BY <1>0, <1>1 DEF ReadsOrReconnects, connectorVars
<1> QED BY <1>3, <1>4, <1>5, <1>6 DEF FederationInv

\* Opening leaves the payment streams where nothing before them was left out.
LEMMA OpenStreamsKeeps ==
  ASSUME FederationInv, OpenStreams, strays' \in Nat,
         poll' \in [Polls -> [pc : {"idle", "number", "block"}, number : Nat]],
         UNCHANGED <<produced, feedCursor, windowVars, bufferVars, forwarded>>
  PROVE  FederationInv'
<1>0. FederationTypes /\ WindowInv /\ PaymentsInv
  BY DEF FederationInv
<1>1. PICK at \in [Streamed -> UNION {ResumesAt(f) : f \in Streamed}] :
        /\ \A f \in Streamed : at[f] \in ResumesAt(f)
        /\ streams' = streams \cup
             {[feed |-> f, opening |-> openings + 1, read |-> at[f]] : f \in Streamed}
  BY DEF OpenStreams
<1>2. openings' = openings + 1
      /\ startedAt' = [f \in Streamed |-> IF feedCursor[f] = 0 THEN produced[f] ELSE startedAt[f]]
  BY DEF OpenStreams
<1>3. \A f \in Streamed : at[f] \in Nat
  BY <1>0, <1>1, WhereItResumes
<1>4. \A f \in Streamed : [feed |-> f, opening |-> openings + 1, read |-> at[f]]
                            \in [feed : Streamed, opening : Nat, read : Nat]
  BY <1>0, <1>3 DEF FederationTypes
<1>5. "payments" \in Streamed /\ "payments" \in Feeds /\ Streamed \subseteq Feeds
  BY DEF Streamed, Feeds
<1>6. FederationTypes'
  <2>1. startedAt' \in [Streamed -> Nat]
    BY <1>0, <1>2, <1>5 DEF FederationTypes
  <2>2. streams' \subseteq [feed : Streamed, opening : Nat, read : Nat]
    BY <1>0, <1>1, <1>4 DEF FederationTypes
  <2>3. openings' \in Nat
    BY <1>0, <1>2 DEF FederationTypes
  <2> QED BY <1>0, <2>1, <2>2, <2>3 DEF FederationTypes
<1>7. WindowInv'
  BY <1>0, WindowStays
<1>8. PaymentsInv'
  <2> DEFINE P == produced["payments"]
             C == feedCursor["payments"]
  <2>1. P \in Nat /\ C \in Nat /\ startedAt["payments"] \in Nat
    BY <1>0, <1>5 DEF FederationTypes
  <2>2. startedAt'["payments"] = IF C = 0 THEN P ELSE startedAt["payments"]
    BY <1>2, <1>5
  <2>3. startedAt["payments"] <= startedAt'["payments"] /\ startedAt'["payments"] <= P
    BY <1>0, <2>1, <2>2 DEF PaymentsInv
  <2>4. \A x \in Nat : CoveredTo(x) => CoveredTo(x)'
    <3> SUFFICES ASSUME NEW x \in Nat, CoveredTo(x), NEW k \in Nat,
                        startedAt'["payments"] < k, k <= x
        PROVE  WasForwarded(Event("payments", k))
      BY DEF CoveredTo, WasForwarded, Event
    <3>1. startedAt["payments"] < k
      BY <2>1, <2>2, <2>3
    <3> QED BY <3>1 DEF CoveredTo
  <2>5. \A x \in Nat : x <= startedAt'["payments"] => CoveredTo(x)'
    <3> SUFFICES ASSUME NEW x \in Nat, x <= startedAt'["payments"], NEW k \in Nat,
                        startedAt'["payments"] < k, k <= x
        PROVE  FALSE
      BY DEF CoveredTo
    <3> QED BY <2>1, <2>2
  <2>6. \A s \in streams : s.read \in Nat
    BY <1>0 DEF FederationTypes
  <2>7. at["payments"] = IF C = 0 THEN P ELSE C
    BY <1>0, <1>1, <1>5, WhereItResumes
  <2>8. at["payments"] <= P /\ CoveredTo(at["payments"])'
    <3>1. CASE C = 0
      BY <3>1, <2>1, <2>2, <2>5, <2>7
    <3>2. CASE C # 0
      BY <3>2, <1>0, <2>1, <2>4, <2>7 DEF PaymentsInv
    <3> QED BY <3>1, <3>2
  <2>9. \A x : WasForwarded(x)' = WasForwarded(x)
    BY DEF WasForwarded
  <2> HIDE DEF CoveredTo, WasForwarded, P, C
  <2>10. \A s \in streams' : s.feed = "payments" => s.read <= P /\ CoveredTo(s.read)'
    <3> SUFFICES ASSUME NEW s \in streams', s.feed = "payments"
        PROVE  s.read <= P /\ CoveredTo(s.read)'
      OBVIOUS
    <3>1. CASE s \in streams
      BY <3>1, <1>0, <2>4, <2>6 DEF PaymentsInv, P
    <3>2. CASE s \in {[feed |-> f, opening |-> openings + 1, read |-> at[f]] : f \in Streamed}
      <4>1. s.read = at["payments"]
        BY <3>2
      <4> QED BY <4>1, <2>8
    <3> QED BY <3>1, <3>2, <1>1
  <2>11. C <= P /\ CoveredTo(C)'
    BY <1>0, <2>1, <2>4 DEF PaymentsInv, P, C
  <2>12. \A k \in Nat : WasForwarded(Event("payments", k))' => k <= P /\ CoveredTo(k)'
    <3> SUFFICES ASSUME NEW k \in Nat, WasForwarded(Event("payments", k))'
        PROVE  k <= P /\ CoveredTo(k)'
      OBVIOUS
    <3>1. WasForwarded(Event("payments", k))
      BY <2>9 DEF Event
    <3> QED BY <3>1, <1>0, <2>4 DEF PaymentsInv, P
  <2> QED BY <2>3, <2>10, <2>11, <2>12 DEF PaymentsInv, P, C
<1>9. ReadsOrReconnects'
  <2>1. \A f \in Streamed : \E s \in streams' : s.feed = f
    <3> TAKE f \in Streamed
    <3> DEFINE s == [feed |-> f, opening |-> openings + 1, read |-> at[f]]
    <3>1. s \in streams' /\ s.feed = f
      BY <1>1
    <3> QED BY <3>1
  <2> QED BY <2>1 DEF ReadsOrReconnects
<1> QED BY <1>6, <1>7, <1>8, <1>9 DEF FederationInv

LEMMA StartFederationKeeps ==
  ASSUME FederationInv, StartFederation
  PROVE  FederationInv'
<1>1. OpenStreams /\ UNCHANGED <<produced, feedCursor, windowVars, bufferVars, forwarded>>
  BY DEF StartFederation
<1>2. strays' \in Nat
  BY DEF FederationInv, FederationTypes, StartFederation
<1>3. poll' \in [Polls -> [pc : {"idle", "number", "block"}, number : Nat]]
  BY DEF FederationInv, FederationTypes, StartFederation
<1> QED BY <1>1, <1>2, <1>3, OpenStreamsKeeps

LEMMA StopFederationKeeps ==
  ASSUME FederationInv, StopFederation
  PROVE  FederationInv'
<1>1. FederationTypes' /\ WindowInv' /\ PaymentsInv'
  BY NothingComes DEF StopFederation, FederationInv, FederationTypes
<1>2. ReadsOrReconnects'
  BY DEF ReadsOrReconnects, StopFederation
<1> QED BY <1>1, <1>2 DEF FederationInv

LEMMA StreamEventKeeps ==
  ASSUME FederationInv, NEW s \in streams, StreamEvent(s)
  PROVE  FederationInv'
<1>0. FederationTypes /\ WindowInv /\ PaymentsInv /\ ReadsOrReconnects
  BY DEF FederationInv
<1> DEFINE next == [s EXCEPT !.read = s.read + 1]
           e == Event(s.feed, s.read + 1)
<1>1. /\ s.feed \in Streamed /\ s.opening \in Nat /\ s.read \in Nat /\ s.read + 1 <= produced[s.feed]
      /\ produced[s.feed] \in Nat /\ s = [feed |-> s.feed, opening |-> s.opening, read |-> s.read]
  BY <1>0 DEF FederationTypes, StreamEvent, Feeds
<1>2. next = [feed |-> s.feed, opening |-> s.opening, read |-> s.read + 1]
  BY <1>1
<1>3. e \in FeedEvents /\ e = [feed |-> s.feed, number |-> s.read + 1]
  BY <1>1 DEF FeedEvents, Event, Feeds
<1>4. /\ streams' = (streams \ {s}) \cup {next}
      /\ feedCursor' = [feedCursor EXCEPT ![s.feed] = s.read + 1]
      /\ Ingest(e)
      /\ UNCHANGED <<produced, running, openings, armed, strays, startedAt, gaveUp, poll>>
  BY DEF StreamEvent, pollVars
<1> HIDE DEF next, e
<1>5. next \in [feed : Streamed, opening : Nat, read : Nat] /\ next.feed = s.feed /\ next.read = s.read + 1
  BY <1>1, <1>2
<1>6. WindowInv' /\ \A x : WasForwarded(x)' <=> WasForwarded(x) \/ x = e
  BY <1>0, <1>3, <1>4, IngestKeeps
<1>7. FederationTypes'
  <2>1. forwarded' \in Seq(FeedEvents)
    BY <1>6 DEF WindowInv
  <2>2. feedCursor' \in [Streamed -> Nat]
    BY <1>0, <1>1, <1>4 DEF FederationTypes
  <2>3. streams' \subseteq [feed : Streamed, opening : Nat, read : Nat]
    BY <1>0, <1>4, <1>5 DEF FederationTypes
  <2> QED BY <1>0, <1>4, <2>1, <2>2, <2>3 DEF FederationTypes
<1>8. \A x \in Nat : CoveredTo(x) => CoveredTo(x)'
  BY <1>4, <1>6 DEF CoveredTo, Event
<1>9. \A t \in streams : t.read \in Nat
  BY <1>0 DEF FederationTypes
<1>10. PaymentsInv'
  <2> DEFINE P == produced["payments"]
  <2>0. feedCursor["payments"] \in Nat
    BY <1>0 DEF FederationTypes, Streamed
  <2>1. CASE s.feed # "payments"
    <3>1. feedCursor'["payments"] = feedCursor["payments"]
      BY <2>1, <1>0, <1>1, <1>4 DEF FederationTypes, Streamed
    <3>2. \A k \in Nat : WasForwarded(Event("payments", k))' => WasForwarded(Event("payments", k))
      <4> TAKE k \in Nat
      <4>1. Event("payments", k) # e
        BY <2>1, <1>3 DEF Event
      <4> QED BY <4>1, <1>6 DEF Event
    <3> HIDE DEF WasForwarded, CoveredTo
    <3>3. \A t \in streams' : t.feed = "payments" => t.read <= P /\ CoveredTo(t.read)'
      BY <2>1, <1>0, <1>4, <1>5, <1>8, <1>9 DEF PaymentsInv
    <3>4. \A k \in Nat : WasForwarded(Event("payments", k))' => k <= P /\ CoveredTo(k)'
      BY <3>2, <1>0, <1>8 DEF PaymentsInv
    <3>5. feedCursor'["payments"] <= P /\ CoveredTo(feedCursor["payments"])'
      BY <3>1, <2>0, <1>0, <1>8 DEF PaymentsInv
    <3> QED BY <3>1, <3>3, <3>4, <3>5, <1>0, <1>4 DEF PaymentsInv
  <2>2. CASE s.feed = "payments"
    <3>1. feedCursor'["payments"] = s.read + 1
      BY <2>2, <1>0, <1>1, <1>4 DEF FederationTypes
    <3>2. CoveredTo(s.read) /\ s.read + 1 <= P
      BY <2>2, <1>0, <1>1 DEF PaymentsInv
    <3>3. \A k \in Nat : startedAt["payments"] < k /\ k <= s.read + 1 => WasForwarded(Event("payments", k))'
      <4> SUFFICES ASSUME NEW k \in Nat, startedAt["payments"] < k, k <= s.read + 1
          PROVE  WasForwarded(Event("payments", k))'
        OBVIOUS
      <4>1. CASE k = s.read + 1
        <5>1. Event("payments", k) = e
          BY <4>1, <2>2, <1>3 DEF Event
        <5> QED BY <5>1, <1>6 DEF Event
      <4>2. CASE k # s.read + 1
        <5>1. k <= s.read
          BY <4>2, <1>1
        <5>2. WasForwarded(Event("payments", k))
          BY <5>1, <3>2 DEF CoveredTo
        <5> QED BY <5>2, <1>6 DEF Event
      <4> QED BY <4>1, <4>2
    <3>4. \A x \in Nat : x = s.read + 1 => CoveredTo(x)'
      BY <3>3, <1>4 DEF CoveredTo, Event
    <3>5. \A k \in Nat : WasForwarded(Event("payments", k))' =>
                           WasForwarded(Event("payments", k)) \/ k = s.read + 1
      <4> TAKE k \in Nat
      <4>1. Event("payments", k) = e => k = s.read + 1
        BY <1>3 DEF Event
      <4> QED BY <4>1, <1>6 DEF Event
    <3> HIDE DEF WasForwarded, CoveredTo
    <3>6. \A t \in streams' : t.feed = "payments" => t.read <= P /\ CoveredTo(t.read)'
      <4> SUFFICES ASSUME NEW t \in streams', t.feed = "payments"
          PROVE  t.read <= P /\ CoveredTo(t.read)'
        OBVIOUS
      <4>1. CASE t \in streams
        BY <4>1, <1>0, <1>8, <1>9 DEF PaymentsInv
      <4>2. CASE t = next
        <5>1. t.read = s.read + 1 /\ t.read \in Nat
          BY <4>2, <1>1, <1>5
        <5> QED BY <5>1, <3>2, <3>4
      <4> QED BY <4>1, <4>2, <1>4
    <3>7. \A k \in Nat : WasForwarded(Event("payments", k))' => k <= P /\ CoveredTo(k)'
      BY <3>2, <3>4, <3>5, <1>0, <1>8 DEF PaymentsInv
    <3>8. \A x \in Nat : x = s.read + 1 => x <= P /\ CoveredTo(x)'
      BY <3>2, <3>4
    <3>9. feedCursor'["payments"] \in Nat
      BY <3>1, <1>1
    <3>10. feedCursor'["payments"] <= P /\ CoveredTo(feedCursor["payments"])'
      BY <3>1, <3>8, <3>9
    <3> QED BY <3>6, <3>7, <3>10, <1>0, <1>4 DEF PaymentsInv
  <2> QED BY <2>1, <2>2
<1>11. ReadsOrReconnects'
  <2>1. \A f : (\E t \in streams : t.feed = f) => \E t \in streams' : t.feed = f
    BY <1>4, <1>5
  <2> QED BY <2>1, <1>0, <1>4 DEF ReadsOrReconnects
<1> QED BY <1>6, <1>7, <1>10, <1>11 DEF FederationInv

LEMMA StreamErrorKeeps ==
  ASSUME FederationInv, NEW s \in streams, StreamError(s)
  PROVE  FederationInv'
<1>0. FederationTypes /\ ReadsOrReconnects
  BY DEF FederationInv
<1>1. PICK kept \in {streams, streams \ {s}} : ScheduleReconnect(kept)
  BY DEF StreamError
<1>2. UNCHANGED <<produced, running, feedCursor, openings, startedAt, poll,
                  windowVars, bufferVars, forwarded>>
  BY DEF StreamError, pollVars
<1>3. streams' \subseteq streams /\ strays' \in Nat
  BY <1>0, <1>1 DEF ScheduleReconnect, FederationTypes
<1>4. FederationTypes' /\ WindowInv' /\ PaymentsInv'
  BY <1>0, <1>2, <1>3, NothingComes DEF FederationTypes
<1>5. ReadsOrReconnects'
  BY <1>1, <1>2 DEF ReadsOrReconnects, ScheduleReconnect
<1> QED BY <1>4, <1>5 DEF FederationInv

LEMMA ReconnectTimerKeeps ==
  ASSUME FederationInv, ReconnectTimer
  PROVE  FederationInv'
<1>0. FederationTypes
  BY DEF FederationInv
<1>1. UNCHANGED <<produced, running, feedCursor, gaveUp, poll, windowVars, bufferVars, forwarded>>
  BY DEF ReconnectTimer, pollVars
<1>2. strays' \in Nat
  BY <1>0 DEF ReconnectTimer, FederationTypes
<1>3. poll' \in [Polls -> [pc : {"idle", "number", "block"}, number : Nat]]
  BY <1>0, <1>1 DEF FederationTypes
<1>4. CASE running /\ OpenStreams
  BY <1>1, <1>2, <1>3, <1>4, OpenStreamsKeeps
<1>5. CASE ~running /\ UNCHANGED <<openings, closers, streams, startedAt>>
  <2>1. FederationTypes' /\ WindowInv' /\ PaymentsInv'
    BY <1>1, <1>2, <1>3, <1>5, NothingComes
  <2>2. ReadsOrReconnects'
    BY <1>1, <1>5 DEF ReadsOrReconnects
  <2> QED BY <2>1, <2>2 DEF FederationInv
<1> QED BY <1>4, <1>5 DEF ReconnectTimer

\* The polls' steps change nothing but the polls and, with an answer, what is forwarded.
LEMMA PollStepKeeps ==
  ASSUME FederationInv, NEW p \in Polls,
         PollTimer(p) \/ BlockNumber(p) \/ PollFails(p)
  PROVE  FederationInv'
<1>0. FederationTypes /\ ReadsOrReconnects
  BY DEF FederationInv
<1>1. UNCHANGED <<produced, connectorVars, windowVars, bufferVars, forwarded>>
  BY DEF PollTimer, BlockNumber, PollFails
<1> DEFINE PollType == [pc : {"idle", "number", "block"}, number : Nat]
<1>2. poll' \in [Polls -> PollType]
  <2>1. poll \in [Polls -> PollType] /\ produced["blocks"] \in Nat
    BY <1>0 DEF FederationTypes, Feeds, Streamed
  <2>2. \A q \in PollType : [q EXCEPT !.pc = "number"] \in PollType /\ [q EXCEPT !.pc = "idle"] \in PollType
    OBVIOUS
  <2>3. \A n \in Nat : [pc |-> "idle", number |-> n] \in PollType /\ [pc |-> "block", number |-> n] \in PollType
    OBVIOUS
  <2> DEFINE q == poll[p]
  <2>4. q \in PollType
    BY <2>1
  <2>5. CASE PollTimer(p)
    <3>1. poll' = [poll EXCEPT ![p] = [q EXCEPT !.pc = "number"]]
      BY <2>5 DEF PollTimer
    <3> HIDE DEF q, PollType
    <3> QED BY <3>1, <2>1, <2>2, <2>4
  <2>6. CASE BlockNumber(p)
    <3>1. \/ poll' = [poll EXCEPT ![p] = [q EXCEPT !.pc = "idle"]]
          \/ poll' = [poll EXCEPT ![p] = [pc |-> "block", number |-> produced["blocks"]]]
      BY <2>6 DEF BlockNumber
    <3> HIDE DEF q, PollType
    <3> QED BY <3>1, <2>1, <2>2, <2>3, <2>4
  <2>7. CASE PollFails(p)
    <3>1. poll' = [poll EXCEPT ![p] = [pc |-> "idle", number |-> 0]]
      BY <2>7 DEF PollFails
    <3> HIDE DEF PollType
    <3> QED BY <3>1, <2>1, <2>3
  <2> QED BY <2>5, <2>6, <2>7
<1>3. FederationTypes' /\ WindowInv' /\ PaymentsInv'
  BY <1>0, <1>1, <1>2, NothingComes DEF connectorVars, FederationTypes
<1>4. ReadsOrReconnects'
  BY <1>0, <1>1 DEF ReadsOrReconnects, connectorVars
<1> QED BY <1>3, <1>4 DEF FederationInv

LEMMA BlockAnswerKeeps ==
  ASSUME FederationInv, NEW p \in Polls, BlockAnswer(p)
  PROVE  FederationInv'
<1>0. FederationTypes /\ WindowInv /\ PaymentsInv /\ ReadsOrReconnects
  BY DEF FederationInv
<1>1. UNCHANGED <<produced, connectorVars>>
  BY DEF BlockAnswer
<1> DEFINE e == Event("blocks", poll[p].number)
<1>2. e \in FeedEvents /\ \A k : Event("payments", k) # e
  BY <1>0 DEF FeedEvents, Event, Feeds, FederationTypes
<1>3. Ingest(e)
  BY DEF BlockAnswer
<1> HIDE DEF e
<1>4. WindowInv' /\ \A x : WasForwarded(x)' <=> WasForwarded(x) \/ x = e
  BY <1>0, <1>2, <1>3, IngestKeeps
<1>5. FederationTypes'
  <2>1. poll' = [poll EXCEPT ![p] = [pc |-> "idle", number |-> 0]]
    BY DEF BlockAnswer
  <2>2. [pc |-> "idle", number |-> 0] \in [pc : {"idle", "number", "block"}, number : Nat]
    OBVIOUS
  <2>3. poll' \in [Polls -> [pc : {"idle", "number", "block"}, number : Nat]]
    BY <1>0, <2>1, <2>2 DEF FederationTypes
  <2>4. forwarded' \in Seq(FeedEvents)
    BY <1>4 DEF WindowInv
  <2> QED BY <1>0, <1>1, <2>3, <2>4 DEF FederationTypes, connectorVars
<1>6. \A k \in Nat : WasForwarded(Event("payments", k))' = WasForwarded(Event("payments", k))
  <2> TAKE k \in Nat
  <2>1. WasForwarded(Event("payments", k))' <=> WasForwarded(Event("payments", k))
    BY <1>2, <1>4 DEF Event
  <2> QED BY <2>1 DEF WasForwarded
<1>7. \A x : CoveredTo(x) => CoveredTo(x)'
  BY <1>1, <1>6 DEF CoveredTo, connectorVars
<1>8. PaymentsInv'
  <2> HIDE DEF WasForwarded, CoveredTo
  <2> QED BY <1>0, <1>1, <1>6, <1>7 DEF PaymentsInv, connectorVars
<1>9. ReadsOrReconnects'
  BY <1>0, <1>1 DEF ReadsOrReconnects, connectorVars
<1> QED BY <1>4, <1>5, <1>8, <1>9 DEF FederationInv

-----------------------------------------------------------------------------
(* Conclusion *)

LEMMA FederationStep ==
  ASSUME FederationInv, [FederationNext]_federationVars
  PROVE  FederationInv'
<1>1. ASSUME NEW f \in Feeds, ChainMoves(f) PROVE FederationInv'
  BY <1>1, ChainMovesKeeps
<1>2. CASE StartFederation
  BY <1>2, StartFederationKeeps
<1>3. CASE StopFederation
  BY <1>3, StopFederationKeeps
<1>4. ASSUME NEW s \in streams, StreamEvent(s) PROVE FederationInv'
  BY <1>4, StreamEventKeeps
<1>5. ASSUME NEW s \in streams, StreamError(s) PROVE FederationInv'
  BY <1>5, StreamErrorKeeps
<1>6. CASE ReconnectTimer
  BY <1>6, ReconnectTimerKeeps
<1>7. ASSUME NEW p \in Polls, PollTimer(p) \/ BlockNumber(p) \/ PollFails(p) PROVE FederationInv'
  BY <1>7, PollStepKeeps
<1>8. ASSUME NEW p \in Polls, BlockAnswer(p) PROVE FederationInv'
  BY <1>8, BlockAnswerKeeps
<1>9. CASE UNCHANGED federationVars
  <2>1. UNCHANGED <<produced, connectorVars, poll, windowVars, bufferVars, forwarded>>
    BY <1>9 DEF federationVars, pollVars
  <2>2. FederationTypes' /\ WindowInv' /\ PaymentsInv'
    BY <2>1, NothingComes DEF connectorVars, FederationInv, FederationTypes
  <2>3. ReadsOrReconnects'
    BY <2>1 DEF FederationInv, ReadsOrReconnects, connectorVars
  <2> QED BY <2>2, <2>3 DEF FederationInv
<1> QED BY <1>1, <1>2, <1>3, <1>4, <1>5, <1>6, <1>7, <1>8, <1>9 DEF FederationNext

LEMMA FederationConclusion ==
  ASSUME FederationInv
  PROVE  FeedsKept
<1>0. FederationTypes /\ WindowInv /\ PaymentsInv /\ ReadsOrReconnects
  BY DEF FederationInv
<1>1. DOMAIN forwarded = 1 .. Len(forwarded)
  BY <1>0, LenProperties DEF FederationTypes
<1>2. WindowKept
  BY <1>0, <1>1, SnapshotIsLatest DEF WindowKept, WindowInv
<1>3. NoGapAfterTheCursor
  <2> DEFINE read == {e.number : e \in {x \in Range(forwarded) : x.feed = "payments"}}
  <2>1. \A x : x \in Range(forwarded) <=> WasForwarded(x)
    BY <1>1 DEF Range, WasForwarded
  <2>2. \A x : WasForwarded(x) => x \in FeedEvents
    BY <1>0 DEF WasForwarded, FederationTypes
  <2> HIDE DEF WasForwarded
  <2>3. \A m \in read : m \in Nat /\ WasForwarded(Event("payments", m))
    <3> TAKE m \in read
    <3>1. PICK x \in Range(forwarded) : x.feed = "payments" /\ m = x.number
      OBVIOUS
    <3>2. x \in FeedEvents /\ WasForwarded(x)
      BY <3>1, <2>1, <2>2
    <3>3. x = Event("payments", m) /\ m \in Nat
      BY <3>1, <3>2 DEF FeedEvents, Event
    <3> QED BY <3>2, <3>3
  <2>4. \A k \in Nat : WasForwarded(Event("payments", k)) => k \in read
    <3> SUFFICES ASSUME NEW k \in Nat, WasForwarded(Event("payments", k)) PROVE k \in read
      OBVIOUS
    <3>1. Event("payments", k) \in Range(forwarded) /\ Event("payments", k).feed = "payments"
          /\ Event("payments", k).number = k
      BY <2>1 DEF Event
    <3> QED BY <3>1
  <2> HIDE DEF read
  <2>5. \A m \in read, k \in 1 .. MaxChainEvents : startedAt["payments"] < k /\ k < m => k \in read
    <3> SUFFICES ASSUME NEW m \in read, NEW k \in 1 .. MaxChainEvents, startedAt["payments"] < k, k < m
        PROVE  k \in read
      OBVIOUS
    <3>1. CoveredTo(m)
      BY <1>0, <2>3 DEF PaymentsInv
    <3>2. m \in Nat /\ k \in Nat /\ k <= m
      BY <2>3
    <3> QED BY <2>4, <3>1, <3>2 DEF CoveredTo
  <2> QED BY <2>5 DEF NoGapAfterTheCursor, read
<1> QED BY <1>0, <1>2, <1>3 DEF FeedsKept

\* Listeners and replay buffer see what the window lets through, reconnects
\* resume where the payment cursor stands, and no feed is forgotten before the
\* attempts are used up (deduplicator.ts:63, replayBuffer.ts:65,
\* stellarConnector.ts:109 and 153).
THEOREM FederationKeepsFeeds == FederationSpec => []FeedsKept
<1>1. FederationInit => FederationInv
  BY FederationInitially
<1>2. FederationInv /\ [FederationNext]_federationVars => FederationInv'
  BY FederationStep
<1>3. FederationInv => FeedsKept
  BY FederationConclusion
<1> QED BY <1>1, <1>2, <1>3, PTL DEF FederationSpec

-----------------------------------------------------------------------------
(* Types of the federation *)

\* The streams are of openings that were made, and so are the closers.
OpeningsCounted ==
  /\ \A s \in streams : s.opening \in 1 .. openings
  /\ closers \in 0 .. openings

FederationBounds ==
  /\ \A f \in Feeds : produced[f] <= MaxChainEvents
  /\ Produced <= MaxChainEvents
  /\ running \in BOOLEAN /\ armed \in BOOLEAN /\ interval \in BOOLEAN /\ gaveUp \in BOOLEAN
  /\ reconnectAttempt \in 0 .. MaxReconnectAttempts
  /\ OpeningsCounted

FederationTypeInv == FederationInv /\ FederationBounds

LEMMA FederationTypeInvInit == FederationInit => FederationTypeInv
<1> SUFFICES ASSUME FederationInit PROVE FederationBounds
  BY FederationInitially DEF FederationTypeInv
<1>1. \A f \in Feeds : produced[f] = 0
  BY DEF FederationInit
<1>2. Produced = 0
  BY <1>1 DEF Produced, Feeds, Streamed
<1>3. OpeningsCounted
  <2>1. streams = {} /\ closers = 0 /\ openings = 0
    BY DEF FederationInit
  <2> QED BY <2>1 DEF OpeningsCounted
<1>4. running = FALSE /\ armed = FALSE /\ interval = FALSE /\ gaveUp = FALSE /\ reconnectAttempt = 0
  BY DEF FederationInit
<1> HIDE DEF Produced
<1>5. /\ 0 <= MaxChainEvents /\ 0 \in 0 .. MaxReconnectAttempts
  BY FederationAssumption
<1>6. (\A f \in Feeds : produced[f] <= MaxChainEvents) /\ Produced <= MaxChainEvents
  BY <1>1, <1>2, <1>5
<1>7. running \in BOOLEAN /\ armed \in BOOLEAN /\ interval \in BOOLEAN /\ gaveUp \in BOOLEAN
  BY <1>4
<1> QED BY <1>3, <1>4, <1>5, <1>6, <1>7 DEF FederationBounds

LEMMA OpenStreamsCounted ==
  ASSUME FederationTypes, OpeningsCounted, OpenStreams
  PROVE  OpeningsCounted'
<1>1. openings \in Nat /\ openings' = openings + 1 /\ closers' = openings + 1
  BY DEF OpenStreams, FederationTypes
<1>2. PICK at : streams' = streams \cup
            {[feed |-> f, opening |-> openings + 1, read |-> at[f]] : f \in Streamed}
  BY DEF OpenStreams
<1>3. \A s \in streams' : s \in streams \/ s.opening = openings + 1
  BY <1>2
<1>4. \A s \in streams' : s.opening \in 1 .. openings'
  BY <1>1, <1>3 DEF OpeningsCounted
<1> QED BY <1>1, <1>4 DEF OpeningsCounted

\* What leaves the streams' openings and the counters as they are
LEMMA FewerStreams ==
  ASSUME FederationTypes, OpeningsCounted, UNCHANGED openings, closers' \in {0, closers},
         \A s \in streams' : \E r \in streams : s.opening = r.opening
  PROVE  OpeningsCounted'
BY DEF OpeningsCounted, FederationTypes

LEMMA BoundsStay ==
  ASSUME FederationBounds, UNCHANGED <<produced, running, armed, gaveUp, reconnectAttempt, streams,
                                       openings, closers>>,
         interval' \in BOOLEAN
  PROVE  FederationBounds'
BY DEF FederationBounds, OpeningsCounted, Produced

LEMMA FederationBoundsStep ==
  ASSUME FederationTypeInv, FederationNext
  PROVE  FederationBounds'
<1>0. FederationTypes /\ FederationBounds
  BY DEF FederationTypeInv, FederationInv
<1> USE FederationAssumption
<1>1. ASSUME NEW f \in Feeds, ChainMoves(f) PROVE FederationBounds'
  <2>1. /\ produced["payments"] \in Nat /\ produced["ledgers"] \in Nat /\ produced["blocks"] \in Nat
        /\ produced \in [Feeds -> Nat] /\ produced' = [produced EXCEPT ![f] = @ + 1]
        /\ Produced < MaxChainEvents /\ f \in {"payments", "ledgers", "blocks"}
    BY <1>0, <1>1 DEF FederationTypes, ChainMoves, Feeds, Streamed
  <2>2. Produced' = Produced + 1 /\ Produced \in Nat
    BY <2>1 DEF Produced, Feeds, Streamed
  <2>3. \A g \in Feeds : produced'[g] <= Produced'
    BY <2>1 DEF Produced, Feeds, Streamed
  <2>4. \A g \in Feeds : produced'[g] \in Nat
    BY <2>1
  <2> HIDE DEF Produced
  <2>5. \A g \in Feeds : produced'[g] <= MaxChainEvents
    BY <2>1, <2>2, <2>3, <2>4
  <2>6. Produced' <= MaxChainEvents
    BY <2>1, <2>2
  <2> QED BY <2>5, <2>6, <1>0, <1>1
          DEF ChainMoves, FederationBounds, OpeningsCounted, connectorVars, pollVars
<1>2. CASE StartFederation
  <2>1. OpeningsCounted'
    BY <1>0, <1>2, OpenStreamsCounted DEF StartFederation, FederationBounds
  <2>2. 0 \in 0 .. MaxReconnectAttempts
    OBVIOUS
  <2> QED BY <2>1, <2>2, <1>0, <1>2 DEF StartFederation, FederationBounds, Produced
<1>3. CASE StopFederation
  <2>1. OpeningsCounted'
    BY <1>0, <1>3, FewerStreams DEF StopFederation, FederationBounds
  <2> QED BY <2>1, <1>0, <1>3 DEF StopFederation, FederationBounds, Produced
<1>4. ASSUME NEW s \in streams, StreamEvent(s) PROVE FederationBounds'
  <2>1. \A r \in streams' : \E q \in streams : r.opening = q.opening
    <3>1. PICK x : x = [s EXCEPT !.read = s.read + 1]
      OBVIOUS
    <3>2. streams' = (streams \ {s}) \cup {x}
      BY <1>4, <3>1 DEF StreamEvent
    <3>3. x.opening = s.opening
      BY <3>1, <1>0 DEF FederationTypes
    <3> QED BY <3>2, <3>3
  <2>2. UNCHANGED <<produced, running, closers, openings, armed, gaveUp, interval>> /\ reconnectAttempt' = 0
    BY <1>4 DEF StreamEvent, pollVars
  <2>3. OpeningsCounted'
    BY <2>1, <2>2, <1>0, FewerStreams DEF FederationBounds
  <2> QED BY <2>2, <2>3, <1>0 DEF FederationBounds, Produced
<1>5. ASSUME NEW s \in streams, StreamError(s) PROVE FederationBounds'
  <2>1. PICK l \in {streams, streams \ {s}} : ScheduleReconnect(l)
    BY <1>5 DEF StreamError
  <2>2. streams' \subseteq streams /\ closers' \in {0, closers}
    BY <2>1 DEF ScheduleReconnect
  <2>3. UNCHANGED <<produced, running, openings, interval>>
    BY <1>5 DEF StreamError, pollVars
  <2>4. OpeningsCounted'
    BY <2>2, <2>3, <1>0, FewerStreams DEF FederationBounds
  <2>5. armed' \in BOOLEAN /\ gaveUp' \in BOOLEAN
    BY <2>1, <1>0 DEF ScheduleReconnect, FederationBounds
  <2>6. reconnectAttempt' \in 0 .. MaxReconnectAttempts
    BY <2>1, <1>0 DEF ScheduleReconnect, FederationBounds
  <2> QED BY <2>3, <2>4, <2>5, <2>6, <1>0 DEF FederationBounds, Produced
<1>6. CASE ReconnectTimer
  <2>1. OpeningsCounted'
    <3>1. CASE OpenStreams
      BY <3>1, <1>0, OpenStreamsCounted DEF FederationBounds
    <3>2. CASE UNCHANGED <<openings, closers, streams>>
      BY <3>2, <1>0 DEF FederationBounds, OpeningsCounted
    <3> QED BY <3>1, <3>2, <1>6 DEF ReconnectTimer
  <2>2. armed' \in BOOLEAN
    BY <1>0, <1>6 DEF ReconnectTimer, FederationBounds
  <2>3. UNCHANGED <<produced, running, reconnectAttempt, gaveUp, interval>>
    BY <1>6 DEF ReconnectTimer, pollVars
  <2> QED BY <2>1, <2>2, <2>3, <1>0 DEF FederationBounds, Produced
<1>7. ASSUME NEW p \in Polls, PollTimer(p) \/ BlockNumber(p) \/ BlockAnswer(p) \/ PollFails(p)
      PROVE  FederationBounds'
  <2>1. UNCHANGED <<produced, connectorVars>> /\ interval' \in {interval, running}
    BY <1>7 DEF PollTimer, BlockNumber, BlockAnswer, PollFails
  <2> QED BY <2>1, <1>0, BoundsStay DEF connectorVars, FederationBounds
<1> QED BY <1>1, <1>2, <1>3, <1>4, <1>5, <1>6, <1>7 DEF FederationNext

LEMMA FederationTypeInvStep ==
  ASSUME FederationTypeInv, [FederationNext]_federationVars
  PROVE  FederationTypeInv'
<1>1. FederationInv'
  BY FederationStep DEF FederationTypeInv
<1>2. CASE FederationNext
  BY <1>1, <1>2, FederationBoundsStep DEF FederationTypeInv
<1>3. CASE UNCHANGED federationVars
  <2>1. FederationBounds
    BY DEF FederationTypeInv
  <2>2. interval' \in BOOLEAN
    BY <2>1, <1>3 DEF FederationBounds, federationVars, pollVars
  <2> QED BY <1>1, <1>3, <2>1, <2>2, BoundsStay DEF FederationTypeInv, federationVars, connectorVars
<1> QED BY <1>2, <1>3

LEMMA FederationTypeInvTypes == FederationTypeInv => FederationTypeOK
<1> SUFFICES ASSUME FederationTypeInv PROVE FederationTypeOK
  OBVIOUS
<1>0. FederationTypes /\ WindowInv /\ FederationBounds
  BY DEF FederationTypeInv, FederationInv
<1>1. produced \in [Feeds -> 0 .. MaxChainEvents]
  BY <1>0, FederationAssumption DEF FederationTypes, FederationBounds
<1>2. \A s \in streams : s \in [feed : Streamed, opening : 1 .. openings, read : Nat]
  BY <1>0 DEF FederationTypes, FederationBounds, OpeningsCounted
<1>3. /\ ringHead \in 0..(WindowSize - 1) /\ DOMAIN ring = 0..(WindowSize - 1)
      /\ head \in 0..(ReplayCapacity - 1)
  BY <1>0 DEF WindowInv, HoldsLatest
<1>4. filled \in 0..ReplayCapacity
  <2>1. PICK n \in Nat : n = Len(forwarded)
    BY <1>0, LenProperties DEF FederationTypes
  <2>2. filled = IF n < ReplayCapacity THEN n ELSE ReplayCapacity
    BY <2>1, <1>0 DEF WindowInv
  <2> QED BY <2>2, FederationAssumption
<1> QED BY <1>0, <1>1, <1>2, <1>3, <1>4
        DEF FederationTypes, FederationBounds, OpeningsCounted, FederationTypeOK

\* The types of the state, for any values of the constants.
LEMMA FederationTypeCorrect == FederationSpec => []FederationTypeOK
<1>1. FederationTypeInv => FederationTypeOK
  BY FederationTypeInvTypes
<1> QED BY <1>1, FederationTypeInvInit, FederationTypeInvStep, PTL DEF FederationSpec

-----------------------------------------------------------------------------
(***************************************************************************)
(* The commitments of reserves: any jobs, any number of attempts and of    *)
(* failures, any numbers of leaves.                                        *)
(***************************************************************************)

-----------------------------------------------------------------------------
(* Induction and recursive functions *)

LEMMA LeastOfSet ==
  ASSUME NEW T \in SUBSET Nat, T # {}
  PROVE  \E x \in T : \A y \in T : x <= y
<1>1. PICK x \in T : \A y \in T : ~ (<<y, x>> \in OpToRel(<, Nat))
  BY NatLessThanWellFounded, WFMin
<1>2. \A y \in T : ~ (y < x)
  BY <1>1 DEF OpToRel
<1> QED BY <1>2

\* A set of naturals that has 0, and with every number the next, has them all.
LEMMA AllNumbers ==
  ASSUME NEW T \in SUBSET Nat, 0 \in T, \A m \in T : m + 1 \in T
  PROVE  T = Nat
<1> SUFFICES ASSUME Nat \ T # {} PROVE FALSE
  OBVIOUS
<1>1. PICK m \in Nat \ T : \A l \in Nat \ T : m <= l
  BY LeastOfSet
<1>2. m - 1 \in Nat /\ m - 1 \notin Nat \ T
  BY <1>1
<1>3. (m - 1) + 1 \in T
  BY <1>2
<1> QED BY <1>1, <1>3

\* What Indices, Layers and Climb compute: their equations have a solution.
LEMMA IndicesEquation ==
  ASSUME NEW leaf, NEW n \in Nat
  PROVE  LET index == Indices(leaf, n)
         IN index = [k \in 1 .. n |-> IF k = 1 THEN leaf ELSE index[k - 1] \div 2]
<1> DEFINE Solves(g, m) == g = [k \in 1 .. m |-> IF k = 1 THEN leaf ELSE g[k - 1] \div 2]
           Solved == {m \in Nat : \E g : Solves(g, m)}
<1>1. \E g : Solves(g, 0)
  <2> DEFINE g == [k \in 1 .. 0 |-> leaf]
  <2>1. Solves(g, 0)
    OBVIOUS
  <2> QED BY <2>1
<1>2. ASSUME NEW m \in Nat, NEW f, Solves(f, m)
      PROVE  \E g : Solves(g, m + 1)
  <2> DEFINE g == [k \in 1 .. m + 1 |-> IF k = 1 THEN leaf ELSE f[k - 1] \div 2]
  <2>1. \A k \in 1 .. m + 1 : k # 1 => g[k - 1] = f[k - 1]
    <3> TAKE k \in 1 .. m + 1
    <3> HAVE k # 1
    <3>1. k - 1 \in 1 .. m /\ k - 1 \in 1 .. m + 1
      OBVIOUS
    <3> QED BY <3>1, <1>2
  <2>2. Solves(g, m + 1)
    BY <2>1
  <2> QED BY <2>2
<1>3. Solved = Nat
  <2> HIDE DEF Solves
  <2>1. Solved \in SUBSET Nat /\ 0 \in Solved
    BY <1>1
  <2>2. \A m \in Solved : m + 1 \in Solved
    BY <1>2
  <2> HIDE DEF Solved
  <2> QED BY <2>1, <2>2, AllNumbers
<1>4. PICK g : Solves(g, n)
  BY <1>3
<1>5. Solves(Indices(leaf, n), n)
  BY <1>4 DEF Indices
<1> QED BY <1>5

LEMMA LayersEquation ==
  ASSUME NEW leaves, Len(leaves) \in Nat
  PROVE  LET layer == Layers(leaves)
         IN layer = [k \in 1 .. Len(leaves) |->
                       IF k = 1 THEN leaves
                       ELSE IF Len(layer[k - 1]) = 1 THEN layer[k - 1] ELSE Parents(layer[k - 1])]
<1> DEFINE Above(below) == IF Len(below) = 1 THEN below ELSE Parents(below)
           Solves(g, m) == g = [k \in 1 .. m |-> IF k = 1 THEN leaves ELSE Above(g[k - 1])]
           Solved == {m \in Nat : \E g : Solves(g, m)}
<1>1. \E g : Solves(g, 0)
  <2> DEFINE g == [k \in 1 .. 0 |-> leaves]
  <2>1. Solves(g, 0)
    OBVIOUS
  <2> QED BY <2>1
<1>2. ASSUME NEW m \in Nat, NEW f, Solves(f, m)
      PROVE  \E g : Solves(g, m + 1)
  <2> HIDE DEF Above
  <2> DEFINE g == [k \in 1 .. m + 1 |-> IF k = 1 THEN leaves ELSE Above(f[k - 1])]
  <2>1. \A k \in 1 .. m + 1 : k # 1 => g[k - 1] = f[k - 1]
    <3> TAKE k \in 1 .. m + 1
    <3> HAVE k # 1
    <3>1. k - 1 \in 1 .. m /\ k - 1 \in 1 .. m + 1
      OBVIOUS
    <3> QED BY <3>1, <1>2
  <2>2. Solves(g, m + 1)
    BY <2>1
  <2> QED BY <2>2
<1>3. Solved = Nat
  <2> HIDE DEF Solves
  <2>1. Solved \in SUBSET Nat /\ 0 \in Solved
    BY <1>1
  <2>2. \A m \in Solved : m + 1 \in Solved
    BY <1>2
  <2> HIDE DEF Solved
  <2> QED BY <2>1, <2>2, AllNumbers
<1>4. PICK g : Solves(g, Len(leaves))
  BY <1>3
<1>5. Solves(Layers(leaves), Len(leaves))
  BY <1>4 DEF Layers
<1> QED BY <1>5

LEMMA ClimbEquation ==
  ASSUME NEW leafHash, NEW path, NEW leaf, Len(path) \in Nat
  PROVE  LET index == Indices(leaf, Len(path) + 1)
             computed == Climb(leafHash, path, leaf)
         IN computed = [k \in 1 .. (Len(path) + 1) |->
                          IF k = 1 THEN leafHash
                          ELSE IF index[k - 1] % 2 = 0 THEN HashPair(computed[k - 1], path[k - 1])
                          ELSE HashPair(path[k - 1], computed[k - 1])]
<1> DEFINE index == Indices(leaf, Len(path) + 1)
           Above(k, below) == IF index[k - 1] % 2 = 0 THEN HashPair(below, path[k - 1])
                              ELSE HashPair(path[k - 1], below)
           Solves(g, m) == g = [k \in 1 .. m |-> IF k = 1 THEN leafHash ELSE Above(k, g[k - 1])]
           Solved == {m \in Nat : \E g : Solves(g, m)}
<1>1. \E g : Solves(g, 0)
  <2> DEFINE g == [k \in 1 .. 0 |-> leafHash]
  <2>1. Solves(g, 0)
    OBVIOUS
  <2> QED BY <2>1
<1>2. ASSUME NEW m \in Nat, NEW f, Solves(f, m)
      PROVE  \E g : Solves(g, m + 1)
  <2> HIDE DEF Above
  <2> DEFINE g == [k \in 1 .. m + 1 |-> IF k = 1 THEN leafHash ELSE Above(k, f[k - 1])]
  <2>1. \A k \in 1 .. m + 1 : k # 1 => g[k - 1] = f[k - 1]
    <3> TAKE k \in 1 .. m + 1
    <3> HAVE k # 1
    <3>1. k - 1 \in 1 .. m /\ k - 1 \in 1 .. m + 1
      OBVIOUS
    <3> QED BY <3>1, <1>2
  <2>2. Solves(g, m + 1)
    BY <2>1
  <2> QED BY <2>2
<1>3. Solved = Nat
  <2> HIDE DEF Solves
  <2>1. Solved \in SUBSET Nat /\ 0 \in Solved
    BY <1>1
  <2>2. \A m \in Solved : m + 1 \in Solved
    BY <1>2
  <2> HIDE DEF Solved
  <2> QED BY <2>1, <2>2, AllNumbers
<1>4. PICK g : Solves(g, Len(path) + 1)
  <2> HIDE DEF Solves
  <2>1. PICK m \in Nat : m = Len(path) + 1
    OBVIOUS
  <2>2. m \in Solved
    BY <1>3
  <2> QED BY <2>1, <2>2
<1>5. Solves(Climb(leafHash, path, leaf), Len(path) + 1)
  BY <1>4 DEF Climb
<1> QED BY <1>5

-----------------------------------------------------------------------------
(* Layers *)

\* A layer is known by its nodes.
Width(layer) == Len(layer)
IsLayer(layer) == Width(layer) \in Nat \ {0} /\ layer = [i \in 1 .. Width(layer) |-> layer[i]]

LEMMA LengthOf ==
  ASSUME NEW n \in Nat, NEW f, f = [i \in 1 .. n |-> f[i]]
  PROVE  Len(f) = n
<1>1. f \in Seq({f[i] : i \in 1 .. n})
  OBVIOUS
<1> QED BY <1>1, LenProperties

LEMMA LayerWidth ==
  ASSUME NEW f, IsLayer(f)
  PROVE  Width(f) \in Nat \ {0}
BY Zenon DEF IsLayer

LEMMA LayerOf ==
  ASSUME NEW n \in Nat \ {0}, NEW f, f = [i \in 1 .. n |-> f[i]]
  PROVE  IsLayer(f) /\ Width(f) = n
<1>1. Width(f) = n
  BY LengthOf DEF Width
<1> QED BY <1>1 DEF IsLayer

LEMMA ParentsOf ==
  ASSUME NEW f, IsLayer(f)
  PROVE  LET n == Width(f)
         IN /\ IsLayer(Parents(f)) /\ Width(Parents(f)) = (n + 1) \div 2
            /\ \A i \in 1 .. (n + 1) \div 2 :
                 Parents(f)[i] = <<f[2 * i - 1], IF 2 * i <= n THEN f[2 * i] ELSE f[2 * i - 1]>>
<1> DEFINE n == Width(f)
           S == {f[i] : i \in 1 .. n}
           c == Padded(f)
           m == (n + 1) \div 2
<1>1. n \in Nat \ {0} /\ f \in Seq(S) /\ f[n] \in S
  BY DEF IsLayer
<1>2. Len(c) \div 2 = m /\ \A i \in 1 .. m : c[2 * i - 1] = f[2 * i - 1]
                        /\ c[2 * i] = IF 2 * i <= n THEN f[2 * i] ELSE f[2 * i - 1]
  <2>1. CASE n % 2 = 0
    <3>1. c = f
      BY <2>1 DEF Padded, Width
    <3> HIDE DEF c, n
    <3>2. Len(c) = n
      BY <3>1 DEF n, Width
    <3> QED BY <3>1, <3>2, <2>1, <1>1
  <2>2. CASE n % 2 # 0
    <3>1. c = Append(f, f[n])
      BY <2>2 DEF Padded, Width
    <3>2. Len(c) = n + 1 /\ c[n + 1] = f[n] /\ \A i \in 1 .. n : c[i] = f[i]
      <4>1. n = Len(f)
        BY DEF Width
      <4> QED BY <3>1, <4>1, <1>1, AppendProperties
    <3> HIDE DEF c, n
    <3>3. (n + 1) \div 2 = m /\ 2 * m = n + 1
      BY <2>2, <1>1
    <3> HIDE DEF m
    <3>4. ASSUME NEW i \in 1 .. m
          PROVE  c[2 * i - 1] = f[2 * i - 1] /\ c[2 * i] = IF 2 * i <= n THEN f[2 * i] ELSE f[2 * i - 1]
      <4>1. PICK p \in Nat : p = 2 * i
        BY <3>3, <1>1
      <4>2. p - 1 \in 1 .. n /\ p <= n + 1 /\ p > 0
        BY <4>1, <3>3, <1>1
      <4>3. c[p - 1] = f[p - 1]
        BY <4>2, <3>2
      <4>4. CASE p <= n
        <5>1. c[p] = f[p]
          BY <4>2, <4>4, <3>2
        <5> QED BY <4>1, <4>3, <4>4, <5>1
      <4>5. CASE ~(p <= n)
        <5>1. p = n + 1 /\ p - 1 = n
          BY <4>2, <4>5, <1>1
        <5>2. c[p] = f[p - 1]
          BY <5>1, <3>2
        <5> QED BY <4>1, <4>3, <4>5, <5>2
      <4> QED BY <4>4, <4>5
    <3> QED BY <3>2, <3>3, <3>4
  <2> QED BY Zenon, <2>1, <2>2
<1>3. Parents(f) = [i \in 1 .. m |-> <<c[2 * i - 1], c[2 * i]>>]
  BY <1>2 DEF Parents, HashPair
<1>4. m \in Nat \ {0}
  BY <1>1
<1> HIDE DEF m, c, S
<1>5. \A i \in 1 .. m :
        Parents(f)[i] = <<f[2 * i - 1], IF 2 * i <= n THEN f[2 * i] ELSE f[2 * i - 1]>>
  BY <1>2, <1>3
<1>6. Parents(f) = [i \in 1 .. m |-> Parents(f)[i]]
  BY <1>3
<1> QED BY <1>4, <1>5, <1>6, LayerOf DEF m

\* Above the node at an index (from 0) is its hash with that of its sibling.
LEMMA AboveSibling ==
  ASSUME NEW f, IsLayer(f), NEW i \in 0 .. (Width(f) - 1)
  PROVE  /\ i \div 2 \in 0 .. (Width(Parents(f)) - 1)
         /\ Parents(f)[i \div 2 + 1] =
              IF i % 2 = 0 THEN <<f[i + 1], Sibling(f, i)>> ELSE <<Sibling(f, i), f[i + 1]>>
<1> DEFINE n == Width(f)
<1>1. n \in Nat \ {0} /\ i \in 0 .. (n - 1)
  BY DEF IsLayer
<1> HIDE DEF n
<1>2. PICK j \in Nat : j = i \div 2
  BY <1>1
<1>3. j + 1 \in 1 .. (n + 1) \div 2
  BY <1>1, <1>2
<1>4. Width(Parents(f)) = (n + 1) \div 2 /\ (n + 1) \div 2 \in Nat
      /\ Parents(f)[j + 1] =
           <<f[2 * (j + 1) - 1], IF 2 * (j + 1) <= n THEN f[2 * (j + 1)] ELSE f[2 * (j + 1) - 1]>>
  BY <1>1, <1>3, ParentsOf DEF n
<1>5. CASE i % 2 = 0
  <2>1. 2 * (j + 1) - 1 = i + 1 /\ 2 * (j + 1) = i + 2
    BY <1>1, <1>2, <1>5
  <2>2. Sibling(f, i) = IF i + 1 < n THEN f[i + 2] ELSE f[i + 1]
    BY <1>1, <1>5 DEF Sibling, n, Width
  <2> QED BY <2>1, <2>2, <1>1, <1>2, <1>3, <1>4, <1>5
<1>6. CASE i % 2 # 0
  <2>1. 2 * (j + 1) - 1 = i /\ 2 * (j + 1) = i + 1
    BY <1>1, <1>2, <1>6
  <2>2. Sibling(f, i) = f[i]
    BY <1>1, <1>6 DEF Sibling, n, Width
  <2> QED BY <2>1, <2>2, <1>1, <1>2, <1>3, <1>4, <1>6
<1> QED BY <1>5, <1>6

\* The layers of a tree: each is half as wide as the one below, down to one node.
LEMMA TreeShape ==
  ASSUME NEW n \in Nat \ {0}
  PROVE  LET tree == BuildMerkleTree(n)
         IN /\ Len(tree) \in 1 .. n
            /\ \A k \in 1 .. Len(tree) : IsLayer(tree[k])
            /\ tree[1] = [i \in 1 .. n |-> HashLeaf(i - 1)] /\ Width(tree[1]) = n
            /\ \A k \in 1 .. Len(tree) : k > 1 => tree[k] = Parents(tree[k - 1])
            /\ Width(tree[Len(tree)]) = 1
<1> DEFINE leaves == [i \in 1 .. n |-> HashLeaf(i - 1)]
           layer == Layers(leaves)
           IsHeight(k) == Width(layer[k]) = 1 /\ \A m \in 1 .. (k - 1) : Width(layer[m]) > 1
           Shaped(k) == IsLayer(layer[k]) /\ (Width(layer[k]) = 1 \/ Width(layer[k]) <= n + 1 - k)
<1>1. IsLayer(leaves) /\ Len(leaves) = n /\ Width(leaves) = n
  <2>1. leaves = [i \in 1 .. n |-> leaves[i]]
    OBVIOUS
  <2> HIDE DEF leaves
  <2> QED BY <2>1, LayerOf DEF Width
<1> HIDE DEF leaves
<1>2. layer = [k \in 1 .. n |->
                 IF k = 1 THEN leaves
                 ELSE IF Width(layer[k - 1]) = 1 THEN layer[k - 1] ELSE Parents(layer[k - 1])]
  BY <1>1, LayersEquation DEF Width
<1> HIDE DEF layer
<1>3. \A k \in 1 .. n : Shaped(k)
  <2> DEFINE T == {k \in Nat : k + 1 \in 1 .. n => Shaped(k + 1)}
  <2>1. Shaped(1)
    <3>1. layer[1] = leaves
      BY <1>2
    <3> QED BY <3>1, <1>1
  <2>2. ASSUME NEW k \in Nat \ {0}, k + 1 \in 1 .. n, Shaped(k)
        PROVE  Shaped(k + 1)
    <3>1. layer[k + 1] = IF Width(layer[k]) = 1 THEN layer[k] ELSE Parents(layer[k])
      BY <2>2, <1>2
    <3>2. CASE Width(layer[k]) = 1
      BY <2>2, <3>1, <3>2
    <3>3. CASE Width(layer[k]) # 1
      <4>1. IsLayer(Parents(layer[k])) /\ Width(Parents(layer[k])) = (Width(layer[k]) + 1) \div 2
        BY <2>2, ParentsOf
      <4>2. Width(layer[k]) \in Nat /\ Width(layer[k]) > 1 /\ Width(layer[k]) <= n + 1 - k
        BY <2>2, <3>3, LayerWidth
      <4>3. (Width(layer[k]) + 1) \div 2 \in Nat /\ (Width(layer[k]) + 1) \div 2 <= Width(layer[k]) - 1
        <5>1. PICK w \in Nat : w = Width(layer[k])
          BY <4>2
        <5>2. (w + 1) \div 2 \in Nat /\ (w + 1) \div 2 <= w - 1
          BY <5>1, <4>2
        <5> QED BY <5>1, <5>2
      <4>4. Width(Parents(layer[k])) <= n + 1 - (k + 1)
        BY <4>1, <4>2, <4>3
      <4> QED BY <3>1, <3>3, <4>1, <4>4
    <3> QED BY <3>2, <3>3
  <2> HIDE DEF Shaped
  <2>3. T \in SUBSET Nat /\ 0 \in T
    BY <2>1
  <2>4. \A k \in T : k + 1 \in T
    <3> TAKE k \in T
    <3> SUFFICES ASSUME (k + 1) + 1 \in 1 .. n PROVE Shaped((k + 1) + 1)
      OBVIOUS
    <3>1. k + 1 \in Nat \ {0} /\ Shaped(k + 1)
      OBVIOUS
    <3> QED BY <3>1, <2>2
  <2>5. T = Nat
    <3> HIDE DEF T
    <3> QED BY <2>3, <2>4, AllNumbers
  <2> TAKE k \in 1 .. n
  <2>6. k - 1 \in T /\ (k - 1) + 1 = k
    <3> HIDE DEF T
    <3> QED BY <2>5
  <2> QED BY <2>6
<1>4. \E k \in 1 .. n : IsHeight(k)
  <2> DEFINE T == {k \in 1 .. n : Width(layer[k]) = 1}
  <2>1. n \in T
    <3>1. Width(layer[n]) \in Nat \ {0} /\ (Width(layer[n]) = 1 \/ Width(layer[n]) <= n + 1 - n)
      BY <1>3, LayerWidth
    <3> QED BY <3>1
  <2>2. PICK k \in T : \A l \in T : k <= l
    <3>1. T \in SUBSET Nat /\ T # {}
      BY <2>1
    <3> HIDE DEF T
    <3> QED BY <3>1, LeastOfSet
  <2>3. ASSUME NEW m \in 1 .. (k - 1)
        PROVE  Width(layer[m]) > 1
    <3>1. m \in 1 .. n /\ m \notin T
      BY <2>2
    <3>2. Width(layer[m]) \in Nat \ {0} /\ Width(layer[m]) # 1
      BY <3>1, <1>3, LayerWidth
    <3> QED BY <3>2
  <2>4. k \in 1 .. n /\ IsHeight(k)
    BY <2>2, <2>3
  <2> HIDE DEF IsHeight
  <2> QED BY <2>4
<1> DEFINE height == CHOOSE k \in 1 .. n : IsHeight(k)
           tree == [k \in 1 .. height |-> layer[k]]
<1>5. height \in 1 .. n /\ IsHeight(height)
  <2> HIDE DEF IsHeight
  <2> QED BY <1>4
<1>6. BuildMerkleTree(n) = tree
  BY <1>1 DEF BuildMerkleTree, LayersFrom, leaves, layer, Width
<1> HIDE DEF height
<1>7. Len(tree) = height
  <2>1. tree \in Seq({layer[k] : k \in 1 .. height})
    BY <1>5
  <2> QED BY <2>1, <1>5, LenProperties
<1>8. \A k \in 1 .. height : tree[k] = layer[k] /\ k \in 1 .. n
  BY <1>5
<1>9. \A k \in 1 .. height : k > 1 => tree[k] = Parents(tree[k - 1])
  <2> TAKE k \in 1 .. height
  <2> HAVE k > 1
  <2>1. k - 1 \in 1 .. height /\ k - 1 \in 1 .. (height - 1)
    BY <1>5
  <2>2. Width(layer[k - 1]) > 1
    BY <2>1, <1>5
  <2>3. Width(layer[k - 1]) # 1
    BY <2>2
  <2>4. layer[k] = Parents(layer[k - 1])
    BY <2>1, <2>3, <1>2, <1>8
  <2> HIDE DEF tree
  <2> QED BY <2>1, <2>4, <1>8
<1>10. tree[1] = leaves /\ 1 \in 1 .. height
  BY <1>5, <1>2
<1> HIDE DEF tree
<1>11. \A k \in 1 .. height : IsLayer(tree[k])
  BY <1>8, <1>3
<1>12. Width(tree[height]) = 1
  BY <1>5, <1>8
<1> QED BY <1>1, <1>5, <1>6, <1>7, <1>9, <1>10, <1>11, <1>12 DEF leaves

-----------------------------------------------------------------------------
(* Proofs of leaves *)

\* Climbing from a leaf along the path of the same leaf one passes the nodes above
\* it; climbing from another one meets none of them.
LEMMA ClimbsToRoot ==
  ASSUME NEW n \in Nat \ {0}, NEW leaf \in 0 .. (n - 1), NEW other \in 0 .. (n - 1)
  PROVE  ProofPasses(BuildMerkleTree(n), leaf, other) <=> leaf = other
<1> DEFINE tree == BuildMerkleTree(n)
           h == Len(tree)
           index == Indices(leaf, h)
           path == GenerateMerkleProof(tree, leaf)
           computed == Climb(tree[1][other + 1], path, leaf)
           Meets(k) == /\ index[k] \in 0 .. (Width(tree[k]) - 1)
                       /\ computed[k] = tree[k][index[k] + 1] <=> leaf = other
<1>1. /\ h \in 1 .. n /\ \A k \in 1 .. h : IsLayer(tree[k])
      /\ tree[1] = [i \in 1 .. n |-> HashLeaf(i - 1)] /\ Width(tree[1]) = n
      /\ \A k \in 1 .. h : k > 1 => tree[k] = Parents(tree[k - 1])
      /\ Width(tree[h]) = 1
  BY TreeShape
<1> HIDE DEF tree
<1>2. index = [k \in 1 .. h |-> IF k = 1 THEN leaf ELSE index[k - 1] \div 2]
  BY <1>1, IndicesEquation
<1> HIDE DEF h
<1>3. path = [k \in 1 .. (h - 1) |-> Sibling(tree[k], index[k])]
  BY DEF GenerateMerkleProof, h
<1> HIDE DEF index, path
<1>4. Len(path) = h - 1
  <2>1. PICK m \in Nat : m = h - 1
    BY <1>1
  <2>2. path = [k \in 1 .. m |-> path[k]]
    BY <2>1, <1>3
  <2> QED BY <2>1, <2>2, LengthOf
<1>5. Len(path) \in Nat /\ Len(path) + 1 = h
  BY <1>1, <1>4
<1>6. computed = [k \in 1 .. h |->
                    IF k = 1 THEN tree[1][other + 1]
                    ELSE IF index[k - 1] % 2 = 0 THEN HashPair(computed[k - 1], path[k - 1])
                    ELSE HashPair(path[k - 1], computed[k - 1])]
  <2>1. PICK hash : hash = tree[1][other + 1]
    OBVIOUS
  <2>2. LET c == Climb(hash, path, leaf)
            i == Indices(leaf, Len(path) + 1)
        IN c = [k \in 1 .. (Len(path) + 1) |->
                  IF k = 1 THEN hash
                  ELSE IF i[k - 1] % 2 = 0 THEN HashPair(c[k - 1], path[k - 1])
                  ELSE HashPair(path[k - 1], c[k - 1])]
    BY ONLY <1>5, ClimbEquation
  <2> QED BY <2>1, <2>2, <1>5 DEF index
<1>7. ProofPasses(tree, leaf, other) <=> computed[h] = tree[h][1]
  BY <1>5 DEF ProofPasses, VerifyMerkleProof, Root, path, h
<1> HIDE DEF computed
<1>8. \A k \in 1 .. h : Meets(k)
  <2> DEFINE T == {k \in Nat : k + 1 \in 1 .. h => Meets(k + 1)}
  <2>1. Meets(1)
    <3>1. tree[1][other + 1] = <<other>> /\ tree[1][leaf + 1] = <<leaf>>
      BY <1>1 DEF HashLeaf
    <3>2. index[1] = leaf /\ computed[1] = tree[1][other + 1]
      BY <1>1, <1>2, <1>6
    <3>3. index[1] \in 0 .. (Width(tree[1]) - 1)
      BY <3>2, <1>1
    <3>4. <<other>> = <<leaf>> <=> leaf = other
      OBVIOUS
    <3> QED BY <3>1, <3>2, <3>3, <3>4
  <2>2. ASSUME NEW k \in Nat \ {0}, k + 1 \in 1 .. h, Meets(k)
        PROVE  Meets(k + 1)
    <3> DEFINE i == index[k]
               f == tree[k]
    <3>1. /\ index[k + 1] = i \div 2 /\ tree[k + 1] = Parents(f) /\ path[k] = Sibling(f, i)
          /\ k \in 1 .. h /\ IsLayer(f)
          /\ computed[k + 1] = IF i % 2 = 0 THEN <<computed[k], path[k]>> ELSE <<path[k], computed[k]>>
      <4>1. k \in 1 .. h /\ k \in 1 .. (h - 1) /\ k + 1 > 1 /\ (k + 1) - 1 = k /\ k + 1 # 1
        BY <2>2, <1>1
      <4>2. index[k + 1] = i \div 2
        BY <4>1, <2>2, <1>2
      <4>3. tree[k + 1] = Parents(f)
        BY <4>1, <2>2, <1>1
      <4>4. path[k] = Sibling(f, i)
        BY <4>1, <1>3
      <4>5. computed[k + 1] = IF i % 2 = 0 THEN <<computed[k], path[k]>> ELSE <<path[k], computed[k]>>
        BY <4>1, <2>2, <1>6 DEF HashPair
      <4> QED BY <4>1, <4>2, <4>3, <4>4, <4>5, <1>1
    <3>2. i \in 0 .. (Width(f) - 1) /\ (computed[k] = f[i + 1] <=> leaf = other)
      BY <2>2
    <3> HIDE DEF i, f
    <3>3. /\ i \div 2 \in 0 .. (Width(Parents(f)) - 1)
          /\ Parents(f)[i \div 2 + 1] =
               IF i % 2 = 0 THEN <<f[i + 1], Sibling(f, i)>> ELSE <<Sibling(f, i), f[i + 1]>>
      BY <3>1, <3>2, AboveSibling
    <3>4. computed[k + 1] = Parents(f)[i \div 2 + 1] <=> computed[k] = f[i + 1]
      BY <3>1, <3>3
    <3> QED BY <3>1, <3>2, <3>3, <3>4
  <2> HIDE DEF Meets
  <2>3. T \in SUBSET Nat /\ 0 \in T
    BY <2>1
  <2>4. \A k \in T : k + 1 \in T
    <3> TAKE k \in T
    <3> SUFFICES ASSUME (k + 1) + 1 \in 1 .. h PROVE Meets((k + 1) + 1)
      OBVIOUS
    <3>1. k + 1 \in Nat \ {0} /\ Meets(k + 1)
      BY <1>1
    <3> QED BY <3>1, <2>2
  <2>5. T = Nat
    <3> HIDE DEF T
    <3> QED BY <2>3, <2>4, AllNumbers
  <2> TAKE k \in 1 .. h
  <2>6. k - 1 \in T /\ (k - 1) + 1 = k
    <3> HIDE DEF T
    <3> QED BY <2>5, <1>1
  <2> QED BY <2>6
<1>9. index[h] = 0 /\ (computed[h] = tree[h][1] <=> leaf = other)
  <2>1. Meets(h)
    BY <1>1, <1>8
  <2> QED BY <2>1, <1>1
<1> QED BY <1>7, <1>9 DEF tree

\* Whatever the number of leaves, a tree's proof of a leaf verifies that leaf and
\* no other (reserveVerification.worker.ts:48-107), so no job fails on its own tree.
THEOREM MerkleProofsVerify == ProofsVerify
BY CommitmentAssumption, ClimbsToRoot DEF ProofsVerify

HasSent == {"poll", "save", "prove", "record", "completed"}

JobRecords ==
  [pc : {"waiting", "prepare", "send", "completed", "failed", "poll", "save", "prove", "record"},
   attempts : Nat, stalls : Nat, leaves : Nat, leaf : Nat, accountSeq : Nat, valid : BOOLEAN]

CommitTypes ==
  /\ job \in [Jobs -> JobRecords]
  /\ txs \subseteq [attempt : Jobs \X Nat, accountSeq : Nat,
                    status : {"pending", "success", "failed", "expired"}]
  /\ ledgerSeq \in Nat /\ commitments \in Seq(Jobs \X Nat)

\* The number of the attempt a job is at
Number(j) == job[j].attempts + job[j].stalls

\* Every attempt sends once; the attempt a job is at has sent as its state says.
SentOnce ==
  /\ \A t, u \in txs : t.attempt = u.attempt => t = u
  /\ \A t \in txs : t.attempt[2] <= Number(t.attempt[1])
  /\ \A j \in Jobs : \A t \in txs : t.attempt = AttemptOf(j) => job[j].pc \in HasSent
  /\ \A j \in Jobs : job[j].pc \in HasSent =>
       \E t \in txs : t.attempt = AttemptOf(j) /\ (job[j].pc # "poll" => t.status = "success")

\* Later attempts of a job have no earlier place in the account's sequence.
SentInOrder ==
  /\ \A t \in txs : /\ t.accountSeq <= ledgerSeq + 1
                    /\ t.status = "success" => t.accountSeq <= ledgerSeq
  /\ \A t, u \in txs : t.attempt[1] = u.attempt[1] /\ t.attempt[2] < u.attempt[2]
                         => t.accountSeq <= u.accountSeq

\* An attempt that was left and whose transaction succeeded, or may, is unlearnt.
LeftUnlearnt ==
  \A t \in txs : t.attempt[2] < Number(t.attempt[1]) /\ t.status \in {"pending", "success"}
                   => t.attempt \in unlearnt

\* The contract holds the commitments that succeeded, those of a job in the order
\* of its attempts.
HeldInOrder ==
  /\ \A s \in DOMAIN commitments :
       \E t \in txs : t.attempt = commitments[s] /\ t.status = "success"
  /\ \A t \in txs : t.status = "success" => \E s \in DOMAIN commitments : commitments[s] = t.attempt
  /\ \A r, s \in DOMAIN commitments :
       r < s /\ commitments[r][1] = commitments[s][1] => commitments[r][2] < commitments[s][2]

\* What was saved is so, and a job that proves has saved.
SavedAsHeld ==
  /\ \A r \in rows : r.sequence \in DOMAIN commitments /\ commitments[r.sequence] = r.attempt
  /\ \A j \in Jobs : job[j].pc \in {"prove", "record", "completed"} =>
       \E r \in rows : r.attempt = AttemptOf(j)
  /\ \A v \in results : \E r \in rows : r.sequence = v.sequence

FetchedLeaves == \A j \in Jobs : job[j].pc \in {"waiting", "completed", "failed"} \/ job[j].leaves \in LeafCounts

CommitInv ==
  /\ CommitTypes /\ SentOnce /\ SentInOrder /\ LeftUnlearnt /\ HeldInOrder /\ SavedAsHeld
  /\ FetchedLeaves

-----------------------------------------------------------------------------
(* A job changes *)

LEMMA JobFields ==
  ASSUME CommitTypes, NEW j \in Jobs
  PROVE  /\ job[j] \in JobRecords /\ job[j].attempts \in Nat /\ job[j].stalls \in Nat
         /\ Number(j) \in Nat /\ AttemptOf(j) = <<j, Number(j)>>
BY DEF CommitTypes, JobRecords, Number, AttemptOf

LEMMA TxFields ==
  ASSUME CommitTypes, NEW t \in txs
  PROVE  /\ t.attempt \in Jobs \X Nat /\ t.attempt[1] \in Jobs /\ t.attempt[2] \in Nat
         /\ t.attempt = <<t.attempt[1], t.attempt[2]>>
         /\ t.accountSeq \in Nat /\ t.status \in {"pending", "success", "failed", "expired"}
BY DEF CommitTypes

LEMMA Changed ==
  ASSUME CommitTypes, NEW j \in Jobs, NEW n \in JobRecords, job' = [job EXCEPT ![j] = n]
  PROVE  /\ job' \in [Jobs -> JobRecords] /\ job'[j] = n
         /\ \A i \in Jobs \ {j} : /\ job'[i] = job[i] /\ Number(i)' = Number(i)
                                  /\ AttemptOf(i)' = AttemptOf(i)
         /\ Number(j)' = n.attempts + n.stalls /\ n.attempts + n.stalls \in Nat
         /\ AttemptOf(j)' = <<j, n.attempts + n.stalls>>
<1>1. /\ job' \in [Jobs -> JobRecords] /\ job'[j] = n /\ \A i \in Jobs \ {j} : job'[i] = job[i]
  BY DEF CommitTypes
<1>2. n.attempts \in Nat /\ n.stalls \in Nat
  BY DEF JobRecords
<1> QED BY <1>1, <1>2 DEF Number, AttemptOf

\* A job gives an attempt up: what went through, or may, is unlearnt from now on.
LEMMA GivesUp ==
  ASSUME CommitInv, NEW j \in Jobs, NEW n \in JobRecords, job' = [job EXCEPT ![j] = n],
         n.attempts + n.stalls = Number(j) + 1, n.pc \in {"waiting", "failed"},
         unlearnt \subseteq unlearnt',
         \A t \in txs : t.attempt = AttemptOf(j) /\ t.status \in {"pending", "success"}
                          => t.attempt \in unlearnt',
         UNCHANGED <<txs, ledgerSeq, commitments, rows, results>>
  PROVE  CommitInv'
<1>0. CommitTypes /\ SentOnce /\ SentInOrder /\ LeftUnlearnt /\ HeldInOrder /\ SavedAsHeld /\ FetchedLeaves
  BY DEF CommitInv
<1>1. /\ job' \in [Jobs -> JobRecords] /\ job'[j] = n
      /\ \A i \in Jobs \ {j} : /\ job'[i] = job[i] /\ Number(i)' = Number(i)
                               /\ AttemptOf(i)' = AttemptOf(i)
      /\ Number(j)' = Number(j) + 1 /\ AttemptOf(j)' = <<j, Number(j) + 1>>
  BY <1>0, Changed
<1>2. \A i \in Jobs : Number(i) \in Nat /\ Number(i) <= Number(i)' /\ AttemptOf(i) = <<i, Number(i)>>
                      /\ Number(i)' \in Nat
  BY <1>0, <1>1, JobFields
<1>3. \A t \in txs : /\ t.attempt[1] \in Jobs /\ t.attempt[2] \in Nat
                     /\ t.attempt = <<t.attempt[1], t.attempt[2]>>
  BY <1>0, TxFields
<1>4. n.pc \notin HasSent /\ n.pc \notin {"prove", "record", "completed"}
  BY DEF HasSent
<1> HIDE DEF Number, AttemptOf, HasSent
<1>5. CommitTypes'
  BY <1>0, <1>1 DEF CommitTypes
<1>6. SentOnce'
  <2>1. \A t \in txs : t.attempt[2] <= Number(t.attempt[1])'
    <3> TAKE t \in txs
    <3>1. t.attempt[2] <= Number(t.attempt[1])
      BY <1>0 DEF SentOnce
    <3> QED BY <3>1, <1>2, <1>3
  <2>2. \A t \in txs : t.attempt # AttemptOf(j)'
    <3> TAKE t \in txs
    <3>1. t.attempt[2] <= Number(t.attempt[1])
      BY <1>0 DEF SentOnce
    <3>2. t.attempt = <<j, Number(j) + 1>> => t.attempt[1] = j /\ t.attempt[2] = Number(j) + 1
      OBVIOUS
    <3> QED BY <3>1, <3>2, <1>1, <1>2
  <2>3. \A i \in Jobs : \A t \in txs : t.attempt = AttemptOf(i)' => job'[i].pc \in HasSent
    BY <1>0, <1>1, <2>2 DEF SentOnce
  <2>4. \A i \in Jobs : job'[i].pc \in HasSent =>
          \E t \in txs : t.attempt = AttemptOf(i)' /\ (job'[i].pc # "poll" => t.status = "success")
    <3> SUFFICES ASSUME NEW i \in Jobs, job'[i].pc \in HasSent
        PROVE  \E t \in txs : t.attempt = AttemptOf(i)' /\ (job'[i].pc # "poll" => t.status = "success")
      OBVIOUS
    <3>1. i # j
      BY <1>1, <1>4
    <3> QED BY <3>1, <1>0, <1>1 DEF SentOnce
  <2>5. \A t, u \in txs : t.attempt = u.attempt => t = u
    BY <1>0 DEF SentOnce
  <2> QED BY <2>1, <2>3, <2>4, <2>5 DEF SentOnce, HasSent
<1>7. SentInOrder'
  BY <1>0 DEF SentInOrder
<1>8. LeftUnlearnt'
  <2> SUFFICES ASSUME NEW t \in txs, t.attempt[2] < Number(t.attempt[1])', t.status \in {"pending", "success"}
      PROVE  t.attempt \in unlearnt'
    BY DEF LeftUnlearnt
  <2>1. CASE t.attempt[2] < Number(t.attempt[1])
    BY <2>1, <1>0 DEF LeftUnlearnt
  <2>2. CASE ~(t.attempt[2] < Number(t.attempt[1]))
    <3>1. t.attempt[1] = j
      BY <2>2, <1>1, <1>3
    <3>2. t.attempt[2] = Number(j)
      BY <2>2, <3>1, <1>1, <1>2, <1>3
    <3>3. t.attempt = AttemptOf(j)
      BY <3>1, <3>2, <1>2, <1>3
    <3> QED BY <3>3
  <2> QED BY <2>1, <2>2
<1>9. HeldInOrder'
  BY <1>0 DEF HeldInOrder
<1>10. SavedAsHeld'
  <2>1. \A i \in Jobs : job'[i].pc \in {"prove", "record", "completed"} =>
          \E r \in rows : r.attempt = AttemptOf(i)'
    <3> SUFFICES ASSUME NEW i \in Jobs, job'[i].pc \in {"prove", "record", "completed"}
        PROVE  \E r \in rows : r.attempt = AttemptOf(i)'
      OBVIOUS
    <3>1. i # j
      BY <1>1, <1>4
    <3> QED BY <3>1, <1>0, <1>1 DEF SavedAsHeld
  <2> QED BY <2>1, <1>0 DEF SavedAsHeld
<1>11. FetchedLeaves'
  BY <1>0, <1>1 DEF FetchedLeaves
<1> QED BY <1>5, <1>6, <1>7, <1>8, <1>9, <1>10, <1>11 DEF CommitInv

\* A job goes on in its attempt, and what it saves is what the contract holds.
LEMMA MovesOn ==
  ASSUME CommitInv, NEW j \in Jobs, NEW n \in JobRecords, job' = [job EXCEPT ![j] = n],
         n.attempts = job[j].attempts, n.stalls = job[j].stalls,
         n.pc \in HasSent <=> job[j].pc \in HasSent,
         n.pc \in HasSent \ {"poll"} => \E t \in txs : t.attempt = AttemptOf(j) /\ t.status = "success",
         n.pc \in {"prove", "record", "completed"} => \E r \in rows' : r.attempt = AttemptOf(j),
         n.pc \in {"waiting", "completed", "failed"} \/ n.leaves \in LeafCounts,
         rows \subseteq rows',
         \A r \in rows' : r.sequence \in DOMAIN commitments /\ commitments[r.sequence] = r.attempt,
         \A v \in results' : \E r \in rows' : r.sequence = v.sequence,
         UNCHANGED <<txs, ledgerSeq, commitments, unlearnt>>
  PROVE  CommitInv'
<1>0. CommitTypes /\ SentOnce /\ SentInOrder /\ LeftUnlearnt /\ HeldInOrder /\ SavedAsHeld /\ FetchedLeaves
  BY DEF CommitInv
<1>1. /\ job' \in [Jobs -> JobRecords] /\ job'[j] = n
      /\ \A i \in Jobs \ {j} : job'[i] = job[i]
      /\ \A i \in Jobs : Number(i)' = Number(i) /\ AttemptOf(i)' = AttemptOf(i)
  <2>1. n.attempts + n.stalls = Number(j) /\ AttemptOf(j) = <<j, Number(j)>>
    BY <1>0, JobFields DEF Number
  <2> HIDE DEF Number, AttemptOf
  <2> QED BY <1>0, <2>1, Changed
<1>2. \A t \in txs : t.attempt[1] \in Jobs
  BY <1>0, TxFields
<1> HIDE DEF Number, AttemptOf, HasSent
<1>5. CommitTypes'
  BY <1>0, <1>1 DEF CommitTypes
<1>6. SentOnce'
  <2>1. \A t \in txs : t.attempt[2] <= Number(t.attempt[1])'
    BY <1>0, <1>1, <1>2 DEF SentOnce
  <2>3. \A i \in Jobs : \A t \in txs : t.attempt = AttemptOf(i)' => job'[i].pc \in HasSent
    BY <1>0, <1>1 DEF SentOnce
  <2>4. \A i \in Jobs : job'[i].pc \in HasSent =>
          \E t \in txs : t.attempt = AttemptOf(i)' /\ (job'[i].pc # "poll" => t.status = "success")
    <3> SUFFICES ASSUME NEW i \in Jobs, job'[i].pc \in HasSent
        PROVE  \E t \in txs : t.attempt = AttemptOf(i)' /\ (job'[i].pc # "poll" => t.status = "success")
      OBVIOUS
    <3>1. CASE i # j
      BY <3>1, <1>0, <1>1 DEF SentOnce
    <3>2. CASE i = j /\ n.pc # "poll"
      BY <3>2, <1>1
    <3>3. CASE i = j /\ n.pc = "poll"
      <4>1. job[j].pc \in HasSent
        BY <3>3, <1>1
      <4> QED BY <4>1, <3>3, <1>0, <1>1 DEF SentOnce
    <3> QED BY <3>1, <3>2, <3>3
  <2>5. \A t, u \in txs : t.attempt = u.attempt => t = u
    BY <1>0 DEF SentOnce
  <2> QED BY <2>1, <2>3, <2>4, <2>5 DEF SentOnce, HasSent
<1>7. SentInOrder'
  BY <1>0 DEF SentInOrder
<1>8. LeftUnlearnt'
  BY <1>0, <1>1, <1>2 DEF LeftUnlearnt
<1>9. HeldInOrder'
  BY <1>0 DEF HeldInOrder
<1>10. SavedAsHeld'
  <2>1. \A i \in Jobs : job'[i].pc \in {"prove", "record", "completed"} =>
          \E r \in rows' : r.attempt = AttemptOf(i)'
    <3> SUFFICES ASSUME NEW i \in Jobs, job'[i].pc \in {"prove", "record", "completed"}
        PROVE  \E r \in rows' : r.attempt = AttemptOf(i)'
      OBVIOUS
    <3>1. CASE i # j
      BY <3>1, <1>0, <1>1 DEF SavedAsHeld
    <3>2. CASE i = j
      BY <3>2, <1>1
    <3> QED BY <3>1, <3>2
  <2> QED BY <2>1 DEF SavedAsHeld
<1>11. FetchedLeaves'
  BY <1>0, <1>1 DEF FetchedLeaves
<1> QED BY <1>5, <1>6, <1>7, <1>8, <1>9, <1>10, <1>11 DEF CommitInv

\* The same when nothing is saved
LEMMA MovesOnOnly ==
  ASSUME CommitInv, NEW j \in Jobs, NEW n \in JobRecords, job' = [job EXCEPT ![j] = n],
         n.attempts = job[j].attempts, n.stalls = job[j].stalls,
         n.pc \in HasSent <=> job[j].pc \in HasSent,
         n.pc \in HasSent \ {"poll"} => \E t \in txs : t.attempt = AttemptOf(j) /\ t.status = "success",
         n.pc \in {"prove", "record", "completed"} => \E r \in rows : r.attempt = AttemptOf(j),
         n.pc \in {"waiting", "completed", "failed"} \/ n.leaves \in LeafCounts,
         UNCHANGED <<txs, ledgerSeq, commitments, unlearnt, rows, results>>
  PROVE  CommitInv'
<1>1. /\ \A r \in rows' : r.sequence \in DOMAIN commitments /\ commitments[r.sequence] = r.attempt
      /\ \A v \in results' : \E r \in rows' : r.sequence = v.sequence
  BY DEF CommitInv, SavedAsHeld
<1> HIDE DEF AttemptOf, HasSent
<1> QED BY <1>1, MovesOn

-----------------------------------------------------------------------------
(* The steps of a job *)

LEMMA ThrowsGives ==
  ASSUME CommitTypes, NEW j \in Jobs, Throws(j)
  PROVE  \E n \in JobRecords : /\ job' = [job EXCEPT ![j] = n]
                               /\ n.attempts + n.stalls = Number(j) + 1
                               /\ n.pc \in {"waiting", "failed"}
<1> DEFINE state == IF job[j].attempts + 1 < MaxAttempts THEN "waiting" ELSE "failed"
           made == job[j].attempts + 1
           n == [job[j] EXCEPT !.attempts = made, !.pc = state]
<1>1. job' = [job EXCEPT ![j] = n]
  BY DEF Throws
<1>2. job[j] \in JobRecords /\ made \in Nat /\ made + job[j].stalls = Number(j) + 1
      /\ state \in {"waiting", "failed"}
  BY JobFields DEF Number
<1> HIDE DEF state, made
<1>3. n \in JobRecords /\ n.attempts = made /\ n.stalls = job[j].stalls /\ n.pc = state
  BY <1>2 DEF JobRecords
<1> HIDE DEF n
<1> QED BY <1>1, <1>2, <1>3

\* An attempt that has not sent has no transaction.
LEMMA NothingSent ==
  ASSUME CommitInv, NEW j \in Jobs, job[j].pc \notin HasSent
  PROVE  \A t \in txs : t.attempt # AttemptOf(j)
<1> HIDE DEF AttemptOf, HasSent
<1> QED BY DEF CommitInv, SentOnce

LEMMA TxOfIs ==
  ASSUME CommitInv, NEW j \in Jobs, job[j].pc \in HasSent
  PROVE  /\ TxOf(j) \in txs /\ TxOf(j).attempt = AttemptOf(j)
         /\ job[j].pc # "poll" => TxOf(j).status = "success"
         /\ \A t \in txs : t.attempt = AttemptOf(j) => t = TxOf(j)
<1> HIDE DEF AttemptOf, HasSent
<1>1. PICK t \in txs : t.attempt = AttemptOf(j) /\ (job[j].pc # "poll" => t.status = "success")
  BY DEF CommitInv, SentOnce
<1>2. \A u \in txs : u.attempt = AttemptOf(j) => u = t
  BY <1>1 DEF CommitInv, SentOnce
<1>3. TxOf(j) = t
  BY <1>1, <1>2 DEF TxOf
<1> QED BY <1>1, <1>2, <1>3

\* The commitment of an attempt is at one place.
LEMMA SequenceIs ==
  ASSUME CommitInv, NEW j \in Jobs, job[j].pc \in HasSent \ {"poll"}
  PROVE  /\ SequenceOf(AttemptOf(j)) \in DOMAIN commitments
         /\ commitments[SequenceOf(AttemptOf(j))] = AttemptOf(j)
         /\ \A s \in DOMAIN commitments : commitments[s] = AttemptOf(j) => s = SequenceOf(AttemptOf(j))
<1> HIDE DEF AttemptOf
<1>0. CommitTypes /\ HeldInOrder
  BY DEF CommitInv
<1>1. TxOf(j) \in txs /\ TxOf(j).attempt = AttemptOf(j) /\ TxOf(j).status = "success"
  BY TxOfIs DEF HasSent
<1>2. PICK s \in DOMAIN commitments : commitments[s] = AttemptOf(j)
  BY <1>0, <1>1 DEF HeldInOrder
<1>3. \A r \in DOMAIN commitments : r \in Nat /\ commitments[r][2] \in Nat
  BY <1>0 DEF CommitTypes
<1>4. \A r \in DOMAIN commitments : commitments[r] = AttemptOf(j) => r = s
  <2> SUFFICES ASSUME NEW r \in DOMAIN commitments, commitments[r] = AttemptOf(j), r # s
      PROVE  FALSE
    OBVIOUS
  <2>1. r < s \/ s < r
    BY <1>3
  <2> QED BY <2>1, <1>0, <1>2, <1>3 DEF HeldInOrder
<1> QED BY <1>2, <1>4 DEF SequenceOf

LEMMA CommitInitially ==
  ASSUME CommitmentInit
  PROVE  CommitInv
<1>1. CommitTypes
  BY DEF CommitmentInit, CommitTypes, JobRecords
<1>2. SentOnce
  BY DEF CommitmentInit, SentOnce, HasSent
<1>3. SentInOrder /\ LeftUnlearnt
  BY DEF CommitmentInit, SentInOrder, LeftUnlearnt
<1>4. HeldInOrder /\ SavedAsHeld /\ FetchedLeaves
  BY DEF CommitmentInit, HeldInOrder, SavedAsHeld, FetchedLeaves
<1> QED BY <1>1, <1>2, <1>3, <1>4 DEF CommitInv

LEMMA TakeJobKeeps ==
  ASSUME CommitInv, NEW j \in Jobs, TakeJob(j)
  PROVE  CommitInv'
<1>1. PICK l \in LeafCounts : job' = [job EXCEPT ![j] = [job[j] EXCEPT !.pc = "prepare", !.leaves = l, !.leaf = 0]]
  BY DEF TakeJob
<1> DEFINE n == [job[j] EXCEPT !.pc = "prepare", !.leaves = l, !.leaf = 0]
<1>2. job[j] \in JobRecords /\ l \in Nat
  BY JobFields, CommitmentAssumption DEF CommitInv
<1>3. n \in JobRecords /\ n.pc = "prepare" /\ n.leaves = l /\ n.attempts = job[j].attempts /\ n.stalls = job[j].stalls
  BY <1>2 DEF JobRecords
<1>4. job' = [job EXCEPT ![j] = n]
  BY <1>1
<1>5. n.pc \notin HasSent /\ job[j].pc \notin HasSent /\ n.pc \notin {"prove", "record", "completed"}
  BY <1>3 DEF TakeJob, HasSent
<1>6. UNCHANGED <<txs, ledgerSeq, commitments, unlearnt, rows, results>>
  BY DEF TakeJob
<1> HIDE DEF n, HasSent, AttemptOf
<1> QED BY <1>3, <1>4, <1>5, <1>6, MovesOnOnly

LEMMA WorkerDiesKeeps ==
  ASSUME CommitInv, NEW j \in Jobs, WorkerDies(j)
  PROVE  CommitInv'
<1> DEFINE state == IF job[j].stalls = 0 THEN "waiting" ELSE "failed"
           stalled == job[j].stalls + 1
           n == [job[j] EXCEPT !.stalls = stalled, !.pc = state]
<1>1. job' = [job EXCEPT ![j] = n]
  BY DEF WorkerDies
<1>2. job[j] \in JobRecords /\ stalled \in Nat /\ job[j].attempts + stalled = Number(j) + 1
      /\ state \in {"waiting", "failed"}
  BY JobFields DEF Number, CommitInv
<1> HIDE DEF state, stalled
<1>3. n \in JobRecords /\ n.attempts = job[j].attempts /\ n.stalls = stalled /\ n.pc = state
  BY <1>2 DEF JobRecords
<1> HIDE DEF n
<1>4. UNCHANGED <<txs, ledgerSeq, commitments, rows, results>>
  BY DEF WorkerDies
<1>5. CASE job[j].pc \in {"prepare", "send"}
  <2>1. job[j].pc \notin HasSent
    BY <1>5 DEF HasSent
  <2>2. \A t \in txs : t.attempt # AttemptOf(j)
    BY <2>1, NothingSent
  <2>3. unlearnt \subseteq unlearnt'
    BY <1>5 DEF WorkerDies
  <2> HIDE DEF AttemptOf
  <2> QED BY <1>1, <1>2, <1>3, <1>4, <2>2, <2>3, GivesUp
<1>6. CASE job[j].pc \notin {"prepare", "send"}
  <2>1. unlearnt' = unlearnt \cup {AttemptOf(j)}
    BY <1>6 DEF WorkerDies, Unlearnt
  <2> HIDE DEF AttemptOf
  <2> QED BY <1>1, <1>2, <1>3, <1>4, <2>1, GivesUp
<1> QED BY <1>5, <1>6

LEMMA NotSentKeeps ==
  ASSUME CommitInv, NEW j \in Jobs, NotSent(j)
  PROVE  CommitInv'
<1>1. PICK n \in JobRecords : /\ job' = [job EXCEPT ![j] = n]
                              /\ n.attempts + n.stalls = Number(j) + 1
                              /\ n.pc \in {"waiting", "failed"}
  BY ThrowsGives DEF NotSent, CommitInv
<1>2. job[j].pc \notin HasSent
  BY DEF NotSent, HasSent
<1>3. \A t \in txs : t.attempt # AttemptOf(j)
  BY <1>2, NothingSent
<1>4. UNCHANGED <<txs, ledgerSeq, commitments, rows, results, unlearnt>>
  BY DEF NotSent
<1> HIDE DEF AttemptOf, Number
<1> QED BY <1>1, <1>3, <1>4, GivesUp

LEMMA GetAccountKeeps ==
  ASSUME CommitInv, NEW j \in Jobs, GetAccount(j)
  PROVE  CommitInv'
<1> DEFINE seq == ledgerSeq + 1
           n == [job[j] EXCEPT !.pc = "send", !.accountSeq = seq]
<1>1. job' = [job EXCEPT ![j] = n]
  BY DEF GetAccount
<1>2. job[j] \in JobRecords /\ seq \in Nat
  BY JobFields DEF CommitInv, CommitTypes
<1> HIDE DEF seq
<1>3. n \in JobRecords /\ n.pc = "send" /\ n.leaves = job[j].leaves /\ n.attempts = job[j].attempts /\ n.stalls = job[j].stalls
  BY <1>2 DEF JobRecords
<1>4. n.pc \notin HasSent /\ job[j].pc \notin HasSent /\ n.pc \notin {"prove", "record", "completed"}
  BY <1>3 DEF GetAccount, HasSent
<1>5. n.leaves \in LeafCounts
  BY <1>3 DEF GetAccount, CommitInv, FetchedLeaves
<1>6. UNCHANGED <<txs, ledgerSeq, commitments, unlearnt, rows, results>>
  BY DEF GetAccount
<1> HIDE DEF n, HasSent, AttemptOf
<1> QED BY <1>1, <1>3, <1>4, <1>5, <1>6, MovesOnOnly

LEMMA SendTransactionKeeps ==
  ASSUME CommitInv, NEW j \in Jobs, SendTransaction(j)
  PROVE  CommitInv'
<1>0. CommitTypes /\ SentOnce /\ SentInOrder /\ LeftUnlearnt /\ HeldInOrder /\ SavedAsHeld /\ FetchedLeaves
  BY DEF CommitInv
<1>1. job[j].pc = "send" /\ UNCHANGED <<ledgerSeq, commitments, rows, results, unlearnt>>
  BY DEF SendTransaction
<1>2. \A t \in txs : t.attempt # AttemptOf(j)
  BY <1>1, NothingSent DEF HasSent
<1>3. CASE Throws(j) /\ UNCHANGED txs
  <2>1. PICK n \in JobRecords : /\ job' = [job EXCEPT ![j] = n]
                                /\ n.attempts + n.stalls = Number(j) + 1
                                /\ n.pc \in {"waiting", "failed"}
    BY <1>0, <1>3, ThrowsGives
  <2> HIDE DEF AttemptOf, Number
  <2> QED BY <1>1, <1>2, <1>3, <2>1, GivesUp
<1>4. CASE ~(Throws(j) /\ UNCHANGED txs)
  <2> DEFINE x == [attempt |-> AttemptOf(j), accountSeq |-> job[j].accountSeq, status |-> "pending"]
             n == [job[j] EXCEPT !.pc = "poll"]
  <2>1. /\ job[j].accountSeq = ledgerSeq + 1
        /\ txs' = txs \cup {x}
        /\ job' = [job EXCEPT ![j] = n]
    BY <1>4 DEF SendTransaction
  <2>2. /\ job[j] \in JobRecords /\ AttemptOf(j) = <<j, Number(j)>> /\ Number(j) \in Nat
        /\ ledgerSeq \in Nat
    BY <1>0, JobFields DEF CommitTypes
  <2>3. n \in JobRecords /\ n.pc = "poll" /\ n.attempts = job[j].attempts /\ n.stalls = job[j].stalls
        /\ n.leaves = job[j].leaves
    BY <2>2 DEF JobRecords
  <2> HIDE DEF n
  <2>4. n.attempts + n.stalls = Number(j)
    BY <2>3 DEF Number
  <2>5. /\ job' \in [Jobs -> JobRecords] /\ job'[j] = n
        /\ \A i \in Jobs \ {j} : job'[i] = job[i]
        /\ \A i \in Jobs : Number(i)' = Number(i) /\ AttemptOf(i)' = AttemptOf(i)
    <3> HIDE DEF Number, AttemptOf
    <3> QED BY <1>0, <2>1, <2>2, <2>3, <2>4, Changed
  <2>6. x.attempt = <<j, Number(j)>> /\ x.attempt[1] = j /\ x.attempt[2] = Number(j)
        /\ x.accountSeq = ledgerSeq + 1 /\ x.status = "pending"
        /\ x \in [attempt : Jobs \X Nat, accountSeq : Nat, status : {"pending", "success", "failed", "expired"}]
    BY <2>1, <2>2
  <2> HIDE DEF x, Number, AttemptOf
  <2>7. \A t \in txs : /\ t.attempt[1] \in Jobs /\ t.attempt[2] \in Nat /\ t.accountSeq \in Nat
                       /\ t.attempt = <<t.attempt[1], t.attempt[2]>>
    BY <1>0, TxFields
  <2>8. CommitTypes'
    BY <1>0, <1>1, <2>1, <2>5, <2>6 DEF CommitTypes
  <2>9. SentOnce'
    <3>1. \A t, u \in txs' : t.attempt = u.attempt => t = u
      BY <1>0, <1>2, <2>1, <2>2, <2>6 DEF SentOnce
    <3>2. \A t \in txs' : t.attempt[2] <= Number(t.attempt[1])'
      BY <1>0, <2>1, <2>2, <2>5, <2>6, <2>7 DEF SentOnce
    <3>3. \A i \in Jobs : \A t \in txs' : t.attempt = AttemptOf(i)' => job'[i].pc \in HasSent
      <4> SUFFICES ASSUME NEW i \in Jobs, NEW t \in txs', t.attempt = AttemptOf(i)
          PROVE  job'[i].pc \in HasSent
        BY <2>5
      <4>1. CASE i = j
        BY <4>1, <2>3, <2>5 DEF HasSent
      <4>2. CASE i # j
        <5>1. AttemptOf(i) = <<i, Number(i)>>
          BY <1>0, JobFields
        <5>2. t \in txs
          BY <5>1, <4>2, <2>1, <2>6
        <5> QED BY <5>2, <4>2, <1>0, <2>5 DEF SentOnce
      <4> QED BY <4>1, <4>2
    <3>4. \A i \in Jobs : job'[i].pc \in HasSent =>
            \E t \in txs' : t.attempt = AttemptOf(i)' /\ (job'[i].pc # "poll" => t.status = "success")
      <4> SUFFICES ASSUME NEW i \in Jobs, job'[i].pc \in HasSent
          PROVE  \E t \in txs' : t.attempt = AttemptOf(i) /\ (job'[i].pc # "poll" => t.status = "success")
        BY <2>5
      <4>1. CASE i = j
        <5>1. x \in txs' /\ x.attempt = AttemptOf(i) /\ job'[i].pc = "poll"
          BY <4>1, <2>1, <2>2, <2>3, <2>5, <2>6
        <5> QED BY <5>1
      <4>2. CASE i # j
        BY <4>2, <1>0, <2>1, <2>5 DEF SentOnce
      <4> QED BY <4>1, <4>2
    <3> QED BY <3>1, <3>2, <3>3, <3>4 DEF SentOnce, HasSent
  <2>10. SentInOrder'
    <3>1. \A t \in txs' : /\ t.accountSeq <= ledgerSeq + 1
                          /\ t.status = "success" => t.accountSeq <= ledgerSeq
      BY <1>0, <2>1, <2>2, <2>6 DEF SentInOrder
    <3>2. \A t, u \in txs' : t.attempt[1] = u.attempt[1] /\ t.attempt[2] < u.attempt[2]
                               => t.accountSeq <= u.accountSeq
      <4> SUFFICES ASSUME NEW t \in txs', NEW u \in txs', t.attempt[1] = u.attempt[1],
                          t.attempt[2] < u.attempt[2]
          PROVE  t.accountSeq <= u.accountSeq
        OBVIOUS
      <4>1. CASE u = x
        BY <4>1, <3>1, <2>6
      <4>2. CASE u # x /\ t = x
        <5>1. u \in txs /\ u.attempt[2] <= Number(j)
          BY <4>2, <1>0, <2>1, <2>6 DEF SentOnce
        <5> QED BY <4>2, <5>1, <2>2, <2>6, <2>7
      <4>3. CASE u # x /\ t # x
        BY <4>3, <1>0, <2>1 DEF SentInOrder
      <4> QED BY <4>1, <4>2, <4>3
    <3> QED BY <3>1, <3>2, <1>1 DEF SentInOrder
  <2>11. LeftUnlearnt'
    <3> SUFFICES ASSUME NEW t \in txs', t.attempt[2] < Number(t.attempt[1])', t.status \in {"pending", "success"}
        PROVE  t.attempt \in unlearnt
      BY <1>1 DEF LeftUnlearnt
    <3>1. t # x
      BY <2>2, <2>5, <2>6
    <3> QED BY <3>1, <1>0, <2>1, <2>5, <2>7 DEF LeftUnlearnt
  <2>12. HeldInOrder'
    <3>1. \A s \in DOMAIN commitments :
            \E t \in txs' : t.attempt = commitments[s] /\ t.status = "success"
      BY <1>0, <2>1 DEF HeldInOrder
    <3>2. \A t \in txs' : t.status = "success" => \E s \in DOMAIN commitments : commitments[s] = t.attempt
      BY <1>0, <2>1, <2>6 DEF HeldInOrder
    <3> QED BY <3>1, <3>2, <1>0, <1>1 DEF HeldInOrder
  <2>13. SavedAsHeld'
    <3>1. \A i \in Jobs : job'[i].pc \in {"prove", "record", "completed"} =>
            \E r \in rows : r.attempt = AttemptOf(i)
      BY <1>0, <2>3, <2>5 DEF SavedAsHeld
    <3> QED BY <3>1, <1>0, <1>1, <2>5 DEF SavedAsHeld
  <2>14. FetchedLeaves'
    BY <1>0, <1>1, <2>3, <2>5 DEF FetchedLeaves
  <2> QED BY <2>8, <2>9, <2>10, <2>11, <2>12, <2>13, <2>14 DEF CommitInv
<1> QED BY <1>3, <1>4

LEMMA PollResultKeeps ==
  ASSUME CommitInv, NEW j \in Jobs, PollResult(j)
  PROVE  CommitInv'
<1>0. CommitTypes
  BY DEF CommitInv
<1>1. job[j].pc = "poll" /\ UNCHANGED <<txs, ledgerSeq, commitments, rows, results>>
  BY DEF PollResult
<1>2. /\ TxOf(j) \in txs /\ TxOf(j).attempt = AttemptOf(j)
      /\ \A t \in txs : t.attempt = AttemptOf(j) => t = TxOf(j)
  BY <1>1, TxOfIs DEF HasSent
<1>3. CASE /\ TxOf(j).status = "success"
           /\ job' = [job EXCEPT ![j].pc = "save"]
           /\ UNCHANGED <<mishaps, unlearnt>>
  <2> DEFINE n == [job[j] EXCEPT !.pc = "save"]
  <2>1. job' = [job EXCEPT ![j] = n]
    BY <1>3
  <2>2. job[j] \in JobRecords
    BY <1>0, JobFields
  <2>3. n \in JobRecords /\ n.pc = "save" /\ n.attempts = job[j].attempts /\ n.stalls = job[j].stalls
        /\ n.leaves = job[j].leaves
    BY <2>2 DEF JobRecords
  <2> HIDE DEF n, AttemptOf
  <2>4. n.leaves \in LeafCounts
    BY <1>1, <2>3 DEF CommitInv, FetchedLeaves
  <2>5. n.pc \in HasSent /\ job[j].pc \in HasSent /\ n.pc \notin {"prove", "record", "completed"}
    BY <1>1, <2>3 DEF HasSent
  <2> HIDE DEF HasSent
  <2> QED BY <1>1, <1>2, <1>3, <2>1, <2>3, <2>4, <2>5, MovesOnOnly
<1>4. CASE TxOf(j).status \in {"failed", "expired"} /\ Throws(j) /\ UNCHANGED <<mishaps, unlearnt>>
  <2>1. PICK n \in JobRecords : /\ job' = [job EXCEPT ![j] = n]
                                /\ n.attempts + n.stalls = Number(j) + 1
                                /\ n.pc \in {"waiting", "failed"}
    BY <1>0, <1>4, ThrowsGives
  <2>2. \A t \in txs : t.attempt = AttemptOf(j) => t.status \notin {"pending", "success"}
    BY <1>2, <1>4
  <2> HIDE DEF AttemptOf, Number
  <2> QED BY <1>1, <1>4, <2>1, <2>2, GivesUp
<1>5. CASE FailsAfterSend(j)
  <2>1. PICK n \in JobRecords : /\ job' = [job EXCEPT ![j] = n]
                                /\ n.attempts + n.stalls = Number(j) + 1
                                /\ n.pc \in {"waiting", "failed"}
    BY <1>0, <1>5, ThrowsGives DEF FailsAfterSend
  <2>2. unlearnt' = unlearnt \cup {AttemptOf(j)}
    BY <1>5 DEF FailsAfterSend, Unlearnt
  <2> HIDE DEF AttemptOf, Number
  <2> QED BY <1>1, <2>1, <2>2, GivesUp
<1> QED BY <1>3, <1>4, <1>5 DEF PollResult

LEMMA SaveCommitmentKeeps ==
  ASSUME CommitInv, NEW j \in Jobs, SaveCommitment(j)
  PROVE  CommitInv'
<1>0. CommitTypes /\ SavedAsHeld
  BY DEF CommitInv
<1>1. job[j].pc = "save" /\ UNCHANGED <<txs, ledgerSeq, commitments, results>>
  BY DEF SaveCommitment
<1>2. CASE FailsAfterSend(j) /\ UNCHANGED rows
  <2>1. PICK n \in JobRecords : /\ job' = [job EXCEPT ![j] = n]
                                /\ n.attempts + n.stalls = Number(j) + 1
                                /\ n.pc \in {"waiting", "failed"}
    BY <1>0, <1>2, ThrowsGives DEF FailsAfterSend
  <2>2. unlearnt' = unlearnt \cup {AttemptOf(j)}
    BY <1>2 DEF FailsAfterSend, Unlearnt
  <2> HIDE DEF AttemptOf, Number
  <2> QED BY <1>1, <1>2, <2>1, <2>2, GivesUp
<1>3. CASE ~(FailsAfterSend(j) /\ UNCHANGED rows)
  <2> DEFINE s == SequenceOf(AttemptOf(j))
             row == [sequence |-> s, attempt |-> AttemptOf(j), status |-> "pending"]
             n == [job[j] EXCEPT !.pc = "prove"]
  <2>1. /\ rows' = IF \E r \in rows : r.sequence = s THEN rows ELSE rows \cup {row}
        /\ job' = [job EXCEPT ![j] = n] /\ UNCHANGED unlearnt
    BY <1>3 DEF SaveCommitment
  <2>2. job[j] \in JobRecords
    BY <1>0, JobFields
  <2>3. n \in JobRecords /\ n.pc = "prove" /\ n.attempts = job[j].attempts /\ n.stalls = job[j].stalls
        /\ n.leaves = job[j].leaves
    BY <2>2 DEF JobRecords
  <2>4. row.sequence = s /\ row.attempt = AttemptOf(j)
    OBVIOUS
  <2>5. s \in DOMAIN commitments /\ commitments[s] = AttemptOf(j)
    BY <1>1, SequenceIs DEF HasSent
  <2>6. \E t \in txs : t.attempt = AttemptOf(j) /\ t.status = "success"
    BY <1>1, TxOfIs DEF HasSent
  <2> HIDE DEF n, row, s, AttemptOf
  <2>7. n.leaves \in LeafCounts
    BY <1>1, <2>3 DEF CommitInv, FetchedLeaves
  <2>8. n.pc \in HasSent /\ job[j].pc \in HasSent
    BY <1>1, <2>3 DEF HasSent
  <2>9. \A r \in rows' : r.sequence \in DOMAIN commitments /\ commitments[r.sequence] = r.attempt
    BY <1>0, <2>1, <2>4, <2>5 DEF SavedAsHeld
  <2>10. rows \subseteq rows'
    BY <2>1
  <2>11. \A v \in results' : \E r \in rows' : r.sequence = v.sequence
    BY <1>0, <1>1, <2>10 DEF SavedAsHeld
  <2>12. \E r \in rows' : r.attempt = AttemptOf(j)
    <3>1. CASE \E r \in rows : r.sequence = s
      BY <3>1, <2>1, <2>5, <2>9
    <3>2. CASE ~\E r \in rows : r.sequence = s
      BY <3>2, <2>1, <2>4
    <3> QED BY <3>1, <3>2
  <2> HIDE DEF HasSent
  <2> QED BY <1>1, <2>1, <2>3, <2>6, <2>7, <2>8, <2>9, <2>10, <2>11, <2>12, MovesOn
<1> QED BY <1>2, <1>3

\* Of its own tree every sampled leaf passes, so no job gives up here.
LEMMA ProveLeafKeeps ==
  ASSUME CommitInv, NEW j \in Jobs, ProveLeaf(j)
  PROVE  CommitInv'
<1>0. CommitTypes /\ SavedAsHeld /\ FetchedLeaves
  BY DEF CommitInv
<1>1. /\ job[j].pc = "prove" /\ job[j].leaf < Samples(j)
      /\ UNCHANGED <<txs, ledgerSeq, commitments, rows, results, unlearnt>>
  BY DEF ProveLeaf
<1>2. job[j] \in JobRecords /\ job[j].leaves \in LeafCounts
  BY <1>0, <1>1, JobFields DEF FetchedLeaves
<1>3. OffChainValid(job[j].leaves, job[j].leaf)
  <2>1. job[j].leaves \in 1 .. MaxLeaves /\ job[j].leaf \in Nat
    BY <1>2, CommitmentAssumption DEF JobRecords
  <2>2. job[j].leaf \in 0 .. (job[j].leaves - 1)
    BY <2>1, <1>1, CommitmentAssumption DEF Samples
  <2>3. ProofPasses(BuildMerkleTree(job[j].leaves), job[j].leaf, job[j].leaf)
    BY <2>1, <2>2, MerkleProofsVerify DEF ProofsVerify
  <2> QED BY <2>3 DEF OffChainValid
<1>4. PICK valid \in BOOLEAN : job' = [job EXCEPT ![j] = [job[j] EXCEPT !.pc = "record", !.valid = valid]]
  BY <1>3 DEF ProveLeaf
<1> DEFINE n == [job[j] EXCEPT !.pc = "record", !.valid = valid]
<1>5. job' = [job EXCEPT ![j] = n]
  BY <1>4
<1>6. n \in JobRecords /\ n.pc = "record" /\ n.attempts = job[j].attempts /\ n.stalls = job[j].stalls
      /\ n.leaves = job[j].leaves
  BY <1>2 DEF JobRecords
<1>7. \E t \in txs : t.attempt = AttemptOf(j) /\ t.status = "success"
  BY <1>1, TxOfIs DEF HasSent
<1>8. n.pc \in HasSent /\ job[j].pc \in HasSent
  BY <1>1, <1>6 DEF HasSent
<1> HIDE DEF n, AttemptOf, HasSent
<1>9. \E r \in rows : r.attempt = AttemptOf(j)
  BY <1>0, <1>1 DEF SavedAsHeld
<1> QED BY <1>1, <1>2, <1>5, <1>6, <1>7, <1>8, <1>9, MovesOnOnly

LEMMA RecordResultKeeps ==
  ASSUME CommitInv, NEW j \in Jobs, RecordResult(j)
  PROVE  CommitInv'
<1>0. CommitTypes /\ SavedAsHeld /\ FetchedLeaves
  BY DEF CommitInv
<1>1. job[j].pc = "record" /\ UNCHANGED <<txs, ledgerSeq, commitments, rows, unlearnt>>
  BY DEF RecordResult
<1>2. job[j] \in JobRecords /\ job[j].leaf + 1 \in Nat /\ job[j].leaves \in LeafCounts
  BY <1>0, <1>1, JobFields DEF FetchedLeaves, JobRecords
<1> DEFINE next == job[j].leaf + 1
           n == [job[j] EXCEPT !.pc = "prove", !.leaf = next]
           v == [sequence |-> SequenceOf(AttemptOf(j)), leaf |-> job[j].leaf, isValid |-> job[j].valid]
<1>3. job' = [job EXCEPT ![j] = n]
  BY DEF RecordResult
<1>4. results' \subseteq results \cup {v}
  BY DEF RecordResult
<1>5. v.sequence = SequenceOf(AttemptOf(j))
  OBVIOUS
<1> HIDE DEF next, v
<1>6. n \in JobRecords /\ n.pc = "prove" /\ n.attempts = job[j].attempts /\ n.stalls = job[j].stalls
      /\ n.leaves = job[j].leaves
  BY <1>2 DEF JobRecords, next
<1>7. \E t \in txs : t.attempt = AttemptOf(j) /\ t.status = "success"
  BY <1>1, TxOfIs DEF HasSent
<1>8. n.pc \in HasSent /\ job[j].pc \in HasSent
  BY <1>1, <1>6 DEF HasSent
<1>9. \A s \in DOMAIN commitments : commitments[s] = AttemptOf(j) => s = SequenceOf(AttemptOf(j))
  BY <1>1, SequenceIs DEF HasSent
<1> HIDE DEF n, AttemptOf, HasSent
<1>10. PICK r \in rows : r.attempt = AttemptOf(j)
  BY <1>0, <1>1 DEF SavedAsHeld
<1>11. r.sequence = v.sequence
  BY <1>0, <1>5, <1>9, <1>10 DEF SavedAsHeld
<1>12. /\ \A w \in results' : \E q \in rows' : q.sequence = w.sequence
       /\ \A q \in rows' : q.sequence \in DOMAIN commitments /\ commitments[q.sequence] = q.attempt
  BY <1>0, <1>1, <1>4, <1>10, <1>11 DEF SavedAsHeld
<1>13. \E q \in rows' : q.attempt = AttemptOf(j)
  BY <1>1, <1>10
<1> QED BY <1>1, <1>2, <1>3, <1>6, <1>7, <1>8, <1>12, <1>13, MovesOn

LEMMA JobCompletesKeeps ==
  ASSUME CommitInv, NEW j \in Jobs, JobCompletes(j)
  PROVE  CommitInv'
<1>0. CommitTypes /\ SavedAsHeld
  BY DEF CommitInv
<1>1. /\ job[j].pc = "prove"
      /\ UNCHANGED <<txs, ledgerSeq, commitments, rows, results, unlearnt>>
  BY DEF JobCompletes
<1> DEFINE n == [job[j] EXCEPT !.pc = "completed"]
<1>2. job' = [job EXCEPT ![j] = n]
  BY DEF JobCompletes
<1>3. job[j] \in JobRecords
  BY <1>0, JobFields
<1>4. n \in JobRecords /\ n.pc = "completed" /\ n.attempts = job[j].attempts /\ n.stalls = job[j].stalls
  BY <1>3 DEF JobRecords
<1>5. \E t \in txs : t.attempt = AttemptOf(j) /\ t.status = "success"
  BY <1>1, TxOfIs DEF HasSent
<1>6. n.pc \in HasSent /\ job[j].pc \in HasSent
  BY <1>1, <1>4 DEF HasSent
<1> HIDE DEF n, AttemptOf, HasSent
<1>7. \E r \in rows : r.attempt = AttemptOf(j)
  BY <1>0, <1>1 DEF SavedAsHeld
<1> QED BY <1>1, <1>2, <1>4, <1>5, <1>6, <1>7, MovesOnOnly

-----------------------------------------------------------------------------
(* The ledger *)

\* A transaction that the ledger takes now comes after all of its job it took.
LEMMA LedgerClosesKeeps ==
  ASSUME CommitInv, NEW t \in txs, LedgerCloses(t)
  PROVE  CommitInv'
<1>0. CommitTypes /\ SentOnce /\ SentInOrder /\ LeftUnlearnt /\ HeldInOrder /\ SavedAsHeld /\ FetchedLeaves
  BY DEF CommitInv
<1>1. t.status = "pending" /\ UNCHANGED <<job, rows, results, unlearnt>>
  BY DEF LedgerCloses
<1>2. PICK status \in {"success", "failed", "expired"} :
        /\ txs' = (txs \ {t}) \cup {[t EXCEPT !.status = status]}
        /\ status \in {"success", "failed"} => t.accountSeq = ledgerSeq + 1 /\ ledgerSeq' = ledgerSeq + 1
        /\ status = "expired" => ledgerSeq' = ledgerSeq
        /\ status = "success" => commitments' = Append(commitments, t.attempt)
        /\ status # "success" => commitments' = commitments
  BY DEF LedgerCloses
<1> DEFINE x == [t EXCEPT !.status = status]
           L == Len(commitments)
<1>3. /\ t \in [attempt : Jobs \X Nat, accountSeq : Nat, status : {"pending", "success", "failed", "expired"}]
      /\ ledgerSeq \in Nat /\ commitments \in Seq(Jobs \X Nat) /\ L \in Nat /\ DOMAIN commitments = 1 .. L
  BY <1>0, LenProperties DEF CommitTypes
<1>4. /\ x \in [attempt : Jobs \X Nat, accountSeq : Nat, status : {"pending", "success", "failed", "expired"}]
      /\ x.attempt = t.attempt /\ x.accountSeq = t.accountSeq /\ x.status = status
  BY <1>3
<1>5. txs' = (txs \ {t}) \cup {x}
  BY <1>2
<1> HIDE DEF x, L
<1>6. ledgerSeq' \in Nat /\ ledgerSeq <= ledgerSeq' /\ (status = "success" => t.accountSeq <= ledgerSeq')
  BY <1>2, <1>3
<1>7. \A u \in txs : /\ u.attempt \in Jobs \X Nat /\ u.attempt[1] \in Jobs /\ u.attempt[2] \in Nat
                     /\ u.attempt = <<u.attempt[1], u.attempt[2]>> /\ u.accountSeq \in Nat
  BY <1>0, TxFields
<1>8. \A j : Number(j)' = Number(j) /\ AttemptOf(j)' = AttemptOf(j)
  BY <1>1 DEF Number, AttemptOf
<1> HIDE DEF Number, AttemptOf
<1>9. \A u \in txs' : \E w \in txs : /\ u.attempt = w.attempt /\ u.accountSeq = w.accountSeq
                                     /\ (u = w \/ (u = x /\ w = t))
  BY <1>4, <1>5
<1>10. ASSUME status = "success"
       PROVE  commitments' \in Seq(Jobs \X Nat) /\ HeldInOrder' /\ SavedAsHeld'
  <2>1. /\ commitments' \in Seq(Jobs \X Nat) /\ DOMAIN commitments' = 1 .. L + 1
        /\ \A s \in 1 .. L : commitments'[s] = commitments[s]
        /\ commitments'[L + 1] = t.attempt
    <3> DEFINE a == t.attempt
               c == Append(commitments, a)
    <3>1. a \in Jobs \X Nat /\ commitments' = c
      BY <1>2, <1>7, <1>10
    <3> HIDE DEF a
    <3>2. c \in Seq(Jobs \X Nat) /\ Len(c) = Len(commitments) + 1 /\ c[Len(commitments) + 1] = a
          /\ \A s \in 1 .. Len(commitments) : c[s] = commitments[s]
      BY <3>1, <1>3, AppendProperties
    <3> HIDE DEF c
    <3>3. DOMAIN c = 1 .. Len(c)
      BY <3>2, LenProperties
    <3> QED BY <3>1, <3>2, <3>3 DEF a, L
  <2>2. HeldInOrder'
    <3>1. \A s \in 1 .. L + 1 : \E u \in txs' : u.attempt = commitments'[s] /\ u.status = "success"
      <4> TAKE s \in 1 .. L + 1
      <4>1. CASE s \in 1 .. L
        <5>1. PICK u \in txs : u.attempt = commitments[s] /\ u.status = "success"
          BY <4>1, <1>0, <1>3 DEF HeldInOrder
        <5>2. u \in txs'
          BY <5>1, <1>1, <1>5
        <5> QED BY <5>1, <5>2, <4>1, <2>1
      <4>2. CASE s = L + 1
        BY <4>2, <2>1, <1>4, <1>5, <1>10
      <4> QED BY <4>1, <4>2, <1>3
    <3>2. \A u \in txs' : u.status = "success" => \E s \in 1 .. L + 1 : commitments'[s] = u.attempt
      <4> SUFFICES ASSUME NEW u \in txs', u.status = "success"
          PROVE  \E s \in 1 .. L + 1 : commitments'[s] = u.attempt
        OBVIOUS
      <4>1. CASE u = x
        <5>1. L + 1 \in 1 .. L + 1
          BY <1>3
        <5> QED BY <4>1, <5>1, <2>1, <1>4
      <4>2. CASE u \in txs
        <5>1. PICK s \in 1 .. L : commitments[s] = u.attempt
          BY <4>2, <1>0, <1>3 DEF HeldInOrder
        <5>2. s \in 1 .. L + 1
          BY <1>3
        <5> QED BY <5>1, <5>2, <2>1
      <4> QED BY <4>1, <4>2, <1>5
    <3>3. \A r, s \in 1 .. L + 1 : r < s /\ commitments'[r][1] = commitments'[s][1]
                                     => commitments'[r][2] < commitments'[s][2]
      <4> SUFFICES ASSUME NEW r \in 1 .. L + 1, NEW s \in 1 .. L + 1, r < s,
                          commitments'[r][1] = commitments'[s][1]
          PROVE  commitments'[r][2] < commitments'[s][2]
        OBVIOUS
      <4>1. r \in 1 .. L /\ commitments'[r] = commitments[r]
        BY <1>3, <2>1
      <4>2. CASE s \in 1 .. L
        BY <4>1, <4>2, <1>0, <1>3, <2>1 DEF HeldInOrder
      <4>3. CASE s = L + 1
        <5>1. PICK u \in txs : u.attempt = commitments[r] /\ u.status = "success"
          BY <4>1, <1>0, <1>3 DEF HeldInOrder
        <5>2. u.accountSeq <= ledgerSeq /\ t.accountSeq = ledgerSeq + 1
          BY <5>1, <1>0, <1>2, <1>10 DEF SentInOrder
        <5>3. u.attempt[1] = t.attempt[1]
          BY <4>1, <4>3, <5>1, <2>1
        <5>4. ~(t.attempt[2] < u.attempt[2])
          BY <5>2, <5>3, <1>0, <1>3, <1>7 DEF SentInOrder
        <5>5. u.attempt # t.attempt
          BY <5>1, <1>0, <1>1 DEF SentOnce
        <5>6. u.attempt[2] # t.attempt[2]
          BY <5>3, <5>5, <1>7
        <5>7. u.attempt[2] \in Nat /\ t.attempt[2] \in Nat
          BY <1>7
        <5> QED BY <4>1, <4>3, <5>1, <5>4, <5>6, <5>7, <2>1
      <4>4. s \in 1 .. L \/ s = L + 1
        BY <1>3
      <4> QED BY Zenon, <4>2, <4>3, <4>4
    <3>4. DOMAIN commitments' = 1 .. L + 1
      BY <2>1
    <3> QED BY Zenon, <3>1, <3>2, <3>3, <3>4 DEF HeldInOrder
  <2>3. SavedAsHeld'
    <3>1. \A r \in rows : r.sequence \in 1 .. L + 1 /\ commitments'[r.sequence] = r.attempt
      <4> TAKE r \in rows
      <4>1. r.sequence \in 1 .. L /\ commitments[r.sequence] = r.attempt
        BY <1>0, <1>3 DEF SavedAsHeld
      <4> QED BY <4>1, <1>3, <2>1
    <3> QED BY <3>1, <1>0, <1>1, <1>8, <2>1 DEF SavedAsHeld
  <2> QED BY <2>1, <2>2, <2>3
<1>11. ASSUME status # "success"
       PROVE  commitments' \in Seq(Jobs \X Nat) /\ HeldInOrder' /\ SavedAsHeld'
  <2>1. commitments' = commitments
    BY <1>2, <1>11
  <2>2. HeldInOrder'
    <3>1. \A s \in DOMAIN commitments : \E u \in txs' : u.attempt = commitments[s] /\ u.status = "success"
      <4> TAKE s \in DOMAIN commitments
      <4>1. PICK u \in txs : u.attempt = commitments[s] /\ u.status = "success"
        BY <1>0 DEF HeldInOrder
      <4> QED BY <4>1, <1>1, <1>5
    <3>2. \A u \in txs' : u.status = "success" => \E s \in DOMAIN commitments : commitments[s] = u.attempt
      BY <1>0, <1>4, <1>5, <1>11 DEF HeldInOrder
    <3> QED BY <3>1, <3>2, <2>1, <1>0 DEF HeldInOrder
  <2>3. SavedAsHeld'
    BY <1>0, <1>1, <1>8, <2>1 DEF SavedAsHeld
  <2> QED BY <2>1, <2>2, <2>3, <1>3
<1>12. commitments' \in Seq(Jobs \X Nat) /\ HeldInOrder' /\ SavedAsHeld'
  BY <1>10, <1>11
<1>13. CommitTypes'
  <2>1. txs' \subseteq [attempt : Jobs \X Nat, accountSeq : Nat, status : {"pending", "success", "failed", "expired"}]
    BY <1>0, <1>4, <1>5 DEF CommitTypes
  <2> QED BY <2>1, <1>0, <1>1, <1>6, <1>12 DEF CommitTypes
<1>14. SentOnce'
  <2>1. \A u, w \in txs' : u.attempt = w.attempt => u = w
    BY <1>0, <1>4, <1>5 DEF SentOnce
  <2>2. \A u \in txs' : u.attempt[2] <= Number(u.attempt[1])'
    BY <1>0, <1>8, <1>9 DEF SentOnce
  <2>3. \A j \in Jobs : \A u \in txs' : u.attempt = AttemptOf(j)' => job'[j].pc \in HasSent
    BY <1>0, <1>1, <1>8, <1>9 DEF SentOnce
  <2>4. \A j \in Jobs : job'[j].pc \in HasSent =>
          \E u \in txs' : u.attempt = AttemptOf(j)' /\ (job'[j].pc # "poll" => u.status = "success")
    <3> SUFFICES ASSUME NEW j \in Jobs, job[j].pc \in HasSent
        PROVE  \E u \in txs' : u.attempt = AttemptOf(j) /\ (job[j].pc # "poll" => u.status = "success")
      BY <1>1, <1>8
    <3>1. PICK u \in txs : u.attempt = AttemptOf(j) /\ (job[j].pc # "poll" => u.status = "success")
      BY <1>0 DEF SentOnce
    <3>2. CASE u = t
      BY <3>1, <3>2, <1>1, <1>4, <1>5
    <3>3. CASE u # t
      BY <3>1, <3>3, <1>5
    <3> QED BY <3>2, <3>3
  <2> QED BY <2>1, <2>2, <2>3, <2>4 DEF SentOnce, HasSent
<1>15. SentInOrder'
  <2>1. \A u \in txs' : /\ u.accountSeq <= ledgerSeq' + 1
                        /\ u.status = "success" => u.accountSeq <= ledgerSeq'
    <3> TAKE u \in txs'
    <3>1. CASE u = x
      BY <3>1, <1>0, <1>3, <1>4, <1>6 DEF SentInOrder
    <3>2. CASE u \in txs
      BY <3>2, <1>0, <1>3, <1>6, <1>7 DEF SentInOrder
    <3> QED BY <3>1, <3>2, <1>5
  <2>2. \A u, w \in txs' : u.attempt[1] = w.attempt[1] /\ u.attempt[2] < w.attempt[2]
                             => u.accountSeq <= w.accountSeq
    BY <1>0, <1>9 DEF SentInOrder
  <2> QED BY <2>1, <2>2 DEF SentInOrder
<1>16. LeftUnlearnt'
  <2> SUFFICES ASSUME NEW u \in txs', u.attempt[2] < Number(u.attempt[1])', u.status \in {"pending", "success"}
      PROVE  u.attempt \in unlearnt
    BY <1>1 DEF LeftUnlearnt
  <2>1. CASE u = x
    BY <2>1, <1>0, <1>1, <1>4, <1>8 DEF LeftUnlearnt
  <2>2. CASE u \in txs
    BY <2>2, <1>0, <1>8 DEF LeftUnlearnt
  <2> QED BY <2>1, <2>2, <1>5
<1>17. FetchedLeaves'
  BY <1>0, <1>1 DEF FetchedLeaves
<1> QED BY <1>12, <1>13, <1>14, <1>15, <1>16, <1>17 DEF CommitInv

-----------------------------------------------------------------------------
(* Conclusion *)

LEMMA CommitStutter ==
  ASSUME CommitInv, UNCHANGED commitmentVars
  PROVE  CommitInv'
<1> USE DEF commitmentVars
<1>1. \A j : Number(j)' = Number(j) /\ AttemptOf(j)' = AttemptOf(j)
  BY DEF Number, AttemptOf
<1>2. CommitTypes' /\ SentInOrder' /\ HeldInOrder' /\ FetchedLeaves'
  BY DEF CommitInv, CommitTypes, SentInOrder, HeldInOrder, FetchedLeaves
<1> HIDE DEF Number, AttemptOf
<1>3. SentOnce' /\ LeftUnlearnt'
  BY <1>1 DEF CommitInv, SentOnce, LeftUnlearnt
<1>4. SavedAsHeld'
  BY <1>1 DEF CommitInv, SavedAsHeld
<1> QED BY <1>2, <1>3, <1>4 DEF CommitInv

LEMMA CommitConclusion ==
  ASSUME CommitInv
  PROVE  RowsAreOnChain /\ CommitsAgainOnlyUnlearnt
<1>0. CommitTypes /\ SentOnce /\ LeftUnlearnt /\ HeldInOrder /\ SavedAsHeld
  BY DEF CommitInv
<1>1. RowsAreOnChain
  <2> HIDE DEF AttemptOf
  <2> QED BY <1>0 DEF SavedAsHeld, RowsAreOnChain
<1>2. CommitsAgainOnlyUnlearnt
  <2> SUFFICES ASSUME NEW s \in DOMAIN commitments, NEW r \in DOMAIN commitments,
                      s < r, commitments[s][1] = commitments[r][1]
      PROVE  commitments[s] \in unlearnt
    BY DEF CommitsAgainOnlyUnlearnt
  <2>1. PICK t \in txs : t.attempt = commitments[s] /\ t.status = "success"
    BY <1>0 DEF HeldInOrder
  <2>2. PICK u \in txs : u.attempt = commitments[r]
    BY <1>0 DEF HeldInOrder
  <2>3. t.attempt[2] < u.attempt[2] /\ t.attempt[1] = u.attempt[1]
    BY <1>0, <2>1, <2>2 DEF HeldInOrder
  <2>4. t.attempt[2] \in Nat /\ u.attempt[2] \in Nat /\ u.attempt[1] \in Jobs /\ Number(u.attempt[1]) \in Nat
    BY <1>0, TxFields, JobFields
  <2>5. u.attempt[2] <= Number(u.attempt[1])
    BY <1>0 DEF SentOnce
  <2>6. t.attempt[2] < Number(t.attempt[1])
    BY <2>3, <2>4, <2>5
  <2> QED BY <2>1, <2>6, <1>0 DEF LeftUnlearnt
<1> QED BY <1>1, <1>2

\* Whatever jobs, attempts, account sequences and calls do, table and contract
\* agree on what was recorded, and a job commits anew only if an attempt did not
\* learn or record that its transaction went through (reserveVerification.service.ts
\* :121 and :311, reserveVerification.worker.ts:217, :232 and :265).
THEOREM CommitmentsAreAccounted == CommitmentSpec => []CommitmentsAccounted
<1>1. ASSUME CommitInv, [CommitmentNext]_commitmentVars PROVE CommitInv'
  <2>1. CASE CommitmentNext
    BY <2>1, <1>1, TakeJobKeeps, WorkerDiesKeeps, NotSentKeeps, GetAccountKeeps, SendTransactionKeeps,
       PollResultKeeps, SaveCommitmentKeeps, ProveLeafKeeps, RecordResultKeeps, JobCompletesKeeps,
       LedgerClosesKeeps DEF CommitmentNext
  <2>2. CASE UNCHANGED commitmentVars
    BY <2>2, <1>1, CommitStutter
  <2> QED BY <1>1, <2>1, <2>2
<1>2. CommitInv => CommitmentsAccounted
  BY CommitConclusion, MerkleProofsVerify DEF CommitmentsAccounted
<1> QED BY <1>1, <1>2, CommitInitially, PTL DEF CommitmentSpec

-----------------------------------------------------------------------------
(* Types of the commitments *)

\* A job that may run again has attempts and a stall left.
Bounded(r) ==
  /\ r.leaves \in LeafCounts \cup {0} /\ r.attempts <= MaxAttempts /\ r.stalls <= 2
  /\ r.pc \notin {"completed", "failed"} => r.attempts < MaxAttempts /\ r.stalls < 2

RecordTypes ==
  /\ rows \subseteq [sequence : Nat, attempt : Jobs \X Nat, status : {"pending", "verified"}]
  /\ results \subseteq [sequence : Nat, leaf : Nat, isValid : BOOLEAN]
  /\ mishaps \in 0 .. MaxMishaps

CommitBounds == (\A j \in Jobs : Bounded(job[j])) /\ RecordTypes

LEMMA OneJobBounded ==
  ASSUME CommitTypes, CommitBounds, NEW j \in Jobs, NEW n, job' = [job EXCEPT ![j] = n], Bounded(n)
  PROVE  \A i \in Jobs : Bounded(job'[i])
<1> HIDE DEF Bounded
<1>1. \A i \in Jobs : job'[i] = IF i = j THEN n ELSE job[i]
  BY DEF CommitTypes
<1> QED BY <1>1 DEF CommitBounds

LEMMA ThrowsBounded ==
  ASSUME CommitTypes, CommitBounds, NEW j \in Jobs, Throws(j), job[j].pc \notin {"completed", "failed"}
  PROVE  \A i \in Jobs : Bounded(job'[i])
<1> DEFINE n == [job[j] EXCEPT !.attempts = job[j].attempts + 1,
                   !.pc = IF job[j].attempts + 1 < MaxAttempts THEN "waiting" ELSE "failed"]
<1>1. job' = [job EXCEPT ![j] = n]
  BY DEF Throws
<1>2. job[j] \in JobRecords /\ Bounded(job[j]) /\ MaxAttempts \in Nat
  BY JobFields, CommitmentAssumption DEF CommitBounds
<1>3. /\ n.attempts = job[j].attempts + 1 /\ n.stalls = job[j].stalls /\ n.leaves = job[j].leaves
      /\ n.pc = IF job[j].attempts + 1 < MaxAttempts THEN "waiting" ELSE "failed"
  BY <1>2 DEF JobRecords
<1> HIDE DEF n
<1>4. job[j].attempts \in Nat /\ job[j].stalls \in Nat /\ job[j].attempts < MaxAttempts /\ job[j].stalls < 2
  BY <1>2 DEF Bounded, JobRecords
<1>5. Bounded(n)
  BY <1>2, <1>3, <1>4 DEF Bounded
<1> QED BY <1>1, <1>5, OneJobBounded

\* A job goes on, in a state in which it ran already or at its end.
LEMMA GoesOnBounded ==
  ASSUME CommitTypes, CommitBounds, NEW j \in Jobs, NEW n, job' = [job EXCEPT ![j] = n],
         job[j].pc \notin {"completed", "failed"}, n.attempts = job[j].attempts,
         n.stalls = job[j].stalls, n.leaves \in LeafCounts \cup {job[j].leaves}
  PROVE  \A i \in Jobs : Bounded(job'[i])
<1>1. Bounded(n)
  BY DEF CommitBounds, Bounded
<1> QED BY <1>1, OneJobBounded

LEMMA CommitBoundsInit == CommitmentInit => CommitBounds
<1> SUFFICES ASSUME CommitmentInit PROVE CommitBounds
  OBVIOUS
<1> USE CommitmentAssumption
<1>1. RecordTypes
  BY DEF CommitmentInit, RecordTypes
<1>2. \A j \in Jobs : /\ job[j].attempts = 0 /\ job[j].stalls = 0 /\ job[j].leaves = 0
  BY DEF CommitmentInit
<1>3. \A j \in Jobs : Bounded(job[j])
  BY <1>2 DEF Bounded
<1> QED BY <1>1, <1>3 DEF CommitBounds

LEMMA CommitBoundsStep ==
  ASSUME CommitInv, CommitBounds, CommitmentNext
  PROVE  CommitBounds'
<1>0. CommitTypes /\ RecordTypes /\ \A j \in Jobs : Bounded(job[j]) /\ job[j] \in JobRecords
  BY JobFields DEF CommitInv, CommitBounds
<1>a. ASSUME mishaps < MaxMishaps, mishaps' = mishaps + 1 PROVE mishaps' \in 0 .. MaxMishaps
  BY <1>a, <1>0, CommitmentAssumption DEF RecordTypes
<1>1. ASSUME NEW j \in Jobs, TakeJob(j) PROVE CommitBounds'
  <2>1. PICK n \in LeafCounts :
          job' = [job EXCEPT ![j] = [job[j] EXCEPT !.pc = "prepare", !.leaves = n, !.leaf = 0]]
    BY <1>1 DEF TakeJob
  <2> DEFINE r == [job[j] EXCEPT !.pc = "prepare", !.leaves = n, !.leaf = 0]
  <2>2. r.attempts = job[j].attempts /\ r.stalls = job[j].stalls /\ r.leaves = n
        /\ job[j].pc \notin {"completed", "failed"}
    BY <1>0, <1>1 DEF TakeJob, JobRecords
  <2>3. job' = [job EXCEPT ![j] = r]
    BY <2>1
  <2> HIDE DEF r
  <2>4. \A i \in Jobs : Bounded(job'[i])
    BY <2>2, <2>3, <1>0, GoesOnBounded
  <2> QED BY <2>4, <1>0, <1>1 DEF TakeJob, CommitBounds, RecordTypes
<1>2. ASSUME NEW j \in Jobs, WorkerDies(j) PROVE CommitBounds'
  <2> DEFINE state == IF job[j].stalls = 0 THEN "waiting" ELSE "failed"
             r == [job[j] EXCEPT !.stalls = job[j].stalls + 1, !.pc = state]
  <2>1. job' = [job EXCEPT ![j] = r]
    BY <1>2 DEF WorkerDies
  <2>2. r.attempts = job[j].attempts /\ r.stalls = job[j].stalls + 1 /\ r.leaves = job[j].leaves /\ r.pc = state
    BY <1>0 DEF JobRecords
  <2> HIDE DEF r
  <2>3. job[j].stalls \in Nat /\ job[j].attempts \in Nat /\ MaxAttempts \in Nat
        /\ job[j].stalls < 2 /\ job[j].attempts < MaxAttempts /\ job[j].leaves \in LeafCounts \cup {0}
    BY <1>0, <1>2, CommitmentAssumption DEF WorkerDies, JobRecords, Bounded
  <2>4. Bounded(r)
    BY <2>2, <2>3 DEF Bounded
  <2>5. \A i \in Jobs : Bounded(job'[i])
    BY <2>1, <2>4, <1>0, OneJobBounded
  <2> QED BY <2>5, <1>0, <1>2, <1>a DEF WorkerDies, CommitBounds, RecordTypes
<1>3. ASSUME NEW j \in Jobs, NotSent(j) PROVE CommitBounds'
  <2>1. \A i \in Jobs : Bounded(job'[i])
    BY <1>0, <1>3, ThrowsBounded DEF NotSent
  <2> QED BY <2>1, <1>0, <1>3, <1>a DEF NotSent, CommitBounds, RecordTypes
<1>4. ASSUME NEW j \in Jobs, GetAccount(j) PROVE CommitBounds'
  <2> DEFINE r == [job[j] EXCEPT !.pc = "send", !.accountSeq = ledgerSeq + 1]
  <2>1. job' = [job EXCEPT ![j] = r] /\ job[j].pc = "prepare"
    BY <1>4 DEF GetAccount
  <2>2. r.attempts = job[j].attempts /\ r.stalls = job[j].stalls /\ r.leaves = job[j].leaves
    BY <1>0 DEF JobRecords
  <2> HIDE DEF r
  <2>3. \A i \in Jobs : Bounded(job'[i])
    BY <2>1, <2>2, <1>0, GoesOnBounded
  <2> QED BY <2>3, <1>0, <1>4 DEF GetAccount, CommitBounds, RecordTypes
<1>b. ASSUME NEW j \in Jobs, NEW state, job' = [job EXCEPT ![j].pc = state],
             job[j].pc \notin {"completed", "failed"}
      PROVE  \A i \in Jobs : Bounded(job'[i])
  <2> DEFINE r == [job[j] EXCEPT !.pc = state]
  <2>1. job' = [job EXCEPT ![j] = r]
    BY <1>b
  <2>2. r.attempts = job[j].attempts /\ r.stalls = job[j].stalls /\ r.leaves = job[j].leaves
    BY <1>0 DEF JobRecords
  <2> HIDE DEF r
  <2> QED BY <2>1, <2>2, <1>0, <1>b, GoesOnBounded
<1>5. ASSUME NEW j \in Jobs, SendTransaction(j) PROVE CommitBounds'
  <2>1. CASE job' = [job EXCEPT ![j].pc = "poll"]
    <3>1. \A i \in Jobs : Bounded(job'[i])
      BY <2>1, <1>5, <1>b DEF SendTransaction
    <3> QED BY <3>1, <1>0, <1>5 DEF SendTransaction, CommitBounds, RecordTypes
  <2>2. CASE Throws(j)
    <3>1. \A i \in Jobs : Bounded(job'[i])
      BY <2>2, <1>5, <1>0, ThrowsBounded DEF SendTransaction
    <3> QED BY <3>1, <1>0, <1>5 DEF SendTransaction, CommitBounds, RecordTypes
  <2> QED BY <2>1, <2>2, <1>5 DEF SendTransaction
<1>c. ASSUME NEW j \in Jobs, FailsAfterSend(j), job[j].pc \notin {"completed", "failed"},
             UNCHANGED <<rows, results>>
      PROVE  CommitBounds'
  <2>1. \A i \in Jobs : Bounded(job'[i])
    BY <1>c, <1>0, ThrowsBounded DEF FailsAfterSend
  <2> QED BY <2>1, <1>0, <1>a, <1>c DEF FailsAfterSend, CommitBounds, RecordTypes
<1>6. ASSUME NEW j \in Jobs, PollResult(j) PROVE CommitBounds'
  <2>1. CASE job' = [job EXCEPT ![j].pc = "save"] /\ UNCHANGED mishaps
    <3>1. \A i \in Jobs : Bounded(job'[i])
      BY <2>1, <1>6, <1>b DEF PollResult
    <3> QED BY <3>1, <2>1, <1>0, <1>6 DEF PollResult, CommitBounds, RecordTypes
  <2>2. CASE Throws(j) /\ UNCHANGED mishaps
    <3>1. \A i \in Jobs : Bounded(job'[i])
      BY <2>2, <1>6, <1>0, ThrowsBounded DEF PollResult
    <3> QED BY <3>1, <2>2, <1>0, <1>6 DEF PollResult, CommitBounds, RecordTypes
  <2>3. CASE FailsAfterSend(j)
    BY <2>3, <1>6, <1>c DEF PollResult
  <2> QED BY <2>1, <2>2, <2>3, <1>6 DEF PollResult
<1>7. ASSUME NEW j \in Jobs, SaveCommitment(j) PROVE CommitBounds'
  <2> DEFINE s == SequenceOf(AttemptOf(j))
             row == [sequence |-> s, attempt |-> AttemptOf(j), status |-> "pending"]
  <2>1. s \in Nat /\ AttemptOf(j) \in Jobs \X Nat
    <3>1. job[j].pc \in HasSent \ {"poll"}
      BY <1>7 DEF SaveCommitment, HasSent
    <3> HIDE DEF s
    <3>2. s \in DOMAIN commitments
      BY <3>1, SequenceIs DEF s
    <3>3. DOMAIN commitments = 1 .. Len(commitments) /\ Len(commitments) \in Nat
      BY <1>0, LenProperties DEF CommitTypes
    <3>4. AttemptOf(j) \in Jobs \X Nat
      BY <1>0, JobFields
    <3> QED BY <3>2, <3>3, <3>4
  <2>2. CASE /\ rows' = IF \E r \in rows : r.sequence = s THEN rows ELSE rows \cup {row}
             /\ job' = [job EXCEPT ![j].pc = "prove"] /\ UNCHANGED mishaps
    <3>1. \A i \in Jobs : Bounded(job'[i])
      BY <2>2, <1>7, <1>b DEF SaveCommitment
    <3> HIDE DEF s
    <3>2. row \in [sequence : Nat, attempt : Jobs \X Nat, status : {"pending", "verified"}]
      BY <2>1
    <3> HIDE DEF row
    <3> QED BY <3>1, <3>2, <2>2, <1>0, <1>7 DEF SaveCommitment, CommitBounds, RecordTypes
  <2>3. CASE FailsAfterSend(j) /\ UNCHANGED rows
    BY <2>3, <1>7, <1>c DEF SaveCommitment
  <2> QED BY <2>2, <2>3, <1>7 DEF SaveCommitment
<1>8. ASSUME NEW j \in Jobs, ProveLeaf(j) PROVE CommitBounds'
  <2>1. CASE Throws(j)
    <3>1. \A i \in Jobs : Bounded(job'[i])
      BY <2>1, <1>8, <1>0, ThrowsBounded DEF ProveLeaf
    <3> QED BY <3>1, <1>0, <1>8 DEF ProveLeaf, CommitBounds, RecordTypes
  <2>2. CASE \E valid \in BOOLEAN : job' = [job EXCEPT ![j] = [job[j] EXCEPT !.pc = "record", !.valid = valid]]
    <3>0. PICK valid \in BOOLEAN : job' = [job EXCEPT ![j] = [job[j] EXCEPT !.pc = "record", !.valid = valid]]
      BY <2>2
    <3> DEFINE r == [job[j] EXCEPT !.pc = "record", !.valid = valid]
    <3>1. job' = [job EXCEPT ![j] = r] /\ job[j].pc = "prove"
      BY <3>0, <1>8 DEF ProveLeaf
    <3>2. r.attempts = job[j].attempts /\ r.stalls = job[j].stalls /\ r.leaves = job[j].leaves
      BY <1>0 DEF JobRecords
    <3> HIDE DEF r
    <3>3. \A i \in Jobs : Bounded(job'[i])
      BY <3>1, <3>2, <1>0, GoesOnBounded
    <3> QED BY <3>3, <1>0, <1>8 DEF ProveLeaf, CommitBounds, RecordTypes
  <2> QED BY <2>1, <2>2, <1>8 DEF ProveLeaf
<1>9. ASSUME NEW j \in Jobs, RecordResult(j) PROVE CommitBounds'
  <2> DEFINE r == [job[j] EXCEPT !.pc = "prove", !.leaf = job[j].leaf + 1]
             s == SequenceOf(AttemptOf(j))
             v == [sequence |-> s, leaf |-> job[j].leaf, isValid |-> job[j].valid]
  <2>1. job' = [job EXCEPT ![j] = r] /\ job[j].pc = "record"
    BY <1>9 DEF RecordResult
  <2>2. /\ r.attempts = job[j].attempts /\ r.stalls = job[j].stalls /\ r.leaves = job[j].leaves
        /\ job[j].leaf \in Nat /\ job[j].valid \in BOOLEAN
    BY <1>0 DEF JobRecords
  <2> HIDE DEF r
  <2>3. \A i \in Jobs : Bounded(job'[i])
    BY <2>1, <2>2, <1>0, GoesOnBounded
  <2>4. s \in Nat
    <3>1. job[j].pc \in HasSent \ {"poll"}
      BY <2>1 DEF HasSent
    <3> HIDE DEF s
    <3>2. s \in DOMAIN commitments
      BY <3>1, SequenceIs DEF s
    <3>3. DOMAIN commitments = 1 .. Len(commitments) /\ Len(commitments) \in Nat
      BY <1>0, LenProperties DEF CommitTypes
    <3> QED BY <3>2, <3>3
  <2>5. \/ results' = results \cup {v} /\ UNCHANGED mishaps
        \/ mishaps < MaxMishaps /\ mishaps' = mishaps + 1 /\ UNCHANGED results
    BY <1>9 DEF RecordResult
  <2> HIDE DEF s
  <2>6. v \in [sequence : Nat, leaf : Nat, isValid : BOOLEAN]
    BY <2>2, <2>4
  <2> HIDE DEF v
  <2>7. results' \subseteq [sequence : Nat, leaf : Nat, isValid : BOOLEAN] /\ mishaps' \in 0 .. MaxMishaps
    BY <2>5, <2>6, <1>0, <1>a DEF RecordTypes
  <2> QED BY <2>3, <2>7, <1>0, <1>9 DEF RecordResult, CommitBounds, RecordTypes
<1>10. ASSUME NEW j \in Jobs, JobCompletes(j) PROVE CommitBounds'
  <2>1. \A i \in Jobs : Bounded(job'[i])
    BY <1>10, <1>b DEF JobCompletes
  <2> QED BY <2>1, <1>0, <1>10 DEF JobCompletes, CommitBounds, RecordTypes
<1>11. ASSUME NEW t \in txs, LedgerCloses(t) PROVE CommitBounds'
  BY <1>0, <1>11 DEF LedgerCloses, CommitBounds, RecordTypes, Bounded
<1> QED BY <1>1, <1>2, <1>3, <1>4, <1>5, <1>6, <1>7, <1>8, <1>9, <1>10, <1>11 DEF CommitmentNext

LEMMA CommitInvStep ==
  ASSUME CommitInv, [CommitmentNext]_commitmentVars
  PROVE  CommitInv'
<1>1. CASE CommitmentNext
  BY <1>1, TakeJobKeeps, WorkerDiesKeeps, NotSentKeeps, GetAccountKeeps, SendTransactionKeeps,
     PollResultKeeps, SaveCommitmentKeeps, ProveLeafKeeps, RecordResultKeeps, JobCompletesKeeps,
     LedgerClosesKeeps DEF CommitmentNext
<1>2. CASE UNCHANGED commitmentVars
  BY <1>2, CommitStutter
<1> QED BY <1>1, <1>2

CommitTypeInv == CommitInv /\ CommitBounds

LEMMA CommitTypeInvInit == CommitmentInit => CommitTypeInv
BY CommitInitially, CommitBoundsInit DEF CommitTypeInv

LEMMA CommitTypeInvStep ==
  ASSUME CommitTypeInv, [CommitmentNext]_commitmentVars
  PROVE  CommitTypeInv'
<1>1. CommitInv'
  BY CommitInvStep DEF CommitTypeInv
<1>2. CASE CommitmentNext
  BY <1>1, <1>2, CommitBoundsStep DEF CommitTypeInv
<1>3. CASE UNCHANGED commitmentVars
  BY <1>1, <1>3 DEF CommitTypeInv, CommitBounds, RecordTypes, Bounded, commitmentVars
<1> QED BY <1>2, <1>3

LEMMA CommitTypeInvTypes == CommitTypeInv => CommitmentTypeOK
<1> SUFFICES ASSUME CommitTypeInv PROVE CommitmentTypeOK
  OBVIOUS
<1> DEFINE R == [pc : {"waiting", "prepare", "send", "poll", "save", "prove", "record", "completed",
                       "failed"},
                 attempts : 0..MaxAttempts, stalls : 0..2, leaves : LeafCounts \cup {0},
                 leaf : Nat, accountSeq : Nat, valid : BOOLEAN]
<1>1. \A j \in Jobs : job[j] \in R
  <2> TAKE j \in Jobs
  <2>1. job[j] \in JobRecords /\ Bounded(job[j])
    BY DEF CommitTypeInv, CommitInv, CommitTypes, CommitBounds
  <2>2. job[j].attempts \in 0 .. MaxAttempts /\ job[j].stalls \in 0 .. 2 /\ job[j].leaves \in LeafCounts \cup {0}
    BY <2>1, CommitmentAssumption DEF Bounded, JobRecords
  <2> QED BY <2>1, <2>2 DEF JobRecords
<1>2. job \in [Jobs -> R]
  BY <1>1 DEF CommitTypeInv, CommitInv, CommitTypes
<1> QED BY <1>2 DEF CommitmentTypeOK, CommitTypeInv, CommitInv, CommitTypes, CommitBounds, RecordTypes

\* The types of the state, for any values of the constants.
LEMMA CommitmentTypeCorrect == CommitmentSpec => []CommitmentTypeOK
<1>1. CommitTypeInv => CommitmentTypeOK
  BY CommitTypeInvTypes
<1> QED BY <1>1, CommitTypeInvInit, CommitTypeInvStep, PTL DEF CommitmentSpec

-----------------------------------------------------------------------------
(***************************************************************************)
(* The components of the run together.                                     *)
(***************************************************************************)

\* A behaviour of the run is one of each of its components: one of them takes the
\* steps, and the others keep still.
LEMMA BackgroundRunTheirComponents ==
  BackgroundSpec =>
    FederationSpec /\ BroadcastSpec /\ CommitmentSpec /\ ReconciliationSpec /\ ExportSpec
<1>1. BackgroundInit =>
        FederationInit /\ BroadcastInit /\ CommitmentInit /\ ReconciliationInit /\ ExportInit
  BY DEF BackgroundInit
<1>2. ASSUME [BackgroundNext]_backgroundVars
      PROVE
        [FederationNext]_federationVars /\ [BroadcastNextState]_broadcastVars /\
        [CommitmentNext]_commitmentVars /\ [ReconciliationNext]_reconciliationVars /\
        [ExportNext]_exportVars
  <2>1. CASE Runs("federation") /\ FederationNext
    BY <2>1 DEF Runs
  <2>2. CASE Runs("broadcast") /\ BroadcastNextState
    BY <2>2 DEF Runs
  <2>3. CASE Runs("commitment") /\ CommitmentNext
    BY <2>3 DEF Runs
  <2>4. CASE Runs("reconciliation") /\ ReconciliationNext
    BY <2>4 DEF Runs
  <2>5. CASE Runs("export") /\ ExportNext
    BY <2>5 DEF Runs
  <2>6. CASE UNCHANGED backgroundVars
    BY <2>6 DEF backgroundVars
  <2> QED BY <1>2, <2>1, <2>2, <2>3, <2>4, <2>5, <2>6 DEF BackgroundNext
<1> QED BY <1>1, <1>2, PTL
       DEF BackgroundSpec, FederationSpec, BroadcastSpec, CommitmentSpec, ReconciliationSpec,
       ExportSpec

\* Whatever the streams, jobs and instances do, the closers at hand are those of a
\* connection that was opened (stellarConnector.ts), jobs stay within their attempts and
\* stalls, and what a fetch has found to broadcast are alerts (alerts.channel.ts).
THEOREM BackgroundKeepTypes == BackgroundSpec => []BackgroundTypeOK
BY BackgroundRunTheirComponents, FederationTypeCorrect, BroadcastTypeCorrect,
   CommitmentTypeCorrect, ReconciliationTypeCorrect, ExportTypeCorrect, PTL
   DEF BackgroundTypeOK
=============================================================================
