---------------------------- MODULE Reconciliation ----------------------------
(***************************************************************************)
(* The reconciliation job of one asset (workers/reconciliation.job,        *)
(* utils/lock, services/reconciliation.service): a run is recorded,        *)
(* compared and finished under a Redis lock that also ends by itself.      *)
(*                                                                         *)
(* The alert of a mismatch never fails the job and is left out.            *)
(***************************************************************************)
EXTENDS Integers, FiniteSets

CONSTANTS
  Hourly,          \* jobs of the asset that the queue holds
  MaxRunAttempts,  \* attempts of a job
  MaxExpiries,     \* bound: locks that reach their time to live
  MaxRunFaults,    \* bound: calls of Redis or the database that fail
  MaxJobDeaths,    \* bound: workers that die
  NoLock

ASSUME ReconciliationAssumption ==
  /\ MaxRunAttempts \in Nat \ {0} /\ MaxExpiries \in Nat
  /\ MaxRunFaults \in Nat /\ MaxJobDeaths \in Nat
  /\ NoLock \notin Hourly \X Nat

VARIABLES
  run,        \* [Hourly -> pc, attempts made, stalls, outcome of verifySupply]
  lock,       \* the value under lock:reconciliation:<asset>: an execution, or NoLock
  runs,       \* reconciliation_runs: the execution that recorded it, status
  expiries, runFaults, jobDeaths,   \* history: how many so far
  lapsed,     \* history: executions whose lock expired while they held it
  abandoned   \* history: executions that ended and could not say so

reconciliationVars == <<run, lock, runs, expiries, runFaults, jobDeaths, lapsed, abandoned>>

Outcomes == {"success", "mismatch", "failed"}
Under == {"start", "verify", "finish", "fail", "release", "rethrow"}

\* An execution of the job: its lock value is a random UUID.
Execution(j) == <<j, run[j].attempts + run[j].stalls>>
Executing == {j \in Hourly : run[j].pc \in Under}

ReconciliationTypeOK ==
  /\ run \in [Hourly -> [pc : {"waiting", "skipped", "completed", "failed"} \cup Under,
                         attempts : 0..MaxRunAttempts, stalls : 0..2,
                         outcome : Outcomes]]
  /\ lock \in (Hourly \X Nat) \cup {NoLock}
  /\ runs \subseteq [execution : Hourly \X Nat, status : Outcomes \cup {"running"}]
  /\ lapsed \subseteq Hourly \X Nat /\ abandoned \subseteq Hourly \X Nat
  /\ expiries \in 0..MaxExpiries /\ runFaults \in 0..MaxRunFaults
  /\ jobDeaths \in 0..MaxJobDeaths

ReconciliationInit ==
  /\ run = [j \in Hourly |-> [pc |-> "waiting", attempts |-> 0, stalls |-> 0,
                              outcome |-> "success"]]
  /\ lock = NoLock /\ runs = {}
  /\ expiries = 0 /\ runFaults = 0 /\ jobDeaths = 0
  /\ lapsed = {} /\ abandoned = {}

Faulty == runFaults < MaxRunFaults /\ runFaults' = runFaults + 1
Abandons(j) == abandoned' = abandoned \cup {Execution(j)}

\* The processor throws: another attempt, or the job has failed.
RunThrows(j) ==
  run' = [run EXCEPT ![j] = [@ EXCEPT
    !.attempts = run[j].attempts + 1,
    !.pc = IF run[j].attempts + 1 < MaxRunAttempts THEN "waiting" ELSE "failed"]]

-----------------------------------------------------------------------------
\* acquireLock: SET NX PX. A job that finds the lock held is done; when Redis
\* fails, it may have set the lock all the same.
AcquireLock(j) ==
  /\ run[j].pc = "waiting"
  /\ \/ /\ lock = NoLock
        /\ lock' = Execution(j) /\ run' = [run EXCEPT ![j].pc = "start"]
        /\ UNCHANGED <<runFaults, abandoned>>
     \/ /\ lock # NoLock
        /\ run' = [run EXCEPT ![j].pc = "skipped"]
        /\ UNCHANGED <<lock, runFaults, abandoned>>
     \/ /\ Faulty /\ RunThrows(j) /\ Abandons(j)
        /\ lock' \in {lock, IF lock = NoLock THEN Execution(j) ELSE lock}
  /\ UNCHANGED <<runs, expiries, jobDeaths, lapsed>>

\* startRun precedes the try: when it is refused nothing releases the lock.
StartRun(j) ==
  /\ run[j].pc = "start"
  /\ \/ /\ runs' = runs \cup {[execution |-> Execution(j), status |-> "running"]}
        /\ run' = [run EXCEPT ![j].pc = "verify"]
        /\ UNCHANGED <<runFaults, abandoned>>
     \/ /\ Faulty /\ RunThrows(j) /\ Abandons(j) /\ UNCHANGED runs
  /\ UNCHANGED <<lock, expiries, jobDeaths, lapsed>>

\* verifySupply reports a status or throws.
VerifySupply(j) ==
  /\ run[j].pc = "verify"
  /\ \/ /\ \E outcome \in Outcomes :
             run' = [run EXCEPT ![j] = [@ EXCEPT !.pc = "finish", !.outcome = outcome]]
        /\ UNCHANGED runFaults
     \/ /\ Faulty /\ run' = [run EXCEPT ![j].pc = "fail"]
  /\ UNCHANGED <<lock, runs, expiries, jobDeaths, lapsed, abandoned>>

SetStatus(j, status) ==
  runs' = {r \in runs : r.execution # Execution(j)}
            \cup {[execution |-> Execution(j), status |-> status]}

\* finishRun with the outcome.
FinishRun(j) ==
  /\ run[j].pc = "finish"
  /\ \/ /\ SetStatus(j, run[j].outcome)
        /\ run' = [run EXCEPT ![j].pc = "release"] /\ UNCHANGED runFaults
     \/ /\ Faulty /\ run' = [run EXCEPT ![j].pc = "fail"] /\ UNCHANGED runs
  /\ UNCHANGED <<lock, expiries, jobDeaths, lapsed, abandoned>>

\* finishRun in the catch block; refused, it leaves the run as running.
FailRun(j) ==
  /\ run[j].pc = "fail"
  /\ run' = [run EXCEPT ![j].pc = "rethrow"]
  /\ \/ SetStatus(j, "failed") /\ UNCHANGED <<runFaults, abandoned>>
     \/ Faulty /\ Abandons(j) /\ UNCHANGED runs
  /\ UNCHANGED <<lock, expiries, jobDeaths, lapsed>>

\* Mutant: DEL without the comparison.
DeletedLock(j) == NoLock

\* releaseLock's script: one's own lock is deleted.
ReleasedLock(j) == IF lock = Execution(j) THEN NoLock ELSE lock

\* The finally block; a failure of the release is swallowed.
ReleaseLock(j) ==
  /\ run[j].pc \in {"release", "rethrow"}
  /\ \/ /\ lock' = ReleasedLock(j)
        /\ UNCHANGED <<runFaults, abandoned>>
     \/ /\ Faulty /\ Abandons(j) /\ UNCHANGED lock
  /\ IF run[j].pc = "release" THEN run' = [run EXCEPT ![j].pc = "completed"]
     ELSE RunThrows(j)
  /\ UNCHANGED <<runs, expiries, jobDeaths, lapsed>>

-----------------------------------------------------------------------------
\* The lock reaches its time to live.
LockExpires ==
  /\ lock # NoLock /\ expiries < MaxExpiries
  /\ expiries' = expiries + 1
  /\ lock' = NoLock
  /\ lapsed' = lapsed \cup {lock}
  /\ UNCHANGED <<run, runs, runFaults, jobDeaths, abandoned>>

\* The worker dies; the queue hands a stalled job out once more.
JobDies(j) ==
  /\ j \in Executing /\ jobDeaths < MaxJobDeaths
  /\ jobDeaths' = jobDeaths + 1
  /\ Abandons(j)
  /\ run' = [run EXCEPT ![j] = [@ EXCEPT
       !.stalls = run[j].stalls + 1, !.pc = IF run[j].stalls = 0 THEN "waiting" ELSE "failed"]]
  /\ UNCHANGED <<lock, runs, expiries, runFaults, lapsed>>

ReconciliationNext ==
  \/ \E j \in Hourly :
       \/ AcquireLock(j) \/ StartRun(j) \/ VerifySupply(j) \/ FinishRun(j)
       \/ FailRun(j) \/ ReleaseLock(j) \/ JobDies(j)
  \/ LockExpires

ReconciliationSpec == ReconciliationInit /\ [][ReconciliationNext]_reconciliationVars

-----------------------------------------------------------------------------
(* Properties *)

\* Two jobs reconcile the asset at once only when the lock of one of them
\* expired under it.
OneRunUnlessLapsed ==
  \A j, k \in Executing :
    j # k => Execution(j) \in lapsed \/ Execution(k) \in lapsed

\* A lock is held by an execution that is under way, or was left by one that
\* died, could not record its run or could not release it; so a job that is
\* skipped is skipped for one of these.
LockHasHolder ==
  lock = NoLock \/ lock \in abandoned \/ \E j \in Executing : lock = Execution(j)

\* A run stays "running" only while its execution is under way, or after that
\* died or had the final update refused.
RunningIsUnderWay ==
  \A r \in runs : r.status = "running" =>
    \/ r.execution \in abandoned
    \/ \E j \in Executing : r.execution = Execution(j)

\* Whatever expires, dies or is refused, the lock, the jobs and the recorded runs
\* tell one story: an execution whose lock lapsed does not release the lock of
\* the next (lock.ts:17), and none leaves a lock or a running run behind unless it
\* was kept from it (reconciliation.job.ts:36, :99, :107).
RunsUnderLock == OneRunUnlessLapsed /\ LockHasHolder /\ RunningIsUnderWay
==============================================================================
