--------------------------- MODULE DigestDelivery ---------------------------
(***************************************************************************)
(* Digests of services/digestScheduler.service.ts: a job creates deliveries*)
(* and their items, then mails what is pending.                            *)
(*                                                                         *)
(* The daily and the weekly job, and a job BullMQ starts again, run        *)
(* concurrently; each mails every pending delivery, its own or not.  A job *)
(* is cut at each await.  Who is due is left open: a job may create any    *)
(* delivery.  A digest without items is stored as skipped and never seen   *)
(* again; it is left out.                                                  *)
(***************************************************************************)
EXTENDS JsonbColumns, Naturals, FiniteSets

CONSTANTS
  DigestJobs,        \* jobs running at a time
  Digests,           \* rows of digest_deliveries
  ItemCount,         \* items of a digest
  MaxDigestAttempts, \* MAX_RETRY_ATTEMPTS
  MaxDigestFaults    \* bound: statements refused, jobs that die

ASSUME DigestAssumption ==
  /\ Digests # {} /\ ItemCount \in Nat \ {0}
  /\ MaxDigestAttempts \in Nat \ {0} /\ MaxDigestFaults \in Nat

VARIABLES
  digest,       \* digest_deliveries: status and attempts
  digestItems,  \* digest_items: how many of a delivery's items are stored
  job,          \* where each job is, the delivery it is at, the list it has read
  mailed,       \* mails of a delivery that were accepted, and the largest number
                \* that is told apart
  partial,      \* deliveries that were mailed without all of their items
  shared,       \* deliveries that two jobs have had at once
  spoilt,       \* deliveries a refused statement or a death has left behind
  digestFaults

digestVars == <<digest, digestItems, job, mailed, partial, shared, spoilt, digestFaults>>

NotListed == MaxDigestAttempts + 1

DigestPlaces == {"none", "generating", "saving", "sending", "mailing", "marking", "failing"}

DigestTypeOK ==
  /\ digest \in [Digests -> [status : {"absent", "pending", "sent", "failed"},
                             attempts : 0 .. MaxDigestAttempts]]
  /\ digestItems \in [Digests -> 0 .. ItemCount]
  /\ job \in [DigestJobs -> [at : DigestPlaces, of : Digests,
                             list : [Digests -> 0 .. NotListed]]]
  /\ mailed \in [Digests -> 0 .. MaxDigestAttempts + 1]
  /\ partial \in SUBSET Digests /\ shared \in SUBSET Digests /\ spoilt \in SUBSET Digests
  /\ digestFaults \in 0 .. MaxDigestFaults

NoJob == [at |-> "none", of |-> CHOOSE d \in Digests : TRUE,
          list |-> [d \in Digests |-> NotListed]]

DigestInit ==
  /\ digest = [d \in Digests |-> [status |-> "absent", attempts |-> 0]]
  /\ digestItems = [d \in Digests |-> 0]
  /\ job = [j \in DigestJobs |-> NoJob]
  /\ mailed = [d \in Digests |-> 0]
  /\ partial = {} /\ shared = {} /\ spoilt = {} /\ digestFaults = 0

JobGoes(j, from, to) ==
  /\ job[j].at = from
  /\ job' = [job EXCEPT ![j].at = to]

Of(j) == job[j].of
Listed(j) == {d \in Digests : job[j].list[d] # NotListed}
Works(j, d) == d \in Listed(j) \/ (job[j].at = "saving" /\ Of(j) = d)

\* The list entry of the delivery is done with; on to the next.
NextEntry(j) == job' = [job EXCEPT ![j].at = "sending", ![j].list[Of(j)] = NotListed]

DigestFault == digestFaults < MaxDigestFaults /\ digestFaults' = digestFaults + 1

-----------------------------------------------------------------------------
(* generateDigests *)

JobStarts(j) ==
  /\ JobGoes(j, "none", "generating")
  /\ UNCHANGED <<digest, digestItems, mailed, partial, shared, spoilt, digestFaults>>

\* The delivery is stored as pending before its items are.  Without text columns
\* no subscription is read: the job throws, as good as one that finds nothing.
CreateDigestDelivery(j, d) ==
  /\ JsonbAsText
  /\ job[j].at = "generating" /\ digest[d].status = "absent"
  /\ digest' = [digest EXCEPT ![d].status = "pending"]
  /\ job' = [job EXCEPT ![j].at = "saving", ![j].of = d]
  /\ UNCHANGED <<digestItems, mailed, partial, shared, spoilt, digestFaults>>

SaveItem(j) ==
  /\ JobGoes(j, "saving", IF digestItems[Of(j)] + 1 = ItemCount THEN "generating" ELSE "saving")
  /\ digestItems' = [digestItems EXCEPT ![Of(j)] = @ + 1]
  /\ UNCHANGED <<digest, mailed, partial, shared, spoilt, digestFaults>>

\* The error is logged, and the delivery stays as it is.
SaveThrows(j) ==
  /\ DigestFault
  /\ JobGoes(j, "saving", "generating")
  /\ spoilt' = spoilt \cup {Of(j)}
  /\ UNCHANGED <<digest, digestItems, mailed, partial, shared>>

-----------------------------------------------------------------------------
(* processPendingDeliveries and sendDigest *)

IsPending(d) ==
  \/ digest[d].status = "pending"
  \/ digest[d].status = "failed" /\ digest[d].attempts < MaxDigestAttempts

ListPending(j) ==
  LET pending == {d \in Digests : IsPending(d)} IN
  /\ job[j].at = "generating"
  /\ job' = [job EXCEPT ![j].at = "sending",
       ![j].list = [d \in Digests |-> IF d \in pending THEN digest[d].attempts ELSE NotListed]]
  /\ shared' = shared \cup {d \in pending : \E k \in DigestJobs \ {j} : Works(k, d)}
  /\ UNCHANGED <<digest, digestItems, mailed, partial, spoilt, digestFaults>>

\* The items are read; the order of the list is the database's.
ReadItems(j, d) ==
  /\ job[j].at = "sending" /\ d \in Listed(j)
  /\ job' = [job EXCEPT ![j].at = "mailing", ![j].of = d]
  /\ partial' = IF digestItems[d] < ItemCount THEN partial \cup {d} ELSE partial
  /\ UNCHANGED <<digest, digestItems, mailed, shared, spoilt, digestFaults>>

SendDigestEmail(j) ==
  /\ JobGoes(j, "mailing", "marking")
  /\ mailed' = [mailed EXCEPT ![Of(j)] = IF @ > MaxDigestAttempts THEN @ ELSE @ + 1]
  /\ UNCHANGED <<digest, digestItems, partial, shared, spoilt, digestFaults>>

SendThrows(j) ==
  /\ JobGoes(j, "mailing", "failing")
  /\ UNCHANGED <<digest, digestItems, mailed, partial, shared, spoilt, digestFaults>>

\* Seeded fault: the count is written, the status is not.
MarkCounted(j) ==
  /\ job[j].at = "marking"
  /\ digest' = [digest EXCEPT ![Of(j)].attempts = job[j].list[Of(j)] + 1]
  /\ NextEntry(j)
  /\ UNCHANGED <<digestItems, mailed, partial, shared, spoilt, digestFaults>>

\* Both write the count of the list, plus one.
MarkSent(j) ==
  /\ job[j].at = "marking"
  /\ digest' = [digest EXCEPT ![Of(j)] = [status |-> "sent", attempts |-> job[j].list[Of(j)] + 1]]
  /\ NextEntry(j)
  /\ UNCHANGED <<digestItems, mailed, partial, shared, spoilt, digestFaults>>

\* The mail is out, and counts as an attempt that failed.
MarkThrows(j) ==
  /\ DigestFault
  /\ JobGoes(j, "marking", "failing")
  /\ spoilt' = spoilt \cup {Of(j)}
  /\ UNCHANGED <<digest, digestItems, mailed, partial, shared>>

\* Seeded fault: a failed attempt is not counted.
MarkDigestPending(j) ==
  /\ job[j].at = "failing"
  /\ digest' = [digest EXCEPT ![Of(j)].status = "pending"]
  /\ NextEntry(j)
  /\ UNCHANGED <<digestItems, mailed, partial, shared, spoilt, digestFaults>>

\* Pending again, so that the delay of the next attempt is not looked at.
MarkDigestFailed(j) ==
  LET attempts == job[j].list[Of(j)] + 1 IN
  /\ job[j].at = "failing"
  /\ digest' = [digest EXCEPT ![Of(j)] =
       [status |-> IF attempts >= MaxDigestAttempts THEN "failed" ELSE "pending",
        attempts |-> attempts]]
  /\ NextEntry(j)
  /\ UNCHANGED <<digestItems, mailed, partial, shared, spoilt, digestFaults>>

JobReturns(j) ==
  /\ job[j].at = "sending" /\ Listed(j) = {}
  /\ job' = [job EXCEPT ![j] = NoJob]
  /\ UNCHANGED <<digest, digestItems, mailed, partial, shared, spoilt, digestFaults>>

\* The second update is refused, or the process dies.
JobDies(j) ==
  /\ DigestFault
  /\ job[j].at # "none"
  /\ spoilt' = spoilt \cup {d \in Digests : Works(j, d)}
  /\ job' = [job EXCEPT ![j] = NoJob]
  /\ UNCHANGED <<digest, digestItems, mailed, partial, shared>>

-----------------------------------------------------------------------------

JobStep(j) ==
  \/ JobStarts(j) \/ SaveItem(j) \/ ListPending(j)
  \/ \E d \in Digests : ReadItems(j, d)
  \/ SendDigestEmail(j) \/ SendThrows(j) \/ MarkSent(j) \/ MarkDigestFailed(j) \/ JobReturns(j)

DigestNext ==
  \E j \in DigestJobs :
    \/ JobStep(j)
    \/ \E d \in Digests : CreateDigestDelivery(j, d)
    \/ SaveThrows(j) \/ MarkThrows(j) \/ JobDies(j)

\* The repeatable jobs come again, and what they await ends.
DigestFairness == \A j \in DigestJobs : WF_digestVars(JobStep(j))

DigestSpec == DigestInit /\ [][DigestNext]_digestVars

FairDigestSpec == DigestSpec /\ DigestFairness

-----------------------------------------------------------------------------
(* Properties *)

\* A delivery that no two jobs had at once and no refused statement or death has
\* spoilt is mailed at most once, with all of its items, and is marked as sent
\* exactly if it was mailed and its job is done with it.
MailedOnce ==
  \A d \in Digests \ (shared \cup spoilt) :
    /\ mailed[d] <= 1 /\ d \notin partial
    /\ digest[d].status = "sent" => mailed[d] = 1
    /\ mailed[d] = 1 =>
         digest[d].status = "sent" \/ \E j \in DigestJobs : job[j].at = "marking" /\ Of(j) = d

\* Whatever overlaps, throws or dies, a pending delivery is sent or given up.
EveryDigestSettles ==
  \A d \in Digests : digest[d].status = "pending" ~> digest[d].status \in {"sent", "failed"}
==============================================================================
