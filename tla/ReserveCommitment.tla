-------------------------- MODULE ReserveCommitment --------------------------
(***************************************************************************)
(* Reserve verification of one bridge (workers/reserveVerification.worker, *)
(* services/reserveVerification.service): a job hashes the reserves into a *)
(* Merkle tree, commits the root on chain, saves the commitment, and has   *)
(* the contract verify the proofs of the first leaves.                     *)
(*                                                                         *)
(* Every attempt fetches the reserves anew and so commits a root of its    *)
(* own: the root stands for the attempt.  A hash is the sequence of what   *)
(* was hashed.                                                             *)
(***************************************************************************)
EXTENDS Integers, Sequences, FiniteSets

CONSTANTS
  Jobs,           \* jobs of the bridge that workers of two processes may share
  MaxAttempts,    \* attempts of the queue (3)
  LeafCounts,     \* how many reserve leaves a fetch may return
  MaxLeaves,      \* bound: leaves of the trees whose proofs are compared
  SampleSize,     \* leaves whose proofs are verified (4)
  MaxMishaps      \* bound: calls that fail, workers that die with a job

ASSUME CommitmentAssumption ==
  /\ MaxAttempts \in Nat \ {0} /\ SampleSize \in Nat \ {0}
  /\ MaxLeaves \in Nat /\ LeafCounts \subseteq 1..MaxLeaves
  /\ MaxMishaps \in Nat

VARIABLES
  job,           \* [Jobs -> pc, attempts made, stalls, leaves, next leaf, account sequence]
  txs,           \* transactions sent: job, attempt, account sequence, status
  ledgerSeq,     \* transactions of the operator account the ledger has taken
  commitments,   \* Seq: the commitments the contract holds, by sequence number
  rows,          \* reserve_commitments: sequence, job, attempt, status
  results,       \* verification_results: sequence, leaf, is_valid
  mishaps,       \* history: failed calls and dead workers so far
  unlearnt       \* history: attempts that sent a transaction and did not record it

commitmentVars == <<job, txs, ledgerSeq, commitments, rows, results, mishaps, unlearnt>>

AttemptOf(j) == <<j, job[j].attempts + job[j].stalls>>
TxOf(j) == CHOOSE t \in txs : t.attempt = AttemptOf(j)
SequenceOf(attempt) == CHOOSE s \in DOMAIN commitments : commitments[s] = attempt

CommitmentTypeOK ==
  /\ job \in [Jobs -> [
       pc : {"waiting", "prepare", "send", "poll", "save", "prove", "record", "completed",
             "failed"},
       attempts : 0..MaxAttempts, stalls : 0..2, leaves : LeafCounts \cup {0},
       leaf : Nat, accountSeq : Nat, valid : BOOLEAN]]
  /\ txs \subseteq [attempt : Jobs \X Nat, accountSeq : Nat,
                    status : {"pending", "success", "failed", "expired"}]
  /\ ledgerSeq \in Nat /\ commitments \in Seq(Jobs \X Nat)
  /\ rows \subseteq [sequence : Nat, attempt : Jobs \X Nat,
                     status : {"pending", "verified"}]
  /\ results \subseteq [sequence : Nat, leaf : Nat, isValid : BOOLEAN]
  /\ mishaps \in 0..MaxMishaps

CommitmentInit ==
  /\ job = [j \in Jobs |-> [pc |-> "waiting", attempts |-> 0, stalls |-> 0, leaves |-> 0,
                            leaf |-> 0, accountSeq |-> 0, valid |-> FALSE]]
  /\ txs = {} /\ ledgerSeq = 0 /\ commitments = <<>> /\ rows = {} /\ results = {}
  /\ mishaps = 0 /\ unlearnt = {}

-----------------------------------------------------------------------------
(* The Merkle tree; the leaves are numbered from 0, layers from 1 *)

HashLeaf(i) == <<i>>
HashPair(l, r) == <<l, r>>

\* A layer with an odd number of nodes is padded with its last one.
Padded(layer) ==
  IF Len(layer) % 2 = 0 THEN layer ELSE Append(layer, layer[Len(layer)])

Parents(layer) ==
  LET current == Padded(layer)
  IN [i \in 1..(Len(current) \div 2) |-> HashPair(current[2 * i - 1], current[2 * i])]

\* Layer upon layer; above the first with a single node nothing changes.
Layers(leaves) ==
  LET layer[k \in 1..Len(leaves)] ==
        IF k = 1 THEN leaves
        ELSE LET below == layer[k - 1] IN IF Len(below) = 1 THEN below ELSE Parents(below)
  IN layer

LayersFrom(leaves) ==
  LET layer == Layers(leaves)
      height == CHOOSE k \in 1..Len(leaves) :
                  Len(layer[k]) = 1 /\ \A m \in 1..(k - 1) : Len(layer[m]) > 1
  IN [k \in 1..height |-> layer[k]]

\* buildMerkleTree: the layers as they were before the padding.
BuildMerkleTree(n) == LayersFrom([i \in 1..n |-> HashLeaf(i - 1)])
Root(tree) == tree[Len(tree)][1]

\* generateMerkleProof: a node without a sibling is its own.
Sibling(layer, index) ==
  LET sibling == IF index % 2 = 0 THEN index + 1 ELSE index - 1
  IN IF sibling < Len(layer) THEN layer[sibling + 1] ELSE layer[index + 1]

\* The index at every layer, halved from one to the next.
Indices(leaf, layers) ==
  LET index[k \in 1..layers] == IF k = 1 THEN leaf ELSE index[k - 1] \div 2
  IN index

GenerateMerkleProof(tree, leaf) ==
  LET index == Indices(leaf, Len(tree))
  IN [k \in 1..(Len(tree) - 1) |-> Sibling(tree[k], index[k])]

\* verifyMerkleProof: the hash computed at every layer.
Climb(leafHash, path, leaf) ==
  LET index == Indices(leaf, Len(path) + 1)
      computed[k \in 1..(Len(path) + 1)] ==
        IF k = 1 THEN leafHash
        ELSE LET below == computed[k - 1]
             IN IF index[k - 1] % 2 = 0 THEN HashPair(below, path[k - 1])
                ELSE HashPair(path[k - 1], below)
  IN computed

VerifyMerkleProof(leafHash, path, leaf, root) ==
  Climb(leafHash, path, leaf)[Len(path) + 1] = root

\* The proof of a leaf, tried on the hash of another or the same one.
ProofPasses(tree, leaf, other) ==
  VerifyMerkleProof(tree[1][other + 1], GenerateMerkleProof(tree, leaf), leaf, Root(tree))

OffChainValid(leaves, leaf) == ProofPasses(BuildMerkleTree(leaves), leaf, leaf)

-----------------------------------------------------------------------------
(* The queue *)

\* A worker takes the job and fetches the reserves.
TakeJob(j) ==
  /\ job[j].pc = "waiting"
  /\ \E n \in LeafCounts :
       job' = [job EXCEPT ![j] = [@ EXCEPT !.pc = "prepare", !.leaves = n, !.leaf = 0]]
  /\ UNCHANGED <<txs, ledgerSeq, commitments, rows, results, mishaps, unlearnt>>

\* The processor throws: another attempt, or the job has failed.
Throws(j) ==
  job' = [job EXCEPT ![j] = [@ EXCEPT
    !.attempts = job[j].attempts + 1,
    !.pc = IF job[j].attempts + 1 < MaxAttempts THEN "waiting" ELSE "failed"]]

\* The transaction of this attempt has been sent and is not saved.
Unlearnt(j) == unlearnt' = unlearnt \cup {AttemptOf(j)}

\* The worker dies: the job stalls and is taken again, once.
WorkerDies(j) ==
  /\ job[j].pc \notin {"waiting", "completed", "failed"}
  /\ mishaps < MaxMishaps
  /\ mishaps' = mishaps + 1
  /\ job' = [job EXCEPT ![j] = [@ EXCEPT
       !.stalls = job[j].stalls + 1,
       !.pc = IF job[j].stalls = 0 THEN "waiting" ELSE "failed"]]
  /\ IF job[j].pc \in {"prepare", "send"} THEN UNCHANGED unlearnt ELSE Unlearnt(j)
  /\ UNCHANGED <<txs, ledgerSeq, commitments, rows, results>>

-----------------------------------------------------------------------------
(* commitReserves *)

\* The bridge is paused, has no contract or key, a call or the simulation fails.
NotSent(j) ==
  /\ job[j].pc \in {"prepare", "send"} /\ mishaps < MaxMishaps
  /\ mishaps' = mishaps + 1
  /\ Throws(j)
  /\ UNCHANGED <<txs, ledgerSeq, commitments, rows, results, unlearnt>>

\* getAccount gives the sequence number the transaction is built with.
GetAccount(j) ==
  /\ job[j].pc = "prepare"
  /\ job' = [job EXCEPT ![j] = [@ EXCEPT !.pc = "send", !.accountSeq = ledgerSeq + 1]]
  /\ UNCHANGED <<txs, ledgerSeq, commitments, rows, results, mishaps, unlearnt>>

\* sendTransaction; one whose sequence number is taken comes back as an error.
SendTransaction(j) ==
  /\ job[j].pc = "send"
  /\ \/ /\ job[j].accountSeq = ledgerSeq + 1
        /\ txs' = txs \cup {[attempt |-> AttemptOf(j), accountSeq |-> job[j].accountSeq,
                             status |-> "pending"]}
        /\ job' = [job EXCEPT ![j].pc = "poll"]
     \/ /\ job[j].accountSeq # ledgerSeq + 1
        /\ Throws(j) /\ UNCHANGED txs
  /\ UNCHANGED <<ledgerSeq, commitments, rows, results, mishaps, unlearnt>>

\* The ledger takes a transaction, whose call succeeds or fails, or drops it at
\* the end of its time bounds.
LedgerCloses(t) ==
  /\ t.status = "pending"
  /\ \/ /\ t.accountSeq = ledgerSeq + 1
        /\ ledgerSeq' = ledgerSeq + 1
        /\ \/ /\ commitments' = Append(commitments, t.attempt)
              /\ txs' = (txs \ {t}) \cup {[t EXCEPT !.status = "success"]}
           \/ /\ txs' = (txs \ {t}) \cup {[t EXCEPT !.status = "failed"]}
              /\ UNCHANGED commitments
     \/ /\ txs' = (txs \ {t}) \cup {[t EXCEPT !.status = "expired"]}
        /\ UNCHANGED <<ledgerSeq, commitments>>
  /\ UNCHANGED <<job, rows, results, mishaps, unlearnt>>

\* A call fails once the transaction was sent.
FailsAfterSend(j) ==
  /\ mishaps < MaxMishaps /\ mishaps' = mishaps + 1
  /\ Throws(j) /\ Unlearnt(j)

\* pollTransactionResult ends: the transaction succeeded or failed, was not
\* found in all its polls, or a poll itself failed.
PollResult(j) ==
  /\ job[j].pc = "poll"
  /\ \/ /\ TxOf(j).status = "success"
        /\ job' = [job EXCEPT ![j].pc = "save"]
        /\ UNCHANGED <<mishaps, unlearnt>>
     \/ /\ TxOf(j).status \in {"failed", "expired"}
        /\ Throws(j) /\ UNCHANGED <<mishaps, unlearnt>>
     \/ FailsAfterSend(j)
  /\ UNCHANGED <<txs, ledgerSeq, commitments, rows, results>>

\* saveCommitment: a row for the sequence keeps all but its tx_hash.
SaveCommitment(j) ==
  /\ job[j].pc = "save"
  /\ \/ /\ LET s == SequenceOf(AttemptOf(j))
           IN rows' = IF \E r \in rows : r.sequence = s THEN rows
                      ELSE rows \cup {[sequence |-> s, attempt |-> AttemptOf(j),
                                       status |-> "pending"]}
        /\ job' = [job EXCEPT ![j].pc = "prove"]
        /\ UNCHANGED <<mishaps, unlearnt>>
     \/ FailsAfterSend(j) /\ UNCHANGED rows
  /\ UNCHANGED <<txs, ledgerSeq, commitments, results>>

-----------------------------------------------------------------------------
(* The proofs of the first leaves *)

Samples(j) == IF job[j].leaves < SampleSize THEN job[j].leaves ELSE SampleSize

\* The proof of the next leaf is checked here and then by the contract.
ProveLeaf(j) ==
  /\ job[j].pc = "prove" /\ job[j].leaf < Samples(j)
  /\ \/ /\ ~OffChainValid(job[j].leaves, job[j].leaf)
        /\ Throws(j)
     \/ /\ OffChainValid(job[j].leaves, job[j].leaf)
        /\ \E valid \in BOOLEAN :
             job' = [job EXCEPT ![j] = [@ EXCEPT !.pc = "record", !.valid = valid]]
  /\ UNCHANGED <<txs, ledgerSeq, commitments, rows, results, mishaps, unlearnt>>

\* Mutant: a result that is not saved fails the attempt.
RecordResultOrThrow(j) ==
  /\ job[j].pc = "record"
  /\ \/ /\ results' = results \cup {[sequence |-> SequenceOf(AttemptOf(j)),
                                     leaf |-> job[j].leaf, isValid |-> job[j].valid]}
        /\ job' = [job EXCEPT ![j] = [@ EXCEPT !.pc = "prove", !.leaf = job[j].leaf + 1]]
        /\ UNCHANGED mishaps
     \/ /\ mishaps < MaxMishaps
        /\ mishaps' = mishaps + 1 /\ Throws(j) /\ UNCHANGED results
  /\ UNCHANGED <<txs, ledgerSeq, commitments, rows, unlearnt>>

\* saveVerificationResult, whose failure is only logged.
RecordResult(j) ==
  /\ job[j].pc = "record"
  /\ job' = [job EXCEPT ![j] = [@ EXCEPT !.pc = "prove", !.leaf = job[j].leaf + 1]]
  /\ \/ /\ results' = results \cup {[sequence |-> SequenceOf(AttemptOf(j)),
                                     leaf |-> job[j].leaf, isValid |-> job[j].valid]}
        /\ UNCHANGED mishaps
     \/ /\ mishaps < MaxMishaps
        /\ mishaps' = mishaps + 1 /\ UNCHANGED results
  /\ UNCHANGED <<txs, ledgerSeq, commitments, rows, unlearnt>>

JobCompletes(j) ==
  /\ job[j].pc = "prove" /\ job[j].leaf = Samples(j)
  /\ job' = [job EXCEPT ![j].pc = "completed"]
  /\ UNCHANGED <<txs, ledgerSeq, commitments, rows, results, mishaps, unlearnt>>

-----------------------------------------------------------------------------
CommitmentNext ==
  \/ \E j \in Jobs :
       \/ TakeJob(j) \/ WorkerDies(j) \/ NotSent(j) \/ GetAccount(j) \/ SendTransaction(j)
       \/ PollResult(j) \/ SaveCommitment(j)
       \/ ProveLeaf(j) \/ RecordResult(j) \/ JobCompletes(j)
  \/ \E t \in txs : LedgerCloses(t)

CommitmentSpec == CommitmentInit /\ [][CommitmentNext]_commitmentVars

-----------------------------------------------------------------------------
(* Properties *)

\* A row is a commitment the contract holds under that sequence, a completed job
\* has one, and every verification result belongs to one.
RowsAreOnChain ==
  /\ \A r \in rows : r.sequence \in DOMAIN commitments
                     /\ commitments[r.sequence] = r.attempt
  /\ \A j \in Jobs : job[j].pc = "completed" => \E r \in rows : r.attempt = AttemptOf(j)
  /\ \A v \in results : \E r \in rows : r.sequence = v.sequence

\* A job commits a second time only when an earlier attempt did not learn or did
\* not record that its transaction went through.
CommitsAgainOnlyUnlearnt ==
  \A s, t \in DOMAIN commitments :
    s < t /\ commitments[s][1] = commitments[t][1] => commitments[s] \in unlearnt

\* Whatever the number of leaves, the proof a tree yields for a leaf verifies
\* that leaf and no other, so that no job fails on its own tree.
ProofsVerify ==
  \A n \in 1..MaxLeaves :
    LET tree == BuildMerkleTree(n)
    IN \A leaf, other \in 0..(n - 1) : ProofPasses(tree, leaf, other) <=> leaf = other

\* However jobs race for the account's sequence numbers, polls give up and
\* workers die, table and contract agree on what was recorded, and a root is
\* committed anew only if it is not known to be there
\* (reserveVerification.service.ts:121, :311, worker:217, :232, :265).
CommitmentsAccounted == RowsAreOnChain /\ CommitsAgainOnlyUnlearnt /\ ProofsVerify
==============================================================================
