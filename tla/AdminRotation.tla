---------------------------- MODULE AdminRotation ----------------------------
(***************************************************************************)
(* Administrators and proposals about them                                 *)
(* (services/adminRotation.service.ts).  A request checks what it has read *)
(* and writes in a later statement, without a transaction; requests run    *)
(* concurrently, and the process may die between two statements.  Roles    *)
(* are left out: a change of roles is a change of the account.             *)
(***************************************************************************)
EXTENDS Naturals, FiniteSets, JsonbColumns

CONSTANTS
  Addresses, Founders,   \* accounts, and those there are in the beginning
  Proposals, Approvers,
  Requests,              \* requests running at a time
  None,                  \* no proposal
  MinimumAdminCount, RequiredApprovals,
  MaxDeaths              \* bound: deaths of the process

ASSUME AdminAssumption ==
  /\ Founders \subseteq Addresses /\ Addresses # {} /\ Approvers # {}
  /\ IsFiniteSet(Addresses) /\ IsFiniteSet(Approvers)
  /\ MinimumAdminCount \in Nat /\ Cardinality(Founders) >= MinimumAdminCount
  /\ RequiredApprovals \in Nat
  /\ None \notin Proposals
  /\ MaxDeaths \in Nat

VARIABLES
  account,     \* admin_accounts
  proposal,    \* admin_rotation_proposals
  request,     \* where each request is and what it has read
  consent,     \* everybody who has approved a proposal
  applied,     \* how often a proposal has changed its account: 0, 1 or more
  overlapped,  \* two removals have been under way at once
  raced,       \* proposals that requests have worked on at once, or that a death
               \* has left changed and not marked
  deaths

adminVars == <<account, proposal, request, consent, applied, overlapped, raced, deaths>>

Kinds    == {"add_admin", "remove_admin", "change_roles"}
Statuses == {"pending", "approved", "rejected", "executed", "expired"}

Proposal == [status : Statuses \cup {"absent"}, kind : Kinds, target : Addresses,
             approvals : SUBSET Approvers, past : BOOLEAN]

\* The statement a request makes next.
Steps == {"none", "insert", "find", "deactivate", "rewrite", "activate", "log",
          "approve", "expire"}

Request == [next : Steps, target : Addresses, for : Proposals \cup {None},
            saw : SUBSET Approvers, approver : Approvers]

AdminTypeOK ==
  /\ account \in [Addresses -> {"absent", "active", "inactive"}]
  /\ proposal \in [Proposals -> Proposal]
  /\ request \in [Requests -> Request]
  /\ consent \in [Proposals -> SUBSET Approvers]
  /\ applied \in [Proposals -> 0 .. 2]
  /\ overlapped \in BOOLEAN /\ raced \in SUBSET Proposals
  /\ deaths \in 0 .. MaxDeaths

NoRequest == [next |-> "none", target |-> CHOOSE a \in Addresses : TRUE, for |-> None,
              saw |-> {}, approver |-> CHOOSE a \in Approvers : TRUE]

AdminInit ==
  /\ account = [a \in Addresses |-> IF a \in Founders THEN "active" ELSE "absent"]
  /\ proposal = [p \in Proposals |->
        [status |-> "absent", kind |-> "add_admin", target |-> NoRequest.target,
         approvals |-> {}, past |-> FALSE]]
  /\ request = [r \in Requests |-> NoRequest]
  /\ consent = [p \in Proposals |-> {}]
  /\ applied = [p \in Proposals |-> 0]
  /\ overlapped = FALSE /\ raced = {}
  /\ deaths = 0

Active == {a \in Addresses : account[a] = "active"}

Changed == {r \in Requests : request[r].next = "log"}

Removing == {r \in Requests : request[r].next \in {"find", "deactivate"}}

\* r goes on to its next statement, or ends.
Continue(r, step) == request' = [request EXCEPT ![r].next = step]
End(r)            == request' = [request EXCEPT ![r] = NoRequest]

\* mapAdminRow and mapProposalRow: JSON.parse of a parsed column throws.
Reads(r, step) == IF JsonbAsText THEN Continue(r, step) ELSE End(r)

\* The account of r's request changes, for its proposal if there is one.
Change(r, status) ==
  /\ account' = [account EXCEPT ![request[r].target] = status]
  /\ applied' = [p \in Proposals |->
        IF p # request[r].for THEN applied[p] ELSE IF applied[p] = 0 THEN 1 ELSE 2]

\* A request begins to work on p while another does.
Meet(p) == raced' = IF \E q \in Requests : request[q].for = p THEN raced \cup {p} ELSE raced

\* Seeded fault: off by one, the last administrator may go.
EnterAtMinimum(kind, a) ==
  CASE kind = "add_admin" -> account[a] = "absent"
    [] kind = "remove_admin" -> Cardinality(Active) >= MinimumAdminCount
    [] OTHER -> JsonbAsText /\ account[a] # "absent"

\* Where executeProposal or a direct request of this kind begins.
Enter(kind, a) ==
  CASE kind = "add_admin" -> account[a] = "absent"
    [] kind = "remove_admin" -> Cardinality(Active) > MinimumAdminCount
    [] OTHER -> JsonbAsText /\ account[a] # "absent"

FirstStep(kind) ==
  CASE kind = "add_admin" -> "insert"
    [] kind = "remove_admin" -> "find"
    [] OTHER -> "rewrite"

Begin(r, kind, a, p) ==
  /\ request[r].next = "none"
  /\ Enter(kind, a)
  /\ request' = [request EXCEPT ![r].next = FirstStep(kind), ![r].target = a, ![r].for = p]
  /\ overlapped' = (overlapped \/ (kind = "remove_admin" /\ Removing # {}))

-----------------------------------------------------------------------------
(* Accounts *)

\* addAdmin, removeAdmin, changeRoles up to their check.  A refused request
\* changes nothing.
DirectRequest(r, kind, a) ==
  /\ Begin(r, kind, a, None)
  /\ UNCHANGED <<account, proposal, consent, applied, raced, deaths>>

ActivateAdmin(r, a) ==
  /\ request[r].next = "none"
  /\ JsonbAsText /\ account[a] = "inactive"
  /\ request' = [request EXCEPT ![r].next = "activate", ![r].target = a]
  /\ UNCHANGED <<account, proposal, consent, applied, overlapped, raced, deaths>>

\* removeAdmin reads the account after it has counted the active ones.
FindAdmin(r) ==
  /\ request[r].next = "find"
  /\ IF account[request[r].target] = "active" THEN Reads(r, "deactivate") ELSE End(r)
  /\ UNCHANGED <<account, proposal, consent, applied, overlapped, raced, deaths>>

\* The address is unique: a second insert throws.
InsertAdmin(r) ==
  LET a == request[r].target IN
  /\ request[r].next = "insert"
  /\ IF account[a] = "absent"
       THEN /\ Change(r, "active")
            /\ Reads(r, "log")
       ELSE End(r) /\ UNCHANGED <<account, applied>>
  /\ UNCHANGED <<proposal, consent, overlapped, raced, deaths>>

UpdateAdmin(r, step, status) ==
  /\ request[r].next = step
  /\ Change(r, status)
  /\ Continue(r, "log")
  /\ UNCHANGED <<proposal, consent, overlapped, raced, deaths>>

Deactivate(r) == UpdateAdmin(r, "deactivate", "inactive")
Reactivate(r) == UpdateAdmin(r, "activate", "active")
RewriteRoles(r) == UpdateAdmin(r, "rewrite", account[request[r].target])

\* logRotationEvent and the audit log, which nothing here reads.
LogRotationEvent(r) ==
  /\ request[r].next = "log" /\ request[r].for = None
  /\ End(r)
  /\ UNCHANGED <<account, proposal, consent, applied, overlapped, raced, deaths>>

-----------------------------------------------------------------------------
(* Proposals *)

CreateProposal(p, kind, a, proposer) ==
  /\ proposal[p].status = "absent"
  /\ proposal' = [proposal EXCEPT ![p] = [status |-> "pending", kind |-> kind, target |-> a,
                                          approvals |-> {proposer}, past |-> FALSE]]
  /\ consent' = [consent EXCEPT ![p] = {proposer}]
  /\ UNCHANGED <<account, request, applied, overlapped, raced, deaths>>

\* The first part of approveProposal and executeProposal: a pending or approved
\* proposal that is past its time is going to be marked as expired.
FindExpired(r, p) ==
  /\ request[r].next = "none" /\ JsonbAsText
  /\ proposal[p].status \in {"pending", "approved"} /\ proposal[p].past
  /\ request' = [request EXCEPT ![r].next = "expire", ![r].for = p]
  /\ Meet(p)
  /\ UNCHANGED <<account, proposal, consent, applied, overlapped, deaths>>

ExpireProposal(r) ==
  LET p == request[r].for IN
  /\ request[r].next = "expire"
  /\ proposal' = [proposal EXCEPT ![p].status = "expired"]
  /\ End(r)
  /\ UNCHANGED <<account, consent, applied, overlapped, raced, deaths>>

ReadForApproval(r, p, approver) ==
  /\ request[r].next = "none" /\ JsonbAsText
  /\ proposal[p].status = "pending" /\ ~proposal[p].past
  /\ approver \notin proposal[p].approvals
  /\ request' = [request EXCEPT ![r].next = "approve", ![r].for = p,
                                ![r].saw = proposal[p].approvals, ![r].approver = approver]
  /\ Meet(p)
  /\ UNCHANGED <<account, proposal, consent, applied, overlapped, deaths>>

WriteApproval(r) ==
  LET p == request[r].for
      newApprovals == request[r].saw \cup {request[r].approver} IN
  /\ request[r].next = "approve"
  /\ proposal' = [proposal EXCEPT
        ![p].approvals = newApprovals,
        ![p].status = IF Cardinality(newApprovals) >= RequiredApprovals
                        THEN "approved" ELSE "pending"]
  /\ consent' = [consent EXCEPT ![p] = @ \cup newApprovals]
  /\ End(r)
  /\ UNCHANGED <<account, applied, overlapped, raced, deaths>>

\* Seeded fault: a pending proposal is executed too.
ExecutePending(r, p) ==
  /\ JsonbAsText
  /\ proposal[p].status \in {"pending", "approved"} /\ ~proposal[p].past
  /\ Begin(r, proposal[p].kind, proposal[p].target, p)
  /\ Meet(p)
  /\ UNCHANGED <<account, proposal, consent, applied, deaths>>

ExecuteProposal(r, p) ==
  /\ JsonbAsText
  /\ proposal[p].status = "approved" /\ ~proposal[p].past
  /\ Begin(r, proposal[p].kind, proposal[p].target, p)
  /\ Meet(p)
  /\ UNCHANGED <<account, proposal, consent, applied, deaths>>

\* Seeded fault: the proposal stays as it is.
ForgetToMark(r) ==
  /\ request[r].next = "log" /\ request[r].for # None
  /\ End(r)
  /\ UNCHANGED <<account, proposal, consent, applied, overlapped, raced, deaths>>

\* After logRotationEvent: the proposal is marked, whatever it is by now.
MarkExecuted(r) ==
  /\ request[r].next = "log" /\ request[r].for # None
  /\ proposal' = [proposal EXCEPT ![request[r].for].status = "executed"]
  /\ End(r)
  /\ UNCHANGED <<account, consent, applied, overlapped, raced, deaths>>

\* One statement that tests and writes.
RejectProposal(p) ==
  /\ proposal[p].status = "pending"
  /\ proposal' = [proposal EXCEPT ![p].status = "rejected"]
  /\ UNCHANGED <<account, request, consent, applied, overlapped, raced, deaths>>

TimePasses(p) ==
  /\ proposal[p].status \in {"pending", "approved"} /\ ~proposal[p].past
  /\ proposal' = [proposal EXCEPT ![p].past = TRUE]
  /\ UNCHANGED <<account, request, consent, applied, overlapped, raced, deaths>>

\* The process dies; what its requests had written stays.
ProcessDies ==
  /\ deaths < MaxDeaths
  /\ deaths' = deaths + 1
  /\ raced' = raced \cup ({request[r].for : r \in Changed} \ {None})
  /\ request' = [r \in Requests |-> NoRequest]
  /\ UNCHANGED <<account, proposal, consent, applied, overlapped>>

-----------------------------------------------------------------------------

AccountStep(r) ==
  \/ \E kind \in Kinds, a \in Addresses : DirectRequest(r, kind, a)
  \/ \E a \in Addresses : ActivateAdmin(r, a)
  \/ FindAdmin(r) \/ InsertAdmin(r) \/ Deactivate(r) \/ Reactivate(r) \/ RewriteRoles(r)
  \/ LogRotationEvent(r)

ProposalStep(r) ==
  \/ \E p \in Proposals : FindExpired(r, p) \/ ExecuteProposal(r, p)
  \/ \E p \in Proposals, approver \in Approvers : ReadForApproval(r, p, approver)
  \/ ExpireProposal(r) \/ WriteApproval(r) \/ MarkExecuted(r)

AdminNext ==
  \/ \E r \in Requests : AccountStep(r) \/ ProposalStep(r)
  \/ \E p \in Proposals, kind \in Kinds, a \in Addresses, proposer \in Approvers :
        CreateProposal(p, kind, a, proposer)
  \/ \E p \in Proposals : RejectProposal(p) \/ TimePasses(p)
  \/ ProcessDies

AdminSpec == AdminInit /\ [][AdminNext]_adminVars

-----------------------------------------------------------------------------
(* Properties *)

\* However approvals, rejections and expiries overwrite each other, nothing is
\* executed that not as many as required have approved (approveProposal writes
\* back a list it has read before).
ExecutionHasQuorum ==
  \A p \in Proposals :
    (proposal[p].status \in {"approved", "executed"} \/ applied[p] > 0)
      => Cardinality(consent[p]) >= RequiredApprovals

\* The minimum number of administrators is kept, unless two removals counted
\* before either wrote (removeAdmin, enforceMinimumAdminCount).
MinimumKept ==
  overlapped \/ Cardinality(Active) >= MinimumAdminCount

\* A proposal changes its account once, unless two requests worked on it at once
\* or the process died between the change and the mark (executeProposal).
AppliedOnce ==
  \A p \in Proposals \ raced : applied[p] <= 1
==============================================================================
