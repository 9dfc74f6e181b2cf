---------------------------- MODULE ApprovalWorkflow ---------------------------
(***************************************************************************)
(* src/workflow/approval_workflow.py: requests for approval, decided by    *)
(* an approver or by their deadline.  No method suspends, so each is one   *)
(* step.  A decision is accepted from anybody: approve and reject do not   *)
(* look at the list of approvers.                                          *)
(***************************************************************************)
EXTENDS Naturals, Sequences, SequencesExt

CONSTANT Requests             \* request ids

VARIABLES request,            \* approval_requests
          late                \* requests whose deadline has passed

approvalVars == <<request, late>>

NoRequest == [status |-> "none"]

\* The policies a request may come with; "sequential" of a template is not
\* copied into the request, so it is not part of one.
Policies == {"auto_approve", "expire"}

ApprovalInit ==
  /\ request = [r \in Requests |-> NoRequest]
  /\ late = {}

ApprovalTypeOK ==
  /\ \A r \in Requests :
       \/ request[r] = NoRequest
       \/ /\ request[r].status \in {"pending", "approved", "rejected", "expired"}
          /\ request[r].deadline \in BOOLEAN
          /\ request[r].policy \in Policies
          /\ request[r].decisions \in Seq({"approved", "rejected"})
  /\ late \subseteq Requests

\* create_approval_request.
CreateRequest(r, deadline, policy) ==
  /\ request[r] = NoRequest
  /\ request' = [request EXCEPT ![r] =
       [status |-> "pending", deadline |-> deadline, policy |-> policy,
        decisions |-> <<>>]]
  /\ UNCHANGED late

\* create_from_template: the deadline and the policy of the template.
CreateFromTemplate(r, template) ==
  CreateRequest(r, template.deadline, template.policy)

\* _is_approval_complete: no request is sequential, one approval is enough.
IsApprovalComplete(decisions) == Contains(decisions, "approved")

Decided(r, decision, done) ==
  request' = [request EXCEPT ![r].decisions = Append(@, decision),
                             ![r].status = IF done THEN decision ELSE @]

\* A mutant of Approve: the status is not looked at.
ApproveAnyTime(r) ==
  /\ request[r] # NoRequest
  /\ Decided(r, "approved", TRUE)
  /\ UNCHANGED late

Approve(r) ==
  /\ request[r].status = "pending"
  /\ Decided(r, "approved",
             IsApprovalComplete(Append(request[r].decisions, "approved")))
  /\ UNCHANGED late

Reject(r) ==
  /\ request[r].status = "pending"
  /\ Decided(r, "rejected", TRUE)
  /\ UNCHANGED late

\* Time passes the deadline of a request.
DeadlinePasses(r) ==
  /\ request[r] # NoRequest /\ r \notin late
  /\ request[r].deadline
  /\ late' = late \cup {r}
  /\ UNCHANGED request

\* check_deadlines decides every pending request that is late.
CheckDeadlines ==
  /\ request' = [r \in Requests |->
       IF request[r].status = "pending" /\ r \in late
       THEN [request[r] EXCEPT !.status =
              IF request[r].policy = "auto_approve" THEN "approved" ELSE "expired"]
       ELSE request[r]]
  /\ UNCHANGED late

ApprovalNext ==
  \/ CheckDeadlines
  \/ \E r \in Requests :
       \/ \E d \in BOOLEAN, p \in Policies :
            \/ CreateRequest(r, d, p)
            \/ CreateFromTemplate(r, [deadline |-> d, policy |-> p])
       \/ Approve(r) \/ Reject(r) \/ DeadlinePasses(r)

--------------------------------------------------------------------------------
Outcome(status) ==
  CASE status = "pending" -> "open"
    [] status = "approved" -> "yes"
    [] status = "rejected" -> "no"
    [] OTHER -> status

ApprovalDecision == INSTANCE Decision WITH
  Questions <- Requests,
  outcome <- [r \in Requests |-> Outcome(request[r].status)],
  votes <- [r \in Requests |->
              IF request[r] = NoRequest THEN {}
              ELSE {Outcome(d) : d \in ToSet(request[r].decisions)}]

\* ImplementsDecision: whatever the order in which approvers decide, deadlines
\* pass and check_deadlines runs, a request is decided once, an opposite vote
\* never follows, and what a waiting workflow has been told stays true.
ImplementsDecision == ApprovalDecision!Spec
================================================================================
