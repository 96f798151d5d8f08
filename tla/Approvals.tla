------------------------------ MODULE Approvals ------------------------------
(***************************************************************************)
(* Approval workflows and the purchase orders and expenses they decide:    *)
(* routers/approvals.py, routers/finance/advanced_workflow.py, and the     *)
(* making of an order, its approval and its receipt in                     *)
(* routers/purchases/orders.py (what a receipt moves is in Purchasing).    *)
(*                                                                         *)
(* A handler that locks the row it decides on is one step.  The deletion   *)
(* of a workflow counts its pending requests without a lock, and the       *)
(* escalation sweep reads the overdue ones without a lock: each is a read  *)
(* and a later write.  Amounts are abstracted to which requests are small. *)
(***************************************************************************)
EXTENDS Integers, Sequences

CONSTANTS Users, Documents, Orders, Keys,
          Chains,          \* lists of steps; a step is the users it allows
          Small,           \* documents whose amount is below auto_approve_below
          MaxWorkflows, MaxRequests, MaxEdits  \* bounds

ASSUME ApprovalsAssumption ==
  /\ Orders \subseteq Documents /\ Small \subseteq Documents
  /\ \A c \in Chains : c \in Seq(SUBSET Users)
  /\ {MaxWorkflows, MaxRequests, MaxEdits} \subseteq Nat

VARIABLES workflow,   \* approval_workflows, by id: [steps, active]; Deleted
          request,    \* approval_requests, by id
          action,     \* approval_actions
          document,   \* the status column of the document; "none" before it
          deleting,   \* workflows a deletion has counted no pending request of
          sweep,      \* requests the escalation sweep has read as overdue
          edits       \* number of edits of workflows so far

approvalVars == <<workflow, request, action, document, deleting, sweep, edits>>

Deleted == [steps |-> <<>>, active |-> FALSE, live |-> FALSE]
Live(w) == workflow[w].live

ApprovalsInit ==
  /\ workflow = <<>> /\ request = <<>> /\ action = {}
  /\ document = [d \in Documents |-> IF d \in Orders THEN "none" ELSE "draft"]
  /\ deleting = {} /\ sweep = {} /\ edits = 0

(***************************************************************************)
(* Workflows                                                               *)
(***************************************************************************)
\* create_workflow, active as the form's default has it, refuses a chain
\* without steps; update_workflow does not.
CreateWorkflow(c) ==
  /\ Len(workflow) < MaxWorkflows /\ c # <<>>
  /\ workflow' = Append(workflow, [steps |-> c, active |-> TRUE, live |-> TRUE])
  /\ UNCHANGED <<request, action, document, deleting, sweep, edits>>

\* Requests under way follow the new steps; `edited` remembers they did.
UpdateWorkflow(w, c, active) ==
  /\ Live(w) /\ edits < MaxEdits /\ edits' = edits + 1
  /\ workflow' = [workflow EXCEPT ![w].steps = c, ![w].active = active]
  /\ request' = [r \in DOMAIN request |->
                   IF request[r].wf = w /\ request[r].status = "pending"
                   THEN [request[r] EXCEPT !.edited = TRUE] ELSE request[r]]
  /\ UNCHANGED <<action, document, deleting, sweep>>

\* delete_workflow: the count, and what it deletes on the strength of it.
DeleteRead(w) ==
  /\ Live(w)
  /\ \A r \in DOMAIN request : request[r].wf = w => request[r].status # "pending"
  /\ deleting' = deleting \cup {w}
  /\ UNCHANGED <<workflow, request, action, document, sweep, edits>>

\* Mutant: the actions of the requests are left behind.
DeleteLeaving(w) ==
  /\ w \in deleting /\ deleting' = deleting \ {w}
  /\ workflow' = [workflow EXCEPT ![w] = Deleted]
  /\ request' = [r \in DOMAIN request |->
                   IF request[r].wf = w THEN [request[r] EXCEPT !.status = "deleted"]
                                        ELSE request[r]]
  /\ UNCHANGED <<action, document, sweep, edits>>

DeleteWrite(w) ==
  /\ w \in deleting /\ deleting' = deleting \ {w}
  /\ workflow' = [workflow EXCEPT ![w] = Deleted]
  /\ request' = [r \in DOMAIN request |->
                   IF request[r].wf = w THEN [request[r] EXCEPT !.status = "deleted"]
                                        ELSE request[r]]
  /\ action' = {a \in action : request[a.request].wf # w}
  /\ UNCHANGED <<document, sweep, edits>>

\* _find_matching_workflow: the active ones, the newest first.
Matching == {w \in DOMAIN workflow : Live(w) /\ workflow[w].active}

(***************************************************************************)
(* Requests                                                                *)
(***************************************************************************)
\* create_approval_request; nothing stops a second one for the document.
CreateRequest(d) ==
  /\ Len(request) < MaxRequests /\ document[d] # "none"
  /\ \E w \in Matching :
       /\ \A v \in Matching : v <= w
       /\ workflow[w].steps # <<>>
       /\ request' = Append(request,
            [document |-> d, wf |-> w, status |-> "pending", step |-> 1,
             asked |-> workflow[w].steps, edited |-> FALSE, auto |-> FALSE])
  /\ UNCHANGED <<workflow, action, document, deleting, sweep, edits>>

Before(step) == IF step > 1 THEN step - 1 ELSE 1

\* Mutant: steps counted from 0.
EarlyOutcome(r, act) ==
  LET q == request[r]
      n == Len(workflow[q.wf].steps)
  IN CASE act = "approve" /\ q.step >= n - 1 -> [q EXCEPT !.status = "approved"]
       [] act = "approve" /\ q.step < n - 1  -> [q EXCEPT !.step = @ + 1]
       [] act = "reject"                     -> [q EXCEPT !.status = "rejected"]
       [] act = "return"                     -> [q EXCEPT !.status = "returned",
                                                          !.step = Before(@)]

\* The state a request is in after the user's action is recorded.  One
\* approval is enough for a step: nothing writes a quorum above 1.
Outcome(r, act) ==
  LET q == request[r]
      n == Len(workflow[q.wf].steps)
  IN CASE act = "approve" /\ q.step >= n -> [q EXCEPT !.status = "approved"]
       [] act = "approve" /\ q.step < n  -> [q EXCEPT !.step = @ + 1]
       [] act = "reject"                 -> [q EXCEPT !.status = "rejected"]
       [] act = "return"                 -> [q EXCEPT !.status = "returned",
                                                      !.step = Before(@)]

\* _user_can_approve_step, and the test that the user has not acted yet.
MayAct(u, r) ==
  LET q == request[r] IN
  /\ q.step \in DOMAIN workflow[q.wf].steps
  /\ u \in workflow[q.wf].steps[q.step]
  /\ \A a \in action : ~(a.request = r /\ a.step = q.step /\ a.user = u)

\* The write-back of a decision to the document.  Of the tables it names,
\* expenses has no column status: the error aborts the transaction, the
\* audit row that follows fails, and the action is rolled back.
WriteBack(r, q) ==
  IF q.status \in {"approved", "rejected"}
  THEN /\ q.document \in Orders
       /\ document' = [document EXCEPT ![q.document] = q.status]
  ELSE UNCHANGED document

\* Mutant: the request's status is not tested.
TakeAnyTime(u, r, act, k) ==
  /\ \A a \in action : a.key # k
  /\ request[r].status # "deleted" /\ MayAct(u, r)
  /\ action' = action \cup {[key |-> k, request |-> r, step |-> request[r].step,
                             act |-> act, user |-> u]}
  /\ request' = [request EXCEPT ![r] = Outcome(r, act)]
  /\ WriteBack(r, Outcome(r, act))
  /\ UNCHANGED <<workflow, deleting, sweep, edits>>

\* take_approval_action, under the lock of the request.  A key already
\* recorded is a replay, a conflict, or an error: nothing changes.
TakeAction(u, r, act, k) ==
  /\ \A a \in action : a.key # k
  /\ request[r].status = "pending"
  /\ MayAct(u, r)
  /\ action' = action \cup {[key |-> k, request |-> r, step |-> request[r].step,
                             act |-> act, user |-> u]}
  /\ request' = [request EXCEPT ![r] = Outcome(r, act)]
  /\ WriteBack(r, Outcome(r, act))
  /\ UNCHANGED <<workflow, deleting, sweep, edits>>

\* auto_approve_below_threshold: one UPDATE, and no write-back.
AutoApprove ==
  LET small == {r \in DOMAIN request : /\ request[r].status = "pending"
                                       /\ request[r].document \in Small}
  IN /\ small # {}
     /\ request' = [r \in DOMAIN request |->
                      IF r \in small
                      THEN [request[r] EXCEPT !.status = "approved", !.auto = TRUE]
                      ELSE request[r]]
     /\ UNCHANGED <<workflow, action, document, deleting, sweep, edits>>

\* check_sla_escalations: any pending request may be overdue.
SweepRead ==
  LET due == {r \in DOMAIN request : request[r].status = "pending"}
  IN /\ sweep = {} /\ due # {} /\ sweep' = due
     /\ UNCHANGED <<workflow, request, action, document, deleting, edits>>

Escalate(r) == [request[r] EXCEPT !.status = IF @ = "deleted" THEN @ ELSE "escalated"]

SweepWrite ==
  /\ sweep # {} /\ sweep' = {}
  /\ request' = [r \in DOMAIN request |->
                   IF r \in sweep THEN Escalate(r) ELSE request[r]]
  /\ UNCHANGED <<workflow, action, document, deleting, edits>>

(***************************************************************************)
(* Purchase orders                                                         *)
(***************************************************************************)
\* convert_rfq_to_po, the one handler that commits an order.
CreateOrder(d) ==
  /\ d \in Orders /\ document[d] = "none"
  /\ document' = [document EXCEPT ![d] = "draft"]
  /\ UNCHANGED <<workflow, request, action, deleting, sweep, edits>>

\* approve_purchase_order, which knows nothing of requests.
ApproveOrder(d) ==
  /\ d \in Orders /\ document[d] = "draft"
  /\ document' = [document EXCEPT ![d] = "approved"]
  /\ UNCHANGED <<workflow, request, action, deleting, sweep, edits>>

\* receive_purchase_order, of a part or of all that is left.
ReceiveOrder(d) ==
  /\ d \in Orders /\ document[d] \in {"approved", "partial"}
  /\ \E s \in {"partial", "received"} : document' = [document EXCEPT ![d] = s]
  /\ UNCHANGED <<workflow, request, action, deleting, sweep, edits>>

Acts == {"approve", "reject", "return"}

ApprovalsNext ==
  \/ \E c \in Chains : CreateWorkflow(c)
  \/ \E w \in DOMAIN workflow, c \in Chains, active \in BOOLEAN :
       UpdateWorkflow(w, c, active)
  \/ \E w \in DOMAIN workflow : DeleteRead(w) \/ DeleteWrite(w)
  \/ \E d \in Documents : \/ CreateRequest(d) \/ CreateOrder(d)
                          \/ ApproveOrder(d) \/ ReceiveOrder(d)
  \/ \E u \in Users, r \in DOMAIN request, act \in Acts, k \in Keys :
       TakeAction(u, r, act, k)
  \/ AutoApprove \/ SweepRead \/ SweepWrite

ApprovalsSpec == ApprovalsInit /\ [][ApprovalsNext]_approvalVars

(***************************************************************************)
(* Properties                                                              *)
(***************************************************************************)
Statuses == {"pending", "approved", "rejected", "returned", "escalated", "deleted"}
OrderStatuses == {"none", "draft", "approved", "rejected", "partial", "received"}

\* The tables hold what their columns and keys allow: a key is used by one
\* action, and an action belongs to a request that has not been deleted.
ApprovalTables ==
  /\ \A w \in DOMAIN workflow :
       workflow[w] \in [steps : Chains \cup {<<>>}, active : BOOLEAN, live : BOOLEAN]
  /\ \A r \in DOMAIN request : /\ request[r].status \in Statuses
                               /\ request[r].wf \in DOMAIN workflow
                               /\ request[r].document \in Documents
                               /\ request[r].step \in Nat \ {0}
  /\ \A a, b \in action : a.key = b.key => a = b
  /\ \A a \in action : request[a.request].status # "deleted"
  /\ document \in [Documents -> OrderStatuses]
  /\ deleting \subseteq DOMAIN workflow /\ sweep \subseteq DOMAIN request

\* A request that people approved was approved at every step of the chain it
\* was made under, each time by a user that step allows, whatever the order
\* in which users act, retry, sweep and delete (take_approval_action); an
\* edit of the workflow meanwhile is the one exception.
EveryStepApproved ==
  \A r \in DOMAIN request :
    request[r].status = "approved" /\ ~request[r].auto /\ ~request[r].edited =>
      \A i \in DOMAIN request[r].asked :
        \E a \in action : /\ a.request = r /\ a.step = i /\ a.act = "approve"
                          /\ a.user \in request[r].asked[i]

\* A decision is final: a request that was approved, rejected or returned
\* keeps that status until its workflow is deleted, unless an escalation
\* sweep had read it while it was pending and writes over it.
DecisionsFinal ==
  [][\A r \in DOMAIN request :
       request[r].status \in {"approved", "rejected", "returned"} =>
         \/ request'[r].status \in {request[r].status, "deleted"}
         \/ r \in sweep]_approvalVars
=============================================================================
