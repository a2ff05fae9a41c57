----------------------------- MODULE JobPromise -----------------------------
(***************************************************************************)
(* What the bot promises the maintainers of a repository about a job,      *)
(* without workers, leases, attempts, workspaces or events.  A job plans,  *)
(* asks or proposes; an implementation starts only when a maintainer       *)
(* agrees to the plan on offer, once, and the plan agreed to never changes *)
(* afterwards; a delivery that is being published cannot be withdrawn and  *)
(* is published or found outdated; a job that ended stays as it ended.     *)
(***************************************************************************)
EXTENDS Naturals

CONSTANTS Job, IssueOf, PlanId

VARIABLES stage, offer, agreed

vars == <<stage, offer, agreed>>

NoPlan == 0

Over == {"published", "outdated", "failed", "withdrawn"}

Init ==
  /\ stage = [j \in Job |-> "unasked"]
  /\ offer = [j \in Job |-> NoPlan]
  /\ agreed = [j \in Job |-> NoPlan]

Becomes(j, from, to) ==
  /\ stage[j] \in from
  /\ stage' = [stage EXCEPT ![j] = to]

Ask(j) ==
  /\ \A k \in Job : IssueOf[k] = IssueOf[j] =>
       stage[k] \in Over \cup {"unasked"}
  /\ Becomes(j, {"unasked"}, "planning")
  /\ UNCHANGED <<offer, agreed>>

(* The planner answers with a plan: a proposal, or questions.              *)
Offer(j, n) ==
  /\ Becomes(j, {"planning"}, "proposed") \/ Becomes(j, {"planning"}, "asking")
  /\ offer' = [offer EXCEPT ![j] = n]
  /\ UNCHANGED agreed

Answer(j) ==
  /\ Becomes(j, {"asking"}, "planning")
  /\ UNCHANGED <<offer, agreed>>

Agree(j) ==
  /\ Becomes(j, {"proposed"}, "building")
  /\ offer[j] # NoPlan
  /\ agreed' = [agreed EXCEPT ![j] = offer[j]]
  /\ UNCHANGED offer

Deliver(j) ==
  /\ Becomes(j, {"building"}, "delivered")
  /\ UNCHANGED <<offer, agreed>>

BeginPublish(j) ==
  /\ Becomes(j, {"delivered"}, "publishing")
  /\ UNCHANGED <<offer, agreed>>

Publish(j) ==
  /\ Becomes(j, {"publishing"}, "published")
  /\ UNCHANGED <<offer, agreed>>

Outdate(j) ==
  /\ Becomes(j, {"proposed", "delivered", "publishing"}, "outdated")
  /\ UNCHANGED <<offer, agreed>>

Fail(j) ==
  /\ Becomes(j, {"planning", "building"}, "failed")
  /\ UNCHANGED <<offer, agreed>>

Withdraw(j) ==
  /\ Becomes(j, {"planning", "asking", "proposed", "building", "delivered"},
             "withdrawn")
  /\ UNCHANGED <<offer, agreed>>

Next ==
  \E j \in Job :
    \/ Ask(j) \/ Answer(j) \/ Agree(j) \/ Deliver(j) \/ BeginPublish(j)
    \/ Publish(j) \/ Outdate(j) \/ Fail(j) \/ Withdraw(j)
    \/ \E n \in PlanId : Offer(j, n)

Spec == Init /\ [][Next]_vars
=============================================================================
