------------------------------ MODULE Delivery ------------------------------
(***************************************************************************)
(* What the Runtime and a Case promise each other about the jobs of the    *)
(* case: each outcome is taken exactly once, by the step that writes its   *)
(* receipt, or acknowledged without effect if the case does not wait for   *)
(* it any more.  Deliveries may be repeated, overtake each other and fail; *)
(* none of that is visible here.  CaseJobs implements this.                *)
(***************************************************************************)
CONSTANT Job

VARIABLES
    wish,       \* what the case wants of a job: "none" before it is issued,
                \* "wanted", "taken" with its effect, "dropped" without
    outcome,    \* jobs with a durable outcome to deliver
    receipt     \* jobs whose delivery is over

vars == <<wish, outcome, receipt>>

Wish == {"none", "wanted", "taken", "dropped"}

Init ==
    /\ wish = [j \in Job |-> "none"]
    /\ outcome = {} /\ receipt = {}

\* The case may issue jobs and stop waiting for others in any step.
MayBecome(w) ==
    CASE w = "none"   -> {"none", "wanted"}
      [] w = "wanted" -> {"wanted", "dropped"}
      [] OTHER        -> {w}

OthersMove(j) == \A k \in Job \ {j} : wish'[k] \in MayBecome(wish[k])

\* A command, or an answer that is not about a job.
Decide ==
    /\ UNCHANGED <<outcome, receipt>>
    /\ wish' \in [Job -> Wish]
    /\ \A k \in Job : wish'[k] \in MayBecome(wish[k])

\* The Runtime has the outcome of a job the case has issued.
End(j) ==
    /\ wish[j] # "none" /\ j \notin outcome
    /\ outcome' = outcome \cup {j}
    /\ UNCHANGED <<wish, receipt>>

\* The effect, the receipt and the orders that follow from it are one step.
Take(j) ==
    /\ wish[j] = "wanted"
    /\ wish' \in [Job -> Wish]
    /\ wish'[j] = "taken" /\ OthersMove(j)
    /\ receipt' = receipt \cup {j}
    /\ UNCHANGED outcome

\* An outcome that came too late, perhaps found so by this step.
Acknowledge(j) ==
    /\ wish[j] \in {"wanted", "dropped"}
    /\ wish' \in [Job -> Wish]
    /\ wish'[j] = "dropped" /\ OthersMove(j)
    /\ receipt' = receipt \cup {j}
    /\ UNCHANGED outcome

Next ==
    \/ Decide
    \/ \E j \in Job : End(j)
    \/ \E j \in outcome \ receipt : Take(j) \/ Acknowledge(j)

Spec == Init /\ [][Next]_vars
=============================================================================
