--------------------------- MODULE RefundLifecycle ---------------------------
(***************************************************************************)
(* What the downgrade promises about each planned refund: it is paid at    *)
(* most once and only after the plan it refunds has ended; its status      *)
(* moves in one direction, and only a refund given up may still turn out   *)
(* approved.                                                               *)
(***************************************************************************)
CONSTANT Refunds

VARIABLES
  status,  \* none, queued, failed, or what the provider says
  ended,   \* refunds whose plan has ended
  paid     \* refunds the provider made

lifecycleVars == <<status, ended, paid>>

LifecycleInit == status = [r \in Refunds |-> "none"] /\ ended = {} /\ paid = {}

\* A plan is written for refunds of a running subscription, or of one that has
\* ended since it was read.
Plan(S) ==
  /\ \A r \in S : status[r] = "none"
  /\ status' = [r \in Refunds |-> IF r \in S THEN "queued" ELSE status[r]]
  /\ ended' \in {ended, ended \cup S}
  /\ UNCHANGED paid

EndPlan(S) ==
  /\ S \cap ended = {}
  /\ ended' = ended \cup S
  /\ UNCHANGED <<status, paid>>

\* The caller may not hear that the refund was made.
Pay(r) ==
  /\ status[r] = "queued" /\ r \in ended \ paid
  /\ paid' = paid \cup {r}
  /\ status' \in {status, [status EXCEPT ![r] = "failed"]}
  /\ UNCHANGED ended

GiveUp(r) ==
  /\ status[r] = "queued"
  /\ status' = [status EXCEPT ![r] = "failed"]
  /\ UNCHANGED <<ended, paid>>

Reports(s) ==
  CASE s = "queued"    -> {"initiated", "approved", "rejected", "reversed"}
    [] s = "initiated" -> {"approved", "rejected", "reversed"}
    [] s = "approved"  -> {"reversed"}
    [] s = "failed"    -> {"approved"}
    [] OTHER           -> {}

Report(r) ==
  /\ r \in paid
  /\ \E s \in Reports(status[r]) : status' = [status EXCEPT ![r] = s]
  /\ UNCHANGED <<ended, paid>>

LifecycleNext == \/ \E S \in SUBSET Refunds : Plan(S) \/ EndPlan(S)
                 \/ \E r \in Refunds : Pay(r) \/ GiveUp(r) \/ Report(r)

LifecycleSpec == LifecycleInit /\ [][LifecycleNext]_lifecycleVars
=============================================================================
