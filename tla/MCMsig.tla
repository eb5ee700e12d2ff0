------------------------------- MODULE MCMsig -------------------------------
(***************************************************************************)
(* Two accounts, one of which has two levels, and two transactions: one    *)
(* that expires before the other, and one that waits before it is run.     *)
(***************************************************************************)
EXTENDS Msig, FiniteSets

CONSTANTS ann, bo, ann_active, ann_owner, bo_active, now_due, late_due

MCAccounts == {ann, bo}
MCLevels == {ann_active, ann_owner, bo_active}
MCActor == [l \in MCLevels |-> IF l = bo_active THEN bo ELSE ann]
MCProposer == [p \in Names |-> ann]
MCTrxs == {now_due, late_due}
MCExpiration == [t \in MCTrxs |-> IF t = now_due THEN 0 ELSE 1]
MCDelay == [t \in MCTrxs |-> IF t = now_due THEN 0 ELSE 1]

\* Both accounts must have approved, with any of their levels.
Both(trx, levels) == bo_active \in levels /\ levels \cap {ann_active, ann_owner} # {}
=============================================================================
