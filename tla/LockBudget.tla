----------------------------- MODULE LockBudget -----------------------------
(***************************************************************************)
(* CredentialLock with a history of contention, to say when an acquisition *)
(* may end "busy". The history never guards a step.                        *)
(***************************************************************************)
EXTENDS CredentialLock

VARIABLE undisturbed  \* the acquisitions during which nobody else created,
                      \* wrote, touched or removed a file, and none failed

budgetVars == <<vars, undisturbed>>

Acts(a) == pc'[a] # pc[a]
FilesChange == (pc' # pc) /\ <<lock', intent'>> # <<lock, intent>>

History ==
    undisturbed' =
        {a \in Actors :
            /\ pc'[a] \notin {"idle", "inside", "dead"}
            /\ \/ pc[a] = "idle" /\ calm
               \/ a \in undisturbed /\ (Acts(a) \/ ~FilesChange)}

BudgetInit == Init /\ undisturbed = {}
BudgetSpec == BudgetInit /\ [][Next /\ History]_budgetVars /\ Fairness

\* "Busy" means contention. An acquisition that nobody disturbed never ends
\* busy: ACQUIRE_BUDGET outlives LOCK_STALE_MS, so an artifact that was there
\* from the start is stale before the budget is spent (credential-lock.ts:98).
BusyMeansContention ==
    \A a \in Actors : pc[a] = "busy" => a \notin undisturbed

=============================================================================
