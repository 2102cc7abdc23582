-------------------------- MODULE PlanCertificate --------------------------
(***************************************************************************)
(* src/plan_safety/certificate.rs: a plan is cut into waves of             *)
(* adjacent steps that borrow the database without conflict.  The          *)
(* operators; module CertifiedMigration runs the loop of certify_plan.     *)
(***************************************************************************)
EXTENDS PlanBorrows

\* Step numbers start at 0, as in the code; positions in a sequence at 1.
BorrowedStep(index, change) ==
    [index |-> index, borrows |-> ChangeBorrows(change.op, change.on)]

StepsConflict(left, right) == Conflict(left.borrows, right.borrows)

\* Mutant: the step is compared with the last one of the wave only.
ConflictsWithLast(step, others) ==
    others # <<>> /\ StepsConflict(step, others[Len(others)])

StepConflictsWithAny(step, others) ==
    \E i \in DOMAIN others : StepsConflict(step, others[i])

\* check_parallel_steps
CheckParallel(steps) ==
    \A i, j \in DOMAIN steps : i < j => ~StepsConflict(steps[i], steps[j])

Wave(index, steps) == [index |-> index, steps |-> steps]

\* The number of the first step of wave w: validate's next_index.
NextIndexAt(waves, w) ==
    IF w = 1 THEN 0
    ELSE LET before == waves[w - 1].steps IN before[Len(before)].index + 1

\* PlanCertificate::validate of the waves of a plan of count changes: the
\* waves are numbered, none is empty or has a conflict, and their steps are
\* the changes, in their order.
Validates(waves, count) ==
    /\ \A w \in DOMAIN waves :
           /\ waves[w].index = w - 1
           /\ waves[w].steps # <<>>
           /\ CheckParallel(waves[w].steps)
           /\ \A i \in DOMAIN waves[w].steps :
                  waves[w].steps[i].index = NextIndexAt(waves, w) + i - 1
    /\ count = NextIndexAt(waves, Len(waves) + 1)
=============================================================================
