---------------------------- MODULE FormalModel ----------------------------
(***************************************************************************)
(* The abstract machine of a migration that src/formal.rs checks by        *)
(* bounded enumeration (ModelState), here one for each of several          *)
(* migrations: validated, leased, then applied or aborted.  step checks    *)
(* its own result with check_invariants; the theorem Invariants of         *)
(* CertifiedMigration_proofs shows that this check never fails, so the     *)
(* actions do not carry it.                                                *)
(***************************************************************************)
EXTENDS Naturals

CONSTANTS Migrations, Owners, NoOwner, MaxEpoch   \* MaxEpoch: u64::MAX

VARIABLE state

State(phase, owner, epoch, validatedOnce) ==
    [phase |-> phase, owner |-> owner, epoch |-> epoch, validatedOnce |-> validatedOnce]

Init == state = [m \in Migrations |-> State("Draft", NoOwner, 0, FALSE)]

Validate(m) ==
    /\ state[m].phase = "Draft"
    /\ state' = [state EXCEPT ![m] = State("Validated", @.owner, @.epoch, TRUE)]

Acquire(m, o) ==
    /\ state[m].phase = "Validated" /\ state[m].epoch < MaxEpoch
    /\ state' = [state EXCEPT ![m] = State("Leased", o, @.epoch + 1, @.validatedOnce)]

\* Release, Apply and Abort give the lease back, and only its owner may.
GiveBack(m, o, next) ==
    /\ state[m].phase = "Leased" /\ state[m].owner = o
    /\ state' = [state EXCEPT ![m] = State(next, NoOwner, @.epoch, @.validatedOnce)]

Release(m, o) == GiveBack(m, o, "Validated")
Apply(m, o) == GiveBack(m, o, "Applied")
Abort(m, o) == GiveBack(m, o, "Aborted")

Next ==
    \E m \in Migrations :
        \/ Validate(m)
        \/ \E o \in Owners : Acquire(m, o) \/ Release(m, o) \/ Apply(m, o) \/ Abort(m, o)

Spec == Init /\ [][Next]_state

TypeOK ==
    state \in [Migrations ->
        [phase : {"Draft", "Validated", "Leased", "Applied", "Aborted"},
         owner : Owners \cup {NoOwner},
         epoch : 0..MaxEpoch,
         validatedOnce : BOOLEAN]]
-----------------------------------------------------------------------------
\* check_invariants: a lease has an owner exactly while it is held, only what
\* was validated leaves Draft, and what ended was leased before.
CheckInvariants ==
    \A m \in Migrations :
        /\ state[m].phase = "Leased" <=> state[m].owner # NoOwner
        /\ state[m].phase = "Draft" <=> ~state[m].validatedOnce
        /\ state[m].phase \in {"Applied", "Aborted"} => state[m].epoch > 0

\* An applied or aborted migration takes no further step
\* (docs/formal-methods.md, safety property 7).
TerminalStays ==
    [][\A m \in Migrations :
          state[m].phase \in {"Applied", "Aborted"} => state'[m] = state[m]]_state
=============================================================================
