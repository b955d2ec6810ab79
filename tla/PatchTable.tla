----------------------------- MODULE PatchTable -----------------------------
(* What the direct patching API promises its callers (hook/syscall_hook.h:  *)
(* 37-47): a table of functions whose slots are patched and given back in   *)
(* any order, with no record of anything but which slots are patched.  A    *)
(* slot given back holds what it held before KernelSU came.                 *)
CONSTANTS
    Slots,
    Hooks,    \* the functions a slot may be patched with
    Pristine  \* what each slot held before

VARIABLES
    table,
    tracked   \* the slots to be given back

Init ==
    /\ table = Pristine
    /\ tracked = {}

\* ksu_syscall_table_hook: a slot may be patched over.
Hook(n, fn) ==
    /\ table' = [table EXCEPT ![n] = fn]
    /\ tracked' = tracked \cup {n}

\* ksu_syscall_table_unhook
Unhook(n) ==
    /\ n \in tracked
    /\ table' = [table EXCEPT ![n] = Pristine[n]]
    /\ tracked' = tracked \ {n}

\* An unload gives the slots back one by one and forgets them together.
Restore(n) ==
    /\ n \in tracked
    /\ table' = [table EXCEPT ![n] = Pristine[n]]
    /\ UNCHANGED tracked

Forget ==
    /\ table = Pristine
    /\ tracked' = {}
    /\ UNCHANGED table

Next ==
    \/ \E n \in Slots : Unhook(n) \/ Restore(n) \/ \E fn \in Hooks : Hook(n, fn)
    \/ Forget

Spec == Init /\ [][Next]_<<table, tracked>>

=============================================================================
