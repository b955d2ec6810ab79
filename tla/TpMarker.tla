------------------------------ MODULE TpMarker ------------------------------
(* Which processes enter the kernel through the syscall tracepoints         *)
(* (hook/syscall_hook_manager.c:26-93).  The kernel sets the flag on every  *)
(* process when the first of sys_enter and sys_exit gets a probe, and       *)
(* clears it when both have lost theirs.  KernelSU wants it on its own      *)
(* processes only, as long as nobody else traces; two kretprobes, which run *)
(* after syscall_regfunc and syscall_unregfunc with tracepoints_mutex held, *)
(* correct the flags.  Tracers other than KernelSU come and go at any time  *)
(* after it was loaded.                                                     *)
EXTENDS Integers, FiniteSets

CONSTANTS
    Procs,     \* processes that may ever live
    Allowed,   \* those KernelSU marks: root, ksud, shell, granted apps
    Faults,    \* "arm": a kretprobe may fail to register
    MaxCount   \* bound: how far reg_count drifts when only one is registered

ASSUME ProcsAssumption ==
    /\ Allowed \subseteq Procs
    /\ Faults \subseteq {"arm"}
    /\ MaxCount \in Nat

Probe == {"ours", "other"}

VARIABLES
    mpc,         \* the manager: "arm", "register", "mark", "run", "destroy", "gone"
    kretprobes,  \* built with CONFIG_KRETPROBES
    reg_rp,      \* syscall_regfunc_rp is registered
    unreg_rp,    \* syscall_unregfunc_rp is registered
    probes,      \* per tracepoint: who has a probe on it
    refcount,    \* the kernel's sys_tracepoint_refcount
    reg_count,   \* ksu_tp_marker_reg_count
    handler,     \* the kretprobe handler about to run: "none", "reg", "unreg"
    alive,
    marked       \* the processes with the flag

hookVars == <<mpc, kretprobes, reg_rp, unreg_rp>>
traceVars == <<probes, refcount, reg_count, handler>>
vars == <<hookVars, traceVars, alive, marked>>

Init ==
    /\ mpc = "arm"
    /\ kretprobes \in BOOLEAN
    /\ reg_rp = FALSE /\ unreg_rp = FALSE
    /\ probes = [tp \in {"sys_enter", "sys_exit"} |-> {}]
    /\ refcount = 0 /\ reg_count = 0
    /\ handler = "none"
    /\ alive \in (SUBSET Procs) \ {{}}
    /\ marked = {}

-----------------------------------------------------------------------------
(* The kernel's tracepoints.  A step is taken with tracepoints_mutex free.  *)

\* syscall_regfunc is called for the first probe of a tracepoint.
Attach(tp, who) ==
    /\ handler = "none"
    /\ who \notin probes[tp]
    /\ probes' = [probes EXCEPT ![tp] = @ \cup {who}]
    /\ IF probes[tp] = {}
       THEN /\ refcount' = refcount + 1
            /\ marked' = IF refcount = 0 THEN alive ELSE marked
            /\ handler' = IF reg_rp THEN "reg" ELSE "none"
       ELSE UNCHANGED <<refcount, marked, handler>>
    /\ UNCHANGED <<reg_count, alive>>

\* syscall_unregfunc is called for the last one.
Detach(tp, who) ==
    /\ handler = "none"
    /\ who \in probes[tp]
    /\ probes' = [probes EXCEPT ![tp] = @ \ {who}]
    /\ IF probes[tp] = {who}
       THEN /\ refcount' = refcount - 1
            /\ marked' = IF refcount = 1 THEN {} ELSE marked
            /\ handler' = IF unreg_rp THEN "unreg" ELSE "none"
       ELSE UNCHANGED <<refcount, marked, handler>>
    /\ UNCHANGED <<reg_count, alive>>

\* A child has the flag of its parent, and its rights.
Fork(p, q) ==
    /\ p \in alive
    /\ q \notin alive
    /\ p \in Allowed <=> q \in Allowed
    /\ alive' = alive \cup {q}
    /\ marked' = IF p \in marked THEN marked \cup {q} ELSE marked
    /\ UNCHANGED <<hookVars, traceVars>>

\* Some process always lives.
Exit(p) ==
    /\ p \in alive
    /\ alive # {p}
    /\ alive' = alive \ {p}
    /\ marked' = marked \ {p}
    /\ UNCHANGED <<hookVars, traceVars>>

-----------------------------------------------------------------------------
(* The handlers *)

\* Faulty variant: processes that have exited are marked as well.
OursOnlyStale == Allowed

\* ksu_mark_running_process_locked
OursOnly == alive \cap Allowed

\* Faulty variant: no case for a second tracer.
AfterRegNoSecond == IF reg_count < 1 THEN OursOnly ELSE marked

\* While ours is installed only our processes are marked; when another
\* tracepoint is first added, all.
AfterReg ==
    IF reg_count < 1 THEN OursOnly
    ELSE IF reg_count = 1 THEN alive
    ELSE marked

SyscallRegfuncHandler ==
    /\ handler = "reg"
    /\ handler' = "none"
    /\ marked' = AfterReg
    /\ reg_count' = reg_count + 1
    /\ UNCHANGED <<hookVars, probes, refcount, alive>>

\* Faulty variants: the count is looked at before it drops, and one tracepoint
\* left is taken for none.
AfterUnregOldCount(n) ==
    IF n + 1 =< 0 THEN {} ELSE IF n + 1 = 1 THEN OursOnly ELSE marked
AfterUnregNoneLeft(n) == IF n =< 1 THEN {} ELSE marked

\* With n registrations left: none, just ours, or others.
AfterUnreg(n) == IF n =< 0 THEN {} ELSE IF n = 1 THEN OursOnly ELSE marked

\* Faulty variant: the registration is not taken back.
SyscallUnregfuncHandlerKeeps ==
    /\ handler = "unreg"
    /\ handler' = "none"
    /\ marked' = AfterUnreg(reg_count)
    /\ UNCHANGED <<hookVars, probes, refcount, reg_count, alive>>

SyscallUnregfuncHandler ==
    /\ handler = "unreg"
    /\ handler' = "none"
    /\ reg_count' = reg_count - 1
    /\ marked' = AfterUnreg(reg_count - 1)
    /\ UNCHANGED <<hookVars, probes, refcount, alive>>

-----------------------------------------------------------------------------
(* ksu_syscall_hook_manager_init and _exit *)

\* init_kretprobe twice: a failure is only logged.
ArmProbes ==
    /\ mpc = "arm"
    /\ mpc' = "register"
    /\ IF kretprobes
       THEN \/ reg_rp' = TRUE /\ unreg_rp' = TRUE
            \/ "arm" \in Faults /\ reg_rp' \in BOOLEAN /\ unreg_rp' \in BOOLEAN
       ELSE UNCHANGED <<reg_rp, unreg_rp>>
    /\ UNCHANGED <<kretprobes, traceVars, alive, marked>>

RegisterTrace ==
    /\ mpc = "register"
    /\ mpc' = IF kretprobes THEN "run" ELSE "mark"
    /\ Attach("sys_enter", "ours")
    /\ UNCHANGED <<kretprobes, reg_rp, unreg_rp>>

\* Without the kretprobes the manager marks its processes itself, once.
MarkRunning ==
    /\ mpc = "mark"
    /\ mpc' = "run"
    /\ marked' = OursOnly
    /\ UNCHANGED <<kretprobes, reg_rp, unreg_rp, traceVars, alive>>

UnregisterTrace ==
    /\ mpc = "run"
    /\ mpc' = "destroy"
    /\ Detach("sys_enter", "ours")
    /\ UNCHANGED <<kretprobes, reg_rp, unreg_rp>>

\* destroy_kretprobe twice, which waits for the handler under way.  In between
\* only tracers that leave are noticed.
DestroyKretprobes ==
    /\ mpc = "destroy"
    /\ handler = "none"
    /\ reg_rp' = FALSE
    /\ \/ reg_rp /\ UNCHANGED <<mpc, unreg_rp>>
       \/ ~reg_rp /\ mpc' = "gone" /\ unreg_rp' = FALSE
    /\ UNCHANGED <<kretprobes, traceVars, alive, marked>>

\* Other tracers, once KernelSU has its probe.
OtherTracer(tp) ==
    /\ mpc \notin {"arm", "register"}
    /\ reg_count \in (-MaxCount)..MaxCount
    /\ Attach(tp, "other") \/ Detach(tp, "other")
    /\ UNCHANGED hookVars

Next ==
    \/ ArmProbes \/ RegisterTrace \/ MarkRunning \/ UnregisterTrace \/ DestroyKretprobes
    \/ SyscallRegfuncHandler \/ SyscallUnregfuncHandler
    \/ \E tp \in DOMAIN probes : OtherTracer(tp)
    \/ \E p, q \in Procs : Fork(p, q)
    \/ \E p \in Procs : Exit(p)

Spec == Init /\ [][Next]_vars

-----------------------------------------------------------------------------
(* Properties *)

\* Every variable has its type; the kernel counts the tracepoints in use.
TypeOK ==
    /\ mpc \in {"arm", "register", "mark", "run", "destroy", "gone"}
    /\ kretprobes \in BOOLEAN /\ reg_rp \in BOOLEAN /\ unreg_rp \in BOOLEAN
    /\ probes \in [{"sys_enter", "sys_exit"} -> SUBSET Probe]
    /\ refcount = Cardinality({tp \in DOMAIN probes : probes[tp] # {}})
    /\ reg_count \in (-MaxCount - 2)..(MaxCount + 1)
    /\ handler \in {"none", "reg", "unreg"}
    /\ alive \subseteq Procs /\ marked \subseteq alive

Settled == handler = "none" /\ mpc = "run"

BothArmed == reg_rp /\ unreg_rp

\* Both kretprobes together keep count of the tracepoints in use, whatever
\* tracers come and go in whatever order.
CountInStep == Settled /\ BothArmed => reg_count = refcount

\* While its probe is registered KernelSU sees the syscalls of all its
\* processes, whatever other tracers do; only where the kretprobe of
\* syscall_unregfunc was registered alone can a leaving tracer unmark them.
OursServed ==
    mpc = "run" /\ ~(unreg_rp /\ ~reg_rp) => alive \cap Allowed \subseteq marked

\* A tracer on sys_exit that comes while ours is installed sees every process,
\* where both kretprobes are registered.
OthersServed ==
    Settled /\ BothArmed /\ "other" \in probes["sys_exit"] => marked = alive

\* The flags are corrected by both kretprobes, or by the manager itself where
\* the kernel is built without them.
Corrected == BothArmed \/ ~kretprobes

\* When nobody is on sys_exit no other process pays for the tracepoint, wherever
\* the flags are corrected.  Where CONFIG_KRETPROBES is set and one registration
\* or both fail (syscall_hook_manager.c:139-140) others may stay marked: the
\* manager's own marking (:157-159) is not compiled then.
OnlyOursMarked ==
    Settled /\ Corrected /\ probes["sys_exit"] = {} => marked \subseteq Allowed

=============================================================================
