---------------------------- MODULE SyscallHook ----------------------------
(* The KernelSU syscall hooks on an arm64 kernel: the patched syscall table *)
(* with its list of tracked entries (hook/arm64/syscall_hook.c), the hook   *)
(* manager with its two patching stages (hook/syscall_hook_manager.c), the  *)
(* ksud boot hooks that use the same API, and tasks that run syscalls       *)
(* through whatever the table holds at that moment.                         *)
(*                                                                          *)
(* A syscall number is a member of Slots, named by its syscall.  The        *)
(* genuine implementation of slot n is the value n itself; the other values *)
(* a slot can hold are named by Ours and NiSyscall.                         *)
EXTENDS Integers, Sequences, FiniteSets

CONSTANTS
    Slots,        \* the syscall numbers of the instance
    NiSlots,      \* those the kernel leaves at sys_ni_syscall
    KsudSlots,    \* those ksud hooks at boot (syscall_hook.h:41)
    KsudUnhooks,  \* those of them ksud unhooks again (syscall_hook.h:46-47)
    MaxEntries,   \* ARRAY_SIZE(hooked_entries)
    Tasks,        \* user tasks
    Calls,        \* the syscalls they invoke
    Loadable,     \* built as a module (MODULE), so that kernelsu_exit exists
    Tracepoints,  \* CONFIG_HAVE_SYSCALL_TRACEPOINTS and CONFIG_FTRACE_SYSCALLS
    PatchFaults   \* where ksu_patch_text may fail: "hook", "unhook", "exit"

\* Faulty variant: the direct build without a reboot slot.
Stage1NoReboot == <<"setresuid">>

Stage1 == <<"setresuid", "reboot">>

\* Faulty variant: fstat taken for newfstatat.
Stage2WrongNumber == <<"execve", "execveat", "fstat", "faccessat">>

Stage2 == <<"execve", "execveat", "newfstatat", "faccessat">>

Registered == {"setresuid", "reboot", "execve", "execveat", "newfstatat", "faccessat"}

\* The order in which ksu_syscall_hook_manager_exit unregisters: reboot is not there.
Unregistered == <<"setresuid", "execve", "execveat", "newfstatat", "faccessat">>

Rng(s) == {s[i] : i \in DOMAIN s}

NiSyscall == "sys_ni_syscall"

Ours == {"ksu_direct_syscall_entry", "ksu_syscall_dispatcher", "ksud_hook"}

Functions == Slots \cup Ours \cup {NiSyscall, "NULL"}

NoSlot == "none"

\* Every slot some call of ksu_syscall_table_hook can name.
Hookable == NiSlots \cup Rng(Stage1) \cup Rng(Stage2) \cup KsudSlots

ASSUME SlotsAssumption ==
    /\ NiSlots \subseteq Slots
    /\ KsudSlots \subseteq Slots
    /\ KsudUnhooks \subseteq KsudSlots
    /\ Calls \subseteq Slots
    /\ Registered \subseteq Slots
    /\ Slots \cap (Ours \cup {NiSyscall, "NULL", NoSlot, "user", "entry", "handler"}) = {}

\* Real syscalls are implemented, and ksud leaves the stage-1 slots alone.
ASSUME DisjointAssumption ==
    /\ NiSlots \cap (Registered \cup KsudSlots) = {}
    /\ KsudSlots \cap Rng(Stage1) = {}

\* One dispatcher slot, two stage-1, four stage-2 and the ksud slots fit in the array.
ASSUME CapacityAssumption ==
    /\ IsFiniteSet(Hookable)
    /\ MaxEntries \in Nat
    /\ Cardinality(Hookable) =< MaxEntries

ASSUME BuildAssumption ==
    /\ Loadable \in BOOLEAN
    /\ Tracepoints \in BOOLEAN
    /\ PatchFaults \subseteq {"hook", "unhook", "exit"}

VARIABLES
    mpc,                    \* where kernelsu_init / kernelsu_exit stands
    mi,                     \* its loop index
    ksu_late_loaded,
    ksu_boot_completed,
    resolved,               \* ksu_syscall_table is not NULL
    ksu_syscall_table,
    ksu_syscall_table_orig,
    ksu_dispatcher_nr,
    syscall_hooks,          \* the numbers that have a handler registered
    hooked_entries,
    hooked_entries_lock,    \* held over several steps (by the exit loop only)
    stuck,                  \* history: slots whose restoring patch failed
    dw,                     \* the stage-2 delayed work
    wi,                     \* its loop index
    tp,                     \* the sys_enter tracepoint is registered
    ksud,                   \* per ksud slot: "idle", "hooked", "unhooked"
    ksud_old,               \* per ksud slot: the saved original
    task                    \* per task: the syscall in progress

mainVars  == <<mpc, mi, ksu_late_loaded>>
tableVars == <<ksu_syscall_table, hooked_entries, stuck>>
fixedVars == <<resolved, ksu_syscall_table_orig, ksu_dispatcher_nr>>
workVars  == <<dw, wi>>
ksudVars  == <<ksud, ksud_old>>
vars == <<mainVars, ksu_boot_completed, fixedVars, tableVars, syscall_hooks,
          hooked_entries_lock, workVars, tp, ksudVars, task>>

Genuine(n) == IF n \in NiSlots THEN NiSyscall ELSE n

Tracked == {hooked_entries[i].nr : i \in DOMAIN hooked_entries}

Idle == [at |-> "user", nr |-> NoSlot, no |-> NoSlot, magic |-> FALSE,
         handled |-> 0, ret |-> "none"]

Init ==
    /\ mpc = "hook_init"
    /\ mi = 1
    /\ ksu_late_loaded \in {FALSE, Loadable}
    /\ ksu_boot_completed = FALSE
    /\ resolved = FALSE
    /\ ksu_syscall_table = [n \in Slots |-> Genuine(n)]
    /\ ksu_syscall_table_orig = [n \in Slots |-> "NULL"]
    /\ ksu_dispatcher_nr = NoSlot
    /\ syscall_hooks = {}
    /\ hooked_entries = << >>
    /\ hooked_entries_lock = FALSE
    /\ stuck = {}
    /\ dw = "idle"
    /\ wi = 1
    /\ tp = FALSE
    /\ ksud = [n \in KsudSlots |-> "idle"]
    /\ ksud_old = [n \in KsudSlots |-> "NULL"]
    /\ task = [t \in Tasks |-> Idle]

-----------------------------------------------------------------------------
(* The direct patching API.  Its callers are serialised by                  *)
(* hooked_entries_lock, so a call is one step taken while the lock is free. *)

\* Faulty variant: the entry is appended without looking for n first.
TrackUnchecked(n, orig) ==
    IF Len(hooked_entries) < MaxEntries
    THEN Append(hooked_entries, [nr |-> n, orig |-> orig])
    ELSE hooked_entries

Track(n, orig) ==
    IF n \notin Tracked /\ Len(hooked_entries) < MaxEntries
    THEN Append(hooked_entries, [nr |-> n, orig |-> orig])
    ELSE hooked_entries

\* ksu_syscall_table_hook: the patch may fail, and no caller is told.
TableHook(n, fn) ==
    /\ ~hooked_entries_lock
    /\ hooked_entries' = Track(n, ksu_syscall_table[n])
    /\ \/ ksu_syscall_table' = [ksu_syscall_table EXCEPT ![n] = fn]
       \/ "hook" \in PatchFaults /\ UNCHANGED ksu_syscall_table
    /\ UNCHANGED stuck

\* Faulty variant: the count drops but the last entry is not moved down.
RemoveEntryNoSwap(s, i) == SubSeq(s, 1, Len(s) - 1)

\* hooked_entries[i] = hooked_entries[--hooked_count]
RemoveEntry(s, i) == SubSeq([s EXCEPT ![i] = s[Len(s)]], 1, Len(s) - 1)

\* ksu_syscall_table_unhook: the entry goes even when the patch fails.
TableUnhook(n) ==
    /\ ~hooked_entries_lock
    /\ \/ \E i \in DOMAIN hooked_entries :
            /\ hooked_entries[i].nr = n
            /\ hooked_entries' = RemoveEntry(hooked_entries, i)
            /\ \/ /\ ksu_syscall_table' = [ksu_syscall_table EXCEPT ![n] = hooked_entries[i].orig]
                  /\ UNCHANGED stuck
               \/ /\ "unhook" \in PatchFaults
                  /\ stuck' = stuck \cup {n}
                  /\ UNCHANGED ksu_syscall_table
       \/ n \notin Tracked /\ UNCHANGED tableVars

-----------------------------------------------------------------------------
(* kernelsu_init *)

\* Faulty variant: the pristine copy is taken only once a dispatcher slot is found.
SyscallHookInitLateCopy ==
    /\ mpc = "hook_init"
    /\ mpc' = "register"
    /\ syscall_hooks' = {}
    /\ \/ UNCHANGED <<fixedVars, tableVars>>
       \/ /\ resolved' = TRUE
          /\ \/ UNCHANGED <<ksu_syscall_table_orig, ksu_dispatcher_nr, tableVars>>
             \/ \E n \in NiSlots :
                  /\ ksu_dispatcher_nr' = n
                  /\ ksu_syscall_table_orig' = ksu_syscall_table
                  /\ TableHook(n, "ksu_syscall_dispatcher")
    /\ UNCHANGED <<mi, ksu_late_loaded, ksu_boot_completed, hooked_entries_lock,
                   workVars, tp, ksudVars, task>>

\* ksu_syscall_hook_init: the pristine copy is taken before the dispatcher is
\* patched in; the dispatcher number is set whether or not that patch lands.
SyscallHookInit ==
    /\ mpc = "hook_init"
    /\ mpc' = "register"
    /\ syscall_hooks' = {}
    /\ \/ UNCHANGED <<fixedVars, tableVars>>           \* sys_call_table not found
       \/ /\ resolved' = TRUE
          /\ ksu_syscall_table_orig' = ksu_syscall_table
          /\ \/ UNCHANGED <<ksu_dispatcher_nr, tableVars>>   \* no ni_syscall slot
             \/ \E n \in NiSlots :
                  /\ ksu_dispatcher_nr' = n
                  /\ TableHook(n, "ksu_syscall_dispatcher")
    /\ UNCHANGED <<mi, ksu_late_loaded, ksu_boot_completed, hooked_entries_lock,
                   workVars, tp, ksudVars, task>>

\* Faulty variant: the registration of newfstatat is forgotten.
RegisterHooksMissing ==
    /\ mpc = "register"
    /\ mpc' = "stage1"
    /\ syscall_hooks' = syscall_hooks \cup (Registered \ {"newfstatat"})
    /\ UNCHANGED <<mi, ksu_late_loaded, ksu_boot_completed, fixedVars, tableVars,
                   hooked_entries_lock, workVars, tp, ksudVars, task>>

\* The six ksu_register_syscall_hook calls: nothing can look a handler up yet.
RegisterHooks ==
    /\ mpc = "register"
    /\ mpc' = "stage1"
    /\ syscall_hooks' = syscall_hooks \cup Registered
    /\ UNCHANGED <<mi, ksu_late_loaded, ksu_boot_completed, fixedVars, tableVars,
                   hooked_entries_lock, workVars, tp, ksudVars, task>>

\* With FTRACE_SYSCALLS the hooks are reached through sys_enter; registering may fail.
RegisterTracepoint ==
    /\ mpc = "stage1"
    /\ Tracepoints
    /\ mpc' = "schedule"
    /\ tp' \in BOOLEAN
    /\ UNCHANGED <<mi, ksu_late_loaded, ksu_boot_completed, fixedVars, tableVars,
                   syscall_hooks, hooked_entries_lock, workVars, ksudVars, task>>

\* Without it ksu_direct_patch_syscalls patches the stage-1 slots, one by one.
DirectPatchSyscalls ==
    /\ mpc = "stage1"
    /\ ~Tracepoints
    /\ IF resolved /\ mi \in DOMAIN Stage1
       THEN /\ TableHook(Stage1[mi], "ksu_direct_syscall_entry")
            /\ mi' = mi + 1
            /\ UNCHANGED mpc
       ELSE /\ mpc' = "schedule"
            /\ mi' = 1
            /\ UNCHANGED tableVars
    /\ UNCHANGED <<ksu_late_loaded, ksu_boot_completed, fixedVars, syscall_hooks,
                   hooked_entries_lock, workVars, tp, ksudVars, task>>

\* The end of ksu_syscall_hook_manager_init, in both builds.
ScheduleStage2 ==
    /\ mpc = "schedule"
    /\ mpc' = IF ksu_late_loaded THEN "late" ELSE "ksud"
    /\ dw' = IF resolved THEN "pending" ELSE dw
    /\ UNCHANGED <<mi, ksu_late_loaded, ksu_boot_completed, fixedVars, tableVars,
                   syscall_hooks, hooked_entries_lock, wi, tp, ksudVars, task>>

\* A module loaded after boot declares the boot complete itself.
LateLoaded ==
    /\ mpc = "late"
    /\ mpc' = "run"
    /\ ksu_boot_completed' = TRUE
    /\ UNCHANGED <<mi, ksu_late_loaded, fixedVars, tableVars, syscall_hooks,
                   hooked_entries_lock, workVars, tp, ksudVars, task>>

\* ksu_ksud_init hooks its slots and keeps the originals.
KsudHook(n) ==
    /\ mpc = "ksud"
    /\ ksud[n] = "idle"
    /\ resolved
    /\ TableHook(n, "ksud_hook")
    /\ ksud' = [ksud EXCEPT ![n] = "hooked"]
    /\ ksud_old' = [ksud_old EXCEPT ![n] = ksu_syscall_table[n]]
    /\ UNCHANGED <<mainVars, ksu_boot_completed, fixedVars, syscall_hooks,
                   hooked_entries_lock, workVars, tp, task>>

KsudReady ==
    /\ mpc = "ksud"
    /\ resolved => \A n \in KsudSlots : ksud[n] # "idle"
    /\ mpc' = "run"
    /\ UNCHANGED <<mi, ksu_late_loaded, ksu_boot_completed, fixedVars, tableVars,
                   syscall_hooks, hooked_entries_lock, workVars, tp, ksudVars, task>>

-----------------------------------------------------------------------------
(* After init *)

InitPhases == {"hook_init", "register", "stage1", "schedule", "late", "ksud"}

ExitPhases == {"exit_unregister", "exit_lock", "exit_restore", "exit_clear", "exited"}

\* Faulty variant: ksu_syscall_table_unhook returns without unlocking.
KsudUnhookLeaksLock(n) ==
    /\ mpc \notin InitPhases
    /\ n \in KsudUnhooks
    /\ ksud[n] = "hooked"
    /\ TableUnhook(n)
    /\ ksud' = [ksud EXCEPT ![n] = "unhooked"]
    /\ hooked_entries_lock' = TRUE
    /\ UNCHANGED <<mainVars, ksu_boot_completed, fixedVars, syscall_hooks,
                   workVars, tp, ksud_old, task>>

\* ksud unhooks a slot once its boot work is done, whenever that is.
KsudUnhook(n) ==
    /\ mpc \notin InitPhases
    /\ n \in KsudUnhooks
    /\ ksud[n] = "hooked"
    /\ TableUnhook(n)
    /\ ksud' = [ksud EXCEPT ![n] = "unhooked"]
    /\ UNCHANGED <<mainVars, ksu_boot_completed, fixedVars, syscall_hooks,
                   hooked_entries_lock, workVars, tp, ksud_old, task>>

OnBootCompleted ==
    /\ mpc = "run"
    /\ ~ksu_boot_completed
    /\ ksu_boot_completed' = TRUE
    /\ UNCHANGED <<mainVars, fixedVars, tableVars, syscall_hooks,
                   hooked_entries_lock, workVars, tp, ksudVars, task>>

\* The 90 s timer fires.  It outlasts the rest of kernelsu_init, but nothing
\* relates it to the events of the boot, and nothing cancels it on exit.
WorkerFire ==
    /\ dw = "pending"
    /\ mpc \notin {"late", "ksud"}
    /\ dw' = "running"
    /\ UNCHANGED <<mainVars, ksu_boot_completed, fixedVars, tableVars, syscall_hooks,
                   hooked_entries_lock, wi, tp, ksudVars, task>>

\* Faulty variant: the loop stops one slot early.
WorkerPatchShort ==
    /\ dw = "running"
    /\ IF wi < Len(Stage2)
       THEN /\ TableHook(Stage2[wi], "ksu_direct_syscall_entry")
            /\ wi' = wi + 1
            /\ UNCHANGED dw
       ELSE /\ dw' = "done"
            /\ UNCHANGED <<tableVars, wi>>
    /\ UNCHANGED <<mainVars, ksu_boot_completed, fixedVars, syscall_hooks,
                   hooked_entries_lock, tp, ksudVars, task>>

\* ksu_direct_patch_sucompat_syscalls, one slot after the other.
WorkerPatch ==
    /\ dw = "running"
    /\ IF wi \in DOMAIN Stage2
       THEN /\ TableHook(Stage2[wi], "ksu_direct_syscall_entry")
            /\ wi' = wi + 1
            /\ UNCHANGED dw
       ELSE /\ dw' = "done"
            /\ UNCHANGED <<tableVars, wi>>
    /\ UNCHANGED <<mainVars, ksu_boot_completed, fixedVars, syscall_hooks,
                   hooked_entries_lock, tp, ksudVars, task>>

-----------------------------------------------------------------------------
(* kernelsu_exit, in a module build *)

\* unregister_trace_sys_enter and tracepoint_synchronize_unregister: no
\* sys_enter handler is running any more.
BeginExit ==
    /\ Loadable
    /\ mpc = "run"
    /\ mpc' = "exit_unregister"
    /\ mi' = 1
    /\ tp' = FALSE
    /\ UNCHANGED <<ksu_late_loaded, ksu_boot_completed, fixedVars, tableVars,
                   syscall_hooks, hooked_entries_lock, workVars, ksudVars, task>>

ExitUnregister ==
    /\ mpc = "exit_unregister"
    /\ IF mi \in DOMAIN Unregistered
       THEN /\ syscall_hooks' = syscall_hooks \ {Unregistered[mi]}
            /\ mi' = mi + 1
            /\ UNCHANGED mpc
       ELSE /\ mpc' = IF resolved THEN "exit_lock" ELSE "exit_clear"
            /\ mi' = 1
            /\ UNCHANGED syscall_hooks
    /\ UNCHANGED <<ksu_late_loaded, ksu_boot_completed, fixedVars, tableVars,
                   hooked_entries_lock, workVars, tp, ksudVars, task>>

ExitLock ==
    /\ mpc = "exit_lock"
    /\ ~hooked_entries_lock
    /\ hooked_entries_lock' = TRUE
    /\ mpc' = "exit_restore"
    /\ UNCHANGED <<mi, ksu_late_loaded, ksu_boot_completed, fixedVars, tableVars,
                   syscall_hooks, workVars, tp, ksudVars, task>>

\* One iteration of the restoring loop: a failed patch is only logged.
ExitRestore ==
    /\ mpc = "exit_restore"
    /\ mi \in DOMAIN hooked_entries
    /\ mi' = mi + 1
    /\ LET e == hooked_entries[mi]
       IN  \/ /\ ksu_syscall_table' = [ksu_syscall_table EXCEPT ![e.nr] = e.orig]
              /\ UNCHANGED stuck
           \/ /\ "exit" \in PatchFaults
              /\ stuck' = stuck \cup {e.nr}
              /\ UNCHANGED ksu_syscall_table
    /\ UNCHANGED <<mpc, ksu_late_loaded, ksu_boot_completed, fixedVars, hooked_entries,
                   syscall_hooks, hooked_entries_lock, workVars, tp, ksudVars, task>>

\* Faulty variant: the count is reset and the lock kept.
ExitUnlockKeeps ==
    /\ mpc = "exit_restore"
    /\ mi \notin DOMAIN hooked_entries
    /\ hooked_entries' = << >>
    /\ mpc' = "exit_clear"
    /\ mi' = 1
    /\ UNCHANGED <<ksu_late_loaded, ksu_boot_completed, fixedVars, ksu_syscall_table,
                   stuck, syscall_hooks, hooked_entries_lock, workVars, tp, ksudVars, task>>

ExitUnlock ==
    /\ mpc = "exit_restore"
    /\ mi \notin DOMAIN hooked_entries
    /\ hooked_entries' = << >>
    /\ hooked_entries_lock' = FALSE
    /\ mpc' = "exit_clear"
    /\ mi' = 1
    /\ UNCHANGED <<ksu_late_loaded, ksu_boot_completed, fixedVars, ksu_syscall_table,
                   stuck, syscall_hooks, workVars, tp, ksudVars, task>>

\* ksu_syscall_table itself keeps its value, so a late worker still patches.
ExitClear ==
    /\ mpc = "exit_clear"
    /\ mpc' = "exited"
    /\ syscall_hooks' = {}
    /\ ksu_dispatcher_nr' = NoSlot
    /\ UNCHANGED <<mi, ksu_late_loaded, ksu_boot_completed, resolved,
                   ksu_syscall_table_orig, tableVars, hooked_entries_lock, workVars,
                   tp, ksudVars, task>>

-----------------------------------------------------------------------------
(* A syscall of a task.  "at" is where it stands: in user space, between    *)
(* sys_enter and the table lookup ("entry"), in the function it is about to *)
(* run, or in a registered handler.  "nr" is x8, "no" is regs->syscallno.   *)

\* A built-in KernelSU is initialised before the first user process exists.
Userspace == Loadable \/ mpc = "run"

envVars == <<mainVars, ksu_boot_completed, fixedVars, tableVars, syscall_hooks,
             hooked_entries_lock, workVars, tp, ksudVars>>

\* Faulty variant: redirected whether or not a handler is registered.
RedirectsAll(n, marked) == tp /\ marked /\ ksu_dispatcher_nr # NoSlot

\* ksu_sys_enter_handler redirects a marked task whose syscall has a handler.
Redirects(n, marked) ==
    /\ tp
    /\ marked
    /\ ksu_dispatcher_nr # NoSlot
    /\ n \in syscall_hooks

Call(t, n, marked, magic) ==
    /\ Userspace
    /\ task[t].at = "user"
    /\ magic => n = "reboot"
    /\ task' = [task EXCEPT ![t] =
         [Idle EXCEPT !.at = "entry", !.nr = n, !.magic = magic,
                      !.no = IF Redirects(n, marked) THEN ksu_dispatcher_nr ELSE n]]
    /\ UNCHANGED envVars

\* The kernel reads the slot and enters the function found there.
Fetch(t) ==
    /\ task[t].at = "entry"
    /\ task' = [task EXCEPT ![t].at = ksu_syscall_table[task[t].no]]
    /\ UNCHANGED envVars

Return(t, ret) == task' = [task EXCEPT ![t].at = "user", ![t].ret = ret]

\* The kernel's own implementation of the slot.
RunGenuine(t) ==
    /\ \/ task[t].at \in Slots /\ Return(t, "done")
       \/ task[t].at = NiSyscall /\ Return(t, "ENOSYS")
    /\ UNCHANGED envVars

DirectSyscallEntry(t) ==
    /\ task[t].at = "ksu_direct_syscall_entry"
    /\ IF task[t].no \in syscall_hooks
       THEN task' = [task EXCEPT ![t].at = "handler"]
       ELSE Return(t, "ENOSYS")
    /\ UNCHANGED envVars

\* A call of the dispatcher's own number is spurious; a redirected one gets
\* its registers back before its handler is looked up.
SyscallDispatcher(t) ==
    /\ task[t].at = "ksu_syscall_dispatcher"
    /\ IF task[t].no # ksu_dispatcher_nr \/ task[t].no = task[t].nr
       THEN Return(t, "ENOSYS")
       ELSE IF task[t].nr \in syscall_hooks
            THEN task' = [task EXCEPT ![t].at = "handler", ![t].no = task[t].nr]
            ELSE task' = [task EXCEPT ![t].at = "user", ![t].no = task[t].nr, ![t].ret = "ENOSYS"]
    /\ UNCHANGED envVars

\* Faulty variant: the live table, where the hook itself may stand.
OriginalLive(n) == ksu_syscall_table[n]

\* What a handler calls when it lets the syscall through: the pristine copy.
Original(n) == ksu_syscall_table_orig[n]

\* ksu_direct_reboot_entry answers the install magic itself.
DirectRebootEntry(t) ==
    /\ task[t].at = "handler"
    /\ task[t].nr = "reboot"
    /\ task' = [task EXCEPT ![t].handled = @ + 1,
                            ![t].at  = IF task[t].magic THEN "user" ELSE Original("reboot"),
                            ![t].ret = IF task[t].magic THEN "fd queued" ELSE @]
    /\ UNCHANGED envVars

\* The five other handlers do their work and run the original.
PassThroughHandler(t) ==
    /\ task[t].at = "handler"
    /\ task[t].nr # "reboot"
    /\ task' = [task EXCEPT ![t].handled = @ + 1, ![t].at = Original(task[t].nr)]
    /\ UNCHANGED envVars

RunKsudHook(t) ==
    /\ task[t].at = "ksud_hook"
    /\ task' = [task EXCEPT ![t].at = ksud_old[task[t].no]]
    /\ UNCHANGED envVars

-----------------------------------------------------------------------------
MainStep ==
    \/ SyscallHookInit \/ RegisterHooks \/ RegisterTracepoint \/ DirectPatchSyscalls
    \/ ScheduleStage2 \/ LateLoaded \/ KsudReady
    \/ \E n \in KsudSlots : KsudHook(n)

ExitStep ==
    \/ ExitUnregister \/ ExitLock \/ ExitRestore \/ ExitUnlock \/ ExitClear

WorkerStep == WorkerFire \/ WorkerPatch

TaskStep(t) ==
    \/ Fetch(t) \/ RunGenuine(t) \/ DirectSyscallEntry(t) \/ SyscallDispatcher(t)
    \/ DirectRebootEntry(t) \/ PassThroughHandler(t) \/ RunKsudHook(t)

Next ==
    \/ MainStep
    \/ BeginExit
    \/ ExitStep
    \/ WorkerStep
    \/ OnBootCompleted
    \/ \E n \in KsudSlots : KsudUnhook(n)
    \/ \E t \in Tasks : TaskStep(t)
    \/ \E t \in Tasks, n \in Calls, marked \in BOOLEAN, magic \in BOOLEAN :
         Call(t, n, marked, magic)

Spec == Init /\ [][Next]_vars

\* The init and exit threads keep running, the timer fires and its worker
\* is scheduled.  No task is obliged to call, ksud to unhook, or anybody to
\* unload the module.
FairSpec == Spec /\ WF_vars(MainStep) /\ WF_vars(ExitStep) /\ WF_vars(WorkerStep)

-----------------------------------------------------------------------------
(* Properties *)

EntryType == [nr : Slots, orig : Functions]

\* The functions slot n may hold: its own, or the hook meant for such a slot.
CanHold(n, fn) ==
    \/ fn = Genuine(n)
    \/ fn = "ksu_syscall_dispatcher" /\ n \in NiSlots
    \/ fn = "ksu_direct_syscall_entry" /\ n \in Registered
    \/ fn = "ksud_hook" /\ n \in KsudSlots

TableType ==
    /\ ksu_syscall_table \in [Slots -> Functions]
    /\ \A n \in Slots : CanHold(n, ksu_syscall_table[n])
    /\ hooked_entries \in Seq(EntryType)
    /\ \A i \in DOMAIN hooked_entries : CanHold(hooked_entries[i].nr, hooked_entries[i].orig)
    /\ stuck \subseteq Slots

EnvType ==
    /\ mpc \in InitPhases \cup {"run"} \cup ExitPhases
    /\ mi \in Nat \ {0}
    /\ ksu_late_loaded \in BOOLEAN
    /\ ksu_boot_completed \in BOOLEAN
    /\ resolved \in BOOLEAN
    /\ ksu_syscall_table_orig \in [Slots -> Functions]
    /\ \A n \in Slots : ksu_syscall_table_orig[n] = "NULL" \/ CanHold(n, ksu_syscall_table_orig[n])
    /\ ksu_dispatcher_nr \in NiSlots \cup {NoSlot}
    /\ syscall_hooks \subseteq Registered
    /\ hooked_entries_lock \in BOOLEAN
    /\ dw \in {"idle", "pending", "running", "done"}
    /\ wi \in Nat \ {0}
    /\ tp \in BOOLEAN
    /\ ksud \in [KsudSlots -> {"idle", "hooked", "unhooked"}]
    /\ ksud_old \in [KsudSlots -> Functions]
    /\ \A n \in KsudSlots : ksud_old[n] = "NULL" \/ CanHold(n, ksud_old[n])

SyscallType ==
    [at : {"user", "entry", "handler"} \cup Functions,
     nr : Slots \cup {NoSlot}, no : Slots \cup {NoSlot}, magic : BOOLEAN,
     handled : Nat, ret : {"none", "done", "ENOSYS", "fd queued"}]

\* A syscall in progress is in a function its slot may hold, and was
\* redirected, if at all, to an unimplemented slot.
InProgress(c) ==
    /\ c.nr \in Slots /\ c.no \in Slots
    /\ c.no # c.nr => c.no \in NiSlots
    /\ \/ c.at \in {"entry", "NULL"}
       \/ c.at = "handler" /\ c.no = c.nr
       \/ CanHold(c.no, c.at)

TasksType ==
    /\ task \in [Tasks -> SyscallType]
    /\ \A t \in Tasks : task[t].at # "user" => InProgress(task[t])

\* Every variable has its type; in particular a slot, a recorded original and a
\* running syscall only ever hold a function that belongs to that slot.
TypeOK == TableType /\ EnvType /\ TasksType

\* Whatever order ksud, the two stages and the exit hook and unhook in, the
\* original recorded for a slot is the kernel's own function and never a hook
\* found there (the "found" check and the removal of entries in
\* ksu_syscall_table_hook and _unhook); only a slot whose restoring patch
\* failed before can have a wrong record.
TrackedOrigPristine ==
    \A i \in DOMAIN hooked_entries :
        hooked_entries[i].nr \notin stuck =>
            hooked_entries[i].orig = ksu_syscall_table_orig[hooked_entries[i].nr]

\* A slot that does not hold the kernel's function can be restored: it has an
\* entry in hooked_entries, unless a restoring patch failed on it.
PatchedTracked ==
    resolved =>
        \A n \in Slots :
            ksu_syscall_table[n] # ksu_syscall_table_orig[n] => n \in Tracked \cup stuck

\* Until an unload begins, a syscall the kernel implements never answers ENOSYS
\* because of the hooks: no interleaving of stage 1, stage 2, the ksud hooks and
\* the tracepoint makes a patched slot or a redirection reach a missing handler.
NoLostSyscall ==
    mpc \notin ExitPhases =>
        \A t \in Tasks : task[t].ret = "ENOSYS" => task[t].nr \in NiSlots

\* One syscall runs one handler once: letting the syscall through never comes
\* back into a patched slot (the pristine copy, syscall_hook.c:14-16), not even
\* where the tracepoint and a stage-2 patch both catch the same number.
HandledOnce == \A t \in Tasks : task[t].handled =< 1

\* No task ever calls through a null original, neither the pristine copy of a
\* table without a dispatcher slot nor the original ksud saved.
NoNullCall == \A t \in Tasks : task[t].at # "NULL"

\* In the kprobe-free build the install magic never reaches the kernel's
\* reboot (supercall.c:136-139), whenever the caller enters.
MagicNeverReboots ==
    \A t \in Tasks : resolved /\ task[t].magic => task[t].at # "reboot"

\* Once the syscall table is found, su redirection is eventually in place in
\* every stage-2 slot and stays there, the ksud hooks and unhooks of the same
\* table notwithstanding.
Stage2Installed ==
    <>resolved =>
        <>[](\A n \in Rng(Stage2) : ksu_syscall_table[n] = "ksu_direct_syscall_entry")

\* When the exit releases hooked_entries_lock, the table is the kernel's own
\* again in every slot whose restoring patch did not fail.
RestoredByExit ==
    [][hooked_entries_lock /\ ~hooked_entries_lock' =>
        \A n \in Slots \ stuck : ksu_syscall_table'[n] = ksu_syscall_table_orig[n]]_vars

\* Unloading finishes, whoever else takes hooked_entries_lock on the way.
ExitCompletes == mpc = "exit_unregister" ~> mpc = "exited"

\* The stage-2 worker finishes, even when the exit holds the lock meanwhile.
WorkerCompletes == dw = "running" ~> dw = "done"

\* A build whose patches land gives its callers the table PatchTable
\* promises: however ksud, the stages and the exit interleave, an unhook and
\* the exit write back what the kernel had, and nothing patched is forgotten.
Table == INSTANCE PatchTable WITH
    table <- ksu_syscall_table, tracked <- Tracked,
    Hooks <- Ours, Pristine <- [n \in Slots |-> Genuine(n)]

ImplementsPatchTable == Table!Spec

-----------------------------------------------------------------------------
(* What the comments of the code say, checked by a run that expects a       *)
(* violation.                                                               *)

\* syscall_hook.h:39-40 and init.c:194: exit restores what was hooked and no
\* hook comes after it.
RestoredAfterExit ==
    mpc = "exited" /\ resolved => ksu_syscall_table = ksu_syscall_table_orig

=============================================================================
