------------------------- MODULE PatchTable_proofs -------------------------
(* Proof that the hooks implement the table PatchTable promises, for every  *)
(* instance whose patches land.  TypeOK and HookInv say what each write     *)
(* finds; added to them is that no restoring patch failed.                  *)
EXTENDS SyscallHook_proofs

RefInv == TypeOK /\ HookInv /\ stuck = {}

\* ksu_syscall_table_hook is Hook of PatchTable.
LEMMA HookRefines ==
    ASSUME PatchFaults = {}, TableType, ListInv, NEW o, RecordInv(o),
           NEW n \in Hookable, NEW fn \in Ours, TableHook(n, fn)
    PROVE  Table!Next
  <1>1. n \in Slots
    BY HookableSlots
  <1>2. Tracked' = Tracked \cup {n}
    BY TableHookInv
  <1>3. ksu_syscall_table' = [ksu_syscall_table EXCEPT ![n] = fn]
    BY DEF TableHook
  <1>4. Table!Hook(n, fn)
    BY <1>2, <1>3 DEF Table!Hook
  <1> QED
    BY <1>1, <1>4 DEF Table!Next

\* What is recorded for a slot is what the kernel had there.
LEMMA RecordedGenuine ==
    ASSUME RefInv, NEW i \in DOMAIN hooked_entries
    PROVE  /\ hooked_entries[i].nr \in Slots
           /\ hooked_entries[i].orig = Genuine(hooked_entries[i].nr)
  <1>1. hooked_entries[i] \in EntryType
    BY DEF RefInv, TypeOK, TableType
  <1>2. hooked_entries # << >> => resolved
    BY DEF RefInv, HookInv, PristineInv
  <1>3. resolved
    BY <1>2
  <1> QED
    BY <1>1, <1>3 DEF RefInv, HookInv, RecordInv, PristineInv, EntryType

\* A table without tracked slots, or with all of them restored, is the kernel's.
LEMMA AllGenuine ==
    ASSUME RefInv, \A n \in Tracked : ksu_syscall_table[n] = Genuine(n)
    PROVE  ksu_syscall_table = [n \in Slots |-> Genuine(n)]
  <1>1. \A n \in Slots : ksu_syscall_table[n] = Genuine(n)
    BY DEF RefInv, HookInv, RecordInv, PristineInv
  <1>2. ksu_syscall_table \in [Slots -> Functions]
    BY DEF RefInv, TypeOK, TableType
  <1> QED
    BY <1>1, <1>2

\* The steps of kernelsu_init hook, or leave the table alone.
LEMMA MainRefines ==
    ASSUME PatchFaults = {}, RefInv, MainStep
    PROVE  Table!Next \/ UNCHANGED <<ksu_syscall_table, Tracked>>
  <1>t. TableType /\ ListInv
    BY DEF RefInv, TypeOK, HookInv
  <1>o. /\ {"ksu_syscall_dispatcher", "ksu_direct_syscall_entry", "ksud_hook"} \subseteq Ours
        /\ NiSlots \cup KsudSlots \subseteq Hookable
    BY DEF Ours, Hookable
  <1>q. UNCHANGED tableVars => UNCHANGED <<ksu_syscall_table, Tracked>>
    BY DEF tableVars, Tracked
  <1>r. resolved => RecordInv(ksu_syscall_table_orig)
    BY DEF RefInv, HookInv
  <1>1. CASE SyscallHookInit
    <2>1. CASE \E n \in NiSlots : TableHook(n, "ksu_syscall_dispatcher")
      <3> PICK n \in NiSlots : TableHook(n, "ksu_syscall_dispatcher")
        BY <2>1
      <3>1. hooked_entries = << >> /\ \A m \in Slots : ksu_syscall_table[m] = Genuine(m)
        BY <1>1 DEF SyscallHookInit, RefInv, HookInv, PristineInv
      <3>2. RecordInv(ksu_syscall_table)
        BY <3>1 DEF RecordInv
      <3> QED
        BY <1>t, <1>o, <3>2, HookRefines
    <2> QED
      BY <1>1, <1>q, <2>1 DEF SyscallHookInit
  <1>2. CASE DirectPatchSyscalls
    <2>1. CASE resolved /\ mi \in DOMAIN Stage1
      <3>1. Stage1[mi] \in Hookable /\ TableHook(Stage1[mi], "ksu_direct_syscall_entry")
        BY <1>2, <2>1, HookableSlots DEF DirectPatchSyscalls
      <3> QED
        BY <1>t, <1>o, <1>r, <2>1, <3>1, HookRefines
    <2>2. CASE ~(resolved /\ mi \in DOMAIN Stage1)
      BY <1>2, <1>q, <2>2 DEF DirectPatchSyscalls
    <2> QED
      BY <2>1, <2>2
  <1>3. CASE \E n \in KsudSlots : KsudHook(n)
    <2> PICK n \in KsudSlots : KsudHook(n)
      BY <1>3
    <2>1. n \in Hookable /\ resolved /\ TableHook(n, "ksud_hook")
      BY <1>o DEF KsudHook
    <2> QED
      BY <1>t, <1>o, <1>r, <2>1, HookRefines
  <1>4. CASE RegisterHooks \/ RegisterTracepoint \/ ScheduleStage2 \/ LateLoaded \/ KsudReady
    BY <1>4, <1>q DEF RegisterHooks, RegisterTracepoint, ScheduleStage2, LateLoaded, KsudReady
  <1> QED
    BY <1>1, <1>2, <1>3, <1>4 DEF MainStep

\* The worker hooks, and ksud's unhook is Unhook of PatchTable.
LEMMA OtherRefines ==
    ASSUME PatchFaults = {}, RefInv, WorkerStep \/ \E n \in KsudSlots : KsudUnhook(n)
    PROVE  Table!Next \/ UNCHANGED <<ksu_syscall_table, Tracked>>
  <1>t. TableType /\ ListInv
    BY DEF RefInv, TypeOK, HookInv
  <1>q. UNCHANGED tableVars => UNCHANGED <<ksu_syscall_table, Tracked>>
    BY DEF tableVars, Tracked
  <1>1. CASE WorkerFire
    BY <1>1, <1>q DEF WorkerFire
  <1>2. CASE WorkerPatch
    <2>1. CASE wi \in DOMAIN Stage2
      <3>1. /\ Stage2[wi] \in Hookable
            /\ TableHook(Stage2[wi], "ksu_direct_syscall_entry")
            /\ RecordInv(ksu_syscall_table_orig)
        BY <1>2, <2>1, HookableSlots DEF WorkerPatch, RefInv, HookInv, PristineInv
      <3>2. "ksu_direct_syscall_entry" \in Ours
        BY DEF Ours
      <3> QED
        BY <1>t, <3>1, <3>2, HookRefines
    <2>2. CASE wi \notin DOMAIN Stage2
      BY <1>2, <1>q, <2>2 DEF WorkerPatch, tableVars
    <2> QED
      BY <2>1, <2>2
  <1>3. CASE \E n \in KsudSlots : KsudUnhook(n)
    <2> PICK n \in KsudSlots : TableUnhook(n)
      BY <1>3 DEF KsudUnhook
    <2>s. n \in Slots
      BY SlotsAssumption
    <2>1. CASE n \notin Tracked /\ UNCHANGED tableVars
      BY <1>q, <2>1
    <2>2. CASE n \in Tracked
      <3> PICK i \in DOMAIN hooked_entries :
              /\ hooked_entries[i].nr = n
              /\ ksu_syscall_table' = [ksu_syscall_table EXCEPT ![n] = hooked_entries[i].orig]
        BY <2>2 DEF TableUnhook
      <3>1. hooked_entries[i].orig = Genuine(n)
        BY RecordedGenuine
      <3>2. resolved
        BY DEF RefInv, HookInv, PristineInv
      <3>3. Tracked' = Tracked \ {n}
        BY <1>t, <2>s, <3>2, TableUnhookInv DEF RefInv, HookInv
      <3>4. Table!Unhook(n)
        BY <2>2, <2>s, <3>1, <3>3 DEF Table!Unhook
      <3> QED
        BY <2>s, <3>4 DEF Table!Next
    <2> QED
      BY <2>1, <2>2 DEF TableUnhook, Tracked
  <1> QED
    BY <1>1, <1>2, <1>3 DEF WorkerStep

\* The exit gives the slots back one by one, and forgets them when all are.
LEMMA ExitRefines ==
    ASSUME PatchFaults = {}, RefInv, BeginExit \/ ExitStep
    PROVE  Table!Next \/ UNCHANGED <<ksu_syscall_table, Tracked>>
  <1>q. UNCHANGED tableVars => UNCHANGED <<ksu_syscall_table, Tracked>>
    BY DEF tableVars, Tracked
  <1>1. CASE BeginExit \/ ExitUnregister \/ ExitLock \/ ExitClear
    BY <1>1, <1>q DEF BeginExit, ExitUnregister, ExitLock, ExitClear
  <1>2. CASE ExitRestore
    <2> DEFINE e == hooked_entries[mi]
    <2>1. /\ mi \in DOMAIN hooked_entries /\ hooked_entries' = hooked_entries
          /\ ksu_syscall_table' = [ksu_syscall_table EXCEPT ![e.nr] = e.orig]
      BY <1>2 DEF ExitRestore
    <2>2. e.nr \in Slots /\ e.orig = Genuine(e.nr) /\ e.nr \in Tracked
      BY <2>1, RecordedGenuine DEF Tracked
    <2>3. Tracked' = Tracked
      BY <2>1 DEF Tracked
    <2>4. Table!Restore(e.nr)
      BY <2>1, <2>2, <2>3 DEF Table!Restore
    <2> QED
      BY <2>2, <2>4 DEF Table!Next
  <1>3. CASE ExitUnlock
    <2>1. /\ mpc = "exit_restore" /\ mi \notin DOMAIN hooked_entries
          /\ hooked_entries' = << >> /\ ksu_syscall_table' = ksu_syscall_table
      BY <1>3 DEF ExitUnlock
    <2>2. \A i \in DOMAIN hooked_entries : i < mi
      BY <2>1 DEF RefInv, TypeOK, TableType, EnvType
    <2>3. \A i \in DOMAIN hooked_entries :
             ksu_syscall_table[hooked_entries[i].nr] = Genuine(hooked_entries[i].nr)
      BY <2>1, <2>2, RecordedGenuine DEF RefInv, HookInv, ExitInv, PristineInv
    <2>4. ksu_syscall_table = [n \in Slots |-> Genuine(n)]
      BY <2>3, AllGenuine DEF Tracked
    <2>5. Tracked' = {}
      BY <2>1 DEF Tracked
    <2>6. Table!Forget
      BY <2>1, <2>4, <2>5 DEF Table!Forget
    <2> QED
      BY <2>6 DEF Table!Next
  <1> QED
    BY <1>1, <1>2, <1>3 DEF ExitStep

\* No patch fails where none may.
LEMMA NeverStuck == PatchFaults = {} /\ stuck = {} /\ [Next]_vars => stuck' = {}
  BY DEF Next, vars, MainStep, SyscallHookInit, RegisterHooks, RegisterTracepoint,
     DirectPatchSyscalls, ScheduleStage2, LateLoaded, KsudReady, KsudHook, BeginExit,
     ExitStep, ExitUnregister, ExitLock, ExitRestore, ExitUnlock, ExitClear, WorkerStep,
     WorkerFire, WorkerPatch, OnBootCompleted, KsudUnhook, TaskStep, Fetch, RunGenuine,
     DirectSyscallEntry, SyscallDispatcher, DirectRebootEntry, PassThroughHandler,
     RunKsudHook, Call, envVars, tableVars, TableHook, TableUnhook

\* Every step of the hooks is a step of PatchTable or leaves its table alone.
LEMMA StepRefines ==
    PatchFaults = {} /\ RefInv /\ [Next]_vars
        => [Table!Next]_<<ksu_syscall_table, Tracked>>
  <1> SUFFICES ASSUME PatchFaults = {}, RefInv, [Next]_vars
               PROVE  Table!Next \/ UNCHANGED <<ksu_syscall_table, Tracked>>
    OBVIOUS
  <1>1. UNCHANGED tableVars => UNCHANGED <<ksu_syscall_table, Tracked>>
    BY DEF tableVars, Tracked
  <1>2. CASE OnBootCompleted \/ UNCHANGED vars
    BY <1>1, <1>2 DEF OnBootCompleted, vars
  <1>3. CASE \E t \in Tasks : TaskStep(t)
    BY <1>1, <1>3 DEF TaskStep, Fetch, RunGenuine, DirectSyscallEntry, SyscallDispatcher,
       DirectRebootEntry, PassThroughHandler, RunKsudHook, envVars
  <1>4. CASE \E t \in Tasks, n \in Calls, marked \in BOOLEAN, magic \in BOOLEAN :
               Call(t, n, marked, magic)
    BY <1>1, <1>4 DEF Call, envVars
  <1> QED
    BY <1>2, <1>3, <1>4, MainRefines, OtherRefines, ExitRefines DEF Next

\* The direct patching API keeps its promise in every build whose patches land:
\* each write to the table is one of PatchTable's, in which a slot given back
\* holds what the kernel had there and no patched slot is forgotten.
THEOREM PatchTableImplemented == PatchFaults = {} => (Spec => ImplementsPatchTable)
  <1> SUFFICES ASSUME PatchFaults = {} PROVE Spec => ImplementsPatchTable
    OBVIOUS
  <1>1. Init => RefInv
    BY TypeInit, HookInit DEF RefInv, Init
  <1>2. RefInv /\ [Next]_vars => RefInv'
    BY TypeNext, HookNext, NeverStuck DEF RefInv
  <1>3. Init => Table!Init
    BY DEF Init, Table!Init, Tracked
  <1>4. RefInv /\ [Next]_vars => [Table!Next]_<<ksu_syscall_table, Tracked>>
    BY StepRefines
  <1> QED
    BY <1>1, <1>2, <1>3, <1>4, PTL DEF Spec, ImplementsPatchTable, Table!Spec

=============================================================================
