------------------------ MODULE SyscallHook_proofs --------------------------
(* Proofs about SyscallHook for every set of slots, tasks and patch faults: *)
(* type correctness, that every patched slot can be restored, that no       *)
(* syscall is lost, how far the late stage-2 worker reaches, and that what  *)
(* stage 2 installed stays.                                                 *)
EXTENDS SyscallHook, FiniteSetTheorems, TLAPS

-----------------------------------------------------------------------------
(* The constants *)

\* The slots the hook manager names are registered ones.
LEMMA StageSlots ==
    /\ \A i \in DOMAIN Stage1 : Stage1[i] \in Registered
    /\ \A i \in DOMAIN Stage2 : Stage2[i] \in Registered
  BY DEF Stage1, Stage2, Registered

\* Whatever ksu_syscall_table_hook is called for is a slot.
LEMMA HookableSlots ==
    /\ Hookable \subseteq Slots
    /\ \A i \in DOMAIN Stage1 : Stage1[i] \in Hookable
    /\ \A i \in DOMAIN Stage2 : Stage2[i] \in Hookable
  BY SlotsAssumption, StageSlots DEF Hookable, Rng

-----------------------------------------------------------------------------
(* Type correctness *)

\* Hooking a slot with a function meant for it keeps the types of the table,
\* the list and the history.
LEMMA TableHookType ==
    ASSUME TableType, NEW n \in Slots, NEW fn \in Functions, CanHold(n, fn), TableHook(n, fn)
    PROVE  TableType'
  <1>1. ksu_syscall_table[n] \in Functions /\ CanHold(n, ksu_syscall_table[n])
    BY DEF TableType
  <1> DEFINE e == [nr |-> n, orig |-> ksu_syscall_table[n]]
  <1>2. e \in EntryType /\ CanHold(e.nr, e.orig)
    BY <1>1 DEF EntryType
  <1>3. /\ hooked_entries' \in Seq(EntryType)
        /\ \A i \in DOMAIN hooked_entries' :
             CanHold(hooked_entries'[i].nr, hooked_entries'[i].orig)
    <2>1. CASE hooked_entries' = hooked_entries
      BY <2>1 DEF TableType
    <2>2. CASE hooked_entries' = Append(hooked_entries, e)
      <3> HIDE DEF e
      <3>1. /\ hooked_entries' \in Seq(EntryType)
            /\ Len(hooked_entries') = Len(hooked_entries) + 1
            /\ \A i \in 1 .. Len(hooked_entries) : hooked_entries'[i] = hooked_entries[i]
            /\ hooked_entries'[Len(hooked_entries) + 1] = e
        BY <2>2, <1>2 DEF TableType
      <3> QED
        BY <3>1, <1>2 DEF TableType
    <2> QED
      BY <2>1, <2>2 DEF TableHook, Track
  <1>4. /\ ksu_syscall_table' \in [Slots -> Functions]
        /\ \A m \in Slots : CanHold(m, ksu_syscall_table'[m])
    BY DEF TableHook, TableType
  <1> QED
    BY <1>3, <1>4 DEF TableHook, TableType, CanHold, Genuine

\* Removing an entry by swapping it with the last one leaves a list of entries.
LEMMA RemoveEntryType ==
    ASSUME NEW S, NEW s \in Seq(S), NEW i \in DOMAIN s
    PROVE  /\ RemoveEntry(s, i) \in Seq(S)
           /\ Len(RemoveEntry(s, i)) = Len(s) - 1
           /\ \A j \in 1 .. Len(s) - 1 :
                RemoveEntry(s, i)[j] = IF j = i THEN s[Len(s)] ELSE s[j]
  <1> DEFINE e == [s EXCEPT ![i] = s[Len(s)]]
  <1>1. /\ Len(s) \in Nat /\ Len(s) >= 1
        /\ DOMAIN s = 1 .. Len(s)
        /\ s[Len(s)] \in S
    OBVIOUS
  <1>2. e \in Seq(S) /\ Len(e) = Len(s)
    BY <1>1
  <1>3. \A j \in 1 .. Len(s) : e[j] = IF j = i THEN s[Len(s)] ELSE s[j]
    BY <1>1
  <1> HIDE DEF e
  <1>4. /\ SubSeq(e, 1, Len(s) - 1) \in Seq(S)
        /\ Len(SubSeq(e, 1, Len(s) - 1)) = Len(s) - 1
        /\ \A j \in 1 .. Len(s) - 1 : SubSeq(e, 1, Len(s) - 1)[j] = e[j]
    BY <1>1, <1>2
  <1> QED
    BY <1>1, <1>3, <1>4 DEF RemoveEntry, e

\* Unhooking a slot keeps the same types.
LEMMA TableUnhookType ==
    ASSUME TableType, NEW n \in Slots, TableUnhook(n)
    PROVE  TableType'
  <1>1. CASE n \notin Tracked /\ UNCHANGED tableVars
    BY <1>1 DEF TableType, tableVars
  <1>2. ASSUME NEW i \in DOMAIN hooked_entries,
               hooked_entries[i].nr = n,
               hooked_entries' = RemoveEntry(hooked_entries, i),
               \/ /\ ksu_syscall_table' = [ksu_syscall_table EXCEPT ![n] = hooked_entries[i].orig]
                  /\ UNCHANGED stuck
               \/ /\ stuck' = stuck \cup {n}
                  /\ UNCHANGED ksu_syscall_table
        PROVE  TableType'
    <2>1. /\ hooked_entries' \in Seq(EntryType)
          /\ \A j \in DOMAIN hooked_entries' : \E k \in DOMAIN hooked_entries :
               hooked_entries'[j] = hooked_entries[k]
      <3>1. /\ Len(hooked_entries) \in Nat
            /\ DOMAIN hooked_entries = 1 .. Len(hooked_entries)
            /\ hooked_entries \in Seq(EntryType)
        BY DEF TableType
      <3>2. /\ hooked_entries' \in Seq(EntryType)
            /\ Len(hooked_entries') = Len(hooked_entries) - 1
            /\ \A j \in 1 .. Len(hooked_entries) - 1 : hooked_entries'[j] =
                 IF j = i THEN hooked_entries[Len(hooked_entries)] ELSE hooked_entries[j]
        BY <1>2, <3>1, RemoveEntryType
      <3> QED
        BY <3>1, <3>2
    <2>2. hooked_entries[i] \in EntryType
      BY DEF TableType
    <2>3. hooked_entries[i].orig \in Functions /\ CanHold(n, hooked_entries[i].orig)
      BY <1>2, <2>2 DEF EntryType, TableType
    <2>4. \A j \in DOMAIN hooked_entries' :
             CanHold(hooked_entries'[j].nr, hooked_entries'[j].orig)
      BY <2>1 DEF TableType
    <2>5. /\ ksu_syscall_table' \in [Slots -> Functions]
          /\ \A m \in Slots : CanHold(m, ksu_syscall_table'[m])
      BY <1>2, <2>3 DEF TableType
    <2> QED
      BY <1>2, <2>1, <2>4, <2>5 DEF TableType, CanHold, Genuine
  <1> QED
    BY <1>1, <1>2 DEF TableUnhook

\* The initial state is typed.
LEMMA TypeInit == Init => TypeOK
  <1> SUFFICES ASSUME Init PROVE TypeOK
    OBVIOUS
  <1>1. TableType
    BY DEF Init, TableType, EntryType, CanHold, Genuine, Functions
  <1>2. EnvType
    <2>1. ksu_late_loaded \in BOOLEAN
      BY BuildAssumption DEF Init
    <2>2. FALSE \in BOOLEAN /\ 1 \in Nat \ {0}
      OBVIOUS
    <2> QED
      BY <2>1, <2>2 DEF Init, EnvType, InitPhases, Functions
  <1>3. TasksType
    BY DEF Init, TasksType, SyscallType, Idle
  <1> QED
    BY <1>1, <1>2, <1>3 DEF TypeOK

\* kernelsu_init keeps the types.
LEMMA TypeMainStep == TypeOK /\ MainStep => TypeOK'
  <1> SUFFICES ASSUME TypeOK, MainStep PROVE TableType' /\ EnvType' /\ TasksType'
    BY DEF TypeOK
  <1>t. TableType /\ EnvType /\ TasksType
    BY DEF TypeOK
  <1>o. Ours \subseteq Functions
    BY DEF Functions
  <1>1. CASE SyscallHookInit
    <2>1. EnvType' /\ TasksType'
      BY <1>1, <1>t, SlotsAssumption DEF SyscallHookInit, EnvType, TasksType, TableType,
         fixedVars, workVars, ksudVars, InitPhases
    <2>2. CASE UNCHANGED tableVars
      BY <2>1, <2>2, <1>t DEF TableType, tableVars
    <2>3. CASE \E n \in NiSlots : TableHook(n, "ksu_syscall_dispatcher")
      <3> PICK n \in NiSlots : TableHook(n, "ksu_syscall_dispatcher")
        BY <2>3
      <3>1. n \in Slots /\ CanHold(n, "ksu_syscall_dispatcher")
        BY SlotsAssumption DEF CanHold
      <3>2. "ksu_syscall_dispatcher" \in Functions
        BY <1>o DEF Ours
      <3> QED
        BY <2>1, <3>1, <3>2, <1>t, TableHookType
    <2> QED
      BY <1>1, <2>2, <2>3 DEF SyscallHookInit
  <1>2. CASE RegisterHooks
    BY <1>2, <1>t, SlotsAssumption DEF RegisterHooks, EnvType, TasksType, TableType,
       tableVars, fixedVars, workVars, ksudVars, InitPhases
  <1>3. CASE RegisterTracepoint
    BY <1>3, <1>t DEF RegisterTracepoint, EnvType, TasksType, TableType, tableVars,
       fixedVars, workVars, ksudVars, InitPhases
  <1>4. CASE DirectPatchSyscalls
    <2>1. EnvType' /\ TasksType'
      BY <1>4, <1>t DEF DirectPatchSyscalls, EnvType, TasksType, fixedVars, workVars,
         ksudVars, InitPhases
    <2>2. CASE UNCHANGED tableVars
      BY <2>1, <2>2, <1>t DEF TableType, tableVars
    <2>3. CASE mi \in DOMAIN Stage1 /\ TableHook(Stage1[mi], "ksu_direct_syscall_entry")
      <3>1. Stage1[mi] \in Slots /\ CanHold(Stage1[mi], "ksu_direct_syscall_entry")
        BY <2>3, StageSlots, SlotsAssumption DEF CanHold
      <3>2. "ksu_direct_syscall_entry" \in Functions
        BY DEF Functions, Ours
      <3> QED
        BY <2>1, <2>3, <3>1, <3>2, <1>t, TableHookType
    <2> QED
      BY <1>4, <2>2, <2>3 DEF DirectPatchSyscalls
  <1>5. CASE ScheduleStage2
    BY <1>5, <1>t DEF ScheduleStage2, EnvType, TasksType, TableType, tableVars,
       fixedVars, ksudVars, InitPhases
  <1>6. CASE LateLoaded
    BY <1>6, <1>t DEF LateLoaded, EnvType, TasksType, TableType, tableVars,
       fixedVars, workVars, ksudVars
  <1>7. CASE KsudReady
    BY <1>7, <1>t DEF KsudReady, EnvType, TasksType, TableType, tableVars,
       fixedVars, workVars, ksudVars
  <1>8. CASE \E n \in KsudSlots : KsudHook(n)
    <2> PICK n \in KsudSlots : KsudHook(n)
      BY <1>8
    <2>1. /\ n \in Slots /\ ksu_syscall_table[n] \in Functions
          /\ CanHold(n, ksu_syscall_table[n])
      BY <1>t, SlotsAssumption DEF TableType
    <2>2. CanHold(n, "ksud_hook") /\ "ksud_hook" \in Functions
      BY <1>o DEF CanHold, Ours
    <2>3. /\ ksud' \in [KsudSlots -> {"idle", "hooked", "unhooked"}]
          /\ ksud_old' \in [KsudSlots -> Functions]
          /\ \A m \in KsudSlots : ksud_old'[m] = "NULL" \/ CanHold(m, ksud_old'[m])
      BY <2>1, <1>t DEF KsudHook, EnvType
    <2>4. EnvType' /\ TasksType'
      BY <2>3, <1>t DEF KsudHook, EnvType, TasksType, mainVars, fixedVars, workVars, CanHold
    <2>5. TableType'
      BY <2>1, <2>2, <1>t, TableHookType DEF KsudHook
    <2> QED
      BY <2>4, <2>5
  <1> QED
    BY <1>1, <1>2, <1>3, <1>4, <1>5, <1>6, <1>7, <1>8 DEF MainStep

\* kernelsu_exit keeps the types.
LEMMA TypeExitStep == TypeOK /\ (BeginExit \/ ExitStep) => TypeOK'
  <1> SUFFICES ASSUME TypeOK, BeginExit \/ ExitStep PROVE TableType' /\ EnvType' /\ TasksType'
    BY DEF TypeOK
  <1>t. TableType /\ EnvType /\ TasksType
    BY DEF TypeOK
  <1>1. CASE BeginExit
    <2>1. TableType' /\ TasksType'
      BY <1>1, <1>t DEF BeginExit, TasksType, TableType, tableVars
    <2>5. mi' \in Nat \ {0}
      <3>1. 1 \in Nat \ {0}
        OBVIOUS
      <3> QED
        BY <3>1, <1>1 DEF BeginExit
    <2>2. tp' \in BOOLEAN
      BY <1>1 DEF BeginExit
    <2>3. mpc' \in ExitPhases
      BY <1>1 DEF BeginExit, ExitPhases
    <2>4. EnvType'
      BY <1>1, <1>t, <2>5, <2>2, <2>3 DEF BeginExit, EnvType, fixedVars, workVars, ksudVars
    <2> QED
      BY <2>1, <2>4
  <1>2. CASE ExitUnregister
    BY <1>2, <1>t DEF ExitUnregister, EnvType, TasksType, TableType, tableVars,
       fixedVars, workVars, ksudVars, ExitPhases
  <1>3. CASE ExitLock
    BY <1>3, <1>t DEF ExitLock, EnvType, TasksType, TableType, tableVars,
       fixedVars, workVars, ksudVars, ExitPhases
  <1>4. CASE ExitRestore
    <2>1. EnvType' /\ TasksType'
      BY <1>4, <1>t DEF ExitRestore, EnvType, TasksType, fixedVars, workVars, ksudVars
    <2>2. hooked_entries[mi] \in EntryType
      BY <1>4, <1>t DEF ExitRestore, TableType
    <2>3. TableType'
      BY <1>4, <1>t, <2>2 DEF ExitRestore, TableType, EntryType
    <2> QED
      BY <2>1, <2>3
  <1>5. CASE ExitUnlock
    <2>1. TableType' /\ TasksType'
      BY <1>5, <1>t DEF ExitUnlock, TasksType, TableType
    <2>5. mi' \in Nat \ {0}
      <3>1. 1 \in Nat \ {0}
        OBVIOUS
      <3> QED
        BY <3>1, <1>5 DEF ExitUnlock
    <2>2. hooked_entries_lock' \in BOOLEAN
      BY <1>5 DEF ExitUnlock
    <2>3. mpc' \in ExitPhases
      BY <1>5 DEF ExitUnlock, ExitPhases
    <2>4. EnvType'
      BY <1>5, <1>t, <2>5, <2>2, <2>3 DEF ExitUnlock, EnvType, fixedVars, workVars, ksudVars
    <2> QED
      BY <2>1, <2>4
  <1>6. CASE ExitClear
    BY <1>6, <1>t DEF ExitClear, EnvType, TasksType, TableType, tableVars,
       workVars, ksudVars, ExitPhases
  <1> QED
    BY <1>1, <1>2, <1>3, <1>4, <1>5, <1>6 DEF ExitStep

\* The stage-2 work and the events of the boot keep the types.
LEMMA TypeWorkerStep ==
    TypeOK /\ (WorkerStep \/ OnBootCompleted \/ \E n \in KsudSlots : KsudUnhook(n)) => TypeOK'
  <1> SUFFICES ASSUME TypeOK,
                      WorkerStep \/ OnBootCompleted \/ \E n \in KsudSlots : KsudUnhook(n)
               PROVE  TableType' /\ EnvType' /\ TasksType'
    BY DEF TypeOK
  <1>t. TableType /\ EnvType /\ TasksType
    BY DEF TypeOK
  <1>1. CASE WorkerFire
    BY <1>1, <1>t DEF WorkerFire, EnvType, TasksType, TableType, mainVars, tableVars,
       fixedVars, ksudVars
  <1>2. CASE WorkerPatch
    <2>1. EnvType' /\ TasksType'
      BY <1>2, <1>t DEF WorkerPatch, EnvType, TasksType, mainVars, fixedVars, ksudVars
    <2>2. CASE UNCHANGED tableVars
      BY <2>1, <2>2, <1>t DEF TableType, tableVars
    <2>3. CASE wi \in DOMAIN Stage2 /\ TableHook(Stage2[wi], "ksu_direct_syscall_entry")
      <3>1. Stage2[wi] \in Slots /\ CanHold(Stage2[wi], "ksu_direct_syscall_entry")
        BY <2>3, StageSlots, SlotsAssumption DEF CanHold
      <3>2. "ksu_direct_syscall_entry" \in Functions
        BY DEF Functions, Ours
      <3> QED
        BY <2>1, <2>3, <3>1, <3>2, <1>t, TableHookType
    <2> QED
      BY <1>2, <2>2, <2>3 DEF WorkerPatch, tableVars
  <1>3. CASE OnBootCompleted
    BY <1>3, <1>t DEF OnBootCompleted, EnvType, TasksType, TableType, mainVars,
       tableVars, fixedVars, workVars, ksudVars
  <1>4. CASE \E n \in KsudSlots : KsudUnhook(n)
    <2> PICK n \in KsudSlots : KsudUnhook(n)
      BY <1>4
    <2>1. EnvType' /\ TasksType'
      BY <1>t DEF KsudUnhook, EnvType, TasksType, mainVars, fixedVars, workVars
    <2>2. TableType'
      BY <1>t, TableUnhookType, SlotsAssumption DEF KsudUnhook
    <2> QED
      BY <2>1, <2>2
  <1> QED
    BY <1>1, <1>2, <1>3, <1>4 DEF WorkerStep

\* Replacing one task's syscall by a well-formed one keeps the type of the tasks.
LEMMA TaskUpdate ==
    ASSUME TasksType, NEW t \in Tasks, NEW c \in SyscallType,
           c.at # "user" => InProgress(c), task' = [task EXCEPT ![t] = c]
    PROVE  TasksType'
  BY DEF TasksType, InProgress, CanHold, Genuine

\* A step of a task touches nothing but the task, and keeps its type.
LEMMA TypeTaskStep ==
    ASSUME TypeOK, NEW t \in Tasks, TaskStep(t)
    PROVE  TypeOK'
  <1>t. TableType /\ EnvType /\ TasksType
    BY DEF TypeOK
  <1>e. UNCHANGED envVars
    BY DEF TaskStep, Fetch, RunGenuine, DirectSyscallEntry, SyscallDispatcher,
       DirectRebootEntry, PassThroughHandler, RunKsudHook
  <1>1. TableType' /\ EnvType'
    BY <1>t, <1>e DEF envVars, mainVars, fixedVars, tableVars, workVars, ksudVars,
       TableType, EnvType
  <1> DEFINE c == task[t]
  <1>2. c \in SyscallType /\ (c.at # "user" => InProgress(c))
    BY <1>t DEF TasksType
  <1>3. ASSUME NEW d \in SyscallType, d.at # "user" => InProgress(d),
               task' = [task EXCEPT ![t] = d]
        PROVE  TypeOK'
    BY <1>1, <1>3, <1>t, TaskUpdate DEF TypeOK
  <1>d. c.at # "user" => c.nr \in Slots /\ c.no \in Slots
    BY <1>2 DEF InProgress
  <1>r. ASSUME NEW r \in {"done", "ENOSYS", "fd queued"}, Return(t, r) PROVE TypeOK'
    <2> DEFINE d == [c EXCEPT !.at = "user", !.ret = r]
    <2>1. d \in SyscallType /\ d.at = "user"
      BY <1>2 DEF SyscallType
    <2>2. task' = [task EXCEPT ![t] = d]
      BY <1>r, <1>t DEF Return, TasksType
    <2> QED
      BY <2>1, <2>2, <1>3
  <1>f. ASSUME NEW f \in Functions, NEW h \in Nat, c.at # "user",
               f = "NULL" \/ CanHold(c.no, f),
               task' = [task EXCEPT ![t] = [c EXCEPT !.at = f, !.handled = h]]
        PROVE  TypeOK'
    <2> DEFINE d == [c EXCEPT !.at = f, !.handled = h]
    <2>1. d \in SyscallType
      BY <1>2 DEF SyscallType
    <2>2. d.at = f /\ d.nr = c.nr /\ d.no = c.no
      BY <1>2 DEF SyscallType
    <2>3. InProgress(d)
      BY <1>f, <1>2, <2>2 DEF InProgress
    <2> QED
      BY <1>f, <2>1, <2>3, <1>3
  <1>4. CASE Fetch(t)
    <2> DEFINE f == ksu_syscall_table[c.no]
    <2>1. c.at = "entry" /\ c.no \in Slots
      BY <1>4, <1>d DEF Fetch
    <2>2. f \in Functions /\ CanHold(c.no, f)
      BY <2>1, <1>t DEF TableType
    <2>3. /\ task' = [task EXCEPT ![t] = [c EXCEPT !.at = f, !.handled = c.handled]]
          /\ c.handled \in Nat
      BY <1>4, <1>2, <1>t DEF Fetch, TasksType, SyscallType
    <2> QED
      BY <2>1, <2>2, <2>3, <1>f
  <1>5. CASE RunGenuine(t)
    BY <1>5, <1>r DEF RunGenuine
  <1>6. CASE DirectSyscallEntry(t)
    <2>1. CASE c.no \in syscall_hooks
      <3> DEFINE d == [c EXCEPT !.at = "handler"]
      <3>1. task' = [task EXCEPT ![t] = d] /\ c.at = "ksu_direct_syscall_entry"
        BY <1>6, <2>1, <1>t DEF DirectSyscallEntry, TasksType
      <3>2. d \in SyscallType /\ d.at = "handler" /\ d.nr = c.nr /\ d.no = c.no
        BY <1>2 DEF SyscallType
      <3>3. c.no \notin NiSlots
        BY <2>1, <1>t, DisjointAssumption DEF EnvType
      <3>4. InProgress(d)
        BY <3>1, <3>2, <3>3, <1>2 DEF InProgress
      <3> QED
        BY <3>1, <3>2, <3>4, <1>3
    <2>2. CASE c.no \notin syscall_hooks
      BY <1>6, <2>2, <1>r DEF DirectSyscallEntry
    <2> QED
      BY <2>1, <2>2
  <1>7. CASE SyscallDispatcher(t)
    <2>1. CASE c.no # ksu_dispatcher_nr \/ c.no = c.nr
      BY <1>7, <2>1, <1>r DEF SyscallDispatcher
    <2>2. ASSUME ~(c.no # ksu_dispatcher_nr \/ c.no = c.nr), c.nr \in syscall_hooks
          PROVE  TypeOK'
      <3> DEFINE d == [c EXCEPT !.at = "handler", !.no = c.nr]
      <3>1. task' = [task EXCEPT ![t] = d] /\ c.at = "ksu_syscall_dispatcher"
        BY <1>7, <2>2, <1>t DEF SyscallDispatcher, TasksType
      <3>2. d \in SyscallType /\ d.at = "handler" /\ d.nr = c.nr /\ d.no = c.nr
        BY <1>2 DEF SyscallType
      <3>3. InProgress(d)
        BY <3>1, <3>2, <1>d DEF InProgress
      <3> QED
        BY <3>1, <3>2, <3>3, <1>3
    <2>3. ASSUME ~(c.no # ksu_dispatcher_nr \/ c.no = c.nr), c.nr \notin syscall_hooks
          PROVE  TypeOK'
      <3> DEFINE d == [c EXCEPT !.at = "user", !.no = c.nr, !.ret = "ENOSYS"]
      <3>1. task' = [task EXCEPT ![t] = d]
        BY <1>7, <2>3, <1>t DEF SyscallDispatcher, TasksType
      <3>2. d \in SyscallType /\ d.at = "user"
        BY <1>2 DEF SyscallType
      <3> QED
        BY <3>1, <3>2, <1>3
    <2> QED
      BY <2>1, <2>2, <2>3
  <1>o. ASSUME c.at = "handler"
        PROVE  /\ Original(c.nr) \in Functions
               /\ Original(c.nr) = "NULL" \/ CanHold(c.no, Original(c.nr))
    <2>1. c.no \in Slots /\ c.no = c.nr
      BY <1>o, <1>2, SlotsAssumption DEF InProgress, CanHold, Genuine, Ours, NiSyscall
    <2> QED
      BY <2>1, <1>t DEF Original, EnvType
  <1>h. c.handled \in Nat /\ c.handled + 1 \in Nat
    <2>1. c.handled \in Nat
      BY <1>2 DEF SyscallType
    <2> QED
      BY <2>1
  <1>8. CASE DirectRebootEntry(t)
    <2>1. CASE c.magic
      <3> DEFINE d == [c EXCEPT !.handled = c.handled + 1, !.at = "user", !.ret = "fd queued"]
      <3>1. task' = [task EXCEPT ![t] = d]
        BY <1>8, <2>1, <1>t DEF DirectRebootEntry, TasksType
      <3>2. d \in SyscallType /\ d.at = "user"
        BY <1>2, <1>h DEF SyscallType
      <3> QED
        BY <3>1, <3>2, <1>3
    <2>2. CASE ~c.magic
      <3>1. /\ c.at = "handler" /\ c.nr = "reboot"
            /\ task' = [task EXCEPT ![t] = [c EXCEPT !.at = Original(c.nr), !.handled = c.handled + 1]]
        BY <1>8, <2>2, <1>2, <1>t DEF DirectRebootEntry, TasksType, SyscallType
      <3> QED
        BY <3>1, <1>o, <1>h, <1>f
    <2> QED
      BY <2>1, <2>2
  <1>9. CASE PassThroughHandler(t)
    <2>1. /\ c.at = "handler"
          /\ task' = [task EXCEPT ![t] = [c EXCEPT !.at = Original(c.nr), !.handled = c.handled + 1]]
      BY <1>9, <1>t DEF PassThroughHandler, TasksType, SyscallType
    <2> QED
      BY <2>1, <1>o, <1>h, <1>f
  <1>10. CASE RunKsudHook(t)
    <2> DEFINE f == ksud_old[c.no]
    <2>1. c.at = "ksud_hook" /\ c.no \in KsudSlots
      BY <1>10, <1>2, SlotsAssumption DEF RunKsudHook, InProgress, CanHold, Genuine, Ours, NiSyscall
    <2>2. f \in Functions /\ (f = "NULL" \/ CanHold(c.no, f))
      BY <2>1, <1>t DEF EnvType
    <2>3. task' = [task EXCEPT ![t] = [c EXCEPT !.at = f, !.handled = c.handled]]
      BY <1>10, <1>2, <1>t DEF RunKsudHook, TasksType, SyscallType
    <2> QED
      BY <2>1, <2>2, <2>3, <1>f, <1>h
  <1> QED
    BY <1>4, <1>5, <1>6, <1>7, <1>8, <1>9, <1>10 DEF TaskStep

\* Entering the kernel makes a well-formed syscall, redirected or not.
LEMMA TypeCall ==
    ASSUME TypeOK, NEW t \in Tasks, NEW n \in Calls, NEW marked \in BOOLEAN,
           NEW magic \in BOOLEAN, Call(t, n, marked, magic)
    PROVE  TypeOK'
  <1>t. TableType /\ EnvType /\ TasksType
    BY DEF TypeOK
  <1>1. TableType' /\ EnvType'
    BY <1>t DEF Call, envVars, mainVars, fixedVars, tableVars, workVars, ksudVars,
       TableType, EnvType
  <1> DEFINE no == IF Redirects(n, marked) THEN ksu_dispatcher_nr ELSE n
             d == [Idle EXCEPT !.at = "entry", !.nr = n, !.magic = magic, !.no = no]
  <1>2. n \in Slots /\ no \in Slots /\ (no # n => no \in NiSlots)
    BY <1>t, SlotsAssumption DEF Redirects, EnvType
  <1> HIDE DEF no
  <1>3. d \in SyscallType /\ d.at = "entry" /\ d.nr = n /\ d.no = no
    BY <1>2 DEF Idle, SyscallType
  <1>4. InProgress(d)
    BY <1>2, <1>3 DEF InProgress
  <1>5. task' = [task EXCEPT ![t] = d]
    BY DEF Call, no
  <1>6. TasksType'
    BY <1>3, <1>4, <1>5, <1>t, TaskUpdate
  <1> QED
    BY <1>1, <1>6 DEF TypeOK

\* Every step keeps TypeOK, and so does stuttering.
LEMMA TypeNext == TypeOK /\ [Next]_vars => TypeOK'
  <1> SUFFICES ASSUME TypeOK, [Next]_vars PROVE TypeOK'
    OBVIOUS
  <1>1. CASE UNCHANGED vars
    BY <1>1 DEF TypeOK, vars, mainVars, fixedVars, tableVars, workVars, ksudVars,
       TableType, EnvType, TasksType
  <1>2. CASE Next
    BY <1>2, TypeMainStep, TypeExitStep, TypeWorkerStep, TypeTaskStep, TypeCall DEF Next
  <1> QED
    BY <1>1, <1>2

\* In every reachable state each slot, each recorded original and each running
\* syscall holds a function meant for that slot (TypeOK).
THEOREM TypeCorrect == Spec => []TypeOK
  <1>1. Init => TypeOK
    BY TypeInit
  <1>2. TypeOK /\ [Next]_vars => TypeOK'
    BY TypeNext
  <1> QED
    BY <1>1, <1>2, PTL DEF Spec

-----------------------------------------------------------------------------
(* Every patched slot can be restored                                       *)
(*                                                                          *)
(* The array must never be full when a new slot is hooked: the entries name *)
(* different hookable slots, and MaxEntries of them fit.                    *)

Distinct ==
    \A i, j \in DOMAIN hooked_entries :
        hooked_entries[i].nr = hooked_entries[j].nr => i = j

ListInv ==
    /\ Distinct
    /\ Tracked \subseteq Hookable
    /\ IsFiniteSet(Tracked)
    /\ Cardinality(Tracked) = Len(hooked_entries)

\* With the kernel's functions o: recorded originals, and slots without a record.
RecordInv(o) ==
    /\ \A i \in DOMAIN hooked_entries :
         hooked_entries[i].nr \notin stuck => hooked_entries[i].orig = o[hooked_entries[i].nr]
    /\ \A n \in Slots : ksu_syscall_table[n] # o[n] => n \in Tracked \cup stuck

\* A slot without an entry finds room in the array.
LEMMA RoomForEntry ==
    ASSUME ListInv, NEW n \in Hookable, n \notin Tracked
    PROVE  /\ Len(hooked_entries) < MaxEntries
           /\ IsFiniteSet(Tracked \cup {n})
           /\ Cardinality(Tracked \cup {n}) = Len(hooked_entries) + 1
  <1>1. /\ IsFiniteSet(Tracked \cup {n})
        /\ Cardinality(Tracked \cup {n}) = Cardinality(Tracked) + 1
    BY FS_AddElement DEF ListInv
  <1>2. Tracked \cup {n} \subseteq Hookable
    BY DEF ListInv
  <1>3. Cardinality(Tracked \cup {n}) =< Cardinality(Hookable)
    BY <1>2, FS_Subset, CapacityAssumption
  <1>4. /\ Cardinality(Hookable) \in Nat /\ Cardinality(Tracked) \in Nat
        /\ Cardinality(Tracked) = Len(hooked_entries)
    BY FS_CardinalityType, CapacityAssumption DEF ListInv
  <1> QED
    BY <1>1, <1>3, <1>4, CapacityAssumption

\* ksu_syscall_table_hook keeps the list duplicate-free and its records right,
\* and its slot is tracked afterwards.
LEMMA TableHookInv ==
    ASSUME NEW o, TableType, ListInv, RecordInv(o),
           NEW n \in Hookable, NEW fn, TableHook(n, fn)
    PROVE  ListInv' /\ RecordInv(o)' /\ Tracked' = Tracked \cup {n}
  <1>1. n \in Slots
    BY HookableSlots
  <1>2. CASE n \in Tracked
    <2>1. hooked_entries' = hooked_entries /\ stuck' = stuck
      BY <1>2 DEF TableHook, Track
    <2>2. \A m \in Slots : m # n => ksu_syscall_table'[m] = ksu_syscall_table[m]
      BY DEF TableHook, TableType
    <2>3. Tracked' = Tracked
      BY <2>1 DEF Tracked
    <2> QED
      BY <1>2, <2>1, <2>2, <2>3 DEF ListInv, RecordInv, Distinct
  <1>3. CASE n \notin Tracked
    <2> DEFINE e == [nr |-> n, orig |-> ksu_syscall_table[n]]
               len == Len(hooked_entries)
    <2>1. hooked_entries' = Append(hooked_entries, e) /\ stuck' = stuck
      BY <1>3, RoomForEntry DEF TableHook, Track
    <2>2. e.nr = n /\ e.orig = ksu_syscall_table[n] /\ e \in EntryType
      BY <1>1 DEF TableType, EntryType
    <2> HIDE DEF e
    <2>3. /\ len \in Nat /\ DOMAIN hooked_entries = 1 .. len
          /\ Len(hooked_entries') = len + 1 /\ DOMAIN hooked_entries' = 1 .. len + 1
          /\ \A i \in 1 .. len : hooked_entries'[i] = hooked_entries[i]
          /\ hooked_entries'[len + 1] = e
      BY <2>1, <2>2 DEF TableType
    <2>4. Tracked' = Tracked \cup {n}
      <3>1. Tracked' \subseteq Tracked \cup {n}
        BY <2>2, <2>3 DEF Tracked
      <3>2. \A i \in 1 .. len : i \in DOMAIN hooked_entries' /\ hooked_entries'[i].nr = hooked_entries[i].nr
        BY <2>3
      <3>3. len + 1 \in DOMAIN hooked_entries' /\ hooked_entries'[len + 1].nr = n
        BY <2>2, <2>3
      <3> QED
        BY <2>3, <3>1, <3>2, <3>3 DEF Tracked
    <2>5. ListInv'
      <3>1. Distinct'
        <4>1. \A i \in 1 .. len : hooked_entries[i].nr # n
          BY <1>3, <2>3 DEF Tracked
        <4>2. Distinct /\ 1 .. len + 1 = 1 .. len \cup {len + 1}
          BY <2>3 DEF ListInv
        <4> HIDE DEF len
        <4>3. ASSUME NEW i \in 1 .. len + 1, NEW j \in 1 .. len + 1,
                     hooked_entries'[i].nr = hooked_entries'[j].nr
              PROVE  i = j
          BY <2>2, <2>3, <4>1, <4>2, <4>3 DEF Distinct
        <4> QED
          BY <2>3, <4>3 DEF Distinct
      <3>2. /\ IsFiniteSet(Tracked') /\ Cardinality(Tracked') = Len(hooked_entries')
            /\ Tracked' \subseteq Hookable
        BY <1>3, <2>3, <2>4, RoomForEntry DEF ListInv
      <3> QED
        BY <3>1, <3>2 DEF ListInv
    <2>6. RecordInv(o)'
      <3>1. n \notin stuck => e.orig = o[n]
        BY <1>1, <1>3, <2>2 DEF RecordInv
      <3>2. \A m \in Slots : m # n => ksu_syscall_table'[m] = ksu_syscall_table[m]
        BY DEF TableHook, TableType
      <3>3. \A i \in DOMAIN hooked_entries' : hooked_entries'[i].nr \notin stuck' =>
               hooked_entries'[i].orig = o[hooked_entries'[i].nr]
        BY <2>1, <2>2, <2>3, <3>1 DEF RecordInv
      <3>4. \A m \in Slots : ksu_syscall_table'[m] # o[m] => m \in Tracked' \cup stuck'
        BY <2>1, <2>4, <3>2 DEF RecordInv
      <3> QED
        BY <3>3, <3>4 DEF RecordInv
    <2> QED
      BY <2>4, <2>5, <2>6
  <1> QED
    BY <1>2, <1>3

\* ksu_syscall_table_unhook forgets the slot, and only a failed patch leaves it wrong.
LEMMA TableUnhookInv ==
    ASSUME NEW o, TableType, ListInv, RecordInv(o), NEW n \in Slots, TableUnhook(n)
    PROVE  ListInv' /\ RecordInv(o)' /\ Tracked' = Tracked \ {n}
  <1>1. CASE n \notin Tracked /\ UNCHANGED tableVars
    <2>1. Tracked' = Tracked
      BY <1>1 DEF Tracked, tableVars
    <2> QED
      BY <1>1, <2>1 DEF ListInv, RecordInv, Distinct, tableVars
  <1>2. CASE n \in Tracked
    <2> PICK i \in DOMAIN hooked_entries :
            /\ hooked_entries[i].nr = n
            /\ hooked_entries' = RemoveEntry(hooked_entries, i)
            /\ \/ /\ ksu_syscall_table' = [ksu_syscall_table EXCEPT ![n] = hooked_entries[i].orig]
                  /\ UNCHANGED stuck
               \/ /\ stuck' = stuck \cup {n}
                  /\ UNCHANGED ksu_syscall_table
      BY <1>2 DEF TableUnhook
    <2> DEFINE len == Len(hooked_entries)
    <2>1. /\ len \in Nat /\ DOMAIN hooked_entries = 1 .. len
          /\ hooked_entries \in Seq(EntryType)
          /\ i \in 1 .. len
      BY DEF TableType
    <2>2. /\ hooked_entries' \in Seq(EntryType) /\ Len(hooked_entries') = len - 1
          /\ DOMAIN hooked_entries' = 1 .. len - 1
          /\ \A j \in 1 .. len - 1 : hooked_entries'[j] =
               IF j = i THEN hooked_entries[len] ELSE hooked_entries[j]
      <3>1. i \in DOMAIN hooked_entries /\ hooked_entries' = RemoveEntry(hooked_entries, i)
        OBVIOUS
      <3>2. /\ RemoveEntry(hooked_entries, i) \in Seq(EntryType)
            /\ Len(RemoveEntry(hooked_entries, i)) = len - 1
            /\ \A j \in 1 .. len - 1 : RemoveEntry(hooked_entries, i)[j] =
                 IF j = i THEN hooked_entries[len] ELSE hooked_entries[j]
        BY <2>1, <3>1, RemoveEntryType
      <3> QED
        BY <3>1, <3>2
    <2>3. Distinct
      BY DEF ListInv
    <2> HIDE DEF len
    <2>4. \A j \in 1 .. len - 1 : \E k \in 1 .. len :
             /\ hooked_entries'[j] = hooked_entries[k]
             /\ k # i
             /\ k = IF j = i THEN len ELSE j
      <3> SUFFICES ASSUME NEW j \in 1 .. len - 1
                   PROVE  \E k \in 1 .. len :
                            /\ hooked_entries'[j] = hooked_entries[k]
                            /\ k # i
                            /\ k = IF j = i THEN len ELSE j
        OBVIOUS
      <3>1. CASE j = i
        <4>1. len \in 1 .. len /\ len # i /\ hooked_entries'[j] = hooked_entries[len]
          BY <2>1, <2>2, <3>1
        <4> QED
          BY <3>1, <4>1
      <3>2. CASE j # i
        <4>1. j \in 1 .. len /\ hooked_entries'[j] = hooked_entries[j]
          BY <2>1, <2>2, <3>2
        <4> QED
          BY <3>2, <4>1
      <3> QED
        BY <3>1, <3>2
    <2>5. Tracked' = Tracked \ {n}
      <3>1. \A j \in 1 .. len - 1 : hooked_entries'[j].nr \in Tracked \ {n}
        BY <2>1, <2>3, <2>4 DEF Tracked, Distinct
      <3>2. \A k \in 1 .. len : k # i => \E j \in 1 .. len - 1 : hooked_entries'[j] = hooked_entries[k]
        <4> SUFFICES ASSUME NEW k \in 1 .. len, k # i
                     PROVE  \E j \in 1 .. len - 1 : hooked_entries'[j] = hooked_entries[k]
          OBVIOUS
        <4>1. CASE k = len
          <5>1. i \in 1 .. len - 1 /\ hooked_entries'[i] = hooked_entries[k]
            BY <2>1, <2>2, <4>1
          <5> QED
            BY <5>1
        <4>2. CASE k # len
          <5>1. k \in 1 .. len - 1 /\ hooked_entries'[k] = hooked_entries[k]
            BY <2>1, <2>2, <4>2
          <5> QED
            BY <5>1
        <4> QED
          BY <4>1, <4>2
      <3>3. Tracked' \subseteq Tracked \ {n}
        BY <2>2, <3>1 DEF Tracked
      <3>4. Tracked \ {n} \subseteq Tracked'
        BY <2>1, <2>2, <3>2 DEF Tracked
      <3> QED
        BY <3>3, <3>4
    <2>6. ListInv'
      <3>1. Distinct'
        BY <2>1, <2>2, <2>3, <2>4 DEF Distinct
      <3>2. /\ IsFiniteSet(Tracked \ {n})
            /\ Cardinality(Tracked \ {n}) = Cardinality(Tracked) - 1
        BY <1>2, FS_RemoveElement DEF ListInv
      <3>3. /\ IsFiniteSet(Tracked') /\ Cardinality(Tracked') = Len(hooked_entries')
            /\ Tracked' \subseteq Hookable
        BY <2>2, <2>5, <3>2 DEF ListInv, len
      <3> QED
        BY <3>1, <3>3 DEF ListInv
    <2>7. RecordInv(o)'
      <3>1. stuck \subseteq stuck'
        OBVIOUS
      <3>2. \A j \in DOMAIN hooked_entries' : hooked_entries'[j].nr \notin stuck' =>
               hooked_entries'[j].orig = o[hooked_entries'[j].nr]
        BY <2>1, <2>2, <2>4, <3>1 DEF RecordInv
      <3>3. n \notin stuck' => ksu_syscall_table'[n] = o[n]
        BY DEF RecordInv, TableType
      <3>4. \A m \in Slots : m # n => ksu_syscall_table'[m] = ksu_syscall_table[m]
        BY DEF TableType
      <3>5. \A m \in Slots : ksu_syscall_table'[m] # o[m] => m \in Tracked' \cup stuck'
        BY <2>5, <3>1, <3>3, <3>4 DEF RecordInv
      <3> QED
        BY <3>2, <3>5 DEF RecordInv
    <2> QED
      BY <2>5, <2>6, <2>7
  <1> QED
    BY <1>1, <1>2 DEF TableUnhook, Tracked

\* While the exit restores, the entries already visited are done with.
ExitInv ==
    /\ hooked_entries_lock <=> mpc = "exit_restore"
    /\ mpc \in {"exit_lock", "exit_restore"} => resolved
    /\ mpc = "exit_lock" => mi = 1
    /\ mpc = "exit_restore" =>
         \A i \in DOMAIN hooked_entries :
            LET n == hooked_entries[i].nr
            IN  i < mi => n \in stuck \/ ksu_syscall_table[n] = ksu_syscall_table_orig[n]

\* The pristine copy is the kernel's table.
PristineInv ==
    /\ mpc = "hook_init" => ~resolved
    /\ dw \in {"pending", "running"} => resolved
    /\ ~resolved => /\ hooked_entries = << >>
                    /\ \A n \in Slots : ksu_syscall_table[n] = Genuine(n)
    /\ resolved  => \A n \in Slots : ksu_syscall_table_orig[n] = Genuine(n)

HookInv ==
    /\ ListInv
    /\ resolved => RecordInv(ksu_syscall_table_orig)
    /\ ExitInv
    /\ PristineInv

\* The initial state satisfies the strengthened invariant.
LEMMA HookInit == Init => HookInv
  <1> SUFFICES ASSUME Init PROVE HookInv
    OBVIOUS
  <1>1. Tracked = {} /\ Len(hooked_entries) = 0
    BY DEF Init, Tracked
  <1>2. ListInv
    BY <1>1, FS_EmptySet DEF Init, ListInv, Distinct
  <1> QED
    BY <1>2 DEF Init, HookInv, ExitInv, PristineInv

\* A hook taken after the table was found keeps the invariant, as long as the
\* step changes nothing else the invariant speaks of.
LEMMA HookStep ==
    ASSUME TypeOK, HookInv, resolved, NEW n \in Hookable, NEW fn, TableHook(n, fn),
           UNCHANGED <<fixedVars, hooked_entries_lock, dw>>,
           mpc' = mpc, mpc # "exit_lock" \/ mi' = mi
    PROVE  HookInv'
  <1>1. TableType /\ ListInv /\ RecordInv(ksu_syscall_table_orig)
    BY DEF TypeOK, HookInv
  <1>2. ListInv' /\ RecordInv(ksu_syscall_table_orig)'
    <2>1. ksu_syscall_table_orig' = ksu_syscall_table_orig
      BY DEF fixedVars
    <2> QED
      BY <1>1, <2>1, TableHookInv DEF RecordInv
  <1>3. ~hooked_entries_lock /\ mpc # "exit_restore"
    BY DEF TableHook, HookInv, ExitInv
  <1>4. ExitInv'
    BY <1>3 DEF HookInv, ExitInv, fixedVars
  <1>5. PristineInv'
    BY <1>3 DEF HookInv, PristineInv, fixedVars
  <1> QED
    BY <1>2, <1>4, <1>5 DEF HookInv

\* A step that leaves the table alone keeps the invariant when it neither
\* enters nor leaves the exit's critical section.
LEMMA QuietStep ==
    ASSUME HookInv, UNCHANGED <<fixedVars, tableVars, hooked_entries_lock>>,
           dw' \in {"pending", "running"} => dw \in {"pending", "running"} \/ resolved,
           \/ mpc' = mpc /\ mi' = mi
           \/ /\ mpc # "exit_restore" /\ mpc' \notin {"hook_init", "exit_restore"}
              /\ mpc' = "exit_lock" => resolved /\ mi' = 1
    PROVE  HookInv'
  <1>1. ListInv'
    BY DEF HookInv, ListInv, Distinct, Tracked, tableVars
  <1>2. (resolved => RecordInv(ksu_syscall_table_orig))'
    BY DEF HookInv, RecordInv, Tracked, tableVars, fixedVars
  <1>3. ExitInv'
    BY DEF HookInv, ExitInv, tableVars, fixedVars
  <1>4. PristineInv'
    BY DEF HookInv, PristineInv, tableVars, fixedVars
  <1> QED
    BY <1>1, <1>2, <1>3, <1>4 DEF HookInv

\* kernelsu_init: the copy is taken before the first slot is patched.
LEMMA HookMainStep == TypeOK /\ HookInv /\ MainStep => HookInv'
  <1> SUFFICES ASSUME TypeOK, HookInv, MainStep PROVE HookInv'
    OBVIOUS
  <1>1. CASE SyscallHookInit
    <2>1. /\ ~resolved /\ hooked_entries = << >> /\ Tracked = {}
          /\ \A n \in Slots : ksu_syscall_table[n] = Genuine(n)
          /\ dw \notin {"pending", "running"}
      BY <1>1 DEF SyscallHookInit, HookInv, PristineInv, Tracked
    <2>2. ExitInv'
      BY <1>1 DEF SyscallHookInit, HookInv, ExitInv
    <2>3. CASE UNCHANGED <<fixedVars, tableVars>>
      BY <1>1, <2>3, QuietStep DEF SyscallHookInit, workVars
    <2>4. CASE /\ resolved' = TRUE /\ ksu_syscall_table_orig' = ksu_syscall_table
               /\ UNCHANGED tableVars
      <3>1. ListInv'
        BY <2>4 DEF HookInv, ListInv, Distinct, Tracked, tableVars
      <3>2. RecordInv(ksu_syscall_table_orig)'
        BY <2>1, <2>4 DEF RecordInv, tableVars
      <3>3. PristineInv'
        BY <1>1, <2>1, <2>4 DEF SyscallHookInit, PristineInv, workVars
      <3> QED
        BY <2>2, <3>1, <3>2, <3>3 DEF HookInv
    <2>5. CASE /\ resolved' = TRUE /\ ksu_syscall_table_orig' = ksu_syscall_table
               /\ \E n \in NiSlots : TableHook(n, "ksu_syscall_dispatcher")
      <3> PICK n \in NiSlots : TableHook(n, "ksu_syscall_dispatcher")
        BY <2>5
      <3>1. RecordInv(ksu_syscall_table)
        BY <2>1 DEF RecordInv
      <3>2. n \in Hookable /\ TableType /\ ListInv
        BY DEF Hookable, TypeOK, HookInv
      <3>3. ListInv' /\ RecordInv(ksu_syscall_table_orig)'
        BY <2>5, <3>1, <3>2, TableHookInv DEF RecordInv
      <3>4. PristineInv'
        BY <1>1, <2>1, <2>5 DEF SyscallHookInit, PristineInv, workVars
      <3> QED
        BY <2>2, <3>3, <3>4 DEF HookInv
    <2> QED
      BY <1>1, <2>3, <2>4, <2>5 DEF SyscallHookInit
  <1>2. CASE RegisterHooks
    BY <1>2, QuietStep DEF RegisterHooks, workVars
  <1>3. CASE RegisterTracepoint
    BY <1>3, QuietStep DEF RegisterTracepoint, workVars
  <1>4. CASE DirectPatchSyscalls
    <2>1. CASE resolved /\ mi \in DOMAIN Stage1
      <3>1. Stage1[mi] \in Hookable
        BY <2>1, HookableSlots
      <3>2. TableHook(Stage1[mi], "ksu_direct_syscall_entry") /\ UNCHANGED mpc
        BY <1>4, <2>1 DEF DirectPatchSyscalls
      <3> QED
        BY <1>4, <2>1, <3>1, <3>2, HookStep DEF DirectPatchSyscalls, workVars
    <2>2. CASE ~(resolved /\ mi \in DOMAIN Stage1)
      BY <1>4, <2>2, QuietStep DEF DirectPatchSyscalls, workVars
    <2> QED
      BY <2>1, <2>2
  <1>5. CASE ScheduleStage2
    BY <1>5, QuietStep DEF ScheduleStage2
  <1>6. CASE LateLoaded
    BY <1>6, QuietStep DEF LateLoaded, workVars
  <1>7. CASE KsudReady
    BY <1>7, QuietStep DEF KsudReady, workVars
  <1>8. CASE \E n \in KsudSlots : KsudHook(n)
    <2> PICK n \in KsudSlots : KsudHook(n)
      BY <1>8
    <2>1. n \in Hookable
      BY DEF Hookable
    <2> QED
      BY <2>1, HookStep DEF KsudHook, mainVars, workVars
  <1> QED
    BY <1>1, <1>2, <1>3, <1>4, <1>5, <1>6, <1>7, <1>8 DEF MainStep

\* The steps of the exit: its loop leaves each visited slot restored or stuck.
LEMMA HookExitStep == TypeOK /\ HookInv /\ (BeginExit \/ ExitStep) => HookInv'
  <1> SUFFICES ASSUME TypeOK, HookInv, BeginExit \/ ExitStep PROVE HookInv'
    OBVIOUS
  <1>1. CASE BeginExit
    BY <1>1, QuietStep DEF BeginExit, workVars
  <1>2. CASE ExitUnregister
    BY <1>2, QuietStep DEF ExitUnregister, workVars
  <1>3. CASE ExitLock
    <2>1. ListInv' /\ RecordInv(ksu_syscall_table_orig)'
      BY <1>3 DEF ExitLock, HookInv, ExitInv, ListInv, RecordInv, Distinct, Tracked,
         tableVars, fixedVars
    <2>2. ExitInv'
      <3>1. mi' = 1 /\ \A i \in DOMAIN hooked_entries' : ~(i < 1)
        BY <1>3 DEF ExitLock, HookInv, ExitInv, TypeOK, TableType, tableVars
      <3> QED
        BY <1>3, <3>1 DEF ExitLock, HookInv, ExitInv, fixedVars
    <2>3. PristineInv'
      BY <1>3 DEF ExitLock, HookInv, PristineInv, tableVars, fixedVars, workVars
    <2> QED
      BY <2>1, <2>2, <2>3 DEF HookInv
  <1>4. CASE ExitRestore
    <2> DEFINE e == hooked_entries[mi]
               o == ksu_syscall_table_orig
    <2>1. /\ mpc = "exit_restore" /\ mpc' = mpc /\ mi' = mi + 1
          /\ mi \in DOMAIN hooked_entries /\ hooked_entries' = hooked_entries
          /\ UNCHANGED <<fixedVars, hooked_entries_lock, dw>>
      BY <1>4 DEF ExitRestore, workVars
    <2>2. \/ /\ ksu_syscall_table' = [ksu_syscall_table EXCEPT ![e.nr] = e.orig]
             /\ stuck' = stuck
          \/ /\ stuck' = stuck \cup {e.nr}
             /\ ksu_syscall_table' = ksu_syscall_table
      BY <1>4 DEF ExitRestore
    <2>3. resolved /\ RecordInv(o) /\ o' = o
      BY <2>1 DEF HookInv, ExitInv, fixedVars
    <2>0. \A i \in DOMAIN hooked_entries : hooked_entries[i].nr \in Slots /\ i \in Nat
      <3>1. \A i \in DOMAIN hooked_entries : hooked_entries[i] \in EntryType /\ i \in Nat
        BY DEF TypeOK, TableType
      <3> QED
        BY <3>1 DEF EntryType
    <2>4. e.nr \in Slots
      BY <2>0, <2>1
    <2>5. stuck \subseteq stuck' /\ (e.nr \notin stuck' => ksu_syscall_table'[e.nr] = o[e.nr])
      BY <2>1, <2>2, <2>3, <2>4 DEF RecordInv, TypeOK, TableType
    <2>6. \A n \in Slots : n # e.nr => ksu_syscall_table'[n] = ksu_syscall_table[n]
      BY <2>2 DEF TypeOK, TableType
    <2>7. ListInv'
      BY <2>1 DEF HookInv, ListInv, Distinct, Tracked
    <2>8. RecordInv(ksu_syscall_table_orig)'
      <3>1. Tracked' = Tracked
        BY <2>1 DEF Tracked
      <3> QED
        BY <2>1, <2>3, <2>5, <2>6, <3>1 DEF RecordInv
    <2>9. ExitInv'
      <3>1. ASSUME NEW i \in DOMAIN hooked_entries, i < mi + 1
            PROVE  \/ hooked_entries[i].nr \in stuck'
                   \/ ksu_syscall_table'[hooked_entries[i].nr] = o[hooked_entries[i].nr]
        <4>1. hooked_entries[i].nr \in Slots /\ i \in Nat /\ mi \in Nat
          BY <2>0, <2>1
        <4>2. CASE i = mi
          BY <4>2, <2>5
        <4>3. CASE i # mi
          <5>1. i < mi
            BY <3>1, <4>1, <4>3
          <5>2. hooked_entries[i].nr \in stuck \/ ksu_syscall_table[hooked_entries[i].nr] = o[hooked_entries[i].nr]
            BY <5>1, <2>1 DEF HookInv, ExitInv
          <5> QED
            BY <5>2, <4>1, <2>5, <2>6
        <4> QED
          BY <4>2, <4>3
      <3> QED
        BY <2>1, <2>3, <3>1 DEF HookInv, ExitInv, fixedVars
    <2>10. PristineInv'
      BY <2>1, <2>3 DEF HookInv, PristineInv, fixedVars
    <2> QED
      BY <2>7, <2>8, <2>9, <2>10 DEF HookInv
  <1>5. CASE ExitUnlock
    <2> DEFINE o == ksu_syscall_table_orig
    <2>1. /\ mpc = "exit_restore" /\ mpc' = "exit_clear" /\ mi \notin DOMAIN hooked_entries
          /\ hooked_entries' = << >> /\ ~hooked_entries_lock'
          /\ UNCHANGED <<fixedVars, ksu_syscall_table, stuck, dw>>
      BY <1>5 DEF ExitUnlock, workVars
    <2>2. resolved /\ RecordInv(o) /\ o' = o
      BY <2>1 DEF HookInv, ExitInv, fixedVars
    <2>3. \A n \in Slots \ stuck : ksu_syscall_table[n] = o[n]
      <3>1. \A i \in DOMAIN hooked_entries : i < mi
        BY <2>1 DEF TypeOK, TableType, EnvType
      <3>2. \A n \in Tracked : n \in stuck \/ ksu_syscall_table[n] = o[n]
        BY <2>1, <3>1 DEF HookInv, ExitInv, Tracked
      <3> QED
        BY <2>2, <3>2 DEF RecordInv
    <2>4. Tracked' = {} /\ Len(hooked_entries') = 0
      BY <2>1 DEF Tracked
    <2>5. ListInv'
      BY <2>1, <2>4, FS_EmptySet DEF ListInv, Distinct
    <2>6. RecordInv(ksu_syscall_table_orig)'
      BY <2>1, <2>2, <2>3 DEF RecordInv
    <2>7. ExitInv' /\ PristineInv'
      BY <2>1, <2>2 DEF HookInv, ExitInv, PristineInv, fixedVars
    <2> QED
      BY <2>5, <2>6, <2>7 DEF HookInv
  <1>6. CASE ExitClear
    <2>1. /\ mpc = "exit_clear" /\ mpc' = "exited"
          /\ UNCHANGED <<resolved, ksu_syscall_table_orig, tableVars, hooked_entries_lock, dw>>
      BY <1>6 DEF ExitClear, workVars
    <2>2. ListInv' /\ (resolved => RecordInv(ksu_syscall_table_orig))'
      BY <2>1 DEF HookInv, ListInv, RecordInv, Distinct, Tracked, tableVars
    <2>3. ExitInv' /\ PristineInv'
      BY <2>1 DEF HookInv, ExitInv, PristineInv, tableVars
    <2> QED
      BY <2>2, <2>3 DEF HookInv
  <1> QED
    BY <1>1, <1>2, <1>3, <1>4, <1>5, <1>6 DEF ExitStep

\* The stage-2 worker and ksud use the same list, whatever the main thread does.
LEMMA HookOtherStep ==
    TypeOK /\ HookInv /\ (WorkerStep \/ \E n \in KsudSlots : KsudUnhook(n)) => HookInv'
  <1> SUFFICES ASSUME TypeOK, HookInv, WorkerStep \/ \E n \in KsudSlots : KsudUnhook(n)
               PROVE  HookInv'
    OBVIOUS
  <1>1. CASE WorkerFire
    BY <1>1, QuietStep DEF WorkerFire, mainVars
  <1>2. CASE WorkerPatch
    <2>1. CASE wi \in DOMAIN Stage2
      <3>1. Stage2[wi] \in Hookable /\ resolved
        BY <1>2, <2>1, HookableSlots DEF WorkerPatch, HookInv, PristineInv
      <3>2. /\ TableHook(Stage2[wi], "ksu_direct_syscall_entry")
            /\ UNCHANGED <<dw, mainVars, fixedVars, hooked_entries_lock>>
        BY <1>2, <2>1 DEF WorkerPatch
      <3>3. mpc' = mpc /\ mi' = mi
        BY <3>2 DEF mainVars
      <3> QED
        BY <3>1, <3>2, <3>3, HookStep
    <2>2. CASE wi \notin DOMAIN Stage2
      BY <1>2, <2>2, QuietStep DEF WorkerPatch, mainVars, tableVars
    <2> QED
      BY <2>1, <2>2
  <1>3. CASE \E n \in KsudSlots : KsudUnhook(n)
    <2> PICK n \in KsudSlots : KsudUnhook(n)
      BY <1>3
    <2> DEFINE o == ksu_syscall_table_orig
    <2>1. /\ TableUnhook(n) /\ n \in Slots /\ TableType /\ ListInv
          /\ UNCHANGED <<mpc, mi, fixedVars, hooked_entries_lock, dw>>
      BY SlotsAssumption DEF KsudUnhook, TypeOK, HookInv, mainVars, workVars
    <2>2. o' = o /\ resolved' = resolved
      BY <2>1 DEF fixedVars
    <2>3. CASE resolved
      <3>1. ListInv' /\ RecordInv(ksu_syscall_table_orig)'
        BY <2>1, <2>2, <2>3, TableUnhookInv DEF HookInv, RecordInv
      <3>2. mpc # "exit_restore"
        BY <2>1 DEF TableUnhook, HookInv, ExitInv
      <3>3. ExitInv' /\ PristineInv'
        BY <2>1, <2>2, <2>3, <3>2 DEF HookInv, ExitInv, PristineInv, fixedVars
      <3> QED
        BY <3>1, <3>3 DEF HookInv
    <2>4. CASE ~resolved
      <3>1. Tracked = {} /\ hooked_entries = << >>
        BY <2>4 DEF HookInv, PristineInv, Tracked
      <3>2. UNCHANGED tableVars
        BY <2>1, <3>1 DEF TableUnhook
      <3> QED
        BY <2>1, <3>2, QuietStep
    <2> QED
      BY <2>3, <2>4
  <1> QED
    BY <1>1, <1>2, <1>3 DEF WorkerStep

\* Every step keeps the invariant.
LEMMA HookNext == TypeOK /\ HookInv /\ [Next]_vars => HookInv'
  <1> SUFFICES ASSUME TypeOK, HookInv, [Next]_vars PROVE HookInv'
    OBVIOUS
  <1>1. CASE OnBootCompleted \/ UNCHANGED vars
    BY <1>1, QuietStep DEF OnBootCompleted, vars, mainVars, workVars
  <1>2. ASSUME UNCHANGED envVars PROVE HookInv'
    BY <1>2, QuietStep DEF envVars, mainVars, workVars
  <1>3. CASE \E t \in Tasks : TaskStep(t)
    BY <1>2, <1>3 DEF TaskStep, Fetch, RunGenuine, DirectSyscallEntry, SyscallDispatcher,
       DirectRebootEntry, PassThroughHandler, RunKsudHook
  <1>4. CASE \E t \in Tasks, n \in Calls, marked \in BOOLEAN, magic \in BOOLEAN :
               Call(t, n, marked, magic)
    BY <1>2, <1>4 DEF Call
  <1> QED
    BY <1>1, <1>3, <1>4, HookMainStep, HookExitStep, HookOtherStep DEF Next

\* The two invariants hold together, for every instance and every patch fault.
THEOREM HookInvariant == Spec => [](TypeOK /\ HookInv)
  <1>1. Init => TypeOK /\ HookInv
    BY TypeInit, HookInit
  <1>2. (TypeOK /\ HookInv) /\ [Next]_vars => (TypeOK /\ HookInv)'
    BY TypeNext, HookNext
  <1> QED
    BY <1>1, <1>2, PTL DEF Spec

\* The original recorded for a slot is the kernel's own function unless a
\* restoring patch failed on that slot: stage 1, stage 2, ksud and the exit may
\* hook and unhook the same slots in any order.
THEOREM OriginalsPristine == Spec => []TrackedOrigPristine
  <1>1. HookInv => TrackedOrigPristine
    BY DEF HookInv, PristineInv, RecordInv, TrackedOrigPristine
  <1> QED
    BY <1>1, HookInvariant, PTL

\* A slot that differs from the pristine copy has an entry, so that the exit can
\* restore it: the array of MaxEntries never overflows.
THEOREM Restorable == Spec => []PatchedTracked
  <1>1. HookInv => PatchedTracked
    BY DEF HookInv, RecordInv, PatchedTracked
  <1> QED
    BY <1>1, HookInvariant, PTL

\* When the exit releases the lock, every slot without a failed restoring patch
\* holds the kernel's function again.
THEOREM ExitRestores == Spec => RestoredByExit
  <1>1. ASSUME TypeOK, HookInv, [Next]_vars, hooked_entries_lock, ~hooked_entries_lock'
        PROVE  ExitUnlock
    <2>1. ~UNCHANGED <<hooked_entries_lock>>
      BY <1>1
    <2>2. mpc = "exit_restore"
      BY <1>1 DEF HookInv, ExitInv
    <2> QED
      BY <1>1, <2>2 DEF Next, vars, MainStep, SyscallHookInit, RegisterHooks,
         RegisterTracepoint, DirectPatchSyscalls, ScheduleStage2, LateLoaded, KsudReady,
         KsudHook, BeginExit, ExitStep, ExitUnregister, ExitLock, ExitRestore, ExitClear,
         WorkerStep, WorkerFire, WorkerPatch, OnBootCompleted, KsudUnhook, TaskStep,
         Fetch, RunGenuine, DirectSyscallEntry, SyscallDispatcher, DirectRebootEntry,
         PassThroughHandler, RunKsudHook, Call, envVars
  <1>2. TypeOK /\ HookInv /\ [Next]_vars =>
            (hooked_entries_lock /\ ~hooked_entries_lock' =>
                \A n \in Slots \ stuck : ksu_syscall_table'[n] = ksu_syscall_table_orig[n])
    <2> SUFFICES ASSUME TypeOK, HookInv, [Next]_vars, hooked_entries_lock, ~hooked_entries_lock'
                 PROVE  \A n \in Slots \ stuck : ksu_syscall_table'[n] = ksu_syscall_table_orig[n]
      OBVIOUS
    <2>1. ExitUnlock
      BY <1>1
    <2>2. /\ resolved /\ mpc = "exit_restore" /\ RecordInv(ksu_syscall_table_orig)
          /\ mi \notin DOMAIN hooked_entries /\ ksu_syscall_table' = ksu_syscall_table
      BY <2>1 DEF ExitUnlock, HookInv, ExitInv
    <2>3. \A i \in DOMAIN hooked_entries : i < mi
      BY <2>2 DEF TypeOK, TableType, EnvType
    <2>4. \A n \in Tracked : n \in stuck \/ ksu_syscall_table[n] = ksu_syscall_table_orig[n]
      BY <2>2, <2>3 DEF HookInv, ExitInv, Tracked
    <2> QED
      BY <2>2, <2>4 DEF RecordInv
  <1> QED
    BY <1>2, HookInvariant, PTL DEF Spec, RestoredByExit

-----------------------------------------------------------------------------
(* No syscall is lost before an unload                                      *)
(*                                                                          *)
(* Where the hooks' patches land, every path into them leads to a handler   *)
(* that is registered: the handlers are registered before any path opens,   *)
(* and all of them stay until kernelsu_exit begins.                         *)

Early == mpc \in {"hook_init", "register"}

Redirected(c) == c.at # "user" /\ c.no # c.nr

Routed ==
    /\ Early \/ syscall_hooks = Registered
    /\ mpc = "hook_init" => ksu_dispatcher_nr = NoSlot
    /\ ksu_dispatcher_nr # NoSlot =>
         ksu_syscall_table[ksu_dispatcher_nr] = "ksu_syscall_dispatcher"
    /\ Early =>
         /\ ~tp /\ dw = "idle"
         /\ \A n \in Slots : ksu_syscall_table[n] # "ksu_direct_syscall_entry"
         /\ \A n \in KsudSlots : ksud_old[n] # "ksu_direct_syscall_entry"

RouteInv == mpc \notin ExitPhases => Routed

CallsRouted ==
    \A t \in Tasks :
        /\ Early => /\ task[t].at \notin {"ksu_direct_syscall_entry", "handler"}
                    /\ ~Redirected(task[t])
        /\ Redirected(task[t]) =>
             /\ task[t].no = ksu_dispatcher_nr
             /\ task[t].nr \in Registered
             /\ task[t].at \in {"entry", "ksu_syscall_dispatcher"}
        /\ task[t].ret = "ENOSYS" => task[t].nr \in NiSlots

CallInv == mpc \notin ExitPhases => CallsRouted

\* Nothing comes back from an unload.
LEMMA ExitForGood ==
    ASSUME [Next]_vars, mpc \in ExitPhases
    PROVE  mpc' \in ExitPhases
  BY DEF ExitPhases, Next, vars, MainStep, SyscallHookInit, RegisterHooks,
     RegisterTracepoint, DirectPatchSyscalls, ScheduleStage2, LateLoaded, KsudReady,
     KsudHook, BeginExit, ExitStep, ExitUnregister, ExitLock, ExitRestore, ExitUnlock,
     ExitClear, WorkerStep, WorkerFire, WorkerPatch, OnBootCompleted, KsudUnhook, TaskStep,
     Fetch, RunGenuine, DirectSyscallEntry, SyscallDispatcher, DirectRebootEntry,
     PassThroughHandler, RunKsudHook, Call, envVars, mainVars

\* Nobody hooks or unhooks the dispatcher's slot again.
LEMMA DispatcherSlotKept ==
    ASSUME TypeOK, Routed, NEW n \in Slots \ NiSlots,
           UNCHANGED ksu_dispatcher_nr,
           \/ \E fn \in Functions : TableHook(n, fn)
           \/ TableUnhook(n)
    PROVE  ksu_dispatcher_nr' # NoSlot =>
             ksu_syscall_table'[ksu_dispatcher_nr'] = "ksu_syscall_dispatcher"
  <1>1. \A m \in Slots : m # n => ksu_syscall_table'[m] = ksu_syscall_table[m]
    BY DEF TableHook, TableUnhook, tableVars, TypeOK, TableType
  <1>2. ksu_dispatcher_nr # NoSlot => ksu_dispatcher_nr \in Slots /\ ksu_dispatcher_nr # n
    BY SlotsAssumption DEF TypeOK, EnvType
  <1> QED
    BY <1>1, <1>2 DEF Routed

\* After the registration, a step that keeps the dispatcher's slot and the
\* registrations keeps the routing.
LEMMA RouteQuiet ==
    ASSUME Routed, UNCHANGED <<ksu_dispatcher_nr, syscall_hooks>>, ~Early, ~Early',
           \/ UNCHANGED ksu_syscall_table
           \/ ksu_dispatcher_nr' # NoSlot =>
                 ksu_syscall_table'[ksu_dispatcher_nr'] = "ksu_syscall_dispatcher"
    PROVE  Routed'
  BY DEF Routed, Early

\* The steps of everybody but the tasks keep the routing intact.
LEMMA RouteNext ==
    ASSUME "hook" \notin PatchFaults, TypeOK, RouteInv, [Next]_vars
    PROVE  RouteInv'
  <1> SUFFICES ASSUME mpc' \notin ExitPhases PROVE Routed'
    BY DEF RouteInv
  <1>r. mpc \notin ExitPhases /\ Routed
    BY ExitForGood DEF RouteInv
  <1>d. \A n \in Registered \cup KsudSlots : n \in Slots \ NiSlots
    BY SlotsAssumption, DisjointAssumption
  <1>f. "ksu_direct_syscall_entry" \in Functions /\ "ksud_hook" \in Functions
    BY DEF Functions, Ours
  <1>1. CASE SyscallHookInit
    <2>1. /\ mpc' = "register" /\ mpc = "hook_init" /\ ~tp /\ dw = "idle"
          /\ UNCHANGED <<tp, dw, ksud_old>>
      BY <1>1, <1>r DEF SyscallHookInit, Routed, Early, workVars, ksudVars
    <2>2. CASE UNCHANGED <<ksu_dispatcher_nr, ksu_syscall_table>>
      BY <1>r, <2>1, <2>2 DEF Routed, Early
    <2>3. CASE \E n \in NiSlots : ksu_dispatcher_nr' = n /\ TableHook(n, "ksu_syscall_dispatcher")
      <3> PICK n \in NiSlots : ksu_dispatcher_nr' = n /\ TableHook(n, "ksu_syscall_dispatcher")
        BY <2>3
      <3>1. /\ n \in Slots /\ ksu_syscall_table'[n] = "ksu_syscall_dispatcher"
            /\ \A m \in Slots \ {n} : ksu_syscall_table'[m] = ksu_syscall_table[m]
        BY SlotsAssumption DEF TableHook, TypeOK, TableType
      <3> QED
        BY <1>r, <2>1, <3>1 DEF Routed, Early
    <2> QED
      BY <1>1, <2>2, <2>3 DEF SyscallHookInit, fixedVars, tableVars
  <1>2. CASE RegisterHooks
    <2>1. syscall_hooks' = Registered
      BY <1>2 DEF RegisterHooks, TypeOK, EnvType
    <2> QED
      BY <1>2, <1>r, <2>1 DEF RegisterHooks, Routed, Early, fixedVars, tableVars
  <1>3. CASE RegisterTracepoint \/ ScheduleStage2 \/ LateLoaded \/ KsudReady
    BY <1>3, <1>r, RouteQuiet DEF RegisterTracepoint, ScheduleStage2, LateLoaded, KsudReady,
       Early, fixedVars, tableVars
  <1>4. CASE DirectPatchSyscalls
    <2>1. CASE resolved /\ mi \in DOMAIN Stage1
      <3>1. Stage1[mi] \in Slots \ NiSlots
        BY <2>1, <1>d, StageSlots
      <3>2. TableHook(Stage1[mi], "ksu_direct_syscall_entry")
        BY <1>4, <2>1 DEF DirectPatchSyscalls
      <3>3. UNCHANGED <<mpc, ksu_dispatcher_nr, syscall_hooks>> /\ ~Early
        BY <1>4, <2>1 DEF DirectPatchSyscalls, fixedVars, Early
      <3>4. ksu_dispatcher_nr' # NoSlot =>
              ksu_syscall_table'[ksu_dispatcher_nr'] = "ksu_syscall_dispatcher"
        BY <1>f, <3>1, <3>2, <3>3, <1>r, DispatcherSlotKept
      <3> QED
        BY <1>r, <3>3, <3>4, RouteQuiet DEF Early
    <2>2. CASE ~(resolved /\ mi \in DOMAIN Stage1)
      BY <1>r, <1>4, <2>2, RouteQuiet DEF DirectPatchSyscalls, fixedVars, tableVars, Early
    <2> QED
      BY <2>1, <2>2
  <1>5. CASE \E n \in KsudSlots : KsudHook(n) \/ KsudUnhook(n)
    <2> PICK n \in KsudSlots : KsudHook(n) \/ KsudUnhook(n)
      BY <1>5
    <2>1. /\ n \in Slots \ NiSlots /\ ~Early
          /\ UNCHANGED <<mpc, ksu_dispatcher_nr, syscall_hooks>>
      BY <1>d DEF KsudHook, KsudUnhook, mainVars, fixedVars, InitPhases, Early
    <2>2. TableHook(n, "ksud_hook") \/ TableUnhook(n)
      BY DEF KsudHook, KsudUnhook
    <2>3. ksu_dispatcher_nr' # NoSlot =>
            ksu_syscall_table'[ksu_dispatcher_nr'] = "ksu_syscall_dispatcher"
      BY <1>f, <1>r, <2>1, <2>2, DispatcherSlotKept
    <2> QED
      BY <1>r, <2>1, <2>3, RouteQuiet DEF Early
  <1>6. CASE WorkerPatch
    <2>1. UNCHANGED <<mpc, ksu_dispatcher_nr, syscall_hooks>> /\ ~Early
      BY <1>6, <1>r DEF WorkerPatch, mainVars, fixedVars, Routed
    <2>2. CASE wi \in DOMAIN Stage2
      <3>1. Stage2[wi] \in Slots \ NiSlots
        BY <2>2, <1>d, StageSlots
      <3>2. TableHook(Stage2[wi], "ksu_direct_syscall_entry")
        BY <1>6, <2>2 DEF WorkerPatch
      <3>3. ksu_dispatcher_nr' # NoSlot =>
              ksu_syscall_table'[ksu_dispatcher_nr'] = "ksu_syscall_dispatcher"
        BY <1>f, <1>r, <2>1, <3>1, <3>2, DispatcherSlotKept
      <3> QED
        BY <1>r, <2>1, <3>3, RouteQuiet DEF Early
    <2>3. CASE wi \notin DOMAIN Stage2
      BY <1>r, <1>6, <2>1, <2>3, RouteQuiet DEF WorkerPatch, Early, tableVars
    <2> QED
      BY <2>2, <2>3
  <1>7. CASE UNCHANGED vars \/ UNCHANGED envVars
    BY <1>7, <1>r DEF vars, envVars, mainVars, fixedVars, tableVars, workVars, ksudVars,
       Routed, Early
  <1>8. CASE WorkerFire \/ OnBootCompleted \/ BeginExit \/ ExitStep
    <2>1. CASE WorkerFire \/ OnBootCompleted
      <3>1. /\ UNCHANGED <<mpc, ksu_dispatcher_nr, syscall_hooks, ksu_syscall_table>>
            /\ ~Early
        BY <1>r, <2>1 DEF WorkerFire, OnBootCompleted, mainVars, fixedVars, tableVars,
           Routed, Early
      <3> QED
        BY <1>r, <3>1, RouteQuiet DEF Early
    <2>2. CASE BeginExit \/ ExitStep
      BY <1>r, <2>2 DEF BeginExit, ExitStep, ExitUnregister, ExitLock, ExitRestore,
         ExitUnlock, ExitClear, ExitPhases
    <2> QED
      BY <1>8, <2>1, <2>2
  <1>9. CASE \E t \in Tasks : TaskStep(t)
    BY <1>7, <1>9 DEF TaskStep, Fetch, RunGenuine, DirectSyscallEntry, SyscallDispatcher,
       DirectRebootEntry, PassThroughHandler, RunKsudHook
  <1>10. CASE \E t \in Tasks, n \in Calls, marked \in BOOLEAN, magic \in BOOLEAN :
                Call(t, n, marked, magic)
    BY <1>7, <1>10 DEF Call
  <1> QED
    BY <1>1, <1>2, <1>3, <1>4, <1>5, <1>6, <1>7, <1>8, <1>9, <1>10
    DEF Next, MainStep, WorkerStep

\* A step that touches no task and no redirection in progress keeps the calls.
LEMMA CallQuiet ==
    ASSUME CallsRouted, UNCHANGED task, Early' => Early,
           UNCHANGED ksu_dispatcher_nr \/ Early
    PROVE  CallsRouted'
  BY DEF CallsRouted, Redirected

\* Replacing one syscall by one that is rightly redirected and not lost.
LEMMA CallUpdate ==
    ASSUME CallsRouted, TasksType, NEW t \in Tasks, NEW d, task' = [task EXCEPT ![t] = d],
           UNCHANGED <<mpc, ksu_dispatcher_nr>>,
           Early => d.at \notin {"ksu_direct_syscall_entry", "handler"} /\ ~Redirected(d),
           Redirected(d) => /\ d.no = ksu_dispatcher_nr
                            /\ d.nr \in Registered
                            /\ d.at \in {"entry", "ksu_syscall_dispatcher"},
           d.ret = "ENOSYS" => d.nr \in NiSlots
    PROVE  CallsRouted'
  BY DEF CallsRouted, TasksType, Early, Redirected

\* A running syscall finds the handler it was sent to.
LEMMA CallTaskStep ==
    ASSUME TypeOK, Routed, CallsRouted, NEW t \in Tasks, TaskStep(t)
    PROVE  CallsRouted'
  <1> DEFINE c == task[t]
  <1>t. TableType /\ EnvType /\ TasksType
    BY DEF TypeOK
  <1>e. UNCHANGED <<mpc, ksu_dispatcher_nr>>
    BY DEF TaskStep, Fetch, RunGenuine, DirectSyscallEntry, SyscallDispatcher,
       DirectRebootEntry, PassThroughHandler, RunKsudHook, envVars, mainVars, fixedVars
  <1>a. c.at # "user"
    BY SlotsAssumption DEF TaskStep, Fetch, RunGenuine, DirectSyscallEntry, SyscallDispatcher,
       DirectRebootEntry, PassThroughHandler, RunKsudHook, NiSyscall
  <1>c. /\ c \in SyscallType /\ InProgress(c) /\ c.nr \in Slots /\ c.no \in Slots
        /\ c.no # c.nr => /\ ~Early
                          /\ c.no = ksu_dispatcher_nr /\ c.nr \in Registered
                          /\ c.at \in {"entry", "ksu_syscall_dispatcher"}
        /\ c.ret = "ENOSYS" => c.nr \in NiSlots
    BY <1>a, <1>t DEF TasksType, CallsRouted, Redirected, InProgress
  <1>m. /\ c.at \in {"ksu_direct_syscall_entry", "handler"} \/ c.no # c.nr => ~Early
        /\ ~Early => syscall_hooks = Registered
    BY <1>c DEF CallsRouted, Routed
  <1>i. /\ c.at = NiSyscall => c.no \in NiSlots
        /\ c.at = "ksu_syscall_dispatcher" => c.no \in NiSlots
        /\ c.at = "ksu_direct_syscall_entry" => c.no \in Registered
    BY <1>c, SlotsAssumption DEF InProgress, CanHold, Genuine, NiSyscall, Ours
  <1>u. ASSUME NEW d \in SyscallType, task' = [task EXCEPT ![t] = d],
               Early => d.at \notin {"ksu_direct_syscall_entry", "handler"} /\ d.no = d.nr,
               Redirected(d) => /\ d.no = ksu_dispatcher_nr
                                /\ d.nr \in Registered
                                /\ d.at \in {"entry", "ksu_syscall_dispatcher"},
               d.ret = "ENOSYS" => d.nr \in NiSlots
        PROVE  CallsRouted'
    <2>1. Early => d.at \notin {"ksu_direct_syscall_entry", "handler"} /\ ~Redirected(d)
      BY <1>u DEF Redirected
    <2> QED
      BY <1>u, <1>e, <1>t, <2>1, CallUpdate
  <1>r. ASSUME NEW r \in {"done", "ENOSYS", "fd queued"}, Return(t, r),
               r = "ENOSYS" => c.nr \in NiSlots
        PROVE  CallsRouted'
    <2> DEFINE d == [c EXCEPT !.at = "user", !.ret = r]
    <2>1. d \in SyscallType /\ d.at = "user" /\ d.ret = r /\ d.nr = c.nr /\ d.no = c.no
      BY <1>c DEF SyscallType
    <2>2. task' = [task EXCEPT ![t] = d]
      BY <1>r, <1>t DEF Return, TasksType
    <2> QED
      BY <2>1, <2>2, <1>c, <1>r, <1>u DEF Redirected
  <1>f. ASSUME NEW f \in Functions, NEW h \in Nat,
               task' = [task EXCEPT ![t] = [c EXCEPT !.at = f, !.handled = h]],
               Early => f # "ksu_direct_syscall_entry",
               c.no # c.nr => f = "ksu_syscall_dispatcher"
        PROVE  CallsRouted'
    <2> DEFINE d == [c EXCEPT !.at = f, !.handled = h]
    <2>1. /\ d \in SyscallType /\ d.at = f /\ d.nr = c.nr /\ d.no = c.no /\ d.ret = c.ret
      BY <1>c DEF SyscallType
    <2>2. f # "handler"
      BY SlotsAssumption DEF Functions, Ours, NiSyscall
    <2> QED
      BY <2>1, <2>2, <1>f, <1>c, <1>u DEF Redirected
  <1>4. CASE Fetch(t)
    <2> DEFINE f == ksu_syscall_table[c.no]
    <2>1. f \in Functions /\ (Early => f # "ksu_direct_syscall_entry")
      BY <1>c, <1>t DEF TableType, Routed
    <2>2. c.no # c.nr => f = "ksu_syscall_dispatcher"
      BY <1>c, SlotsAssumption DEF Routed
    <2>3. /\ task' = [task EXCEPT ![t] = [c EXCEPT !.at = f, !.handled = c.handled]]
          /\ c.handled \in Nat
      BY <1>4, <1>c, <1>t DEF Fetch, TasksType, SyscallType
    <2> QED
      BY <2>1, <2>2, <2>3, <1>f
  <1>5. CASE RunGenuine(t)
    <2>1. c.at = NiSyscall => c.nr \in NiSlots
      BY <1>c, <1>i DEF NiSyscall
    <2> QED
      BY <1>5, <2>1, <1>r DEF RunGenuine
  <1>6. CASE DirectSyscallEntry(t)
    <2>1. c.no \in syscall_hooks /\ c.no = c.nr /\ ~Early
      BY <1>6, <1>i, <1>m, <1>c DEF DirectSyscallEntry
    <2> DEFINE d == [c EXCEPT !.at = "handler"]
    <2>2. task' = [task EXCEPT ![t] = d]
      BY <1>6, <2>1, <1>t DEF DirectSyscallEntry, TasksType
    <2>3. /\ d \in SyscallType /\ d.no = c.no /\ d.nr = c.nr /\ d.ret = c.ret
      BY <1>c DEF SyscallType
    <2> QED
      BY <2>1, <2>2, <2>3, <1>c, <1>u DEF Redirected
  <1>7. CASE SyscallDispatcher(t)
    <2>1. CASE c.no = c.nr
      <3>1. Return(t, "ENOSYS") /\ c.nr \in NiSlots
        BY <1>7, <2>1, <1>i DEF SyscallDispatcher
      <3> QED
        BY <3>1, <1>r
    <2>2. CASE c.no # c.nr
      <3> DEFINE d == [c EXCEPT !.at = "handler", !.no = c.nr]
      <3>1. task' = [task EXCEPT ![t] = d]
        BY <1>7, <2>2, <1>c, <1>m, <1>t DEF SyscallDispatcher, TasksType
      <3>2. /\ d \in SyscallType /\ d.no = c.nr /\ d.nr = c.nr /\ d.ret = c.ret
        BY <1>c DEF SyscallType
      <3> QED
        BY <2>2, <3>1, <3>2, <1>c, <1>u DEF Redirected
    <2> QED
      BY <2>1, <2>2
  <1>h. c.handled \in Nat /\ c.handled + 1 \in Nat
    <2>1. c.handled \in Nat
      BY <1>c DEF SyscallType
    <2> QED
      BY <2>1
  <1>o. c.at = "handler" => Original(c.nr) \in Functions /\ c.no = c.nr
    BY <1>c, <1>t DEF Original, EnvType
  <1>8. CASE DirectRebootEntry(t)
    <2>1. CASE c.magic
      <3> DEFINE d == [c EXCEPT !.handled = c.handled + 1, !.at = "user", !.ret = "fd queued"]
      <3>1. task' = [task EXCEPT ![t] = d]
        BY <1>8, <2>1, <1>t DEF DirectRebootEntry, TasksType
      <3>2. d \in SyscallType /\ d.at = "user" /\ d.ret = "fd queued"
        BY <1>c, <1>h DEF SyscallType
      <3> QED
        BY <3>1, <3>2, <1>8, <1>m, <1>u DEF Redirected, DirectRebootEntry
    <2>2. CASE ~c.magic
      <3>1. /\ c.at = "handler"
            /\ task' = [task EXCEPT ![t] = [c EXCEPT !.at = Original(c.nr), !.handled = c.handled + 1]]
        BY <1>8, <2>2, <1>c, <1>t DEF DirectRebootEntry, TasksType, SyscallType
      <3> QED
        BY <3>1, <1>m, <1>o, <1>h, <1>f
    <2> QED
      BY <2>1, <2>2
  <1>9. CASE PassThroughHandler(t)
    <2>1. /\ c.at = "handler"
          /\ task' = [task EXCEPT ![t] = [c EXCEPT !.at = Original(c.nr), !.handled = c.handled + 1]]
      BY <1>9, <1>t DEF PassThroughHandler, TasksType, SyscallType
    <2> QED
      BY <2>1, <1>m, <1>o, <1>h, <1>f
  <1>10. CASE RunKsudHook(t)
    <2> DEFINE f == ksud_old[c.no]
    <2>1. c.at = "ksud_hook" /\ c.no \in KsudSlots /\ c.no = c.nr
      BY <1>10, <1>c, SlotsAssumption DEF RunKsudHook, InProgress, CanHold, Genuine, Ours, NiSyscall
    <2>2. f \in Functions /\ (Early => f # "ksu_direct_syscall_entry")
      BY <2>1, <1>t DEF EnvType, Routed
    <2>3. task' = [task EXCEPT ![t] = [c EXCEPT !.at = f, !.handled = c.handled]]
      BY <1>10, <1>c, <1>t DEF RunKsudHook, TasksType, SyscallType
    <2> QED
      BY <2>1, <2>2, <2>3, <1>f, <1>h
  <1> QED
    BY <1>4, <1>5, <1>6, <1>7, <1>8, <1>9, <1>10 DEF TaskStep

\* Every other step touches at most a syscall that is just entered.
LEMMA CallNext ==
    ASSUME TypeOK, RouteInv, CallInv, [Next]_vars
    PROVE  CallInv'
  <1> SUFFICES ASSUME mpc' \notin ExitPhases PROVE CallsRouted'
    BY DEF CallInv
  <1>r. mpc \notin ExitPhases /\ Routed /\ CallsRouted
    BY ExitForGood DEF RouteInv, CallInv
  <1>1. CASE \E t \in Tasks : TaskStep(t)
    BY <1>1, <1>r, CallTaskStep
  <1>2. CASE \E t \in Tasks, n \in Calls, marked \in BOOLEAN, magic \in BOOLEAN :
               Call(t, n, marked, magic)
    <2> PICK t \in Tasks, n \in Calls, marked \in BOOLEAN, magic \in BOOLEAN :
             Call(t, n, marked, magic)
      BY <1>2
    <2> DEFINE no == IF Redirects(n, marked) THEN ksu_dispatcher_nr ELSE n
               d == [Idle EXCEPT !.at = "entry", !.nr = n, !.magic = magic, !.no = no]
    <2>1. UNCHANGED <<mpc, ksu_dispatcher_nr>>
      BY DEF Call, envVars, mainVars, fixedVars
    <2>2. no # n => no = ksu_dispatcher_nr /\ n \in Registered /\ ~Early
      <3>1. Redirects(n, marked) => n \in Registered /\ ~Early
        BY <1>r DEF Redirects, TypeOK, EnvType, Routed
      <3> QED
        BY <3>1
    <2>3. task' = [task EXCEPT ![t] = d]
      BY DEF Call
    <2> HIDE DEF no
    <2>4. d.no = no /\ d.nr = n /\ d.at = "entry" /\ d.ret = "none"
      BY DEF Idle
    <2> HIDE DEF d
    <2> QED
      BY <1>r, <2>1, <2>2, <2>3, <2>4, CallUpdate DEF TypeOK, Redirected
  <1>3. ASSUME UNCHANGED task, UNCHANGED ksu_dispatcher_nr \/ Early, Early' => Early
        PROVE  CallsRouted'
    BY <1>r, <1>3, CallQuiet
  <1>4. CASE MainStep
    <2>1. CASE SyscallHookInit
      BY <1>3, <2>1 DEF SyscallHookInit, Early
    <2>2. CASE RegisterHooks \/ RegisterTracepoint \/ ScheduleStage2 \/ LateLoaded \/ KsudReady
      BY <1>3, <2>2 DEF RegisterHooks, RegisterTracepoint, ScheduleStage2, LateLoaded,
         KsudReady, fixedVars, Early
    <2>3. CASE DirectPatchSyscalls
      BY <1>3, <2>3 DEF DirectPatchSyscalls, fixedVars, Early
    <2>4. CASE \E n \in KsudSlots : KsudHook(n)
      BY <1>3, <2>4 DEF KsudHook, fixedVars, mainVars, Early
    <2> QED
      BY <1>4, <2>1, <2>2, <2>3, <2>4 DEF MainStep
  <1>5. CASE BeginExit \/ ExitStep
    BY <1>r, <1>5 DEF BeginExit, ExitStep, ExitUnregister, ExitLock, ExitRestore,
       ExitUnlock, ExitClear, ExitPhases
  <1>6. CASE WorkerStep
    BY <1>3, <1>6 DEF WorkerStep, WorkerFire, WorkerPatch, mainVars, fixedVars, Early
  <1>7. CASE OnBootCompleted \/ \E n \in KsudSlots : KsudUnhook(n)
    BY <1>3, <1>7 DEF OnBootCompleted, KsudUnhook, mainVars, fixedVars, Early
  <1>8. CASE UNCHANGED vars
    BY <1>3, <1>8 DEF vars, mainVars, fixedVars, Early
  <1> QED
    BY <1>1, <1>2, <1>4, <1>5, <1>6, <1>7, <1>8 DEF Next

\* Where the hooks' patches land, no syscall the kernel implements answers ENOSYS
\* because of the hooks until an unload begins, in any build, whatever the
\* stages, ksud, the tracepoint and any number of tasks do, and in whatever order.
THEOREM NoSyscallLost == "hook" \notin PatchFaults => (Spec => []NoLostSyscall)
  <1> SUFFICES ASSUME "hook" \notin PatchFaults PROVE Spec => []NoLostSyscall
    OBVIOUS
  <1> DEFINE I == TypeOK /\ RouteInv /\ CallInv
  <1>1. Init => I
    <2> SUFFICES ASSUME Init PROVE Routed /\ CallsRouted
      BY TypeInit DEF RouteInv, CallInv
    <2>1. \A n \in Slots : ksu_syscall_table[n] # "ksu_direct_syscall_entry"
      BY SlotsAssumption DEF Init, Genuine, NiSyscall, Ours
    <2>2. Routed
      BY <2>1 DEF Init, Routed, Early
    <2>3. CallsRouted
      BY DEF Init, CallsRouted, Idle, Redirected
    <2> QED
      BY <2>2, <2>3
  <1>2. I /\ [Next]_vars => I'
    BY TypeNext, RouteNext, CallNext
  <1>3. I => NoLostSyscall
    BY DEF CallInv, CallsRouted, NoLostSyscall
  <1> QED
    BY <1>1, <1>2, <1>3, PTL DEF Spec

-----------------------------------------------------------------------------
(* What a worker that comes too late can leave                              *)
(*                                                                          *)
(* RestoredAfterExit is violated: the stage-2 worker can patch after the    *)
(* exit has restored.  The damage has a bound.                              *)

LateInv ==
    mpc \in {"exit_clear", "exited"} /\ resolved => Tracked \subseteq Rng(Stage2)

\* Only a stage-2 slot is not the kernel's once the module is gone.
LateWorkerOnly ==
    mpc = "exited" /\ resolved =>
        \A n \in Slots \ (Rng(Stage2) \cup stuck) :
            ksu_syscall_table[n] = ksu_syscall_table_orig[n]

\* After the exit's loop the worker alone adds entries.
LEMMA LateNext == TypeOK /\ HookInv /\ LateInv /\ [Next]_vars => LateInv'
  <1> SUFFICES ASSUME TypeOK, HookInv, LateInv, [Next]_vars,
                      mpc' \in {"exit_clear", "exited"}, resolved'
               PROVE  Tracked' \subseteq Rng(Stage2)
    BY DEF LateInv
  <1>q. ASSUME UNCHANGED <<mpc, resolved, hooked_entries>> PROVE Tracked' \subseteq Rng(Stage2)
    BY <1>q DEF LateInv, Tracked
  <1>1. CASE UNCHANGED vars \/ OnBootCompleted \/ WorkerFire
    BY <1>1, <1>q DEF vars, OnBootCompleted, WorkerFire, mainVars, fixedVars, tableVars
  <1>2. CASE MainStep
    BY <1>2 DEF MainStep, SyscallHookInit, RegisterHooks, RegisterTracepoint,
       DirectPatchSyscalls, ScheduleStage2, LateLoaded, KsudReady, KsudHook, mainVars
  <1>3. CASE BeginExit \/ ExitUnregister \/ ExitLock \/ ExitRestore
    BY <1>3, <1>q DEF BeginExit, ExitUnregister, ExitLock, ExitRestore, fixedVars, tableVars
  <1>4. CASE ExitUnlock
    BY <1>4 DEF ExitUnlock, Tracked
  <1>5. CASE ExitClear
    BY <1>5 DEF ExitClear, LateInv, Tracked, tableVars
  <1>6. CASE WorkerPatch
    <2>1. UNCHANGED <<mpc, resolved>>
      BY <1>6 DEF WorkerPatch, mainVars, fixedVars
    <2>2. CASE wi \in DOMAIN Stage2
      <3> DEFINE n == Stage2[wi]
      <3>1. n \in Hookable /\ n \in Rng(Stage2)
        BY <2>2, HookableSlots DEF Rng
      <3>2. TableHook(n, "ksu_direct_syscall_entry")
        BY <1>6, <2>2 DEF WorkerPatch
      <3>3. TableType /\ ListInv /\ RecordInv(ksu_syscall_table_orig)
        BY <2>1 DEF TypeOK, HookInv
      <3> HIDE DEF n
      <3>4. Tracked' = Tracked \cup {n}
        BY <3>1, <3>2, <3>3, TableHookInv
      <3> QED
        BY <2>1, <3>1, <3>4 DEF LateInv
    <2>3. CASE wi \notin DOMAIN Stage2
      BY <1>6, <1>q, <2>1, <2>3 DEF WorkerPatch, tableVars
    <2> QED
      BY <2>2, <2>3
  <1>7. CASE \E n \in KsudSlots : KsudUnhook(n)
    <2> PICK n \in KsudSlots : KsudUnhook(n)
      BY <1>7
    <2>1. UNCHANGED <<mpc, resolved>> /\ TableUnhook(n) /\ n \in Slots
      BY SlotsAssumption DEF KsudUnhook, mainVars, fixedVars
    <2>2. TableType /\ ListInv /\ RecordInv(ksu_syscall_table_orig)
      BY <2>1 DEF TypeOK, HookInv
    <2>3. Tracked' = Tracked \ {n}
      BY <2>1, <2>2, TableUnhookInv
    <2> QED
      BY <2>1, <2>3 DEF LateInv
  <1>8. CASE UNCHANGED envVars
    BY <1>8, <1>q DEF envVars, mainVars, fixedVars, tableVars
  <1>9. CASE \E t \in Tasks : TaskStep(t)
    BY <1>8, <1>9 DEF TaskStep, Fetch, RunGenuine, DirectSyscallEntry, SyscallDispatcher,
       DirectRebootEntry, PassThroughHandler, RunKsudHook
  <1>10. CASE \E t \in Tasks, n \in Calls, marked \in BOOLEAN, magic \in BOOLEAN :
                Call(t, n, marked, magic)
    BY <1>8, <1>10 DEF Call
  <1> QED
    BY <1>1, <1>2, <1>3, <1>4, <1>5, <1>6, <1>7, <1>8, <1>9, <1>10
    DEF Next, ExitStep, WorkerStep

\* Whatever the worker and ksud still do during and after the unload, no slot
\* but those of stage 2 and those a failed patch left behind is not the kernel's.
THEOREM LateWorkerConfined == Spec => []LateWorkerOnly
  <1>1. Init => LateInv
    BY DEF Init, LateInv
  <1>2. TypeOK /\ HookInv /\ LateInv => LateWorkerOnly
    BY DEF HookInv, RecordInv, LateInv, LateWorkerOnly
  <1> QED
    BY HookInvariant, LateNext, <1>1, <1>2, PTL DEF Spec

-----------------------------------------------------------------------------
(* Stage 2 stays installed: the safety half of Stage2Installed              *)

StageInv ==
    /\ mpc \in InitPhases \ {"late", "ksud"} => dw = "idle"
    /\ mpc \in {"late", "ksud"} => dw \in {"idle", "pending"}
    /\ dw \in {"idle", "pending"} => wi = 1
    /\ dw = "done" => wi > Len(Stage2)
    /\ mpc \notin ExitPhases =>
         \A i \in DOMAIN Stage2 :
            i < wi => ksu_syscall_table[Stage2[i]] = "ksu_direct_syscall_entry"

\* Once the worker is done, su redirection is in every stage-2 slot.
Stage2InPlace ==
    mpc \notin ExitPhases /\ dw = "done" =>
        \A n \in Rng(Stage2) : ksu_syscall_table[n] = "ksu_direct_syscall_entry"

\* The hypotheses: hooking patches land, and ksud keeps the stage-2 slots it hooked.
Stage2Owned == "hook" \notin PatchFaults /\ KsudUnhooks \cap Rng(Stage2) = {}

\* Every other hook of the table comes before the worker's first.
LEMMA StageNext == Stage2Owned /\ TypeOK /\ StageInv /\ [Next]_vars => StageInv'
  <1> SUFFICES ASSUME Stage2Owned, TypeOK, StageInv, [Next]_vars PROVE StageInv'
    OBVIOUS
  <1>l. Len(Stage2) = 4 /\ DOMAIN Stage2 = 1 .. 4 /\ \A i \in DOMAIN Stage2 : ~(i < 1)
    BY DEF Stage2
  <1>w. wi \in Nat \ {0}
    BY DEF TypeOK, EnvType
  <1>q. ASSUME UNCHANGED <<mpc, dw, wi, ksu_syscall_table>> PROVE StageInv'
    BY <1>q DEF StageInv
  <1>e. ASSUME dw \in {"idle", "pending"}, dw' \in {"idle", "pending"}, wi' = wi,
               mpc' \in InitPhases \ {"late", "ksud"} => dw' = "idle"
        PROVE  StageInv'
    BY <1>e, <1>l DEF StageInv
  <1>1. CASE UNCHANGED vars \/ OnBootCompleted \/ UNCHANGED envVars
    BY <1>1, <1>q DEF vars, envVars, OnBootCompleted, mainVars, tableVars, workVars
  <1>2. CASE MainStep
    <2>1. dw \in {"idle", "pending"}
      BY <1>2 DEF MainStep, SyscallHookInit, RegisterHooks, RegisterTracepoint,
         DirectPatchSyscalls, ScheduleStage2, LateLoaded, KsudReady, KsudHook,
         StageInv, InitPhases
    <2>2. CASE ScheduleStage2
      BY <1>e, <2>1, <2>2 DEF ScheduleStage2, InitPhases
    <2>3. CASE SyscallHookInit \/ RegisterHooks \/ RegisterTracepoint \/ DirectPatchSyscalls
      <3>1. dw = "idle" /\ UNCHANGED workVars
        BY <2>3 DEF SyscallHookInit, RegisterHooks, RegisterTracepoint, DirectPatchSyscalls,
           StageInv, InitPhases
      <3> QED
        BY <1>e, <3>1 DEF workVars
    <2>4. CASE LateLoaded \/ KsudReady \/ \E n \in KsudSlots : KsudHook(n)
      <3>1. UNCHANGED workVars /\ mpc' \in {"run", "ksud"}
        BY <2>4 DEF LateLoaded, KsudReady, KsudHook, mainVars
      <3> QED
        BY <1>e, <2>1, <3>1 DEF workVars, InitPhases
    <2> QED
      BY <1>2, <2>2, <2>3, <2>4 DEF MainStep
  <1>3. CASE BeginExit \/ ExitStep
    <2>1. mpc' \in ExitPhases /\ UNCHANGED workVars
      BY <1>3 DEF BeginExit, ExitStep, ExitUnregister, ExitLock, ExitRestore, ExitUnlock,
         ExitClear, ExitPhases
    <2>2. mpc' \notin InitPhases
      BY <2>1 DEF ExitPhases, InitPhases
    <2> QED
      BY <2>1, <2>2 DEF StageInv, workVars, InitPhases
  <1>4. CASE WorkerFire
    BY <1>4 DEF WorkerFire, StageInv, mainVars, tableVars, InitPhases
  <1>5. CASE WorkerPatch
    <2>1. UNCHANGED mpc /\ dw = "running" /\ mpc \notin InitPhases
      BY <1>5 DEF WorkerPatch, mainVars, StageInv, InitPhases
    <2>2. CASE wi \in DOMAIN Stage2
      <3>1. /\ TableHook(Stage2[wi], "ksu_direct_syscall_entry") /\ wi' = wi + 1 /\ dw' = dw
        BY <1>5, <2>2 DEF WorkerPatch
      <3>2. \A m \in Slots : ksu_syscall_table'[m] = IF m = Stage2[wi]
               THEN "ksu_direct_syscall_entry" ELSE ksu_syscall_table[m]
        BY <3>1 DEF Stage2Owned, TableHook, TypeOK, TableType
      <3>3. \A i \in DOMAIN Stage2 : i < wi + 1 => i < wi \/ i = wi
        BY <1>l, <1>w
      <3>4. \A i \in DOMAIN Stage2 : Stage2[i] \in Slots
        BY HookableSlots
      <3>5. mpc \notin ExitPhases => \A i \in DOMAIN Stage2 :
               i < wi' => ksu_syscall_table'[Stage2[i]] = "ksu_direct_syscall_entry"
        BY <3>1, <3>2, <3>3, <3>4 DEF StageInv
      <3> QED
        BY <2>1, <3>1, <3>5 DEF StageInv
    <2>3. CASE wi \notin DOMAIN Stage2
      <3>1. UNCHANGED <<ksu_syscall_table, wi>> /\ dw' = "done"
        BY <1>5, <2>3 DEF WorkerPatch, tableVars
      <3>2. wi > Len(Stage2)
        BY <1>l, <1>w, <2>3
      <3> QED
        BY <2>1, <3>1, <3>2 DEF StageInv
    <2> QED
      BY <2>2, <2>3
  <1>6. CASE \E n \in KsudSlots : KsudUnhook(n)
    <2> PICK n \in KsudSlots : KsudUnhook(n)
      BY <1>6
    <2>1. TableUnhook(n) /\ n \notin Rng(Stage2) /\ UNCHANGED <<mpc, dw, wi>>
      BY DEF KsudUnhook, Stage2Owned, mainVars, workVars
    <2>2. \A m \in Slots : m # n => ksu_syscall_table'[m] = ksu_syscall_table[m]
      BY <2>1 DEF TableUnhook, TypeOK, TableType, tableVars
    <2>3. \A i \in DOMAIN Stage2 : Stage2[i] \in Slots /\ Stage2[i] # n
      BY <2>1, HookableSlots DEF Rng
    <2> QED
      BY <2>1, <2>2, <2>3 DEF StageInv
  <1>7. CASE \E t \in Tasks : TaskStep(t)
    BY <1>1, <1>7 DEF TaskStep, Fetch, RunGenuine, DirectSyscallEntry, SyscallDispatcher,
       DirectRebootEntry, PassThroughHandler, RunKsudHook
  <1>8. CASE \E t \in Tasks, n \in Calls, marked \in BOOLEAN, magic \in BOOLEAN :
               Call(t, n, marked, magic)
    BY <1>1, <1>8 DEF Call
  <1> QED
    BY <1>1, <1>2, <1>3, <1>4, <1>5, <1>6, <1>7, <1>8 DEF Next, WorkerStep

\* When the worker is done su redirection is in every stage-2 slot, also in one
\* ksud had hooked, and until an unload begins nobody takes it out again.
THEOREM Stage2Stays == Stage2Owned => (Spec => []Stage2InPlace)
  <1> SUFFICES ASSUME Stage2Owned PROVE Spec => []Stage2InPlace
    OBVIOUS
  <1>1. Init => StageInv
    BY DEF Init, StageInv, Stage2
  <1>2. TypeOK /\ StageInv => Stage2InPlace
    <2> SUFFICES ASSUME TypeOK, StageInv, mpc \notin ExitPhases, dw = "done"
                 PROVE  \A n \in Rng(Stage2) : ksu_syscall_table[n] = "ksu_direct_syscall_entry"
      BY DEF Stage2InPlace
    <2>1. \A i \in DOMAIN Stage2 : i =< Len(Stage2) /\ i \in Nat
      BY DEF Stage2
    <2>2. wi \in Nat /\ wi > Len(Stage2) /\ Len(Stage2) \in Nat
      BY DEF StageInv, TypeOK, EnvType, Stage2
    <2>3. \A i \in DOMAIN Stage2 : i < wi
      BY <2>1, <2>2
    <2> QED
      BY <2>3 DEF StageInv, Rng
  <1>3. Stage2Owned /\ TypeOK /\ StageInv /\ [Next]_vars => StageInv'
    BY StageNext
  <1> QED
    BY TypeCorrect, <1>1, <1>2, <1>3, PTL DEF Spec

=============================================================================
