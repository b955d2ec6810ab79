--------------------------- MODULE TpMarker_proofs ---------------------------
(* Proofs about TpMarker: that KernelSU's processes keep their flag, that   *)
(* other tracers see all, and who else pays when, for any set of processes, *)
(* any tracers that come and go and any kretprobe that fails.               *)
EXTENDS TpMarker, FiniteSetTheorems, TLAPS

-----------------------------------------------------------------------------
(* The invariant                                                            *)

Tracepoint == {"sys_enter", "sys_exit"}

\* One for a tracepoint that has a probe.
Uses(tp) == IF probes[tp] = {} THEN 0 ELSE 1

InUse == Uses("sys_enter") + Uses("sys_exit")

PhaseInv ==
    /\ mpc \in {"arm", "register"} => InUse = 0 /\ reg_count = 0 /\ handler = "none"
    /\ mpc = "arm" \/ ~kretprobes => ~reg_rp /\ ~unreg_rp
    /\ mpc = "mark" => ~kretprobes
    /\ "ours" \notin probes["sys_exit"]
    /\ "ours" \in probes["sys_enter"] <=> mpc \in {"mark", "run"}
    /\ handler = "reg" => reg_rp
    /\ handler = "unreg" => unreg_rp

\* reg_count is behind the kernel by the handler that is still to run.
CountInv ==
    BothArmed =>
        reg_count = CASE handler = "none"  -> refcount
                      [] handler = "reg"   -> refcount - 1
                      [] handler = "unreg" -> refcount + 1

\* Only the last step of a tracer and that of the manager can leave the bound.
BoundInv ==
    /\ handler = "reg" => reg_count \in (-MaxCount)..MaxCount
    /\ handler = "unreg" /\ mpc # "destroy" => reg_count \in (-MaxCount)..MaxCount
    /\ handler = "unreg" => reg_count \in (-MaxCount - 1)..(MaxCount + 1)
    /\ mpc \notin {"destroy", "gone"} => reg_count \in (-MaxCount - 1)..(MaxCount + 1)

\* Kretprobes are built in, and neither could be registered.
Unarmed == kretprobes /\ ~reg_rp /\ ~unreg_rp

\* Then every process stays marked for as long as our probe is registered.
EverybodyMarked == mpc = "run" /\ Unarmed => marked = alive

\* What the flags say once both kretprobes have had their turn.
FlagInv ==
    /\ OursServed
    /\ EverybodyMarked
    /\ mpc = "run" /\ ~kretprobes => marked \subseteq Allowed
    /\ mpc = "run" /\ BothArmed =>
         /\ handler = "none" => IF probes["sys_exit"] = {} THEN marked \subseteq Allowed
                                                           ELSE marked = alive
         /\ handler = "unreg" => probes["sys_exit"] = {}

Typed ==
    /\ mpc \in {"arm", "register", "mark", "run", "destroy", "gone"}
    /\ kretprobes \in BOOLEAN /\ reg_rp \in BOOLEAN /\ unreg_rp \in BOOLEAN
    /\ probes \in [Tracepoint -> SUBSET Probe]
    /\ refcount = InUse
    /\ reg_count \in (-MaxCount - 2)..(MaxCount + 1)
    /\ handler \in {"none", "reg", "unreg"}
    /\ alive \subseteq Procs /\ marked \subseteq alive

MarkerInv == Typed /\ PhaseInv /\ CountInv /\ BoundInv /\ FlagInv

\* The kernel's count, read off the two tracepoints.
LEMMA InUseCardinality ==
    ASSUME probes \in [Tracepoint -> SUBSET Probe]
    PROVE  InUse = Cardinality({tp \in DOMAIN probes : probes[tp] # {}})
  <1> DEFINE S == {tp \in DOMAIN probes : probes[tp] # {}}
  <1>1. /\ DOMAIN probes = {"sys_enter", "sys_exit"}
        /\ Uses("sys_enter") \in {0, 1} /\ Uses("sys_exit") \in {0, 1}
    BY DEF Tracepoint, Uses
  <1>2. CASE probes["sys_enter"] = {} /\ probes["sys_exit"] = {}
    <2>1. S = {}
      BY <1>1, <1>2
    <2> QED
      BY <1>2, <2>1, FS_EmptySet DEF InUse, Uses
  <1>3. CASE probes["sys_enter"] # {} /\ probes["sys_exit"] = {}
    <2>1. S = {"sys_enter"}
      BY <1>1, <1>3
    <2>2. Cardinality({"sys_enter"}) = 1
      BY FS_Singleton
    <2>3. InUse = 1
      BY <1>3 DEF InUse, Uses
    <2> QED
      BY <2>1, <2>2, <2>3
  <1>4. CASE probes["sys_enter"] = {} /\ probes["sys_exit"] # {}
    <2>1. S = {"sys_exit"}
      BY <1>1, <1>4
    <2>2. Cardinality({"sys_exit"}) = 1
      BY FS_Singleton
    <2>3. InUse = 1
      BY <1>4 DEF InUse, Uses
    <2> QED
      BY <2>1, <2>2, <2>3
  <1>5. CASE probes["sys_enter"] # {} /\ probes["sys_exit"] # {}
    <2>1. S = {"sys_enter"} \cup {"sys_exit"}
      BY <1>1, <1>5
    <2>2. IsFiniteSet({"sys_enter"}) /\ Cardinality({"sys_enter"}) = 1
      BY FS_Singleton
    <2>3. "sys_exit" \notin {"sys_enter"}
      OBVIOUS
    <2>4. Cardinality({"sys_enter"} \cup {"sys_exit"}) = 2
      BY <2>2, <2>3, FS_AddElement
    <2> QED
      BY <1>5, <2>1, <2>4 DEF InUse, Uses
  <1> QED
    BY <1>2, <1>3, <1>4, <1>5

\* What the runs check follows from the invariant.
LEMMA MarkerInvGives == MarkerInv => TypeOK /\ CountInStep /\ OthersServed /\ OnlyOursMarked
  <1> SUFFICES ASSUME MarkerInv PROVE TypeOK /\ CountInStep /\ OthersServed /\ OnlyOursMarked
    OBVIOUS
  <1>t. Typed /\ CountInv /\ FlagInv
    BY DEF MarkerInv
  <1>1. TypeOK
    BY <1>t, InUseCardinality DEF Typed, TypeOK, Tracepoint
  <1>2. CountInStep
    BY <1>t DEF CountInv, CountInStep, Settled
  <1>3. OthersServed /\ OnlyOursMarked
    BY <1>t DEF FlagInv, OthersServed, OnlyOursMarked, Corrected, Settled
  <1> QED
    BY <1>1, <1>2, <1>3

-----------------------------------------------------------------------------
(* The kernel's tracepoints *)

\* The two things a tracer that comes does to the count.
LEMMA AttachCases ==
    ASSUME Typed, NEW tp \in Tracepoint, NEW who \in Probe, Attach(tp, who)
    PROVE  /\ handler = "none" /\ UNCHANGED <<reg_count, alive>>
           /\ probes' \in [Tracepoint -> SUBSET Probe]
           /\ probes'[tp] = probes[tp] \cup {who}
           /\ \A s \in Tracepoint : s # tp => probes'[s] = probes[s]
           /\ refcount' = InUse'
           /\ marked' \subseteq alive /\ marked \subseteq marked'
           /\ \/ probes[tp] # {} /\ UNCHANGED <<refcount, marked, handler>>
              \/ /\ probes[tp] = {} /\ refcount' = refcount + 1
                 /\ refcount # 0 => marked' = marked
                 /\ refcount = 0 => marked' = alive
                 /\ handler' = IF reg_rp THEN "reg" ELSE "none"
  BY DEF Typed, Attach, InUse, Uses, Tracepoint

\* And one that leaves.
LEMMA DetachCases ==
    ASSUME Typed, NEW tp \in Tracepoint, NEW who \in Probe, Detach(tp, who)
    PROVE  /\ handler = "none" /\ UNCHANGED <<reg_count, alive>>
           /\ probes' \in [Tracepoint -> SUBSET Probe]
           /\ who \in probes[tp] /\ probes'[tp] = probes[tp] \ {who}
           /\ \A s \in Tracepoint : s # tp => probes'[s] = probes[s]
           /\ refcount' = InUse'
           /\ marked' \subseteq alive
           /\ \/ probes[tp] # {who} /\ UNCHANGED <<refcount, marked, handler>>
              \/ /\ probes[tp] = {who} /\ refcount' = refcount - 1
                 /\ refcount # 1 => marked' = marked
                 /\ handler' = IF unreg_rp THEN "unreg" ELSE "none"
  BY DEF Typed, Detach, InUse, Uses, Tracepoint

\* The kernel does not touch a flag when a tracer comes or goes while ours has
\* its probe: the processes we mark keep theirs, the others are corrected later.
LEMMA OtherTracerStep ==
    ASSUME MarkerInv, NEW tp \in Tracepoint, OtherTracer(tp)
    PROVE  MarkerInv'
  <1>t. /\ Typed /\ PhaseInv /\ CountInv /\ BoundInv /\ FlagInv
        /\ MaxCount \in Nat /\ refcount \in Nat
    BY ProcsAssumption DEF MarkerInv, Typed, InUse, Uses
  <1>h. /\ UNCHANGED <<mpc, kretprobes, reg_rp, unreg_rp, reg_count, alive>>
        /\ mpc \notin {"arm", "register"} /\ handler = "none"
        /\ reg_count \in (-MaxCount)..MaxCount
    BY DEF OtherTracer, Attach, Detach, hookVars
  <1>o. "other" \in Probe /\ "other" # "ours"
    BY DEF Probe
  <1>s. probes \in [Tracepoint -> SUBSET Probe] /\ refcount = InUse
    BY <1>t DEF Typed
  <1>e. mpc \in {"mark", "run"} => probes["sys_enter"] # {} /\ refcount # 0
    BY <1>t, <1>s DEF PhaseInv, InUse, Uses
  <1>1. CASE Attach(tp, "other")
    <2>1. /\ probes' \in [Tracepoint -> SUBSET Probe]
          /\ probes'[tp] = probes[tp] \cup {"other"}
          /\ \A q \in Tracepoint : q # tp => probes'[q] = probes[q]
          /\ refcount' = InUse'
          /\ marked' \subseteq alive /\ marked \subseteq marked'
          /\ \/ probes[tp] # {} /\ UNCHANGED <<refcount, marked, handler>>
             \/ /\ probes[tp] = {} /\ refcount' = refcount + 1
                /\ refcount # 0 => marked' = marked
                /\ handler' = IF reg_rp THEN "reg" ELSE "none"
      BY <1>1, <1>o, <1>t, AttachCases
    <2>2. Typed'
      BY <1>t, <1>h, <2>1 DEF Typed
    <2>3. PhaseInv'
      BY <1>t, <1>h, <1>o, <2>1 DEF PhaseInv, Tracepoint
    <2>4. CountInv'
      BY <1>t, <1>h, <2>1 DEF CountInv, BothArmed, Typed
    <2>5. BoundInv'
      BY <1>t, <1>h, <2>1 DEF BoundInv
    <2>6. FlagInv'
      <3>1. OursServed'
        BY <1>t, <1>h, <2>1 DEF FlagInv, OursServed
      <3>2. (mpc = "run" /\ ~kretprobes => marked \subseteq Allowed)'
        BY <1>t, <1>h, <1>e, <2>1 DEF FlagInv
      <3>u. EverybodyMarked'
        BY <1>t, <1>h, <1>e, <2>1 DEF FlagInv, EverybodyMarked, Unarmed
      <3>3. ASSUME mpc' = "run", BothArmed', handler' = "none"
            PROVE  (IF probes["sys_exit"] = {} THEN marked \subseteq Allowed ELSE marked = alive)'
        <4>1. probes[tp] # {} /\ UNCHANGED marked
          BY <1>h, <2>1, <3>3 DEF BothArmed
        <4>2. probes'["sys_exit"] = {} <=> probes["sys_exit"] = {}
          BY <2>1, <4>1 DEF Tracepoint
        <4> QED
          BY <1>t, <1>h, <3>3, <4>1, <4>2 DEF FlagInv, BothArmed
      <3>4. handler' # "unreg"
        BY <1>h, <2>1
      <3> QED
        BY <3>1, <3>2, <3>u, <3>3, <3>4 DEF FlagInv
    <2> QED
      BY <2>2, <2>3, <2>4, <2>5, <2>6 DEF MarkerInv
  <1>2. CASE Detach(tp, "other")
    <2>1. /\ probes' \in [Tracepoint -> SUBSET Probe]
          /\ "other" \in probes[tp] /\ probes'[tp] = probes[tp] \ {"other"}
          /\ \A q \in Tracepoint : q # tp => probes'[q] = probes[q]
          /\ refcount' = InUse'
          /\ marked' \subseteq alive
          /\ \/ probes[tp] # {"other"} /\ UNCHANGED <<refcount, marked, handler>>
             \/ /\ probes[tp] = {"other"} /\ refcount' = refcount - 1
                /\ refcount # 1 => marked' = marked
                /\ handler' = IF unreg_rp THEN "unreg" ELSE "none"
      BY <1>2, <1>o, <1>t, DetachCases
    <2>e. mpc \in {"mark", "run"} /\ probes[tp] = {"other"} =>
            tp = "sys_exit" /\ refcount = 2
      BY <1>t, <1>s, <1>o, <1>e DEF PhaseInv, InUse, Uses, Tracepoint
    <2>m. mpc \in {"mark", "run"} => marked' = marked
      BY <2>1, <2>e
    <2>2. Typed'
      BY <1>t, <1>h, <2>1 DEF Typed
    <2>3. PhaseInv'
      BY <1>t, <1>h, <1>o, <2>1 DEF PhaseInv, Tracepoint
    <2>4. CountInv'
      BY <1>t, <1>h, <2>1 DEF CountInv, BothArmed, Typed
    <2>5. BoundInv'
      BY <1>t, <1>h, <2>1 DEF BoundInv
    <2>6. FlagInv'
      <3>1. OursServed'
        BY <1>t, <1>h, <2>m DEF FlagInv, OursServed
      <3>2. (mpc = "run" /\ ~kretprobes => marked \subseteq Allowed)'
        BY <1>t, <1>h, <2>m DEF FlagInv
      <3>u. EverybodyMarked'
        BY <1>t, <1>h, <2>m DEF FlagInv, EverybodyMarked, Unarmed
      <3>3. ASSUME mpc' = "run", BothArmed', handler' = "none"
            PROVE  (IF probes["sys_exit"] = {} THEN marked \subseteq Allowed ELSE marked = alive)'
        <4>1. probes[tp] # {"other"} /\ UNCHANGED marked
          BY <1>h, <2>1, <3>3 DEF BothArmed
        <4>2. probes'["sys_exit"] = {} <=> probes["sys_exit"] = {}
          BY <2>1, <4>1 DEF Tracepoint
        <4> QED
          BY <1>t, <1>h, <3>3, <4>1, <4>2 DEF FlagInv, BothArmed
      <3>4. mpc' = "run" /\ handler' = "unreg" => probes'["sys_exit"] = {}
        BY <1>h, <2>1, <2>e
      <3> QED
        BY <3>1, <3>2, <3>u, <3>3, <3>4 DEF FlagInv
    <2> QED
      BY <2>2, <2>3, <2>4, <2>5, <2>6 DEF MarkerInv
  <1> QED
    BY <1>1, <1>2 DEF OtherTracer

\* The handlers bring the count up to the kernel's, and the flags up to the count.
LEMMA HandlerStep ==
    ASSUME MarkerInv, SyscallRegfuncHandler \/ SyscallUnregfuncHandler
    PROVE  MarkerInv'
  <1>t. /\ Typed /\ PhaseInv /\ CountInv /\ BoundInv /\ FlagInv
        /\ MaxCount \in Nat /\ refcount \in Nat /\ reg_count \in Int
    BY ProcsAssumption DEF MarkerInv, Typed, InUse, Uses
  <1>h. /\ UNCHANGED <<mpc, kretprobes, reg_rp, unreg_rp, probes, refcount, alive>>
        /\ handler' = "none" /\ handler # "none"
    BY DEF SyscallRegfuncHandler, SyscallUnregfuncHandler, hookVars
  <1>p. PhaseInv'
    BY <1>t, <1>h DEF PhaseInv, InUse, Uses
  <1>e. mpc = "run" => /\ probes["sys_enter"] # {}
                       /\ probes["sys_exit"] = {} => refcount = 1
                       /\ probes["sys_exit"] # {} => refcount = 2
    BY <1>t DEF PhaseInv, Typed, InUse, Uses
  <1>o. OursOnly \subseteq alive /\ OursOnly \subseteq Allowed
    BY DEF OursOnly
  <1>1. CASE SyscallRegfuncHandler
    <2>1. /\ handler = "reg" /\ reg_count' = reg_count + 1 /\ marked' = AfterReg
          /\ reg_rp /\ kretprobes
      BY <1>1, <1>t DEF SyscallRegfuncHandler, PhaseInv
    <2>2. marked' \in {OursOnly, alive, marked}
      BY <2>1 DEF AfterReg
    <2>3. Typed'
      BY <1>t, <1>h, <1>o, <2>1, <2>2 DEF Typed, BoundInv, InUse, Uses
    <2>4. CountInv' /\ BoundInv'
      BY <1>t, <1>h, <2>1 DEF CountInv, BothArmed, BoundInv
    <2>5. FlagInv'
      <3>1. OursServed'
        BY <1>t, <1>h, <2>2 DEF FlagInv, OursServed, OursOnly
      <3>2. ASSUME mpc = "run", BothArmed
            PROVE  IF probes["sys_exit"] = {} THEN marked' \subseteq Allowed ELSE marked' = alive
        <4>1. reg_count = refcount - 1
          BY <1>t, <2>1, <3>2 DEF CountInv
        <4> QED
          BY <1>t, <1>e, <1>o, <2>1, <3>2, <4>1 DEF AfterReg
      <3> QED
        BY <1>h, <2>1, <3>1, <3>2 DEF FlagInv, BothArmed, EverybodyMarked, Unarmed
    <2> QED
      BY <1>p, <2>3, <2>4, <2>5 DEF MarkerInv
  <1>2. CASE SyscallUnregfuncHandler
    <2>1. /\ handler = "unreg" /\ reg_count' = reg_count - 1
          /\ marked' = AfterUnreg(reg_count - 1)
          /\ unreg_rp /\ kretprobes
      BY <1>2, <1>t DEF SyscallUnregfuncHandler, PhaseInv
    <2>2. marked' \in {{}, OursOnly, marked}
      BY <2>1 DEF AfterUnreg
    <2>3. Typed'
      BY <1>t, <1>h, <1>o, <2>1, <2>2 DEF Typed, BoundInv, InUse, Uses
    <2>4. CountInv' /\ BoundInv'
      BY <1>t, <1>h, <2>1 DEF CountInv, BothArmed, BoundInv, PhaseInv
    <2>5. FlagInv'
      <3>1. ASSUME mpc = "run", BothArmed
            PROVE  marked' = OursOnly /\ probes["sys_exit"] = {}
        <4>1. reg_count = refcount + 1
          BY <1>t, <2>1, <3>1 DEF CountInv
        <4>2. probes["sys_exit"] = {} /\ refcount = 1
          BY <1>t, <1>e, <2>1, <3>1 DEF FlagInv
        <4> QED
          BY <2>1, <4>1, <4>2 DEF AfterUnreg
      <3>2. OursServed'
        BY <1>h, <2>1, <3>1 DEF OursServed, OursOnly, BothArmed
      <3> QED
        BY <1>h, <1>o, <2>1, <3>1, <3>2 DEF FlagInv, BothArmed, EverybodyMarked, Unarmed
    <2> QED
      BY <1>p, <2>3, <2>4, <2>5 DEF MarkerInv
  <1> QED
    BY <1>1, <1>2

\* The manager: its probe is the first, and the last to matter.
LEMMA ManagerStep ==
    ASSUME MarkerInv,
           ArmProbes \/ RegisterTrace \/ MarkRunning \/ UnregisterTrace \/ DestroyKretprobes
    PROVE  MarkerInv'
  <1>t. /\ Typed /\ PhaseInv /\ CountInv /\ BoundInv /\ FlagInv
        /\ MaxCount \in Nat /\ refcount \in Nat /\ reg_count \in Int
    BY ProcsAssumption DEF MarkerInv, Typed, InUse, Uses
  <1>1. CASE ArmProbes
    <2>1. /\ mpc = "arm" /\ mpc' = "register"
          /\ UNCHANGED <<kretprobes, probes, refcount, reg_count, handler, alive, marked>>
          /\ reg_rp' \in BOOLEAN /\ unreg_rp' \in BOOLEAN
          /\ ~kretprobes => UNCHANGED <<reg_rp, unreg_rp>>
      BY <1>1, <1>t DEF ArmProbes, traceVars, Typed
    <2>2. Typed'
      BY <1>t, <2>1 DEF Typed, InUse, Uses
    <2>3. PhaseInv'
      BY <1>t, <2>1 DEF PhaseInv, InUse, Uses
    <2>4. CountInv' /\ BoundInv'
      BY <1>t, <2>1 DEF CountInv, BoundInv, PhaseInv, Typed
    <2>5. FlagInv'
      BY <2>1 DEF FlagInv, OursServed, EverybodyMarked
    <2> QED
      BY <2>2, <2>3, <2>4, <2>5 DEF MarkerInv
  <1>2. CASE RegisterTrace
    <2>1. /\ mpc = "register" /\ mpc' = IF kretprobes THEN "run" ELSE "mark"
          /\ UNCHANGED <<kretprobes, reg_rp, unreg_rp>> /\ Attach("sys_enter", "ours")
      BY <1>2 DEF RegisterTrace
    <2>2. /\ refcount = 0 /\ reg_count = 0 /\ handler = "none"
          /\ probes["sys_enter"] = {} /\ probes["sys_exit"] = {}
      BY <1>t, <2>1 DEF PhaseInv, Typed, InUse, Uses
    <2>3. /\ UNCHANGED <<reg_count, alive>>
          /\ probes' \in [Tracepoint -> SUBSET Probe]
          /\ probes'["sys_enter"] = {"ours"} /\ probes'["sys_exit"] = {}
          /\ refcount' = InUse' /\ refcount' = 1
          /\ marked' = alive
          /\ handler' = IF reg_rp THEN "reg" ELSE "none"
      BY <1>t, <2>1, <2>2, AttachCases DEF Tracepoint, Probe
    <2>4. Typed'
      BY <1>t, <2>1, <2>3 DEF Typed
    <2>5. PhaseInv'
      BY <1>t, <2>1, <2>3 DEF PhaseInv
    <2>6. CountInv' /\ BoundInv'
      BY <1>t, <2>1, <2>2, <2>3 DEF CountInv, BothArmed, BoundInv
    <2>7. FlagInv'
      BY <1>t, <2>1, <2>3 DEF FlagInv, OursServed, EverybodyMarked, BothArmed
    <2> QED
      BY <2>4, <2>5, <2>6, <2>7 DEF MarkerInv
  <1>3. CASE MarkRunning
    <2>1. /\ mpc = "mark" /\ mpc' = "run" /\ marked' = OursOnly
          /\ UNCHANGED <<kretprobes, reg_rp, unreg_rp, probes, refcount, reg_count, handler, alive>>
          /\ ~kretprobes
      BY <1>3, <1>t DEF MarkRunning, traceVars, PhaseInv
    <2>2. Typed'
      BY <1>t, <2>1 DEF Typed, InUse, Uses, OursOnly
    <2>3. PhaseInv'
      BY <1>t, <2>1 DEF PhaseInv, InUse, Uses
    <2>4. CountInv' /\ BoundInv'
      BY <1>t, <2>1 DEF CountInv, BothArmed, BoundInv
    <2>5. FlagInv'
      BY <1>t, <2>1 DEF FlagInv, OursServed, EverybodyMarked, Unarmed, BothArmed, OursOnly,
         PhaseInv
    <2> QED
      BY <2>2, <2>3, <2>4, <2>5 DEF MarkerInv
  <1>4. CASE UnregisterTrace
    <2>1. /\ mpc = "run" /\ mpc' = "destroy" /\ UNCHANGED <<kretprobes, reg_rp, unreg_rp>>
          /\ Detach("sys_enter", "ours")
      BY <1>4 DEF UnregisterTrace
    <2>2. /\ handler = "none" /\ UNCHANGED <<reg_count, alive>>
          /\ probes' \in [Tracepoint -> SUBSET Probe]
          /\ "ours" \notin probes'["sys_enter"] /\ probes'["sys_exit"] = probes["sys_exit"]
          /\ refcount' = InUse'
          /\ marked' \subseteq alive
          /\ \/ UNCHANGED <<refcount, handler>>
             \/ refcount' = refcount - 1 /\ handler' = IF unreg_rp THEN "unreg" ELSE "none"
      BY <1>t, <2>1, DetachCases DEF Tracepoint, Probe
    <2>3. Typed'
      BY <1>t, <2>1, <2>2 DEF Typed
    <2>4. PhaseInv'
      BY <1>t, <2>1, <2>2 DEF PhaseInv
    <2>5. CountInv' /\ BoundInv'
      BY <1>t, <2>1, <2>2 DEF CountInv, BothArmed, BoundInv
    <2>6. FlagInv'
      BY <2>1 DEF FlagInv, OursServed, EverybodyMarked
    <2> QED
      BY <2>3, <2>4, <2>5, <2>6 DEF MarkerInv
  <1>5. CASE DestroyKretprobes
    <2>1. /\ mpc = "destroy" /\ mpc' \in {"destroy", "gone"} /\ handler = "none" /\ reg_rp' = FALSE
          /\ UNCHANGED <<kretprobes, probes, refcount, reg_count, handler, alive, marked>>
          /\ unreg_rp' = unreg_rp \/ unreg_rp' = FALSE
      BY <1>5 DEF DestroyKretprobes, traceVars
    <2>2. Typed'
      BY <1>t, <2>1 DEF Typed, InUse, Uses
    <2>3. PhaseInv'
      BY <1>t, <2>1 DEF PhaseInv, InUse, Uses
    <2>4. CountInv' /\ BoundInv'
      BY <1>t, <2>1 DEF CountInv, BothArmed, BoundInv
    <2>5. FlagInv'
      BY <2>1 DEF FlagInv, OursServed, EverybodyMarked
    <2> QED
      BY <2>2, <2>3, <2>4, <2>5 DEF MarkerInv
  <1> QED
    BY <1>1, <1>2, <1>3, <1>4, <1>5

\* A child is marked when its parent is, and one of ours when its parent is;
\* a process that exits takes its flag with it.
LEMMA ProcessStep ==
    ASSUME MarkerInv,
           (\E p, q \in Procs : Fork(p, q)) \/ (\E p \in Procs : Exit(p))
    PROVE  MarkerInv'
  <1>t. Typed /\ PhaseInv /\ CountInv /\ BoundInv /\ FlagInv
    BY DEF MarkerInv
  <1>h. UNCHANGED <<mpc, kretprobes, reg_rp, unreg_rp, probes, refcount, reg_count, handler>>
    BY DEF Fork, Exit, hookVars, traceVars
  <1>1. PhaseInv' /\ CountInv' /\ BoundInv' /\ BothArmed' = BothArmed
    BY <1>t, <1>h DEF PhaseInv, CountInv, BoundInv, InUse, Uses, BothArmed
  <1>2. /\ alive' \subseteq Procs /\ marked' \subseteq alive'
        /\ alive \cap Allowed \subseteq marked => alive' \cap Allowed \subseteq marked'
        /\ marked \subseteq Allowed => marked' \subseteq Allowed
        /\ marked = alive => marked' = alive'
    <2>1. CASE \E p, q \in Procs : Fork(p, q)
      <3> PICK p, q \in Procs : Fork(p, q)
        BY <2>1
      <3> QED
        BY <1>t DEF Fork, Typed
    <2>2. CASE \E p \in Procs : Exit(p)
      <3> PICK p \in Procs : Exit(p)
        BY <2>2
      <3> QED
        BY <1>t DEF Exit, Typed
    <2> QED
      BY <2>1, <2>2
  <1>3. Typed'
    BY <1>t, <1>h, <1>2 DEF Typed, InUse, Uses
  <1>4. FlagInv'
    BY <1>t, <1>h, <1>1, <1>2 DEF FlagInv, OursServed, EverybodyMarked, Unarmed
  <1> QED
    BY <1>1, <1>3, <1>4 DEF MarkerInv

\* The initial state satisfies the invariant.
LEMMA MarkerInit == Init => MarkerInv
  <1> SUFFICES ASSUME Init PROVE MarkerInv
    OBVIOUS
  <1>1. Typed
    <2>1. /\ probes \in [Tracepoint -> SUBSET Probe]
          /\ probes["sys_enter"] = {} /\ probes["sys_exit"] = {}
      BY DEF Init, Tracepoint
    <2>2. refcount = InUse
      BY <2>1 DEF Init, InUse, Uses
    <2>3. reg_count \in (-MaxCount - 2)..(MaxCount + 1)
      BY ProcsAssumption DEF Init
    <2> QED
      BY <2>1, <2>2, <2>3 DEF Init, Typed
  <1>2. PhaseInv
    BY DEF Init, PhaseInv, InUse, Uses
  <1>3. CountInv /\ BoundInv
    BY ProcsAssumption DEF Init, CountInv, BothArmed, BoundInv
  <1>4. FlagInv
    BY DEF Init, FlagInv, OursServed, EverybodyMarked
  <1> QED
    BY <1>1, <1>2, <1>3, <1>4 DEF MarkerInv

\* Every step keeps it.
LEMMA MarkerNext == MarkerInv /\ [Next]_vars => MarkerInv'
  <1> SUFFICES ASSUME MarkerInv, [Next]_vars PROVE MarkerInv'
    OBVIOUS
  <1>1. CASE UNCHANGED vars
    BY <1>1 DEF MarkerInv, vars, hookVars, traceVars, Typed, PhaseInv, CountInv, BoundInv,
       FlagInv, OursServed, EverybodyMarked, Unarmed, BothArmed, InUse, Uses
  <1>2. CASE \E tp \in DOMAIN probes : OtherTracer(tp)
    <2>1. DOMAIN probes = Tracepoint
      BY DEF MarkerInv, Typed
    <2> QED
      BY <1>2, <2>1, OtherTracerStep
  <1> QED
    BY <1>1, <1>2, HandlerStep, ManagerStep, ProcessStep DEF Next

-----------------------------------------------------------------------------
(* The theorems *)

\* The invariant holds in every reachable state.
LEMMA Marker == Spec => []MarkerInv
  BY MarkerInit, MarkerNext, PTL DEF Spec

\* The types, and that the kernel's count is the number of tracepoints in use.
THEOREM MarkerTyped == Spec => []TypeOK
  BY Marker, MarkerInvGives, PTL

\* With both kretprobes registered reg_count is the kernel's count whenever no
\* handler is under way, for any number of tracers that come and go.
THEOREM MarkerCounts == Spec => []CountInStep
  BY Marker, MarkerInvGives, PTL

\* While our probe is registered each of our processes has the flag, unless the
\* kretprobe of syscall_unregfunc was registered alone.
THEOREM MarkerServesOurs == Spec => []OursServed
  <1>1. MarkerInv => OursServed
    BY DEF MarkerInv, FlagInv
  <1> QED
    BY Marker, <1>1, PTL

\* Where both kretprobes are registered a tracer on sys_exit sees every process
\* although we mark ours only.
THEOREM MarkerServesOthers == Spec => []OthersServed
  BY Marker, MarkerInvGives, PTL

\* With nobody on sys_exit no process but ours pays for the tracepoint, where both
\* kretprobes are registered or the kernel is built without them.
THEOREM MarkerOnlyOurs == Spec => []OnlyOursMarked
  BY Marker, MarkerInvGives, PTL

\* Where CONFIG_KRETPROBES is set and neither can be registered, nothing takes
\* back that the kernel marked every process for our probe: all of them enter
\* through the tracepoint for as long as it is registered.
THEOREM UnarmedMarksAll == Spec => []EverybodyMarked
  <1>1. MarkerInv => EverybodyMarked
    BY DEF MarkerInv, FlagInv
  <1> QED
    BY Marker, <1>1, PTL

=============================================================================
