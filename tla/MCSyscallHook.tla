--------------------------- MODULE MCSyscallHook ---------------------------
(* Small instances of SyscallHook: the six registered slots, two more that  *)
(* ksud hooks at boot, and one or two that the kernel does not implement.   *)
EXTENDS SyscallHook

MCRealSlots == Registered \cup {"read", "fstat"}

\* One candidate for the dispatcher slot, or two, so that one stays genuine.
MCOneNi == {"ni1"}
MCTwoNi == {"ni1", "ni2"}
MCSlots == MCRealSlots \cup MCOneNi
MCSlotsTwoNi == MCRealSlots \cup MCTwoNi

\* syscall_hook.h:41-47: execve stays hooked by ksud, read and fstat are unhooked again.
MCBootHooks == {"execve", "read", "fstat"}
MCBootUnhooks == {"read", "fstat"}

\* Stage 1 only, stage 2 over a ksud hook, stage 2 only, ksud only, unimplemented.
MCMixedCalls == {"reboot", "execve", "newfstatat", "read", "ni1"}

MCAllFaults == {"hook", "unhook", "exit"}
=============================================================================
