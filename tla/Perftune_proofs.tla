--------------------------- MODULE Perftune_proofs ---------------------------
(* Proofs about Perftune: that the snapshot is genuine and a rollback gives *)
(* back the stock values, for any number of values and any number of        *)
(* crashes, whatever they leave of the files.                               *)
EXTENDS Perftune, TLAPS

-----------------------------------------------------------------------------
(* The invariant                                                            *)
(*                                                                          *)
(* A snapshot is read only while the values are still the kernel's, and     *)
(* what a crash leaves of it is a part of what was read then.               *)

StockFile == [there : BOOLEAN, lines : Seq({"stock"}), torn : BOOLEAN]

FilesInv ==
    /\ files \in [orig : StockFile, marker : BOOLEAN]
    /\ disk \in [orig : StockFile, marker : BOOLEAN]
    /\ Len(files.orig.lines) =< Knobs
    /\ Len(disk.orig.lines) =< Knobs

\* The parts of the script before the one that tunes.
Untuned == {"wait", "test", "restore", "remove", "snapshot"}

ScriptInv ==
    /\ pc \in Untuned \cup {"apply", "exit"}
    /\ k \in 1..(Knobs + 1)
    /\ knob \in [1..Knobs -> Value]
    /\ rolled \in BOOLEAN
    /\ rolled => pc = "exit"
    /\ pc = "snapshot" => Len(files.orig.lines) = k - 1
    /\ pc \in Untuned \/ rolled => \A n \in 1..Knobs : knob[n] = "stock"

PerfInv == FilesInv /\ ScriptInv

\* The three properties the run checks follow.
LEMMA PerfInvGives == PerfInv => TypeOK /\ SnapshotGenuine /\ RollbackGenuine
  <1> SUFFICES ASSUME PerfInv PROVE TypeOK /\ SnapshotGenuine /\ RollbackGenuine
    OBVIOUS
  <1>1. \A s \in Seq({"stock"}) : s \in Seq(Value) /\ \A n \in DOMAIN s : s[n] = "stock"
    BY DEF Value
  <1>2. ASSUME NEW fs \in {files, disk}
        PROVE  /\ fs.orig.lines \in Seq(Value) /\ Len(fs.orig.lines) =< Knobs
               /\ fs.orig.there \in BOOLEAN /\ fs.orig.torn \in BOOLEAN
               /\ fs.marker \in BOOLEAN
    BY <1>1 DEF PerfInv, FilesInv, StockFile
  <1>3. TypeOK
    BY <1>2 DEF PerfInv, ScriptInv, Untuned, TypeOK
  <1>4. SnapshotGenuine
    BY <1>1 DEF PerfInv, FilesInv, StockFile, SnapshotGenuine
  <1>5. RollbackGenuine
    BY DEF PerfInv, ScriptInv, RollbackGenuine
  <1> QED
    BY <1>3, <1>4, <1>5

-----------------------------------------------------------------------------
(* The script *)

\* A file with its lines replaced is a snapshot still.
LEMMA NewSnapshot ==
    ASSUME FilesInv, NEW l \in Seq({"stock"}), Len(l) =< Knobs, NEW torn \in BOOLEAN
    PROVE  /\ File(l, torn) \in StockFile
           /\ [files EXCEPT !.orig = File(l, torn)] \in [orig : StockFile, marker : BOOLEAN]
           /\ [files EXCEPT !.orig.lines = l] \in [orig : StockFile, marker : BOOLEAN]
  BY DEF FilesInv, File, StockFile

\* Start, Test and Remove touch no value.
LEMMA QuietPart == PerfInv /\ (Start \/ Test \/ Remove) => PerfInv'
  <1> SUFFICES ASSUME PerfInv, Start \/ Test \/ Remove PROVE PerfInv'
    OBVIOUS
  <1>i. FilesInv /\ ScriptInv /\ Knobs \in Nat \ {0}
    BY KnobsAssumption DEF PerfInv
  <1>k. 1 \in 1..(Knobs + 1)
    BY <1>i
  <1>1. CASE Start
    BY <1>1, <1>i DEF Start, Goto, PerfInv, FilesInv, ScriptInv, Untuned
  <1>2. CASE Test
    <2>1. /\ pc = "test" /\ k' = 1 /\ UNCHANGED <<knob, disk, rolled>> /\ ~rolled
          /\ \/ pc' \in {"restore", "remove"} /\ UNCHANGED files
             \/ pc' = "apply" /\ UNCHANGED files
             \/ pc' = "snapshot" /\ files' = [files EXCEPT !.orig = File(<< >>, FALSE)]
      BY <1>2, <1>i DEF Test, Goto, Then, ScriptInv
    <2>2. CASE UNCHANGED files /\ pc' # "snapshot"
      BY <1>i, <1>k, <2>1, <2>2 DEF PerfInv, FilesInv, ScriptInv, Untuned
    <2>3. CASE pc' = "snapshot" /\ files' = [files EXCEPT !.orig = File(<< >>, FALSE)]
      <3> DEFINE l == << >>
                 f == File(l, FALSE)
      <3>1. l \in Seq({"stock"}) /\ Len(l) = 0 /\ Len(l) =< Knobs
        BY <1>i
      <3> HIDE DEF l
      <3>2. /\ files' \in [orig : StockFile, marker : BOOLEAN]
            /\ files'.orig.lines = l
        <4>1. files' = [files EXCEPT !.orig = f]
          BY <2>3 DEF l
        <4>2. f.lines = l
          BY DEF File
        <4>3. [files EXCEPT !.orig = f] \in [orig : StockFile, marker : BOOLEAN]
          BY <1>i, <3>1, NewSnapshot
        <4> HIDE DEF f
        <4> QED
          BY <1>i, <4>1, <4>2, <4>3 DEF FilesInv
      <3>3. FilesInv'
        BY <1>i, <2>1, <3>1, <3>2 DEF FilesInv
      <3>4. ScriptInv'
        <4>1. Len(files'.orig.lines) = k' - 1
          BY <2>1, <3>1, <3>2
        <4> QED
          BY <1>i, <1>k, <2>1, <2>3, <3>2, <4>1 DEF ScriptInv, Untuned
      <3> QED
        BY <3>3, <3>4 DEF PerfInv
    <2> QED
      BY <2>1, <2>2, <2>3
  <1>3. CASE Remove
    <2>1. /\ pc = "remove" /\ pc' = "exit" /\ rolled' = TRUE
          /\ UNCHANGED <<k, knob, disk>> /\ files' = [files EXCEPT !.marker = FALSE]
      BY <1>3 DEF Remove, Goto
    <2>2. FilesInv'
      BY <1>i, <2>1 DEF FilesInv
    <2>3. ScriptInv'
      BY <1>i, <2>1 DEF ScriptInv, Untuned
    <2> QED
      BY <2>2, <2>3 DEF PerfInv
  <1> QED
    BY <1>1, <1>2, <1>3

\* What a rollback writes is stock.
LEMMA RestorePart == PerfInv /\ Restore => PerfInv'
  <1> SUFFICES ASSUME PerfInv, Restore PROVE FilesInv' /\ ScriptInv'
    BY DEF PerfInv
  <1>i. FilesInv /\ ScriptInv /\ Knobs \in Nat \ {0}
    BY KnobsAssumption DEF PerfInv
  <1> DEFINE l == files.orig.lines
  <1>l. l \in Seq({"stock"}) /\ Len(l) =< Knobs
    BY <1>i DEF FilesInv, StockFile
  <1>1. pc = "restore" /\ UNCHANGED <<files, disk, rolled>>
    BY DEF Restore, Goto
  <1>2. FilesInv'
    BY <1>i, <1>1 DEF FilesInv
  <1>3. CASE k \in DOMAIN l
    <2>1. pc' = "restore" /\ k' = k + 1 /\ knob' = [knob EXCEPT ![k] = l[k]]
      BY <1>3 DEF Restore, Restored, Goto
    <2>2. k \in 1..Knobs /\ l[k] = "stock"
      BY <1>i, <1>3, <1>l
    <2>3. k' \in 1..(Knobs + 1)
      BY <1>i, <2>1, <2>2
    <2>4. knob' \in [1..Knobs -> Value] /\ \A n \in 1..Knobs : knob'[n] = "stock"
      BY <1>i, <1>1, <2>1, <2>2 DEF ScriptInv, Untuned, Value
    <2> QED
      BY <1>i, <1>1, <1>2, <2>1, <2>3, <2>4 DEF ScriptInv, Untuned
  <1>4. CASE k \notin DOMAIN l
    <2>1. pc' = "remove" /\ UNCHANGED <<knob, k>>
      BY <1>4 DEF Restore, Restored, Goto
    <2> QED
      BY <1>i, <1>1, <1>2, <2>1 DEF ScriptInv, Untuned
  <1> QED
    BY <1>3, <1>4

\* What a snapshot reads is stock: nothing is tuned yet.
LEMMA SnapshotPart == PerfInv /\ Snapshot => PerfInv'
  <1> SUFFICES ASSUME PerfInv, Snapshot PROVE FilesInv' /\ ScriptInv'
    BY DEF PerfInv
  <1>i. FilesInv /\ ScriptInv /\ Knobs \in Nat \ {0}
    BY KnobsAssumption DEF PerfInv
  <1> DEFINE l == files.orig.lines
             new == Append(l, knob[k])
  <1>l. l \in Seq({"stock"}) /\ Len(l) =< Knobs
    BY <1>i DEF FilesInv, StockFile
  <1>1. pc = "snapshot" /\ UNCHANGED <<knob, disk, rolled>> /\ Len(l) = k - 1
    BY <1>i DEF Snapshot, Goto, ScriptInv
  <1>2. CASE k =< Knobs
    <2>1. /\ pc' = "snapshot" /\ k' = k + 1
          /\ files' = [files EXCEPT !.orig.lines = new]
      BY <1>2 DEF Snapshot, Goto
    <2>2. knob[k] = "stock" /\ k \in 1..Knobs
      BY <1>i, <1>1, <1>2 DEF ScriptInv, Untuned
    <2>3. new \in Seq({"stock"}) /\ Len(new) = k /\ Len(new) =< Knobs
      BY <1>l, <1>1, <2>2
    <2> HIDE DEF new
    <2>4. /\ files' \in [orig : StockFile, marker : BOOLEAN]
          /\ files'.orig.lines = new
      BY <1>i, <2>1, <2>3, NewSnapshot DEF FilesInv, StockFile
    <2>5. FilesInv'
      BY <1>i, <1>1, <2>3, <2>4 DEF FilesInv
    <2>6. k' \in 1..(Knobs + 1) /\ Len(new) = k' - 1
      BY <1>i, <2>1, <2>2, <2>3
    <2>7. ScriptInv'
      BY <1>i, <1>1, <2>1, <2>4, <2>6 DEF ScriptInv, Untuned
    <2> QED
      BY <2>5, <2>7
  <1>3. CASE ~(k =< Knobs)
    <2>1. pc' = "apply" /\ k' = 1 /\ UNCHANGED files
      BY <1>3 DEF Snapshot, Goto, Then
    <2>2. 1 \in 1..(Knobs + 1)
      BY <1>i
    <2> QED
      BY <1>i, <1>1, <2>1, <2>2 DEF FilesInv, ScriptInv, Untuned
  <1> QED
    BY <1>2, <1>3

\* The tuned values come after the part that reads, and never after a rollback.
LEMMA ApplyPart == PerfInv /\ Apply => PerfInv'
  <1> SUFFICES ASSUME PerfInv, Apply PROVE FilesInv' /\ ScriptInv'
    BY DEF PerfInv
  <1>i. FilesInv /\ ScriptInv /\ Knobs \in Nat \ {0}
    BY KnobsAssumption DEF PerfInv
  <1>1. pc = "apply" /\ UNCHANGED <<files, disk, rolled>> /\ ~rolled
    BY <1>i DEF Apply, Goto, ScriptInv
  <1>2. FilesInv'
    BY <1>i, <1>1 DEF FilesInv
  <1>3. CASE k =< Knobs
    <2>1. pc' = "apply" /\ k' = k + 1 /\ knob' = [knob EXCEPT ![k] = "tuned"]
      BY <1>3 DEF Apply, Goto
    <2>2. k' \in 1..(Knobs + 1)
      BY <1>i, <1>3, <2>1 DEF ScriptInv
    <2>3. knob' \in [1..Knobs -> Value]
      BY <1>i, <2>1 DEF ScriptInv, Value
    <2> QED
      BY <1>i, <1>1, <1>2, <2>1, <2>2, <2>3 DEF ScriptInv, Untuned
  <1>4. CASE ~(k =< Knobs)
    <2>1. pc' = "exit" /\ k' = 1 /\ UNCHANGED knob
      BY <1>4 DEF Apply, Goto, Then
    <2>2. 1 \in 1..(Knobs + 1)
      BY <1>i
    <2> QED
      BY <1>i, <1>1, <1>2, <2>1, <2>2 DEF ScriptInv, Untuned
  <1> QED
    BY <1>3, <1>4

-----------------------------------------------------------------------------
(* The user and the device *)

\* A boot finds genuine files and the kernel's own values.
LEMMA BootStep ==
    ASSUME PerfInv, NEW left \in [orig : StockFile, marker : BOOLEAN],
           Len(left.orig.lines) =< Knobs, Boot(left)
    PROVE  PerfInv'
  <1>1. /\ files' = left /\ disk' = left /\ pc' = "wait" /\ k' = 1
        /\ knob' = [n \in 1..Knobs |-> "stock"] /\ rolled' = FALSE
    BY DEF Boot
  <1>2. FilesInv'
    BY <1>1 DEF FilesInv
  <1>3. 1 \in 1..(Knobs + 1)
    BY KnobsAssumption
  <1>4. ScriptInv'
    BY <1>1, <1>3 DEF ScriptInv, Untuned, Value
  <1> QED
    BY <1>2, <1>4 DEF PerfInv

\* What a crash leaves of the snapshot is genuine and no longer than it.
LEMMA LeftGenuine ==
    ASSUME FilesInv, NEW o \in Left
    PROVE  o \in StockFile /\ Len(o.lines) =< Knobs
  <1> DEFINE old == disk.orig
             new == files.orig
  <1>1. /\ old \in StockFile /\ new \in StockFile
        /\ Len(old.lines) =< Knobs /\ Len(new.lines) =< Knobs
        /\ old.lines \in Seq({"stock"}) /\ new.lines \in Seq({"stock"})
    BY DEF FilesInv, StockFile
  <1>2. ASSUME NEW n \in Len(old.lines)..(Len(new.lines) - 1), NEW torn \in BOOLEAN
        PROVE  File(SubSeq(new.lines, 1, n), torn) \in StockFile
               /\ Len(File(SubSeq(new.lines, 1, n), torn).lines) =< Knobs
    <2> DEFINE l == new.lines
               s == SubSeq(l, 1, n)
    <2>1. l \in Seq({"stock"}) /\ n \in Nat /\ n =< Len(l) /\ Len(l) =< Knobs /\ Len(l) \in Nat
      BY <1>1, <1>2
    <2> HIDE DEF l
    <2>2. s \in Seq({"stock"}) /\ Len(s) = n
      BY <2>1
    <2>3. n =< Knobs
      BY <2>1, KnobsAssumption
    <2> HIDE DEF s
    <2>4. File(s, torn) \in StockFile /\ File(s, torn).lines = s
      BY <2>2 DEF File, StockFile
    <2> QED
      BY <2>2, <2>3, <2>4 DEF l, s
  <1> QED
    BY <1>1, <1>2 DEF Left

\* Neither the user nor a crash makes a snapshot of tuned values.
LEMMA DeviceStep == PerfInv /\ (RequestRollback \/ WriteBack \/ Reboot \/ Crash) => PerfInv'
  <1> SUFFICES ASSUME PerfInv, RequestRollback \/ WriteBack \/ Reboot \/ Crash PROVE PerfInv'
    OBVIOUS
  <1>i. FilesInv /\ ScriptInv
    BY DEF PerfInv
  <1>1. CASE RequestRollback
    <2>1. /\ files' = [files EXCEPT !.marker = TRUE] /\ UNCHANGED <<pc, k, knob, disk, rolled>>
      BY <1>1 DEF RequestRollback
    <2>2. files' \in [orig : StockFile, marker : BOOLEAN] /\ files'.orig = files.orig
      BY <1>i, <2>1 DEF FilesInv
    <2> QED
      BY <1>i, <2>1, <2>2 DEF PerfInv, FilesInv, ScriptInv
  <1>2. CASE WriteBack
    BY <1>2, <1>i DEF WriteBack, PerfInv, FilesInv, ScriptInv
  <1>3. CASE Reboot
    BY <1>3, <1>i, BootStep DEF Reboot, FilesInv
  <1>4. CASE Crash
    <2> PICK o \in Left, m \in {disk.marker, files.marker} : Boot([orig |-> o, marker |-> m])
      BY <1>4 DEF Crash
    <2> DEFINE left == [orig |-> o, marker |-> m]
    <2>1. o \in StockFile /\ Len(o.lines) =< Knobs /\ m \in BOOLEAN
      BY <1>i, LeftGenuine DEF FilesInv
    <2>2. left \in [orig : StockFile, marker : BOOLEAN] /\ Len(left.orig.lines) =< Knobs
      BY <2>1
    <2> QED
      BY <2>2, BootStep
  <1> QED
    BY <1>1, <1>2, <1>3, <1>4

-----------------------------------------------------------------------------
(* The theorems *)

\* The first boot has no files.
LEMMA PerfInit == Init => PerfInv
  <1> SUFFICES ASSUME Init PROVE FilesInv /\ ScriptInv
    BY DEF PerfInv
  <1>1. NoFile \in StockFile /\ Len(NoFile.lines) =< Knobs
    BY KnobsAssumption DEF NoFile, StockFile
  <1>2. FilesInv
    BY <1>1 DEF Init, FilesInv
  <1>3. 1 \in 1..(Knobs + 1)
    BY KnobsAssumption
  <1>4. ScriptInv
    BY <1>3 DEF Init, ScriptInv, Untuned, Value
  <1> QED
    BY <1>2, <1>4

\* The invariant holds in every reachable state, with or without fairness.
LEMMA Perf == Spec => []PerfInv
  <1>1. PerfInv /\ [Next]_vars => PerfInv'
    <2> SUFFICES ASSUME PerfInv, [Next]_vars PROVE PerfInv'
      OBVIOUS
    <2>1. CASE UNCHANGED vars
      BY <2>1 DEF vars, PerfInv, FilesInv, ScriptInv
    <2> QED
      BY <2>1, QuietPart, RestorePart, SnapshotPart, ApplyPart, DeviceStep DEF Next, Script
  <1> QED
    BY PerfInit, <1>1, PTL DEF Spec

\* The types; in particular no snapshot is longer than one run writes.
THEOREM PerftuneTyped == Spec => []TypeOK
  BY Perf, PerfInvGives, PTL

\* What the snapshot says is stock, wherever the device crashed while it was written.
THEOREM SnapshotSafe == Spec => []SnapshotGenuine
  BY Perf, PerfInvGives, PTL

\* After a rollback every value is stock for the rest of the boot, whatever
\* earlier crashes left of the snapshot it read.
THEOREM RollbackSafe == Spec => []RollbackGenuine
  BY Perf, PerfInvGives, PTL

=============================================================================
