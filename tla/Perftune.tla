------------------------------ MODULE Perftune ------------------------------
(* modules/perftune/service.sh: at every boot it either applies its tuned   *)
(* values, after a snapshot of the stock ones at the first run, or rolls    *)
(* back to that snapshot, if the user left a marker file.  The device may   *)
(* crash between any two steps: the values are then stock again, and of the *)
(* files what the disk has of them is left.                                 *)
EXTENDS Integers, Sequences

CONSTANTS
    Knobs,     \* how many values there are, written in one order
    MaxBoots   \* bound: reboots and crashes together

ASSUME KnobsAssumption == Knobs \in Nat \ {0} /\ MaxBoots \in Nat

VARIABLES
    pc,      \* "wait", "test", "restore", "remove", "snapshot", "apply", "exit"
    k,       \* the next line of the file, or the next knob
    knob,    \* per knob: "stock", "tuned", or "cut" short
    files,   \* $ORIG and $ROLLBACK as the script sees them
    disk,    \* as a crash would leave them, at least
    rolled,  \* history: a rollback was completed in this boot
    boots

vars == <<pc, k, knob, files, disk, rolled, boots>>

\* A file of complete lines, and whether a line without its end follows them.
File(lines, torn) == [there |-> TRUE, lines |-> lines, torn |-> torn]
NoFile == [there |-> FALSE, lines |-> << >>, torn |-> FALSE]

Init ==
    /\ pc = "wait" /\ k = 1
    /\ knob = [n \in 1..Knobs |-> "stock"]
    /\ files = [orig |-> NoFile, marker |-> FALSE]
    /\ disk = files
    /\ rolled = FALSE
    /\ boots = 0

Goto(from, to) == pc = from /\ pc' = to

-----------------------------------------------------------------------------
(* The script *)

\* Faulty variant: the two last parts are swapped.
ThenSwapped == [test |-> "apply", apply |-> "snapshot", snapshot |-> "exit"]

\* The order of the parts of the script at a first run.
Then == [test |-> "snapshot", snapshot |-> "apply", apply |-> "exit"]

\* boot_completed and the 150 s after it.
Start == Goto("wait", "test") /\ UNCHANGED <<k, knob, files, disk, rolled, boots>>

\* Faulty variant: a file without the end of its last line is read whole.
RestoredTorn(f) == IF f.torn THEN Append(f.lines, "cut") ELSE f.lines

\* What the read loop gets: it ends at a line that has no end.
Restored(f) == f.lines

\* Faulty variant: a snapshot at every run, appended to the one before.
TestAppend ==
    /\ \/ /\ files.marker
          /\ Goto("test", IF files.orig.there THEN "restore" ELSE "remove")
          /\ UNCHANGED files
       \/ /\ ~files.marker
          /\ Goto("test", Then.test)
          /\ files' = [files EXCEPT !.orig.there = TRUE]
    /\ k' = 1
    /\ UNCHANGED <<knob, disk, rolled, boots>>

\* if [ -f "$ROLLBACK" ], if [ -f "$ORIG" ], if [ ! -f "$ORIG" ].  Where the file
\* cannot be created the script goes on all the same.
Test ==
    /\ \/ /\ files.marker
          /\ Goto("test", IF files.orig.there THEN "restore" ELSE "remove")
          /\ UNCHANGED files
       \/ /\ ~files.marker /\ files.orig.there
          /\ Goto("test", "apply")
          /\ UNCHANGED files
       \/ /\ ~files.marker /\ ~files.orig.there
          /\ \/ /\ Goto("test", Then.test)
                /\ files' = [files EXCEPT !.orig = File(<< >>, FALSE)]
             \/ Goto("test", Then.snapshot) /\ UNCHANGED files
    /\ k' = 1
    /\ UNCHANGED <<knob, disk, rolled, boots>>

Restore ==
    /\ IF k \in DOMAIN Restored(files.orig)
       THEN /\ Goto("restore", "restore")
            /\ knob' = [knob EXCEPT ![k] = Restored(files.orig)[k]]
            /\ k' = k + 1
       ELSE Goto("restore", "remove") /\ UNCHANGED <<knob, k>>
    /\ UNCHANGED <<files, disk, rolled, boots>>

\* Faulty variant: the marker stays.
RemoveNothing ==
    /\ Goto("remove", "exit")
    /\ rolled' = TRUE
    /\ UNCHANGED <<k, knob, files, disk, boots>>

\* rm -f "$ROLLBACK"; exit 0
Remove ==
    /\ Goto("remove", "exit")
    /\ files' = [files EXCEPT !.marker = FALSE]
    /\ rolled' = TRUE
    /\ UNCHANGED <<k, knob, disk, boots>>

Snapshot ==
    /\ IF k =< Knobs
       THEN /\ Goto("snapshot", "snapshot")
            /\ files' = [files EXCEPT !.orig.lines = Append(@, knob[k])]
            /\ k' = k + 1
       ELSE Goto("snapshot", Then.snapshot) /\ k' = 1 /\ UNCHANGED files
    /\ UNCHANGED <<knob, disk, rolled, boots>>

Apply ==
    /\ IF k =< Knobs
       THEN /\ Goto("apply", "apply")
            /\ knob' = [knob EXCEPT ![k] = "tuned"]
            /\ k' = k + 1
       ELSE Goto("apply", Then.apply) /\ k' = 1 /\ UNCHANGED knob
    /\ UNCHANGED <<files, disk, rolled, boots>>

-----------------------------------------------------------------------------
(* The user and the device *)

RequestRollback ==
    /\ ~files.marker
    /\ files' = [files EXCEPT !.marker = TRUE]
    /\ UNCHANGED <<pc, k, knob, disk, rolled, boots>>

WriteBack == disk' = files /\ UNCHANGED <<pc, k, knob, files, rolled, boots>>

\* What a crash may leave of the snapshot: it is written once, from start to end.
Left ==
    LET old == disk.orig
        new == files.orig
    IN  {old, new} \cup {File(SubSeq(new.lines, 1, n), torn) :
                            n \in Len(old.lines)..(Len(new.lines) - 1), torn \in BOOLEAN}

\* A new boot: every value is the kernel's own again.
Boot(left) ==
    /\ boots < MaxBoots
    /\ boots' = boots + 1
    /\ files' = left /\ disk' = left
    /\ pc' = "wait" /\ k' = 1
    /\ knob' = [n \in 1..Knobs |-> "stock"]
    /\ rolled' = FALSE

Reboot == Boot(files)

Crash == \E o \in Left, m \in {disk.marker, files.marker} : Boot([orig |-> o, marker |-> m])

-----------------------------------------------------------------------------
Script == Start \/ Test \/ Restore \/ Remove \/ Snapshot \/ Apply

Next == Script \/ RequestRollback \/ WriteBack \/ Reboot \/ Crash

Spec == Init /\ [][Next]_vars

\* The script runs on for as long as the device does.
FairSpec == Spec /\ WF_vars(Script)

-----------------------------------------------------------------------------
(* Properties *)

Value == {"stock", "tuned", "cut"}

\* Every variable has its type, and no snapshot is longer than one run writes.
TypeOK ==
    /\ pc \in {"wait", "test", "restore", "remove", "snapshot", "apply", "exit"}
    /\ k \in 1..(Knobs + 1)
    /\ knob \in [1..Knobs -> Value]
    /\ \A fs \in {files, disk} :
         /\ fs.orig.lines \in Seq(Value) /\ Len(fs.orig.lines) =< Knobs
         /\ fs.orig.there \in BOOLEAN /\ fs.orig.torn \in BOOLEAN
         /\ fs.marker \in BOOLEAN
    /\ rolled \in BOOLEAN

\* However often the device crashed while the snapshot was written, what it
\* says is stock (README of perftune, "before any knobs are applied").
SnapshotGenuine ==
    \A n \in DOMAIN files.orig.lines : files.orig.lines[n] = "stock"

\* After a rollback every value is stock, and stays so for this boot, even
\* from a snapshot a crash has cut short.
RollbackGenuine == rolled => \A n \in 1..Knobs : knob[n] = "stock"

\* A marker that is on disk when the device boots is served and removed.
RollbackServed == pc = "wait" /\ files.marker /\ disk.marker ~> ~files.marker

=============================================================================
