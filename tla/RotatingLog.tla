---------------------------- MODULE RotatingLog ----------------------------
(***************************************************************************)
(* The daemon's log (daemon/log_rotate.rs): a file that is appended to     *)
(* until the next line would bring it to max_bytes, and is then shifted    *)
(* into numbered backups.  Each step of a rotation may fail, which fails   *)
(* the write; the write itself may fail; and the daemon may be killed      *)
(* between any two.  A line is written whole or not at all.                *)
(*                                                                         *)
(* A line is [id, size], numbered from 1; a file is a sequence of lines.   *)
(***************************************************************************)
EXTENDS Integers, Sequences

CONSTANTS
  MaxBytes,   \* max_bytes
  MaxBackups, \* max_backups
  Sizes,      \* sizes of lines
  MaxLines,   \* bound on the lines written
  MaxFaults   \* bound on failures and kills

VARIABLES
  files,    \* the log at 0, the backups .N at N
  handle,   \* where the open file is, Lost if it was removed
  written,  \* Inner::written
  pc,       \* "down", "idle", or in a rotation "shift", "create"
  slot,     \* the file that is shifted next
  size,     \* the size of the line that waits, 0: none
  lines,    \* (history) how many lines were written
  vanished, \* (history) those that went to a file without a name
  faults

fileVars == <<files, handle, written>>
lineVars == <<size, lines, vanished>>
vars == <<fileVars, pc, slot, lineVars, faults>>

Absent == <<[id |-> 0, size |-> 0]>>
Lost == -1
Numbers == 0 .. MaxBackups

\* The length of a file: of no line, or of those before the last and the last.
Bytes(file) ==
  LET upTo[i \in 0 .. Len(file)] == IF i = 0 THEN 0 ELSE upTo[i - 1] + file[i].size
  IN  upTo[Len(file)]

Init ==
  /\ files = [n \in Numbers |-> Absent] /\ handle = Lost /\ written = 0
  /\ pc = "down" /\ slot = 0
  /\ size = 0 /\ lines = 0 /\ vanished = {}
  /\ faults = 0

\* OpenOptions::create: a log that is there is kept.
Create ==
  /\ files' = IF files[0] = Absent THEN [files EXCEPT ![0] = <<>>] ELSE files
  /\ handle' = 0

LengthFound == IF files[0] = Absent THEN 0 ELSE Bytes(files[0])

\* open_with
Open ==
  /\ pc = "down"
  /\ Create
  /\ written' = LengthFound
  /\ pc' = "idle"
  /\ UNCHANGED <<slot, lineVars, faults>>

Put(n) ==
  /\ lines' = lines + 1
  /\ files' = IF handle = Lost THEN files
              ELSE [files EXCEPT ![handle] = Append(@, [id |-> lines + 1, size |-> n])]
  /\ vanished' = IF handle = Lost THEN vanished \cup {lines + 1} ELSE vanished

\* The shifts start with the oldest backup.
Oldest == MaxBackups

\* Write::write, with room in the file or without.
Write(n) ==
  /\ pc = "idle" /\ lines < MaxLines
  /\ IF written + n < MaxBytes
     THEN /\ Put(n)
          /\ written' = written + n
          /\ UNCHANGED <<handle, pc, slot, size>>
     ELSE /\ size' = n
          /\ pc' = "shift" /\ slot' = Oldest
          /\ UNCHANGED <<fileVars, lines, vanished>>
  /\ UNCHANGED faults

\* Defect: the last of the shifts is left out.
NextSlotSkips == IF slot = MaxBackups THEN slot - 2 ELSE slot - 1

NextSlot == slot - 1

\* The oldest is removed, the others move up, the log last; what is not there is
\* skipped.  The open file goes where its name goes.
Shift ==
  /\ pc = "shift"
  /\ files' = IF slot = MaxBackups \/ files[slot] = Absent
              THEN [files EXCEPT ![slot] = Absent]
              ELSE [files EXCEPT ![slot] = Absent, ![slot + 1] = files[slot]]
  /\ handle' = IF handle # slot THEN handle
               ELSE IF slot = MaxBackups THEN Lost ELSE slot + 1
  /\ slot' = IF slot = 0 THEN 0 ELSE NextSlot
  /\ pc' = IF slot = 0 THEN "create" ELSE "shift"
  /\ UNCHANGED <<written, lineVars, faults>>

\* The reopened log takes the line.
Reopen ==
  /\ pc = "create"
  /\ handle' = 0
  /\ lines' = lines + 1
  /\ files' = [files EXCEPT ![0] = <<[id |-> lines + 1, size |-> size]>>]
  /\ written' = size
  /\ size' = 0
  /\ pc' = "idle"
  /\ UNCHANGED <<slot, vanished, faults>>

\* The log was reopened, and its write fails.
Unwritten ==
  /\ pc = "create" /\ faults < MaxFaults
  /\ faults' = faults + 1
  /\ handle' = 0 /\ files' = [files EXCEPT ![0] = <<>>]
  /\ written' = 0
  /\ size' = 0
  /\ pc' = "idle"
  /\ UNCHANGED <<slot, lines, vanished>>

\* sync, remove, rename, mkdir, open, or a write with room fails: written stays, the
\* line is gone.
Fails ==
  /\ pc # "down" /\ faults < MaxFaults
  /\ faults' = faults + 1
  /\ pc' = "idle" /\ size' = 0 /\ slot' = 0
  /\ UNCHANGED <<fileVars, lines, vanished>>

Kill ==
  /\ pc # "down" /\ faults < MaxFaults
  /\ faults' = faults + 1
  /\ pc' = "down" /\ size' = 0 /\ slot' = 0
  /\ handle' = Lost /\ written' = 0
  /\ UNCHANGED <<files, lines, vanished>>

Next == Open \/ (\E n \in Sizes : Write(n)) \/ Shift \/ Reopen \/ Unwritten \/ Fails \/ Kill
Spec == Init /\ [][Next]_vars

-----------------------------------------------------------------------------
(* Properties.                                                            *)

\* Every variable holds what the code may put there.
TypeOK ==
  /\ DOMAIN files = Numbers /\ handle \in Numbers \cup {Lost}
  /\ handle # Lost => files[handle] # Absent
  /\ written \in Nat
  /\ pc \in {"down", "idle", "shift", "create"} /\ slot \in Numbers
  /\ (pc \in {"shift", "create"}) <=> (size # 0)

\* log_rotate.rs, "bounding the disk footprint": no file reaches max_bytes, through
\* failures and restarts, unless it is a single line that does.
FootprintIsBounded ==
  \A n \in Numbers :
    files[n] # Absent => Bytes(files[n]) < MaxBytes \/ Len(files[n]) = 1

Ids(n) == IF files[n] = Absent THEN {} ELSE {files[n][i].id : i \in DOMAIN files[n]}
Kept == UNION {Ids(n) : n \in Numbers}

\* Within a file, and from each backup to those that came after it, lines stand in
\* their order.
InOrder ==
  /\ \A n \in Numbers : files[n] # Absent =>
       \A i, j \in DOMAIN files[n] : i < j => files[n][i].id < files[n][j].id
  /\ \A n, later \in Numbers : later < n =>
       \A k \in Ids(n), l \in Ids(later) : k < l

\* The files hold the newest lines in their order, without a gap but for lines that
\* vanished; and nothing is dropped while there are backups to use, unless a
\* rotation was cut short.
KeepsTheNewest ==
  /\ InOrder
  /\ \A k \in Kept : k .. lines \subseteq Kept \cup vanished
  /\ (pc = "idle" /\ faults = 0 /\ Kept # {} /\ 1 \notin Kept)
       => \A n \in Numbers : files[n] # Absent

\* The log is bounded and whole: FootprintIsBounded and KeepsTheNewest, with the types.
LogIsKept == TypeOK /\ FootprintIsBounded /\ KeepsTheNewest
=============================================================================
