---------------------------- MODULE FileRotation ----------------------------
(***************************************************************************)
(* FileTransport with its backups, one system call at a time: any call may *)
(* fail, and the process may die between two of them and start again.      *)
(* A line is its number; each has size 1.                                  *)
(***************************************************************************)
EXTENDS Integers, SequencesExt

CONSTANTS
    FileSetups,         \* transports: maxBytes, backupCount, compression
    MaxLines            \* bound: lines written

ASSUME FileAssumption ==
    /\ MaxLines \in Nat
    /\ FileSetups \subseteq [maxBytes : Nat, backupCount : Nat, gz : BOOLEAN]

Missing == <<0>>        \* no such file

VARIABLES
    file,               \* the transport as configured
    disk,               \* by number of backup, the file's lines; 0 is the file itself
    fd,                 \* "open" on the file, or "closed"
    rotating,           \* the call rotate() comes to next, or "no"
    index,              \* its loop variable
    lines,              \* history: for each line, how many rotations came before it,
    rotations           \* and how many have begun
fileVars == <<file, disk, fd, rotating, index, lines, rotations>>

Backups == 0..file.backupCount
Lines(i) == IF disk[i] = Missing THEN <<>> ELSE disk[i]

FileInit ==
    /\ file \in FileSetups
    /\ disk = [i \in Backups |-> IF i = 0 THEN <<>> ELSE Missing]
    /\ fd = "open" /\ rotating = "no" /\ index = 0 /\ lines = <<>> /\ rotations = 0

-----------------------------------------------------------------------------
\* writeSync() and the check of the size. On a closed descriptor it throws, and
\* nothing changes.
WriteLine ==
    /\ rotating = "no" /\ fd = "open" /\ Len(lines) < MaxLines
    /\ lines' = Append(lines, rotations)
    /\ disk' = [disk EXCEPT ![0] = Append(@, Len(lines'))]
    /\ rotating' = IF file.maxBytes > 0 /\ Len(disk'[0]) >= file.maxBytes THEN "close" ELSE "no"
    /\ UNCHANGED <<file, fd, index, rotations>>

\* Renames backup i over i + 1; where there is no backup i nothing happens.
Renamed(i) ==
    IF disk[i] = Missing THEN disk ELSE [disk EXCEPT ![i + 1] = disk[i], ![i] = Missing]

CloseForRotation ==
    /\ rotating = "close"
    /\ fd' = "closed" /\ rotating' = "shift"
    /\ index' = IF file.backupCount > 0 THEN file.backupCount - 1 ELSE 0
    /\ rotations' = rotations + 1
    /\ UNCHANGED <<file, disk, lines>>

\* Faulty: from the newest backup to the oldest.
ShiftUpwards ==
    /\ rotating = "shift" /\ index > 0
    /\ disk' = Renamed(file.backupCount - index)
    /\ index' = index - 1
    /\ UNCHANGED <<file, fd, rotating, lines, rotations>>

\* The loop over the backups, from the oldest to the newest.
Shift ==
    /\ rotating = "shift" /\ index > 0
    /\ disk' = Renamed(index)
    /\ index' = index - 1
    /\ UNCHANGED <<file, fd, rotating, lines, rotations>>

\* The file becomes the first backup, or is removed if none are kept. Compressed,
\* the backup is written first and the file removed afterwards.
Retire ==
    /\ rotating = "shift" /\ index = 0
    /\ CASE file.backupCount = 0 -> disk' = [disk EXCEPT ![0] = Missing] /\ rotating' = "open"
         [] file.backupCount > 0 /\ ~file.gz -> disk' = Renamed(0) /\ rotating' = "open"
         [] file.backupCount > 0 /\ file.gz -> disk' = [disk EXCEPT ![1] = disk[0]] /\ rotating' = "unlink"
    /\ UNCHANGED <<file, fd, index, lines, rotations>>

Unlink ==
    /\ rotating = "unlink"
    /\ disk' = [disk EXCEPT ![0] = Missing] /\ rotating' = "open"
    /\ UNCHANGED <<file, fd, index, lines, rotations>>

\* open(path, "a")
OpenedToAppend == [disk EXCEPT ![0] = Lines(0)]

Reopen ==
    /\ rotating = "open"
    /\ disk' = OpenedToAppend /\ fd' = "open" /\ rotating' = "no"
    /\ UNCHANGED <<file, index, lines, rotations>>

\* A call other than a rename of a missing backup fails: rotate() throws, and the
\* descriptor stays closed. Writing a compressed backup may stop halfway.
CallFails ==
    /\ rotating \in {"shift", "unlink", "open"}
    /\ rotating' = "no" /\ index' = 0
    /\ \/ UNCHANGED disk
       \/ rotating = "shift" /\ index = 0 /\ file.gz /\ file.backupCount > 0
            /\ disk' = [disk EXCEPT ![1] = <<>>]
    /\ UNCHANGED <<file, fd, lines, rotations>>

CloseFile ==
    /\ rotating = "no" /\ fd' = "closed"
    /\ UNCHANGED <<file, disk, rotating, index, lines, rotations>>

\* The process dies, at any call, and a new one constructs the transport.
Restart ==
    /\ disk' = OpenedToAppend /\ fd' = "open" /\ rotating' = "no" /\ index' = 0
    /\ UNCHANGED <<file, lines, rotations>>

FileNext ==
    \/ WriteLine \/ CloseForRotation \/ Shift \/ Retire \/ Unlink \/ Reopen
    \/ CallFails \/ CloseFile \/ Restart

-----------------------------------------------------------------------------
FileTypeOK ==
    /\ file \in FileSetups /\ fd \in {"open", "closed"}
    /\ rotating \in {"no", "close", "shift", "unlink", "open"} /\ index \in Backups
    /\ \A i \in Backups : disk[i] = Missing \/ ToSet(disk[i]) \subseteq DOMAIN lines
    /\ \A n \in DOMAIN lines : lines[n] <= rotations
    /\ fd = "open" => rotating \in {"no", "close"} /\ disk[0] # Missing

\* Whatever call failed or was the last of its process: a line is gone only if
\* backupCount rotations and one more have begun since it was written, and those
\* that are there stand in the order they were written in, oldest backup first.
\* A line stands twice only where a compressed copy was made and its file not
\* removed.
FileKept ==
    /\ \A n \in DOMAIN lines :
          \/ \E i \in Backups : n \in ToSet(Lines(i)) /\ i <= rotations - lines[n]
          \/ rotations - lines[n] > file.backupCount
    /\ \A i \in Backups : \A k \in 2..Len(Lines(i)) : Lines(i)[k - 1] < Lines(i)[k]
    /\ \A i, j \in Backups : i < j /\ Lines(i) # <<>> /\ Lines(j) # <<>> =>
          \/ Last(Lines(j)) < Head(Lines(i))
          \/ file.gz /\ IsPrefix(Lines(j), Lines(i))
=============================================================================
