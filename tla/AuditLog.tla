-------------------------------- MODULE AuditLog --------------------------------
(***************************************************************************)
(* AuditLogger and AuditWriter (crates/server/src/audit.rs): entries go     *)
(* through a channel to one task, which appends them to a file and rotates  *)
(* it.  Every operation on the file system may fail by itself, and the      *)
(* server may stop at any point: its next start finds the same files.       *)
(*                                                                          *)
(* An entry is its number among those written; all are equally long.  Slot  *)
(* 0 is the log, slot i the file with suffix i.  What a message may leave   *)
(* behind is the set of outcomes of handling it, one of which is taken.     *)
(***************************************************************************)
EXTENDS Integers, Sequences, FiniteSets

CONSTANTS
  MaxFiles,    \* max_files
  SizeLimit,   \* max_size_mb, in entries
  EntryLimit,  \* max_entries
  MaxEntries,  \* bound of the runs: entries ever written
  MaxMessages  \* bound of the runs: messages in the channel

ASSUME AuditAssumption ==
  /\ MaxFiles \in Nat /\ SizeLimit \in Nat \ {0} /\ EntryLimit \in Nat \ {0}
  /\ MaxEntries \in Nat /\ MaxMessages \in Nat

VARIABLES
  channel,    \* AuditMessages on their way: "log", "rotate" or "shutdown"
  writing,    \* run has not ended
  trail       \* the writer and its files

auditVars == <<channel, writing, trail>>

Slots == 0 .. (IF MaxFiles < 2 THEN 1 ELSE MaxFiles - 1)

AuditInit ==
  /\ channel = <<>>
  /\ writing = TRUE
  /\ trail = [files |-> <<>>,      \* slot -> its entries, for the files that exist
              open |-> FALSE,      \* file is Some
              inFile |-> 0,        \* entries_written
              size |-> 0,          \* current_file_size
              written |-> 0,       \* history: entries written
              rotations |-> 0,     \* history: rotations, up to MaxFiles
              failed |-> FALSE]    \* history: an operation has failed

\* log, rotate and shutdown
SendMessage(kind) ==
  /\ Len(channel) < MaxMessages
  /\ channel' = Append(channel, kind)
  /\ UNCHANGED <<writing, trail>>

\* open_file
OpenOutcomes(t) ==
  LET log == IF 0 \in DOMAIN t.files THEN t.files[0] ELSE <<>>
      files == [i \in DOMAIN t.files \cup {0} |-> IF i = 0 THEN log ELSE t.files[i]]
  IN { [t EXCEPT !.files = files, !.open = TRUE, !.inFile = 0, !.size = Len(log)],
       [t EXCEPT !.failed = TRUE] }

\* Mutant: from the youngest file up, each over the next one.
ShiftUp(files, broken) ==
  [i \in {1 : j \in DOMAIN files \cap {0}} |-> files[0]]

\* From the oldest file down each moves to the next suffix, over a file that
\* could not be moved; the oldest one is removed.  Slots in "broken" stay.
Shift(files, broken) ==
  LET moves(i) == i \in DOMAIN files \ broken
      arrives(i) == i > 0 /\ moves(i - 1)
  IN [i \in {i \in Slots : arrives(i) \/ i \in DOMAIN files \cap broken
                           \/ (MaxFiles < 2 /\ i = 1 /\ 1 \in DOMAIN files)} |->
        IF arrives(i) THEN files[i - 1] ELSE files[i]]

\* Rotations of a log that exists, up to as many as the files show.
Rotated(t) == IF 0 \in DOMAIN t.files /\ t.rotations < MaxFiles
              THEN t.rotations + 1 ELSE t.rotations

\* rotate: closes the log, moves the files and opens another log.
RotateOutcomes(t) ==
  UNION {OpenOutcomes([t EXCEPT !.open = FALSE, !.files = Shift(t.files, broken),
                                !.rotations = Rotated(t), !.failed = @ \/ broken # {}])
           : broken \in SUBSET DOMAIN t.files}

ShouldRotate(t) == t.size >= SizeLimit \/ t.inFile >= EntryLimit

AppendOutcomes(t) ==
  LET longer == [t EXCEPT !.files[0] = Append(@, t.written + 1), !.written = @ + 1,
                          !.inFile = @ + 1, !.size = @ + 1]
  IN {[t EXCEPT !.failed = TRUE]}
     \cup (IF ShouldRotate(longer) THEN RotateOutcomes(longer) ELSE {longer})

\* write_entry: without an open log the entry is lost.
WriteOutcomes(t) ==
  UNION {IF ready.open THEN AppendOutcomes(ready) ELSE {ready}
           : ready \in IF t.open THEN {t} ELSE OpenOutcomes(t)}

\* A turn of run.
TakeMessage ==
  /\ writing /\ channel # <<>>
  /\ channel' = Tail(channel)
  /\ \/ Head(channel) = "log" /\ trail.written < MaxEntries
        /\ trail' \in WriteOutcomes(trail) /\ UNCHANGED writing
     \/ Head(channel) = "rotate"
        /\ trail' \in RotateOutcomes(trail) /\ UNCHANGED writing
     \/ Head(channel) = "shutdown" /\ writing' = FALSE /\ UNCHANGED trail

\* The server ends, in order or not, and is started again.
Restart ==
  /\ channel' = <<>>
  /\ writing' = TRUE
  /\ trail' = [trail EXCEPT !.open = FALSE, !.inFile = 0, !.size = 0]

AuditNext ==
  \/ \E kind \in {"log", "rotate", "shutdown"} : SendMessage(kind)
  \/ TakeMessage
  \/ Restart

AuditSpec == AuditInit /\ [][AuditNext]_auditVars

-----------------------------------------------------------------------------
(* Properties *)

\* The type invariant.
AuditTypeOK ==
  /\ channel \in Seq({"log", "rotate", "shutdown"}) /\ Len(channel) <= MaxMessages
  /\ writing \in BOOLEAN
  /\ DOMAIN trail.files \subseteq Slots
  /\ \A i \in DOMAIN trail.files : trail.files[i] \in Seq(1 .. trail.written)
  /\ trail.open \in BOOLEAN /\ trail.failed \in BOOLEAN
  /\ trail.inFile \in Nat /\ trail.size \in Nat /\ trail.rotations \in Nat

Kept == UNION {{trail.files[i][k] : k \in DOMAIN trail.files[i]} : i \in DOMAIN trail.files}

\* The entries of an older file were written before those of a younger one,
\* whatever operations failed and wherever the server was stopped.  When none
\* failed, the files hold the latest entries without a gap, and as many
\* rotations back as there are files for (write_entry, rotate).
TrailIsKept ==
  /\ \A i, j \in DOMAIN trail.files :
       \A k \in DOMAIN trail.files[i], l \in DOMAIN trail.files[j] :
         i > j \/ (i = j /\ k < l) => trail.files[i][k] < trail.files[j][l]
  /\ ~trail.failed =>
       /\ \E first \in 1 .. trail.written + 1 : Kept = first .. trail.written
       /\ \A i \in Slots \ {0} : i <= trail.rotations => i \in DOMAIN trail.files

===============================================================================
