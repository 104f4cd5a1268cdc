------------------------------ MODULE History ------------------------------
(***************************************************************************)
(* The local request history, .postly/history.jsonl, as the desktop app and *)
(* the CLI share it (record_history, compact_history, clear_history and     *)
(* history_filtered of postly-core/src/storage.rs).                         *)
(*                                                                         *)
(* Every process appends to the file and then compacts it, with no lock:    *)
(* the steps below are its system calls.  `writeln!` on an unbuffered File  *)
(* is two of them, one for the line and one for the newline.  Compaction     *)
(* replaces the file by a rename, so a descriptor opened earlier keeps        *)
(* writing to a file that no longer has a name.                              *)
(*                                                                         *)
(* An entry is the number of the append that wrote it, and has a size; a     *)
(* line is the sequence of entries whose text it holds, one when all is well.*)
(***************************************************************************)
EXTENDS Naturals, Sequences, FiniteSets

CONSTANTS
  Procs,         \* the processes that share the workspace
  Sizes,         \* the sizes an entry's JSON text may have
  MaxEntries,    \* MAX_HISTORY_ENTRIES
  MaxBytes,      \* MAX_HISTORY_BYTES
  MaxAppends,    \* bound: appends in a behaviour
  MaxAborts      \* bound: crashes and I/O errors in a behaviour

VARIABLES
  file,          \* the content of each file that ever had the name
  named,         \* which of them has the name now (0: none)
  at,            \* where each process is in `record_history`
  fd,            \* the file its append descriptor refers to
  long,          \* metadata().len() was above MAX_HISTORY_BYTES
  snapshot,      \* the lines `compact_history` will write back
  log,           \* history: the sizes of the entries, in append order
  cleared,       \* history: entries appended when the file was last cleared
  overlapped,    \* history: two operations ran at the same time
  aborts         \* history: operations that a crash or an error cut short

procVars == <<at, fd, long, snapshot>>
historyVars == <<file, named, procVars, log, cleared, overlapped, aborts>>

ASSUME HistoryAssumption ==
  /\ MaxEntries \in Nat \ {0} /\ MaxBytes \in Nat \ {0}
  /\ Sizes \subseteq Nat \ {0}
  /\ MaxAppends \in Nat /\ MaxAborts \in Nat

(***************************************************************************)
(* Files                                                                   *)
(***************************************************************************)
(* `open`: the last line has no newline yet; `blanks`: empty lines.          *)
EmptyFile == [lines |-> <<>>, open |-> FALSE, blanks |-> 0]

SizesOf(line) == [i \in DOMAIN line |-> log[line[i]]]
Total(s) ==
  LET sum[i \in 0 .. Len(s)] == IF i = 0 THEN 0 ELSE sum[i - 1] + s[i]
  IN sum[Len(s)]
LineBytes(line) == Total(SizesOf(line)) + 1
Bytes(lines) == Total([i \in DOMAIN lines |-> LineBytes(lines[i])])

(* metadata().len() counts what is there, the missing newline excepted.      *)
FileLength(f) == Bytes(f.lines) + f.blanks - (IF f.open THEN 1 ELSE 0)

(* write_all of the entry's text: it joins a line somebody left open.        *)
WithText(f, e) ==
  IF f.open
  THEN [f EXCEPT !.lines[Len(f.lines)] = Append(@, e)]
  ELSE [f EXCEPT !.lines = Append(@, <<e>>), !.open = TRUE]

(* write_all of "\n": it ends the open line, or makes an empty one.          *)
WithNewline(f) ==
  IF f.open THEN [f EXCEPT !.open = FALSE] ELSE [f EXCEPT !.blanks = @ + 1]

(* What the reading loop of compact_history retains: the longest tail of the *)
(* lines within both bounds, and the newest line whatever its size.          *)
Fits(lines) ==
  Len(lines) <= MaxEntries /\ (Bytes(lines) <= MaxBytes \/ Len(lines) <= 1)
DropFirst(lines, n) == SubSeq(lines, n + 1, Len(lines))
RetainedOldest(lines) ==
  LET kept == CHOOSE n \in 0 .. Len(lines) :
                /\ Fits(SubSeq(lines, 1, n))
                /\ \A m \in n + 1 .. Len(lines) : ~Fits(SubSeq(lines, 1, m))
  IN SubSeq(lines, 1, kept)
Retained(lines) ==
  LET dropped == CHOOSE n \in 0 .. Len(lines) :
                   /\ Fits(DropFirst(lines, n))
                   /\ \A m \in 0 .. n - 1 : ~Fits(DropFirst(lines, m))
  IN DropFirst(lines, dropped)

(* The length that lets compact_history write nothing, if the count does too. *)
TooLongNever(f) == FALSE
TooLong(f) == FileLength(f) > MaxBytes

(***************************************************************************)
(* record_history                                                          *)
(***************************************************************************)
HistoryInit ==
  /\ file = <<>> /\ named = 0
  /\ at = [p \in Procs |-> "idle"]
  /\ fd = [p \in Procs |-> 0]
  /\ long = [p \in Procs |-> FALSE]
  /\ snapshot = [p \in Procs |-> <<>>]
  /\ log = <<>> /\ cleared = 0
  /\ overlapped = FALSE /\ aborts = 0

MoveTo(p, label) == at' = [at EXCEPT ![p] = label]
Busy(p) == at[p] # "idle"
Overlaps(p) == overlapped \/ \E q \in Procs \ {p} : Busy(q)

(* OpenOptions::create(true).append(true)                                   *)
OpenForAppend(p) ==
  /\ at[p] = "idle"
  /\ IF named = 0
     THEN file' = Append(file, EmptyFile) /\ named' = Len(file) + 1
     ELSE UNCHANGED <<file, named>>
  /\ fd' = [fd EXCEPT ![p] = named']
  /\ overlapped' = Overlaps(p)
  /\ MoveTo(p, "opened")
  /\ UNCHANGED <<long, snapshot, log, cleared, aborts>>

WriteText(p) ==
  /\ at[p] = "opened" /\ Len(log) < MaxAppends
  /\ \E size \in Sizes : log' = Append(log, size)
  /\ file' = [file EXCEPT ![fd[p]] = WithText(@, Len(log) + 1)]
  /\ MoveTo(p, "written")
  /\ UNCHANGED <<named, fd, long, snapshot, cleared, overlapped, aborts>>

WriteNewline(p) ==
  /\ at[p] = "written"
  /\ file' = [file EXCEPT ![fd[p]] = WithNewline(@)]
  /\ MoveTo(p, "appended")
  /\ UNCHANGED <<named, fd, long, snapshot, log, cleared, overlapped, aborts>>

(* compact_history: metadata, ...                                            *)
StatFile(p) ==
  /\ at[p] = "appended"
  /\ long' = [long EXCEPT ![p] = TooLong(file[named])]
  /\ fd' = [fd EXCEPT ![p] = 0]
  /\ MoveTo(p, "measured")
  /\ UNCHANGED <<file, named, snapshot, log, cleared, overlapped, aborts>>

(* ... the reading loop, which may find nothing to do ...                    *)
ReadLines(p) ==
  /\ at[p] = "measured"
  /\ IF ~long[p] /\ Len(file[named].lines) <= MaxEntries
     THEN MoveTo(p, "idle") /\ UNCHANGED snapshot
     ELSE /\ snapshot' = [snapshot EXCEPT ![p] = Retained(file[named].lines)]
          /\ MoveTo(p, "compacting")
  /\ long' = [long EXCEPT ![p] = FALSE]
  /\ UNCHANGED <<file, named, fd, log, cleared, overlapped, aborts>>

(* ... and the rename of the temporary file that atomic_write wrote.         *)
CompactedOntoCurrent(p) == [file[named] EXCEPT !.lines = @ \o snapshot[p]]
Compacted(p) == [EmptyFile EXCEPT !.lines = snapshot[p]]
RenameCompacted(p) ==
  /\ at[p] = "compacting"
  /\ file' = Append(file, Compacted(p))
  /\ named' = Len(file) + 1
  /\ snapshot' = [snapshot EXCEPT ![p] = <<>>]
  /\ MoveTo(p, "idle")
  /\ UNCHANGED <<fd, long, log, cleared, overlapped, aborts>>

(* clear_history truncates the file that has the name.                       *)
Clear(p) ==
  /\ at[p] = "idle" /\ named # 0
  /\ file' = [file EXCEPT ![named] = EmptyFile]
  /\ cleared' = Len(log)
  /\ overlapped' = Overlaps(p)
  /\ UNCHANGED <<named, procVars, log, aborts>>

(* The process dies, or a system call fails and `?` leaves record_history.   *)
LeakDescriptor(p) == UNCHANGED fd
CloseDescriptor(p) == fd' = [fd EXCEPT ![p] = 0]
Abort(p) ==
  /\ Busy(p) /\ aborts < MaxAborts
  /\ aborts' = aborts + 1
  /\ MoveTo(p, "idle")
  /\ CloseDescriptor(p)
  /\ long' = [long EXCEPT ![p] = FALSE]
  /\ snapshot' = [snapshot EXCEPT ![p] = <<>>]
  /\ UNCHANGED <<file, named, log, cleared, overlapped>>

(* The bound on appends is reached and nobody is inside an operation.        *)
Exhausted ==
  /\ Len(log) = MaxAppends
  /\ \A p \in Procs : at[p] \in {"idle", "opened"}
  /\ UNCHANGED historyVars

HistoryNext ==
  \/ \E p \in Procs :
       \/ OpenForAppend(p) \/ WriteText(p) \/ WriteNewline(p)
       \/ StatFile(p) \/ ReadLines(p) \/ RenameCompacted(p)
       \/ Clear(p) \/ Abort(p)
  \/ Exhausted

HistorySpec == HistoryInit /\ [][HistoryNext]_historyVars

-----------------------------------------------------------------------------
(***************************************************************************)
(* Properties                                                              *)
(***************************************************************************)
Entries == 1 .. Len(log)
File == [lines : Seq(Seq(Nat)), open : BOOLEAN, blanks : Nat]

(* The files, descriptors and positions have their types, and a descriptor   *)
(* is open exactly while its process appends.                                *)
HistoryTypeOK ==
  /\ file \in Seq(File)
  /\ named \in 0 .. Len(file)
  /\ at \in [Procs -> {"idle", "opened", "written", "appended", "measured",
                   "compacting"}]
  /\ long \in [Procs -> BOOLEAN]
  /\ fd \in [Procs -> 0 .. Len(file)]
  /\ \A p \in Procs : fd[p] # 0 <=> at[p] \in {"opened", "written", "appended"}
  /\ snapshot \in [Procs -> Seq(Seq(Nat))]
  /\ log \in Seq(Sizes) /\ Len(log) <= MaxAppends
  /\ cleared \in 0 .. Len(log)
  /\ overlapped \in BOOLEAN
  /\ aborts \in 0 .. MaxAborts

Flat(lines) ==
  LET join[i \in 0 .. Len(lines)] ==
        IF i = 0 THEN <<>> ELSE join[i - 1] \o lines[i]
  IN join[Len(lines)]

Current == IF named = 0 THEN EmptyFile ELSE file[named]
AllIdle == \A p \in Procs : at[p] = "idle"

(* However appends, compactions and clears of several processes interleave,  *)
(* the file holds each entry at most once, the oldest first: history_filtered *)
(* reverses it and calls that newest first.                                   *)
OldestFirst ==
  LET entries == Flat(Current.lines)
  IN \A i, j \in DOMAIN entries : i < j => entries[i] < entries[j]

(* When no process is inside an operation the file is within its bounds      *)
(* ("The file is bounded to the newest 1,000 entries and approximately        *)
(* 1 MiB", docs/history.md), except for one entry that is too large by itself *)
(* and for one entry of each operation that was cut short.                    *)
QuietFileIsBounded ==
  AllIdle /\ aborts = 0 => Fits(Current.lines)

(* A process that has the file to itself loses nothing: it holds the newest  *)
(* entries since the last clear, without a gap, whatever was cut short; and   *)
(* if nothing was, then no further entry would have fitted.                   *)
ExactWhenAlone ==
  ~overlapped /\ AllIdle =>
    LET entries == Flat(Current.lines)
        oldest == Len(log) - Len(entries)
    IN /\ oldest >= cleared
       /\ entries = [i \in 1 .. Len(entries) |-> oldest + i]
       /\ aborts = 0 /\ oldest > cleared =>
            ~Fits(<<<<oldest>>>> \o Current.lines)

(* Every line parses: the text of one entry and no other, so that reading     *)
(* the history does not fail (`Each record contains only a timestamp, request *)
(* name, method, ...`, docs/history.md; history_filtered returns an error for *)
(* the whole file when one line is not an entry).                             *)
EveryLineIsOneEntry ==
  \A i \in DOMAIN Current.lines : Len(Current.lines[i]) = 1
=============================================================================
