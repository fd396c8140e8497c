-------------------------------- MODULE Lwnfs -------------------------------
(***************************************************************************)
(* The counter file system of module/lwnfs.c: mounting it, with every      *)
(* allocation free to fail, and reading and writing its two counter files  *)
(* from several open files at once.  The test of the counter and its       *)
(* increment in a read are two steps.  Numbers are written in base Radix   *)
(* so that their texts grow within the bounds.                             *)
(***************************************************************************)
EXTENDS Integers, Sequences, FiniteSets, SequencesExt

CONSTANTS
  Files,        \* open files
  FsRadix,
  WrittenVals,  \* numbers users write
  MaxCount      \* bound: the counters

ASSUME FsAssumption == FsRadix \in Nat /\ FsRadix >= 2 /\ WrittenVals \subseteq Int

VARIABLES
  fsmount,   \* the super block: whether it is filled, its files, inodes and dentries
  counters,  \* counter and subcounter
  fsfiles    \* open file -> counter, offset, where its read is, what it has read
fsVars == <<fsmount, counters, fsfiles>>

CounterNames == {"counter", "subcounter"}
NoMount == [root |-> FALSE, files |-> {}, inodes |-> {}, dentries |-> {}]

-----------------------------------------------------------------------------
(* Mounting.  ok is the set of allocations that succeed.                   *)

\* A dentry, then an inode; without the inode the dentry is given back.
lfs_create_file(m, name, ok) ==
  IF {<<"dentry", name>>, <<"inode", name>>} \subseteq ok
  THEN [m EXCEPT !.files = @ \cup {name}, !.inodes = @ \cup {name}, !.dentries = @ \cup {name}]
  ELSE m
lfs_create_dir(m, name, ok) == lfs_create_file(m, name, ok)
\* The subdirectory's file only when the subdirectory could be made.
lfs_create_files(m, ok) ==
  LET top == lfs_create_file(m, "counter", ok)
      dir == lfs_create_dir(top, "subdir", ok)
  IN  IF "subdir" \in dir.files THEN lfs_create_file(dir, "subcounter", ok) ELSE dir

Allocations == {"dentry", "inode"} \X {"root", "counter", "subdir", "subcounter"}
\* Failing to make the root gives the root's inode back.
lfs_fill_super ==
  /\ fsmount = NoMount
  /\ \E ok \in SUBSET Allocations :
       IF {<<"inode", "root">>, <<"dentry", "root">>} \subseteq ok
       THEN /\ fsmount' = lfs_create_files([NoMount EXCEPT !.root = TRUE, !.inodes = {"root"}, !.dentries = {"root"}], ok)
            /\ counters' = [c \in CounterNames |-> 0]
       ELSE UNCHANGED <<fsmount, counters>>
  /\ UNCHANGED fsfiles
\* get_sb_single fills one super block however often it is mounted; unmounting
\* for the last time deletes what it holds.
kill_litter_super ==
  /\ fsmount.root /\ \A f \in Files : fsfiles[f].pc = "closed"
  /\ fsmount' = NoMount
  /\ UNCHANGED <<counters, fsfiles>>

-----------------------------------------------------------------------------
(* Files.                                                                  *)

Closed == [pc |-> "closed", counter |-> "counter", offset |-> 0, v |-> 0, text |-> <<>>, alone |-> TRUE]
lfs_open(f) ==
  /\ fsfiles[f].pc = "closed"
  /\ \E c \in CounterNames \cap fsmount.files : fsfiles' = [fsfiles EXCEPT ![f] = [Closed EXCEPT !.pc = "ready", !.counter = c]]
  /\ UNCHANGED <<fsmount, counters>>
Closes(f) ==
  /\ fsfiles[f].pc = "ready"
  /\ fsfiles' = [fsfiles EXCEPT ![f] = Closed]
  /\ UNCHANGED <<fsmount, counters>>

\* The other open files of the counter are told of the access: what they read
\* in pieces may now come from two numbers.
Disturbed(f) == [g \in Files |-> IF g # f /\ fsfiles[g].counter = fsfiles[f].counter
                                 THEN [fsfiles[g] EXCEPT !.alone = FALSE] ELSE fsfiles[g]]

\* "%d\n", the characters as numbers.
Minus == -1
NewLine == -2
Text(v) ==
  LET digits[n \in Nat] == IF n < FsRadix THEN <<n>> ELSE Append(digits[n \div FsRadix], n % FsRadix)
  IN  Append(IF v < 0 THEN <<Minus>> \o digits[-v] ELSE digits[v], NewLine)

PastStart_SameValue(offset, v) == v

\* lfs_read_file: the counter is read, and counted up by a read from the start
\* of the file; a later piece takes the number before it.
PastStart(offset, v) == IF offset > 0 THEN v - 1 ELSE v
ReadCounter(f) ==
  /\ fsfiles[f].pc = "ready"
  /\ fsfiles' = [fsfiles EXCEPT ![f].pc = IF fsfiles[f].offset > 0 THEN "copy" ELSE "inc",
                                ![f].v = PastStart(fsfiles[f].offset, counters[fsfiles[f].counter]),
                                ![f].alone = IF fsfiles[f].offset > 0 THEN @ ELSE TRUE]
  /\ UNCHANGED <<fsmount, counters>>
IncCounter(f) ==
  /\ fsfiles[f].pc = "inc" /\ counters[fsfiles[f].counter] < MaxCount
  /\ counters' = [counters EXCEPT ![fsfiles[f].counter] = @ + 1]
  /\ fsfiles' = [Disturbed(f) EXCEPT ![f].pc = "copy"]
  /\ UNCHANGED fsmount
\* At most count characters of the text from the offset on.
CopyText(f, count) ==
  /\ fsfiles[f].pc = "copy"
  /\ LET text == Text(fsfiles[f].v)
         left == Len(text) - fsfiles[f].offset
         n == IF left < 0 THEN 0 ELSE IF count > left THEN left ELSE count
     IN  fsfiles' = [fsfiles EXCEPT ![f].pc = "ready", ![f].offset = @ + n,
                       ![f].text = IF left < 0 THEN @ ELSE @ \o SubSeq(text, fsfiles[f].offset + 1, fsfiles[f].offset + n)]
  /\ UNCHANGED <<fsmount, counters>>

\* Only from the start of the file; the offset does not move.
lfs_write_file(f) ==
  /\ fsfiles[f].pc = "ready" /\ fsfiles[f].offset = 0
  /\ \E v \in WrittenVals : counters' = [counters EXCEPT ![fsfiles[f].counter] = v]
  /\ fsfiles' = Disturbed(f)
  /\ UNCHANGED fsmount

FsRest == fsmount = NoMount /\ counters = [c \in CounterNames |-> 0]
FsIdle == FsRest /\ fsfiles = [f \in Files |-> [Closed EXCEPT !.pc = "idle"]]
FsInit == FsRest /\ fsfiles = [f \in Files |-> Closed]
FsNext ==
  \/ \E f \in Files : fsfiles[f].pc # "idle" /\ (lfs_fill_super \/ kill_litter_super)
  \/ \E f \in Files : lfs_open(f) \/ Closes(f) \/ ReadCounter(f) \/ IncCounter(f) \/ lfs_write_file(f)
                      \/ \E count \in 1..3 : CopyText(f, count)
FsSpec == FsInit /\ [][FsNext]_fsVars

-----------------------------------------------------------------------------
\* Whatever allocation fails, every inode and dentry belongs to a name of the
\* file system, the subdirectory's file only with the subdirectory and nothing
\* without the root.  A file read in pieces, with no other access to its
\* counter since its first piece, yields one number and its newline and then
\* nothing, for numbers of any length.
CounterFsRight ==
  /\ fsmount.inodes = fsmount.dentries
  /\ fsmount.inodes = fsmount.files \cup (IF fsmount.root THEN {"root"} ELSE {})
  /\ "subcounter" \in fsmount.files => "subdir" \in fsmount.files
  /\ fsmount.root \/ fsmount = NoMount
  /\ \A f \in Files : fsfiles[f].pc # "closed" /\ fsfiles[f].alone /\ fsfiles[f].offset > 0 =>
       /\ Len(fsfiles[f].text) = fsfiles[f].offset
       /\ IsPrefix(fsfiles[f].text, Text(counters[fsfiles[f].counter] - 1))
=============================================================================
