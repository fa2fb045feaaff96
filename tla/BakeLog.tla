------------------------------- MODULE BakeLog -------------------------------
(***************************************************************************)
(* The build log of code/bake as a file: opened, locked, read, and at the  *)
(* end of a build replaced by a file written beside it (open_log,          *)
(* write_log).  Bakes are started at any time and killed at any time.      *)
(*                                                                         *)
(* A lock belongs to the file that was opened, not to its name.  There is  *)
(* one rule with one output here; module BakeBuild has the rest.           *)
(***************************************************************************)
EXTENDS Integers, FiniteSets

CONSTANTS Baker,
          Inodes,   \* bound: how many files are made for the log
          Stamps,   \* bound: how often the output is written
          Kills,    \* bound: how many bakes are killed
          None

ASSUME BakeLogAssumption ==
  /\ None \notin Baker
  /\ Inodes \in Nat /\ Stamps \in Nat /\ Kills \in Nat

VARIABLES
  logfile, tmp,   \* the files that .bake_log and .bake_log.tmp name, 0 for none
  data,           \* files: Part of a log, or the mtime in its one entry
  size,           \* how many files there are
  locked,         \* files: which bake has the lock
  pc, fd,         \* bakes: the next step, and the file opened
  out,            \* bakes: the file they write the new log to
  entry,          \* bakes: the mtime in the log, as read or to be written
  mtime, whole,   \* the output: when it was written, and whether to its end
  error,          \* history: a bake could not create the new log
  kills,
  apart           \* whether a bake is started only when none runs

fileVars == <<logfile, tmp, data, size, locked>>
bakeVars == <<pc, fd, out, entry>>
vars == <<fileVars, bakeVars, mtime, whole, error, kills, apart>>

Inode == 1..Inodes
Part  == -1

Init ==
  /\ logfile = 0 /\ tmp = 0 /\ size = 0
  /\ data = [i \in Inode |-> 0] /\ locked = [i \in Inode |-> None]
  /\ pc = [p \in Baker |-> "idle"] /\ fd = [p \in Baker |-> 0]
  /\ out = [p \in Baker |-> 0]
  /\ entry = [p \in Baker |-> 0]
  /\ mtime = 0 /\ whole = FALSE
  /\ error = FALSE /\ kills = 0
  /\ apart \in BOOLEAN

-----------------------------------------------------------------------------
Goes(p, from, to) == pc[p] = from /\ pc' = [pc EXCEPT ![p] = to]

\* The first bake makes an empty log.
open(p) ==
  /\ Goes(p, "idle", "flock")
  /\ apart => \A q \in Baker : pc[q] = "idle"
  /\ IF logfile = 0
     THEN size < Inodes /\ size' = size + 1 /\ logfile' = size + 1
     ELSE UNCHANGED <<size, logfile>>
  /\ fd' = [fd EXCEPT ![p] = logfile']
  /\ UNCHANGED <<tmp, data, locked, out, entry, mtime, whole, error, kills>>

\* LOCK_NB: the lock, or "another process is baking".
flock(p) ==
  /\ pc[p] = "flock"
  /\ \/ /\ locked[fd[p]] = None
        /\ locked' = [locked EXCEPT ![fd[p]] = p]
        /\ pc' = [pc EXCEPT ![p] = "read"]
     \/ /\ locked[fd[p]] # None
        /\ pc' = [pc EXCEPT ![p] = "idle"] /\ UNCHANGED locked
  /\ UNCHANGED <<logfile, tmp, data, size, fd, out, entry, mtime, whole, error, kills>>

read_log(p) ==
  /\ Goes(p, "read", "rule")
  /\ entry' = [entry EXCEPT ![p] = data[fd[p]]]
  /\ UNCHANGED <<fileVars, fd, out, mtime, whole, error, kills>>

\* process_rule: an output with the mtime of the log can be used again, unless
\* its dependency has changed.
reuse(p) ==
  /\ Goes(p, "rule", "close")
  /\ mtime # 0 /\ mtime = entry[p]
  /\ UNCHANGED <<fileVars, fd, out, entry, mtime, whole, error, kills>>

\* A command begins to write the output, and writes the rest.
build(p) ==
  /\ Goes(p, "rule", "made") /\ mtime < Stamps
  /\ mtime' = mtime + 1 /\ whole' = FALSE
  /\ UNCHANGED <<fileVars, fd, out, entry, error, kills>>

built(p) ==
  /\ Goes(p, "made", "stat") /\ mtime < Stamps
  /\ mtime' = mtime + 1 /\ whole' = TRUE
  /\ UNCHANGED <<fileVars, fd, out, entry, error, kills>>

stat_files(p) ==
  /\ Goes(p, "stat", "create")
  /\ entry' = [entry EXCEPT ![p] = mtime]
  /\ UNCHANGED <<fileVars, fd, out, mtime, whole, error, kills>>

\* Mutant: O_TRUNC instead of O_EXCL.
write_log_create_Truncates(p) ==
  /\ Goes(p, "create", "write") /\ size < Inodes
  /\ IF tmp = 0 THEN size' = size + 1 /\ tmp' = size + 1 ELSE UNCHANGED <<size, tmp>>
  /\ data' = [data EXCEPT ![tmp'] = Part]
  /\ out' = [out EXCEPT ![p] = tmp']
  /\ UNCHANGED <<logfile, locked, fd, entry, mtime, whole, error, kills>>

\* O_EXCL: an exception if there is a .bake_log.tmp.
write_log_create(p) ==
  /\ pc[p] = "create"
  /\ \/ /\ tmp = 0 /\ size < Inodes
        /\ size' = size + 1 /\ tmp' = size + 1
        /\ data' = [data EXCEPT ![tmp'] = Part]
        /\ out' = [out EXCEPT ![p] = tmp']
        /\ pc' = [pc EXCEPT ![p] = "write"] /\ UNCHANGED error
     \/ /\ tmp # 0
        /\ pc' = [pc EXCEPT ![p] = "close"] /\ error' = TRUE
        /\ UNCHANGED <<size, tmp, data, out>>
  /\ UNCHANGED <<logfile, locked, fd, entry, mtime, whole, kills>>

write_log(p) ==
  /\ Goes(p, "write", "rename")
  /\ data' = [data EXCEPT ![out[p]] = entry[p]]
  /\ UNCHANGED <<logfile, tmp, size, locked, fd, out, entry, mtime, whole, error, kills>>

\* Mutant: a second name instead of a new one.
write_log_rename_Links(p) ==
  /\ Goes(p, "rename", "close")
  /\ logfile' = tmp
  /\ UNCHANGED <<tmp, data, size, locked, fd, out, entry, mtime, whole, error, kills>>

write_log_rename(p) ==
  /\ Goes(p, "rename", "close")
  /\ logfile' = tmp /\ tmp' = 0
  /\ UNCHANGED <<data, size, locked, fd, out, entry, mtime, whole, error, kills>>

Unlocked(p) == [i \in Inode |-> IF locked[i] = p THEN None ELSE locked[i]]

\* The file that was opened is closed, which gives up its lock.
close(p) ==
  /\ Goes(p, "close", "idle") /\ locked' = Unlocked(p)
  /\ UNCHANGED <<logfile, tmp, data, size, fd, out, entry, mtime, whole, error, kills>>

Kill(p) ==
  /\ pc[p] # "idle" /\ kills < Kills /\ kills' = kills + 1
  /\ pc' = [pc EXCEPT ![p] = "idle"] /\ locked' = Unlocked(p)
  /\ UNCHANGED <<logfile, tmp, data, size, fd, out, entry, mtime, whole, error>>

Next ==
  /\ \E p \in Baker :
       \/ open(p) \/ flock(p) \/ read_log(p) \/ reuse(p) \/ build(p) \/ built(p)
       \/ stat_files(p) \/ write_log_create(p) \/ write_log(p)
       \/ write_log_rename(p) \/ close(p) \/ Kill(p)
  /\ UNCHANGED apart

Spec == Init /\ [][Next]_vars

-----------------------------------------------------------------------------
(* Properties.                                                             *)

Baking == {"read", "rule", "made", "stat", "create", "write", "rename", "close"}

\* Every variable holds a value of its kind; a bake that has a lock has it on
\* the file it opened, and only between flock and close.
LogTypeOK ==
  /\ logfile \in 0..size /\ tmp \in 0..size /\ size \in 0..Inodes
  /\ \A p \in Baker : fd[p] \in 0..size
  /\ \A i \in Inode, p \in Baker : locked[i] = p <=> fd[p] = i /\ pc[p] \in Baking
  /\ mtime \in 0..Stamps /\ whole \in BOOLEAN

\* Nobody ever reads a part of a log, whoever is killed and however many bakes
\* run: read_log would say that it is corrupted, or lack entries.
LogWhole ==
  /\ logfile # 0 => data[logfile] # Part
  /\ \A p \in Baker : pc[p] = "read" => data[fd[p]] # Part

\* An output that the log calls good is not the rest of a command that was
\* killed.
ReuseSound == logfile # 0 /\ mtime # 0 /\ data[logfile] = mtime => whole

\* The new log can be created, unless a bake was killed before it had renamed
\* its own: no .bake_log.tmp is left by one that ends by itself.
NewLogUnlessKilled == error => kills > 0

\* One bake after the other: what each leaves serves the next (open_log,
\* read_log, process_rule, write_log).
LogServesNext == apart => ReuseSound /\ NewLogUnlessKilled

=============================================================================
