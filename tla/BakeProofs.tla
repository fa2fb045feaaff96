----------------------------- MODULE BakeProofs -----------------------------
(***************************************************************************)
(* Proofs about the two models of code/bake.  The log (BakeLog), for any   *)
(* number of bakes, killed or not, with the race of their locks or         *)
(* without: no bake reads a part of a log; and started one after the       *)
(* other: what each leaves serves the next.  The builds (BakeBuild, as     *)
(* Build), for any rules: what is built is fresh, and not built twice.     *)
(***************************************************************************)
EXTENDS Bake, SequenceTheorems, FiniteSetTheorems, WellFoundedInduction, TLAPS

-----------------------------------------------------------------------------
(* The log.                                                                *)

\* The kinds of the variables that the argument is about.
KindsOK ==
  /\ size \in Nat /\ size <= Inodes
  /\ logfile \in 0..size /\ tmp \in 0..size
  /\ data \in [Inode -> Nat \cup {Part}]
  /\ pc \in [Baker -> Baking \cup {"idle", "flock"}]
  /\ fd \in [Baker -> 0..size] /\ out \in [Baker -> 0..size]
  /\ entry \in [Baker -> Nat] /\ mtime \in Nat

\* A bake that writes has made the file that has the temporary name, and no
\* other does; it is whole when it is to be renamed.
WriterOwnsTmp ==
  \A p \in Baker : pc[p] \in {"write", "rename"} =>
    /\ tmp # 0 /\ out[p] = tmp
    /\ pc[p] = "rename" => data[tmp] # Part
    /\ \A q \in Baker : pc[q] \in {"write", "rename"} => p = q

\* The temporary file is no log yet: nobody has it open as one.
TmpIsApart ==
  tmp # 0 => tmp # logfile /\ \A p \in Baker : fd[p] # tmp

\* What is or was the log is whole.
OpenedWhole ==
  /\ logfile # 0 => data[logfile] # Part
  /\ \A p \in Baker : fd[p] # 0 => data[fd[p]] # Part
  /\ \A p \in Baker : pc[p] # "idle" => fd[p] # 0
  /\ \A i \in Inode : i > size => data[i] # Part

LogInv == KindsOK /\ WriterOwnsTmp /\ TmpIsApart /\ OpenedWhole

USE DEF Baking, Inode, Part

LEMMA InitLog == Init => LogInv
<1> SUFFICES ASSUME Init PROVE LogInv
  OBVIOUS
<1> USE DEF Init
<1>1. KindsOK
  BY BakeLogAssumption DEF KindsOK
<1>2. WriterOwnsTmp /\ TmpIsApart /\ OpenedWhole
  BY BakeLogAssumption DEF WriterOwnsTmp, TmpIsApart, OpenedWhole
<1> QED BY <1>1, <1>2 DEF LogInv

\* A step of one bake that changes neither the files nor what they are to
\* the bakes.
LEMMA OtherStep ==
  ASSUME LogInv, NEW p \in Baker,
         UNCHANGED <<logfile, tmp, data, size, fd, out>>,
         pc' \in [Baker -> Baking \cup {"idle", "flock"}],
         \A q \in Baker : q # p => pc'[q] = pc[q],
         pc'[p] \notin {"write", "rename"},
         pc'[p] # "idle" => pc[p] # "idle",
         entry' \in [Baker -> Nat], mtime' \in Nat
  PROVE  LogInv'
<1>1. KindsOK'
  BY BakeLogAssumption DEF LogInv, KindsOK
<1>2. WriterOwnsTmp'
  BY DEF LogInv, WriterOwnsTmp, KindsOK
<1>3. TmpIsApart'
  BY DEF LogInv, TmpIsApart
<1>4. OpenedWhole'
  BY DEF LogInv, OpenedWhole
<1> QED BY <1>1, <1>2, <1>3, <1>4 DEF LogInv

LEMMA OpenStep ==
  ASSUME LogInv, NEW p \in Baker, open(p)
  PROVE  LogInv'
<1> USE DEF LogInv
<1>1. CASE logfile # 0
  <2>1. /\ UNCHANGED <<logfile, tmp, data, size, out, entry, mtime>>
        /\ fd' = [fd EXCEPT ![p] = logfile]
        /\ pc[p] = "idle" /\ pc' = [pc EXCEPT ![p] = "flock"]
    BY <1>1 DEF open, Goes
  <2>2. KindsOK'
    BY <2>1 DEF KindsOK
  <2>3. WriterOwnsTmp'
    BY <2>1 DEF WriterOwnsTmp, KindsOK
  <2>4. TmpIsApart'
    BY <2>1 DEF TmpIsApart, KindsOK
  <2>5. OpenedWhole'
    BY <1>1, <2>1 DEF OpenedWhole, KindsOK
  <2> QED BY <2>2, <2>3, <2>4, <2>5
<1>2. CASE logfile = 0
  <2>1. /\ UNCHANGED <<tmp, data, out, entry, mtime>>
        /\ size < Inodes /\ size' = size + 1 /\ logfile' = size + 1
        /\ fd' = [fd EXCEPT ![p] = size + 1]
        /\ pc[p] = "idle" /\ pc' = [pc EXCEPT ![p] = "flock"]
    BY <1>2 DEF open, Goes
  <2>2. KindsOK'
    BY <2>1, BakeLogAssumption DEF KindsOK
  <2>3. WriterOwnsTmp'
    BY <2>1 DEF WriterOwnsTmp, KindsOK
  <2>4. TmpIsApart'
    BY <2>1 DEF TmpIsApart, KindsOK
  <2>5. OpenedWhole'
    BY <2>1, BakeLogAssumption DEF OpenedWhole, KindsOK
  <2> QED BY <2>2, <2>3, <2>4, <2>5
<1> QED BY <1>1, <1>2

LEMMA CreateStep ==
  ASSUME LogInv, NEW p \in Baker, write_log_create(p)
  PROVE  LogInv'
<1> USE DEF LogInv
<1>1. CASE tmp # 0
  <2>1. UNCHANGED <<logfile, tmp, data, size, fd, out, entry, mtime>>
    BY <1>1 DEF write_log_create
  <2>2. pc[p] = "create" /\ pc' = [pc EXCEPT ![p] = "close"]
    BY <1>1 DEF write_log_create
  <2> QED BY <2>1, <2>2, OtherStep DEF KindsOK
<1>2. CASE tmp = 0
  <2>1. /\ pc[p] = "create" /\ size < Inodes
        /\ size' = size + 1 /\ tmp' = size + 1
        /\ data' = [data EXCEPT ![size + 1] = Part]
        /\ out' = [out EXCEPT ![p] = size + 1]
        /\ pc' = [pc EXCEPT ![p] = "write"]
        /\ UNCHANGED <<logfile, fd, entry, mtime>>
    BY <1>2 DEF write_log_create
  <2>2. KindsOK'
    BY <2>1, BakeLogAssumption DEF KindsOK
  <2>3. WriterOwnsTmp'
    BY <1>2, <2>1 DEF WriterOwnsTmp, KindsOK
  <2>4. TmpIsApart'
    BY <2>1 DEF TmpIsApart, KindsOK
  <2>5. \A i \in Inode : i # size + 1 => data'[i] = data[i]
    BY <2>1 DEF KindsOK
  <2>6. OpenedWhole'
    <3>1. logfile' # 0 => data'[logfile'] # Part
      BY <2>1, <2>5, BakeLogAssumption DEF OpenedWhole, KindsOK
    <3>2. ASSUME NEW q \in Baker, fd'[q] # 0 PROVE data'[fd'[q]] # Part
      <4>1. fd'[q] = fd[q] /\ fd[q] \in 1..size /\ fd[q] \in Inode
        BY <2>1, <3>2, BakeLogAssumption DEF KindsOK
      <4> QED BY <2>5, <4>1, BakeLogAssumption DEF OpenedWhole, KindsOK
    <3>3. \A q \in Baker : pc'[q] # "idle" => fd'[q] # 0
      BY <2>1 DEF OpenedWhole, KindsOK
    <3>4. \A i \in Inode : i > size' => data'[i] # Part
      BY <2>1, <2>5, BakeLogAssumption DEF OpenedWhole, KindsOK
    <3> QED BY <3>1, <3>2, <3>3, <3>4 DEF OpenedWhole
  <2> QED BY <2>2, <2>3, <2>4, <2>6
<1> QED BY <1>1, <1>2

LEMMA WriteStep ==
  ASSUME LogInv, NEW p \in Baker, write_log(p)
  PROVE  LogInv'
<1> USE DEF LogInv
<1>1. /\ pc[p] = "write" /\ pc' = [pc EXCEPT ![p] = "rename"]
      /\ data' = [data EXCEPT ![out[p]] = entry[p]]
      /\ UNCHANGED <<logfile, tmp, size, fd, out, entry, mtime>>
  BY DEF write_log, Goes
<1>2. tmp # 0 /\ out[p] = tmp /\ tmp \in Inode /\ entry[p] \in Nat
  BY <1>1, BakeLogAssumption DEF WriterOwnsTmp, KindsOK
<1>3. KindsOK'
  BY <1>1, <1>2 DEF KindsOK
<1>4. WriterOwnsTmp'
  BY <1>1, <1>2 DEF WriterOwnsTmp, KindsOK
<1>5. TmpIsApart'
  BY <1>1 DEF TmpIsApart
<1>6. OpenedWhole'
  BY <1>1, <1>2 DEF OpenedWhole, KindsOK
<1> QED BY <1>3, <1>4, <1>5, <1>6

LEMMA RenameStep ==
  ASSUME LogInv, NEW p \in Baker, write_log_rename(p)
  PROVE  LogInv'
<1> USE DEF LogInv
<1>1. /\ pc[p] = "rename" /\ pc' = [pc EXCEPT ![p] = "close"]
      /\ logfile' = tmp /\ tmp' = 0
      /\ UNCHANGED <<data, size, fd, out, entry, mtime>>
  BY DEF write_log_rename, Goes
<1>2. KindsOK'
  BY <1>1 DEF KindsOK
<1>3. WriterOwnsTmp'
  BY <1>1 DEF WriterOwnsTmp, KindsOK
<1>4. TmpIsApart'
  BY <1>1 DEF TmpIsApart
<1>5. OpenedWhole'
  BY <1>1 DEF OpenedWhole, WriterOwnsTmp, KindsOK
<1> QED BY <1>2, <1>3, <1>4, <1>5

LEMMA NextLog == LogInv /\ [Next]_vars => LogInv'
<1> SUFFICES ASSUME LogInv, [Next]_vars PROVE LogInv'
  OBVIOUS
<1>1. CASE UNCHANGED vars
  BY <1>1 DEF vars, fileVars, bakeVars, LogInv, KindsOK, WriterOwnsTmp, TmpIsApart,
              OpenedWhole
<1>2. ASSUME NEW p \in Baker, read_log(p) PROVE LogInv'
  <2>1. fd[p] # 0 /\ fd[p] \in Inode /\ data[fd[p]] # Part
    BY <1>2, BakeLogAssumption DEF read_log, Goes, OpenedWhole, KindsOK, LogInv
  <2>2. entry' \in [Baker -> Nat]
    BY <1>2, <2>1 DEF read_log, Goes, KindsOK, LogInv
  <2>3. /\ UNCHANGED <<logfile, tmp, data, size, fd, out, mtime>>
        /\ pc[p] = "read" /\ pc' = [pc EXCEPT ![p] = "rule"]
    BY <1>2 DEF read_log, Goes, fileVars
  <2> QED BY <2>2, <2>3, OtherStep DEF KindsOK, LogInv
<1>4. ASSUME NEW p \in Baker,
             \/ flock(p) \/ reuse(p) \/ build(p) \/ built(p)
             \/ stat_files(p) \/ close(p) \/ Kill(p)
      PROVE  LogInv'
  <2>1. UNCHANGED <<logfile, tmp, data, size, fd, out>>
    BY <1>4 DEF flock, reuse, build, built, stat_files, close, Kill, fileVars
  <2>2. /\ pc[p] # "idle"
        /\ \E to \in {"read", "idle", "close", "made", "stat", "create"} :
             pc' = [pc EXCEPT ![p] = to]
    BY <1>4 DEF flock, reuse, build, built, stat_files, close, Kill, Goes
  <2>3. mtime' \in {mtime, mtime + 1}
    BY <1>4 DEF flock, reuse, build, built, stat_files, close, Kill
  <2>4. entry' \in {entry, [entry EXCEPT ![p] = mtime]}
    BY <1>4 DEF flock, reuse, build, built, stat_files, close, Kill
  <2>5. /\ pc' \in [Baker -> Baking \cup {"idle", "flock"}]
        /\ \A q \in Baker : q # p => pc'[q] = pc[q]
        /\ pc'[p] \notin {"write", "rename"}
    BY <2>2 DEF KindsOK, LogInv
  <2>6. mtime \in Nat /\ entry \in [Baker -> Nat]
    BY DEF KindsOK, LogInv
  <2>7. mtime' \in Nat
    BY <2>3, <2>6
  <2>8. entry' \in [Baker -> Nat]
    BY <2>4, <2>6
  <2> QED BY <2>1, <2>2, <2>5, <2>7, <2>8, OtherStep
<1>3. ASSUME NEW p \in Baker, open(p) \/ write_log_create(p) \/ write_log(p)
                              \/ write_log_rename(p)
      PROVE  LogInv'
  BY <1>3, OpenStep, CreateStep, WriteStep, RenameStep
<1> QED BY <1>1, <1>2, <1>3, <1>4 DEF Next

THEOREM LogInvariant == Spec => []LogInv
<1> QED BY InitLog, NextLog, PTL DEF Spec

\* The log that a bake opens is never a part of one: write_log completes its
\* file before it has the name, and O_EXCL keeps every other bake from it.
THEOREM LogAlwaysWhole == Spec => []LogWhole
<1>1. LogInv => LogWhole
  BY DEF LogInv, OpenedWhole, LogWhole
<1> QED BY <1>1, LogInvariant, PTL

-----------------------------------------------------------------------------
(* One bake after the other.                                               *)

AtMostOne ==
  \A p, q \in Baker : pc[p] # "idle" /\ pc[q] # "idle" => p = q

\* No log has an mtime that the output has yet to get, and a file that is not
\* made has none.
NothingAhead ==
  /\ \A i \in Inode : data[i] <= mtime /\ (i > size => data[i] = 0)
  /\ \A p \in Baker : entry[p] <= mtime

\* From the end of the command to the rename the output is whole.
BuiltWhole ==
  \A p \in Baker : pc[p] \in {"stat", "create", "write", "rename"} => whole

\* Only a bake that was killed leaves the temporary name.
TmpInUse ==
  tmp # 0 => kills > 0 \/ \E p \in Baker : pc[p] \in {"write", "rename"}

ApartInv ==
  /\ kills \in Nat
  /\ apart => /\ AtMostOne /\ NothingAhead /\ BuiltWhole /\ TmpInUse
              /\ ReuseSound /\ NewLogUnlessKilled

LEMMA InitApart == Init => ApartInv
  BY BakeLogAssumption DEF Init, ApartInv, AtMostOne, NothingAhead, BuiltWhole, TmpInUse,
                           ReuseSound, NewLogUnlessKilled

\* Where a step of one bake leads, and that no other is at work.
LEMMA OneMoves ==
  ASSUME LogInv, AtMostOne, NEW p \in Baker, NEW to,
         pc[p] # "idle" \/ (\A q \in Baker : pc[q] = "idle"),
         pc' = [pc EXCEPT ![p] = to]
  PROVE  /\ pc'[p] = to /\ AtMostOne'
         /\ \A q \in Baker \ {p} : pc[q] = "idle" /\ pc'[q] = "idle"
  BY DEF LogInv, KindsOK, AtMostOne

\* A file is made for the log: no entry is in it.
LEMMA ApartOpen ==
  ASSUME LogInv, ApartInv, apart, apart' = apart, NEW p \in Baker, open(p), logfile = 0
  PROVE  ApartInv'
<1> USE DEF ApartInv
<1>1. /\ UNCHANGED <<tmp, data, entry, mtime, whole, error, kills>>
      /\ size \in Nat /\ size < Inodes /\ size' = size + 1 /\ logfile' = size + 1
      /\ pc' = [pc EXCEPT ![p] = "flock"] /\ \A q \in Baker : pc[q] = "idle"
  BY DEF open, Goes, LogInv, KindsOK
<1>2. /\ pc'[p] = "flock" /\ AtMostOne'
      /\ \A q \in Baker \ {p} : pc[q] = "idle" /\ pc'[q] = "idle"
  BY <1>1, OneMoves
<1>3. NothingAhead'
  BY <1>1 DEF NothingAhead
<1>4. BuiltWhole'
  BY <1>2 DEF BuiltWhole
<1>5. TmpInUse'
  BY <1>1, <1>2 DEF TmpInUse
<1>6. ReuseSound'
  <2>1. size + 1 \in Inode /\ size + 1 > size
    BY <1>1, BakeLogAssumption
  <2>2. data'[logfile'] = 0
    BY <1>1, <2>1 DEF NothingAhead
  <2> QED BY <1>1, <2>2 DEF ReuseSound
<1>7. NewLogUnlessKilled'
  BY <1>1 DEF NewLogUnlessKilled
<1> QED BY <1>1, <1>2, <1>3, <1>4, <1>5, <1>6, <1>7

\* The command begins or ends: the output gets an mtime that no log has.
LEMMA ApartBuild ==
  ASSUME LogInv, ApartInv, apart, apart' = apart, NEW p \in Baker, build(p) \/ built(p)
  PROVE  ApartInv'
<1> USE DEF ApartInv
<1>1. /\ UNCHANGED <<logfile, tmp, data, size, entry, error, kills>>
      /\ mtime \in Nat /\ mtime' = mtime + 1 /\ pc[p] \in {"rule", "made"}
      /\ \/ pc' = [pc EXCEPT ![p] = "made"]
         \/ pc' = [pc EXCEPT ![p] = "stat"] /\ whole'
  BY DEF build, built, Goes, LogInv, KindsOK, fileVars
<1>2. /\ pc'[p] \in {"made", "stat"} /\ (pc'[p] = "stat" => whole') /\ AtMostOne'
      /\ \A q \in Baker \ {p} : pc[q] = "idle" /\ pc'[q] = "idle"
  <2>0. pc[p] # "idle"
    BY <1>1
  <2>1. CASE pc' = [pc EXCEPT ![p] = "made"]
    BY <2>0, <2>1, OneMoves
  <2>2. CASE pc' = [pc EXCEPT ![p] = "stat"] /\ whole'
    BY <2>0, <2>2, OneMoves
  <2> QED BY <1>1, <2>1, <2>2
<1>3. ASSUME NEW i \in Inode PROVE data[i] \in Int /\ data[i] <= mtime
  <2>1. data[i] \in Nat \cup {Part}
    BY DEF LogInv, KindsOK
  <2>2. data[i] <= mtime
    BY DEF NothingAhead
  <2> QED BY <2>1, <2>2
<1>4. NothingAhead'
  <2>1. \A i \in Inode : data'[i] <= mtime' /\ (i > size' => data'[i] = 0)
    BY <1>1, <1>3 DEF NothingAhead
  <2>2. \A q \in Baker : entry'[q] <= mtime'
    BY <1>1 DEF NothingAhead, LogInv, KindsOK
  <2> QED BY <2>1, <2>2 DEF NothingAhead
<1>5. BuiltWhole'
  BY <1>2 DEF BuiltWhole
<1>6. TmpInUse'
  BY <1>1, <1>2 DEF TmpInUse
<1>7. ReuseSound'
  <2>1. logfile # 0 => logfile \in Inode
    BY BakeLogAssumption DEF LogInv, KindsOK
  <2>2. logfile # 0 => data[logfile] # mtime + 1
    BY <1>1, <1>3, <2>1
  <2> QED BY <1>1, <2>2 DEF ReuseSound
<1>8. NewLogUnlessKilled'
  BY <1>1 DEF NewLogUnlessKilled
<1> QED BY <1>1, <1>2, <1>4, <1>5, <1>6, <1>7, <1>8

LEMMA ApartCreate ==
  ASSUME LogInv, ApartInv, apart, apart' = apart, NEW p \in Baker,
         write_log_create(p), tmp = 0
  PROVE  ApartInv'
<1> USE DEF ApartInv
<1>1. /\ UNCHANGED <<logfile, entry, mtime, whole, error, kills>>
      /\ size \in Nat /\ size < Inodes /\ size' = size + 1 /\ tmp' = size + 1
      /\ data' = [data EXCEPT ![size + 1] = Part]
      /\ data \in [Inode -> Nat \cup {Part}] /\ logfile \in 0..size
      /\ pc[p] = "create" /\ pc' = [pc EXCEPT ![p] = "write"] /\ mtime \in Nat
  BY DEF write_log_create, LogInv, KindsOK
<1>2. /\ pc'[p] = "write" /\ AtMostOne'
      /\ \A q \in Baker \ {p} : pc[q] = "idle" /\ pc'[q] = "idle"
  BY <1>1, OneMoves
<1>3. NothingAhead'
  <2>1. \A i \in Inode : data'[i] <= mtime' /\ (i > size' => data'[i] = 0)
    BY <1>1 DEF NothingAhead
  <2>2. \A q \in Baker : entry'[q] <= mtime'
    BY <1>1 DEF NothingAhead
  <2> QED BY <2>1, <2>2 DEF NothingAhead
<1>4. BuiltWhole'
  BY <1>1, <1>2 DEF BuiltWhole
<1>5. TmpInUse'
  BY <1>2 DEF TmpInUse
<1>6. ReuseSound'
  <2>1. data'[logfile] = data[logfile] \/ logfile = 0
    BY <1>1, BakeLogAssumption
  <2> QED BY <1>1, <2>1 DEF ReuseSound
<1>7. NewLogUnlessKilled'
  BY <1>1 DEF NewLogUnlessKilled
<1> QED BY <1>1, <1>2, <1>3, <1>4, <1>5, <1>6, <1>7

LEMMA ApartWrite ==
  ASSUME LogInv, ApartInv, apart, apart' = apart, NEW p \in Baker, write_log(p)
  PROVE  ApartInv'
<1> USE DEF ApartInv
<1>1. /\ UNCHANGED <<logfile, tmp, size, entry, mtime, whole, error, kills>>
      /\ pc[p] = "write" /\ pc' = [pc EXCEPT ![p] = "rename"]
      /\ tmp # 0 /\ tmp # logfile /\ tmp \in 0..size /\ size \in Nat
      /\ data' = [data EXCEPT ![tmp] = entry[p]]
      /\ data \in [Inode -> Nat \cup {Part}] /\ entry[p] \in Nat /\ mtime \in Nat
  BY DEF write_log, Goes, LogInv, KindsOK, WriterOwnsTmp, TmpIsApart
<1>2. /\ pc'[p] = "rename" /\ AtMostOne'
      /\ \A q \in Baker \ {p} : pc[q] = "idle" /\ pc'[q] = "idle"
  BY <1>1, OneMoves
<1>3. NothingAhead'
  <2>1. \A i \in Inode : data'[i] <= mtime' /\ (i > size' => data'[i] = 0)
    BY <1>1 DEF NothingAhead
  <2>2. \A q \in Baker : entry'[q] <= mtime'
    BY <1>1 DEF NothingAhead
  <2> QED BY <2>1, <2>2 DEF NothingAhead
<1>4. BuiltWhole'
  BY <1>1, <1>2 DEF BuiltWhole
<1>5. TmpInUse'
  BY <1>2 DEF TmpInUse
<1>6. ReuseSound'
  <2>1. data'[logfile] = data[logfile]
    BY <1>1
  <2> QED BY <1>1, <2>1 DEF ReuseSound
<1>7. NewLogUnlessKilled'
  BY <1>1 DEF NewLogUnlessKilled
<1> QED BY <1>1, <1>2, <1>3, <1>4, <1>5, <1>6, <1>7

\* The new log names an output that is whole, and leaves no temporary name.
LEMMA ApartRename ==
  ASSUME LogInv, ApartInv, apart, apart' = apart, NEW p \in Baker, write_log_rename(p)
  PROVE  ApartInv'
<1> USE DEF ApartInv
<1>1. /\ UNCHANGED <<data, size, entry, mtime, whole, error, kills>>
      /\ tmp' = 0 /\ pc[p] = "rename" /\ pc' = [pc EXCEPT ![p] = "close"]
  BY DEF write_log_rename, Goes
<1>2. /\ pc'[p] = "close" /\ AtMostOne'
      /\ \A q \in Baker \ {p} : pc[q] = "idle" /\ pc'[q] = "idle"
  BY <1>1, OneMoves
<1>3. NothingAhead'
  BY <1>1 DEF NothingAhead
<1>4. BuiltWhole' /\ TmpInUse'
  BY <1>1, <1>2 DEF BuiltWhole, TmpInUse
<1>5. whole
  BY <1>1 DEF BuiltWhole
<1>6. ReuseSound' /\ NewLogUnlessKilled'
  BY <1>1, <1>5 DEF ReuseSound, NewLogUnlessKilled
<1> QED BY <1>1, <1>2, <1>3, <1>4, <1>6

LEMMA ApartKill ==
  ASSUME LogInv, ApartInv, apart, apart' = apart, NEW p \in Baker, Kill(p)
  PROVE  ApartInv'
<1> USE DEF ApartInv
<1>1. /\ UNCHANGED <<logfile, tmp, data, size, entry, mtime, whole, error>>
      /\ kills' = kills + 1 /\ kills' > 0 /\ kills' \in Nat
      /\ pc[p] # "idle" /\ pc' = [pc EXCEPT ![p] = "idle"]
  BY DEF Kill
<1>2. /\ pc'[p] = "idle" /\ AtMostOne'
      /\ \A q \in Baker \ {p} : pc[q] = "idle" /\ pc'[q] = "idle"
  BY <1>1, OneMoves
<1>3. NothingAhead' /\ ReuseSound'
  BY <1>1 DEF NothingAhead, ReuseSound
<1>4. BuiltWhole' /\ TmpInUse' /\ NewLogUnlessKilled'
  BY <1>1, <1>2 DEF BuiltWhole, TmpInUse, NewLogUnlessKilled
<1> QED BY <1>1, <1>2, <1>3, <1>4

\* The other steps leave the files and the output alone.
LEMMA ApartQuiet ==
  ASSUME LogInv, ApartInv, apart, apart' = apart, NEW p \in Baker,
         \/ flock(p) \/ read_log(p) \/ reuse(p) \/ stat_files(p) \/ close(p)
         \/ (open(p) /\ logfile # 0) \/ (write_log_create(p) /\ tmp # 0)
  PROVE  ApartInv'
<1> USE DEF ApartInv
<1>1. UNCHANGED <<logfile, tmp, data, size, mtime, whole, kills>>
  BY DEF flock, read_log, reuse, stat_files, close, open, write_log_create, fileVars
<1>2. PICK to \in {"flock", "read", "rule", "close", "create", "idle"} :
        /\ pc' = [pc EXCEPT ![p] = to]
        /\ to = "create" => pc[p] = "stat"
  BY DEF flock, read_log, reuse, stat_files, close, open, write_log_create, Goes
<1>3. /\ pc[p] # "idle" \/ (\A q \in Baker : pc[q] = "idle")
      /\ pc[p] \notin {"write", "rename"}
  BY DEF flock, read_log, reuse, stat_files, close, open, write_log_create, Goes
<1>4. /\ pc'[p] = to /\ AtMostOne'
      /\ \A q \in Baker \ {p} : pc[q] = "idle" /\ pc'[q] = "idle"
  BY <1>2, <1>3, OneMoves
<1>5. NothingAhead'
  <2>1. entry' \in {entry, [entry EXCEPT ![p] = mtime], [entry EXCEPT ![p] = data[fd[p]]]}
    BY DEF flock, read_log, reuse, stat_files, close, open, write_log_create
  <2>2. entry' = [entry EXCEPT ![p] = data[fd[p]]] => entry' = entry \/ fd[p] \in Inode
    BY BakeLogAssumption
       DEF LogInv, KindsOK, OpenedWhole, flock, read_log, reuse, stat_files, close, open,
           write_log_create, Goes
  <2>3. mtime \in Nat /\ entry \in [Baker -> Nat]
    BY DEF LogInv, KindsOK
  <2>4. \A q \in Baker : entry'[q] <= mtime
    BY <2>1, <2>2, <2>3 DEF NothingAhead
  <2> QED BY <1>1, <2>4 DEF NothingAhead
<1>6. BuiltWhole'
  BY <1>1, <1>2, <1>4 DEF BuiltWhole
<1>7. tmp # 0 => kills > 0
  BY <1>3, <1>4 DEF TmpInUse
<1>8. TmpInUse' /\ ReuseSound'
  BY <1>1, <1>7 DEF TmpInUse, ReuseSound
<1>9. NewLogUnlessKilled'
  <2>1. error' = error \/ tmp # 0
    BY DEF flock, read_log, reuse, stat_files, close, open, write_log_create
  <2> QED BY <1>1, <1>7, <2>1 DEF NewLogUnlessKilled
<1> QED BY <1>1, <1>4, <1>5, <1>6, <1>8, <1>9

LEMMA NextApart == LogInv /\ ApartInv /\ [Next]_vars => ApartInv'
<1> SUFFICES ASSUME LogInv, ApartInv, [Next]_vars PROVE ApartInv'
  OBVIOUS
<1>1. CASE UNCHANGED vars
  BY <1>1 DEF vars, fileVars, bakeVars, ApartInv, AtMostOne, NothingAhead, BuiltWhole,
              TmpInUse, ReuseSound, NewLogUnlessKilled
<1>2. CASE Next /\ ~ apart
  <2>1. ~ apart' /\ (kills' = kills \/ kills' = kills + 1)
    BY <1>2 DEF Next, open, flock, read_log, reuse, build, built, stat_files,
                write_log_create, write_log, write_log_rename, close, Kill
  <2> QED BY <2>1 DEF ApartInv
<1>3. CASE Next /\ apart
  <2>1. apart' = apart
    BY <1>3 DEF Next
  <2>2. PICK p \in Baker :
           \/ open(p) \/ flock(p) \/ read_log(p) \/ reuse(p) \/ build(p) \/ built(p)
           \/ stat_files(p) \/ write_log_create(p) \/ write_log(p)
           \/ write_log_rename(p) \/ close(p) \/ Kill(p)
    BY <1>3 DEF Next
  <2> QED BY <1>3, <2>1, <2>2, ApartOpen, ApartBuild, ApartCreate, ApartWrite, ApartRename,
             ApartKill, ApartQuiet
<1> QED BY <1>1, <1>2, <1>3

THEOREM ApartInvariant == Spec => [](LogInv /\ ApartInv)
<1> QED BY InitLog, InitApart, NextLog, NextApart, PTL DEF Spec

\* When bakes run one after the other, an output that the log calls good is
\* never the rest of a command that was killed, and only a bake that was killed
\* keeps the next from writing its log.
THEOREM LogServesNextAlways == Spec => []LogServesNext
<1>1. ApartInv => LogServesNext
  BY DEF ApartInv, LogServesNext
<1> QED BY <1>1, ApartInvariant, PTL

-----------------------------------------------------------------------------
(* The builds.                                                             *)

\* Logs have entries of a start before what was made, and no later than now.
LogKinds(l) ==
  /\ l \in [Build!Output -> Build!Entries \cup {None}]
  /\ \A f \in Build!Output : l[f] # None => l[f].start < l[f].mtime /\ l[f].mtime < now

\* The rules of a build that are still to be processed, and those that have been.
Left      == {rules[i] : i \in DOMAIN rules}
Processed == goal \ Left
Busy      == build_pc \in {"reads", "runs", "ran"}

FileKinds ==
  /\ now \in Nat /\ DOMAIN content = Build!File /\ build_mtime \in [Build!File -> Nat \cup {None}]
  /\ \A f \in Build!File : /\ build_mtime[f] # None => build_mtime[f] < now
                           /\ build_mtime[f] = None => content[f] = None

ProcessKinds ==
  /\ digest \in [Rule -> Digest \cup {None}] /\ cmds \in [Rule -> Digest \cup {None}]
  /\ build_pc \in {"idle", "rule", "reads", "runs", "ran", "end"}
  /\ log \subseteq Build!Output /\ updated \in [Build!File -> {"no", "built", "failed"}]
  /\ rules \in Seq(Rule) /\ goal \subseteq Rule /\ Left \subseteq goal
  /\ \A r \in goal : cmds[r] # None
  /\ limit \in {None} \cup Nat /\ (limit # 0 \/ build_pc = "end")
  /\ build_pc = "end" => failed
  /\ Busy => rules # << >>
  /\ always \in BOOLEAN /\ failed \in BOOLEAN /\ quiet \in BOOLEAN
  /\ settled \subseteq Rule

Kinds == FileKinds /\ LogKinds(build_logfile) /\ LogKinds(files) /\ ProcessKinds

\* The next build has nothing to do for a rule, by this log.
Recorded(l, r) ==
  \A f \in Provides[r] :
    /\ build_mtime[f] # None /\ l[f] # None /\ l[f].digest = digest[r] /\ l[f].mtime = build_mtime[f]
    /\ \A g \in Depends[r] : build_mtime[g] # None /\ build_mtime[g] < l[f].start

\* What a log says of a file that has not changed since is what made it.
Older(l, r, f) ==
  /\ build_mtime[f] # None /\ l[f] # None /\ l[f].mtime = build_mtime[f]
  /\ \A g \in Depends[r] : build_mtime[g] # None /\ build_mtime[g] < l[f].start

Honest(l) ==
  \A r \in Rule : \A f \in Provides[r] :
    Older(l, r, f) => content[f] = <<l[f].digest, Build!Restrict(content, Depends[r])>>

\* A rule comes after those that make what it needs.
Sorted ==
  /\ \A i, j \in DOMAIN rules : Provides[rules[i]] \cap Depends[rules[j]] # {} => i < j
  /\ \A r \in Processed, q \in Left : Provides[q] \cap Depends[r] = {}

\* What the command that runs has read, and written.
Running ==
  /\ Busy => start_time \in Nat /\ start_time < now
  /\ build_pc \in {"runs", "ran"} =>
       /\ input = [g \in Depends[Head(rules)] |-> input[g]]
       /\ \A g \in Depends[Head(rules)] :
            build_mtime[g] # None /\ build_mtime[g] < start_time => input[g] = content[g]
  /\ build_pc = "ran" =>
       \A f \in Provides[Head(rules)] :
         /\ content[f] = <<cmds[Head(rules)], input>>
         /\ build_mtime[f] # None /\ start_time < build_mtime[f]

\* A build in which nothing is edited, and has not failed, has recorded all that
\* it has processed.
QuietBuild ==
  build_pc # "idle" /\ quiet =>
    /\ digest = cmds /\ Build!Needs(goal) = goal
    /\ Busy => \A g \in Depends[Head(rules)] : build_mtime[g] = None \/ build_mtime[g] < start_time
    /\ build_pc \in {"runs", "ran"} => \A g \in Depends[Head(rules)] : build_mtime[g] # None
    /\ ~ failed => \A r \in Processed : Recorded(files, r)

\* The rules of a build that succeeded stay recorded: in the log, and in a build
\* until it runs one of them because it was told to.
Settling ==
  /\ \A r \in settled : \A f \in Depends[r] : Build!Providers(f) \subseteq settled
  /\ build_pc = "idle" => \A r \in settled : Recorded(build_logfile, r)
  /\ build_pc # "idle" =>
       /\ settled # {} => quiet
       /\ ~ always \/ (log = {} /\ ~ failed /\ build_pc # "ran") => \A r \in settled : Recorded(files, r)
       /\ ~ always => /\ \A r \in settled : \A g \in Depends[r] : updated[g] = "no"
                      /\ Busy => Head(rules) \notin settled
       /\ log = {} => files = build_logfile

BakeInv ==
  Kinds /\ Honest(build_logfile) /\ Honest(files) /\ Sorted /\ Running /\ QuietBuild /\ Settling

-----------------------------------------------------------------------------
\* The least of some numbers.
LEMMA LeastElement ==
  ASSUME NEW T, T \subseteq Nat, T # {}
  PROVE  \E n \in T : \A m \in T : n <= m
<1> DEFINE R == OpToRel(<, Nat)
<1>1. IsWellFoundedOn(R, Nat)
  BY NatLessThanWellFounded
<1>2. \A m, n \in Nat : m < n => <<m, n>> \in R
  BY DEF OpToRel
<1> HIDE DEF R
<1>3. PICK n \in T : \A m \in T : ~ (<<m, n>> \in R)
  BY <1>1, WFMin
<1>4. \A m \in T : ~ (m < n)
  BY <1>2, <1>3
<1>5. \A m \in T : n <= m
  BY <1>4
<1> QED BY <1>5

\* The files of a rule are outputs, and None is no time and no entry.
LEMMA Assumed ==
  ASSUME Build!BakeAssumption
  PROVE  /\ \A r \in Rule : /\ Provides[r] \subseteq Build!Output /\ Provides[r] # {}
                            /\ Depends[r] \subseteq Build!File
         /\ Build!Output \subseteq Build!File /\ Source \subseteq Build!File /\ Source \cap Build!Output = {}
         /\ \A q, r \in Rule : q # r => Provides[q] \cap Provides[r] = {}
         /\ None \notin Nat /\ None \notin Build!Entries /\ None \notin Digest
BY DEF Build!BakeAssumption, Build!Output, Build!File

InLog(r) ==
  \A f \in Provides[r] : /\ build_mtime[f] # None /\ files[f] # None
                         /\ files[f].digest = cmds[r] /\ files[f].mtime = build_mtime[f]

AllOld(start, r) ==
  \A g \in Depends[r] : updated[g] = "no" /\ build_mtime[g] # None /\ build_mtime[g] < start

\* What find gives is no later than the start of any of the files, and it gives
\* the start of one of them.
LEMMA FindIsMinimum ==
  ASSUME Build!BakeAssumption, Kinds, NEW r \in Rule
  PROVE  /\ Build!find(r) # None <=> InLog(r)
         /\ InLog(r) => /\ Build!find(r) \in Nat
                        /\ \A f \in Provides[r] : Build!find(r) <= files[f].start
                        /\ \E f \in Provides[r] : Build!find(r) = files[f].start
<1> USE DEF InLog
<1> DEFINE starts == {files[f].start : f \in Provides[r]}
<1>1. CASE InLog(r)
  <2>1. \A f \in Provides[r] : files[f] \in Build!Entries
    BY <1>1, Assumed DEF Kinds, LogKinds, FileKinds, ProcessKinds
  <2>2. starts \subseteq Nat /\ starts # {}
    BY <2>1, Assumed DEF Build!Entries
  <2> DEFINE first == CHOOSE t \in starts : \A u \in starts : t <= u
  <2>3. first \in starts /\ \A u \in starts : first <= u
    <3>1. \E t \in starts : \A u \in starts : t <= u
      BY <2>2, LeastElement
    <3> QED BY <3>1
  <2>4. Build!find(r) = first
    BY <1>1 DEF Build!find
  <2> HIDE DEF first
  <2>5. Build!find(r) \in Nat /\ Build!find(r) # None
    BY <2>2, <2>3, <2>4, Assumed
  <2>6. \A f \in Provides[r] : Build!find(r) <= files[f].start
    BY <2>3, <2>4
  <2>7. \E f \in Provides[r] : Build!find(r) = files[f].start
    BY <2>3, <2>4
  <2> QED BY <1>1, <2>5, <2>6, <2>7
<1>2. CASE ~ InLog(r)
  BY <1>2 DEF Build!find
<1> QED BY <1>1, <1>2

\* No dependency counts if none was built and all are older.
LEMMA CheckUpdated ==
  ASSUME Build!BakeAssumption, Kinds, NEW r \in Rule, NEW start \in Nat
  PROVE  /\ "no" \in Build!check_updated(start, r) => AllOld(start, r)
         /\ AllOld(start, r) => Build!check_updated(start, r) = {"no"}
<1> DEFINE State(f) == IF updated[f] # "no" THEN updated[f]
                       ELSE IF build_mtime[f] = None \/ build_mtime[f] >= start THEN "built" ELSE "no"
           states == {State(f) : f \in Depends[r]} \ {"no"}
<1>1. Build!check_updated(start, r) = IF states = {} THEN {"no"} ELSE states
  BY DEF Build!check_updated
<1>2. \A g \in Depends[r] : build_mtime[g] \in Nat \cup {None}
  BY Assumed DEF Kinds, FileKinds
<1>3. \A g \in Depends[r] :
        State(g) = "no" <=> updated[g] = "no" /\ build_mtime[g] # None /\ build_mtime[g] < start
  BY <1>2
<1>4. states = {} <=> \A g \in Depends[r] : State(g) = "no"
  OBVIOUS
<1>5. "no" \in Build!check_updated(start, r) => states = {}
  BY <1>1
<1> QED BY <1>1, <1>3, <1>4, <1>5 DEF AllOld

\* Where the rule to process is among the others.
LEMMA HeadFacts ==
  ASSUME Build!BakeAssumption, Kinds, Sorted, rules # << >>
  PROVE  /\ Head(rules) \in Rule /\ Head(rules) \in goal /\ Head(rules) \in Left
         /\ Head(rules) \notin Processed
         /\ Provides[Head(rules)] \cap Depends[Head(rules)] = {}
         /\ \A r \in Processed : Provides[Head(rules)] \cap Depends[r] = {}
         /\ \A r \in Processed : Provides[Head(rules)] \cap Provides[r] = {}
<1>1. rules \in Seq(Rule) /\ Left \subseteq goal /\ goal \subseteq Rule
  BY DEF Kinds, ProcessKinds
<1>2. 1 \in DOMAIN rules /\ Head(rules) = rules[1] /\ Head(rules) \in Rule
  BY <1>1, EmptySeq, LenProperties, HeadTailProperties
<1>3. Head(rules) \in Left
  BY <1>2 DEF Left
<1>4. Provides[Head(rules)] \cap Depends[Head(rules)] = {}
  <2>1. Provides[rules[1]] \cap Depends[rules[1]] # {} => 1 < 1
    BY <1>2 DEF Sorted
  <2> QED BY <1>2, <2>1
<1>5. \A r \in Processed : r \in Rule /\ r # Head(rules)
  BY <1>1, <1>3 DEF Processed
<1> QED BY <1>1, <1>2, <1>3, <1>4, <1>5, Assumed DEF Sorted, Processed

\* One rule fewer to process.
LEMMA OnToTheNext ==
  ASSUME Build!BakeAssumption, Kinds, Sorted, rules # << >>, rules' = Tail(rules), goal' = goal
  PROVE  /\ rules' \in Seq(Rule) /\ Left' \subseteq Left /\ Sorted'
         /\ Processed' \subseteq Processed \cup {Head(rules)}
<1>1. rules \in Seq(Rule) /\ Len(rules) \in Nat /\ DOMAIN rules = 1..Len(rules)
  BY LenProperties DEF Kinds, ProcessKinds
<1>2. /\ rules' \in Seq(Rule) /\ Len(rules') = Len(rules) - 1
      /\ DOMAIN rules' = 1..(Len(rules) - 1) /\ Head(rules) = rules[1]
      /\ \A i \in 1..(Len(rules) - 1) : rules'[i] = rules[i+1]
  BY <1>1, HeadTailProperties, LenProperties
<1>3. PICK n : n = Len(rules)
  OBVIOUS
<1>4. \A i \in 1..(n - 1) : i + 1 \in 1..n
  BY <1>1, <1>3
<1>5. \A i \in DOMAIN rules' : i \in Int /\ i + 1 \in DOMAIN rules /\ rules'[i] = rules[i+1]
  BY <1>1, <1>2, <1>3, <1>4
<1>6. Left' \subseteq Left
  BY <1>5 DEF Left
<1>7. Left \subseteq Left' \cup {Head(rules)}
  <2> SUFFICES ASSUME NEW i \in DOMAIN rules, i # 1 PROVE rules[i] \in Left'
    BY <1>2 DEF Left
  <2>1. i - 1 \in 1..(n - 1) /\ (i - 1) + 1 = i
    BY <1>1, <1>3
  <2>2. i - 1 \in DOMAIN rules' /\ rules'[i - 1] = rules[i]
    BY <1>2, <1>3, <2>1
  <2> QED BY <2>2 DEF Left
<1>8. Processed' \subseteq Processed \cup {Head(rules)}
  BY <1>7 DEF Processed
<1>9. ASSUME NEW i \in DOMAIN rules', NEW j \in DOMAIN rules',
             Provides[rules'[i]] \cap Depends[rules'[j]] # {}
      PROVE  i < j
  <2>1. i + 1 \in DOMAIN rules /\ j + 1 \in DOMAIN rules /\ i \in Int /\ j \in Int
        /\ Provides[rules[i+1]] \cap Depends[rules[j+1]] # {}
    BY <1>5, <1>9
  <2>2. i + 1 < j + 1
    BY <2>1 DEF Sorted
  <2> QED BY <2>1, <2>2
<1>10. ASSUME NEW r \in Processed', NEW q \in Left' PROVE Provides[q] \cap Depends[r] = {}
  <2>1. CASE r \in Processed
    BY <1>6, <2>1 DEF Sorted
  <2>2. CASE r = Head(rules)
    <3>1. PICK i \in DOMAIN rules' : q = rules'[i]
      BY DEF Left
    <3>2. i \in 1..(n - 1) /\ i + 1 \in DOMAIN rules /\ q = rules[i+1] /\ 1 \in DOMAIN rules
      BY <1>1, <1>2, <1>3, <1>5, <3>1
    <3>3. ~ (i + 1 < 1)
      BY <3>2
    <3> QED BY <1>2, <2>2, <3>2, <3>3 DEF Sorted
  <2> QED BY <1>8, <2>1, <2>2
<1> QED BY <1>2, <1>6, <1>8, <1>9, <1>10 DEF Sorted

\* A file that is written or removed is not the one in the log any more, nor older
\* than a rule that has been started.
LEMMA LogKept ==
  ASSUME Build!BakeAssumption, Kinds, NEW l, LogKinds(l), Honest(l), now' \in Nat, now <= now',
         \A f \in Build!File : \/ content'[f] = content[f] /\ build_mtime'[f] = build_mtime[f]
                               \/ build_mtime'[f] = None \/ build_mtime'[f] = now
  PROVE  LogKinds(l)' /\ Honest(l)'
<1>1. now \in Nat /\ \A f \in Build!Output : l[f] # None => l[f] \in Build!Entries /\ f \in Build!File
  BY Assumed DEF Kinds, FileKinds, LogKinds
<1>2. LogKinds(l)'
  BY <1>1 DEF LogKinds, Build!Entries
<1>3. ASSUME NEW r \in Rule, NEW f \in Provides[r], Older(l, r, f)'
      PROVE  content'[f] = <<l[f].digest, Build!Restrict(content', Depends[r])>>
  <2>1. f \in Build!Output /\ f \in Build!File /\ Depends[r] \subseteq Build!File
    BY Assumed
  <2>2. l[f] \in Build!Entries /\ l[f].start < l[f].mtime /\ l[f].mtime < now /\ build_mtime'[f] = l[f].mtime
    BY <1>1, <1>3, <2>1 DEF LogKinds, Older
  <2>3. l[f].start \in Nat /\ l[f].mtime \in Nat
    BY <2>2 DEF Build!Entries
  <2>4. content'[f] = content[f] /\ build_mtime'[f] = build_mtime[f]
    BY <1>1, <1>3, <2>1, <2>2, <2>3 DEF Older
  <2>5. \A g \in Depends[r] : content'[g] = content[g] /\ build_mtime'[g] = build_mtime[g]
    <3> SUFFICES ASSUME NEW g \in Depends[r] PROVE content'[g] = content[g] /\ build_mtime'[g] = build_mtime[g]
      OBVIOUS
    <3>1. build_mtime'[g] # None /\ build_mtime'[g] < l[f].start
      BY <1>3 DEF Older
    <3>2. build_mtime'[g] # now
      BY <1>1, <2>2, <2>3, <3>1
    <3> QED BY <2>1, <3>1, <3>2
  <2>6. Older(l, r, f)
    BY <1>3, <2>4, <2>5 DEF Older
  <2>7. content[f] = <<l[f].digest, Build!Restrict(content, Depends[r])>>
    BY <2>6 DEF Honest
  <2>8. Build!Restrict(content', Depends[r]) = Build!Restrict(content, Depends[r])
    BY <2>5 DEF Build!Restrict
  <2> QED BY <2>4, <2>7, <2>8
<1> QED BY <1>2, <1>3 DEF Honest

\* A rule stays recorded as long as its files, and what the log says of its
\* outputs, stay.
LEMMA RecordedStays ==
  ASSUME NEW l, NEW r \in Rule, Recorded(l, r), NEW m,
         \A f \in Provides[r] : m[f] = l[f] /\ build_mtime'[f] = build_mtime[f],
         \A g \in Depends[r] : build_mtime'[g] = build_mtime[g], digest'[r] = digest[r]
  PROVE  Recorded(m, r)'
BY DEF Recorded

\* What is recorded is fresh, if the log is honest.
LEMMA RecordedFresh ==
  ASSUME Build!BakeAssumption, NEW l, Honest(l), NEW r \in Rule, Recorded(l, r)
  PROVE  Build!Fresh(r)
BY DEF Recorded, Honest, Older, Build!Fresh

\* A step that leaves the files alone but those of a set, which it may write or
\* remove.
OnlyTouches(S) ==
  /\ now' \in Nat /\ now <= now'
  /\ \A f \in Build!File : \/ content'[f] = content[f] /\ build_mtime'[f] = build_mtime[f]
                           \/ f \in S /\ (build_mtime'[f] = None \/ build_mtime'[f] = now)

LEMMA EmptyLog ==
  ASSUME Build!BakeAssumption
  PROVE  LogKinds(Build!NoLog) /\ Honest(Build!NoLog) /\ LogKinds(Build!NoLog)' /\ Honest(Build!NoLog)'
<1>1. \A r \in Rule : \A f \in Provides[r] : Build!NoLog[f] = None
  BY Assumed DEF Build!NoLog
<1>2. Build!NoLog \in [Build!Output -> Build!Entries \cup {None}] /\ \A f \in Build!Output : Build!NoLog[f] = None
  BY DEF Build!NoLog
<1>3. \A r \in Rule : \A f \in Provides[r] : ~ Older(Build!NoLog, r, f) /\ ~ Older(Build!NoLog, r, f)'
  BY <1>1 DEF Older, Build!NoLog
<1> QED BY <1>2, <1>3 DEF LogKinds, Honest, Build!NoLog

LEMMA LogsKept ==
  ASSUME Build!BakeAssumption, BakeInv, NEW S, OnlyTouches(S)
  PROVE  /\ build_logfile' \in {build_logfile, files} => LogKinds(build_logfile)' /\ Honest(build_logfile)'
         /\ files' \in {build_logfile, files, Build!NoLog} => LogKinds(files)' /\ Honest(files)'
<1>1. PICK l, m : l = build_logfile /\ m = files
  OBVIOUS
<1>2. Kinds /\ LogKinds(l) /\ LogKinds(m) /\ Honest(l) /\ Honest(m)
  BY <1>1 DEF BakeInv, Kinds
<1>3. LogKinds(l)' /\ Honest(l)' /\ LogKinds(m)' /\ Honest(m)'
  BY <1>2, LogKept DEF OnlyTouches
<1> QED BY <1>1, <1>3, EmptyLog

\* The steps that leave the files alone, and those that do not.
LEMMA NothingTouched ==
  ASSUME BakeInv, UNCHANGED <<content, build_mtime>>, now' = now \/ now' = now + 1
  PROVE  FileKinds' /\ OnlyTouches({})
BY DEF BakeInv, Kinds, FileKinds, OnlyTouches

LEMMA JunkTouches ==
  ASSUME Build!BakeAssumption, BakeInv, NEW S, S \subseteq Build!File, Build!Junk(S)
  PROVE  FileKinds' /\ OnlyTouches(S)
<1>1. /\ content' = [f \in Build!File |-> IF f \in S THEN <<"junk">> ELSE content[f]]
      /\ build_mtime' = [f \in Build!File |-> IF f \in S THEN now ELSE build_mtime[f]]
      /\ now' = now + 1 /\ now \in Nat /\ now # None
  BY Assumed DEF Build!Junk, BakeInv, Kinds, FileKinds
<1>2. OnlyTouches(S)
  BY <1>1 DEF OnlyTouches
<1>3. \A f \in Build!File : /\ build_mtime[f] # None => build_mtime[f] < now /\ build_mtime[f] \in Nat
                            /\ build_mtime[f] = None => content[f] = None
  BY DEF BakeInv, Kinds, FileKinds
<1> QED BY <1>1, <1>2, <1>3 DEF FileKinds

LEMMA RemoveTouches ==
  ASSUME Build!BakeAssumption, BakeInv, NEW S, Build!Remove(S), now' = now
  PROVE  FileKinds' /\ OnlyTouches(S)
<1>1. /\ content' = [f \in Build!File |-> IF f \in S THEN None ELSE content[f]]
      /\ build_mtime' = [f \in Build!File |-> IF f \in S THEN None ELSE build_mtime[f]]
      /\ now \in Nat
  BY DEF Build!Remove, BakeInv, Kinds, FileKinds
<1>2. OnlyTouches(S)
  BY <1>1 DEF OnlyTouches
<1>3. \A f \in Build!File : /\ build_mtime[f] # None => build_mtime[f] < now /\ build_mtime[f] \in Nat
                            /\ build_mtime[f] = None => content[f] = None
  BY DEF BakeInv, Kinds, FileKinds
<1> QED BY <1>1, <1>2, <1>3 DEF FileKinds

\* The files of an idle bake, or of one that is no more.
LEMMA IdleIsIdle ==
  ASSUME Build!BakeAssumption, build_pc' = "idle", goal' = {}, rules' = << >>
  PROVE  /\ Left' = {} /\ Processed' = {} /\ Sorted' /\ Running' /\ QuietBuild'
         /\ rules' \in Seq(Rule)
<1>1. DOMAIN rules' = {} /\ rules' \in Seq(Rule)
  OBVIOUS
<1>2. Left' = {} /\ Processed' = {}
  BY <1>1 DEF Left, Processed
<1> QED BY <1>1, <1>2 DEF Sorted, Running, QuietBuild, Busy

LEMMA InitBuild == Build!BakeAssumption /\ Build!Init => BakeInv
<1> SUFFICES ASSUME Build!BakeAssumption, Build!Init PROVE BakeInv
  OBVIOUS
<1>1. /\ DOMAIN rules = {} /\ rules \in Seq(Rule) /\ goal = {} /\ settled = {} /\ build_pc = "idle"
  BY DEF Build!Init
<1>2. Left = {} /\ Processed = {} /\ ~ Busy
  BY <1>1 DEF Left, Processed, Busy
<1>3. FileKinds
  BY Assumed DEF Build!Init, FileKinds
<1>4. LogKinds(Build!NoLog) /\ Honest(Build!NoLog)
  BY EmptyLog
<1>5. limit # 0
  BY Assumed, 0 \in Nat DEF Build!Init
<1>6. ProcessKinds
  BY <1>1, <1>2, <1>5, Assumed DEF Build!Init, ProcessKinds
<1> QED BY <1>1, <1>2, <1>3, <1>4, <1>6
        DEF Build!Init, BakeInv, Kinds, Sorted, Running, Busy, QuietBuild, Settling

\* Who makes a file depends on the bakefile alone.
LEMMA SameBakefile ==
  ASSUME digest' = digest
  PROVE  /\ \A f : Build!Providers(f)' = Build!Providers(f)
         /\ \A rs : Build!Needs(rs)' = Build!Needs(rs)
BY DEF Build!Providers, Build!Needs

\* What FiniteSets defines is the same in an instance.
LEMMA SameFiniteSets == ASSUME NEW S PROVE Build!IsFiniteSet(S) <=> IsFiniteSet(S)
BY DEF Build!IsFiniteSet, IsFiniteSet

LEMMA SameCardinality == ASSUME NEW S PROVE Build!Cardinality(S) = Cardinality(S)
BY DEF Build!Cardinality, Cardinality

\* build: the bakefile and the log are read.
LEMMA BuildStep ==
  ASSUME Build!BakeAssumption, BakeInv, Build!build
  PROVE  BakeInv'
<1>1. /\ build_pc = "idle" /\ build_pc' = "rule" /\ cmds' = digest /\ files' = build_logfile /\ log' = {}
      /\ limit' \in {None, 1} /\ always' \in BOOLEAN /\ updated' = [f \in Build!File |-> "no"]
      /\ failed' = FALSE /\ quiet' = TRUE
      /\ UNCHANGED <<content, build_mtime, digest, now, build_logfile, settled>>
  BY DEF Build!build, Build!diskVars
<1>2. PICK rs \in SUBSET {r \in Rule : digest[r] # None} :
        rs # {} /\ Build!Needs(rs) = rs /\ goal' = rs /\ rules' \in Build!sort_targets(rs)
  BY DEF Build!build
<1>3. Cardinality(rs) \in Nat
  <2>1. IsFiniteSet(rs)
    BY <1>2, FS_Subset, SameFiniteSets DEF Build!BakeAssumption
  <2> QED BY <2>1, FS_CardinalityType
<1>4. /\ rules' \in [1..Cardinality(rs) -> rs] /\ DOMAIN rules' = 1..Cardinality(rs)
      /\ \A r \in rs : \E i \in 1..Cardinality(rs) : rules'[i] = r
      /\ \A i, j \in DOMAIN rules' : Provides[rules'[i]] \cap Depends[rules'[j]] # {} => i < j
  BY <1>2, SameCardinality DEF Build!sort_targets, Build!Bijection, Build!Surjection, Build!Injection
<1>5. rules' \in Seq(Rule) /\ Left' = rs /\ Processed' = {}
  <2>1. rules' \in [1..Cardinality(rs) -> Rule]
    BY <1>2, <1>4
  <2>2. rules' \in Seq(Rule)
    BY <1>3, <2>1
  <2>3. Left' = rs
    BY <1>4 DEF Left
  <2> QED BY <1>2, <2>2, <2>3 DEF Processed
<1>6. Sorted'
  BY <1>4, <1>5 DEF Sorted
<1>7. /\ Kinds /\ Honest(build_logfile) /\ Settling
      /\ FileKinds' /\ LogKinds(build_logfile)' /\ Honest(build_logfile)' /\ LogKinds(files)' /\ Honest(files)'
  BY <1>1, NothingTouched, LogsKept DEF BakeInv
<1>8. ProcessKinds'
  <2>1. limit' \in {None} \cup Nat /\ limit' # 0
    BY <1>1, Assumed
  <2> QED BY <1>1, <1>2, <1>5, <1>7, <2>1 DEF Kinds, ProcessKinds, Busy
<1>9. Running' /\ ~ Busy'
  BY <1>1 DEF Running, Busy
<1>10. QuietBuild'
  BY <1>1, <1>2, <1>5, <1>9, SameBakefile DEF QuietBuild
<1>11. Settling'
  <2>1. \A r \in settled : Recorded(files, r)'
    BY <1>1, <1>7 DEF Settling, Recorded
  <2>2. \A r \in settled : Depends[r] \subseteq Build!File
    BY <1>7, Assumed DEF Kinds, ProcessKinds
  <2> QED BY <1>1, <1>7, <1>9, <2>1, <2>2, SameBakefile DEF Settling
<1> QED BY <1>6, <1>7, <1>8, <1>9, <1>10, <1>11 DEF BakeInv, Kinds

\* On to the next rule, or to the end after one failure too many.
LEMMA ContinueStep ==
  ASSUME Build!BakeAssumption, BakeInv, build_pc \notin {"idle", "end"}, rules # << >>, goal' = goal,
         NEW ok \in BOOLEAN, Build!Continue(ok)
  PROVE  /\ limit' \in {None} \cup Nat /\ (limit' # 0 \/ build_pc' = "end")
         /\ build_pc' \in {"rule", "end"} /\ (build_pc' = "end" => ~ ok)
         /\ failed' = (failed \/ ~ ok) /\ failed' \in BOOLEAN
         /\ rules' \in Seq(Rule) /\ Left' \subseteq goal
         /\ Processed' \subseteq Processed \cup {Head(rules)}
         /\ ~ Busy' /\ Sorted' /\ Running'
<1>1. /\ rules' = Tail(rules) /\ failed' = (failed \/ ~ ok)
      /\ limit' = IF ok \/ limit = None THEN limit ELSE limit - 1
      /\ build_pc' = IF limit' = 0 THEN "end" ELSE "rule"
  BY DEF Build!Continue
<1>2. /\ Kinds /\ Sorted /\ limit \in {None} \cup Nat /\ limit # 0
      /\ failed \in BOOLEAN /\ Left \subseteq goal
  BY DEF BakeInv, Kinds, ProcessKinds
<1>3. limit' \in {None} \cup Nat /\ (ok => limit' # 0)
  BY <1>1, <1>2
<1>4. ~ Busy' /\ Running'
  BY <1>1 DEF Busy, Running
<1> QED BY <1>1, <1>2, <1>3, <1>4, OnToTheNext

\* process_rule: nothing has to be done, or something it needs has failed.
LEMMA ReuseStep ==
  ASSUME Build!BakeAssumption, BakeInv, Build!process_rule_reuse
  PROVE  BakeInv'
<1> DEFINE r == Head(rules)
           start == Build!find(r)
<1>1. /\ build_pc = "rule" /\ rules # << >> /\ ~ always /\ start # None
      /\ UNCHANGED <<content, build_mtime, digest, now, build_logfile, cmds, files, log, updated, always,
                     goal, quiet, settled>>
  BY DEF Build!process_rule_reuse, Build!diskVars, Build!histVars
<1>2. PICK state \in Build!check_updated(start, r) : state # "built" /\ Build!Continue(state = "no")
  BY DEF Build!process_rule_reuse
<1>3. /\ Kinds /\ Settling /\ QuietBuild /\ Sorted
      /\ FileKinds' /\ LogKinds(build_logfile)' /\ Honest(build_logfile)' /\ LogKinds(files)' /\ Honest(files)'
  BY <1>1, NothingTouched, LogsKept DEF BakeInv
<1>4. PICK ok \in BOOLEAN : ok = (state = "no")
  OBVIOUS
<1>5. /\ limit' \in {None} \cup Nat /\ (limit' # 0 \/ build_pc' = "end")
      /\ build_pc' \in {"rule", "end"} /\ (build_pc' = "end" => ~ ok)
      /\ failed' = (failed \/ ~ ok) /\ failed' \in BOOLEAN
      /\ rules' \in Seq(Rule) /\ Left' \subseteq goal
      /\ Processed' \subseteq Processed \cup {r}
      /\ ~ Busy' /\ Sorted' /\ Running'
  BY <1>1, <1>2, <1>4, ContinueStep
<1>6. ProcessKinds'
  BY <1>1, <1>3, <1>5 DEF Kinds, ProcessKinds
<1>7. r \in Rule /\ r \in goal
  BY <1>1, <1>3, HeadFacts
<1>8. ok /\ digest = cmds => Recorded(files, r)
  <2> SUFFICES ASSUME ok, digest = cmds PROVE Recorded(files, r)
    OBVIOUS
  <2>1. InLog(r) /\ start \in Nat /\ \A f \in Provides[r] : start <= files[f].start
    BY <1>1, <1>3, <1>7, FindIsMinimum
  <2>2. AllOld(start, r)
    BY <1>2, <1>3, <1>4, <1>7, <2>1, CheckUpdated
  <2>3. ASSUME NEW f \in Provides[r], NEW g \in Depends[r]
        PROVE  build_mtime[g] # None /\ build_mtime[g] < files[f].start
    <3>1. build_mtime[g] # None /\ build_mtime[g] < start /\ build_mtime[g] \in Nat
      BY <1>3, <1>7, <2>2, Assumed DEF AllOld, Kinds, FileKinds
    <3>2. start \in Nat /\ start <= files[f].start /\ files[f].start \in Nat
      <4>1. f \in Build!Output /\ files[f] # None
        BY <1>7, <2>1, Assumed DEF InLog
      <4> QED BY <1>3, <2>1, <4>1 DEF Kinds, LogKinds, Build!Entries
    <3> QED BY <3>1, <3>2
  <2> QED BY <2>1, <2>3 DEF InLog, Recorded
<1>9. QuietBuild'
  <2> SUFFICES ASSUME quiet PROVE QuietBuild'
    BY <1>1 DEF QuietBuild
  <2>1. digest = cmds /\ Build!Needs(goal) = goal /\ (~ failed => \A q \in Processed : Recorded(files, q))
    BY <1>1 , <1>3 DEF QuietBuild
  <2>2. ~ failed' => \A q \in Processed' : Recorded(files, q)'
    <3> SUFFICES ASSUME ~ failed', NEW q \in Processed' PROVE Recorded(files, q)'
      OBVIOUS
    <3>1. ok /\ ~ failed /\ (q \in Processed \/ q = r)
      BY <1>5
    <3>2. Recorded(files, q)
      BY <1>8, <2>1, <3>1
    <3> QED BY <1>1, <3>2 DEF Recorded
  <2>3. digest' = cmds' /\ Build!Needs(goal)' = goal'
    BY <1>1, <2>1 DEF Build!Needs, Build!Providers
  <2> QED BY <1>5, <2>2, <2>3 DEF QuietBuild, Busy
<1>10. Settling'
  <2>1. \A q \in settled : Recorded(files, q) => Recorded(files, q)'
    BY <1>1 DEF Recorded
  <2> QED BY <1>1, <1>3, <1>5, <2>1, SameBakefile DEF Settling
<1> QED BY <1>3, <1>5, <1>6, <1>9, <1>10 DEF BakeInv, Kinds

\* No command is run for a rule that the log has, with nothing newer.
LEMMA RecordedIsReused ==
  ASSUME Build!BakeAssumption, BakeInv, build_pc = "rule", rules # << >>, ~ always, Build!process_rule_build
  PROVE  Head(rules) \notin settled
<1> DEFINE r == Head(rules)
           start == Build!find(r)
<1> SUFFICES ASSUME r \in settled PROVE FALSE
  OBVIOUS
<1>1. /\ Kinds /\ r \in Rule /\ r \in goal /\ Settling /\ QuietBuild
  BY HeadFacts DEF BakeInv
<1>2. Recorded(files, r) /\ (\A g \in Depends[r] : updated[g] = "no") /\ quiet /\ digest = cmds
  BY <1>1 DEF Settling, QuietBuild
<1>3. InLog(r)
  BY <1>2 DEF Recorded, InLog
<1>4. start \in Nat /\ start # None /\ \E f \in Provides[r] : start = files[f].start
  BY <1>1, <1>3, FindIsMinimum, Assumed
<1>5. AllOld(start, r)
  BY <1>2, <1>4 DEF AllOld, Recorded
<1>6. Build!check_updated(start, r) = {"no"}
  BY <1>1, <1>4, <1>5, CheckUpdated
<1> QED BY <1>4, <1>6 DEF Build!process_rule_build

\* process_rule: the time is taken before the commands begin.
LEMMA StartStep ==
  ASSUME Build!BakeAssumption, BakeInv, Build!process_rule_build
  PROVE  BakeInv'
<1> DEFINE r == Head(rules)
<1>1. /\ build_pc = "rule" /\ rules # << >> /\ start_time' = now /\ now' = now + 1 /\ build_pc' = "reads"
      /\ UNCHANGED <<content, build_mtime, digest, build_logfile, cmds, files, log, updated, rules,
                     limit, always, input, failed, goal, quiet, settled>>
  BY DEF Build!process_rule_build, Build!histVars
<1>2. /\ Kinds /\ Settling /\ QuietBuild /\ Sorted
      /\ FileKinds' /\ LogKinds(build_logfile)' /\ Honest(build_logfile)' /\ LogKinds(files)' /\ Honest(files)'
  BY <1>1, NothingTouched, LogsKept DEF BakeInv
<1>3. Left' = Left /\ Processed' = Processed /\ Sorted' /\ r \in Rule
  BY <1>1, <1>2, HeadFacts DEF Left, Processed, Sorted
<1>4. ProcessKinds'
  BY <1>1, <1>2, <1>3 DEF Kinds, ProcessKinds
<1>5. Running'
  BY <1>1, <1>2 DEF Running, Kinds, FileKinds
<1>6. \A l, q : Recorded(l, q)' = Recorded(l, q)
  BY <1>1 DEF Recorded
<1>7. QuietBuild'
  <2>1. \A g \in Depends[r] : build_mtime[g] = None \/ build_mtime[g] < now
    BY <1>2, <1>3, Assumed DEF Kinds, FileKinds
  <2> QED BY <1>1, <1>2, <1>3, <1>6, <2>1, SameBakefile DEF QuietBuild
<1>8. Settling'
  <2>1. \A q : Recorded(files, q) => Recorded(files, q)'
    BY <1>1 DEF Recorded
  <2>2. ~ always => Head(rules) \notin settled
    BY <1>1, RecordedIsReused
  <2> QED BY <1>1, <1>2, <2>1, <2>2, SameBakefile DEF Settling
<1> QED BY <1>2, <1>3, <1>4, <1>5, <1>7, <1>8 DEF BakeInv, Kinds

\* run_commands: the dependencies are read.
ReadStep ==
  /\ build_pc = "reads" /\ \A f \in Depends[Head(rules)] : build_mtime[f] # None
  /\ input' = Build!Restrict(content, Depends[Head(rules)]) /\ build_pc' = "runs"
  /\ UNCHANGED <<content, build_mtime, digest, now, build_logfile, tasks, cmds, files, log, updated,
                 rules, limit, always, start_time, failed, goal, quiet, settled>>

LEMMA ReadKeeps ==
  ASSUME Build!BakeAssumption, BakeInv, ReadStep
  PROVE  BakeInv'
<1> DEFINE r == Head(rules)
<1>1. /\ build_pc = "reads" /\ build_pc' = "runs" /\ \A f \in Depends[r] : build_mtime[f] # None
      /\ input' = Build!Restrict(content, Depends[r])
      /\ UNCHANGED <<content, build_mtime, digest, now, build_logfile, cmds, files, log, updated, rules,
                     limit, always, start_time, failed, goal, quiet, settled>>
  BY DEF ReadStep
<1>2. /\ Kinds /\ Settling /\ QuietBuild /\ Sorted /\ Running /\ Busy /\ Busy'
      /\ FileKinds' /\ LogKinds(build_logfile)' /\ Honest(build_logfile)' /\ LogKinds(files)' /\ Honest(files)'
  BY <1>1, NothingTouched, LogsKept DEF BakeInv, Busy
<1>3. Left' = Left /\ Processed' = Processed /\ Sorted'
  BY <1>1, <1>2 DEF Left, Processed, Sorted
<1>4. ProcessKinds'
  BY <1>1, <1>2, <1>3 DEF Kinds, ProcessKinds
<1>5. Running'
  BY <1>1, <1>2 DEF Running, Build!Restrict
<1>6. \A q : Recorded(files, q) => Recorded(files, q)'
  BY <1>1 DEF Recorded
<1>7. QuietBuild'
  BY <1>1, <1>2, <1>3, <1>6, SameBakefile DEF QuietBuild
<1>8. Settling'
  BY <1>1, <1>2, <1>6, SameBakefile DEF Settling
<1> QED BY <1>2, <1>3, <1>4, <1>5, <1>7, <1>8 DEF BakeInv, Kinds

\* And the outputs written.
RunStep ==
  LET r == Head(rules) IN
    /\ build_pc = "runs" /\ build_pc' = "ran" /\ now' = now + 1
    /\ content' = [f \in Build!File |-> IF f \in Provides[r] THEN <<cmds[r], input>> ELSE content[f]]
    /\ build_mtime' = [f \in Build!File |-> IF f \in Provides[r] THEN now ELSE build_mtime[f]]
    /\ UNCHANGED <<digest, build_logfile, tasks, cmds, files, log, updated, rules, limit, always,
                   start_time, input, failed, goal, quiet, settled>>

\* A write to the outputs of a rule disturbs no rule that is recorded and does
\* not need it.
LEMMA OthersStay ==
  ASSUME Build!BakeAssumption, NEW r \in Rule, NEW q \in Rule, OnlyTouches(Provides[r]),
         digest' = digest, files' = files, Recorded(files, q), q # r,
         Provides[r] \cap Depends[q] = {}
  PROVE  Recorded(files, q)'
<1>1. \A f \in Provides[q] \cup Depends[q] : f \in Build!File /\ f \notin Provides[r]
  BY Assumed
<1>2. \A f \in Provides[q] \cup Depends[q] : build_mtime'[f] = build_mtime[f]
  BY <1>1 DEF OnlyTouches
<1> QED BY <1>2 DEF Recorded

\* No rule that is settled needs one that is not.
LEMMA SettledApart ==
  ASSUME Build!BakeAssumption, BakeInv, build_pc # "idle", NEW r \in goal, r \notin settled, NEW q \in settled
  PROVE  q \in Rule /\ q # r /\ Provides[r] \cap Depends[q] = {}
<1>1. quiet /\ digest = cmds /\ cmds[r] # None /\ r \in Rule /\ q \in Rule
  BY DEF BakeInv, Settling, QuietBuild, Kinds, ProcessKinds
<1>2. ASSUME NEW g \in Depends[q], g \in Provides[r] PROVE FALSE
  <2>1. r \in Build!Providers(g)
    BY <1>1, <1>2 DEF Build!Providers
  <2> QED BY <2>1 DEF BakeInv, Settling
<1> QED BY <1>1, <1>2

LEMMA WriteKeeps ==
  ASSUME Build!BakeAssumption, BakeInv, RunStep
  PROVE  BakeInv'
<1> DEFINE r == Head(rules)
<1>1. /\ build_pc = "runs" /\ build_pc' = "ran" /\ now' = now + 1
      /\ content' = [f \in Build!File |-> IF f \in Provides[r] THEN <<cmds[r], input>> ELSE content[f]]
      /\ build_mtime' = [f \in Build!File |-> IF f \in Provides[r] THEN now ELSE build_mtime[f]]
      /\ UNCHANGED <<digest, build_logfile, cmds, files, log, updated, rules,
                     limit, always, start_time, input, failed, goal, quiet, settled>>
  BY DEF RunStep
<1>2. /\ Kinds /\ Settling /\ QuietBuild /\ Sorted /\ Running /\ Busy /\ Busy' /\ rules # << >>
      /\ now \in Nat /\ now # None /\ now' \in Nat /\ start_time \in Nat /\ start_time < now
      /\ build_mtime \in [Build!File -> Nat \cup {None}]
  BY <1>1, Assumed DEF BakeInv, Busy, Kinds, FileKinds, ProcessKinds, Running
<1>3. /\ r \in Rule /\ r \in goal /\ r \notin Processed /\ Provides[r] \subseteq Build!File
      /\ Depends[r] \subseteq Build!File /\ Provides[r] \cap Depends[r] = {}
      /\ \A q \in Processed : q \in Rule /\ q # r /\ Provides[r] \cap Depends[q] = {}
  BY <1>2, HeadFacts, Assumed DEF Kinds, ProcessKinds, Processed
<1>4. OnlyTouches(Provides[r])
  BY <1>1, <1>2 DEF OnlyTouches
<1>5. FileKinds'
  <2>1. \A f \in Build!File : /\ build_mtime[f] # None => build_mtime[f] < now /\ build_mtime[f] \in Nat
                              /\ build_mtime[f] = None => content[f] = None
    BY <1>2 DEF Kinds, FileKinds
  <2> QED BY <1>1, <1>2, <2>1 DEF FileKinds
<1>6. LogKinds(build_logfile)' /\ Honest(build_logfile)' /\ LogKinds(files)' /\ Honest(files)'
  BY <1>1, <1>4, LogsKept
<1>7. Left' = Left /\ Processed' = Processed /\ Sorted'
  BY <1>1, <1>2 DEF Left, Processed, Sorted
<1>8. ProcessKinds'
  BY <1>1, <1>2, <1>7 DEF Kinds, ProcessKinds
<1>9. \A g \in Depends[r] : content'[g] = content[g] /\ build_mtime'[g] = build_mtime[g]
  BY <1>1, <1>3
<1>10. Running'
  <2>1. \A f \in Provides[r] : content'[f] = <<cmds[r], input>> /\ build_mtime'[f] = now
    BY <1>1, <1>3
  <2>2. \A f \in Provides[r] : build_mtime'[f] # None /\ start_time < build_mtime'[f]
    BY <1>2, <2>1
  <2>3. start_time < now'
    BY <1>1, <1>2
  <2> QED BY <1>1, <1>2, <1>9, <2>1, <2>2, <2>3 DEF Running
<1>11. QuietBuild'
  <2> SUFFICES ASSUME quiet PROVE QuietBuild'
    BY <1>1 DEF QuietBuild
  <2>1. /\ digest = cmds /\ Build!Needs(goal) = goal
        /\ \A g \in Depends[r] : (build_mtime[g] = None \/ build_mtime[g] < start_time) /\ build_mtime[g] # None
        /\ ~ failed => \A q \in Processed : Recorded(files, q)
    BY <1>1, <1>2 DEF QuietBuild
  <2>2. ~ failed => \A q \in Processed : Recorded(files, q)'
    BY <1>1, <1>3, <1>4, <2>1, OthersStay
  <2>3. digest' = cmds' /\ Build!Needs(goal)' = goal'
    BY <1>1, <2>1 DEF Build!Needs, Build!Providers
  <2> QED BY <1>1, <1>7, <1>9, <2>1, <2>2, <2>3 DEF QuietBuild
<1>12. Settling'
  <2>1. ~ always => \A q \in settled : Recorded(files, q)'
    <3> SUFFICES ASSUME ~ always, NEW q \in settled PROVE Recorded(files, q)'
      OBVIOUS
    <3>1. Recorded(files, q) /\ r \notin settled
      BY <1>1, <1>2 DEF Settling
    <3>2. q \in Rule /\ q # r /\ Provides[r] \cap Depends[q] = {}
      BY <1>1, <1>3, <3>1, SettledApart
    <3> QED BY <1>1, <1>3, <1>4, <3>1, <3>2, OthersStay
  <2> QED BY <1>1, <1>2, <2>1, SameBakefile DEF Settling
<1> QED BY <1>5, <1>6, <1>7, <1>8, <1>10, <1>11, <1>12 DEF BakeInv, Kinds

\* A command fails, with some of the outputs written.
LEMMA FailStep ==
  ASSUME Build!BakeAssumption, BakeInv, Build!process_rule_fails
  PROVE  BakeInv'
<1> DEFINE r == Head(rules)
<1>1. /\ build_pc \in {"reads", "runs"} /\ Build!Continue(FALSE)
      /\ updated' = [f \in Build!File |-> IF f \in Provides[r] THEN "failed" ELSE updated[f]]
      /\ UNCHANGED <<digest, build_logfile, cmds, files, log, always, goal, quiet, settled>>
  BY DEF Build!process_rule_fails, Build!histVars
<1>2. PICK S \in SUBSET Provides[r] : Build!Junk(S)
  BY DEF Build!process_rule_fails
<1>3. /\ Kinds /\ Settling /\ QuietBuild /\ Sorted /\ Busy /\ rules # << >>
  BY <1>1 DEF BakeInv, Busy, Kinds, ProcessKinds
<1>4. /\ r \in Rule /\ r \in goal /\ Provides[r] \subseteq Build!File
  BY <1>3, HeadFacts, Assumed
<1>5. FileKinds' /\ OnlyTouches(Provides[r])
  <2>1. S \subseteq Build!File
    BY <1>4
  <2>2. FileKinds' /\ OnlyTouches(S)
    BY <1>2, <2>1, JunkTouches
  <2> QED BY <2>2 DEF OnlyTouches
<1>6. LogKinds(build_logfile)' /\ Honest(build_logfile)' /\ LogKinds(files)' /\ Honest(files)'
  BY <1>1, <1>5, LogsKept
<1>7. /\ limit' \in {None} \cup Nat /\ (limit' # 0 \/ build_pc' = "end")
      /\ build_pc' \in {"rule", "end"} /\ failed' = TRUE
      /\ rules' \in Seq(Rule) /\ Left' \subseteq goal
      /\ ~ Busy' /\ Sorted' /\ Running'
  BY <1>1, <1>3, ContinueStep
<1>8. ProcessKinds'
  <2>1. updated' \in [Build!File -> {"no", "built", "failed"}]
    BY <1>1, <1>3 DEF Kinds, ProcessKinds
  <2> QED BY <1>1, <1>3, <1>7, <2>1 DEF Kinds, ProcessKinds
<1>9. QuietBuild'
  BY <1>1, <1>3, <1>7, SameBakefile DEF QuietBuild
<1>10. Settling'
  <2>1. ~ always => \A q \in settled : Recorded(files, q)' /\ \A g \in Depends[q] : updated'[g] = "no"
    <3> SUFFICES ASSUME ~ always, NEW q \in settled
                 PROVE  Recorded(files, q)' /\ \A g \in Depends[q] : updated'[g] = "no"
      OBVIOUS
    <3>1. Recorded(files, q) /\ r \notin settled /\ \A g \in Depends[q] : updated[g] = "no"
      BY <1>1, <1>3 DEF Settling
    <3>2. q \in Rule /\ q # r /\ Provides[r] \cap Depends[q] = {} /\ Depends[q] \subseteq Build!File
      BY <1>1, <1>4, <3>1, SettledApart, Assumed
    <3>3. Recorded(files, q)'
      BY <1>1, <1>4, <1>5, <3>1, <3>2, OthersStay
    <3> QED BY <1>1, <3>1, <3>2, <3>3
  <2> QED BY <1>1, <1>3, <1>7, <2>1, SameBakefile DEF Settling
<1> QED BY <1>5, <1>6, <1>7, <1>8, <1>9, <1>10 DEF BakeInv, Kinds

\* A rule has been built, and is logged.
LEMMA EndStep ==
  ASSUME Build!BakeAssumption, BakeInv, Build!process_rule_End
  PROVE  BakeInv'
<1> DEFINE r == Head(rules)
<1>1. /\ build_pc = "ran" /\ Build!Continue(TRUE)
      /\ files' = [f \in Build!Output |-> IF f \in Provides[r]
                                          THEN Build!Entry(start_time, cmds[r], build_mtime[f]) ELSE files[f]]
      /\ log' = log \cup Provides[r]
      /\ updated' = [f \in Build!File |-> IF f \in Provides[r] THEN "built" ELSE updated[f]]
      /\ UNCHANGED <<content, build_mtime, now, digest, build_logfile, cmds, always, goal, quiet, settled>>
  BY DEF Build!process_rule_End, Build!histVars, Build!diskVars
<1>2. /\ Kinds /\ Settling /\ QuietBuild /\ Sorted /\ Running /\ Busy /\ rules # << >>
      /\ Honest(files) /\ LogKinds(files)
  BY <1>1 DEF BakeInv, Busy, Kinds, ProcessKinds
<1>3. /\ r \in Rule /\ r \in goal /\ Provides[r] \subseteq Build!Output /\ Provides[r] # {}
      /\ \A q \in Processed : q \in Rule /\ q # r
  BY <1>2, HeadFacts, Assumed DEF Kinds, ProcessKinds, Processed
<1>4. FileKinds' /\ LogKinds(build_logfile)' /\ Honest(build_logfile)'
  BY <1>1, NothingTouched, LogsKept
<1>5. /\ start_time \in Nat /\ cmds[r] \in Digest
      /\ \A f \in Provides[r] : /\ build_mtime[f] \in Nat /\ start_time < build_mtime[f] /\ build_mtime[f] < now
                                /\ build_mtime[f] # None /\ content[f] = <<cmds[r], input>>
  <2>1. cmds[r] # None /\ cmds[r] \in Digest \cup {None}
    BY <1>2, <1>3 DEF Kinds, ProcessKinds
  <2>2. \A f \in Provides[r] : f \in Build!File
    BY <1>3, Assumed
  <2>3. \A f \in Provides[r] : build_mtime[f] # None /\ start_time < build_mtime[f]
                               /\ content[f] = <<cmds[r], input>>
    BY <1>1, <1>2 DEF Running
  <2>4. start_time \in Nat
    BY <1>2 DEF Running
  <2> QED BY <1>2, <2>1, <2>2, <2>3, <2>4 DEF Kinds, FileKinds
<1>6. \A f \in Provides[r] : /\ files'[f] = Build!Entry(start_time, cmds[r], build_mtime[f])
                             /\ files'[f] \in Build!Entries /\ files'[f] # None
                             /\ files'[f].start = start_time /\ files'[f].digest = cmds[r]
                             /\ files'[f].mtime = build_mtime[f]
  <2>1. \A f \in Provides[r] : files'[f] = Build!Entry(start_time, cmds[r], build_mtime[f])
    BY <1>1, <1>3
  <2> QED BY <1>5, <2>1, Assumed DEF Build!Entry, Build!Entries
<1>7. \A f \in Build!Output : f \notin Provides[r] => files'[f] = files[f]
  BY <1>1
<1>8. LogKinds(files)'
  <2>1. files' \in [Build!Output -> Build!Entries \cup {None}]
    BY <1>1, <1>2, <1>6 DEF LogKinds
  <2>2. \A f \in Build!Output : files'[f] # None => files'[f].start < files'[f].mtime /\ files'[f].mtime < now
    BY <1>2, <1>5, <1>6, <1>7 DEF LogKinds
  <2> QED BY <1>1, <2>1, <2>2 DEF LogKinds
<1>9. Honest(files)'
  <2> SUFFICES ASSUME NEW q \in Rule, NEW f \in Provides[q], Older(files, q, f)'
               PROVE  (content[f] = <<files[f].digest, Build!Restrict(content, Depends[q])>>)'
    BY DEF Honest
  <2>1. CASE q = r
    <3>1. \A g \in Depends[r] : build_mtime[g] # None /\ build_mtime[g] < start_time
      BY <1>1, <1>6, <2>1 DEF Older
    <3>2. Build!Restrict(content, Depends[r]) = input
      BY <1>1, <1>2, <3>1 DEF Running, Build!Restrict
    <3> QED BY <1>1, <1>5, <1>6, <2>1, <3>2 DEF Build!Restrict
  <2>2. CASE q # r
    <3>1. f \in Build!Output /\ f \notin Provides[r]
      BY <1>3, <2>2, Assumed
    <3>2. files'[f] = files[f]
      BY <1>7, <3>1
    <3>3. Older(files, q, f)
      BY <1>1, <3>2 DEF Older
    <3>4. content[f] = <<files[f].digest, Build!Restrict(content, Depends[q])>>
      BY <1>2, <3>3 DEF Honest
    <3> QED BY <1>1, <3>2, <3>4 DEF Build!Restrict
  <2> QED BY <2>1, <2>2
<1>10. /\ limit' \in {None} \cup Nat /\ (limit' # 0 \/ build_pc' = "end")
       /\ build_pc' = "rule" /\ failed' = failed /\ failed' \in BOOLEAN
       /\ rules' \in Seq(Rule) /\ Left' \subseteq goal
       /\ Processed' \subseteq Processed \cup {r}
       /\ ~ Busy' /\ Sorted' /\ Running'
  BY <1>1, <1>2, ContinueStep DEF Kinds, ProcessKinds
<1>11. ProcessKinds'
  <2>1. updated' \in [Build!File -> {"no", "built", "failed"}] /\ log' \subseteq Build!Output
    BY <1>1, <1>2, <1>3 DEF Kinds, ProcessKinds
  <2> QED BY <1>1, <1>2, <1>10, <2>1 DEF Kinds, ProcessKinds
<1>12. ASSUME NEW q \in Rule, q # r, Recorded(files, q) PROVE Recorded(files, q)'
  <2>1. \A f \in Provides[q] : f \in Build!Output /\ f \notin Provides[r]
    BY <1>3, <1>12, Assumed
  <2>2. \A f \in Provides[q] : files'[f] = files[f]
    BY <1>7, <2>1
  <2> QED BY <1>1, <1>12, <2>2 DEF Recorded
<1>13. QuietBuild'
  <2> SUFFICES ASSUME quiet PROVE QuietBuild'
    BY <1>1 DEF QuietBuild
  <2>1. /\ digest = cmds /\ Build!Needs(goal) = goal
        /\ \A g \in Depends[r] : (build_mtime[g] = None \/ build_mtime[g] < start_time) /\ build_mtime[g] # None
        /\ ~ failed => \A q \in Processed : Recorded(files, q)
    BY <1>1, <1>2 DEF QuietBuild
  <2>2. PICK h : h = r
    OBVIOUS
  <2>3. Recorded(files, h)'
    <3>1. \A f \in Provides[h] : /\ build_mtime'[f] # None /\ files'[f] # None
                                 /\ files'[f].digest = digest'[h] /\ files'[f].mtime = build_mtime'[f]
                                 /\ files'[f].start = start_time
      BY <1>1, <1>5, <1>6, <2>1, <2>2
    <3>2. \A g \in Depends[h] : build_mtime'[g] # None /\ build_mtime'[g] < start_time
      BY <1>1, <2>1, <2>2
    <3> QED BY <3>1, <3>2 DEF Recorded
  <2>4. ~ failed => \A q \in Processed : Recorded(files, q)'
    BY <1>3, <1>12, <2>1
  <2>5. digest' = cmds' /\ Build!Needs(goal)' = goal'
    BY <1>1, <2>1 DEF Build!Needs, Build!Providers
  <2>6. ~ failed' => \A q \in Processed' : Recorded(files, q)'
    <3> SUFFICES ASSUME ~ failed', NEW q \in Processed' PROVE Recorded(files, q)'
      OBVIOUS
    <3>1. ~ failed /\ (q \in Processed \/ q = h)
      BY <1>10, <2>2
    <3> QED BY <2>3, <2>4, <3>1
  <2> QED BY <1>10, <2>5, <2>6 DEF QuietBuild
<1>14. Settling'
  <2>1. ~ always => \A q \in settled : Recorded(files, q)' /\ \A g \in Depends[q] : updated'[g] = "no"
    <3> SUFFICES ASSUME ~ always, NEW q \in settled
                 PROVE  Recorded(files, q)' /\ \A g \in Depends[q] : updated'[g] = "no"
      OBVIOUS
    <3>1. Recorded(files, q) /\ r \notin settled /\ \A g \in Depends[q] : updated[g] = "no"
      BY <1>1, <1>2 DEF Settling
    <3>2. q \in Rule /\ q # r /\ Provides[r] \cap Depends[q] = {} /\ Depends[q] \subseteq Build!File
      BY <1>1, <1>3, <3>1, SettledApart, Assumed
    <3> QED BY <1>1, <1>12, <3>1, <3>2
  <2>2. log' # {}
    BY <1>1, <1>3
  <2>3. /\ \A q \in settled' : \A f \in Depends[q] : Build!Providers(f)' \subseteq settled'
        /\ settled' # {} => quiet'
    BY <1>1, <1>2, SameBakefile DEF Settling
  <2> QED BY <1>1, <1>10, <2>1, <2>2, <2>3 DEF Settling
<1> QED BY <1>4, <1>8, <1>9, <1>10, <1>11, <1>13, <1>14 DEF BakeInv, Kinds

\* The log is written when the process ends.
LEMMA BuildEndStep ==
  ASSUME Build!BakeAssumption, BakeInv, Build!build_End
  PROVE  BakeInv'
<1>1. /\ build_pc = "end" \/ (build_pc = "rule" /\ rules = << >>)
      /\ build_logfile' = IF log = {} THEN build_logfile ELSE files
      /\ settled' = IF failed \/ ~ quiet THEN {}
                    ELSE IF log = {} THEN settled \cup goal ELSE goal
      /\ build_pc' = "idle" /\ cmds' = [r \in Rule |-> None] /\ files' = Build!NoLog /\ log' = {}
      /\ updated' = [f \in Build!File |-> "no"]
      /\ rules' = << >> /\ limit' = None /\ always' = FALSE
      /\ failed' = FALSE /\ goal' = {} /\ quiet' = TRUE
      /\ UNCHANGED <<content, build_mtime, digest, now>>
  BY DEF Build!build_End, Build!Ends
<1>2. /\ Kinds /\ Settling /\ QuietBuild
      /\ FileKinds' /\ LogKinds(build_logfile)' /\ Honest(build_logfile)' /\ LogKinds(files)' /\ Honest(files)'
  BY <1>1, NothingTouched, LogsKept DEF BakeInv
<1>3. /\ Left' = {} /\ Processed' = {} /\ Sorted' /\ Running' /\ QuietBuild'
      /\ rules' \in Seq(Rule)
  BY <1>1, IdleIsIdle
<1>4. ProcessKinds'
  <2>1. settled' \subseteq Rule
    BY <1>1, <1>2 DEF Kinds, ProcessKinds
  <2>2. None # 0
    BY Assumed
  <2> QED BY <1>1, <1>2, <1>3, <2>1, <2>2 DEF Kinds, ProcessKinds, Busy
<1>5. Settling'
  <2>1. CASE failed \/ ~ quiet
    BY <1>1, <2>1 DEF Settling
  <2>2. CASE ~ (failed \/ ~ quiet)
    <3>1. build_pc = "rule" /\ rules = << >> /\ quiet /\ ~ failed
      BY <1>1, <1>2, <2>2 DEF Kinds, ProcessKinds
    <3>2. Left = {} /\ Processed = goal
      BY <3>1 DEF Left, Processed
    <3>3. Build!Needs(goal) = goal /\ \A r \in goal : Recorded(files, r)
      BY <3>1, <3>2, <1>2 DEF QuietBuild
    <3>4. \A r \in goal : \A f \in Depends[r] : Build!Providers(f) \subseteq goal
      BY <3>3 DEF Build!Needs
    <3>5. \A r \in settled : \A f \in Depends[r] : Build!Providers(f) \subseteq settled
      BY <1>2 DEF Settling
    <3>6. /\ \A r \in settled' : \A f \in Depends[r] : Build!Providers(f) \subseteq settled'
          /\ \A r \in settled' : Recorded(files, r) /\ build_logfile' = files
      <4>1. CASE log = {}
        <5>1. files = build_logfile /\ \A r \in settled : Recorded(files, r)
          BY <1>2, <3>1, <4>1 DEF Settling
        <5>2. settled' = settled \cup goal
          BY <1>1, <2>2, <4>1
        <5> QED BY <1>1, <3>3, <3>4, <3>5, <4>1, <5>1, <5>2
      <4>2. CASE log # {}
        <5>1. settled' = goal
          BY <1>1, <2>2, <4>2
        <5> QED BY <1>1, <3>3, <3>4, <4>2, <5>1
      <4> QED BY <4>1, <4>2
    <3>7. \A r \in settled' : Recorded(build_logfile, r)'
      BY <1>1, <3>6 DEF Recorded
    <3> QED BY <1>1, <3>6, <3>7, SameBakefile DEF Settling
  <2> QED BY <2>1, <2>2
<1> QED BY <1>2, <1>3, <1>4, <1>5 DEF BakeInv, Kinds

\* The process is killed, in the middle of a command or not.
LEMMA KillStep ==
  ASSUME Build!BakeAssumption, BakeInv, Build!Kill
  PROVE  BakeInv'
<1>1. /\ build_pc # "idle" /\ build_pc' = "idle" /\ cmds' = [r \in Rule |-> None] /\ files' = Build!NoLog
      /\ log' = {} /\ updated' = [f \in Build!File |-> "no"]
      /\ rules' = << >> /\ limit' = None /\ always' = FALSE
      /\ failed' = FALSE /\ goal' = {} /\ quiet' = TRUE /\ settled' = {}
      /\ UNCHANGED <<digest, build_logfile>>
  BY DEF Build!Kill, Build!Ends
<1>2. PICK S : FileKinds' /\ OnlyTouches(S)
  <2>1. CASE build_pc = "runs"
    <3>1. PICK fs \in SUBSET Provides[Head(rules)] : Build!Junk(fs)
      BY <2>1 DEF Build!Kill
    <3>2. Head(rules) \in Rule
      BY <2>1, HeadFacts DEF BakeInv, Kinds, ProcessKinds, Busy
    <3>3. fs \subseteq Build!File
      BY <3>2, Assumed
    <3> QED BY <3>1, <3>3, JunkTouches
  <2>2. CASE build_pc # "runs"
    BY <2>2, NothingTouched DEF Build!Kill
  <2> QED BY <2>1, <2>2
<1>3. LogKinds(build_logfile)' /\ Honest(build_logfile)' /\ LogKinds(files)' /\ Honest(files)'
  BY <1>1, <1>2, LogsKept
<1>4. /\ Left' = {} /\ Processed' = {} /\ Sorted' /\ Running' /\ QuietBuild'
      /\ rules' \in Seq(Rule)
  BY <1>1, IdleIsIdle
<1>5. ProcessKinds'
  <2>1. None # 0 /\ digest \in [Rule -> Digest \cup {None}]
    BY Assumed DEF BakeInv, Kinds, ProcessKinds
  <2> QED BY <1>1, <1>4, <2>1 DEF ProcessKinds, Busy
<1>6. Settling'
  BY <1>1 DEF Settling
<1> QED BY <1>2, <1>3, <1>4, <1>5, <1>6 DEF BakeInv, Kinds

\* The parts of the state that a user leaves alone who removes or edits files.
LEMMA UserStep ==
  ASSUME Build!BakeAssumption, BakeInv, settled' = {}, NEW S, OnlyTouches(S), S \cap Build!Output = {} \/ build_pc = "idle",
         UNCHANGED <<build_pc, cmds, files, log, updated, rules, limit, always, start_time, input, failed, goal>>,
         FileKinds', digest' \in [Rule -> Digest \cup {None}],
         quiet' \in BOOLEAN, build_pc # "idle" => build_logfile' = build_logfile /\ quiet' = FALSE,
         LogKinds(build_logfile)', Honest(build_logfile)'
  PROVE  BakeInv'
<1>1. Kinds /\ Sorted /\ Running /\ Settling
  BY DEF BakeInv
<1>2. Left' = Left /\ Processed' = Processed /\ Sorted' /\ Busy' = Busy
  BY <1>1 DEF Left, Processed, Sorted, Busy
<1>3. ProcessKinds'
  BY <1>1, <1>2 DEF Kinds, ProcessKinds
<1>4. LogKinds(files)' /\ Honest(files)'
  <2>1. files' = files
    OBVIOUS
  <2> QED BY <2>1, LogsKept
<1>5. Running'
  <2> SUFFICES ASSUME Busy PROVE Running'
    BY <1>2 DEF Running, Busy
  <2> DEFINE r == Head(rules)
  <2>1. /\ r \in Rule /\ Provides[r] \subseteq Build!Output /\ Provides[r] \subseteq Build!File
        /\ Depends[r] \subseteq Build!File /\ start_time \in Nat /\ start_time < now
        /\ now \in Nat /\ now' \in Nat /\ now <= now' /\ S \cap Build!Output = {}
    BY <1>1, HeadFacts, Assumed DEF Kinds, FileKinds, ProcessKinds, Running, OnlyTouches, Busy
  <2>2. \A f \in Provides[r] : content'[f] = content[f] /\ build_mtime'[f] = build_mtime[f]
    BY <2>1 DEF OnlyTouches
  <2>3. \A g \in Depends[r] : build_mtime'[g] # None /\ build_mtime'[g] < start_time =>
                                content'[g] = content[g] /\ build_mtime'[g] = build_mtime[g]
    BY <2>1 DEF OnlyTouches
  <2>4. start_time < now'
    BY <2>1
  <2> QED BY <1>1, <1>2, <2>1, <2>2, <2>3, <2>4 DEF Running
<1>6. QuietBuild'
  BY DEF QuietBuild
<1>7. Settling'
  BY <1>1 DEF Settling
<1> QED BY <1>2, <1>3, <1>4, <1>5, <1>6, <1>7 DEF BakeInv, Kinds

\* clean and cleandead remove outputs, and cleandead what the log says of them.
LEMMA CleanStep ==
  ASSUME Build!BakeAssumption, BakeInv, Build!clean \/ Build!cleandead
  PROVE  BakeInv'
<1>1. /\ build_pc = "idle" /\ settled' = {}
      /\ UNCHANGED <<digest, now, build_pc, cmds, files, log, updated, rules, limit, always,
                     start_time, input, failed, goal, quiet>>
  BY DEF Build!clean, Build!cleandead, Build!Remove, Build!procVars
<1>2. PICK S : FileKinds' /\ OnlyTouches(S)
  BY <1>1, RemoveTouches DEF Build!clean, Build!cleandead
<1>3. LogKinds(build_logfile)' /\ Honest(build_logfile)'
  <2>1. PICK l : l = build_logfile
    OBVIOUS
  <2>2. LogKinds(l)' /\ Honest(l)'
    BY <1>2, <2>1, LogKept DEF BakeInv, Kinds, OnlyTouches
  <2>3. \A f \in Build!Output : build_logfile'[f] \in {l[f], None}
    BY <2>1 DEF Build!clean, Build!cleandead
  <2>4. build_logfile' \in [Build!Output -> Build!Entries \cup {None}]
    <3>1. build_logfile \in [Build!Output -> Build!Entries \cup {None}]
      BY DEF BakeInv, Kinds, LogKinds
    <3> QED BY <3>1 DEF Build!clean, Build!cleandead
  <2>5. LogKinds(build_logfile)'
    BY <2>2, <2>3, <2>4 DEF LogKinds
  <2>6. Honest(build_logfile)'
    <3> SUFFICES ASSUME NEW r \in Rule, NEW f \in Provides[r], Older(build_logfile, r, f)'
                 PROVE  (content[f] = <<build_logfile[f].digest, Build!Restrict(content, Depends[r])>>)'
      BY DEF Honest
    <3>1. f \in Build!Output /\ build_logfile'[f] # None
      BY Assumed DEF Older
    <3>2. build_logfile'[f] = l[f]
      BY <2>3, <3>1
    <3>3. Older(l, r, f)'
      BY <3>2 DEF Older
    <3> QED BY <2>2, <3>2, <3>3 DEF Honest
  <2> QED BY <2>5, <2>6
<1>4. digest' \in [Rule -> Digest \cup {None}] /\ quiet' \in BOOLEAN
  BY <1>1 DEF BakeInv, Kinds, ProcessKinds
<1> QED BY <1>1, <1>2, <1>3, <1>4, UserStep

\* A source is edited, or the bakefile, at any time.
LEMMA EditStep ==
  ASSUME Build!BakeAssumption, BakeInv,
         (\E f \in Source : Build!EditSource(f)) \/ (\E r \in Rule : Build!EditBakefile(r))
  PROVE  BakeInv'
<1>1. /\ settled' = {} /\ quiet' = (build_pc = "idle")
      /\ UNCHANGED <<build_logfile, build_pc, cmds, files, log, updated, rules, limit, always,
                     start_time, input, failed, goal>>
  BY DEF Build!EditSource, Build!EditBakefile, Build!Edited, Build!procVars
<1>2. PICK S : FileKinds' /\ OnlyTouches(S) /\ S \cap Build!Output = {}
  <2>1. CASE \E f \in Source : Build!EditSource(f)
    <3>1. PICK f \in Source : Build!EditSource(f)
      BY <2>1
    <3>2. /\ f \in Build!File /\ {f} \cap Build!Output = {} /\ FileKinds /\ now # None
          /\ content' = [content EXCEPT ![f] = @ + 1]
          /\ build_mtime' = [build_mtime EXCEPT ![f] = now] /\ now' = now + 1
      BY <3>1, Assumed DEF Build!EditSource, BakeInv, Kinds, FileKinds
    <3>3. /\ \A g \in Build!File : g # f => content'[g] = content[g] /\ build_mtime'[g] = build_mtime[g]
          /\ build_mtime'[f] = now /\ DOMAIN content' = Build!File /\ build_mtime' \in [Build!File -> Nat \cup {None}]
      BY <3>2 DEF FileKinds
    <3>4. OnlyTouches({f})
      BY <3>2, <3>3 DEF OnlyTouches, FileKinds
    <3>5. \A g \in Build!File : /\ build_mtime'[g] # None => build_mtime'[g] < now'
                                /\ build_mtime'[g] = None => content'[g] = None
      <4>1. \A g \in Build!File : /\ build_mtime[g] # None => build_mtime[g] < now /\ build_mtime[g] \in Nat
                                  /\ build_mtime[g] = None => content[g] = None
        BY <3>2 DEF FileKinds
      <4>2. now \in Nat
        BY <3>2 DEF FileKinds
      <4> QED BY <3>2, <3>3, <4>1, <4>2
    <3>6. FileKinds'
      BY <3>2, <3>3, <3>5 DEF FileKinds
    <3> QED BY <3>2, <3>4, <3>6
  <2>2. CASE \E r \in Rule : Build!EditBakefile(r)
    <3>1. UNCHANGED <<content, build_mtime, now>>
      BY <2>2 DEF Build!EditBakefile
    <3> QED BY <3>1, NothingTouched
  <2> QED BY <2>1, <2>2
<1>3. LogKinds(build_logfile)' /\ Honest(build_logfile)'
  BY <1>1, <1>2, LogsKept
<1>4. digest' \in [Rule -> Digest \cup {None}]
  BY DEF Build!EditSource, Build!EditBakefile, BakeInv, Kinds, ProcessKinds
<1> QED BY <1>1, <1>2, <1>3, <1>4, UserStep

\* Nothing changes.
LEMMA SameState ==
  ASSUME BakeInv, UNCHANGED Build!vars
  PROVE  BakeInv'
<1>1. UNCHANGED <<content, build_mtime, digest, now, build_logfile, build_pc, cmds, files, log, updated, rules,
                  limit, always, start_time, input, failed, goal, quiet, settled>>
  BY DEF Build!vars, Build!diskVars, Build!procVars, Build!histVars
<1>2. Left' = Left /\ Processed' = Processed /\ (Busy' <=> Busy)
  BY <1>1 DEF Left, Processed, Busy
<1>3. Kinds'
  BY <1>1, <1>2 DEF BakeInv, Kinds, FileKinds, LogKinds, ProcessKinds
<1>4. Honest(build_logfile)' /\ Honest(files)'
  BY <1>1 DEF BakeInv, Honest, Older, Build!Restrict
<1>5. Sorted' /\ Running'
  BY <1>1, <1>2 DEF BakeInv, Sorted, Running
<1>6. \A r : (Recorded(files, r) => Recorded(files, r)') /\ (Recorded(build_logfile, r) => Recorded(build_logfile, r)')
  BY <1>1 DEF Recorded
<1>7. QuietBuild' /\ Settling'
  BY <1>1, <1>2, <1>6, SameBakefile DEF BakeInv, QuietBuild, Settling
<1> QED BY <1>3, <1>4, <1>5, <1>7 DEF BakeInv

LEMMA NextBuild == Build!BakeAssumption /\ BakeInv /\ [Build!Next]_(Build!vars) => BakeInv'
<1> SUFFICES ASSUME Build!BakeAssumption, BakeInv, [Build!Next]_(Build!vars) PROVE BakeInv'
  OBVIOUS
<1>1. CASE Build!build
  BY <1>1, BuildStep
<1>2. CASE Build!process_rule_reuse
  BY <1>2, ReuseStep
<1>3. CASE Build!process_rule_build
  BY <1>3, StartStep
<1>4. CASE Build!run_commands
  <2>1. ReadStep \/ RunStep
    BY <1>4 DEF Build!run_commands, ReadStep, RunStep, Build!diskVars, Build!histVars
  <2> QED BY <2>1, ReadKeeps, WriteKeeps
<1>5. CASE Build!process_rule_fails
  BY <1>5, FailStep
<1>6. CASE Build!process_rule_End
  BY <1>6, EndStep
<1>7. CASE Build!build_End
  BY <1>7, BuildEndStep
<1>8. CASE Build!Kill
  BY <1>8, KillStep
<1>9. CASE Build!clean \/ Build!cleandead
  BY <1>9, CleanStep
<1>10. CASE (\E f \in Source : Build!EditSource(f)) \/ (\E r \in Rule : Build!EditBakefile(r))
  BY <1>10, EditStep
<1>11. CASE UNCHANGED Build!vars
  BY <1>11, SameState
<1> QED BY <1>1, <1>2, <1>3, <1>4, <1>5, <1>6, <1>7, <1>8, <1>9, <1>10, <1>11 DEF Build!Next, Build!Process

\* What bake knows of its files is true, at every step, whatever the user does.
THEOREM BakeInvariant == ASSUME Build!BakeAssumption PROVE Build!Spec => []BakeInv
<1>1. Build!Init => BakeInv
  BY InitBuild
<1>2. BakeInv /\ [Build!Next]_(Build!vars) => BakeInv'
  BY NextBuild
<1> QED BY <1>1, <1>2, PTL DEF Build!Spec

LEMMA KindsTypeOK == ASSUME Build!BakeAssumption, Kinds PROVE Build!BakeTypeOK
<1>1. \A f \in Build!Output : \A e \in {build_logfile[f], files[f]} \ {None} :
        e.start < e.mtime /\ e.mtime < now
  BY DEF Kinds, LogKinds
<1> QED BY <1>1 DEF Kinds, FileKinds, ProcessKinds, Build!BakeTypeOK

\* A build that succeeds leaves what it was asked for up to date, and the log
\* that the next one trusts is honest (process_rule, Log.find, check_updated).
THEOREM BuildsAreFresh == ASSUME Build!BakeAssumption PROVE Build!Spec => []BuiltIsFresh
<1>1. ASSUME BakeInv PROVE BuiltIsFresh
  <2>1. Build!BakeTypeOK
    BY <1>1, KindsTypeOK DEF BakeInv
  <2>2. Build!EntriesHonest
    <3>1. Honest(build_logfile)
      BY <1>1 DEF BakeInv
    <3> QED BY <3>1 DEF Honest, Older, Build!EntriesHonest
  <2>3. ASSUME build_pc = "rule", rules = << >>, ~ failed, quiet, NEW r \in goal PROVE Build!Fresh(r)
    <3>1. Processed = goal /\ r \in Rule
      BY <1>1, <2>3 DEF Processed, Left, BakeInv, Kinds, ProcessKinds
    <3>2. Recorded(files, r) /\ Honest(files)
      BY <1>1, <2>3, <3>1 DEF BakeInv, QuietBuild
    <3> QED BY <3>1, <3>2, RecordedFresh
  <2> QED BY <2>1, <2>2, <2>3 DEF BuiltIsFresh, Build!BuiltIsFresh
<1> QED BY <1>1, BakeInvariant, PTL

\* And a build that follows one that succeeded runs no command again
\* (process_rule, Log.append, write_log).
THEOREM BuildsAreNotRepeated == ASSUME Build!BakeAssumption PROVE Build!Spec => NoRework
<1>1. ASSUME BakeInv, [Build!Next]_(Build!vars)
      PROVE  [build_pc = "rule" /\ build_pc' = "reads" /\ ~ always => Head(rules) \notin settled]_(Build!vars)
  <2> SUFFICES ASSUME Build!Next, build_pc = "rule", build_pc' = "reads", ~ always PROVE Head(rules) \notin settled
    BY <1>1
  <2>1. Build!process_rule_build
    BY DEF Build!Next, Build!Process, Build!build, Build!process_rule_reuse, Build!run_commands, Build!process_rule_fails,
           Build!process_rule_End, Build!build_End, Build!Ends, Build!Continue, Build!Kill, Build!clean, Build!cleandead, Build!EditSource,
           Build!EditBakefile, Build!procVars
  <2>2. rules # << >>
    BY <2>1 DEF Build!process_rule_build
  <2> QED BY <1>1, <2>1, <2>2, RecordedIsReused
<1> QED BY <1>1, BakeInvariant, PTL DEF Build!Spec, NoRework, Build!NoRework
=============================================================================
