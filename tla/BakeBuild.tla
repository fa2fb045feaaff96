------------------------------ MODULE BakeBuild ------------------------------
(***************************************************************************)
(* The incremental build of code/bake: which rules a build runs, from the  *)
(* times of the files and from the log of the builds before, while a user  *)
(* edits sources and the bakefile, and commands fail or are killed.        *)
(*                                                                         *)
(* The content of an output is the command and the contents it was made    *)
(* from, so that a stale one can be told.  Two assumptions: a command that *)
(* succeeds makes all its outputs (bake copes with a missing one at lines  *)
(* 516 and 617), and the times of files and of the program are those of    *)
(* one clock that gives none twice.                                        *)
(***************************************************************************)
EXTENDS Integers, Sequences, FiniteSets, Functions

CONSTANTS Source, Rule,
          Provides, Depends,   \* the files of each rule
          Digest,              \* the commands a rule may have
          Tasks,               \* bound: edits and builds of the user
          None

Output == UNION {Provides[r] : r \in Rule}
File   == Source \cup Output

\* A line of the log.
Entries == [start : Nat, digest : Digest, mtime : Nat]

\* A rule is found by what it makes, so that one that makes nothing is never
\* built; and no two make one file (resolve_targets, get_providers).
BakeAssumption ==
  /\ Provides \in [Rule -> SUBSET File] /\ Depends \in [Rule -> SUBSET File]
  /\ IsFiniteSet(Rule) /\ Source \cap Output = {}
  /\ \A r \in Rule : Provides[r] # {}
  /\ \A q, r \in Rule : q # r => Provides[q] \cap Provides[r] = {}
  /\ None \notin Digest \cup Nat \cup Entries /\ Tasks \in Nat

VARIABLES
  content, mtime,   \* the files; mtime None if there is no such file
  digest,           \* the bakefile: the command of each rule, None without it
  now, tasks,
  logfile,          \* .bake_log: for a file its entry or None
  pc,               \* "idle", "rule", "reads", "runs", "ran" or "end"
  cmds,             \* the bakefile as the process has read it
  files, log,       \* class Log: the entries, and the files of new ones
  updated,          \* for a file: "no", "built", or "failed" (None)
  rules,            \* the rules still to process
  goal,             \* history: all rules of this build
  limit, always,    \* --keep-going and --always-build
  start_time, input,\* of the rule that runs: and what its command has read
  failed,           \* whether a rule has failed in this build
  quiet,            \* history: nothing was edited since the build began
  settled           \* history: nothing was since a build that succeeded

diskVars == <<content, mtime, digest, now, logfile>>
procVars == <<pc, cmds, files, log, updated, rules, limit, always, start_time,
              input, failed>>
histVars == <<goal, quiet, settled>>
vars == <<diskVars, tasks, procVars, histVars>>

NoLog == [f \in Output |-> None]

Init ==
  /\ content = [f \in File |-> IF f \in Source THEN 0 ELSE None]
  /\ mtime = [f \in File |-> IF f \in Source THEN 0 ELSE None]
  /\ digest \in [Rule -> Digest]
  /\ now = 1 /\ tasks = 0 /\ logfile = NoLog
  /\ pc = "idle" /\ cmds = [r \in Rule |-> None] /\ files = NoLog /\ log = {}
  /\ updated = [f \in File |-> "no"]
  /\ rules = << >> /\ limit = None /\ always = FALSE
  /\ start_time = 0 /\ input = << >> /\ failed = FALSE
  /\ goal = {} /\ quiet = TRUE /\ settled = {}

-----------------------------------------------------------------------------
(* The log and the decision.                                               *)

Entry(start, dig, mt) == [start |-> start, digest |-> dig, mtime |-> mt]

\* Mutant: a file is taken for the one in the log whatever its time.
find_AnyTime(r) ==
  IF \A f \in Provides[r] :
       mtime[f] # None /\ files[f] # None /\ files[f].digest = cmds[r]
  THEN LET starts == {files[f].start : f \in Provides[r]} IN
         CHOOSE t \in starts : \A u \in starts : t <= u
  ELSE None

\* Log.find: when the rule was started that made these files as they are.
find(r) ==
  IF \A f \in Provides[r] :
       /\ mtime[f] # None /\ files[f] # None
       /\ files[f].digest = cmds[r] /\ files[f].mtime = mtime[f]
  THEN LET starts == {files[f].start : f \in Provides[r]} IN
         CHOOSE t \in starts : \A u \in starts : t <= u
  ELSE None

\* Every dependency that was built in this run counts, in some order: the first
\* that was built or that is newer decides.
check_updated(start, r) ==
  LET State(f) == IF updated[f] # "no" THEN updated[f]
                  ELSE IF mtime[f] = None \/ mtime[f] >= start THEN "built" ELSE "no"
      states == {State(f) : f \in Depends[r]} \ {"no"} IN
    IF states = {} THEN {"no"} ELSE states

-----------------------------------------------------------------------------
(* The process.                                                            *)

Providers(f) == {r \in Rule : digest[r] # None /\ f \in Provides[r]}

\* resolve_targets and sort_targets: the rules that the targets need, those
\* they depend on first.
Needs(rs) == rs \cup UNION {UNION {Providers(f) : f \in Depends[r]} : r \in rs}
sort_targets(rs) ==
  {s \in Bijection(1..Cardinality(rs), rs) :
     \A i, j \in DOMAIN s : Provides[s[i]] \cap Depends[s[j]] # {} => i < j}

\* main and build: the bakefile and the log are read.
build ==
  /\ pc = "idle" /\ tasks < Tasks /\ tasks' = tasks + 1
  /\ cmds' = digest /\ files' = logfile /\ log' = {}
  /\ \E rs \in SUBSET {r \in Rule : digest[r] # None} :
       /\ rs # {} /\ Needs(rs) = rs
       /\ goal' = rs /\ rules' \in sort_targets(rs)
  /\ limit' \in {None, 1} /\ always' \in BOOLEAN
  /\ updated' = [f \in File |-> "no"]
  /\ failed' = FALSE /\ quiet' = TRUE
  /\ pc' = "rule"
  /\ UNCHANGED <<diskVars, start_time, input, settled>>

\* A rule has been processed: on to the next, unless it is one failure too many.
Continue(ok) ==
  /\ rules' = Tail(rules) /\ start_time' = 0 /\ input' = << >>
  /\ failed' = (failed \/ ~ ok)
  /\ limit' = IF ok \/ limit = None THEN limit ELSE limit - 1
  /\ pc' = IF limit' = 0 THEN "end" ELSE "rule"

process_rule_reuse ==
  /\ pc = "rule" /\ rules # << >> /\ ~ always
  /\ LET start == find(Head(rules)) IN
       /\ start # None
       /\ \E state \in check_updated(start, Head(rules)) :
            /\ state # "built"
            /\ Continue(state = "no")
  /\ UNCHANGED <<diskVars, tasks, cmds, files, log, updated, always, histVars>>

\* start_time is before the commands begin.
process_rule_build ==
  /\ pc = "rule" /\ rules # << >>
  /\ LET start == find(Head(rules)) IN
       always \/ start = None \/ (start # None /\ "built" \in check_updated(start, Head(rules)))
  /\ start_time' = now /\ now' = now + 1
  /\ pc' = "reads"
  /\ UNCHANGED <<content, mtime, digest, logfile, tasks, cmds, files,
                 log, updated, rules, limit, always, input, failed, histVars>>

\* The commands: they read the dependencies and write the outputs, or fail,
\* when they may have written some of them.
run_commands ==
  \/ /\ pc = "reads" /\ \A f \in Depends[Head(rules)] : mtime[f] # None
     /\ input' = Restrict(content, Depends[Head(rules)])
     /\ pc' = "runs"
     /\ UNCHANGED <<diskVars, tasks, cmds, files, log, updated, rules, limit,
                    always, start_time, failed, histVars>>
  \/ /\ pc = "runs"
     /\ LET r == Head(rules) IN
          /\ content' = [f \in File |-> IF f \in Provides[r]
                                        THEN <<cmds[r], input>> ELSE content[f]]
          /\ mtime' = [f \in File |-> IF f \in Provides[r] THEN now ELSE mtime[f]]
     /\ now' = now + 1 /\ pc' = "ran"
     /\ UNCHANGED <<digest, logfile, tasks, cmds, files, log, updated,
                    rules, limit, always, start_time, input, failed, histVars>>

Junk(fs) ==
  /\ content' = [f \in File |-> IF f \in fs THEN <<"junk">> ELSE content[f]]
  /\ mtime' = [f \in File |-> IF f \in fs THEN now ELSE mtime[f]]
  /\ now' = now + 1

process_rule_fails ==
  /\ pc \in {"reads", "runs"}
  /\ \E fs \in SUBSET Provides[Head(rules)] : Junk(fs)
  /\ updated' = [f \in File |-> IF f \in Provides[Head(rules)] THEN "failed" ELSE updated[f]]
  /\ Continue(FALSE)
  /\ UNCHANGED <<digest, logfile, tasks, cmds, files, log, always,
                 histVars>>

\* Mutant: Log.append is forgotten.
process_rule_End_NoLog ==
  /\ pc = "ran"
  /\ updated' = [f \in File |-> IF f \in Provides[Head(rules)] THEN "built" ELSE updated[f]]
  /\ Continue(TRUE)
  /\ UNCHANGED <<diskVars, tasks, cmds, files, log, always, histVars>>

process_rule_End ==
  /\ pc = "ran"
  /\ LET r == Head(rules) IN
       /\ files' = [f \in Output |-> IF f \in Provides[r]
                                     THEN Entry(start_time, cmds[r], mtime[f]) ELSE files[f]]
       /\ log' = log \cup Provides[r]
       /\ updated' = [f \in File |-> IF f \in Provides[r] THEN "built" ELSE updated[f]]
  /\ Continue(TRUE)
  /\ UNCHANGED <<diskVars, tasks, cmds, always, histVars>>

\* The process ends, and its variables with it.
Ends ==
  /\ pc' = "idle" /\ cmds' = [r \in Rule |-> None] /\ files' = NoLog /\ log' = {}
  /\ updated' = [f \in File |-> "no"]
  /\ rules' = << >> /\ limit' = None /\ always' = FALSE
  /\ start_time' = 0 /\ input' = << >> /\ failed' = FALSE
  /\ goal' = {} /\ quiet' = TRUE

\* The end of open_log, after exit(1) too; entries of files without a time are
\* not written.
build_End ==
  /\ pc = "end" \/ (pc = "rule" /\ rules = << >>)
  /\ logfile' = IF log = {} THEN logfile ELSE files
  /\ settled' = IF failed \/ ~ quiet THEN {}
                ELSE IF log = {} THEN settled \cup goal ELSE goal
  /\ Ends
  /\ UNCHANGED <<content, mtime, digest, now, tasks>>

\* A signal that no handler sees.
Kill ==
  /\ pc # "idle" /\ Ends
  /\ IF pc = "runs" THEN \E fs \in SUBSET Provides[Head(rules)] : Junk(fs)
     ELSE UNCHANGED <<content, mtime, now>>
  /\ settled' = {}
  /\ UNCHANGED <<digest, logfile, tasks>>

-----------------------------------------------------------------------------
(* The other tasks, and the user.                                          *)

Remove(fs) ==
  /\ content' = [f \in File |-> IF f \in fs THEN None ELSE content[f]]
  /\ mtime' = [f \in File |-> IF f \in fs THEN None ELSE mtime[f]]
  /\ settled' = {}

clean ==
  /\ pc = "idle"
  /\ \E rs \in SUBSET {r \in Rule : digest[r] # None} :
       /\ rs # {} /\ Needs(rs) = rs
       /\ Remove(UNION {Provides[r] : r \in rs})
  /\ UNCHANGED <<digest, now, logfile, tasks, procVars, goal, quiet>>

\* What the log has and no rule makes any more is removed; the log is saved
\* if the process lives that long.
cleandead ==
  /\ pc = "idle" /\ \E r \in Rule : digest[r] # None
  /\ LET dead == {f \in Output : logfile[f] # None /\ Providers(f) = {}} IN
       /\ Remove(dead)
       /\ \/ logfile' = [f \in Output |-> IF f \in dead THEN None ELSE logfile[f]]
          \/ UNCHANGED logfile
  /\ UNCHANGED <<digest, now, tasks, procVars, goal, quiet>>

Edited ==
  tasks < Tasks /\ tasks' = tasks + 1 /\ quiet' = (pc = "idle") /\ settled' = {}

EditSource(f) ==
  /\ Edited
  /\ content' = [content EXCEPT ![f] = @ + 1]
  /\ mtime' = [mtime EXCEPT ![f] = now] /\ now' = now + 1
  /\ UNCHANGED <<digest, logfile, procVars, goal>>

EditBakefile(r) ==
  /\ Edited
  /\ \E d \in (Digest \cup {None}) \ {digest[r]} : digest' = [digest EXCEPT ![r] = d]
  /\ UNCHANGED <<content, mtime, now, logfile, procVars, goal>>

-----------------------------------------------------------------------------
Process ==
  \/ build \/ process_rule_reuse \/ process_rule_build \/ run_commands
  \/ process_rule_fails \/ process_rule_End \/ build_End

Next ==
  \/ Process \/ Kill \/ clean \/ cleandead
  \/ \E f \in Source : EditSource(f)
  \/ \E r \in Rule : EditBakefile(r)

Spec == Init /\ [][Next]_vars

-----------------------------------------------------------------------------
(* Properties.                                                             *)

\* Every variable holds a value of its kind (Log, updated, the files).
BakeTypeOK ==
  /\ \A f \in File : mtime[f] = None => content[f] = None
  /\ \A f \in File : mtime[f] # None => mtime[f] < now
  /\ digest \in [Rule -> Digest \cup {None}]
  /\ pc \in {"idle", "rule", "reads", "runs", "ran", "end"}
  /\ \A f \in Output : \A e \in {logfile[f], files[f]} \ {None} :
       e.start < e.mtime /\ e.mtime < now
  /\ log \subseteq Output
  /\ updated \in [File -> {"no", "built", "failed"}]
  /\ limit \in {None} \cup Nat /\ settled \subseteq Rule

\* An output is what its command makes of the dependencies as they are.
Fresh(r) ==
  \A f \in Provides[r] : content[f] = <<digest[r], Restrict(content, Depends[r])>>

\* What the log says of files that have not changed since is what made them:
\* with dependencies older than its start they need not be made again.
EntriesHonest ==
  \A r \in Rule :
    (\A f \in Provides[r] : /\ mtime[f] # None /\ logfile[f] # None
                           /\ logfile[f].mtime = mtime[f]
                           /\ \A g \in Depends[r] :
                                mtime[g] # None /\ mtime[g] < logfile[f].start)
    => \A f \in Provides[r] :
         content[f] = <<logfile[f].digest, Restrict(content, Depends[r])>>

\* After a build without a failure, in which nobody edited anything, all that it
\* was asked for is up to date, whatever was edited, killed, removed or failed
\* before; and the log that the next one trusts is honest.
BuiltIsFresh ==
  /\ BakeTypeOK /\ EntriesHonest
  /\ pc = "rule" /\ rules = << >> /\ ~ failed /\ quiet => \A r \in goal : Fresh(r)

\* A build that follows one that succeeded runs no command of the rules of that
\* one, unless it is told to or something was edited.
NoRework ==
  [][pc = "rule" /\ pc' = "reads" /\ ~ always => Head(rules) \notin settled]_vars

=============================================================================
