-------------------------------- MODULE Bake --------------------------------
(***************************************************************************)
(* The two models of code/bake side by side: the log file under any number *)
(* of bakes (BakeLog), and the builds (BakeBuild, as Build), whose         *)
(* variables have names of their own where the other has the same.         *)
(***************************************************************************)
EXTENDS BakeLog

CONSTANTS Source, Rule, Provides, Depends, Digest, Tasks

VARIABLES
  content, build_mtime, digest, now, tasks, build_logfile,
  build_pc, cmds, files, log, updated, rules, goal, limit, always,
  start_time, input, failed, quiet, settled

Build == INSTANCE BakeBuild WITH
  mtime <- build_mtime, logfile <- build_logfile, pc <- build_pc

\* A build that succeeds leaves what it was asked for up to date
\* (process_rule, Log.find, check_updated).
BuiltIsFresh == Build!BuiltIsFresh

\* And the next one does nothing (process_rule, Log.append).
NoRework == Build!NoRework

=============================================================================
