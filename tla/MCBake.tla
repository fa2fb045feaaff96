------------------------------- MODULE MCBake -------------------------------
(***************************************************************************)
(* Small instances for TLC of the two models of code/bake: the builds of   *)
(* two rules, the second of which needs an output of the first             *)
(* (BakeBuild), and the log file under bakes that run at the same time or  *)
(* one after the other (BakeLog).  Which it is is chosen at the start and  *)
(* the variables of the other model stay as they are.                      *)
(***************************************************************************)
EXTENDS Bake, TLC

CONSTANTS p1, p2, p3, s1, s2, a, h, b, A, B, d1, d2

VARIABLE part

buildVars == <<content, build_mtime, digest, now, tasks, build_logfile,
               build_pc, cmds, files, log, updated, rules, goal, limit, always,
               start_time, input, failed, quiet, settled>>

\* What the two rules make and need.
Makes == A :> {a, h} @@ B :> {b}
Takes == A :> {s1} @@ B :> {a, s2}

ASSUME Build!BakeAssumption

MCInit == part \in {"build", "log"} /\ Init /\ Build!Init

MCNext ==
  \/ part = "log" /\ Next /\ UNCHANGED <<part, buildVars>>
  \/ part = "build" /\ Build!Next /\ UNCHANGED <<part, vars>>

MCSpec == MCInit /\ [][MCNext]_<<part, vars, buildVars>>

Symmetric == Permutations({p1, p2, p3}) \cup Permutations({d1, d2})

=============================================================================
