------------------------------- MODULE Fuse9p -------------------------------
(***************************************************************************)
(* The file system of code/fuse-9p.c: it answers the kernel's FUSE         *)
(* requests with calls of a 9P server on the host.                         *)
(*                                                                         *)
(* One thread serves one FUSE request at a time, and each 9P call waits    *)
(* for its response (virtio_9p_sendrecv), so that a call is one step.  The *)
(* kernel is external: it holds an inode as long as it has not forgotten   *)
(* all lookups of it, and what it forgets reaches the program later,       *)
(* possibly after newer lookups.  The server is external: it may fail any  *)
(* call, but for the clunks of lookup, open and forget, which the code     *)
(* asserts to succeed, and it fails every call on a fid it does not know.  *)
(* getattr, readlink, statfs, read and readdir change neither side's       *)
(* state: what they need is in FidsAccounted.                              *)
(***************************************************************************)
EXTENDS Integers, Sequences, FiniteSets

CONSTANTS Qid,        \* the files of the server
          root_qid,   \* its root
          NoQid,      \* no file
          MaxFid,     \* bound: fids are below MaxFid
          MaxLookup,  \* bound: lookups of an inode the program has counted
          MaxOpen,    \* bound: open files
          MaxLost     \* bound: open files whose release has failed

\* Inode 1 is the root for the kernel, whatever the server calls it.
ASSUME FuseAssumption ==
  /\ Qid \subseteq Nat /\ {1, root_qid} \subseteq Qid
  /\ NoQid \notin Qid
  /\ MaxFid \in Nat \ {0} /\ MaxLookup \in Nat
  /\ MaxOpen \in Nat /\ MaxLost \in Nat

Fid == 0..MaxFid-1

\* The root becomes 1, and the file 1 keeps its number.
virtio_9p_fix_qid_OneWay(q) == IF q = root_qid THEN 1 ELSE q

\* An inode is the qid of its file, with the root and 1 swapped.
virtio_9p_fix_qid(q) ==
  IF q = root_qid THEN 1 ELSE IF q = 1 THEN root_qid ELSE q

VARIABLES
  \* struct virtio_9p_dev: the hash table is a set of inodes and two functions
  next_fid, free_fid, nodes, nlookup, node_fid,
  \* the request being served: its next call, its operation, its inode, the fid
  \* it establishes and the inode a lookup found
  pc, op, ino, newfid, nodeid,
  \* the kernel: lookups it holds, lookups it has forgotten and the program has
  \* not, open files
  known, forgets, opened,
  \* the server: the file of each fid
  fids,
  \* history: the fids of open files that could not be clunked
  lost

driverVars  == <<next_fid, free_fid, nodes, nlookup, node_fid>>
requestVars == <<pc, op, ino, newfid, nodeid>>
kernelVars  == <<known, forgets, opened>>
fuseVars    == <<driverVars, requestVars, kernelVars, fids, lost>>

\* virtio_9p_dev_init has attached fid 0 to the root.
Init ==
  /\ next_fid = 1 /\ free_fid = << >>
  /\ nodes = {1} /\ node_fid = [i \in Qid |-> 0]
  /\ nlookup = [i \in Qid |-> IF i = 1 THEN 1 ELSE 0]
  /\ pc = "idle" /\ op = "none" /\ ino = 1 /\ newfid = 0 /\ nodeid = 1
  /\ known = nlookup /\ forgets = [i \in Qid |-> 0] /\ opened = {}
  /\ fids = [f \in Fid |-> IF f = 0 THEN root_qid ELSE NoQid]
  /\ lost = {}

-----------------------------------------------------------------------------
(* Fids, and the calls that establish or drop one.                         *)

Known(f) == fids[f] # NoQid

\* The one given back last, or else a new one.
virtio_9p_alloc_fid(f) ==
  \/ /\ free_fid # << >>
     /\ f = free_fid[Len(free_fid)]
     /\ free_fid' = SubSeq(free_fid, 1, Len(free_fid) - 1)
     /\ next_fid' = next_fid
  \/ /\ free_fid = << >>
     /\ f = next_fid
     /\ next_fid' = next_fid + 1
     /\ free_fid' = free_fid

virtio_9p_free_fid(f) ==
  /\ free_fid' = Append(free_fid, f)
  /\ next_fid' = next_fid

\* newfid becomes the file q.
virtio_9p_walk(from, q) ==
  /\ Known(from) /\ ~Known(newfid)
  /\ fids' = [fids EXCEPT ![newfid] = q]

virtio_9p_clunk(f) ==
  /\ Known(f)
  /\ fids' = [fids EXCEPT ![f] = NoQid]
  /\ virtio_9p_free_fid(f)

\* An error is returned before the fid is given back; the server may have
\* dropped it all the same.
virtio_9p_clunk_fails(f) ==
  /\ fids' \in {fids, [fids EXCEPT ![f] = NoQid]}
  /\ lost' = lost \cup {f}
  /\ UNCHANGED <<next_fid, free_fid>>

\* The request is answered.
Reply ==
  pc' = "idle" /\ op' = "none" /\ ino' = 1 /\ newfid' = 0 /\ nodeid' = 1

\* A lookup is answered with an inode, which the kernel then holds once more.
fuse_reply_entry(i) ==
  known' = [known EXCEPT ![i] = @ + 1] /\ UNCHANGED <<forgets, opened>> /\ Reply

-----------------------------------------------------------------------------
(* lookup, open and opendir: each walks a new fid from the inode's own.    *)

walk_from(i, operation) ==
  /\ pc = "idle" /\ known[i] > 0
  /\ \E f \in Fid : virtio_9p_alloc_fid(f) /\ newfid' = f
  /\ pc' = "walk" /\ op' = operation /\ ino' = i
  /\ UNCHANGED <<nodes, nlookup, node_fid, nodeid, kernelVars, fids, lost>>

\* The error path forgets the fid.
walk_fails_Leaks ==
  /\ pc = "walk" /\ Reply
  /\ UNCHANGED <<driverVars, kernelVars, fids, lost>>

walk_fails ==
  /\ pc = "walk"
  /\ virtio_9p_free_fid(newfid) /\ Reply
  /\ UNCHANGED <<nodes, nlookup, node_fid, kernelVars, fids, lost>>

virtio_9p_op_lookup(i) == walk_from(i, "lookup")

\* A name leads to the file q, and no name leads to the root.  The new fid is
\* spare if the program has a node for q.
lookup_walked(q) ==
  /\ pc = "walk" /\ op = "lookup"
  /\ q # root_qid /\ nlookup[virtio_9p_fix_qid(q)] < MaxLookup
  /\ virtio_9p_walk(node_fid[ino], q)
  /\ nodeid' = virtio_9p_fix_qid(q)
  /\ pc' = IF nodeid' \in nodes THEN "clunk" ELSE "getattr"
  /\ UNCHANGED <<driverVars, op, ino, newfid, kernelVars, lost>>

\* The node serves: the spare fid goes, and the attributes come from the node's.
lookup_clunk ==
  /\ pc = "clunk" /\ op = "lookup"
  /\ virtio_9p_clunk(newfid)
  /\ pc' = "getattr_node"
  /\ UNCHANGED <<nodes, nlookup, node_fid, op, ino, newfid, nodeid, kernelVars, lost>>

\* The node of a second lookup is not counted.
lookup_found_Uncounted ==
  /\ pc = "getattr_node" /\ Known(node_fid[nodeid])
  /\ fuse_reply_entry(nodeid)
  /\ UNCHANGED <<driverVars, fids, lost>>

lookup_found ==
  /\ pc = "getattr_node" /\ Known(node_fid[nodeid])
  /\ nlookup' = [nlookup EXCEPT ![nodeid] = @ + 1]
  /\ fuse_reply_entry(nodeid)
  /\ UNCHANGED <<next_fid, free_fid, nodes, node_fid, fids, lost>>

lookup_found_fails ==
  /\ pc = "getattr_node" /\ Reply
  /\ UNCHANGED <<driverVars, kernelVars, fids, lost>>

\* The new fid becomes the node's.
lookup_new ==
  /\ pc = "getattr" /\ Known(newfid)
  /\ nodes' = nodes \cup {nodeid}
  /\ nlookup' = [nlookup EXCEPT ![nodeid] = 1]
  /\ node_fid' = [node_fid EXCEPT ![nodeid] = newfid]
  /\ fuse_reply_entry(nodeid)
  /\ UNCHANGED <<next_fid, free_fid, fids, lost>>

\* virtio_9p_op_opendir differs in the flags it passes on.
virtio_9p_op_open(i) == Cardinality(opened) < MaxOpen /\ walk_from(i, "open")

open_walked ==
  /\ pc = "walk" /\ op = "open"
  /\ virtio_9p_walk(node_fid[ino], fids[node_fid[ino]])
  /\ pc' = "lopen"
  /\ UNCHANGED <<driverVars, op, ino, newfid, nodeid, kernelVars, lost>>

virtio_9p_lopen ==
  /\ pc = "lopen" /\ Known(newfid) /\ Reply
  /\ opened' = opened \cup {[fh |-> newfid, ino |-> ino]}
  /\ UNCHANGED <<driverVars, known, forgets, fids, lost>>

\* The new fid has a file but the operation fails.
new_fid_fails ==
  /\ pc \in {"getattr", "lopen"}
  /\ virtio_9p_clunk(newfid) /\ Reply
  /\ UNCHANGED <<nodes, nlookup, node_fid, kernelVars, lost>>

-----------------------------------------------------------------------------
(* release and forget: one call each.                                      *)

\* The kernel drops the file whatever the answer; virtio_9p_op_releasedir is
\* the same.
virtio_9p_op_release(o) ==
  /\ pc = "idle" /\ o \in opened
  /\ \/ virtio_9p_clunk(o.fh) /\ UNCHANGED lost
     \/ Cardinality(lost) < MaxLost /\ virtio_9p_clunk_fails(o.fh)
  /\ opened' = opened \ {o}
  /\ UNCHANGED <<nodes, nlookup, node_fid, requestVars, known, forgets>>

\* The node goes although lookups are left.
forget_Always(i, n) ==
  /\ n \in 1..forgets[i] /\ i \in nodes
  /\ nlookup[i] >= n
  /\ nlookup' = [nlookup EXCEPT ![i] = @ - n]
  /\ forgets' = [forgets EXCEPT ![i] = @ - n]
  /\ nodes' = nodes \ {i} /\ virtio_9p_clunk(node_fid[i])
  /\ UNCHANGED <<node_fid, requestVars, known, opened, lost>>

\* n lookups of i are forgotten.
forget(i, n) ==
  /\ n \in 1..forgets[i] /\ i \in nodes
  /\ nlookup[i] >= n
  /\ nlookup' = [nlookup EXCEPT ![i] = @ - n]
  /\ forgets' = [forgets EXCEPT ![i] = @ - n]
  /\ IF nlookup[i] > n
     THEN UNCHANGED <<next_fid, free_fid, nodes, fids>>
     ELSE nodes' = nodes \ {i} /\ virtio_9p_clunk(node_fid[i])
  /\ UNCHANGED <<node_fid, requestVars, known, opened, lost>>

virtio_9p_op_forget(i, n) == pc = "idle" /\ forget(i, n)

\* A batch of any length: nothing else is served between two forgets of it.
virtio_9p_op_forget_multi ==
  /\ pc = "idle" /\ pc' = "forget_multi"
  /\ UNCHANGED <<driverVars, op, ino, newfid, nodeid, kernelVars, fids, lost>>

forget_multi_next(i, n) == pc = "forget_multi" /\ forget(i, n)

forget_multi_done ==
  /\ pc = "forget_multi" /\ Reply
  /\ UNCHANGED <<driverVars, kernelVars, fids, lost>>

-----------------------------------------------------------------------------
(* The kernel drops an inode it does not use: no request names it and no   *)
(* file of it is open.  It never drops the root.                           *)

KernelForget(i) ==
  /\ i # 1 /\ known[i] > 0
  /\ ~(op # "none" /\ ino = i) /\ \A o \in opened : o.ino # i
  /\ known' = [known EXCEPT ![i] = 0]
  /\ forgets' = [forgets EXCEPT ![i] = @ + known[i]]
  /\ UNCHANGED <<driverVars, requestVars, opened, fids, lost>>

Next ==
  \/ \E i \in Qid : virtio_9p_op_lookup(i) \/ virtio_9p_op_open(i) \/ KernelForget(i)
  \/ \E i \in Qid : \E n \in 1..MaxLookup :
       virtio_9p_op_forget(i, n) \/ forget_multi_next(i, n)
  \/ \E q \in Qid : lookup_walked(q)
  \/ \E o \in opened : virtio_9p_op_release(o)
  \/ walk_fails \/ lookup_clunk \/ lookup_found \/ lookup_found_fails
  \/ lookup_new \/ open_walked \/ virtio_9p_lopen \/ new_fid_fails
  \/ virtio_9p_op_forget_multi \/ forget_multi_done

Spec == Init /\ [][Next]_fuseVars

-----------------------------------------------------------------------------
(* What the file system promises.                                          *)

TypeOK ==
  /\ next_fid \in 1..MaxFid /\ free_fid \in Seq(Fid)
  /\ nodes \subseteq Qid /\ nlookup \in [Qid -> Nat] /\ node_fid \in [Qid -> Fid]
  /\ pc \in {"idle", "walk", "clunk", "getattr", "getattr_node", "lopen",
            "forget_multi"}
  /\ op \in {"none", "lookup", "open"}
  /\ ino \in Qid /\ newfid \in Fid /\ nodeid \in Qid
  /\ known \in [Qid -> Nat] /\ forgets \in [Qid -> Nat]
  /\ opened \subseteq [fh : Fid, ino : Qid]
  /\ fids \in [Fid -> Qid \cup {NoQid}] /\ lost \subseteq Fid

\* A node counts the lookups the kernel holds and those whose forget is still
\* under way, and it exists as long as there are any: so an inode the kernel
\* uses is always found (the assertions node != NULL), and no forget takes more
\* than there is, even if a newer lookup overtook it.
LookupsCounted ==
  \A i \in Qid : /\ nlookup[i] = known[i] + forgets[i]
                 /\ i \in nodes <=> nlookup[i] > 0

\* Fids in use: of nodes, of open files, and of the request.
NodeFids == {node_fid[i] : i \in nodes}
FileFids == {o.fh : o \in opened}
RequestFids == IF pc \in {"walk", "clunk", "getattr", "lopen"} THEN {newfid} ELSE {}
FreeFids == {free_fid[k] : k \in 1..Len(free_fid)}

\* Each fid handed out so far is either given back, once, or in use in one place,
\* or it is of a file whose release failed, on any path through a failed call: no
\* other error path loses a fid, none has two uses, and one that was lost is never
\* used again, whether or not the server still knows it.  0 stays the root's (the
\* assertions fi->fh != 0); and the server knows those in use and no others, so
\* that no call is refused for its fid.
FidsAccounted ==
  /\ \A j, k \in 1..Len(free_fid) : free_fid[j] = free_fid[k] => j = k
  /\ \A i, j \in nodes : node_fid[i] = node_fid[j] => i = j
  /\ \A o, p \in opened : o.fh = p.fh => o = p
  /\ NodeFids \cap FileFids = {} /\ (NodeFids \cup FileFids) \cap RequestFids = {}
  /\ (NodeFids \cup FileFids \cup RequestFids) \cap FreeFids = {}
  /\ (NodeFids \cup FileFids \cup RequestFids \cup FreeFids) \cap lost = {}
  /\ NodeFids \cup FileFids \cup RequestFids \cup FreeFids \cup lost = 0..next_fid-1
  /\ 1 \in nodes /\ node_fid[1] = 0
  /\ \A f \in Fid \ lost : Known(f) <=>
       f \in NodeFids \cup FileFids \cup (IF pc = "walk" THEN {} ELSE RequestFids)

\* What an inode or an open file is served from is its own file, and the node
\* that a lookup takes instead of a new one is of the file the name led to: the
\* kernel's numbers never mix up two files, although the root is swapped with 1,
\* a file has several names and fids are used again.
ServedFromOwnFile ==
  /\ \A i \in nodes : virtio_9p_fix_qid(fids[node_fid[i]]) = i
  /\ \A o \in opened : virtio_9p_fix_qid(fids[o.fh]) = o.ino
  /\ pc = "clunk" => fids[newfid] = fids[node_fid[nodeid]]

\* While the kernel uses an inode, in a request or by an open file, its node and
\* the node's fid stay as they are.
NodeStableInUse ==
  [][\A i \in Qid : (op # "none" /\ ino = i) \/ (\E o \in opened : o.ino = i)
       => i \in nodes' /\ node_fid'[i] = node_fid[i]]_fuseVars

=============================================================================
