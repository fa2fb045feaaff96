---------------------------- MODULE Fuse9pProofs ----------------------------
(***************************************************************************)
(* Proofs about Fuse9p: lookups are counted, every fid is accounted for,   *)
(* and what an inode is served from is its own file, for any number of     *)
(* files, lookups, open files and fids.                                    *)
(***************************************************************************)
EXTENDS Fuse9p, SequenceTheorems, TLAPS

\* The request being served, at each of its calls: the kernel holds its inode, the
\* root and the inodes of open files,
\* a spare fid is of a file that has a node, and a new fid is of the file that
\* the node or the open file will be made for.
RequestOK ==
  /\ pc \in {"idle", "forget_multi"} <=> op = "none"
  /\ pc \in {"clunk", "getattr", "getattr_node"} => op = "lookup"
  /\ pc = "lopen" => op = "open"
  /\ op # "none" => known[ino] > 0
  /\ pc \in {"clunk", "getattr_node"} => nodeid \in nodes
  /\ pc = "getattr" =>
       nodeid \notin nodes /\ virtio_9p_fix_qid(fids[newfid]) = nodeid
  /\ pc = "lopen" => virtio_9p_fix_qid(fids[newfid]) = ino
  /\ known[1] > 0 /\ \A o \in opened : known[o.ino] > 0

FuseInv ==
  /\ TypeOK
  /\ RequestOK
  /\ LookupsCounted
  /\ FidsAccounted
  /\ ServedFromOwnFile

-----------------------------------------------------------------------------
(* Fids handed out and given back.                                         *)

\* The fids given back, each once.
FreeOnce == \A j, k \in 1..Len(free_fid) : free_fid[j] = free_fid[k] => j = k

\* virtio_9p_alloc_fid hands out a fid given back, or the next one if there is
\* none, and gives it up.
LEMMA AllocFid ==
  ASSUME TypeOK, FreeOnce, NEW f \in Fid, virtio_9p_alloc_fid(f)
  PROVE  /\ free_fid' \in Seq(Fid) /\ FreeOnce' /\ FreeFids' = FreeFids \ {f}
         /\ next_fid' \in 1..MaxFid
         /\ \/ f \in FreeFids /\ next_fid' = next_fid
            \/ f = next_fid /\ next_fid' = next_fid + 1
<1>1. CASE free_fid # << >>
  <2>1. /\ Len(free_fid) \in Nat \ {0} /\ f = free_fid[Len(free_fid)]
        /\ free_fid' = SubSeq(free_fid, 1, Len(free_fid) - 1)
        /\ next_fid' = next_fid
    BY <1>1 DEF TypeOK, virtio_9p_alloc_fid
  <2>2. /\ free_fid' \in Seq(Fid) /\ Len(free_fid') = Len(free_fid) - 1
        /\ \A k \in 1..Len(free_fid) - 1 : free_fid'[k] = free_fid[k]
    <3> DEFINE n == Len(free_fid) - 1
               rest == SubSeq(free_fid, 1, n)
    <3>1. n \in Nat /\ free_fid' = rest /\ \A k \in 1..n : free_fid[k] \in Fid
      BY <2>1 DEF TypeOK
    <3> HIDE DEF n
    <3>2. /\ rest \in Seq(Fid) /\ Len(rest) = IF 1 <= n THEN n - 1 + 1 ELSE 0
          /\ \A k \in 1..n - 1 + 1 : rest[k] = free_fid[1 + k - 1]
      BY <3>1, SubSeqProperties
    <3> HIDE DEF rest
    <3>3. Len(rest) = n /\ \A k \in 1..n : rest[k] = free_fid[k]
      BY <3>1, <3>2
    <3> QED BY <3>1, <3>2, <3>3 DEF n
  <2>3. FreeOnce'
    BY <2>1, <2>2 DEF FreeOnce
  <2>4. \A x : x \in FreeFids <=> \E k \in 1..Len(free_fid) : free_fid[k] = x
    BY DEF FreeFids
  <2>5. \A x : x \in FreeFids' <=> \E k \in 1..Len(free_fid') : free_fid'[k] = x
    BY DEF FreeFids
  <2>6. \A x : x \in FreeFids' <=> \E k \in 1..Len(free_fid) - 1 : free_fid[k] = x
    BY <2>5, <2>2
  <2>7. \A x : x \in FreeFids' <=> x \in FreeFids \ {f}
    BY <2>1, <2>4, <2>6 DEF FreeOnce
  <2>8. FreeFids' = FreeFids \ {f}
    BY <2>7
  <2>9. f \in FreeFids
    BY <2>1 DEF FreeFids
  <2> QED BY <2>1, <2>2, <2>3, <2>8, <2>9 DEF TypeOK
<1>2. CASE free_fid = << >>
  <2>1. f = next_fid /\ next_fid' = next_fid + 1 /\ free_fid' = free_fid
    BY <1>2 DEF virtio_9p_alloc_fid
  <2>2. FreeFids = {} /\ FreeFids' = {} /\ FreeOnce'
    BY <1>2, <2>1 DEF FreeFids, FreeOnce
  <2>3. next_fid' \in 1..MaxFid
    BY <2>1, FuseAssumption DEF TypeOK, Fid
  <2> QED BY <2>1, <2>2, <2>3 DEF TypeOK
<1> QED BY <1>1, <1>2

\* virtio_9p_free_fid gives back a fid that was in use.
LEMMA FreeFid ==
  ASSUME TypeOK, FreeOnce, NEW f \in Fid, f \notin FreeFids, virtio_9p_free_fid(f)
  PROVE  /\ free_fid' \in Seq(Fid) /\ FreeOnce' /\ FreeFids' = FreeFids \cup {f}
         /\ next_fid' = next_fid
<1>1. /\ free_fid' \in Seq(Fid) /\ Len(free_fid') = Len(free_fid) + 1
      /\ \A k \in 1..Len(free_fid) : free_fid'[k] = free_fid[k]
      /\ free_fid'[Len(free_fid) + 1] = f
      /\ Len(free_fid) \in Nat
  BY DEF TypeOK, virtio_9p_free_fid
<1>2. FreeFids' = FreeFids \cup {f}
  BY <1>1 DEF FreeFids
<1>3. FreeOnce'
  BY <1>1 DEF FreeOnce, FreeFids
<1> QED BY <1>1, <1>2, <1>3 DEF virtio_9p_free_fid

\* The inodes are the qids, and two files never have the same one.
LEMMA FixQid ==
  /\ \A q \in Qid : virtio_9p_fix_qid(q) \in Qid
  /\ \A q, r \in Qid : virtio_9p_fix_qid(q) = virtio_9p_fix_qid(r) => q = r
BY FuseAssumption DEF virtio_9p_fix_qid

\* What Reply resets the request to.
LEMMA ReplyValues == 0 \in Fid /\ 1 \in Qid
BY FuseAssumption DEF Fid

-----------------------------------------------------------------------------

LEMMA FuseInvInit == Init => FuseInv
<1> SUFFICES ASSUME Init PROVE FuseInv
  OBVIOUS
<1>1. TypeOK
  BY FuseAssumption DEF Init, TypeOK, Fid
<1>2. RequestOK /\ LookupsCounted
  BY FuseAssumption DEF Init, RequestOK, LookupsCounted
<1>3. NodeFids = {0} /\ FileFids = {} /\ RequestFids = {} /\ FreeFids = {}
  <2>1. NodeFids = {0}
    BY FuseAssumption DEF Init, NodeFids
  <2>2. FileFids = {} /\ RequestFids = {}
    BY DEF Init, FileFids, RequestFids
  <2>3. FreeFids = {}
    BY DEF Init, FreeFids
  <2> QED BY <2>1, <2>2, <2>3
<1>4. FidsAccounted
  BY <1>3, FuseAssumption DEF Init, FidsAccounted, Known, Fid
<1>5. ServedFromOwnFile
  BY FuseAssumption DEF Init, ServedFromOwnFile, virtio_9p_fix_qid, Fid
<1> QED BY <1>1, <1>2, <1>4, <1>5 DEF FuseInv

-----------------------------------------------------------------------------
(* Every step preserves the invariant.                                     *)

\* A request takes its new fid from those that are not in use.
LEMMA WalkFrom ==
  ASSUME FuseInv, NEW i \in Qid, NEW o \in {"lookup", "open"}, walk_from(i, o)
  PROVE  FuseInv'
<1>1. PICK f \in Fid : virtio_9p_alloc_fid(f) /\ newfid' = f
  BY DEF walk_from
<1>2. /\ pc = "idle" /\ known[i] > 0
      /\ pc' = "walk" /\ op' = o /\ ino' = i
      /\ UNCHANGED <<nodes, nlookup, node_fid, nodeid, known, forgets, opened, fids, lost>>
  BY DEF walk_from, kernelVars
<1>3. /\ free_fid' \in Seq(Fid) /\ FreeOnce' /\ FreeFids' = FreeFids \ {f}
      /\ next_fid' \in 1..MaxFid
      /\ \/ f \in FreeFids /\ next_fid' = next_fid
         \/ f = next_fid /\ next_fid' = next_fid + 1
  BY <1>1, AllocFid DEF FuseInv, FidsAccounted, FreeOnce
<1>4. TypeOK'
  BY <1>1, <1>2, <1>3 DEF FuseInv, TypeOK
<1>5. RequestOK' /\ LookupsCounted'
  BY <1>2 DEF FuseInv, RequestOK, LookupsCounted
<1>6. /\ NodeFids' = NodeFids /\ FileFids' = FileFids
      /\ RequestFids = {} /\ RequestFids' = {f}
  BY <1>1, <1>2 DEF NodeFids, FileFids, RequestFids
<1>7. FidsAccounted'
  <2>1. FidsAccounted /\ next_fid \in Nat
    BY DEF FuseInv, TypeOK
  <2>2. f \notin NodeFids \cup FileFids
    BY <1>3, <2>1, <1>6 DEF FidsAccounted
  <2>3. NodeFids \cup FileFids \cup {f} \cup FreeFids' \cup lost = 0..next_fid'-1
    BY <1>3, <1>6, <2>1 DEF FidsAccounted
  <2> QED BY <1>2, <1>3, <1>6, <2>1, <2>2, <2>3 DEF FidsAccounted, FreeOnce, Known
<1>8. ServedFromOwnFile'
  BY <1>2 DEF FuseInv, ServedFromOwnFile
<1> QED BY <1>4, <1>5, <1>7, <1>8 DEF FuseInv

\* A walk that fails leaves the new fid unknown to the server: it is given back.
LEMMA WalkFails ==
  ASSUME FuseInv, walk_fails
  PROVE  FuseInv'
<1>1. /\ pc = "walk" /\ virtio_9p_free_fid(newfid)
      /\ pc' = "idle" /\ op' = "none" /\ ino' = 1 /\ newfid' = 0 /\ nodeid' = 1
      /\ UNCHANGED <<nodes, nlookup, node_fid, known, forgets, opened, fids, lost>>
  BY DEF walk_fails, Reply, kernelVars
<1>2. newfid \in Fid /\ RequestFids = {newfid} /\ newfid \notin FreeFids
  BY <1>1 DEF FuseInv, TypeOK, RequestFids, FidsAccounted
<1>3. /\ free_fid' \in Seq(Fid) /\ FreeOnce' /\ FreeFids' = FreeFids \cup {newfid}
      /\ next_fid' = next_fid
  BY <1>1, <1>2, FreeFid DEF FuseInv, FidsAccounted, FreeOnce
<1>4. TypeOK'
  BY <1>1, <1>3, ReplyValues DEF FuseInv, TypeOK
<1>5. RequestOK' /\ LookupsCounted'
  BY <1>1 DEF FuseInv, RequestOK, LookupsCounted
<1>6. NodeFids' = NodeFids /\ FileFids' = FileFids /\ RequestFids' = {}
  BY <1>1 DEF NodeFids, FileFids, RequestFids
<1>7. FidsAccounted'
  <2>1. FidsAccounted
    BY DEF FuseInv
  <2>2. /\ (NodeFids \cup FileFids) \cap FreeFids' = {}
        /\ NodeFids \cup FileFids \cup FreeFids' \cup lost = 0..next_fid-1
    BY <1>2, <1>3, <2>1 DEF FidsAccounted
  <2> QED BY <1>1, <1>2, <1>3, <1>6, <2>1, <2>2 DEF FidsAccounted, FreeOnce, Known
<1>8. ServedFromOwnFile'
  BY <1>1 DEF FuseInv, ServedFromOwnFile
<1> QED BY <1>4, <1>5, <1>7, <1>8 DEF FuseInv

\* After a walk the server knows the new fid, and no other fid has changed.
LEMMA Walked ==
  ASSUME FuseInv, pc = "walk", NEW from \in Fid, NEW q \in Qid,
         virtio_9p_walk(from, q),
         pc' \in {"clunk", "getattr", "lopen"}, nodeid' \in Qid,
         pc' = "clunk" => nodeid' \in nodes /\ virtio_9p_fix_qid(q) = nodeid',
         UNCHANGED <<driverVars, op, ino, newfid, kernelVars, lost>>
  PROVE  TypeOK' /\ LookupsCounted' /\ FidsAccounted' /\ ServedFromOwnFile'
<1>1. /\ fids' = [fids EXCEPT ![newfid] = q]
      /\ UNCHANGED <<next_fid, free_fid, nodes, nlookup, node_fid, op, ino, newfid>>
      /\ UNCHANGED <<known, forgets, opened, lost>>
  BY DEF virtio_9p_walk, driverVars, kernelVars
<1>2. TypeOK'
  BY <1>1 DEF FuseInv, TypeOK
<1>3. LookupsCounted'
  BY <1>1 DEF FuseInv, LookupsCounted
<1>4. /\ NodeFids' = NodeFids /\ FileFids' = FileFids /\ FreeFids' = FreeFids
      /\ RequestFids = {newfid} /\ RequestFids' = {newfid}
  BY <1>1 DEF NodeFids, FileFids, RequestFids, FreeFids
<1>5. \A f \in Fid : f # newfid => fids'[f] = fids[f]
  BY <1>1 DEF FuseInv, TypeOK
<1>6. newfid \in Fid /\ fids'[newfid] = q /\ q # NoQid
  BY <1>1, FuseAssumption DEF FuseInv, TypeOK
<1>7. FidsAccounted'
  BY <1>1, <1>4, <1>5, <1>6 DEF FuseInv, FidsAccounted, Known
<1>8. ServedFromOwnFile'
  <2>1. \A i \in nodes : node_fid[i] \in Fid /\ node_fid[i] # newfid
    BY <1>4 DEF FuseInv, TypeOK, FidsAccounted, NodeFids
  <2>2. \A o \in opened : o.fh \in Fid /\ o.fh # newfid
    BY <1>4 DEF FuseInv, TypeOK, FidsAccounted, FileFids
  <2>3. ASSUME pc' = "clunk" PROVE fids'[newfid'] = fids'[node_fid'[nodeid']]
    <3>1. /\ nodeid' \in nodes /\ fids'[node_fid[nodeid']] = fids[node_fid[nodeid']]
          /\ fids[node_fid[nodeid']] \in Qid \cup {NoQid}
      BY <1>5, <2>1, <2>3 DEF FuseInv, TypeOK
    <3>2. Known(node_fid[nodeid'])
      BY <2>1, <3>1 DEF FuseInv, FidsAccounted, NodeFids
    <3>3. virtio_9p_fix_qid(fids[node_fid[nodeid']]) = virtio_9p_fix_qid(q)
      BY <2>3, <3>1 DEF FuseInv, ServedFromOwnFile
    <3> QED BY <1>1, <1>6, <3>1, <3>2, <3>3, FixQid DEF Known
  <2>4. \A i \in nodes' : virtio_9p_fix_qid(fids'[node_fid'[i]]) = i
    BY <1>1, <1>5, <2>1 DEF FuseInv, ServedFromOwnFile
  <2>5. \A o \in opened' : virtio_9p_fix_qid(fids'[o.fh]) = o.ino
    BY <1>1, <1>5, <2>2 DEF FuseInv, ServedFromOwnFile
  <2> QED BY <2>3, <2>4, <2>5 DEF ServedFromOwnFile
<1> QED BY <1>2, <1>3, <1>7, <1>8

\* A lookup that leads to a file: there is a node for it or not.
LEMMA LookupWalked ==
  ASSUME FuseInv, NEW q \in Qid, lookup_walked(q)
  PROVE  FuseInv'
<1>1. /\ pc = "walk" /\ op = "lookup" /\ virtio_9p_walk(node_fid[ino], q)
      /\ nodeid' = virtio_9p_fix_qid(q)
      /\ pc' = IF nodeid' \in nodes THEN "clunk" ELSE "getattr"
      /\ UNCHANGED <<driverVars, op, ino, newfid, kernelVars, lost>>
  BY DEF lookup_walked
<1>2. node_fid[ino] \in Fid /\ newfid \in Fid /\ nodeid' \in Qid
  BY <1>1, FixQid DEF FuseInv, TypeOK
<1>3. TypeOK' /\ LookupsCounted' /\ FidsAccounted' /\ ServedFromOwnFile'
  BY <1>1, <1>2, Walked
<1>4. fids'[newfid] = q
  BY <1>1, <1>2 DEF FuseInv, TypeOK, virtio_9p_walk
<1>5. RequestOK'
  BY <1>1, <1>4 DEF FuseInv, RequestOK, driverVars, kernelVars
<1> QED BY <1>3, <1>5 DEF FuseInv

\* Opening walks to the same file.
LEMMA OpenWalked ==
  ASSUME FuseInv, open_walked
  PROVE  FuseInv'
<1>1. /\ pc = "walk" /\ op = "open"
      /\ virtio_9p_walk(node_fid[ino], fids[node_fid[ino]]) /\ pc' = "lopen"
      /\ UNCHANGED <<driverVars, op, ino, newfid, nodeid, kernelVars, lost>>
  BY DEF open_walked
<1>2. /\ node_fid[ino] \in Fid /\ newfid \in Fid /\ nodeid' \in Qid
      /\ fids[node_fid[ino]] \in Qid
  BY <1>1 DEF FuseInv, TypeOK, virtio_9p_walk, Known
<1>3. TypeOK' /\ LookupsCounted' /\ FidsAccounted' /\ ServedFromOwnFile'
  BY <1>1, <1>2, Walked
<1>4. ino \in nodes
  BY <1>1 DEF FuseInv, RequestOK, LookupsCounted, TypeOK
<1>5. fids'[newfid] = fids[node_fid[ino]]
  BY <1>1, <1>2 DEF FuseInv, TypeOK, virtio_9p_walk
<1>6. RequestOK'
  BY <1>1, <1>4, <1>5 DEF FuseInv, RequestOK, ServedFromOwnFile, driverVars, kernelVars
<1> QED BY <1>3, <1>6 DEF FuseInv

\* The effect of a clunk: the server forgets the fid, which is given back.
LEMMA Clunk ==
  ASSUME FuseInv, NEW f \in Fid, virtio_9p_clunk(f),
         f \in NodeFids \cup FileFids \cup RequestFids
  PROVE  /\ free_fid' \in Seq(Fid) /\ FreeOnce' /\ FreeFids' = FreeFids \cup {f}
         /\ next_fid' = next_fid /\ fids' \in [Fid -> Qid \cup {NoQid}]
         /\ fids'[f] = NoQid /\ \A g \in Fid : g # f => fids'[g] = fids[g]
<1>1. virtio_9p_free_fid(f) /\ fids' = [fids EXCEPT ![f] = NoQid]
  BY DEF virtio_9p_clunk
<1>2. f \notin FreeFids /\ FreeOnce /\ TypeOK
  BY DEF FuseInv, FidsAccounted, FreeOnce
<1>3. /\ free_fid' \in Seq(Fid) /\ FreeOnce' /\ FreeFids' = FreeFids \cup {f}
      /\ next_fid' = next_fid
  BY <1>1, <1>2, FreeFid
<1> QED BY <1>1, <1>2, <1>3 DEF TypeOK

\* The request's new fid is clunked, and nothing else changes.
LEMMA ClunkNewFid ==
  ASSUME FuseInv, pc \in {"clunk", "getattr", "lopen"}, virtio_9p_clunk(newfid),
         pc' \in {"idle", "getattr_node"},
         UNCHANGED <<nodes, nlookup, node_fid, known, forgets, opened, lost>>
  PROVE  /\ free_fid' \in Seq(Fid) /\ next_fid' = next_fid
         /\ fids' \in [Fid -> Qid \cup {NoQid}]
         /\ FidsAccounted' /\ ServedFromOwnFile'
<1>1. newfid \in Fid /\ RequestFids = {newfid}
  BY DEF FuseInv, TypeOK, RequestFids
<1>2. /\ free_fid' \in Seq(Fid) /\ FreeOnce' /\ FreeFids' = FreeFids \cup {newfid}
      /\ next_fid' = next_fid /\ fids' \in [Fid -> Qid \cup {NoQid}]
      /\ fids'[newfid] = NoQid /\ \A g \in Fid : g # newfid => fids'[g] = fids[g]
  BY <1>1, Clunk
<1>3. NodeFids' = NodeFids /\ FileFids' = FileFids /\ RequestFids' = {}
  BY DEF NodeFids, FileFids, RequestFids
<1>4. FidsAccounted'
  <2>1. FidsAccounted
    BY DEF FuseInv
  <2>2. /\ (NodeFids \cup FileFids) \cap FreeFids' = {}
        /\ NodeFids \cup FileFids \cup FreeFids' \cup lost = 0..next_fid-1
    BY <1>1, <1>2, <2>1 DEF FidsAccounted
  <2>3. \A f \in Fid \ lost : Known(f)' <=> f \in NodeFids \cup FileFids
    BY <1>1, <1>2, <2>1 DEF FidsAccounted, Known
  <2>4. (NodeFids \cup FileFids \cup FreeFids') \cap lost = {}
    BY <1>1, <1>2, <2>1 DEF FidsAccounted
  <2> QED BY <1>2, <1>3, <2>1, <2>2, <2>3, <2>4 DEF FidsAccounted, FreeOnce, Known
<1>5. ServedFromOwnFile'
  <2>1. \A i \in nodes : node_fid[i] \in Fid /\ node_fid[i] # newfid
    BY <1>1 DEF FuseInv, TypeOK, FidsAccounted, NodeFids
  <2>2. \A o \in opened : o.fh \in Fid /\ o.fh # newfid
    BY <1>1 DEF FuseInv, TypeOK, FidsAccounted, FileFids
  <2> QED BY <1>2, <2>1, <2>2 DEF FuseInv, ServedFromOwnFile
<1> QED BY <1>2, <1>4, <1>5

LEMMA LookupClunk ==
  ASSUME FuseInv, lookup_clunk
  PROVE  FuseInv'
<1>1. /\ pc = "clunk" /\ op = "lookup" /\ virtio_9p_clunk(newfid)
      /\ pc' = "getattr_node"
      /\ UNCHANGED <<nodes, nlookup, node_fid, op, ino, newfid, nodeid>>
      /\ UNCHANGED <<known, forgets, opened, lost>>
  BY DEF lookup_clunk, kernelVars
<1>2. /\ free_fid' \in Seq(Fid) /\ next_fid' = next_fid
      /\ fids' \in [Fid -> Qid \cup {NoQid}] /\ FidsAccounted' /\ ServedFromOwnFile'
  BY <1>1, ClunkNewFid
<1>3. TypeOK'
  BY <1>1, <1>2 DEF FuseInv, TypeOK
<1>4. RequestOK' /\ LookupsCounted'
  BY <1>1 DEF FuseInv, RequestOK, LookupsCounted
<1> QED BY <1>2, <1>3, <1>4 DEF FuseInv

LEMMA NewFidFails ==
  ASSUME FuseInv, new_fid_fails
  PROVE  FuseInv'
<1>1. /\ pc \in {"getattr", "lopen"} /\ virtio_9p_clunk(newfid)
      /\ pc' = "idle" /\ op' = "none" /\ ino' = 1 /\ newfid' = 0 /\ nodeid' = 1
      /\ UNCHANGED <<nodes, nlookup, node_fid, known, forgets, opened, lost>>
  BY DEF new_fid_fails, Reply, kernelVars
<1>2. /\ free_fid' \in Seq(Fid) /\ next_fid' = next_fid
      /\ fids' \in [Fid -> Qid \cup {NoQid}] /\ FidsAccounted' /\ ServedFromOwnFile'
  BY <1>1, ClunkNewFid
<1>3. TypeOK'
  BY <1>1, <1>2, ReplyValues DEF FuseInv, TypeOK
<1>4. RequestOK' /\ LookupsCounted'
  BY <1>1 DEF FuseInv, RequestOK, LookupsCounted
<1> QED BY <1>2, <1>3, <1>4 DEF FuseInv

\* Where no fid is at stake: the request's calls leave fids and files alone.
LEMMA FidsKept ==
  ASSUME FuseInv, pc \notin {"walk", "clunk", "getattr", "lopen"},
         pc' \notin {"walk", "clunk", "getattr", "lopen"},
         UNCHANGED <<next_fid, free_fid, nodes, node_fid, opened, fids, lost>>
  PROVE  FidsAccounted' /\ ServedFromOwnFile'
<1>1. /\ NodeFids' = NodeFids /\ FileFids' = FileFids /\ FreeFids' = FreeFids
      /\ RequestFids = {} /\ RequestFids' = {}
  BY DEF NodeFids, FileFids, RequestFids, FreeFids
<1>2. FidsAccounted'
  BY <1>1 DEF FuseInv, FidsAccounted, Known
<1> QED BY <1>2 DEF FuseInv, ServedFromOwnFile

LEMMA LookupFound ==
  ASSUME FuseInv, lookup_found
  PROVE  FuseInv'
<1>1. /\ pc = "getattr_node" /\ nlookup' = [nlookup EXCEPT ![nodeid] = @ + 1]
      /\ known' = [known EXCEPT ![nodeid] = @ + 1]
      /\ pc' = "idle" /\ op' = "none" /\ ino' = 1 /\ newfid' = 0 /\ nodeid' = 1
      /\ UNCHANGED <<next_fid, free_fid, nodes, node_fid, fids, forgets, opened, lost>>
  BY DEF lookup_found, fuse_reply_entry, Reply
<1>2. FidsAccounted' /\ ServedFromOwnFile'
  BY <1>1, FidsKept
<1>3. TypeOK'
  <2>1. nlookup' \in [Qid -> Nat] /\ known' \in [Qid -> Nat]
    BY <1>1 DEF FuseInv, TypeOK
  <2> QED BY <1>1, <2>1, ReplyValues DEF FuseInv, TypeOK
<1>4. RequestOK'
  <2>1. \A o \in opened : o.ino \in Qid /\ known[o.ino] > 0
    BY DEF FuseInv, RequestOK, TypeOK
  <2>2. \A i \in Qid : known'[i] \in Nat /\ known[i] \in Nat /\ known'[i] >= known[i]
    BY <1>1 DEF FuseInv, TypeOK
  <2>3. \A o \in opened' : known'[o.ino] > 0
    BY <1>1, <2>1, <2>2
  <2>4. known'[1] > 0
    BY <2>2, ReplyValues DEF FuseInv, RequestOK
  <2> QED BY <1>1, <2>3, <2>4 DEF RequestOK
<1>5. LookupsCounted'
  <2>1. \A i \in Qid : /\ nlookup[i] \in Nat /\ known[i] \in Nat /\ forgets[i] \in Nat
                       /\ nlookup[i] = known[i] + forgets[i]
                       /\ i \in nodes <=> nlookup[i] > 0
    BY DEF FuseInv, TypeOK, LookupsCounted
  <2>2. \A i \in Qid : /\ nlookup'[i] = IF i = nodeid THEN nlookup[i] + 1 ELSE nlookup[i]
                       /\ known'[i] = IF i = nodeid THEN known[i] + 1 ELSE known[i]
    BY <1>1 DEF FuseInv, TypeOK
  <2>3. nodeid \in nodes
    BY <1>1 DEF FuseInv, RequestOK
  <2> QED BY <1>1, <2>1, <2>2, <2>3 DEF LookupsCounted
<1> QED BY <1>2, <1>3, <1>4, <1>5 DEF FuseInv

LEMMA LookupFoundFails ==
  ASSUME FuseInv, lookup_found_fails
  PROVE  FuseInv'
<1>1. /\ pc = "getattr_node"
      /\ pc' = "idle" /\ op' = "none" /\ ino' = 1 /\ newfid' = 0 /\ nodeid' = 1
      /\ UNCHANGED <<next_fid, free_fid, nodes, nlookup, node_fid, fids>>
      /\ UNCHANGED <<known, forgets, opened, lost>>
  BY DEF lookup_found_fails, Reply, driverVars, kernelVars
<1>2. FidsAccounted' /\ ServedFromOwnFile'
  BY <1>1, FidsKept
<1>3. TypeOK'
  BY <1>1, ReplyValues DEF FuseInv, TypeOK
<1>4. RequestOK' /\ LookupsCounted'
  BY <1>1 DEF FuseInv, RequestOK, LookupsCounted
<1> QED BY <1>2, <1>3, <1>4 DEF FuseInv

\* The new fid becomes a node's.
LEMMA LookupNew ==
  ASSUME FuseInv, lookup_new
  PROVE  FuseInv'
<1>1. /\ pc = "getattr" /\ Known(newfid)
      /\ nodes' = nodes \cup {nodeid} /\ nlookup' = [nlookup EXCEPT ![nodeid] = 1]
      /\ node_fid' = [node_fid EXCEPT ![nodeid] = newfid]
      /\ known' = [known EXCEPT ![nodeid] = @ + 1]
      /\ pc' = "idle" /\ op' = "none" /\ ino' = 1 /\ newfid' = 0 /\ nodeid' = 1
      /\ UNCHANGED <<next_fid, free_fid, fids, forgets, opened, lost>>
  BY DEF lookup_new, fuse_reply_entry, Reply
<1>2. TypeOK'
  BY <1>1, ReplyValues DEF FuseInv, TypeOK
<1>3. /\ nodeid \in Qid /\ nodeid \notin nodes /\ newfid \in Fid
      /\ virtio_9p_fix_qid(fids[newfid]) = nodeid
  BY <1>1 DEF FuseInv, TypeOK, RequestOK
<1>4. RequestOK'
  <2>1. \A o \in opened : o.ino \in Qid /\ known[o.ino] > 0
    BY DEF FuseInv, RequestOK, TypeOK
  <2>2. \A i \in Qid : known'[i] \in Nat /\ known[i] \in Nat /\ known'[i] >= known[i]
    BY <1>1 DEF FuseInv, TypeOK
  <2>3. \A o \in opened' : known'[o.ino] > 0
    BY <1>1, <2>1, <2>2
  <2>4. known'[1] > 0
    BY <2>2, ReplyValues DEF FuseInv, RequestOK
  <2> QED BY <1>1, <2>3, <2>4 DEF RequestOK
<1>5. LookupsCounted'
  <2>1. known[nodeid] = 0 /\ forgets[nodeid] = 0
    BY <1>3 DEF FuseInv, LookupsCounted, TypeOK
  <2> QED BY <1>1, <1>3, <2>1 DEF FuseInv, LookupsCounted, TypeOK
<1>6. /\ node_fid'[nodeid] = newfid
      /\ \A i \in nodes : i # nodeid /\ i \in Qid /\ node_fid'[i] = node_fid[i]
  BY <1>1, <1>3 DEF FuseInv, TypeOK
<1>7. /\ NodeFids' = NodeFids \cup {newfid} /\ FileFids' = FileFids
      /\ FreeFids' = FreeFids /\ RequestFids = {newfid} /\ RequestFids' = {}
  <2>1. NodeFids' = NodeFids \cup {newfid}
    BY <1>1, <1>6 DEF NodeFids
  <2> QED BY <1>1, <2>1 DEF FileFids, FreeFids, RequestFids
<1>8. FidsAccounted'
  <2>1. FidsAccounted
    BY DEF FuseInv
  <2>2. \A i \in nodes : node_fid[i] \in NodeFids
    BY DEF NodeFids
  <2>3. \A i, j \in nodes' : node_fid'[i] = node_fid'[j] => i = j
    BY <1>1, <1>6, <1>7, <2>1, <2>2 DEF FidsAccounted
  <2>4. 1 \in nodes' /\ node_fid'[1] = 0
    BY <1>1, <1>6, <2>1 DEF FidsAccounted
  <2> QED BY <1>1, <1>7, <2>1, <2>3, <2>4 DEF FidsAccounted, Known
<1>9. ServedFromOwnFile'
  BY <1>1, <1>3, <1>6 DEF FuseInv, ServedFromOwnFile
<1> QED BY <1>2, <1>4, <1>5, <1>8, <1>9 DEF FuseInv

\* The new fid becomes an open file's.
LEMMA Lopen ==
  ASSUME FuseInv, virtio_9p_lopen
  PROVE  FuseInv'
<1> DEFINE file == [fh |-> newfid, ino |-> ino]
<1>1. /\ pc = "lopen" /\ Known(newfid) /\ opened' = opened \cup {file}
      /\ pc' = "idle" /\ op' = "none" /\ ino' = 1 /\ newfid' = 0 /\ nodeid' = 1
      /\ UNCHANGED <<next_fid, free_fid, nodes, nlookup, node_fid, fids>>
      /\ UNCHANGED <<known, forgets, lost>>
  BY DEF virtio_9p_lopen, Reply, driverVars
<1>2. newfid \in Fid /\ ino \in Qid /\ file.fh = newfid /\ file.ino = ino
  BY DEF FuseInv, TypeOK
<1>3. TypeOK'
  BY <1>1, <1>2, ReplyValues DEF FuseInv, TypeOK
<1> HIDE DEF file
<1>4. RequestOK' /\ LookupsCounted'
  BY <1>1, <1>2 DEF FuseInv, RequestOK, LookupsCounted
<1>5. /\ NodeFids' = NodeFids /\ FileFids' = FileFids \cup {newfid}
      /\ FreeFids' = FreeFids /\ RequestFids = {newfid} /\ RequestFids' = {}
  <2>1. FileFids' = FileFids \cup {newfid}
    BY <1>1, <1>2 DEF FileFids
  <2> QED BY <1>1, <2>1 DEF NodeFids, FreeFids, RequestFids
<1>6. FidsAccounted'
  <2>1. FidsAccounted
    BY DEF FuseInv
  <2>2. \A o \in opened : o.fh \in FileFids
    BY DEF FileFids
  <2>3. \A o, p \in opened' : o.fh = p.fh => o = p
    BY <1>1, <1>2, <1>5, <2>1, <2>2 DEF FidsAccounted
  <2> QED BY <1>1, <1>5, <2>1, <2>3 DEF FidsAccounted, Known
<1>7. ServedFromOwnFile'
  BY <1>1, <1>2 DEF FuseInv, RequestOK, ServedFromOwnFile
<1> QED BY <1>3, <1>4, <1>6, <1>7 DEF FuseInv

\* A release takes the file's fid from those in use, whether or not the server
\* dropped it; it is given back or lost.
LEMMA Released ==
  ASSUME FuseInv, NEW o \in opened, opened' = opened \ {o}, pc = "idle",
         free_fid' \in Seq(Fid), next_fid' = next_fid, FreeOnce',
         lost' \subseteq Fid, fids' \in [Fid -> Qid \cup {NoQid}],
         \A g \in Fid : g # o.fh => fids'[g] = fids[g],
         \/ FreeFids' = FreeFids \cup {o.fh} /\ lost' = lost /\ fids'[o.fh] = NoQid
         \/ FreeFids' = FreeFids /\ lost' = lost \cup {o.fh},
         UNCHANGED <<nodes, nlookup, node_fid, known, forgets>>,
         UNCHANGED <<pc, op, ino, newfid, nodeid>>
  PROVE  FuseInv'
<1>1. o.fh \in Fid /\ o.fh \in FileFids
  BY DEF FuseInv, TypeOK, FileFids
<1>2. TypeOK'
  BY DEF FuseInv, TypeOK
<1>3. RequestOK' /\ LookupsCounted'
  BY DEF FuseInv, RequestOK, LookupsCounted
<1>4. \A p \in opened : p # o => p.fh \in Fid /\ p.fh # o.fh
  BY DEF FuseInv, TypeOK, FidsAccounted
<1>5. /\ NodeFids' = NodeFids /\ FileFids' = FileFids \ {o.fh}
      /\ RequestFids = {} /\ RequestFids' = {}
  <2>1. FileFids' = FileFids \ {o.fh}
    BY <1>4 DEF FileFids
  <2> QED BY <2>1 DEF NodeFids, RequestFids
<1>6. FidsAccounted'
  <2>1. FidsAccounted
    BY DEF FuseInv
  <2>2. o.fh \notin NodeFids /\ o.fh \notin FreeFids /\ o.fh \notin lost
    BY <1>1, <2>1 DEF FidsAccounted
  <2>3. /\ (NodeFids' \cup FileFids') \cap FreeFids' = {}
        /\ (NodeFids' \cup FileFids' \cup FreeFids') \cap lost' = {}
        /\ NodeFids' \cup FileFids' \cup FreeFids' \cup lost' = 0..next_fid-1
    BY <1>1, <1>5, <2>1, <2>2 DEF FidsAccounted
  <2>4. \A f \in Fid \ lost' : Known(f)' <=> f \in NodeFids' \cup FileFids'
    BY <1>1, <1>5, <2>1, <2>2 DEF FidsAccounted, Known
  <2> QED BY <1>5, <2>1, <2>3, <2>4 DEF FidsAccounted, FreeOnce, Known
<1>7. ServedFromOwnFile'
  <2>1. \A i \in nodes : node_fid[i] \in Fid /\ node_fid[i] # o.fh
    BY <1>1 DEF FuseInv, TypeOK, FidsAccounted, NodeFids
  <2> QED BY <1>4, <2>1 DEF FuseInv, ServedFromOwnFile
<1> QED BY <1>2, <1>3, <1>6, <1>7 DEF FuseInv

LEMMA OpRelease ==
  ASSUME FuseInv, NEW o \in opened, virtio_9p_op_release(o)
  PROVE  FuseInv'
<1>1. /\ pc = "idle" /\ opened' = opened \ {o}
      /\ UNCHANGED <<nodes, nlookup, node_fid, known, forgets>>
      /\ UNCHANGED <<pc, op, ino, newfid, nodeid>>
  BY DEF virtio_9p_op_release, requestVars
<1>2. o.fh \in Fid /\ o.fh \in FileFids
  BY DEF FuseInv, TypeOK, FileFids
<1>3. CASE virtio_9p_clunk(o.fh) /\ UNCHANGED lost
  <2>1. /\ free_fid' \in Seq(Fid) /\ FreeOnce' /\ FreeFids' = FreeFids \cup {o.fh}
        /\ next_fid' = next_fid /\ fids' \in [Fid -> Qid \cup {NoQid}]
        /\ fids'[o.fh] = NoQid /\ \A g \in Fid : g # o.fh => fids'[g] = fids[g]
    BY <1>2, <1>3, Clunk
  <2>2. lost' = lost /\ lost' \subseteq Fid
    BY <1>3 DEF FuseInv, TypeOK
  <2> QED BY <1>1, <2>1, <2>2, Released
<1>4. CASE virtio_9p_clunk_fails(o.fh)
  <2>1. /\ free_fid' = free_fid /\ next_fid' = next_fid
        /\ lost' = lost \cup {o.fh} /\ lost' \subseteq Fid
        /\ fids' = fids \/ fids' = [fids EXCEPT ![o.fh] = NoQid]
    BY <1>2, <1>4 DEF FuseInv, TypeOK, virtio_9p_clunk_fails
  <2>2. /\ fids' \in [Fid -> Qid \cup {NoQid}]
        /\ \A g \in Fid : g # o.fh => fids'[g] = fids[g]
    BY <1>2, <2>1 DEF FuseInv, TypeOK
  <2>3. free_fid' \in Seq(Fid) /\ FreeOnce' /\ FreeFids' = FreeFids
    <3>1. free_fid \in Seq(Fid) /\ FreeOnce
      BY DEF FuseInv, TypeOK, FidsAccounted, FreeOnce
    <3> QED BY <2>1, <3>1 DEF FreeOnce, FreeFids
  <2> QED BY <1>1, <2>1, <2>2, <2>3, Released
<1> QED BY <1>3, <1>4 DEF virtio_9p_op_release

\* A forget that leaves lookups changes counts only; the last one deletes the
\* node, which no request and no open file needs, since the kernel holds it no
\* more.
LEMMA Forget ==
  ASSUME FuseInv, op = "none", pc \in {"idle", "forget_multi"},
         NEW i \in Qid, NEW n \in Nat, forget(i, n)
  PROVE  FuseInv'
<1>1. /\ n \in 1..forgets[i] /\ i \in nodes /\ nlookup[i] >= n
      /\ nlookup' = [nlookup EXCEPT ![i] = @ - n]
      /\ forgets' = [forgets EXCEPT ![i] = @ - n]
      /\ UNCHANGED <<lost, node_fid, known, opened, pc, op, ino, newfid, nodeid>>
  BY DEF forget, requestVars
<1>2. /\ nlookup' \in [Qid -> Nat] /\ forgets' \in [Qid -> Nat]
      /\ nlookup'[i] = nlookup[i] - n /\ forgets'[i] = forgets[i] - n
      /\ \A j \in Qid : j # i => nlookup'[j] = nlookup[j] /\ forgets'[j] = forgets[j]
  BY <1>1 DEF FuseInv, TypeOK
<1>3. \A j \in Qid : /\ nlookup[j] \in Nat /\ known[j] \in Nat /\ forgets[j] \in Nat
                     /\ nlookup[j] = known[j] + forgets[j]
                     /\ j \in nodes <=> nlookup[j] > 0
  BY DEF FuseInv, TypeOK, LookupsCounted
<1>4. RequestOK'
  BY <1>1 DEF FuseInv, RequestOK
<1>5. CASE nlookup[i] > n
  <2>1. UNCHANGED <<next_fid, free_fid, nodes, fids>>
    BY <1>5 DEF forget
  <2>2. TypeOK'
    BY <1>1, <1>2, <2>1 DEF FuseInv, TypeOK
  <2>3. LookupsCounted'
    <3> SUFFICES ASSUME NEW j \in Qid
                 PROVE  nlookup'[j] = known'[j] + forgets'[j] /\ (j \in nodes' <=> nlookup'[j] > 0)
      BY DEF LookupsCounted
    <3> QED BY <1>1, <1>2, <1>3, <1>5, <2>1
  <2>4. FidsAccounted' /\ ServedFromOwnFile'
    BY <1>1, <2>1, FidsKept
  <2> QED BY <1>4, <2>2, <2>3, <2>4 DEF FuseInv
<1>6. CASE ~(nlookup[i] > n)
  <2>1. nodes' = nodes \ {i} /\ virtio_9p_clunk(node_fid[i])
    BY <1>6 DEF forget
  <2>2. node_fid[i] \in Fid /\ node_fid[i] \in NodeFids
    BY <1>1 DEF FuseInv, TypeOK, NodeFids
  <2>3. /\ free_fid' \in Seq(Fid) /\ FreeOnce' /\ FreeFids' = FreeFids \cup {node_fid[i]}
        /\ next_fid' = next_fid /\ fids' \in [Fid -> Qid \cup {NoQid}]
        /\ fids'[node_fid[i]] = NoQid
        /\ \A g \in Fid : g # node_fid[i] => fids'[g] = fids[g]
    BY <2>1, <2>2, Clunk
  <2>4. TypeOK'
    BY <1>1, <1>2, <2>1, <2>3 DEF FuseInv, TypeOK
  <2>5. LookupsCounted'
    <3> SUFFICES ASSUME NEW j \in Qid
                 PROVE  nlookup'[j] = known'[j] + forgets'[j] /\ (j \in nodes' <=> nlookup'[j] > 0)
      BY DEF LookupsCounted
    <3>1. CASE j = i
      BY <1>1, <1>2, <1>3, <1>6, <2>1, <3>1
    <3>2. CASE j # i
      <4>1. /\ nlookup'[j] = nlookup[j] /\ forgets'[j] = forgets[j] /\ known'[j] = known[j]
            /\ j \in nodes' <=> j \in nodes
        BY <1>1, <1>2, <2>1, <3>2
      <4> QED BY <1>3, <4>1
    <3> QED BY <3>1, <3>2
  <2>6. \A j \in nodes : j # i => node_fid[j] \in Fid /\ node_fid[j] # node_fid[i]
    BY <1>1 DEF FuseInv, TypeOK, FidsAccounted
  <2>7. /\ NodeFids' = NodeFids \ {node_fid[i]} /\ FileFids' = FileFids
        /\ RequestFids = {} /\ RequestFids' = {}
    <3>1. NodeFids' = NodeFids \ {node_fid[i]}
      BY <1>1, <2>1, <2>6 DEF NodeFids
    <3> QED BY <1>1, <3>1 DEF FileFids, RequestFids
  <2>8. FidsAccounted'
    <3>1. FidsAccounted
      BY DEF FuseInv
    <3>2. /\ (NodeFids' \cup FileFids') \cap FreeFids' = {}
          /\ NodeFids' \cup FileFids' \cup FreeFids' \cup lost = 0..next_fid-1
      BY <2>2, <2>3, <2>7, <3>1 DEF FidsAccounted
    <3>3. \A f \in Fid \ lost : Known(f)' <=> f \in NodeFids' \cup FileFids'
      BY <1>1, <2>2, <2>3, <2>7, <3>1 DEF FidsAccounted, Known
    <3>4. known[1] > 0 /\ known[i] = 0
      BY <1>1, <1>3, <1>6 DEF FuseInv, RequestOK
    <3>5. 1 \in nodes' /\ node_fid'[1] = 0
      BY <1>1, <2>1, <3>1, <3>4 DEF FidsAccounted
    <3>6. (NodeFids' \cup FileFids' \cup FreeFids') \cap lost = {}
      BY <2>2, <2>3, <2>7, <3>1 DEF FidsAccounted
    <3> QED BY <1>1, <2>1, <2>3, <2>7, <3>1, <3>2, <3>3, <3>5, <3>6
          DEF FidsAccounted, FreeOnce, Known
  <2>9. ServedFromOwnFile'
    <3>1. \A o \in opened : o.fh \in Fid /\ o.fh # node_fid[i]
      BY <2>2 DEF FuseInv, TypeOK, FidsAccounted, FileFids
    <3> QED BY <1>1, <2>1, <2>3, <2>6, <3>1 DEF FuseInv, ServedFromOwnFile
  <2> QED BY <1>4, <2>4, <2>5, <2>8, <2>9 DEF FuseInv
<1> QED BY <1>5, <1>6

LEMMA OpForgetMulti ==
  ASSUME FuseInv, virtio_9p_op_forget_multi \/ forget_multi_done
  PROVE  FuseInv'
<1>1. /\ pc \in {"idle", "forget_multi"} /\ pc' \in {"idle", "forget_multi"}
      /\ op' = "none" /\ ino' \in Qid /\ newfid' \in Fid /\ nodeid' \in Qid
      /\ UNCHANGED <<next_fid, free_fid, nodes, nlookup, node_fid>>
      /\ UNCHANGED <<known, forgets, opened, fids, lost>>
  BY ReplyValues DEF FuseInv, TypeOK, RequestOK, virtio_9p_op_forget_multi,
     forget_multi_done, Reply, driverVars, kernelVars
<1>2. TypeOK' /\ RequestOK' /\ LookupsCounted'
  BY <1>1 DEF FuseInv, TypeOK, RequestOK, LookupsCounted
<1>3. FidsAccounted' /\ ServedFromOwnFile'
  BY <1>1, FidsKept
<1> QED BY <1>2, <1>3 DEF FuseInv

LEMMA Forgotten ==
  ASSUME FuseInv, NEW i \in Qid, KernelForget(i)
  PROVE  FuseInv'
<1>1. /\ i # 1 /\ ~(op # "none" /\ ino = i) /\ \A o \in opened : o.ino # i
      /\ known' = [known EXCEPT ![i] = 0]
      /\ forgets' = [forgets EXCEPT ![i] = @ + known[i]]
      /\ UNCHANGED <<next_fid, free_fid, nodes, nlookup, node_fid, opened, fids, lost>>
      /\ UNCHANGED <<pc, op, ino, newfid, nodeid>>
  BY DEF KernelForget, driverVars, requestVars
<1>2. /\ known' \in [Qid -> Nat] /\ forgets' \in [Qid -> Nat]
      /\ known'[i] = 0 /\ forgets'[i] = forgets[i] + known[i]
      /\ \A j \in Qid : j # i => known'[j] = known[j] /\ forgets'[j] = forgets[j]
  BY <1>1 DEF FuseInv, TypeOK
<1>3. TypeOK'
  BY <1>1, <1>2 DEF FuseInv, TypeOK
<1>4. RequestOK'
  <2>1. \A o \in opened : o.ino \in Qid
    BY DEF FuseInv, TypeOK
  <2>2. ino \in Qid
    BY DEF FuseInv, TypeOK
  <2> QED BY <1>1, <1>2, <2>1, <2>2, ReplyValues DEF FuseInv, RequestOK
<1>5. LookupsCounted'
  BY <1>1, <1>2 DEF FuseInv, LookupsCounted, TypeOK
<1>6. FidsAccounted' /\ ServedFromOwnFile'
  <2>1. /\ NodeFids' = NodeFids /\ FileFids' = FileFids
        /\ RequestFids' = RequestFids /\ FreeFids' = FreeFids
    BY <1>1 DEF NodeFids, FileFids, RequestFids, FreeFids
  <2>2. FidsAccounted'
    BY <1>1, <2>1 DEF FuseInv, FidsAccounted, Known
  <2> QED BY <1>1, <2>2 DEF FuseInv, ServedFromOwnFile
<1> QED BY <1>3, <1>4, <1>5, <1>6 DEF FuseInv

LEMMA Stuttering ==
  ASSUME FuseInv, UNCHANGED fuseVars
  PROVE  FuseInv'
<1>1. /\ UNCHANGED <<next_fid, free_fid, nodes, nlookup, node_fid, fids, lost>>
      /\ UNCHANGED <<pc, op, ino, newfid, nodeid, known, forgets, opened>>
  BY DEF fuseVars, driverVars, requestVars, kernelVars
<1>2. /\ NodeFids' = NodeFids /\ FileFids' = FileFids
      /\ RequestFids' = RequestFids /\ FreeFids' = FreeFids
  BY <1>1 DEF NodeFids, FileFids, RequestFids, FreeFids
<1>3. FidsAccounted'
  BY <1>1, <1>2 DEF FuseInv, FidsAccounted, Known
<1> QED BY <1>1, <1>3 DEF FuseInv, TypeOK, RequestOK, LookupsCounted, ServedFromOwnFile

LEMMA FuseInvNext == FuseInv /\ [Next]_fuseVars => FuseInv'
<1> SUFFICES ASSUME FuseInv, [Next]_fuseVars PROVE FuseInv'
  OBVIOUS
<1>1. ASSUME NEW i \in Qid, virtio_9p_op_lookup(i) PROVE FuseInv'
  BY <1>1, WalkFrom DEF virtio_9p_op_lookup
<1>2. ASSUME NEW i \in Qid, virtio_9p_op_open(i) PROVE FuseInv'
  BY <1>2, WalkFrom DEF virtio_9p_op_open
<1>3. ASSUME NEW i \in Qid, KernelForget(i) PROVE FuseInv'
  BY <1>3, Forgotten
<1>4. ASSUME NEW i \in Qid, NEW n \in 1..MaxLookup,
             virtio_9p_op_forget(i, n) \/ forget_multi_next(i, n)
      PROVE  FuseInv'
  <2>1. pc \in {"idle", "forget_multi"} /\ op = "none" /\ forget(i, n) /\ n \in Nat
    BY <1>4 DEF virtio_9p_op_forget, forget_multi_next, FuseInv, RequestOK
  <2> QED BY <2>1, Forget
<1>5. ASSUME NEW q \in Qid, lookup_walked(q) PROVE FuseInv'
  BY <1>5, LookupWalked
<1>6. ASSUME NEW o \in opened, virtio_9p_op_release(o) PROVE FuseInv'
  BY <1>6, OpRelease
<1>7. CASE walk_fails \/ lookup_clunk \/ lookup_found \/ lookup_found_fails
  BY <1>7, WalkFails, LookupClunk, LookupFound, LookupFoundFails
<1>8. CASE lookup_new \/ open_walked \/ virtio_9p_lopen \/ new_fid_fails
  BY <1>8, LookupNew, OpenWalked, Lopen, NewFidFails
<1>9. CASE virtio_9p_op_forget_multi \/ forget_multi_done
  BY <1>9, OpForgetMulti
<1>10. CASE UNCHANGED fuseVars
  BY <1>10, Stuttering
<1> QED BY <1>1, <1>2, <1>3, <1>4, <1>5, <1>6, <1>7, <1>8, <1>9, <1>10 DEF Next

-----------------------------------------------------------------------------
(* What holds of the file system.                                          *)

\* The invariant holds of every run.
THEOREM FuseInvHolds == Spec => []FuseInv
BY FuseInvInit, FuseInvNext, PTL DEF Spec

\* Every variable of virtio_9p_dev keeps its type, and fids stay below those
\* handed out.
THEOREM FuseTypeCorrect == Spec => []TypeOK
<1>1. FuseInv => TypeOK
  BY DEF FuseInv
<1> QED BY <1>1, FuseInvHolds, PTL

\* An inode the kernel uses has its node, and no forget takes more lookups than
\* the node has (the assertions of virtio_9p_op_lookup and virtio_9p_op_forget).
THEOREM FuseLookupsCounted == Spec => []LookupsCounted
<1>1. FuseInv => LookupsCounted
  BY DEF FuseInv
<1> QED BY <1>1, FuseInvHolds, PTL

\* Fids are never used twice by virtio_9p_alloc_fid and its callers, and none is
\* lost, whichever of their calls fail, but by a release whose clunk fails; that
\* one is never handed out again.
THEOREM FuseFidsAccounted == Spec => []FidsAccounted
<1>1. FuseInv => FidsAccounted
  BY DEF FuseInv
<1> QED BY <1>1, FuseInvHolds, PTL

\* What virtio_9p_fix_qid makes the kernel call an inode leads back to its file.
THEOREM FuseServedFromOwnFile == Spec => []ServedFromOwnFile
<1>1. FuseInv => ServedFromOwnFile
  BY DEF FuseInv
<1> QED BY <1>1, FuseInvHolds, PTL

\* No step takes an inode in use from its node, or the node from its fid: only
\* virtio_9p_op_forget deletes a node, and not while the kernel holds it.
THEOREM FuseNodeStableInUse == Spec => NodeStableInUse
<1> DEFINE InUse(i) == (op # "none" /\ ino = i) \/ \E o \in opened : o.ino = i
<1>1. ASSUME FuseInv, [Next]_fuseVars, NEW i \in Qid, InUse(i)
      PROVE  i \in nodes' /\ node_fid'[i] = node_fid[i]
  <2>1. known[i] > 0
    BY <1>1 DEF FuseInv, RequestOK
  <2>2. i \in nodes /\ nlookup[i] > forgets[i] /\ nlookup[i] \in Nat /\ forgets[i] \in Nat
    BY <1>1, <2>1 DEF FuseInv, LookupsCounted, TypeOK
  <2>3. ASSUME NEW j \in Qid, NEW n \in 1..MaxLookup, forget(j, n)
        PROVE  i \in nodes' /\ node_fid'[i] = node_fid[i]
    BY <2>2, <2>3 DEF forget
  <2>4. CASE lookup_new
    <3>1. nodeid # i
      BY <1>1, <2>2, <2>4 DEF FuseInv, RequestOK, lookup_new
    <3> QED BY <1>1, <2>2, <2>4, <3>1 DEF FuseInv, TypeOK, lookup_new
  <2>5. CASE UNCHANGED <<nodes, node_fid>>
    BY <2>2, <2>5
  <2>6. \/ lookup_new \/ UNCHANGED <<nodes, node_fid>>
        \/ \E j \in Qid : \E n \in 1..MaxLookup : forget(j, n)
    BY <1>1 DEF Next, virtio_9p_op_lookup, virtio_9p_op_open, walk_from, KernelForget,
       virtio_9p_op_forget, forget_multi_next, lookup_walked, virtio_9p_op_release,
       walk_fails, lookup_clunk, lookup_found, lookup_found_fails, open_walked,
       virtio_9p_lopen, new_fid_fails, virtio_9p_op_forget_multi, forget_multi_done,
       driverVars, fuseVars
  <2> QED BY <2>3, <2>4, <2>5, <2>6
<1>2. FuseInv /\ [Next]_fuseVars =>
        [\A i \in Qid : InUse(i) => i \in nodes' /\ node_fid'[i] = node_fid[i]]_fuseVars
  BY <1>1
<1> QED BY <1>2, FuseInvHolds, PTL DEF Spec, NodeStableInUse

=============================================================================
