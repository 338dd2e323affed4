------------------------------ MODULE RaftStorage ------------------------------
(***************************************************************************)
(* The disk of a raft node (etcdraft/storage.go): a write-ahead log in     *)
(* segments, snapshot files beside it, and the order in which Store,       *)
(* TakeSnapshot and gc touch them.  The node may crash between any two     *)
(* writes; CreateStorage then has to rebuild the log from what is there.   *)
(*                                                                         *)
(* A segment is its name [seq, idx] and its records: the indices of the    *)
(* entries, the marks of snapshots and the last hard state's commit index; *)
(* neither reading nor purging looks at more.  The wal and snap packages   *)
(* of etcd are external; that a later entry replaces one of the same index *)
(* is their business and left out.  Memory keeps the whole log here:       *)
(* compaction only decides who is sent a snapshot instead of entries.      *)
(***************************************************************************)
EXTENDS Integers, Sequences, FiniteSets, SequencesExt, FiniteSetsExt

CONSTANTS MaxIndex,         \* bound on the raft index
          SegmentSize,      \* entries after which a segment is cut
          MaxSnapshotFiles,
          Received,         \* whether the leader sends snapshots
          MaxCrashes,       \* bound on the crashes
          MaxCorrupt        \* bound on the snapshot files that get corrupted

FilesAssumption == MaxSnapshotFiles \in Nat \ {0}

VARIABLES wal,      \* the segments on disk, oldest first
          files,    \* snapshot files on disk: [i, ok]
          locked,   \* the segments the open log holds locks on, by seq
          snapshotIndex,
          last,     \* index of the last entry the node knows
          commit,   \* the commit index in memory
          pc,       \* next write: "idle", "walsnap", "snapfile", "gc", "purgewal", "purgesnap", "down"
          pend,     \* index of the snapshot being saved
          taking,   \* whether TakeSnapshot is saving it
          crashes, corrupted

vars == <<wal, files, locked, snapshotIndex, last, commit, pc, pend, taking, crashes, corrupted>>

-----------------------------------------------------------------------------
(* The write-ahead log.                                                    *)

SaveSnapshot(w, i) == [w EXCEPT ![Len(w)].marks = @ \cup {i}]

(* The index in the name of a new segment is one above the last entry saved, *)
(* or above a later snapshot.                                                 *)
NextName(w) == Max(UNION {w[k].ents \cup w[k].marks : k \in DOMAIN w} \cup {0}) + 1

Cut(w, c) ==
    Append(w, [seq |-> w[Len(w)].seq + 1, idx |-> NextName(w), ents |-> {}, marks |-> {}, commit |-> c])

(* Save appends and cuts the segment when it has grown; a new segment       *)
(* begins with the hard state.                                              *)
WalSave(w, ents, c) ==
    LET x == [w EXCEPT ![Len(w)].ents = @ \cup ents, ![Len(w)].commit = c]
    IN  IF Cardinality(x[Len(x)].ents) < SegmentSize THEN x ELSE Cut(x, c)

(* What Open at snapshot s and ReadAll return: the entries after s are read *)
(* as far as they follow each other.                                        *)
Reading(w, s) ==
    LET from == {k \in DOMAIN w : w[k].idx <= s}
        read == {k \in DOMAIN w : from # {} /\ k >= Max(from)}
        ents == UNION {w[k].ents : k \in read}
    IN  [found |-> \E k \in read : s \in w[k].marks,
         first |-> Max(from \cup {0}),
         last |-> Max({n \in s..Max(ents \cup {s}) : (s + 1)..n \subseteq ents}),
         commit |-> w[Len(w)].commit]

ReleaseLockTo(index) ==
    LET ls == SelectSeq(wal, LAMBDA g : g.seq \in locked)
        above == {k \in DOMAIN ls : ls[k].idx >= index}
        smaller == IF above = {} THEN Len(ls) ELSE Min(above) - 1
    IN  IF smaller <= 1 THEN locked ELSE {ls[k].seq : k \in smaller..Len(ls)}

-----------------------------------------------------------------------------
(* Store: entries, hard state and, from the leader, a snapshot.            *)

Entries(f, n) == f..(f + n - 1)

Locks(w) == IF Len(w) > Len(wal) THEN locked \cup {w[Len(w)].seq} ELSE locked

Store(n, c) ==
    /\ pc = "idle"
    /\ last + n <= MaxIndex /\ c \in commit..(last + n)
    /\ n > 0 \/ c > commit
    /\ wal' = WalSave(wal, Entries(last + 1, n), c)
    /\ locked' = Locks(wal')
    /\ last' = last + n
    /\ commit' = c
    /\ UNCHANGED <<files, snapshotIndex, pc, pend, taking, crashes, corrupted>>

(* The entries and the hard state are saved before the snapshot. *)
StoreSnapshot(s, n) ==
    /\ Received /\ pc = "idle"
    /\ s > last /\ s + n <= MaxIndex
    /\ wal' = WalSave(wal, Entries(s + 1, n), s)
    /\ locked' = Locks(wal')
    /\ last' = s + n
    /\ commit' = s
    /\ pend' = s /\ taking' = FALSE /\ pc' = "walsnap"
    /\ UNCHANGED <<files, snapshotIndex, crashes, corrupted>>

TakeSnapshot(i) ==
    /\ pc = "idle"
    /\ i <= commit /\ \A x \in files : x.i < i
    /\ pend' = i /\ taking' = TRUE /\ pc' = "walsnap"
    /\ UNCHANGED <<wal, files, locked, snapshotIndex, last, commit, crashes, corrupted>>

Save(next) ==
    /\ files' = files \cup {[i |-> pend, ok |-> TRUE]}
    /\ pc' = next
    /\ UNCHANGED <<wal, snapshotIndex, last, commit, pend, taking, crashes, corrupted>>

(* Mutant: the snapshot file is written first. *)
FileFirst ==
    \/ pc = "walsnap" /\ Save("snapfile") /\ UNCHANGED locked
    \/ /\ pc = "snapfile"
       /\ wal' = SaveSnapshot(wal, pend)
       /\ locked' = ReleaseLockTo(pend)
       /\ pc' = IF taking THEN "gc" ELSE "idle"
       /\ UNCHANGED <<files, snapshotIndex, last, commit, pend, taking, crashes, corrupted>>

saveSnap ==
    \/ /\ pc = "walsnap"
       /\ wal' = SaveSnapshot(wal, pend)
       /\ pc' = "snapfile"
       /\ UNCHANGED <<files, locked, snapshotIndex, last, commit, pend, taking, crashes, corrupted>>
    \/ /\ pc = "snapfile"
       /\ Save(IF taking THEN "gc" ELSE "idle")
       /\ locked' = ReleaseLockTo(pend)

-----------------------------------------------------------------------------
(* Garbage collection, one file at a time.                                 *)

gc ==
    /\ pc = "gc"
    /\ LET all == Append(snapshotIndex, pend)
       IN  IF Len(all) < MaxSnapshotFiles THEN snapshotIndex' = all /\ pc' = "idle"
           ELSE /\ snapshotIndex' = SubSeq(all, Len(all) - MaxSnapshotFiles + 1, Len(all))
                /\ pc' = "purgewal"
    /\ UNCHANGED <<wal, files, locked, last, commit, pend, taking, crashes, corrupted>>

(* One segment with an index below the oldest retained snapshot is kept. *)
purgeWAL ==
    /\ pc = "purgewal"
    /\ IF Len(wal) > 1 /\ wal[1].idx < snapshotIndex[1] /\ wal[2].idx < snapshotIndex[1]
             /\ wal[1].seq \notin locked
       THEN wal' = Tail(wal) /\ pc' = pc ELSE pc' = "purgesnap" /\ wal' = wal
    /\ UNCHANGED <<files, locked, snapshotIndex, last, commit, pend, taking, crashes, corrupted>>

purgeSnap ==
    /\ pc = "purgesnap"
    /\ IF Cardinality(files) > MaxSnapshotFiles
       THEN files' = {x \in files : \E y \in files : y.i < x.i} /\ pc' = pc
       ELSE pc' = "idle" /\ files' = files
    /\ UNCHANGED <<wal, locked, snapshotIndex, last, commit, pend, taking, crashes, corrupted>>

-----------------------------------------------------------------------------
(* Crash, corruption of a snapshot file, and recovery.                     *)

Crash ==
    /\ pc # "down" /\ crashes < MaxCrashes
    /\ pc' = "down" /\ crashes' = crashes + 1
    /\ UNCHANGED <<wal, files, locked, snapshotIndex, last, commit, pend, taking, corrupted>>

Newest(fs) == Max({0} \cup {x.i : x \in fs})

Corrupt ==
    /\ pc = "down" /\ corrupted < MaxCorrupt
    /\ \E x \in files : x.i = Newest(files) /\ x.ok
                        /\ files' = (files \ {x}) \cup {[x EXCEPT !.ok = FALSE]}
    /\ corrupted' = corrupted + 1
    /\ UNCHANGED <<wal, locked, snapshotIndex, last, commit, pc, pend, taking, crashes>>

Intact == {x \in files : x.ok}

(* Load reads from the newest file on and puts the broken ones aside. *)
CreateStorage ==
    LET s == Newest(Intact)
        r == Reading(wal, s)
    IN  /\ pc = "down" /\ r.found
        /\ files' = {x \in files : x.ok \/ x.i < s}
        /\ snapshotIndex' = SetToSortSeq({x.i : x \in Intact}, <)
        /\ last' = r.last
        /\ commit' = Max({r.commit, s})
        /\ locked' = {wal[k].seq : k \in r.first..Len(wal)}
        /\ pc' = "idle"
        /\ UNCHANGED <<wal, pend, taking, crashes, corrupted>>

-----------------------------------------------------------------------------
Init ==
    /\ wal = <<[seq |-> 0, idx |-> 0, ents |-> {}, marks |-> {0}, commit |-> 0]>>
    /\ files = {} /\ locked = {0} /\ snapshotIndex = <<>>
    /\ last = 0 /\ commit = 0
    /\ pc = "idle" /\ pend = 0 /\ taking = FALSE
    /\ crashes = 0 /\ corrupted = 0

Next ==
    \/ \E n \in 0..2, c \in 0..MaxIndex : Store(n, c)
    \/ \E s \in 1..MaxIndex, n \in 0..1 : StoreSnapshot(s, n)
    \/ \E i \in 1..MaxIndex : TakeSnapshot(i)
    \/ saveSnap \/ gc \/ purgeWAL \/ purgeSnap
    \/ Crash \/ Corrupt \/ CreateStorage

Spec == Init /\ [][Next]_vars

-----------------------------------------------------------------------------
(* Every part of the state has its type; segments are numbered without a    *)
(* gap and the retained snapshots are in the order of their indices.        *)
TypeOK ==
    /\ \A k \in DOMAIN wal : wal[k].seq = wal[1].seq + k - 1
    /\ \A j, k \in DOMAIN snapshotIndex : j < k => snapshotIndex[j] < snapshotIndex[k]
    /\ last \in 0..MaxIndex /\ commit \in 0..last
    /\ \A x, y \in files : x.i = y.i => x = y

(* The snapshots a restart may have to begin with: the newest intact ones,  *)
(* as many as are retained, or none when no snapshot was ever taken.        *)
Candidates ==
    IF files = {} THEN {0}
    ELSE {x.i : x \in {y \in Intact : Cardinality({z \in files : z.i > y.i}) < MaxSnapshotFiles}}

(* Whenever the node crashes, whichever of the retained snapshots is the    *)
(* newest that can still be read, CreateStorage opens the log at it and     *)
(* finds every entry after it that was stored: the order of saveSnap and    *)
(* the segment that purgeWAL keeps are there for this.                      *)
Recoverable ==
    \A s \in Candidates :
        LET r == Reading(wal, s)
        IN  r.found /\ r.last = last

(* The same of a node that is sent snapshots, once they are saved: the log  *)
(* opens at every retained snapshot, and from the newest on it is complete  *)
(* (an older one has lost the entries that a received snapshot stands for). *)
Reopens ==
    taking \/ pc \notin {"walsnap", "snapfile"} =>
        /\ \A s \in Candidates : Reading(wal, s).found
        /\ Reading(wal, Newest(files)).last = last
=============================================================================
