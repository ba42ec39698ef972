------------------------ MODULE NamespaceInvariants ------------------------
(***************************************************************************)
(* The inductive invariant behind the safety properties of Namespace, in   *)
(* named parts.  Each part says what a task may rely on across the awaits  *)
(* of its code; TLC checks them on the instances of MCNamespace and the    *)
(* modules of proofs show that every step preserves them.                  *)
(***************************************************************************)
EXTENDS Namespace

\* What a busy committer holds.
BusyWriters ==
    \A n \in Nodes :
        /\ writer[n].pc # "idle" => writer[n].batch \in Batches
        /\ writer[n].pc = "cas" => writer[n].name \in WalNames \cap DOMAIN body
        /\ writer[n].pc = "won" => writer[n].view.next_seq > 0

\* The manifests that some node remembers or some task works from.
ViewsAt(n) == {snapshot[n], writer[n].view, compactor[n].first, compactor[n].second,
               compactor[n].current, collector[n].view}

Views == ({manifest, DefaultManifest} \cup UNION {ViewsAt(n) : n \in Nodes}) \ {NoManifest}

\* A compaction that has written its segment and not yet committed it.
Pending(n) == compactor[n].pc \in {"load", "check", "cas"}

\* Every manifest held anywhere is the current one or an older one, and a
\* version names one manifest: what makes the compare-and-swap sound.
VersionsInv ==
    /\ manifest.next_seq = Len(log)
    /\ \A m \in Views :
          /\ m.ver <= manifest.ver
          /\ m.ver = manifest.ver => m = manifest
          /\ m.next_seq <= manifest.next_seq

\* Every object a held manifest names was written.
NamesInv ==
    /\ \A m \in Views : Referenced(m) \subseteq DOMAIN body
    /\ \A n \in Nodes :
          Pending(n) /\ compactor[n].built \in DataNames => compactor[n].built \in DOMAIN body

\* In every held manifest, an entry's object holds the batch of its number.
EntriesInv ==
    \A m \in Views : \A e \in m.wal :
        e.seq < m.next_seq /\ body[e.name] = log[e.seq + 1]

\* A committer's object is its own until its commit, and the number it is about
\* to report is the one its batch has.
WritersInv ==
    \A n \in Nodes :
        /\ writer[n].pc = "cas" =>
              /\ body[writer[n].name] = writer[n].batch
              /\ \A m \in Views : writer[n].name \notin WalObjects(m)
              /\ \A k \in Nodes \ {n} :
                    writer[k].pc = "cas" => writer[k].name # writer[n].name
        /\ writer[n].pc = "won" =>
              /\ writer[n].view.next_seq \in DOMAIN log
              /\ log[writer[n].view.next_seq] = writer[n].batch

\* The objects of commits and compactions under way.
AllInFlight == InFlight("commit") \cup InFlight("compaction")

\* What a sweep is about to delete is neither named nor about to be.
SweepInv ==
    /\ NothingDangles
    /\ AllInFlight \cap (WalNames \cup DataNames) \subseteq stored
    /\ \A n \in Nodes :
          /\ collector[n].pc = "list" =>
                /\ collector[n].old \subseteq DOMAIN body
                /\ collector[n].old \cap AllInFlight = {}
                /\ collector[n].old \cap Referenced(manifest) \subseteq
                       Referenced(collector[n].view)
          /\ collector[n].pc = "delete" =>
                /\ collector[n].doomed \subseteq DOMAIN body
                /\ collector[n].doomed \cap (Referenced(manifest) \cup AllInFlight) = {}

\* The list of shards never becomes empty again, and a shard keeps having a
\* segment while no compaction has found it empty.
StagesInv ==
    \A m \in Views :
        /\ manifest.shards = NoShards => m.shards = NoShards
        /\ ~emptied /\ m.shards \in DataNames => manifest.shards \in DataNames

\* NothingLost, for every manifest held anywhere.
CoveredInv ==
    ~emptied => \A m \in Views : \A i \in 1..m.next_seq : log[i] \in Covered(m)

\* The batches a finished segment accounts for.
BuiltCovers(c) == IF c.built \in DataNames THEN body[c.built].covers ELSE {}

\* While the shards are those a compaction started from, every batch committed
\* since is in the WAL, in an object the compaction will not take out.
KeepsNewer(n) ==
    ~emptied /\ manifest.shards = compactor[n].first.shards =>
        \A i \in DOMAIN log : i > compactor[n].first.next_seq =>
            \E e \in manifest.wal :
                /\ e.name \notin WalObjects(compactor[n].first)
                /\ body[e.name] = log[i]

CompactorsInv ==
    \A n \in Nodes :
        LET c == compactor[n] IN
        /\ c.pc = "second" =>
              /\ c.first.next_seq <= c.second.next_seq
              /\ ~emptied /\ c.first.shards \in DataNames => c.second.shards \in DataNames
        /\ Pending(n) =>
              /\ c.built # NoShards
              /\ c.built \in DataNames =>
                    /\ \A m \in Views : m.shards # c.built
                    /\ \A k \in Nodes \ {n} : Pending(k) => compactor[k].built # c.built
              /\ ~emptied => \A i \in 1..c.first.next_seq : log[i] \in BuiltCovers(c)
              /\ ~emptied /\ c.built = EmptyShard =>
                    c.first.shards \notin DataNames /\ c.first.wal = {}
        /\ c.pc = "cas" => c.current.shards = c.first.shards
        /\ c.pc \notin {"idle", "won"} => KeepsNewer(n)

SafetyInv ==
    /\ BusyWriters /\ VersionsInv /\ NamesInv /\ EntriesInv /\ WritersInv
    /\ StagesInv /\ CoveredInv /\ CompactorsInv

---------------------------------------------------------------------------
\* What a reader of a manifest sees.

\* Each batch is committed at most once, and belongs to one writer as long as that
\* writer waits: it was not answered, and unless the writer won, not committed.
OnceInv ==
    /\ \A i, j \in DOMAIN log : log[i] = log[j] => i = j
    /\ \A i \in DOMAIN log : log[i] \in submitted
    /\ DOMAIN acked \cup failed \subseteq submitted
    /\ \A n \in Nodes :
          /\ writer[n].pc = "idle" => writer[n].batch = NoBatch
          /\ writer[n].pc # "idle" =>
                /\ writer[n].batch \in submitted
                /\ writer[n].batch \notin DOMAIN acked \cup failed
                /\ \A k \in Nodes \ {n} :
                      writer[k].pc # "idle" => writer[k].batch # writer[n].batch
          /\ writer[n].pc \notin {"idle", "won"} =>
                \A i \in DOMAIN log : log[i] # writer[n].batch

\* m lists exactly the commits from number lo on that it knows of, each once.
ListsFrom(m, lo) ==
    /\ lo <= m.next_seq
    /\ \A e \in m.wal : lo <= e.seq
    /\ \A s \in lo..m.next_seq - 1 : \E e \in m.wal : e.seq = s
    /\ \A e, d \in m.wal : e.seq = d.seq => e = d

\* The WAL of every manifest is the unbroken end of the commits it knows of.
TailsInv == \A m \in Views : \E lo \in Nat : ListsFrom(m, lo)

\* Entries are only taken out: a manifest had every entry the current one has of
\* the commits it knew of.
PastInv ==
    \A m \in Views : \A e \in manifest.wal : e.seq < m.next_seq => e \in m.wal

\* The object `name` holds the live set after k commits, and accounts for them.
HoldsCommits(name, k) ==
    body[name].docs = LiveAfter(k) /\ \A i \in 1..k : log[i] \in body[name].covers

\* The segment of m is the live set after k commits, and no later one that m
\* knows of is missing from its WAL.
SegmentIs(m, k) ==
    /\ IF m.shards \in DataNames THEN HoldsCommits(m.shards, k) ELSE LiveAfter(k) = NoDocs
    /\ \A s \in k..m.next_seq - 1 : \E e \in m.wal : e.seq = s

SegmentsInv == ~emptied => \A m \in Views : \E k \in 0..m.next_seq : SegmentIs(m, k)

\* A finished segment has what the compaction will take out of the WAL.
FoldsInv ==
    ~emptied => \A n \in Nodes :
        Pending(n) /\ compactor[n].built \in DataNames =>
            \E k \in compactor[n].first.next_seq..Len(log) :
                HoldsCommits(compactor[n].built, k)

LiveInv == OnceInv /\ TailsInv /\ PastInv /\ SegmentsInv /\ FoldsInv

=============================================================================
