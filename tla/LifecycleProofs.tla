-------------------------- MODULE LifecycleProofs --------------------------
(***************************************************************************)
(* Safety of module Lifecycle, for any number of namespaces, tasks, names  *)
(* and operations.                                                         *)
(***************************************************************************)
EXTENDS Lifecycle, SequenceTheorems, TLAPS

---------------------------------------------------------------------------
\* The shape of the state, over the names N that have been given.

Names == DOMAIN holds

Manifests(N) ==
    [exists : BOOLEAN, wal : SUBSET N, built : BOOLEAN, segments : SUBSET N]

ToPut(N) == [op : {"write"}, ns : Namespaces, phase : {"put"}, view : Manifests(N)]
ToCommit(N) == [op : {"write"}, ns : Namespaces, phase : {"cas"}, view : Manifests(N),
                name : N]
ToBuild(N) == [op : {"compact"}, ns : Namespaces, phase : {"read"}, view : Manifests(N)]
ToFold(N) == [op : {"compact"}, ns : Namespaces, phase : {"cas"}, view : Manifests(N),
              names : SUBSET N]
ToBranch(N) == [op : {"branch"}, ns : Namespaces, phase : {"head", "copy"},
                view : Manifests(N), dest : Namespaces, rest : SUBSET N]
ToList == [op : {"destroy"}, ns : Namespaces, phase : {"list"}]
ToDelete(N) == [op : {"destroy"}, ns : Namespaces, phase : {"delete"},
                doomed : SUBSET N, entry : BOOLEAN]

Calls(N) == {Idle} \cup ToPut(N) \cup ToCommit(N) \cup ToBuild(N) \cup ToFold(N)
                   \cup ToBranch(N) \cup ToList \cup ToDelete(N)

Listing(N) == [ns : Namespaces, phase : {"list"}, referenced : SUBSET N,
               aged : SUBSET N, current : BOOLEAN, garbage : SUBSET N]
Deleting(N) == [ns : Namespaces, phase : {"delete"}, doomed : SUBSET N,
                spared : SUBSET N, current : BOOLEAN, garbage : SUBSET N]
Sweepings(N) == {Idle} \cup Listing(N) \cup Deleting(N)

TypeOK ==
    /\ holds \in Seq(SUBSET Nat) /\ \A o \in Names : holds[o] \subseteq Names
    /\ manifest \in [Namespaces -> Manifests(Names)]
    /\ objects \in [Namespaces -> SUBSET Names]
    /\ task \in [Tasks -> Calls(Names)]
    /\ sweep \in Sweepings(Names)
    /\ seen \subseteq Namespaces
    /\ gone \in [Namespaces -> SUBSET Names]
    /\ swept \in [Namespaces -> SUBSET Names]

---------------------------------------------------------------------------
\* The invariants.

\* A namespace that is not torn has what its manifest names and what calls have
\* put, the collector has its hands on neither, and while it is destroyed nobody
\* else is about to change it.
Whole(n) ==
    /\ Destroying(n) => Referenced(manifest[n]) = {} /\ ~Changing(n)
    /\ Referenced(manifest[n]) \subseteq objects[n]
    /\ \A t \in Tasks : \A o \in Names : Uses(task[t], n, o) => o \in objects[n]
    /\ \A o \in Condemned(n) :
          o \notin Referenced(manifest[n]) /\ \A t \in Tasks : ~Uses(task[t], n, o)

WholeInv == \A n \in Namespaces \ torn : Whole(n)

\* The WAL object of a write that is not committed yet.
Pending(call, k) == call.op = "write" /\ call.phase = "cas" /\ call.name = k

\* A manifest or the objects that a call has in hand.
Carries(call, o) ==
    \/ call.op \in {"write", "compact", "branch"} /\ o \in Referenced(call.view)
    \/ call.op = "compact" /\ call.phase = "cas" /\ o \in call.names

\* The batch of such a write is nowhere else.
Alone(k) ==
    /\ holds[k] = {k}
    /\ \A o \in Names : k \in holds[o] => o = k
    /\ \A n \in Namespaces : k \notin Referenced(manifest[n]) /\ k \notin gone[n]
    /\ \A t \in Tasks : ~Carries(task[t], k)

\* A compaction under way has read nothing that was destroyed, and neither has
\* the manifest.
Apart(n) ==
    /\ Batches(manifest[n]) \cap gone[n] = {}
    /\ \A t \in Tasks : IsCompaction(task[t], n) /\ task[t].phase = "cas" =>
          \A o \in task[t].names : holds[o] \cap gone[n] = {}

PendingInv ==
    \A t \in Tasks : \A k \in Names : Pending(task[t], k) =>
        Alone(k) /\ \A u \in Tasks \ {t} : ~Pending(task[u], k)

ApartInv == \A n \in Namespaces \ outrun : Apart(n)

\* What a sweep found is deleted by it or spared, and gone where it spared none.
SweptInv ==
    /\ \A n \in seen : swept[n] \cap objects[n] = {}
    /\ sweep.ns \in Namespaces /\ sweep.phase = "list" =>
          sweep.garbage \cap sweep.referenced = {}
    /\ sweep.ns \in Namespaces /\ sweep.phase = "delete" =>
          sweep.garbage \cap objects[sweep.ns] \subseteq sweep.doomed \cup sweep.spared


---------------------------------------------------------------------------
\* Types.

LEMMA MoreNames ==
    ASSUME NEW N, NEW M, N \subseteq M
    PROVE  /\ Manifests(N) \subseteq Manifests(M)
           /\ Calls(N) \subseteq Calls(M)
           /\ Sweepings(N) \subseteq Sweepings(M)
<1>1. Manifests(N) \subseteq Manifests(M)
  BY DEF Manifests
<1>2. /\ ToPut(N) \subseteq ToPut(M) /\ ToCommit(N) \subseteq ToCommit(M)
      /\ ToBuild(N) \subseteq ToBuild(M) /\ ToFold(N) \subseteq ToFold(M)
  BY <1>1 DEF ToPut, ToCommit, ToBuild, ToFold
<1>3. ToBranch(N) \subseteq ToBranch(M) /\ ToDelete(N) \subseteq ToDelete(M)
  BY <1>1 DEF ToBranch, ToDelete
<1>4. Listing(N) \subseteq Listing(M) /\ Deleting(N) \subseteq Deleting(M)
  BY DEF Listing, Deleting
<1> QED
  BY <1>1, <1>2, <1>3, <1>4 DEF Calls, Sweepings

\* Which call it is can be told from its operation and phase.
LEMMA CallKinds ==
    ASSUME TypeOK, NEW t \in Tasks
    PROVE  /\ task[t].op = "write" /\ task[t].phase = "put" => task[t] \in ToPut(Names)
           /\ task[t].op = "write" /\ task[t].phase = "cas" => task[t] \in ToCommit(Names)
           /\ task[t].op = "compact" /\ task[t].phase = "read" => task[t] \in ToBuild(Names)
           /\ task[t].op = "compact" /\ task[t].phase = "cas" => task[t] \in ToFold(Names)
           /\ task[t].op = "branch" => task[t] \in ToBranch(Names)
           /\ task[t].op = "destroy" /\ task[t].phase = "list" => task[t] \in ToList
           /\ task[t].op = "destroy" /\ task[t].phase = "delete" => task[t] \in ToDelete(Names)
<1> DEFINE c == task[t]
<1>1. c \in Calls(Names)
  BY DEF TypeOK
<1> HIDE DEF c
<1>2. /\ c \in ToPut(Names) => c.op = "write" /\ c.phase = "put"
      /\ c \in ToCommit(Names) => c.op = "write" /\ c.phase = "cas"
      /\ c \in ToBuild(Names) => c.op = "compact" /\ c.phase = "read"
      /\ c \in ToFold(Names) => c.op = "compact" /\ c.phase = "cas"
      /\ c \in ToBranch(Names) => c.op = "branch"
      /\ c \in ToList => c.op = "destroy" /\ c.phase = "list"
      /\ c \in ToDelete(Names) => c.op = "destroy" /\ c.phase = "delete"
      /\ c = Idle => c.op = "idle"
  BY DEF ToPut, ToCommit, ToBuild, ToFold, ToBranch, ToList, ToDelete, Idle
<1>3. /\ c.op = "write" /\ c.phase = "put" => c \in ToPut(Names)
      /\ c.op = "write" /\ c.phase = "cas" => c \in ToCommit(Names)
      /\ c.op = "compact" /\ c.phase = "read" => c \in ToBuild(Names)
      /\ c.op = "compact" /\ c.phase = "cas" => c \in ToFold(Names)
      /\ c.op = "branch" => c \in ToBranch(Names)
      /\ c.op = "destroy" /\ c.phase = "list" => c \in ToList
      /\ c.op = "destroy" /\ c.phase = "delete" => c \in ToDelete(Names)
  BY <1>1, <1>2 DEF Calls
<1> QED
  BY <1>3 DEF c

LEMMA SweepKinds ==
    ASSUME TypeOK, sweep # Idle
    PROVE  /\ sweep.ns \in Namespaces
           /\ sweep.phase = "list" => sweep \in Listing(Names)
           /\ sweep.phase # "list" => sweep \in Deleting(Names) /\ sweep.phase = "delete"
<1>1. sweep \in Listing(Names) \/ sweep \in Deleting(Names)
  BY DEF TypeOK, Sweepings
<1>2. sweep \in Listing(Names) => sweep.ns \in Namespaces /\ sweep.phase = "list"
  BY DEF Listing
<1>3. sweep \in Deleting(Names) => sweep.ns \in Namespaces /\ sweep.phase = "delete"
  BY DEF Deleting
<1> QED
  BY <1>1, <1>2, <1>3

LEMMA InitType == Init => TypeOK
<1> SUFFICES ASSUME Init PROVE TypeOK
  OBVIOUS
<1>1. holds \in Seq(SUBSET Nat) /\ Names = {}
  BY EmptySeq DEF Init, Names
<1>2. NoManifest \in Manifests(Names)
  BY DEF NoManifest, Manifests
<1> QED
  BY <1>1, <1>2 DEF Init, TypeOK, Calls, Sweepings

LEMMA NewName ==
    ASSUME TypeOK
    PROVE  NextName \in Nat \ {0} /\ NextName \notin Names
  BY DEF TypeOK, NextName, Names

\* What a new object does to the names.
LEMMA NewObjectNames ==
    ASSUME TypeOK, NEW n \in Namespaces, NEW contents \in SUBSET (Names \cup {NextName}),
           NewObject(n, contents)
    PROVE  /\ Names' = Names \cup {NextName}
           /\ holds' \in Seq(SUBSET Nat)
           /\ \A o \in Names : holds'[o] = holds[o]
           /\ holds'[NextName] = contents
<1>1. holds \in Seq(SUBSET Nat) /\ Len(holds) \in Nat
  BY DEF TypeOK
<1>2. Names = 1..Len(holds) /\ NextName = Len(holds) + 1
  BY <1>1 DEF Names, NextName
<1>3. contents \in SUBSET Nat
  BY <1>1, <1>2
<1>4. holds' = Append(holds, contents)
  BY DEF NewObject
<1>5. /\ holds' \in Seq(SUBSET Nat) /\ Len(holds') = Len(holds) + 1
      /\ \A o \in 1..Len(holds) : holds'[o] = holds[o]
      /\ holds'[Len(holds) + 1] = contents
  BY <1>1, <1>3, <1>4, AppendProperties
<1>6. Names' = 1..Len(holds')
  BY <1>5 DEF Names
<1> QED
  BY <1>1, <1>2, <1>5, <1>6

\* What a put does to the sweep.
LEMMA PutSweep ==
    ASSUME TypeOK, NEW n \in Namespaces, NEW o, Put(n, o)
    PROVE  /\ sweep' \in Sweepings(Names)
           /\ sweep'.ns = sweep.ns
           /\ sweep # Idle => /\ sweep'.phase = sweep.phase
                              /\ sweep'.garbage \subseteq sweep.garbage
                              /\ sweep.ns = n => o \notin sweep'.garbage
           /\ sweep # Idle /\ sweep.phase = "list" =>
                 /\ sweep'.referenced = sweep.referenced
                 /\ sweep'.aged \subseteq sweep.aged
                 /\ sweep.ns = n => o \notin sweep'.aged
           /\ sweep # Idle /\ sweep.phase # "list" =>
                 sweep'.doomed = sweep.doomed /\ sweep'.spared = sweep.spared
<1>1. CASE sweep.ns # n
  BY <1>1 DEF Put, TypeOK
<1>2. CASE sweep.ns = n /\ sweep.phase = "list"
  <2>1. sweep # Idle
    BY <1>2, LifecycleAssumption DEF Idle
  <2>2. sweep \in Listing(Names)
    BY <1>2, <2>1, SweepKinds
  <2>3. sweep' = [sweep EXCEPT !.garbage = @ \ {o}, !.aged = @ \ {o}]
    BY <1>2 DEF Put
  <2> QED
    BY <1>2, <2>2, <2>3 DEF Listing, Sweepings
<1>3. CASE sweep.ns = n /\ sweep.phase # "list"
  <2>1. sweep # Idle
    BY <1>3, LifecycleAssumption DEF Idle
  <2>2. sweep \in Deleting(Names)
    BY <1>3, <2>1, SweepKinds
  <2>3. sweep' = [sweep EXCEPT !.garbage = @ \ {o}]
    BY <1>3 DEF Put
  <2> QED
    BY <1>3, <2>2, <2>3 DEF Deleting, Sweepings
<1> QED
  BY <1>1, <1>2, <1>3

\* A step that gives no names, changes one call at most and the manifests to
\* others, and leaves what it leaves.
LEMMA OldNamesType ==
    ASSUME TypeOK, UNCHANGED holds,
           manifest' \in [Namespaces -> Manifests(Names)],
           objects' \in [Namespaces -> SUBSET Names],
           task' \in [Tasks -> Calls(Names)],
           sweep' \in Sweepings(Names),
           seen' \subseteq Namespaces,
           gone' \in [Namespaces -> SUBSET Names],
           swept' \in [Namespaces -> SUBSET Names]
    PROVE  TypeOK'
<1>1. Names' = Names
  BY DEF Names
<1> QED
  BY <1>1 DEF TypeOK

LEMMA CallType ==
    ASSUME TypeOK, NEW t \in Tasks, NEW c \in Calls(Names), task' = [task EXCEPT ![t] = c]
    PROVE  task' \in [Tasks -> Calls(Names)]
  BY DEF TypeOK

LEMMA IdleType == Idle \in Calls(Names) /\ Idle \in Sweepings(Names)
  BY DEF Calls, Sweepings

LEMMA NoManifestType == NoManifest \in Manifests(Names) /\ Referenced(NoManifest) = {}
  BY DEF NoManifest, Manifests, Referenced

LEMMA Batches_Names ==
    ASSUME TypeOK, NEW m \in Manifests(Names)
    PROVE  Batches(m) \subseteq Names
  BY DEF TypeOK, Batches, Referenced, Manifests

LEMMA WriteType ==
    ASSUME TypeOK, NEW t \in Tasks,
           \/ \E n \in Namespaces : BeginWrite(t, n)
           \/ CommitWrite(t)
    PROVE  TypeOK'
<1>1. CASE \E n \in Namespaces : BeginWrite(t, n)
  <2>1. PICK n \in Namespaces : BeginWrite(t, n)
    BY <1>1
  <2>2. [op |-> "write", ns |-> n, phase |-> "put", view |-> manifest[n]] \in Calls(Names)
    BY DEF TypeOK, Calls, ToPut
  <2>3. task' = [task EXCEPT ![t] = [op |-> "write", ns |-> n, phase |-> "put",
                                    view |-> manifest[n]]]
    BY <2>1 DEF BeginWrite, Begin, Take
  <2>4. task' \in [Tasks -> Calls(Names)]
    BY <2>2, <2>3, CallType
  <2> QED
    BY <2>1, <2>4, OldNamesType DEF BeginWrite, TypeOK, storage
<1>2. CASE CommitWrite(t)
  <2> DEFINE c == task[t]
             n == task[t].ns
             m == [c.view EXCEPT !.exists = TRUE, !.wal = @ \cup {c.name}]
             again == [op |-> "write", ns |-> n, phase |-> "put", view |-> manifest[n]]
  <2>1. c \in ToCommit(Names)
    BY <1>2, CallKinds DEF CommitWrite
  <2>2. n \in Namespaces /\ m \in Manifests(Names)
    BY <2>1 DEF ToCommit, Manifests
  <2>3. again \in Calls(Names)
    BY <2>2 DEF TypeOK, Calls, ToPut
  <2>4. \/ manifest' = [manifest EXCEPT ![n] = m] /\ task' = [task EXCEPT ![t] = Idle]
        \/ manifest' = manifest /\ task' = [task EXCEPT ![t] = again]
    BY <1>2 DEF CommitWrite, Step
  <2> HIDE DEF m, again, c
  <2>5. manifest' \in [Namespaces -> Manifests(Names)]
    BY <2>2, <2>4 DEF TypeOK
  <2>6. task' \in [Tasks -> Calls(Names)]
    BY <2>3, <2>4, CallType, IdleType
  <2> QED
    BY <1>2, <2>5, <2>6, OldNamesType DEF CommitWrite, TypeOK, ghosts
<1> QED
  BY <1>1, <1>2

\* A new object, and the call that has put it.
LEMMA NewObjectType ==
    ASSUME TypeOK, NEW t \in Tasks, NEW n \in Namespaces,
           NEW contents \in SUBSET (Names \cup {NextName}),
           NewObject(n, contents),
           NEW c \in Calls(Names \cup {NextName}), task' = [task EXCEPT ![t] = c],
           UNCHANGED <<manifest, seen, gone>>
    PROVE  TypeOK'
<1>1. /\ Names' = Names \cup {NextName}
      /\ holds' \in Seq(SUBSET Nat)
      /\ \A o \in Names : holds'[o] = holds[o]
      /\ holds'[NextName] = contents
  BY NewObjectNames
<1>2. \A o \in Names' : holds'[o] \subseteq Names'
  BY <1>1 DEF TypeOK
<1>3. Put(n, NextName)
  BY DEF NewObject
<1>4. sweep' \in Sweepings(Names)
  BY <1>3, PutSweep
<1>5. objects' \in [Namespaces -> SUBSET Names'] /\ swept' \in [Namespaces -> SUBSET Names']
  BY <1>1, <1>3 DEF Put, TypeOK
<1>6. Manifests(Names) \subseteq Manifests(Names') /\ Calls(Names) \subseteq Calls(Names')
      /\ Sweepings(Names) \subseteq Sweepings(Names')
  <2>1. Names \subseteq Names'
    BY <1>1
  <2> QED
    BY <2>1, MoreNames
<1>7. manifest' \in [Namespaces -> Manifests(Names')] /\ sweep' \in Sweepings(Names')
  BY <1>4, <1>6 DEF TypeOK
<1>8. task' \in [Tasks -> Calls(Names')]
  BY <1>1, <1>6 DEF TypeOK
<1>9. gone' \in [Namespaces -> SUBSET Names'] /\ seen' \subseteq Namespaces
  BY <1>1 DEF TypeOK
<1> QED
  BY <1>1, <1>2, <1>5, <1>7, <1>8, <1>9 DEF TypeOK

LEMMA PutWalType ==
    ASSUME TypeOK, NEW t \in Tasks, PutWal(t)
    PROVE  TypeOK'
<1> DEFINE n == task[t].ns
           c == [op |-> "write", ns |-> n, phase |-> "cas", view |-> task[t].view,
                 name |-> NextName]
<1>1. task[t] \in ToPut(Names)
  BY CallKinds DEF PutWal
<1>2. n \in Namespaces /\ task[t].view \in Manifests(Names \cup {NextName})
  BY <1>1, MoreNames DEF ToPut
<1>3. c \in Calls(Names \cup {NextName})
  BY <1>2 DEF Calls, ToCommit
<1>4. NewObject(n, {NextName}) /\ task' = [task EXCEPT ![t] = c]
      /\ UNCHANGED <<manifest, seen, gone>>
  BY DEF PutWal, Step
<1> HIDE DEF c, n
<1> QED
  BY <1>2, <1>3, <1>4, NewObjectType

LEMMA CompactType ==
    ASSUME TypeOK, NEW t \in Tasks,
           \/ \E n \in Namespaces : BeginCompact(t, n)
           \/ BuildShards(t)
           \/ CommitCompact(t)
    PROVE  TypeOK'
<1>1. CASE \E n \in Namespaces : BeginCompact(t, n)
  <2>1. PICK n \in Namespaces : BeginCompact(t, n)
    BY <1>1
  <2> DEFINE c == [op |-> "compact", ns |-> n, phase |-> "read", view |-> manifest[n]]
  <2>2. c \in Calls(Names)
    BY DEF TypeOK, Calls, ToBuild
  <2>3. task' = task \/ task' = [task EXCEPT ![t] = c]
    BY <2>1 DEF BeginCompact, Begin, Take
  <2>4. sweep' \in Sweepings(Names)
    <3>1. sweep' = IF sweep = Idle THEN Idle ELSE [sweep EXCEPT !.current = FALSE]
      BY <2>1 DEF BeginCompact
    <3>2. sweep \in Listing(Names) => [sweep EXCEPT !.current = FALSE] \in Listing(Names)
      BY DEF Listing
    <3>3. sweep \in Deleting(Names) => [sweep EXCEPT !.current = FALSE] \in Deleting(Names)
      BY DEF Deleting
    <3> QED
      BY <3>1, <3>2, <3>3, SweepKinds, IdleType DEF Sweepings
  <2> HIDE DEF c
  <2>5. task' \in [Tasks -> Calls(Names)]
    BY <2>2, <2>3, CallType DEF TypeOK
  <2>6. seen' \subseteq Namespaces
    BY <2>1 DEF BeginCompact
  <2>7. UNCHANGED <<storage, gone, swept>>
    BY <2>1 DEF BeginCompact
  <2> QED
    BY <2>4, <2>5, <2>6, <2>7, OldNamesType DEF TypeOK, storage
<1>2. CASE BuildShards(t)
  <2> DEFINE n == task[t].ns
             found == Batches(manifest[n])
             built(names) == [op |-> "compact", ns |-> n, phase |-> "cas",
                              view |-> task[t].view, names |-> names]
  <2>1. task[t] \in ToBuild(Names)
    BY <1>2, CallKinds DEF BuildShards
  <2>2. n \in Namespaces /\ task[t].view \in Manifests(Names)
    BY <2>1 DEF ToBuild
  <2>3. found \in SUBSET (Names \cup {NextName})
    BY <2>2, Batches_Names DEF TypeOK
  <2>4. CASE found = {}
    <3>1. built({}) \in Calls(Names)
      BY <2>2 DEF Calls, ToFold
    <3>2. task' = [task EXCEPT ![t] = built({})] /\ UNCHANGED <<objects, holds, sweep, swept>>
          /\ UNCHANGED <<manifest, seen, gone>>
      BY <1>2, <2>4 DEF BuildShards, Step
    <3> HIDE DEF built
    <3>3. task' \in [Tasks -> Calls(Names)]
      BY <3>1, <3>2, CallType
    <3> QED
      BY <3>2, <3>3, OldNamesType DEF TypeOK
  <2>5. CASE found # {}
    <3>1. task[t].view \in Manifests(Names \cup {NextName})
      BY <2>2, MoreNames
    <3>2. built({NextName}) \in Calls(Names \cup {NextName})
      BY <2>2, <3>1 DEF Calls, ToFold
    <3>3. task' = [task EXCEPT ![t] = built({NextName})] /\ NewObject(n, found)
          /\ UNCHANGED <<manifest, seen, gone>>
      BY <1>2, <2>5 DEF BuildShards, Step
    <3> HIDE DEF built, n, found
    <3> QED
      BY <2>2, <2>3, <3>2, <3>3, NewObjectType
  <2> QED
    BY <2>4, <2>5
<1>3. CASE CommitCompact(t)
  <2> DEFINE c == task[t]
             n == task[t].ns
             m == [exists |-> TRUE, wal |-> manifest[n].wal \ c.view.wal,
                   built |-> TRUE, segments |-> c.names]
  <2>1. c \in ToFold(Names)
    BY <1>3, CallKinds DEF CommitCompact
  <2>2. n \in Namespaces /\ c.names \subseteq Names
    BY <2>1 DEF ToFold
  <2>3. m \in Manifests(Names)
    BY <2>2 DEF TypeOK, Manifests
  <2>4. manifest' = [manifest EXCEPT ![n] = m] \/ manifest' = manifest
    BY <1>3 DEF CommitCompact
  <2>5. task' = [task EXCEPT ![t] = Idle] /\ UNCHANGED <<objects, holds, sweep, seen, ghosts>>
    BY <1>3 DEF CommitCompact, Step
  <2> HIDE DEF m, c
  <2>6. manifest' \in [Namespaces -> Manifests(Names)]
    BY <2>2, <2>3, <2>4 DEF TypeOK
  <2>7. task' \in [Tasks -> Calls(Names)]
    BY <2>5, CallType, IdleType
  <2> QED
    BY <2>5, <2>6, <2>7, OldNamesType DEF TypeOK, ghosts
<1> QED
  BY <1>1, <1>2, <1>3

LEMMA BranchType ==
    ASSUME TypeOK, NEW t \in Tasks,
           \/ \E n, dest \in Namespaces : BeginBranch(t, n, dest)
           \/ HeadDestination(t)
           \/ \E o \in DOMAIN holds : Copy(t, o)
           \/ PutBranch(t)
    PROVE  TypeOK'
<1>1. CASE \E n, dest \in Namespaces : BeginBranch(t, n, dest)
  <2>1. PICK n, dest \in Namespaces : BeginBranch(t, n, dest)
    BY <1>1
  <2> DEFINE c == [op |-> "branch", ns |-> n, phase |-> "head", view |-> manifest[n],
                   dest |-> dest, rest |-> Referenced(manifest[n])]
  <2>2. c \in Calls(Names)
    BY DEF TypeOK, Calls, ToBranch, Referenced, Manifests
  <2>3. task' = [task EXCEPT ![t] = c] /\ UNCHANGED <<storage, sweep, seen, gone, swept>>
    BY <2>1 DEF BeginBranch, Begin, Take
  <2> HIDE DEF c
  <2>4. task' \in [Tasks -> Calls(Names)]
    BY <2>2, <2>3, CallType
  <2> QED
    BY <2>3, <2>4, OldNamesType DEF TypeOK, storage
<1>2. CASE HeadDestination(t)
  <2>1. task[t] \in ToBranch(Names)
    BY <1>2, CallKinds DEF HeadDestination
  <2>2. [task[t] EXCEPT !.phase = "copy"] \in Calls(Names)
    BY <2>1 DEF ToBranch, Calls
  <2>3. \E c \in Calls(Names) : task' = [task EXCEPT ![t] = c]
    BY <1>2, <2>2, IdleType DEF HeadDestination, Step
  <2>4. task' \in [Tasks -> Calls(Names)]
    BY <2>3, CallType
  <2> QED
    BY <1>2, <2>4, OldNamesType DEF HeadDestination, TypeOK, storage, ghosts
<1>3. CASE \E o \in DOMAIN holds : Copy(t, o)
  <2>1. PICK o \in Names : Copy(t, o)
    BY <1>3 DEF Names
  <2>2. task[t] \in ToBranch(Names)
    BY <2>1, CallKinds DEF Copy
  <2>3. task[t].dest \in Namespaces
    BY <2>2 DEF ToBranch
  <2>4. [task[t] EXCEPT !.rest = @ \ {o}] \in Calls(Names)
    BY <2>2 DEF ToBranch, Calls
  <2>5. task' \in [Tasks -> Calls(Names)]
    BY <2>1, <2>4, CallType DEF Copy, Step
  <2>6. Put(task[t].dest, o) /\ UNCHANGED <<manifest, holds, seen, gone>>
    BY <2>1 DEF Copy
  <2>7. objects' \in [Namespaces -> SUBSET Names] /\ swept' \in [Namespaces -> SUBSET Names]
    BY <2>3, <2>6 DEF Put, TypeOK
  <2>8. sweep' \in Sweepings(Names)
    BY <2>3, <2>6, PutSweep
  <2> QED
    BY <2>5, <2>6, <2>7, <2>8, OldNamesType DEF TypeOK
<1>4. CASE PutBranch(t)
  <2> DEFINE dest == task[t].dest
             copied == [task[t].view EXCEPT !.exists = TRUE]
  <2>1. task[t] \in ToBranch(Names)
    BY <1>4, CallKinds DEF PutBranch
  <2>2. dest \in Namespaces /\ copied \in Manifests(Names)
    BY <2>1 DEF ToBranch, Manifests
  <2>3. /\ manifest' = manifest \/ manifest' = [manifest EXCEPT ![dest] = copied]
        /\ gone' = gone \/ gone' = [gone EXCEPT ![dest] = @ \ Batches(copied)]
        /\ task' = [task EXCEPT ![t] = Idle]
        /\ UNCHANGED <<objects, holds, sweep, seen, swept>>
    BY <1>4 DEF PutBranch, Step
  <2> HIDE DEF dest, copied
  <2>4. manifest' \in [Namespaces -> Manifests(Names)]
    BY <2>2, <2>3 DEF TypeOK
  <2>5. gone' \in [Namespaces -> SUBSET Names]
    BY <2>2, <2>3 DEF TypeOK
  <2>6. task' \in [Tasks -> Calls(Names)]
    BY <2>3, CallType, IdleType
  <2> QED
    BY <2>3, <2>4, <2>5, <2>6, OldNamesType DEF TypeOK
<1> QED
  BY <1>1, <1>2, <1>3, <1>4

\* The deletions of a destroy, and its end.
Deletes(t) == (\E o \in Names : DeleteDoomed(t, o)) \/ DeleteEntry(t) \/ EndDestroy(t)

\* The call that does them goes on with less to delete, or ends.
LEMMA DeletingCall ==
    ASSUME TypeOK, NEW t \in Tasks, Deletes(t)
    PROVE  /\ task[t].ns \in Namespaces
           /\ IsDestroy(task[t], task[t].ns)
           /\ UNCHANGED <<holds, sweep, seen, swept>>
           /\ \E c \in {Idle} \cup ToDelete(Names) :
                 task' = [task EXCEPT ![t] = c] /\ c.ns \in {"none", task[t].ns}
<1>1. task[t] \in ToDelete(Names)
  BY CallKinds DEF Deletes, DeleteDoomed, DeleteEntry, EndDestroy
<1>2. task[t].ns \in Namespaces /\ IsDestroy(task[t], task[t].ns)
  BY <1>1 DEF ToDelete, IsDestroy
<1>3. CASE \E o \in Names : DeleteDoomed(t, o)
  <2>1. PICK o \in Names : DeleteDoomed(t, o)
    BY <1>3
  <2> DEFINE c == [task[t] EXCEPT !.doomed = @ \ {o}]
  <2>2. c \in ToDelete(Names) /\ c.ns = task[t].ns
    BY <1>1 DEF ToDelete
  <2>3. task' = [task EXCEPT ![t] = c] /\ UNCHANGED <<holds, sweep, seen, swept>>
    BY <2>1 DEF DeleteDoomed, Step, ghosts
  <2> HIDE DEF c
  <2> QED
    BY <1>2, <2>2, <2>3
<1>4. CASE DeleteEntry(t)
  <2> DEFINE c == [task[t] EXCEPT !.entry = FALSE]
  <2>1. c \in ToDelete(Names) /\ c.ns = task[t].ns
    BY <1>1 DEF ToDelete
  <2>2. task' = [task EXCEPT ![t] = c] /\ UNCHANGED <<holds, sweep, seen, swept>>
    BY <1>4 DEF DeleteEntry, Step
  <2> HIDE DEF c
  <2> QED
    BY <1>2, <2>1, <2>2
<1>5. CASE EndDestroy(t)
  <2>1. task' = [task EXCEPT ![t] = Idle] /\ UNCHANGED <<holds, sweep, seen, swept>>
    BY <1>5 DEF EndDestroy, storage
  <2>2. Idle.ns = "none"
    BY DEF Idle
  <2> QED
    BY <1>2, <2>1, <2>2
<1> QED
  BY <1>3, <1>4, <1>5 DEF Deletes

\* What they do to the namespace.
LEMMA DeletingState ==
    ASSUME TypeOK, NEW t \in Tasks, Deletes(t)
    PROVE  LET n == task[t].ns IN
           /\ objects' = objects \/ \E o \in Names : objects' = [objects EXCEPT ![n] = @ \ {o}]
           /\ \/ UNCHANGED <<manifest, gone, outrun>>
              \/ /\ manifest' = [manifest EXCEPT ![n] = NoManifest]
                 /\ gone' = [gone EXCEPT ![n] = @ \cup Batches(manifest[n])]
                 /\ outrun' = IF Compacting(n) THEN outrun \cup {n} ELSE outrun
  BY DEF Deletes, DeleteDoomed, DeleteEntry, EndDestroy, Delete, storage, ghosts

LEMMA DestroyType ==
    ASSUME TypeOK, NEW t \in Tasks,
           \/ \E n \in Namespaces : BeginDestroy(t, n)
           \/ ListDoomed(t)
           \/ Deletes(t)
    PROVE  TypeOK'
<1>1. CASE \E n \in Namespaces : BeginDestroy(t, n)
  <2>1. PICK n \in Namespaces : BeginDestroy(t, n)
    BY <1>1
  <2> DEFINE c == [op |-> "destroy", ns |-> n, phase |-> "list"]
  <2>2. c \in Calls(Names)
    BY DEF Calls, ToList
  <2>3. /\ task' = [task EXCEPT ![t] = c]
        /\ manifest' = manifest \/ manifest' = [manifest EXCEPT ![n] = NoManifest]
        /\ gone' = gone \/ gone' = [gone EXCEPT ![n] = @ \cup Batches(manifest[n])]
        /\ UNCHANGED <<objects, holds, sweep, seen, swept>>
    BY <2>1 DEF BeginDestroy, Take
  <2> HIDE DEF c
  <2>4. task' \in [Tasks -> Calls(Names)]
    BY <2>2, <2>3, CallType
  <2>5. manifest' \in [Namespaces -> Manifests(Names)]
    BY <2>3, NoManifestType DEF TypeOK
  <2>6. gone' \in [Namespaces -> SUBSET Names]
    BY <2>3, Batches_Names DEF TypeOK
  <2> QED
    BY <2>3, <2>4, <2>5, <2>6, OldNamesType DEF TypeOK
<1>2. CASE ListDoomed(t)
  <2> DEFINE n == task[t].ns
             c == [op |-> "destroy", ns |-> n, phase |-> "delete",
                   doomed |-> objects[n], entry |-> manifest[n].exists]
  <2>1. n \in Namespaces
    BY <1>2, CallKinds DEF ListDoomed, ToList
  <2>2. c \in Calls(Names)
    BY <2>1 DEF TypeOK, Calls, ToDelete, Manifests
  <2>3. task' = [task EXCEPT ![t] = c]
    BY <1>2 DEF ListDoomed, Step
  <2> HIDE DEF c
  <2>4. task' \in [Tasks -> Calls(Names)]
    BY <2>2, <2>3, CallType
  <2> QED
    BY <1>2, <2>4, OldNamesType DEF ListDoomed, TypeOK, storage, ghosts
<1>3. CASE Deletes(t)
  <2> DEFINE n == task[t].ns
  <2>1. n \in Namespaces /\ UNCHANGED <<holds, sweep, seen, swept>>
    BY <1>3, DeletingCall
  <2>2. \E c \in Calls(Names) : task' = [task EXCEPT ![t] = c]
    BY <1>3, DeletingCall DEF Calls
  <2>3. /\ manifest' = manifest \/ manifest' = [manifest EXCEPT ![n] = NoManifest]
        /\ gone' = gone \/ gone' = [gone EXCEPT ![n] = @ \cup Batches(manifest[n])]
        /\ objects' = objects \/ \E o \in Names : objects' = [objects EXCEPT ![n] = @ \ {o}]
    BY <1>3, DeletingState
  <2> HIDE DEF n
  <2>4. manifest' \in [Namespaces -> Manifests(Names)]
    BY <2>3, NoManifestType DEF TypeOK
  <2>5. gone' \in [Namespaces -> SUBSET Names]
    BY <2>1, <2>3, Batches_Names DEF TypeOK
  <2>6. objects' \in [Namespaces -> SUBSET Names]
    BY <2>3 DEF TypeOK
  <2>7. task' \in [Tasks -> Calls(Names)]
    BY <2>2, CallType
  <2> QED
    BY <2>1, <2>4, <2>5, <2>6, <2>7, OldNamesType DEF TypeOK
<1> QED
  BY <1>1, <1>2, <1>3

LEMMA SweepType ==
    ASSUME TypeOK, SweepStep
    PROVE  TypeOK'
<1>1. CASE \E n \in Namespaces : BeginSweep(n)
  <2>1. PICK n \in Namespaces : BeginSweep(n)
    BY <1>1
  <2>2. sweep' = [ns |-> n, phase |-> "list", referenced |-> Referenced(manifest[n]),
                  aged |-> objects[n] \ InUse(n), current |-> TRUE, garbage |-> Garbage(n)]
    BY <2>1 DEF BeginSweep
  <2>3. /\ Referenced(manifest[n]) \in SUBSET Names
        /\ objects[n] \ InUse(n) \in SUBSET Names
        /\ Garbage(n) \in SUBSET Names
    BY DEF TypeOK, Referenced, Manifests, Garbage
  <2>4. sweep' \in Sweepings(Names)
    BY <2>2, <2>3 DEF Sweepings, Listing
  <2> QED
    BY <2>1, <2>4, OldNamesType DEF BeginSweep, TypeOK, storage, ghosts
<1>2. CASE \E doomed \in SUBSET (DOMAIN holds) : ListGarbage(doomed)
  <2>1. PICK doomed \in SUBSET Names : ListGarbage(doomed)
    BY <1>2 DEF Names
  <2> DEFINE loose == objects[sweep.ns] \ sweep.referenced
  <2>2. sweep \in Listing(Names)
    BY <2>1, SweepKinds DEF ListGarbage
  <2>3. loose \ doomed \in SUBSET Names
    BY <2>2 DEF TypeOK, Listing
  <2>4. sweep' = [ns |-> sweep.ns, phase |-> "delete", doomed |-> doomed,
                  spared |-> loose \ doomed, current |-> sweep.current,
                  garbage |-> sweep.garbage]
    BY <2>1 DEF ListGarbage
  <2> HIDE DEF loose
  <2>5. sweep' \in Sweepings(Names)
    BY <2>2, <2>3, <2>4 DEF Sweepings, Listing, Deleting
  <2> QED
    BY <2>1, <2>5, OldNamesType DEF ListGarbage, TypeOK, storage, ghosts
<1>3. CASE \E o \in DOMAIN holds : DeleteGarbage(o)
  <2>1. PICK o : DeleteGarbage(o)
    BY <1>3
  <2>2. sweep \in Deleting(Names)
    BY <2>1, SweepKinds DEF DeleteGarbage
  <2>3. objects' \in [Namespaces -> SUBSET Names]
    BY <2>1 DEF DeleteGarbage, Delete, TypeOK
  <2>4. sweep' \in Sweepings(Names)
    BY <2>1, <2>2 DEF DeleteGarbage, Sweepings, Deleting
  <2> QED
    BY <2>1, <2>3, <2>4, OldNamesType DEF DeleteGarbage, TypeOK, ghosts
<1>4. CASE EndSweep
  <2>1. sweep \in Deleting(Names)
    BY <1>4, SweepKinds DEF EndSweep
  <2>2. seen' \subseteq Namespaces /\ swept' \in [Namespaces -> SUBSET Names]
    BY <1>4, <2>1 DEF EndSweep, Deleting, TypeOK
  <2>3. sweep' \in Sweepings(Names)
    BY <1>4, IdleType DEF EndSweep
  <2> QED
    BY <1>4, <2>2, <2>3, OldNamesType DEF EndSweep, TypeOK, storage
<1>5. CASE FailSweep
  BY <1>5, IdleType, OldNamesType DEF FailSweep, TypeOK, storage, ghosts
<1> QED
  BY <1>1, <1>2, <1>3, <1>4, <1>5 DEF SweepStep

LEMMA OtherType ==
    ASSUME TypeOK,
           \/ \E t \in Tasks : Fail(t)
           \/ \E n \in Namespaces : EvictIdle(n)
           \/ Restart
           \/ UNCHANGED vars
    PROVE  TypeOK'
<1>1. CASE \E t \in Tasks : Fail(t)
  <2>1. task' \in [Tasks -> Calls(Names)]
    BY <1>1, CallType, IdleType DEF Fail
  <2> QED
    BY <1>1, <2>1, OldNamesType DEF Fail, TypeOK, storage, ghosts
<1>2. CASE \E n \in Namespaces : EvictIdle(n)
  BY <1>2, OldNamesType DEF EvictIdle, TypeOK, storage, ghosts
<1>3. CASE Restart
  <2>1. task' \in [Tasks -> Calls(Names)]
    BY <1>3, IdleType DEF Restart
  <2>2. sweep' \in Sweepings(Names) /\ seen' \subseteq Namespaces
    BY <1>3, IdleType DEF Restart
  <2> QED
    BY <1>3, <2>1, <2>2, OldNamesType DEF Restart, TypeOK, storage, ghosts
<1>4. CASE UNCHANGED vars
  BY <1>4, OldNamesType DEF TypeOK, vars, storage, ghosts
<1> QED
  BY <1>1, <1>2, <1>3, <1>4

LEMMA NextType == TypeOK /\ [Next]_vars => TypeOK'
<1> SUFFICES ASSUME TypeOK, [Next]_vars PROVE TypeOK'
  OBVIOUS
<1>1. ASSUME NEW t \in Tasks, TaskStep(t) PROVE TypeOK'
  BY <1>1, WriteType, PutWalType, CompactType, BranchType, DestroyType, OtherType
     DEF TaskStep, Deletes, Names
<1> QED
  BY <1>1, SweepType, OtherType DEF Next

LEMMA TypeInvariant == Spec => []TypeOK
  BY InitType, NextType, PTL DEF Spec

---------------------------------------------------------------------------
\* What the collector passes over.

\* A step that puts nothing and leaves the sweep or ends it.
LEMMA SweptLeft ==
    ASSUME TypeOK, SweptInv,
           \A n \in Namespaces : objects'[n] \subseteq objects[n],
           sweep' = sweep \/ sweep' = Idle,
           seen' \subseteq seen, UNCHANGED swept
    PROVE  SweptInv'
<1>1. \A n \in seen' : swept'[n] \cap objects'[n] = {}
  BY DEF SweptInv, TypeOK
<1>2. sweep' = Idle => sweep'.ns \notin Namespaces
  BY LifecycleAssumption DEF Idle
<1>3. CASE sweep' = sweep
  BY <1>1, <1>3 DEF SweptInv
<1>4. CASE sweep' = Idle
  BY <1>1, <1>2, <1>4 DEF SweptInv
<1> QED
  BY <1>3, <1>4

\* What is put anew is not what a sweep has found.
LEMMA SweptPut ==
    ASSUME TypeOK, SweptInv, NEW n \in Namespaces, NEW o, Put(n, o), UNCHANGED seen
    PROVE  SweptInv'
<1>1. \A m \in Namespaces : /\ objects'[m] \subseteq objects[m] \cup {o}
                            /\ m # n => objects'[m] = objects[m]
                            /\ swept'[m] \subseteq swept[m]
                            /\ m = n => o \notin swept'[m]
  BY DEF Put, TypeOK
<1>2. \A m \in seen' : swept'[m] \cap objects'[m] = {}
  BY <1>1 DEF SweptInv, TypeOK
<1>3. CASE sweep = Idle
  <2>1. sweep'.ns \notin Namespaces
    BY <1>3, PutSweep, LifecycleAssumption DEF Idle
  <2> QED
    BY <1>2, <2>1 DEF SweptInv
<1>4. CASE sweep # Idle
  <2>1. /\ sweep'.ns = sweep.ns /\ sweep'.phase = sweep.phase
        /\ sweep'.garbage \subseteq sweep.garbage
        /\ sweep.ns = n => o \notin sweep'.garbage
        /\ sweep.phase = "list" => sweep'.referenced = sweep.referenced
        /\ sweep.phase # "list" => sweep'.doomed = sweep.doomed /\ sweep'.spared = sweep.spared
    BY <1>4, PutSweep
  <2>2. sweep'.phase = "list" => sweep'.garbage \cap sweep'.referenced = {}
    BY <1>4, <2>1, SweepKinds DEF SweptInv
  <2>3. sweep'.phase = "delete" =>
            sweep'.garbage \cap objects'[sweep'.ns] \subseteq sweep'.doomed \cup sweep'.spared
    BY <1>1, <1>4, <2>1, SweepKinds DEF SweptInv
  <2> QED
    BY <1>2, <2>2, <2>3 DEF SweptInv
<1> QED
  BY <1>3, <1>4

LEMMA SweptByTask ==
    ASSUME TypeOK, SweptInv, NEW t \in Tasks, TaskStep(t)
    PROVE  SweptInv'
<1>1. CASE \E n \in Namespaces : BeginWrite(t, n) \/ BeginDestroy(t, n)
                                  \/ \E dest \in Namespaces : BeginBranch(t, n, dest)
  <2>1. UNCHANGED <<objects, sweep, seen, swept>>
    BY <1>1 DEF BeginWrite, BeginDestroy, BeginBranch, storage
  <2> QED
    BY <2>1, SweptLeft
<1>2. CASE \E n \in Namespaces : BeginCompact(t, n)
  <2>1. /\ UNCHANGED <<objects, swept>> /\ seen' = {}
        /\ sweep' = IF sweep = Idle THEN Idle ELSE [sweep EXCEPT !.current = FALSE]
    BY <1>2 DEF BeginCompact, storage
  <2>2. CASE sweep = Idle
    BY <2>1, <2>2, SweptLeft
  <2>3. CASE sweep # Idle /\ sweep.phase = "list"
    <3>1. sweep \in Listing(Names)
      BY <2>3, SweepKinds
    <3>2. /\ sweep'.phase = "list" /\ sweep'.garbage = sweep.garbage
          /\ sweep'.referenced = sweep.referenced /\ sweep'.ns = sweep.ns
      BY <2>1, <2>3, <3>1 DEF Listing
    <3> QED
      BY <2>1, <2>3, <3>2 DEF SweptInv
  <2>4. CASE sweep # Idle /\ sweep.phase # "list"
    <3>1. sweep \in Deleting(Names)
      BY <2>4, SweepKinds
    <3>2. /\ sweep'.phase = "delete" /\ sweep.phase = "delete"
          /\ sweep'.garbage = sweep.garbage /\ sweep'.ns = sweep.ns
          /\ sweep'.doomed = sweep.doomed /\ sweep'.spared = sweep.spared
      BY <2>1, <2>4, <3>1 DEF Deleting
    <3> QED
      BY <2>1, <2>4, <3>2 DEF SweptInv
  <2> QED
    BY <2>2, <2>3, <2>4
<1>3. CASE PutWal(t)
  <2>1. task[t].ns \in Namespaces
    BY <1>3, CallKinds DEF PutWal, ToPut
  <2>2. Put(task[t].ns, NextName) /\ UNCHANGED seen
    BY <1>3 DEF PutWal, NewObject
  <2> QED
    BY <2>1, <2>2, SweptPut
<1>4. CASE BuildShards(t)
  <2>1. task[t].ns \in Namespaces
    BY <1>4, CallKinds DEF BuildShards, ToBuild
  <2>2. UNCHANGED seen /\ (Put(task[t].ns, NextName) \/ UNCHANGED <<objects, sweep, swept>>)
    BY <1>4 DEF BuildShards, NewObject
  <2> QED
    BY <2>1, <2>2, SweptPut, SweptLeft
<1>5. CASE \E o \in DOMAIN holds : Copy(t, o)
  <2>1. PICK o : Copy(t, o)
    BY <1>5
  <2>2. task[t].dest \in Namespaces
    BY <2>1, CallKinds DEF Copy, ToBranch
  <2>3. Put(task[t].dest, o) /\ UNCHANGED seen
    BY <2>1 DEF Copy
  <2> QED
    BY <2>2, <2>3, SweptPut
<1>6. CASE CommitWrite(t) \/ CommitCompact(t) \/ HeadDestination(t) \/ PutBranch(t)
            \/ ListDoomed(t) \/ Fail(t)
  <2>1. UNCHANGED <<objects, sweep, seen, swept>>
    BY <1>6 DEF CommitWrite, CommitCompact, HeadDestination, PutBranch, ListDoomed, Fail,
                storage, ghosts
  <2> QED
    BY <2>1, SweptLeft
<1>7. CASE Deletes(t)
  <2>1. \A n \in Namespaces : objects'[n] \subseteq objects[n]
    BY <1>7, DeletingState DEF TypeOK
  <2> QED
    BY <1>7, <2>1, DeletingCall, SweptLeft
<1> QED
  BY <1>1, <1>2, <1>3, <1>4, <1>5, <1>6, <1>7 DEF TaskStep, Deletes, Names

LEMMA SweptBySweep ==
    ASSUME TypeOK, SweptInv, SweepStep
    PROVE  SweptInv'
<1>1. CASE \E n \in Namespaces : BeginSweep(n)
  <2>1. PICK n \in Namespaces : BeginSweep(n)
    BY <1>1
  <2>2. sweep' = [ns |-> n, phase |-> "list", referenced |-> Referenced(manifest[n]),
                  aged |-> objects[n] \ InUse(n), current |-> TRUE, garbage |-> Garbage(n)]
        /\ UNCHANGED <<objects, seen, swept>>
    BY <2>1 DEF BeginSweep, storage, ghosts
  <2>3. /\ sweep'.phase = "list" /\ sweep'.garbage = objects[n] \ Referenced(manifest[n])
        /\ sweep'.referenced = Referenced(manifest[n])
    BY <2>2 DEF Garbage
  <2> QED
    BY <2>2, <2>3 DEF SweptInv
<1>2. CASE \E doomed \in SUBSET (DOMAIN holds) : ListGarbage(doomed)
  <2>1. PICK doomed : ListGarbage(doomed)
    BY <1>2
  <2>2. sweep \in Listing(Names) /\ sweep.phase = "list" /\ sweep.ns \in Namespaces
    BY <2>1, SweepKinds DEF ListGarbage
  <2>3. /\ sweep'.ns = sweep.ns /\ sweep'.phase = "delete" /\ sweep'.garbage = sweep.garbage
        /\ sweep'.doomed = doomed
        /\ sweep'.spared = (objects[sweep.ns] \ sweep.referenced) \ doomed
        /\ UNCHANGED <<objects, seen, swept>>
    BY <2>1 DEF ListGarbage, storage, ghosts
  <2>4. sweep.garbage \cap sweep.referenced = {}
    BY <2>2 DEF SweptInv
  <2> QED
    BY <2>2, <2>3, <2>4 DEF SweptInv
<1>3. CASE \E o \in DOMAIN holds : DeleteGarbage(o)
  <2>1. PICK o : DeleteGarbage(o)
    BY <1>3
  <2>2. sweep \in Deleting(Names) /\ sweep.ns \in Namespaces /\ sweep.phase = "delete"
    BY <2>1, SweepKinds DEF DeleteGarbage
  <2>3. /\ sweep'.ns = sweep.ns /\ sweep'.phase = "delete" /\ sweep'.garbage = sweep.garbage
        /\ sweep'.doomed = sweep.doomed \ {o} /\ sweep'.spared = sweep.spared
    BY <2>1, <2>2 DEF DeleteGarbage, Deleting
  <2>4. objects' = [objects EXCEPT ![sweep.ns] = @ \ {o}] /\ UNCHANGED <<seen, swept>>
    BY <2>1 DEF DeleteGarbage, Delete, ghosts
  <2>5. sweep.garbage \cap objects[sweep.ns] \subseteq sweep.doomed \cup sweep.spared
    BY <2>2 DEF SweptInv
  <2>6. sweep'.garbage \cap objects'[sweep'.ns] \subseteq sweep'.doomed \cup sweep'.spared
    BY <2>2, <2>3, <2>4, <2>5 DEF TypeOK
  <2>7. \A n \in seen' : swept'[n] \cap objects'[n] = {}
    BY <2>4 DEF TypeOK, SweptInv
  <2> QED
    BY <2>3, <2>6, <2>7 DEF SweptInv
<1>4. CASE EndSweep
  <2> DEFINE n == sweep.ns
  <2>1. n \in Namespaces /\ sweep.phase = "delete"
    BY <1>4, SweepKinds DEF EndSweep
  <2>2. sweep.garbage \cap objects[n] \subseteq sweep.spared
    BY <1>4, <2>1 DEF EndSweep, SweptInv
  <2>3. /\ objects' = objects
        /\ sweep' = Idle
        /\ \/ seen' = seen /\ swept' = swept
           \/ /\ sweep.spared = {} /\ seen' = seen \cup {n}
              /\ swept' = [swept EXCEPT ![n] = sweep.garbage]
    BY <1>4 DEF EndSweep, Done, storage
  <2>4. \A m \in seen' : swept'[m] \cap objects'[m] = {}
    BY <2>1, <2>2, <2>3 DEF TypeOK, SweptInv
  <2>5. sweep'.ns \notin Namespaces
    BY <2>3, LifecycleAssumption DEF Idle
  <2> QED
    BY <2>4, <2>5 DEF SweptInv
<1>5. CASE FailSweep
  <2>1. sweep' = Idle /\ UNCHANGED <<objects, seen, swept>>
    BY <1>5 DEF FailSweep, storage, ghosts
  <2> QED
    BY <2>1, SweptLeft
<1> QED
  BY <1>1, <1>2, <1>3, <1>4, <1>5 DEF SweepStep

LEMMA SweptNext == TypeOK /\ SweptInv /\ [Next]_vars => SweptInv'
<1> SUFFICES ASSUME TypeOK, SweptInv, [Next]_vars PROVE SweptInv'
  OBVIOUS
<1>1. CASE Restart
  BY <1>1, SweptLeft DEF Restart, storage, ghosts
<1>2. CASE \E n \in Namespaces : EvictIdle(n)
  BY <1>2, SweptLeft DEF EvictIdle, storage, ghosts
<1>3. CASE UNCHANGED vars
  BY <1>3, SweptLeft DEF vars, storage, ghosts
<1> QED
  BY <1>1, <1>2, <1>3, SweptByTask, SweptBySweep DEF Next

\* A namespace that the collector passes over has none of the garbage left that
\* its last sweep of it found (collect_once marks it only if nothing was spared).
THEOREM PassedOverIsClean == Spec => []SkippedIsClean
<1>1. Init => SweptInv
  BY LifecycleAssumption DEF Init, SweptInv, Idle
<1>2. TypeOK /\ SweptInv => SkippedIsClean
  BY DEF TypeOK, SweptInv, SkippedIsClean, Garbage
<1> QED
  BY <1>1, <1>2, SweptNext, TypeInvariant, PTL DEF Spec

---------------------------------------------------------------------------
\* Manifests and the objects they name.

LEMMA UsesKnown ==
    ASSUME TypeOK, NEW t \in Tasks, NEW n \in Namespaces, NEW o, Uses(task[t], n, o)
    PROVE  o \in Names /\ Changes(task[t], n)
<1>1. CASE task[t].op = "write" /\ task[t].phase = "cas" /\ task[t].ns = n /\ o = task[t].name
  BY <1>1, CallKinds DEF ToCommit, Changes
<1>2. CASE IsCompaction(task[t], n) /\ task[t].phase = "cas" /\ o \in task[t].names
  BY <1>2, CallKinds DEF ToFold, Changes, IsCompaction
<1>3. CASE task[t].op = "branch" /\ task[t].dest = n
              /\ o \in Referenced(task[t].view) \ task[t].rest
  BY <1>3, CallKinds DEF ToBranch, Changes, Referenced, Manifests
<1> QED
  BY <1>1, <1>2, <1>3 DEF Uses

LEMMA CondemnedKnown ==
    ASSUME TypeOK, NEW n \in Namespaces
    PROVE  /\ Condemned(n) \subseteq Names
           /\ sweep = Idle => Condemned(n) = {}
<1>1. sweep = Idle => Condemned(n) = {}
  BY LifecycleAssumption DEF Condemned, Idle
<1>2. sweep # Idle => Condemned(n) \subseteq Names
  BY SweepKinds DEF Condemned, Listing, Deleting
<1> QED
  BY <1>1, <1>2

LEMMA CondemnedPut ==
    ASSUME TypeOK, NEW m \in Namespaces, NEW o, Put(m, o), NEW n \in Namespaces
    PROVE  Condemned(n)' \subseteq Condemned(n)
<1>1. CASE sweep.ns # n
  BY <1>1, PutSweep DEF Condemned
<1>2. CASE sweep.ns = n
  <2>1. sweep # Idle
    BY <1>2, LifecycleAssumption DEF Idle
  <2> QED
    BY <1>2, <2>1, PutSweep DEF Condemned
<1> QED
  BY <1>1, <1>2

LEMMA IdleUses ==
    ASSUME NEW n, NEW o
    PROVE  /\ ~Uses(Idle, n, o) /\ ~Changes(Idle, n) /\ ~IsDestroy(Idle, n)
  BY DEF Uses, Changes, IsDestroy, IsCompaction, Idle

\* A step that replaces one call.
LEMMA WholeStep ==
    ASSUME TypeOK, Names \subseteq Names', NEW n \in Namespaces, Whole(n),
           NEW t \in Tasks, NEW c, task' = [task EXCEPT ![t] = c],
           Destroying(n) => ~Changes(c, n) /\ Referenced(manifest'[n]) = {},
           IsDestroy(c, n) => /\ ~Changes(c, n) /\ Referenced(manifest'[n]) = {}
                              /\ ~Changing(n),
           Referenced(manifest'[n]) \subseteq objects'[n],
           \A u \in Tasks : \A o \in Names :
                Uses(task[u], n, o) /\ u # t => o \in objects'[n],
           \A o \in Names' : Uses(c, n, o) => o \in objects'[n],
           \A o \in Condemned(n)' :
                o \in Condemned(n) /\ o \notin Referenced(manifest'[n]) /\ ~Uses(c, n, o)
    PROVE  Whole(n)'
<1>1. \A u \in Tasks : task'[u] = IF u = t THEN c ELSE task[u]
  BY DEF TypeOK
<1>2. (Destroying(n) => Referenced(manifest[n]) = {} /\ ~Changing(n))'
  <2> SUFFICES ASSUME NEW u \in Tasks, IsDestroy(task'[u], n)
               PROVE  /\ Referenced(manifest'[n]) = {}
                      /\ \A v \in Tasks : ~Changes(task'[v], n)
    BY DEF Destroying, Changing, Referenced, IsDestroy, Changes
  <2>1. Destroying(n) \/ IsDestroy(c, n)
    BY <1>1 DEF Destroying
  <2>2. Referenced(manifest'[n]) = {} /\ ~Changes(c, n) /\ ~Changing(n)
    BY <2>1 DEF Whole
  <2> QED
    BY <1>1, <2>2 DEF Changing
<1>3. (Referenced(manifest[n]) \subseteq objects[n])'
  BY DEF Referenced
<1>4. \A u \in Tasks : \A o \in Names' : Uses(task'[u], n, o) => o \in objects'[n]
  <2> SUFFICES ASSUME NEW u \in Tasks, NEW o \in Names', Uses(task'[u], n, o)
               PROVE  o \in objects'[n]
    OBVIOUS
  <2>1. CASE u = t
    BY <1>1, <2>1
  <2>2. CASE u # t
    BY <1>1, <2>2, UsesKnown
  <2> QED
    BY <2>1, <2>2
<1>5. \A o \in Condemned(n)' :
          o \notin Referenced(manifest'[n]) /\ \A u \in Tasks : ~Uses(task'[u], n, o)
  BY <1>1 DEF Whole
<1> QED
  BY <1>2, <1>3, <1>4, <1>5 DEF Whole, Uses, Referenced, IsCompaction

\* A step in which a call ends, or goes on to refer to no more, and nothing else
\* happens to the namespace.
LEMMA WholeQuiet ==
    ASSUME TypeOK, NEW n \in Namespaces, Whole(n), UNCHANGED <<holds, objects, sweep>>,
           Referenced(manifest'[n]) = Referenced(manifest[n]),
           NEW t \in Tasks, NEW c, task' = [task EXCEPT ![t] = c],
           Changes(c, n) => Changes(task[t], n) \/ ~Destroying(n),
           IsDestroy(c, n) => IsDestroy(task[t], n) /\ ~Changes(c, n),
           \A o : Uses(c, n, o) => Uses(task[t], n, o)
    PROVE  Whole(n)'
<1>1. Names' = Names /\ Condemned(n)' = Condemned(n)
  BY DEF Names, Condemned
<1>2. Changes(task[t], n) => Changing(n)
  BY DEF Changing
<1>3. IsDestroy(task[t], n) => Destroying(n)
  BY DEF Destroying
<1>4. /\ Destroying(n) => Referenced(manifest[n]) = {} /\ ~Changing(n)
      /\ Referenced(manifest[n]) \subseteq objects[n]
      /\ \A u \in Tasks : \A o \in Names : Uses(task[u], n, o) => o \in objects[n]
      /\ \A o \in Condemned(n) :
            o \notin Referenced(manifest[n]) /\ \A u \in Tasks : ~Uses(task[u], n, o)
  BY Zenon DEF Whole
<1>5. \A o \in Names' : Uses(c, n, o) => o \in objects'[n]
  BY <1>1, <1>4
<1>6. \A o \in Condemned(n)' :
          o \in Condemned(n) /\ o \notin Referenced(manifest'[n]) /\ ~Uses(c, n, o)
  BY <1>1, <1>4
<1> QED
  BY <1>1, <1>2, <1>3, <1>4, <1>5, <1>6, WholeStep

LEMMA WholeIdle ==
    ASSUME TypeOK, NEW n \in Namespaces, Whole(n), UNCHANGED <<holds, objects, sweep, manifest>>,
           NEW t \in Tasks, task' = [task EXCEPT ![t] = Idle]
    PROVE  Whole(n)'
<1>1. Referenced(manifest'[n]) = Referenced(manifest[n])
  OBVIOUS
<1> QED
  BY <1>1, IdleUses, WholeQuiet

LEMMA WholeBegin ==
    ASSUME TypeOK, WholeInv, NEW t \in Tasks, NEW m \in Namespaces,
           BeginWrite(t, m) \/ BeginCompact(t, m), NEW n \in Namespaces \ torn'
    PROVE  Whole(n)'
<1>1. Whole(n)
  BY DEF BeginWrite, BeginCompact, WholeInv
<1>2. n = m => ~Destroying(n)
  BY DEF BeginWrite, BeginCompact
<1>3. CASE BeginWrite(t, m)
  <2> DEFINE c == [op |-> "write", ns |-> m, phase |-> "put", view |-> manifest[m]]
  <2>1. /\ Changes(c, n) => n = m
        /\ ~IsDestroy(c, n)
        /\ \A o : ~Uses(c, n, o)
    BY DEF Changes, IsDestroy, Uses, IsCompaction
  <2>2. task' = [task EXCEPT ![t] = c] /\ UNCHANGED <<holds, objects, sweep, manifest>>
    BY <1>3 DEF BeginWrite, Begin, Take, storage
  <2> HIDE DEF c
  <2> QED
    BY <1>1, <1>2, <2>1, <2>2, WholeQuiet
<1>4. CASE BeginCompact(t, m)
  <2> DEFINE c == [op |-> "compact", ns |-> m, phase |-> "read", view |-> manifest[m]]
  <2>1. /\ Changes(c, n) => n = m
        /\ ~IsDestroy(c, n)
        /\ \A o : ~Uses(c, n, o)
    BY DEF Changes, IsDestroy, Uses, IsCompaction
  <2>2. task' = [task EXCEPT ![t] = c] \/ task' = [task EXCEPT ![t] = Idle]
    BY <1>4 DEF BeginCompact, Begin, Take, TypeOK
  <2>3. UNCHANGED <<holds, objects, manifest>> /\ Names' = Names
    BY <1>4 DEF BeginCompact, storage, Names
  <2>4. Condemned(n)' = Condemned(n)
    <3>1. sweep' = IF sweep = Idle THEN Idle ELSE [sweep EXCEPT !.current = FALSE]
      BY <1>4 DEF BeginCompact
    <3>2. CASE sweep = Idle
      BY <3>1, <3>2 DEF Condemned
    <3>3. CASE sweep \in Listing(Names)
      BY <3>1, <3>3 DEF Condemned, Listing, Idle
    <3>4. CASE sweep \in Deleting(Names)
      BY <3>1, <3>4 DEF Condemned, Deleting, Idle
    <3> QED
      BY <3>2, <3>3, <3>4, SweepKinds
  <2>5. PICK d : task' = [task EXCEPT ![t] = d] /\ (Changes(d, n) => n = m)
                 /\ ~IsDestroy(d, n) /\ \A o : ~Uses(d, n, o)
    BY <2>1, <2>2, IdleUses
  <2>6. /\ Destroying(n) => Referenced(manifest[n]) = {}
        /\ Referenced(manifest[n]) \subseteq objects[n]
        /\ \A u \in Tasks : \A o \in Names : Uses(task[u], n, o) => o \in objects[n]
        /\ \A o \in Condemned(n) : o \notin Referenced(manifest[n])
    BY <1>1, Zenon DEF Whole
  <2> HIDE DEF c
  <2> QED
    BY <1>1, <1>2, <2>3, <2>4, <2>5, <2>6, WholeStep
<1> QED
  BY <1>3, <1>4

\* A call that puts an object under a name that was not given before.
LEMMA WholeNewObject ==
    ASSUME TypeOK, NEW n \in Namespaces, Whole(n), NEW t \in Tasks, NEW c,
           task' = [task EXCEPT ![t] = c], UNCHANGED manifest,
           NEW m \in Namespaces, NEW contents \in SUBSET (Names \cup {NextName}),
           NewObject(m, contents),
           Changes(c, n) => Changes(task[t], n), ~IsDestroy(c, n),
           \A o : Uses(c, n, o) => n = m /\ o = NextName
    PROVE  Whole(n)'
<1>1. Names' = Names \cup {NextName} /\ NextName \notin Names
  BY NewObjectNames, NewName
<1>2. Put(m, NextName)
  BY DEF NewObject
<1>3. objects[n] \subseteq objects'[n] /\ (n = m => NextName \in objects'[n])
  BY <1>2 DEF Put, TypeOK
<1>4. /\ Destroying(n) => Referenced(manifest[n]) = {} /\ ~Changing(n)
      /\ Referenced(manifest[n]) \subseteq objects[n]
      /\ \A u \in Tasks : \A o \in Names : Uses(task[u], n, o) => o \in objects[n]
      /\ \A o \in Condemned(n) : o \notin Referenced(manifest[n])
  BY Zenon DEF Whole
<1>5. Changes(task[t], n) => Changing(n)
  BY DEF Changing
<1>6. \A o \in Condemned(n)' : o \in Condemned(n) /\ ~Uses(c, n, o)
  BY <1>1, <1>2, CondemnedPut, CondemnedKnown
<1>7. \A o \in Names' : Uses(c, n, o) => o \in objects'[n]
  BY <1>3
<1> QED
  BY <1>1, <1>3, <1>4, <1>5, <1>6, <1>7, WholeStep

LEMMA WholePutWal ==
    ASSUME TypeOK, WholeInv, NEW t \in Tasks, PutWal(t), NEW n \in Namespaces \ torn'
    PROVE  Whole(n)'
<1> DEFINE m == task[t].ns
           c == [op |-> "write", ns |-> m, phase |-> "cas", view |-> task[t].view,
                 name |-> NextName]
<1>1. m \in Namespaces /\ task[t].op = "write"
  BY CallKinds DEF PutWal, ToPut
<1>2. /\ Changes(c, n) => Changes(task[t], n)
      /\ ~IsDestroy(c, n)
      /\ \A o : Uses(c, n, o) => n = m /\ o = NextName
  BY <1>1 DEF Changes, IsDestroy, Uses, IsCompaction
<1>3. NewObject(m, {NextName}) /\ task' = [task EXCEPT ![t] = c] /\ UNCHANGED manifest
  BY DEF PutWal, Step
<1>4. Whole(n)
  BY DEF PutWal, WholeInv
<1> HIDE DEF c, m
<1> QED
  BY <1>1, <1>2, <1>3, <1>4, WholeNewObject

LEMMA WholeBuildShards ==
    ASSUME TypeOK, WholeInv, NEW t \in Tasks, BuildShards(t), NEW n \in Namespaces \ torn'
    PROVE  Whole(n)'
<1> DEFINE m == task[t].ns
           found == Batches(manifest[m])
           built(names) == [op |-> "compact", ns |-> m, phase |-> "cas",
                            view |-> task[t].view, names |-> names]
<1>1. m \in Namespaces /\ task[t].op = "compact"
  BY CallKinds DEF BuildShards, ToBuild
<1>2. \A names : /\ Changes(built(names), n) => Changes(task[t], n)
                 /\ ~IsDestroy(built(names), n)
                 /\ \A o : Uses(built(names), n, o) => n = m /\ o \in names
  BY <1>1 DEF Changes, IsDestroy, Uses, IsCompaction
<1>3. Whole(n)
  BY DEF BuildShards, WholeInv
<1>4. CASE found = {}
  <2>1. task' = [task EXCEPT ![t] = built({})] /\ UNCHANGED <<manifest, holds, objects, sweep>>
    BY <1>4 DEF BuildShards, Step
  <2>2. \A o : ~Uses(built({}), n, o)
    BY <1>2
  <2> HIDE DEF built
  <2> QED
    BY <1>2, <1>3, <2>1, <2>2, WholeQuiet
<1>5. CASE found # {}
  <2>1. task' = [task EXCEPT ![t] = built({NextName})] /\ NewObject(m, found)
        /\ UNCHANGED manifest
    BY <1>5 DEF BuildShards, Step
  <2>2. found \in SUBSET (Names \cup {NextName})
    BY <1>1, Batches_Names DEF TypeOK
  <2>3. \A o : Uses(built({NextName}), n, o) => n = m /\ o = NextName
    BY <1>2
  <2> HIDE DEF built, m, found
  <2> QED
    BY <1>1, <1>2, <1>3, <2>1, <2>2, <2>3, WholeNewObject
<1> QED
  BY <1>4, <1>5

\* A commit writes what its namespace has: the manifest it loaded is current,
\* and its own object is there and in nobody's hands.
LEMMA WholeCommitted ==
    ASSUME TypeOK, NEW n \in Namespaces, Whole(n), NEW t \in Tasks,
           Changes(task[t], n), task' = [task EXCEPT ![t] = Idle],
           UNCHANGED <<holds, objects, sweep>>,
           \A o \in Referenced(manifest'[n]) :
                o \in Referenced(manifest[n]) \/ Uses(task[t], n, o)
    PROVE  Whole(n)'
<1>1. Names' = Names /\ Condemned(n)' = Condemned(n)
  BY DEF Names, Condemned
<1>2. Changing(n)
  BY DEF Changing
<1>3. /\ Destroying(n) => ~Changing(n)
      /\ Referenced(manifest[n]) \subseteq objects[n]
      /\ \A u \in Tasks : \A o \in Names : Uses(task[u], n, o) => o \in objects[n]
      /\ \A o \in Condemned(n) :
            o \notin Referenced(manifest[n]) /\ \A u \in Tasks : ~Uses(task[u], n, o)
  BY Zenon DEF Whole
<1>4. \A o : Uses(task[t], n, o) => o \in Names
  BY UsesKnown
<1>5. Referenced(manifest'[n]) \subseteq objects'[n]
  BY <1>3, <1>4
<1>6. \A o \in Condemned(n)' : o \in Condemned(n) /\ o \notin Referenced(manifest'[n])
  BY <1>1, <1>3, <1>4
<1> QED
  BY <1>1, <1>2, <1>3, <1>5, <1>6, IdleUses, WholeStep

LEMMA WholeCommit ==
    ASSUME TypeOK, WholeInv, NEW t \in Tasks, CommitWrite(t) \/ CommitCompact(t),
           NEW n \in Namespaces \ torn'
    PROVE  Whole(n)'
<1> DEFINE c == task[t]
           m == task[t].ns
<1>1. Whole(n)
  BY DEF CommitWrite, CommitCompact, WholeInv, ghosts
<1>2. UNCHANGED <<holds, objects, sweep>>
  BY DEF CommitWrite, CommitCompact
<1>3. CASE CommitWrite(t) /\ SameVersion(t)
  <2> DEFINE w == [c.view EXCEPT !.exists = TRUE, !.wal = @ \cup {c.name}]
  <2>1. c \in ToCommit(Names) /\ m \in Namespaces
    BY <1>3, CallKinds DEF CommitWrite, ToCommit
  <2>2. manifest' = [manifest EXCEPT ![m] = w] /\ task' = [task EXCEPT ![t] = Idle]
    BY <1>3 DEF CommitWrite, Step
  <2>3. Referenced(w) = Referenced(manifest[m]) \cup {c.name}
    BY <1>3, <2>1 DEF SameVersion, ToCommit, Manifests, Referenced
  <2>4. Changes(c, m) /\ Uses(c, m, c.name)
    BY <2>1 DEF ToCommit, Changes, Uses
  <2> HIDE DEF w
  <2>5. CASE n = m
    <3>1. Referenced(manifest'[n]) = Referenced(manifest[n]) \cup {c.name}
      BY <2>1, <2>2, <2>3, <2>5 DEF TypeOK
    <3>2. Changes(task[t], n) /\ Uses(task[t], n, c.name)
      BY <2>4, <2>5
    <3> QED
      BY <1>1, <1>2, <2>2, <3>1, <3>2, WholeCommitted
  <2>6. CASE n # m
    <3>1. Referenced(manifest'[n]) = Referenced(manifest[n])
      BY <2>2, <2>6 DEF TypeOK
    <3> QED
      BY <1>1, <1>2, <2>2, <3>1, IdleUses, WholeQuiet
  <2> QED
    BY <2>5, <2>6
<1>4. CASE CommitWrite(t) /\ ~SameVersion(t)
  <2> DEFINE again == [op |-> "write", ns |-> m, phase |-> "put", view |-> manifest[m]]
  <2>1. task' = [task EXCEPT ![t] = again] /\ Referenced(manifest'[n]) = Referenced(manifest[n])
    BY <1>4 DEF CommitWrite, Step
  <2>2. /\ Changes(again, n) => Changes(task[t], n)
        /\ ~IsDestroy(again, n)
        /\ \A o : ~Uses(again, n, o)
    BY <1>4 DEF CommitWrite, Changes, IsDestroy, Uses, IsCompaction
  <2> HIDE DEF again
  <2> QED
    BY <1>1, <1>2, <2>1, <2>2, WholeQuiet
<1>5. CASE CommitCompact(t)
  <2> DEFINE f == [exists |-> TRUE, wal |-> manifest[m].wal \ c.view.wal,
                   built |-> TRUE, segments |-> c.names]
  <2>1. c \in ToFold(Names) /\ m \in Namespaces
    BY <1>5, CallKinds DEF CommitCompact, ToFold
  <2>2. /\ manifest' = manifest \/ manifest' = [manifest EXCEPT ![m] = f]
        /\ task' = [task EXCEPT ![t] = Idle]
    BY <1>5 DEF CommitCompact, Step
  <2>3. \A o \in Referenced(f) : o \in Referenced(manifest[m]) \/ Uses(c, m, o)
    BY <2>1 DEF ToFold, Referenced, Uses, IsCompaction
  <2>4. Changes(c, m)
    BY <2>1 DEF ToFold, Changes
  <2> HIDE DEF f
  <2>5. CASE n = m /\ manifest' # manifest
    <3>1. manifest'[n] = f
      BY <2>1, <2>2, <2>5 DEF TypeOK
    <3> QED
      BY <1>1, <1>2, <2>2, <2>3, <2>4, <2>5, <3>1, WholeCommitted
  <2>6. CASE n # m \/ manifest' = manifest
    <3>1. Referenced(manifest'[n]) = Referenced(manifest[n])
      BY <2>2, <2>6 DEF TypeOK
    <3> QED
      BY <1>1, <1>2, <2>2, <3>1, IdleUses, WholeQuiet
  <2> QED
    BY <2>5, <2>6
<1> QED
  BY <1>3, <1>4, <1>5

\* BeginBranch begins to refer to objects that the destination may lack, but
\* not to any that the collector is to delete there.
LEMMA WholeBeginBranch ==
    ASSUME TypeOK, WholeInv, NEW t \in Tasks, NEW m \in Namespaces, NEW dest \in Namespaces,
           BeginBranch(t, m, dest), NEW n \in Namespaces \ torn'
    PROVE  Whole(n)'
<1> DEFINE c == [op |-> "branch", ns |-> m, phase |-> "head", view |-> manifest[m],
                 dest |-> dest, rest |-> Referenced(manifest[m])]
<1>1. Whole(n)
  BY DEF BeginBranch, WholeInv
<1>2. n = dest => ~Destroying(n)
  BY DEF BeginBranch
<1>3. /\ Changes(c, n) => n = dest
      /\ ~IsDestroy(c, n)
      /\ \A o : ~Uses(c, n, o)
  BY DEF Changes, IsDestroy, Uses, IsCompaction
<1>4. task' = [task EXCEPT ![t] = c] /\ UNCHANGED <<holds, objects, sweep, manifest>>
  BY DEF BeginBranch, Begin, Take, storage
<1>5. Names' = Names /\ Condemned(n)' = Condemned(n)
  BY <1>4 DEF Names, Condemned
<1>6. /\ Destroying(n) => Referenced(manifest[n]) = {} /\ ~Changing(n)
      /\ Referenced(manifest[n]) \subseteq objects[n]
      /\ \A u \in Tasks : \A o \in Names : Uses(task[u], n, o) => o \in objects[n]
      /\ \A o \in Condemned(n) : o \notin Referenced(manifest[n])
  BY <1>1, Zenon DEF Whole
<1>7. \A o \in Condemned(n)' :
          o \in Condemned(n) /\ o \notin Referenced(manifest'[n]) /\ ~Uses(c, n, o)
  BY <1>2, <1>3, <1>4, <1>5, <1>6
<1> HIDE DEF c
<1> QED
  BY <1>1, <1>2, <1>3, <1>4, <1>5, <1>6, <1>7, WholeStep

LEMMA WholeHead ==
    ASSUME TypeOK, WholeInv, NEW t \in Tasks, HeadDestination(t), NEW n \in Namespaces \ torn'
    PROVE  Whole(n)'
<1> DEFINE c == [task[t] EXCEPT !.phase = "copy"]
<1>1. Whole(n) /\ UNCHANGED <<holds, objects, sweep, manifest>>
  BY DEF HeadDestination, WholeInv, ghosts, storage
<1>2. task' = [task EXCEPT ![t] = Idle] \/ task' = [task EXCEPT ![t] = c]
  BY DEF HeadDestination, Step
<1>3. task[t] \in ToBranch(Names)
  BY CallKinds DEF HeadDestination
<1>4. /\ Changes(c, n) => Changes(task[t], n)
      /\ ~IsDestroy(c, n)
      /\ \A o : Uses(c, n, o) => Uses(task[t], n, o)
  BY <1>3 DEF ToBranch, Changes, IsDestroy, Uses, IsCompaction
<1>5. Referenced(manifest'[n]) = Referenced(manifest[n])
  BY <1>1
<1> HIDE DEF c
<1> QED
  BY <1>1, <1>2, <1>4, <1>5, WholeIdle, WholeQuiet

LEMMA WholeCopy ==
    ASSUME TypeOK, WholeInv, NEW t \in Tasks, NEW o \in Names, Copy(t, o),
           NEW n \in Namespaces \ torn'
    PROVE  Whole(n)'
<1> DEFINE c == [task[t] EXCEPT !.rest = @ \ {o}]
           dest == task[t].dest
<1>1. Whole(n) /\ UNCHANGED <<holds, manifest>> /\ Put(dest, o) /\ task' = [task EXCEPT ![t] = c]
  BY DEF Copy, WholeInv, Step
<1>2. task[t] \in ToBranch(Names) /\ dest \in Namespaces
  BY CallKinds DEF Copy, ToBranch
<1>3. /\ Changes(c, n) => Changes(task[t], n)
      /\ ~IsDestroy(c, n)
      /\ \A p : Uses(c, n, p) => n = dest /\ (p = o \/ Uses(task[t], n, p))
  BY <1>2 DEF ToBranch, Changes, IsDestroy, Uses, IsCompaction
<1>4. Names' = Names /\ Condemned(n)' \subseteq Condemned(n)
      /\ (n = dest => o \notin Condemned(n)')
  <2>1. Names' = Names /\ Condemned(n)' \subseteq Condemned(n)
    BY <1>1, <1>2, CondemnedPut DEF Names
  <2>2. CASE n = dest /\ sweep.ns = n /\ sweep.phase = "list"
    <3>1. sweep' = [sweep EXCEPT !.garbage = @ \ {o}, !.aged = @ \ {o}]
      BY <1>1, <2>2 DEF Put
    <3>2. sweep \in Listing(Names)
      BY <2>2, SweepKinds, LifecycleAssumption DEF Idle, Deleting
    <3> QED
      BY <2>1, <2>2, <3>1, <3>2 DEF Condemned, Listing
  <2>3. CASE n = dest /\ ~(sweep.ns = n /\ sweep.phase = "list")
    <3>1. n \notin torn'
      OBVIOUS
    <3>2. o \notin Condemned(n)
      <4>1. CASE sweep.ns = n
        <5>1. sweep.phase = "delete"
          BY <2>3, <4>1, SweepKinds, LifecycleAssumption DEF Idle, Listing, Deleting
        <5> QED
          BY <2>3, <3>1, <5>1 DEF Copy
      <4> QED
        BY <4>1 DEF Condemned
    <3> QED
      BY <2>1, <3>2
  <2> QED
    BY <2>1, <2>2, <2>3
<1>5. objects[n] \subseteq objects'[n] /\ (n = dest => o \in objects'[n])
  BY <1>1, <1>2 DEF Put, TypeOK
<1>6. /\ Destroying(n) => Referenced(manifest[n]) = {} /\ ~Changing(n)
      /\ Referenced(manifest[n]) \subseteq objects[n]
      /\ \A u \in Tasks : \A p \in Names : Uses(task[u], n, p) => p \in objects[n]
      /\ \A p \in Condemned(n) :
            p \notin Referenced(manifest[n]) /\ \A u \in Tasks : ~Uses(task[u], n, p)
  BY <1>1, Zenon DEF Whole
<1>7. Changes(task[t], n) => Changing(n)
  BY DEF Changing
<1>8. \A p \in Names' : Uses(c, n, p) => p \in objects'[n]
  BY <1>3, <1>4, <1>5, <1>6
<1>9. \A p \in Condemned(n)' :
          p \in Condemned(n) /\ p \notin Referenced(manifest'[n]) /\ ~Uses(c, n, p)
  BY <1>1, <1>3, <1>4, <1>6
<1> HIDE DEF c
<1> QED
  BY <1>1, <1>3, <1>4, <1>5, <1>6, <1>7, <1>8, <1>9, WholeStep

LEMMA WholePutBranch ==
    ASSUME TypeOK, WholeInv, NEW t \in Tasks, PutBranch(t), NEW n \in Namespaces \ torn'
    PROVE  Whole(n)'
<1> DEFINE c == task[t]
           dest == task[t].dest
           copied == [c.view EXCEPT !.exists = TRUE]
<1>1. Whole(n) /\ UNCHANGED <<holds, objects, sweep>> /\ task' = [task EXCEPT ![t] = Idle]
  BY DEF PutBranch, WholeInv, Step
<1>2. c \in ToBranch(Names) /\ dest \in Namespaces
  BY CallKinds DEF PutBranch, ToBranch
<1>3. \A o \in Referenced(copied) : Uses(c, dest, o)
  BY <1>2 DEF PutBranch, AllCopied, ToBranch, Manifests, Referenced, Uses
<1>4. Changes(c, dest)
  BY <1>2 DEF ToBranch, Changes
<1>5. manifest' = manifest \/ manifest' = [manifest EXCEPT ![dest] = copied]
  BY DEF PutBranch
<1> HIDE DEF copied
<1>6. CASE n = dest /\ manifest' # manifest
  <2>1. manifest'[n] = copied
    BY <1>2, <1>5, <1>6 DEF TypeOK
  <2> QED
    BY <1>1, <1>3, <1>4, <1>6, <2>1, WholeCommitted
<1>7. CASE n # dest \/ manifest' = manifest
  <2>1. Referenced(manifest'[n]) = Referenced(manifest[n])
    BY <1>5, <1>7 DEF TypeOK
  <2> QED
    BY <1>1, <2>1, IdleUses, WholeQuiet
<1> QED
  BY <1>6, <1>7

LEMMA WholeBeginDestroy ==
    ASSUME TypeOK, WholeInv, NEW t \in Tasks, NEW m \in Namespaces, BeginDestroy(t, m),
           NEW n \in Namespaces \ torn'
    PROVE  Whole(n)'
<1> DEFINE c == [op |-> "destroy", ns |-> m, phase |-> "list"]
<1>1. Whole(n)
  BY DEF BeginDestroy, WholeInv
<1>2. n = m => ~Changing(n)
  BY DEF BeginDestroy
<1>3. /\ task' = [task EXCEPT ![t] = c] /\ UNCHANGED <<holds, objects, sweep>>
      /\ manifest' = [manifest EXCEPT ![m] = NoManifest] \/ (n # m /\ manifest' = manifest)
  BY DEF BeginDestroy, Take
<1>4. /\ ~Changes(c, n)
      /\ IsDestroy(c, n) => n = m
      /\ \A o : ~Uses(c, n, o)
  BY DEF Changes, IsDestroy, Uses, IsCompaction
<1>5. Names' = Names /\ Condemned(n)' = Condemned(n)
  BY <1>3 DEF Names, Condemned
<1>6. Referenced(manifest'[n]) = IF n = m THEN {} ELSE Referenced(manifest[n])
  BY <1>3, NoManifestType DEF TypeOK
<1>7. /\ Destroying(n) => Referenced(manifest[n]) = {}
      /\ Referenced(manifest[n]) \subseteq objects[n]
      /\ \A u \in Tasks : \A o \in Names : Uses(task[u], n, o) => o \in objects[n]
      /\ \A o \in Condemned(n) : o \notin Referenced(manifest[n])
  BY <1>1, Zenon DEF Whole
<1> HIDE DEF c
<1>8. Destroying(n) => ~Changes(c, n) /\ Referenced(manifest'[n]) = {}
  BY <1>4, <1>6, <1>7
<1>9. IsDestroy(c, n) => ~Changes(c, n) /\ Referenced(manifest'[n]) = {} /\ ~Changing(n)
  BY <1>2, <1>4, <1>6
<1>10. /\ Referenced(manifest'[n]) \subseteq objects'[n]
       /\ \A o \in Condemned(n)' :
             o \in Condemned(n) /\ o \notin Referenced(manifest'[n]) /\ ~Uses(c, n, o)
  BY <1>3, <1>4, <1>5, <1>6, <1>7
<1>11. /\ \A u \in Tasks : \A o \in Names : Uses(task[u], n, o) => o \in objects'[n]
       /\ \A o \in Names' : Uses(c, n, o) => o \in objects'[n]
  BY <1>3, <1>4, <1>7
<1> QED
  BY <1>1, <1>3, <1>5, <1>8, <1>9, <1>10, <1>11, WholeStep

LEMMA WholeListDoomed ==
    ASSUME TypeOK, WholeInv, NEW t \in Tasks, ListDoomed(t), NEW n \in Namespaces \ torn'
    PROVE  Whole(n)'
<1> DEFINE m == task[t].ns
           c == [op |-> "destroy", ns |-> m, phase |-> "delete",
                 doomed |-> objects[m], entry |-> manifest[m].exists]
<1>1. Whole(n) /\ task' = [task EXCEPT ![t] = c] /\ UNCHANGED <<holds, objects, sweep, manifest>>
  BY DEF ListDoomed, WholeInv, ghosts, storage, Step
<1>2. /\ ~Changes(c, n)
      /\ IsDestroy(c, n) => IsDestroy(task[t], n)
      /\ \A o : ~Uses(c, n, o)
  BY DEF ListDoomed, Changes, IsDestroy, Uses, IsCompaction
<1>3. Referenced(manifest'[n]) = Referenced(manifest[n])
  BY <1>1
<1> HIDE DEF c
<1> QED
  BY <1>1, <1>2, <1>3, WholeQuiet

\* Where a destroy deletes, nobody is about to change anything.
LEMMA WholeDeletes ==
    ASSUME TypeOK, NEW t \in Tasks, Deletes(t), NEW n \in Namespaces, Whole(n)
    PROVE  Whole(n)'
<1> DEFINE m == task[t].ns
<1>1. m \in Namespaces /\ IsDestroy(task[t], m) /\ UNCHANGED <<holds, sweep>>
  BY DeletingCall
<1>2. PICK c \in {Idle} \cup ToDelete(Names) :
          task' = [task EXCEPT ![t] = c] /\ c.ns \in {"none", m}
  BY DeletingCall
<1>3. /\ objects' = objects \/ \E o \in Names : objects' = [objects EXCEPT ![m] = @ \ {o}]
      /\ manifest' = manifest \/ manifest' = [manifest EXCEPT ![m] = NoManifest]
  BY DeletingState
<1>4. /\ ~Changes(c, n)
      /\ IsDestroy(c, n) => n = m
      /\ \A o : ~Uses(c, n, o)
  BY <1>2, LifecycleAssumption DEF ToDelete, Idle, Changes, IsDestroy, Uses, IsCompaction
<1>5. Names' = Names /\ Condemned(n)' = Condemned(n)
  BY <1>1 DEF Names, Condemned
<1>6. Referenced(manifest'[n]) = Referenced(manifest[n]) \/ Referenced(manifest'[n]) = {}
  BY <1>3, NoManifestType DEF TypeOK
<1>7. n = m => Destroying(n)
  BY <1>1 DEF Destroying
<1> HIDE DEF m
<1>8. /\ Destroying(n) => Referenced(manifest[n]) = {} /\ ~Changing(n)
      /\ Referenced(manifest[n]) \subseteq objects[n]
      /\ \A u \in Tasks : \A o \in Names : Uses(task[u], n, o) => o \in objects[n]
      /\ \A o \in Condemned(n) : o \notin Referenced(manifest[n])
  BY Zenon DEF Whole
<1>9. n # m => objects'[n] = objects[n]
  BY <1>3 DEF TypeOK
<1>10. Referenced(manifest'[n]) \subseteq objects'[n]
  BY <1>6, <1>7, <1>8, <1>9
<1>11. \A u \in Tasks : \A o \in Names : Uses(task[u], n, o) => o \in objects'[n]
  BY <1>7, <1>8, <1>9, UsesKnown DEF Changing
<1>12. \A o \in Condemned(n)' :
          o \in Condemned(n) /\ o \notin Referenced(manifest'[n]) /\ ~Uses(c, n, o)
  BY <1>4, <1>5, <1>6, <1>8
<1>13. Destroying(n) => ~Changes(c, n) /\ Referenced(manifest'[n]) = {}
  BY <1>4, <1>6, <1>8
<1>14. IsDestroy(c, n) =>
          ~Changes(c, n) /\ Referenced(manifest'[n]) = {} /\ ~Changing(n)
  BY <1>4, <1>7, <1>8, <1>13
<1>15. /\ Names \subseteq Names' /\ task' = [task EXCEPT ![t] = c]
       /\ \A o \in Names' : Uses(c, n, o) => o \in objects'[n]
       /\ \A u \in Tasks : \A o \in Names : Uses(task[u], n, o) /\ u # t => o \in objects'[n]
  BY <1>2, <1>4, <1>5, <1>11
<1> QED
  BY <1>10, <1>12, <1>13, <1>14, <1>15, WholeStep

\* A destroy that comes to its end leaves nothing to be torn, unless somebody is
\* about to change the namespace.
LEMMA WholeEndDestroy ==
    ASSUME TypeOK, WholeInv, NEW t \in Tasks, Deletes(t), NEW n \in Namespaces \ torn'
    PROVE  Whole(n)'
<1>1. CASE n \notin torn
  BY <1>1, WholeDeletes DEF WholeInv
<1>2. CASE n \in torn
  <2>1. EndDestroy(t) /\ n = task[t].ns /\ manifest[n] = NoManifest /\ ~Changing(n)
    BY <1>2 DEF Deletes, DeleteDoomed, DeleteEntry, EndDestroy, ghosts
  <2>2. task' = [task EXCEPT ![t] = Idle] /\ UNCHANGED <<manifest, objects, holds, sweep>>
    BY <2>1 DEF EndDestroy, storage
  <2>3. Referenced(manifest'[n]) = {}
    BY <2>1, <2>2, NoManifestType
  <2>4. \A u \in Tasks : task'[u] = task[u] \/ task'[u] = Idle
    BY <2>2 DEF TypeOK
  <2>5. \A u \in Tasks : ~Changes(task'[u], n)
    BY <2>1, <2>4, IdleUses DEF Changing
  <2>6. \A u \in Tasks : \A o : ~Uses(task'[u], n, o)
    BY <2>5 DEF Uses, Changes, IsCompaction
  <2> QED
    BY <2>3, <2>5, <2>6 DEF Whole, Changing
<1> QED
  BY <1>1, <1>2

\* A step that does nothing to the calls, or ends them all.
LEMMA WholeKept ==
    ASSUME TypeOK, NEW n \in Namespaces, Whole(n), UNCHANGED <<holds, manifest>>,
           \/ task' = task
           \/ task' = [t \in Tasks |-> Idle],
           \A o \in Names : o \in objects[n] /\ o \notin Condemned(n) => o \in objects'[n],
           \A o \in Condemned(n)' : \/ o \in Condemned(n)
                                    \/ o \notin Referenced(manifest[n]) /\ o \notin InUse(n)
    PROVE  Whole(n)'
<1>1. Names' = Names /\ Condemned(n) \subseteq Names
  BY CondemnedKnown DEF Names
<1>2. /\ Destroying(n) => Referenced(manifest[n]) = {} /\ ~Changing(n)
      /\ Referenced(manifest[n]) \subseteq objects[n]
      /\ \A u \in Tasks : \A o \in Names : Uses(task[u], n, o) => o \in objects[n]
      /\ \A o \in Condemned(n) :
            o \notin Referenced(manifest[n]) /\ \A u \in Tasks : ~Uses(task[u], n, o)
  BY Zenon DEF Whole
<1>3. \A u \in Tasks : task'[u] = task[u] \/ task'[u] = Idle
  OBVIOUS
<1>4. Referenced(manifest'[n]) = Referenced(manifest[n])
  OBVIOUS
<1>5. /\ Destroying(n)' => Destroying(n)
      /\ Changing(n)' => Changing(n)
  BY <1>3, IdleUses DEF Destroying, Changing, IsDestroy, Changes
<1>6. Referenced(manifest'[n]) \subseteq objects'[n]
  <2>1. Referenced(manifest[n]) \subseteq Names
    BY DEF TypeOK, Manifests, Referenced
  <2> QED
    BY <1>2, <1>4, <2>1
<1>7. \A u \in Tasks : \A o \in Names' : Uses(task'[u], n, o) => o \in objects'[n]
  <2> SUFFICES ASSUME NEW u \in Tasks, NEW o \in Names, Uses(task'[u], n, o)
               PROVE  o \in objects'[n]
    BY <1>1
  <2>1. Uses(task[u], n, o)
    BY <1>3, IdleUses
  <2> QED
    BY <1>2, <2>1
<1>8. \A o \in Condemned(n)' :
          o \notin Referenced(manifest'[n]) /\ \A u \in Tasks : ~Uses(task'[u], n, o)
  <2> SUFFICES ASSUME NEW o \in Condemned(n)'
               PROVE  /\ o \notin Referenced(manifest[n])
                      /\ \A u \in Tasks : ~Uses(task[u], n, o)
    BY <1>3, <1>4, IdleUses
  <2>1. CASE o \in Condemned(n)
    BY <1>2, <2>1
  <2>2. CASE o \notin Referenced(manifest[n]) /\ o \notin InUse(n)
    BY <2>2, UsesKnown DEF InUse, Names
  <2> QED
    BY <2>1, <2>2
<1> QED
  BY <1>2, <1>4, <1>5, <1>6, <1>7, <1>8
     DEF Whole, Uses, Referenced, IsCompaction, Destroying, Changing

LEMMA WholeSweep ==
    ASSUME TypeOK, WholeInv, SweepStep, NEW n \in Namespaces \ torn'
    PROVE  Whole(n)'
<1>1. CASE \E m \in Namespaces : BeginSweep(m)
  <2>1. PICK m \in Namespaces : BeginSweep(m)
    BY <1>1
  <2>2. /\ sweep' = [ns |-> m, phase |-> "list", referenced |-> Referenced(manifest[m]),
                     aged |-> objects[m] \ InUse(m), current |-> TRUE, garbage |-> Garbage(m)]
        /\ UNCHANGED <<holds, objects, manifest, task, torn>>
    BY <2>1 DEF BeginSweep, storage, ghosts
  <2>3. \A o \in Condemned(n)' : o \notin Referenced(manifest[n]) /\ o \notin InUse(n)
    BY <2>2 DEF Condemned
  <2> QED
    BY <2>2, <2>3, WholeKept DEF WholeInv
<1>2. CASE \E doomed \in SUBSET (DOMAIN holds) : ListGarbage(doomed)
  <2>1. PICK doomed : ListGarbage(doomed)
    BY <1>2
  <2>2. /\ doomed \subseteq (objects[sweep.ns] \ sweep.referenced) \cap sweep.aged
        /\ sweep.phase = "list"
        /\ sweep'.ns = sweep.ns /\ sweep'.phase = "delete" /\ sweep'.doomed = doomed
        /\ UNCHANGED <<holds, objects, manifest, task, torn>>
    BY <2>1 DEF ListGarbage, storage, ghosts
  <2>3. Condemned(n)' \subseteq Condemned(n)
    BY <2>2 DEF Condemned
  <2> QED
    BY <2>2, <2>3, WholeKept DEF WholeInv
<1>3. CASE \E p \in DOMAIN holds : DeleteGarbage(p)
  <2>1. PICK p : DeleteGarbage(p)
    BY <1>3
  <2>2. /\ objects' = [objects EXCEPT ![sweep.ns] = @ \ {p}] /\ p \in sweep.doomed
        /\ UNCHANGED <<holds, manifest, task, torn>>
    BY <2>1 DEF DeleteGarbage, Delete, ghosts
  <2>3. sweep \in Deleting(Names) /\ sweep.phase = "delete"
    BY <2>1, SweepKinds DEF DeleteGarbage
  <2>4. /\ sweep'.ns = sweep.ns /\ sweep'.phase = "delete"
        /\ sweep'.doomed = sweep.doomed \ {p}
    BY <2>1, <2>3 DEF DeleteGarbage, Deleting
  <2>5. \A o \in Names : o \in objects[n] /\ o \notin Condemned(n) => o \in objects'[n]
    BY <2>2, <2>3 DEF Condemned, TypeOK
  <2>6. Condemned(n)' \subseteq Condemned(n)
    BY <2>3, <2>4 DEF Condemned
  <2> QED
    BY <2>2, <2>5, <2>6, WholeKept DEF WholeInv
<1>4. CASE EndSweep \/ FailSweep
  <2>1. sweep' = Idle /\ UNCHANGED <<holds, objects, manifest, task, torn>>
    BY <1>4 DEF EndSweep, FailSweep, storage, ghosts
  <2>2. Condemned(n)' = {}
    BY <2>1, LifecycleAssumption DEF Condemned, Idle
  <2> QED
    BY <2>1, <2>2, WholeKept DEF WholeInv
<1> QED
  BY <1>1, <1>2, <1>3, <1>4 DEF SweepStep

LEMMA WholeOther ==
    ASSUME TypeOK, WholeInv, NEW n \in Namespaces \ torn',
           \/ \E t \in Tasks : Fail(t)
           \/ \E m \in Namespaces : EvictIdle(m)
           \/ Restart
           \/ UNCHANGED vars
    PROVE  Whole(n)'
<1>1. CASE \E t \in Tasks : Fail(t)
  BY <1>1, WholeIdle DEF Fail, storage, ghosts, WholeInv
<1>2. CASE (\E m \in Namespaces : EvictIdle(m)) \/ UNCHANGED vars
  <2>1. UNCHANGED <<holds, objects, manifest, task, sweep, torn>>
    BY <1>2 DEF EvictIdle, vars, storage, ghosts
  <2>2. Condemned(n)' = Condemned(n)
    BY <2>1 DEF Condemned
  <2> QED
    BY <2>1, <2>2, WholeKept DEF WholeInv
<1>3. CASE Restart
  <2>1. /\ task' = [t \in Tasks |-> Idle] /\ sweep' = Idle
        /\ UNCHANGED <<holds, objects, manifest, torn>>
    BY <1>3 DEF Restart, storage, ghosts
  <2>2. Condemned(n)' = {}
    BY <2>1, LifecycleAssumption DEF Condemned, Idle
  <2> QED
    BY <2>1, <2>2, WholeKept DEF WholeInv
<1> QED
  BY <1>1, <1>2, <1>3

LEMMA WholeNext == TypeOK /\ WholeInv /\ [Next]_vars => WholeInv'
<1> SUFFICES ASSUME TypeOK, WholeInv, [Next]_vars, NEW n \in Namespaces \ torn'
             PROVE  Whole(n)'
  BY DEF WholeInv
<1>1. ASSUME NEW t \in Tasks, TaskStep(t) PROVE Whole(n)'
  <2>1. CASE \E m \in Namespaces : BeginWrite(t, m) \/ BeginCompact(t, m)
    BY <2>1, WholeBegin
  <2>2. CASE \E m \in Namespaces : BeginDestroy(t, m)
    BY <2>2, WholeBeginDestroy
  <2>3. CASE \E m, dest \in Namespaces : BeginBranch(t, m, dest)
    BY <2>3, WholeBeginBranch
  <2>4. CASE PutWal(t) \/ BuildShards(t) \/ CommitWrite(t) \/ CommitCompact(t)
    BY <2>4, WholePutWal, WholeBuildShards, WholeCommit
  <2>5. CASE HeadDestination(t) \/ PutBranch(t) \/ ListDoomed(t) \/ Deletes(t) \/ Fail(t)
    BY <2>5, WholeHead, WholePutBranch, WholeListDoomed, WholeEndDestroy, WholeOther
  <2>6. CASE \E o \in DOMAIN holds : Copy(t, o)
    BY <2>6, WholeCopy DEF Names
  <2> QED
    BY <1>1, <2>1, <2>2, <2>3, <2>4, <2>5, <2>6 DEF TaskStep, Deletes, Names
<1> QED
  BY <1>1, WholeSweep, WholeOther DEF Next

\* A manifest names only objects that are there, those of a branch too, whatever
\* writes, compactions, branches and sweeps run beside it (branch puts the
\* manifest last; gc spares what is young or referenced).  Except in a torn
\* namespace: one whose destroy could not delete the manifest and went on, or found
\* a task about to change it, until a destroy of it ends; or one into which a branch
\* copied what a sweep was about to delete.
THEOREM WholeManifests == Spec => []ManifestsAreWhole
<1>1. Init => WholeInv
  <2> SUFFICES ASSUME Init, NEW n \in Namespaces PROVE Whole(n)
    BY DEF WholeInv
  <2>1. Names = {} /\ \A t \in Tasks : task[t] = Idle
    BY DEF Init, Names
  <2>2. Referenced(manifest[n]) = {}
    BY NoManifestType DEF Init
  <2>3. Condemned(n) = {}
    BY InitType, CondemnedKnown DEF Init
  <2>4. ~Destroying(n)
    BY <2>1, IdleUses DEF Destroying
  <2> QED
    BY <2>1, <2>2, <2>3, <2>4 DEF Whole
<1>2. WholeInv => ManifestsAreWhole
  BY DEF WholeInv, Whole, ManifestsAreWhole
<1> QED
  BY <1>1, <1>2, WholeNext, TypeInvariant, PTL DEF Spec

---------------------------------------------------------------------------
\* What was destroyed.

LEMMA CarriesKnown ==
    ASSUME TypeOK, NEW t \in Tasks, NEW o, Carries(task[t], o)
    PROVE  o \in Names
<1>1. CASE task[t].op \in {"write", "compact", "branch"} /\ o \in Referenced(task[t].view)
  <2>1. task[t].view \in Manifests(Names)
    <3>1. task[t] \in Calls(Names)
      BY DEF TypeOK
    <3>2. /\ task[t] \in ToPut(Names) \cup ToCommit(Names) => task[t].view \in Manifests(Names)
          /\ task[t] \in ToBuild(Names) \cup ToFold(Names) => task[t].view \in Manifests(Names)
          /\ task[t] \in ToBranch(Names) => task[t].view \in Manifests(Names)
      BY DEF ToPut, ToCommit, ToBuild, ToFold, ToBranch
    <3>3. task[t] \notin ToList \cup ToDelete(Names) \cup {Idle}
      BY <1>1 DEF ToList, ToDelete, Idle
    <3> QED
      BY <3>1, <3>2, <3>3 DEF Calls
  <2> QED
    BY <1>1, <2>1 DEF Manifests, Referenced
<1>2. CASE task[t].op = "compact" /\ task[t].phase = "cas" /\ o \in task[t].names
  BY <1>2, CallKinds DEF ToFold
<1> QED
  BY <1>1, <1>2 DEF Carries

LEMMA PendingKnown ==
    ASSUME TypeOK, NEW t \in Tasks, NEW k, Pending(task[t], k)
    PROVE  k \in Names
  BY CallKinds DEF Pending, ToCommit

LEMMA IdlePending ==
    ASSUME NEW o
    PROVE  ~Pending(Idle, o) /\ ~Carries(Idle, o)
  BY DEF Pending, Carries, Idle

\* A step that replaces one call, and what it must keep clear of.
LEMMA PendingStep ==
    ASSUME TypeOK, PendingInv, Names \subseteq Names',
           \A o \in Names : holds'[o] = holds[o],
           NEW t \in Tasks, NEW c, task' = [task EXCEPT ![t] = c],
           \A k \in Names' : Pending(c, k) =>
                \/ k \in Names /\ Pending(task[t], k)
                \/ k \notin Names /\ Alone(k)',
           \A k \in Names :
                Alone(k) /\ (Pending(c, k) \/ \E u \in Tasks \ {t} : Pending(task[u], k)) =>
                /\ \A n \in Namespaces : k \notin Referenced(manifest'[n]) /\ k \notin gone'[n]
                /\ ~Carries(c, k)
                /\ \A o \in Names' \ Names : k \notin holds'[o]
    PROVE  PendingInv'
<1>1. \A u \in Tasks : task'[u] = IF u = t THEN c ELSE task[u]
  BY DEF TypeOK
<1> SUFFICES ASSUME NEW u \in Tasks, NEW k \in Names', Pending(task'[u], k)
             PROVE  Alone(k)' /\ \A v \in Tasks \ {u} : ~Pending(task'[v], k)
  BY DEF PendingInv, Pending
<1>2. CASE k \in Names
  <2>1. Pending(task[u], k)
    BY <1>1, <1>2
  <2>2. Alone(k) /\ \A v \in Tasks \ {u} : ~Pending(task[v], k)
    BY <1>2, <2>1 DEF PendingInv
  <2>3. Pending(c, k) \/ \E v \in Tasks \ {t} : Pending(task[v], k)
    BY <1>1
  <2>4. /\ \A n \in Namespaces : k \notin Referenced(manifest'[n]) /\ k \notin gone'[n]
        /\ ~Carries(c, k)
        /\ \A o \in Names' \ Names : k \notin holds'[o]
    BY <1>2, <2>2, <2>3
  <2>5. \A v \in Tasks : ~Carries(task'[v], k)
    BY <1>1, <2>2, <2>4 DEF Alone
  <2>6. holds'[k] = {k} /\ \A o \in Names' : k \in holds'[o] => o = k
    BY <1>2, <2>2, <2>4 DEF Alone
  <2>7. Alone(k)'
    BY <2>4, <2>5, <2>6 DEF Alone, Carries, Referenced
  <2>8. \A v \in Tasks \ {u} : ~Pending(task'[v], k)
    BY <1>1, <1>2, <2>1, <2>2
  <2> QED
    BY <2>7, <2>8
<1>3. CASE k \notin Names
  <2>1. u = t
    BY <1>1, <1>3, PendingKnown
  <2>2. Alone(k)'
    BY <1>1, <1>3, <2>1
  <2>3. \A v \in Tasks \ {u} : ~Pending(task'[v], k)
    BY <1>1, <1>3, <2>1, PendingKnown
  <2> QED
    BY <2>2, <2>3
<1> QED
  BY <1>2, <1>3

\* A step that gives no name, and whose call takes up nothing but a manifest.
LEMMA PendingQuiet ==
    ASSUME TypeOK, PendingInv, UNCHANGED holds,
           NEW t \in Tasks, NEW c, task' = [task EXCEPT ![t] = c],
           \A k : Pending(c, k) => Pending(task[t], k),
           \A k : Carries(c, k) => \/ Carries(task[t], k)
                                   \/ \E n \in Namespaces : k \in Referenced(manifest[n]),
           \A k \in Names :
                Alone(k) /\ (Pending(c, k) \/ \E u \in Tasks \ {t} : Pending(task[u], k)) =>
                \A n \in Namespaces : k \notin Referenced(manifest'[n]) /\ k \notin gone'[n]
    PROVE  PendingInv'
<1>1. Names' = Names
  BY DEF Names
<1>2. \A k \in Names : Alone(k) => ~Carries(c, k)
  BY DEF Alone
<1>3. \A k \in Names' : Pending(c, k) => k \in Names /\ Pending(task[t], k)
  BY <1>1
<1>4. \A k \in Names :
          Alone(k) /\ (Pending(c, k) \/ \E u \in Tasks \ {t} : Pending(task[u], k)) =>
          /\ \A n \in Namespaces : k \notin Referenced(manifest'[n]) /\ k \notin gone'[n]
          /\ ~Carries(c, k)
          /\ \A o \in Names' \ Names : k \notin holds'[o]
  BY <1>1, <1>2
<1> QED
  BY <1>1, <1>3, <1>4, PendingStep

\* What no write has pending is as it was where nothing is written or destroyed.
LEMMA PendingSame ==
    ASSUME TypeOK, PendingInv, UNCHANGED <<holds, manifest, gone>>,
           NEW t \in Tasks, NEW c, task' = [task EXCEPT ![t] = c],
           \A k : Pending(c, k) => Pending(task[t], k),
           \A k : Carries(c, k) => \/ Carries(task[t], k)
                                   \/ \E n \in Namespaces : k \in Referenced(manifest[n])
    PROVE  PendingInv'
<1>1. \A k \in Names : Alone(k) =>
          \A n \in Namespaces : k \notin Referenced(manifest'[n]) /\ k \notin gone'[n]
  BY DEF Alone
<1> QED
  BY <1>1, PendingQuiet

LEMMA PendingPutWal ==
    ASSUME TypeOK, PendingInv, NEW t \in Tasks, PutWal(t)
    PROVE  PendingInv'
<1> DEFINE m == task[t].ns
           c == [op |-> "write", ns |-> m, phase |-> "cas", view |-> task[t].view,
                 name |-> NextName]
<1>1. m \in Namespaces /\ task[t].op = "write"
  BY CallKinds DEF PutWal, ToPut
<1>2. NewObject(m, {NextName}) /\ task' = [task EXCEPT ![t] = c] /\ UNCHANGED <<manifest, gone>>
  BY DEF PutWal, Step
<1>3. /\ Names' = Names \cup {NextName} /\ NextName \notin Names
      /\ \A o \in Names : holds'[o] = holds[o]
      /\ holds'[NextName] = {NextName}
  BY <1>1, <1>2, NewObjectNames, NewName
<1>4. \A k : Pending(c, k) => k = NextName
  BY DEF Pending
<1>5. \A o : Carries(c, o) => Carries(task[t], o)
  BY <1>1 DEF Carries
<1>6. \A u \in Tasks : task'[u] = IF u = t THEN c ELSE task[u]
  BY <1>2 DEF TypeOK
<1> HIDE DEF c, m
<1>7. ASSUME NEW k \in Names', k = NextName
      PROVE  Alone(k)'
  <2>1. \A o \in Names' : k \in holds'[o] => o = k
    BY <1>3, <1>7 DEF TypeOK
  <2>2. \A n \in Namespaces : k \notin Referenced(manifest'[n]) /\ k \notin gone'[n]
    BY <1>2, <1>3, <1>7 DEF TypeOK, Manifests, Referenced
  <2>3. \A u \in Tasks : ~Carries(task'[u], k)
    BY <1>3, <1>5, <1>6, <1>7, CarriesKnown
  <2> QED
    BY <1>3, <1>7, <2>1, <2>2, <2>3 DEF Alone, Carries, Referenced
<1>8. \A k \in Names : Alone(k) =>
          /\ \A n \in Namespaces : k \notin Referenced(manifest'[n]) /\ k \notin gone'[n]
          /\ ~Carries(c, k)
          /\ \A o \in Names' \ Names : k \notin holds'[o]
  BY <1>2, <1>3, <1>5 DEF Alone
<1>9. \A k \in Names' : Pending(c, k) => k \notin Names /\ Alone(k)'
  BY <1>3, <1>4, <1>7
<1> QED
  BY <1>2, <1>3, <1>8, <1>9, PendingStep

LEMMA PendingBuildShards ==
    ASSUME TypeOK, PendingInv, NEW t \in Tasks, BuildShards(t)
    PROVE  PendingInv'
<1> DEFINE m == task[t].ns
           found == Batches(manifest[m])
           built(names) == [op |-> "compact", ns |-> m, phase |-> "cas",
                            view |-> task[t].view, names |-> names]
<1>1. m \in Namespaces /\ task[t].op = "compact"
  BY CallKinds DEF BuildShards, ToBuild
<1>2. \A names : /\ \A k : ~Pending(built(names), k)
                 /\ \A o : Carries(built(names), o) => Carries(task[t], o) \/ o \in names
  BY <1>1 DEF Pending, Carries
<1>3. CASE found = {}
  <2>1. task' = [task EXCEPT ![t] = built({})] /\ UNCHANGED <<holds, manifest, gone>>
    BY <1>3 DEF BuildShards, Step
  <2>2. \A o : Carries(built({}), o) => Carries(task[t], o)
    BY <1>2
  <2> HIDE DEF built
  <2> QED
    BY <1>2, <2>1, <2>2, PendingSame
<1>4. CASE found # {}
  <2>1. task' = [task EXCEPT ![t] = built({NextName})] /\ NewObject(m, found)
        /\ UNCHANGED <<manifest, gone>>
    BY <1>4 DEF BuildShards, Step
  <2>2. found \in SUBSET (Names \cup {NextName})
    BY <1>1, Batches_Names DEF TypeOK
  <2>3. /\ Names' = Names \cup {NextName} /\ NextName \notin Names
        /\ \A o \in Names : holds'[o] = holds[o]
        /\ holds'[NextName] = found
    BY <1>1, <2>1, <2>2, NewObjectNames, NewName
  <2>4. Referenced(manifest[m]) \subseteq Names
    BY <1>1 DEF TypeOK, Manifests, Referenced
  <2>5. \A k \in Names : Alone(k) => k \notin found
    BY <1>1, <2>4 DEF Alone, Batches
  <2> DEFINE c == built({NextName})
  <2>6. \A k \in Names : Alone(k) =>
            /\ \A n \in Namespaces : k \notin Referenced(manifest'[n]) /\ k \notin gone'[n]
            /\ ~Carries(c, k)
            /\ \A o \in Names' \ Names : k \notin holds'[o]
    BY <1>2, <2>1, <2>3, <2>5 DEF Alone
  <2>7. \A k : ~Pending(c, k)
    BY <1>2
  <2> HIDE DEF c, built, found, m
  <2> QED
    BY <2>1, <2>3, <2>6, <2>7, PendingStep DEF c
<1> QED
  BY <1>3, <1>4

LEMMA PendingBegin ==
    ASSUME TypeOK, PendingInv, NEW t \in Tasks, NEW m \in Namespaces,
           \/ BeginWrite(t, m)
           \/ BeginCompact(t, m)
           \/ \E dest \in Namespaces : BeginBranch(t, m, dest)
    PROVE  PendingInv'
<1> DEFINE w == [op |-> "write", ns |-> m, phase |-> "put", view |-> manifest[m]]
           d == [op |-> "compact", ns |-> m, phase |-> "read", view |-> manifest[m]]
           b(dest) == [op |-> "branch", ns |-> m, phase |-> "head", view |-> manifest[m],
                       dest |-> dest, rest |-> Referenced(manifest[m])]
<1>1. UNCHANGED <<holds, manifest, gone>>
  BY DEF BeginWrite, BeginCompact, BeginBranch, storage
<1>2. PICK c : /\ task' = [task EXCEPT ![t] = c]
               /\ c \in {w, d, Idle} \/ \E dest : c = b(dest)
  <2>1. BeginWrite(t, m) => task' = [task EXCEPT ![t] = w]
    BY DEF BeginWrite, Begin, Take
  <2>2. BeginCompact(t, m) =>
            task' = [task EXCEPT ![t] = d] \/ task' = [task EXCEPT ![t] = Idle]
    BY DEF BeginCompact, Begin, Take, TypeOK
  <2>3. \A dest : BeginBranch(t, m, dest) => task' = [task EXCEPT ![t] = b(dest)]
    BY DEF BeginBranch, Begin, Take
  <2> HIDE DEF w, d, b
  <2> QED
    BY <2>1, <2>2, <2>3
<1>3. \A k : ~Pending(w, k) /\ ~Pending(d, k) /\ \A dest : ~Pending(b(dest), k)
  BY DEF Pending
<1>4. \A k : /\ Carries(w, k) => k \in Referenced(manifest[m])
             /\ Carries(d, k) => k \in Referenced(manifest[m])
             /\ \A dest : Carries(b(dest), k) => k \in Referenced(manifest[m])
  BY DEF Carries
<1> HIDE DEF w, d, b
<1>5. \A k : ~Pending(c, k) /\ (Carries(c, k) => k \in Referenced(manifest[m]))
  BY <1>2, <1>3, <1>4, IdlePending
<1> QED
  BY <1>1, <1>2, <1>5, PendingSame

LEMMA PendingCommit ==
    ASSUME TypeOK, PendingInv, NEW t \in Tasks, CommitWrite(t) \/ CommitCompact(t)
    PROVE  PendingInv'
<1> DEFINE c == task[t]
           m == task[t].ns
<1>1. UNCHANGED <<holds, gone>>
  BY DEF CommitWrite, CommitCompact, ghosts
<1>2. CASE CommitWrite(t) /\ SameVersion(t)
  <2> DEFINE w == [c.view EXCEPT !.exists = TRUE, !.wal = @ \cup {c.name}]
  <2>1. c \in ToCommit(Names) /\ m \in Namespaces /\ Pending(c, c.name)
    BY <1>2, CallKinds DEF CommitWrite, ToCommit, Pending
  <2>2. manifest' = [manifest EXCEPT ![m] = w] /\ task' = [task EXCEPT ![t] = Idle]
    BY <1>2 DEF CommitWrite, Step
  <2>3. Referenced(w) = Referenced(manifest[m]) \cup {c.name}
    BY <1>2, <2>1 DEF SameVersion, ToCommit, Manifests, Referenced
  <2>4. \A u \in Tasks \ {t} : \A k : Pending(task[u], k) => k # c.name
    BY <2>1, PendingKnown DEF PendingInv
  <2>5. \A n \in Namespaces : \A o \in Referenced(manifest'[n]) :
            o \in Referenced(manifest[n]) \/ o = c.name
    BY <2>2, <2>3 DEF TypeOK
  <2>6. \A k \in Names :
            Alone(k) /\ (Pending(Idle, k) \/ \E u \in Tasks \ {t} : Pending(task[u], k)) =>
            \A n \in Namespaces : k \notin Referenced(manifest'[n]) /\ k \notin gone'[n]
    BY <1>1, <2>4, <2>5, IdlePending DEF Alone
  <2> HIDE DEF w, c
  <2> QED
    BY <1>1, <2>2, <2>6, IdlePending, PendingQuiet
<1>3. CASE CommitWrite(t) /\ ~SameVersion(t)
  <2> DEFINE again == [op |-> "write", ns |-> m, phase |-> "put", view |-> manifest[m]]
  <2>1. task' = [task EXCEPT ![t] = again] /\ UNCHANGED manifest
    BY <1>3 DEF CommitWrite, Step
  <2>2. \A k : ~Pending(again, k) /\ (Carries(again, k) => k \in Referenced(manifest[m]))
    BY DEF Pending, Carries
  <2>3. m \in Namespaces
    BY <1>3, CallKinds DEF CommitWrite, ToCommit
  <2> HIDE DEF again
  <2> QED
    BY <1>1, <2>1, <2>2, <2>3, PendingSame
<1>4. CASE CommitCompact(t)
  <2> DEFINE f == [exists |-> TRUE, wal |-> manifest[m].wal \ c.view.wal,
                   built |-> TRUE, segments |-> c.names]
  <2>1. c \in ToFold(Names) /\ m \in Namespaces
    BY <1>4, CallKinds DEF CommitCompact, ToFold
  <2>2. /\ manifest' = manifest \/ manifest' = [manifest EXCEPT ![m] = f]
        /\ task' = [task EXCEPT ![t] = Idle]
    BY <1>4 DEF CommitCompact, Step
  <2>3. \A o \in Referenced(f) : o \in Referenced(manifest[m]) \/ Carries(task[t], o)
    BY <2>1 DEF ToFold, Referenced, Carries
  <2> HIDE DEF f, c
  <2>4. \A n \in Namespaces : \A o \in Referenced(manifest'[n]) :
            o \in Referenced(manifest[n]) \/ Carries(task[t], o)
    BY <2>1, <2>2, <2>3 DEF TypeOK
  <2>5. \A k \in Names : Alone(k) =>
            \A n \in Namespaces : k \notin Referenced(manifest'[n]) /\ k \notin gone'[n]
    BY <1>1, <2>4 DEF Alone
  <2> QED
    BY <1>1, <2>2, <2>5, IdlePending, PendingQuiet
<1> QED
  BY <1>2, <1>3, <1>4

LEMMA PendingBranch ==
    ASSUME TypeOK, PendingInv, NEW t \in Tasks,
           HeadDestination(t) \/ (\E o \in Names : Copy(t, o)) \/ PutBranch(t)
    PROVE  PendingInv'
<1>1. task[t] \in ToBranch(Names) /\ UNCHANGED holds
  BY CallKinds DEF HeadDestination, Copy, PutBranch, storage
<1>2. CASE PutBranch(t)
  <2> DEFINE dest == task[t].dest
             copied == [task[t].view EXCEPT !.exists = TRUE]
  <2>1. /\ manifest' = manifest \/ manifest' = [manifest EXCEPT ![dest] = copied]
        /\ gone' = gone \/ gone' = [gone EXCEPT ![dest] = @ \ Batches(copied)]
        /\ task' = [task EXCEPT ![t] = Idle]
    BY <1>2 DEF PutBranch, Step
  <2>2. \A o \in Referenced(copied) : Carries(task[t], o)
    BY <1>1 DEF ToBranch, Manifests, Referenced, Carries
  <2> HIDE DEF copied
  <2>3. \A n \in Namespaces : gone'[n] \subseteq gone[n]
    BY <2>1 DEF TypeOK
  <2>4. \A n \in Namespaces : \A o \in Referenced(manifest'[n]) :
            o \in Referenced(manifest[n]) \/ Carries(task[t], o)
    BY <2>1, <2>2 DEF TypeOK
  <2>5. \A k \in Names : Alone(k) =>
            \A n \in Namespaces : k \notin Referenced(manifest'[n]) /\ k \notin gone'[n]
    BY <2>3, <2>4 DEF Alone
  <2> QED
    BY <1>1, <2>1, <2>5, IdlePending, PendingQuiet
<1>3. CASE HeadDestination(t) \/ \E o \in Names : Copy(t, o)
  <2>1. UNCHANGED <<holds, manifest, gone>>
    BY <1>3 DEF HeadDestination, Copy, storage, ghosts
  <2>2. PICK c : /\ task' = [task EXCEPT ![t] = c]
                 /\ \/ c = Idle
                    \/ c = [task[t] EXCEPT !.phase = "copy"]
                    \/ \E o \in Names : c = [task[t] EXCEPT !.rest = @ \ {o}]
    BY <1>3 DEF HeadDestination, Copy, Step
  <2>3. \A k : ~Pending(c, k) /\ (Carries(c, k) => Carries(task[t], k))
    BY <1>1, <2>2, IdlePending DEF ToBranch, Pending, Carries
  <2> QED
    BY <2>1, <2>2, <2>3, PendingSame
<1> QED
  BY <1>2, <1>3

LEMMA PendingDestroy ==
    ASSUME TypeOK, PendingInv, NEW t \in Tasks,
           (\E m \in Namespaces : BeginDestroy(t, m)) \/ ListDoomed(t) \/ Deletes(t)
    PROVE  PendingInv'
<1>1. PICK c :
        /\ task' = [task EXCEPT ![t] = c] /\ UNCHANGED holds
        /\ \A k : ~Pending(c, k) /\ ~Carries(c, k)
        /\ \E m \in Namespaces :
              /\ manifest' = manifest \/ manifest' = [manifest EXCEPT ![m] = NoManifest]
              /\ gone' = gone \/ gone' = [gone EXCEPT ![m] = @ \cup Batches(manifest[m])]
  <2>1. CASE \E m \in Namespaces : BeginDestroy(t, m)
    <3>1. PICK m \in Namespaces : BeginDestroy(t, m)
      BY <2>1
    <3> DEFINE c == [op |-> "destroy", ns |-> m, phase |-> "list"]
    <3>2. \A k : ~Pending(c, k) /\ ~Carries(c, k)
      BY DEF Pending, Carries
    <3>3. /\ task' = [task EXCEPT ![t] = c] /\ UNCHANGED holds
          /\ manifest' = manifest \/ manifest' = [manifest EXCEPT ![m] = NoManifest]
          /\ gone' = gone \/ gone' = [gone EXCEPT ![m] = @ \cup Batches(manifest[m])]
      BY <3>1 DEF BeginDestroy, Take
    <3> HIDE DEF c
    <3> QED
      BY <3>2, <3>3
  <2>2. CASE ListDoomed(t)
    <3> DEFINE m == task[t].ns
               c == [op |-> "destroy", ns |-> m, phase |-> "delete",
                     doomed |-> objects[m], entry |-> manifest[m].exists]
    <3>1. m \in Namespaces
      BY <2>2, CallKinds DEF ListDoomed, ToList
    <3>2. \A k : ~Pending(c, k) /\ ~Carries(c, k)
      BY DEF Pending, Carries
    <3>3. task' = [task EXCEPT ![t] = c] /\ UNCHANGED <<holds, manifest, gone>>
      BY <2>2 DEF ListDoomed, Step, storage, ghosts
    <3> HIDE DEF c
    <3> QED
      BY <3>1, <3>2, <3>3
  <2>3. CASE Deletes(t)
    <3> DEFINE m == task[t].ns
    <3>1. m \in Namespaces /\ UNCHANGED holds
      BY <2>3, DeletingCall
    <3>2. PICK c \in {Idle} \cup ToDelete(Names) : task' = [task EXCEPT ![t] = c]
      BY <2>3, DeletingCall
    <3>3. /\ manifest' = manifest \/ manifest' = [manifest EXCEPT ![m] = NoManifest]
          /\ gone' = gone \/ gone' = [gone EXCEPT ![m] = @ \cup Batches(manifest[m])]
      BY <2>3, DeletingState
    <3>4. \A k : ~Pending(c, k) /\ ~Carries(c, k)
      BY <3>2, IdlePending DEF ToDelete, Pending, Carries
    <3> HIDE DEF m
    <3> QED
      BY <3>1, <3>2, <3>3, <3>4
  <2> QED
    BY <2>1, <2>2, <2>3
<1>2. \A n \in Namespaces : /\ Referenced(manifest'[n]) \subseteq Referenced(manifest[n])
                            /\ gone'[n] \subseteq gone[n] \cup Batches(manifest[n])
  BY <1>1, NoManifestType DEF TypeOK
<1>3. \A k \in Names : Alone(k) => \A n \in Namespaces : k \notin Batches(manifest[n])
  <2>1. \A n \in Namespaces : Referenced(manifest[n]) \subseteq Names
    BY DEF TypeOK, Manifests, Referenced
  <2> QED
    BY <2>1 DEF Alone, Batches
<1>4. \A k \in Names : Alone(k) =>
          \A n \in Namespaces : k \notin Referenced(manifest'[n]) /\ k \notin gone'[n]
  BY <1>2, <1>3 DEF Alone
<1> QED
  BY <1>1, <1>4, PendingQuiet

LEMMA PendingNext == TypeOK /\ PendingInv /\ [Next]_vars => PendingInv'
<1> SUFFICES ASSUME TypeOK, PendingInv, [Next]_vars PROVE PendingInv'
  OBVIOUS
<1>1. ASSUME NEW t \in Tasks, TaskStep(t) PROVE PendingInv'
  <2>1. CASE \E m \in Namespaces : \/ BeginWrite(t, m) \/ BeginCompact(t, m)
                                   \/ \E dest \in Namespaces : BeginBranch(t, m, dest)
    BY <2>1, PendingBegin
  <2>2. CASE (\E m \in Namespaces : BeginDestroy(t, m)) \/ ListDoomed(t) \/ Deletes(t)
    BY <2>2, PendingDestroy
  <2>3. CASE PutWal(t) \/ BuildShards(t) \/ CommitWrite(t) \/ CommitCompact(t)
    BY <2>3, PendingPutWal, PendingBuildShards, PendingCommit
  <2>4. CASE HeadDestination(t) \/ (\E o \in DOMAIN holds : Copy(t, o)) \/ PutBranch(t)
    BY <2>4, PendingBranch DEF Names
  <2>5. CASE Fail(t)
    <3>1. task' = [task EXCEPT ![t] = Idle] /\ UNCHANGED <<holds, manifest, gone>>
      BY <2>5 DEF Fail, storage, ghosts
    <3> QED
      BY <3>1, IdlePending, PendingSame
  <2> QED
    BY <1>1, <2>1, <2>2, <2>3, <2>4, <2>5 DEF TaskStep, Deletes, Names
<1>2. CASE SweepStep \/ (\E n \in Namespaces : EvictIdle(n)) \/ UNCHANGED vars
  <2>1. UNCHANGED <<task, holds, manifest, gone>>
    BY <1>2 DEF SweepStep, BeginSweep, ListGarbage, DeleteGarbage, EndSweep, FailSweep,
                EvictIdle, vars, storage, ghosts
  <2> QED
    BY <2>1 DEF PendingInv, Pending, Alone, Names, Carries, Referenced
<1>3. CASE Restart
  <2>1. task' = [t \in Tasks |-> Idle]
    BY <1>3 DEF Restart
  <2>2. \A t \in Tasks : \A k : ~Pending(task'[t], k)
    BY <2>1, IdlePending
  <2> QED
    BY <2>2 DEF PendingInv, Pending
<1> QED
  BY <1>1, <1>2, <1>3 DEF Next

LEMMA ApartPointwise ==
    ASSUME NEW n
    PROVE  Batches(manifest[n]) \cap gone[n] = {} <=>
               \A o \in Referenced(manifest[n]) : holds[o] \cap gone[n] = {}
  BY DEF Batches

\* A step that replaces one call, and what the namespace must be clear of then.
LEMMA ApartStep ==
    ASSUME TypeOK, NEW n \in Namespaces, Apart(n),
           Names \subseteq Names', \A o \in Names : holds'[o] = holds[o],
           NEW t \in Tasks, NEW c, task' = [task EXCEPT ![t] = c],
           \A o \in Referenced(manifest'[n]) : holds'[o] \cap gone'[n] = {},
           \A u \in Tasks \ {t} : gone'[n] \subseteq gone[n] \/ ~IsCompaction(task[u], n),
           IsCompaction(c, n) /\ c.phase = "cas" =>
                \A o \in c.names : holds'[o] \cap gone'[n] = {}
    PROVE  Apart(n)'
<1>1. \A u \in Tasks : task'[u] = IF u = t THEN c ELSE task[u]
  BY DEF TypeOK
<1>2. (Batches(manifest[n]) \cap gone[n])' = {}
  BY DEF Batches, Referenced
<1>3. ASSUME NEW u \in Tasks, IsCompaction(task'[u], n), task'[u].phase = "cas",
             NEW o \in task'[u].names
      PROVE  holds'[o] \cap gone'[n] = {}
  <2>1. CASE u = t
    BY <1>1, <1>3, <2>1
  <2>2. CASE u # t
    <3>1. task[u] \in ToFold(Names) /\ IsCompaction(task[u], n) /\ task[u].phase = "cas"
          /\ o \in task[u].names
      BY <1>1, <1>3, <2>2, CallKinds DEF IsCompaction
    <3>2. o \in Names /\ holds[o] \cap gone[n] = {}
      BY <3>1 DEF ToFold, Apart
    <3> QED
      BY <2>2, <3>1, <3>2
  <2> QED
    BY <2>1, <2>2
<1> QED
  BY <1>2, <1>3 DEF Apart, IsCompaction

\* Nothing happens to the namespace, and the call folds nothing.
LEMMA ApartQuiet ==
    ASSUME TypeOK, NEW n \in Namespaces, Apart(n),
           Names \subseteq Names', \A o \in Names : holds'[o] = holds[o],
           manifest'[n] = manifest[n], gone'[n] = gone[n],
           NEW t \in Tasks, NEW c, task' = [task EXCEPT ![t] = c],
           ~(IsCompaction(c, n) /\ c.phase = "cas")
    PROVE  Apart(n)'
<1>1. Referenced(manifest[n]) \subseteq Names
  BY DEF TypeOK, Manifests, Referenced
<1>2. \A o \in Referenced(manifest'[n]) : holds'[o] \cap gone'[n] = {}
  BY <1>1, ApartPointwise DEF Apart
<1> QED
  BY <1>2, ApartStep

LEMMA ApartBegin ==
    ASSUME TypeOK, ApartInv, NEW t \in Tasks, NEW n \in Namespaces \ outrun',
           \/ \E m \in Namespaces : \/ BeginWrite(t, m)
                                    \/ BeginCompact(t, m)
                                    \/ \E dest \in Namespaces : BeginBranch(t, m, dest)
           \/ HeadDestination(t)
           \/ \E o \in Names : Copy(t, o)
           \/ ListDoomed(t)
           \/ Fail(t)
    PROVE  Apart(n)'
<1> DEFINE quiet(c) == task' = [task EXCEPT ![t] = c] /\ ~(IsCompaction(c, n) /\ c.phase = "cas")
<1>1. UNCHANGED <<holds, manifest, gone, outrun>> /\ Names' = Names
  BY DEF BeginWrite, BeginCompact, BeginBranch, HeadDestination, Copy, ListDoomed, Fail,
         storage, ghosts, Names
<1>2. quiet(Idle) \/ task' # [task EXCEPT ![t] = Idle]
  BY DEF IsCompaction, Idle
<1>3. CASE \E m \in Namespaces : BeginWrite(t, m)
  <2>1. PICK m \in Namespaces : BeginWrite(t, m)
    BY <1>3
  <2>2. quiet([op |-> "write", ns |-> m, phase |-> "put", view |-> manifest[m]])
    BY <2>1 DEF BeginWrite, Begin, Take, IsCompaction
  <2> QED
    BY <1>1, <2>2, ApartQuiet DEF ApartInv
<1>4. CASE \E m \in Namespaces : BeginCompact(t, m)
  <2>1. PICK m \in Namespaces : BeginCompact(t, m)
    BY <1>4
  <2>2. \/ quiet([op |-> "compact", ns |-> m, phase |-> "read", view |-> manifest[m]])
        \/ task' = [task EXCEPT ![t] = Idle]
    BY <2>1 DEF BeginCompact, Begin, Take, TypeOK
  <2> QED
    BY <1>1, <1>2, <2>2, ApartQuiet DEF ApartInv
<1>5. CASE \E m, dest \in Namespaces : BeginBranch(t, m, dest)
  <2>1. PICK m, dest \in Namespaces : BeginBranch(t, m, dest)
    BY <1>5
  <2>2. quiet([op |-> "branch", ns |-> m, phase |-> "head", view |-> manifest[m],
               dest |-> dest, rest |-> Referenced(manifest[m])])
    BY <2>1 DEF BeginBranch, Begin, Take, IsCompaction
  <2> QED
    BY <1>1, <2>2, ApartQuiet DEF ApartInv
<1>6. CASE HeadDestination(t) \/ \E o \in Names : Copy(t, o)
  <2>1. task[t] \in ToBranch(Names)
    BY <1>6, CallKinds DEF HeadDestination, Copy
  <2>2. \/ task' = [task EXCEPT ![t] = Idle]
        \/ quiet([task[t] EXCEPT !.phase = "copy"])
        \/ \E o \in Names : quiet([task[t] EXCEPT !.rest = @ \ {o}])
    BY <1>6, <2>1 DEF HeadDestination, Copy, Step, IsCompaction, ToBranch
  <2> QED
    BY <1>1, <1>2, <2>2, ApartQuiet DEF ApartInv
<1>7. CASE ListDoomed(t)
  <2>1. quiet([op |-> "destroy", ns |-> task[t].ns, phase |-> "delete",
               doomed |-> objects[task[t].ns], entry |-> manifest[task[t].ns].exists])
    BY <1>7 DEF ListDoomed, Step, IsCompaction
  <2> QED
    BY <1>1, <2>1, ApartQuiet DEF ApartInv
<1>8. CASE Fail(t)
  <2>1. task' = [task EXCEPT ![t] = Idle]
    BY <1>8 DEF Fail
  <2> QED
    BY <1>1, <1>2, <2>1, ApartQuiet DEF ApartInv
<1> QED
  BY <1>3, <1>4, <1>5, <1>6, <1>7, <1>8

LEMMA ApartPutWal ==
    ASSUME TypeOK, ApartInv, NEW t \in Tasks, PutWal(t), NEW n \in Namespaces \ outrun'
    PROVE  Apart(n)'
<1> DEFINE m == task[t].ns
           c == [op |-> "write", ns |-> m, phase |-> "cas", view |-> task[t].view,
                 name |-> NextName]
<1>1. m \in Namespaces
  BY CallKinds DEF PutWal, ToPut
<1>2. NewObject(m, {NextName}) /\ task' = [task EXCEPT ![t] = c]
      /\ UNCHANGED <<manifest, gone, outrun>>
  BY DEF PutWal, Step
<1>3. Names \subseteq Names' /\ \A o \in Names : holds'[o] = holds[o]
  BY <1>1, <1>2, NewObjectNames
<1>4. ~IsCompaction(c, n)
  BY DEF IsCompaction
<1> HIDE DEF c
<1> QED
  BY <1>2, <1>3, <1>4, ApartQuiet DEF ApartInv

\* What a compaction reads was not destroyed, as the manifest names it.
LEMMA ApartBuildShards ==
    ASSUME TypeOK, ApartInv, NEW t \in Tasks, BuildShards(t), NEW n \in Namespaces \ outrun'
    PROVE  Apart(n)'
<1> DEFINE m == task[t].ns
           found == Batches(manifest[m])
           built(names) == [op |-> "compact", ns |-> m, phase |-> "cas",
                            view |-> task[t].view, names |-> names]
<1>1. m \in Namespaces
  BY CallKinds DEF BuildShards, ToBuild
<1>2. UNCHANGED <<manifest, gone, outrun>> /\ Apart(n)
  BY DEF BuildShards, ApartInv
<1>3. Referenced(manifest[n]) \subseteq Names
  BY DEF TypeOK, Manifests, Referenced
<1>4. \A o \in Referenced(manifest[n]) : holds[o] \cap gone[n] = {}
  BY <1>2, ApartPointwise DEF Apart
<1>5. \A names : /\ IsCompaction(built(names), n) <=> n = m
                 /\ built(names).names = names
  BY DEF IsCompaction
<1>6. CASE found = {}
  <2>1. task' = [task EXCEPT ![t] = built({})] /\ UNCHANGED holds /\ Names' = Names
    BY <1>6 DEF BuildShards, Step, Names
  <2>2. built({}).names = {}
    BY <1>5
  <2> HIDE DEF built
  <2> QED
    BY <1>2, <1>4, <2>1, <2>2, ApartStep
<1>7. CASE found # {}
  <2>1. task' = [task EXCEPT ![t] = built({NextName})] /\ NewObject(m, found)
    BY <1>7 DEF BuildShards, Step
  <2>2. found \in SUBSET (Names \cup {NextName})
    BY <1>1, Batches_Names DEF TypeOK
  <2>3. /\ Names \subseteq Names' /\ \A o \in Names : holds'[o] = holds[o]
        /\ holds'[NextName] = found
    BY <1>1, <2>1, <2>2, NewObjectNames
  <2>4. n = m => found \cap gone[n] = {}
    BY <1>2 DEF Apart
  <2> DEFINE c == built({NextName})
  <2>5. IsCompaction(c, n) /\ c.phase = "cas" => \A o \in c.names : holds'[o] \cap gone'[n] = {}
    BY <1>2, <1>5, <2>3, <2>4
  <2>6. \A o \in Referenced(manifest'[n]) : holds'[o] \cap gone'[n] = {}
    BY <1>2, <1>3, <1>4, <2>3
  <2>7. task' = [task EXCEPT ![t] = c]
    BY <2>1
  <2> HIDE DEF c, built, found, m
  <2> QED
    BY <1>2, <2>3, <2>5, <2>6, <2>7, ApartStep
<1> QED
  BY <1>6, <1>7

\* A commit names what its namespace named, and what it has put itself: a batch
\* that nobody has seen, or what the compaction read.
LEMMA ApartCommit ==
    ASSUME TypeOK, PendingInv, ApartInv, NEW t \in Tasks, CommitWrite(t) \/ CommitCompact(t),
           NEW n \in Namespaces \ outrun'
    PROVE  Apart(n)'
<1> DEFINE c == task[t]
           m == task[t].ns
<1>1. UNCHANGED <<holds, gone, outrun>> /\ Names' = Names /\ Apart(n)
  BY DEF CommitWrite, CommitCompact, ghosts, Names, ApartInv
<1>2. \A o \in Referenced(manifest[n]) : holds[o] \cap gone[n] = {}
  BY <1>1, ApartPointwise DEF Apart
<1>3. CASE CommitWrite(t) /\ SameVersion(t)
  <2> DEFINE w == [c.view EXCEPT !.exists = TRUE, !.wal = @ \cup {c.name}]
  <2>1. c \in ToCommit(Names) /\ m \in Namespaces /\ c.name \in Names /\ Pending(c, c.name)
    BY <1>3, CallKinds DEF CommitWrite, ToCommit, Pending
  <2>2. manifest' = [manifest EXCEPT ![m] = w] /\ task' = [task EXCEPT ![t] = Idle]
    BY <1>3 DEF CommitWrite, Step
  <2>3. Referenced(w) = Referenced(manifest[m]) \cup {c.name}
    BY <1>3, <2>1 DEF SameVersion, ToCommit, Manifests, Referenced
  <2>4. holds[c.name] \cap gone[n] = {}
    BY <2>1 DEF PendingInv, Alone
  <2> HIDE DEF w, c
  <2>5. \A o \in Referenced(manifest'[n]) : o \in Referenced(manifest[n]) \/ o = c.name
    BY <2>2, <2>3 DEF TypeOK
  <2>6. \A o \in Referenced(manifest'[n]) : holds'[o] \cap gone'[n] = {}
    BY <1>1, <1>2, <2>4, <2>5
  <2>7. ~IsCompaction(Idle, n)
    BY DEF IsCompaction, Idle
  <2> QED
    BY <1>1, <2>2, <2>6, <2>7, ApartStep
<1>4. CASE CommitWrite(t) /\ ~SameVersion(t)
  <2> DEFINE again == [op |-> "write", ns |-> m, phase |-> "put", view |-> manifest[m]]
  <2>1. task' = [task EXCEPT ![t] = again] /\ UNCHANGED manifest
    BY <1>4 DEF CommitWrite, Step
  <2>2. ~IsCompaction(again, n)
    BY DEF IsCompaction
  <2> HIDE DEF again
  <2> QED
    BY <1>1, <2>1, <2>2, ApartQuiet
<1>5. CASE CommitCompact(t)
  <2> DEFINE f == [exists |-> TRUE, wal |-> manifest[m].wal \ c.view.wal,
                   built |-> TRUE, segments |-> c.names]
  <2>1. c \in ToFold(Names) /\ IsCompaction(c, m) /\ c.phase = "cas"
    BY <1>5, CallKinds DEF CommitCompact, ToFold, IsCompaction
  <2>2. /\ manifest' = manifest \/ manifest' = [manifest EXCEPT ![m] = f]
        /\ task' = [task EXCEPT ![t] = Idle]
    BY <1>5 DEF CommitCompact, Step
  <2>3. \A o \in Referenced(f) : o \in Referenced(manifest[m]) \/ o \in c.names
    BY DEF Referenced
  <2>4. n = m => \A o \in c.names : holds[o] \cap gone[n] = {}
    BY <1>1, <2>1 DEF Apart
  <2> HIDE DEF f
  <2>5. \A o \in Referenced(manifest'[n]) :
            o \in Referenced(manifest[n]) \/ (n = m /\ o \in c.names)
    BY <2>2, <2>3 DEF TypeOK
  <2>6. \A o \in Referenced(manifest'[n]) : holds'[o] \cap gone'[n] = {}
    BY <1>1, <1>2, <2>4, <2>5
  <2>7. ~IsCompaction(Idle, n)
    BY DEF IsCompaction, Idle
  <2> QED
    BY <1>1, <2>2, <2>6, <2>7, ApartStep
<1> QED
  BY <1>3, <1>4, <1>5

\* What a branch brings is not what was destroyed.
LEMMA ApartPutBranch ==
    ASSUME TypeOK, ApartInv, NEW t \in Tasks, PutBranch(t), NEW n \in Namespaces \ outrun'
    PROVE  Apart(n)'
<1> DEFINE dest == task[t].dest
           copied == [task[t].view EXCEPT !.exists = TRUE]
<1>1. UNCHANGED <<holds, outrun>> /\ Names' = Names /\ Apart(n)
      /\ task' = [task EXCEPT ![t] = Idle]
  BY DEF PutBranch, ghosts, Names, ApartInv, Step
<1>2. ~IsCompaction(Idle, n)
  BY DEF IsCompaction, Idle
<1>3. CASE manifest[dest].exists \/ n # dest
  <2>1. manifest'[n] = manifest[n] /\ gone'[n] = gone[n]
    BY <1>3 DEF PutBranch, TypeOK
  <2> QED
    BY <1>1, <1>2, <2>1, ApartQuiet
<1>4. CASE ~manifest[dest].exists /\ n = dest
  <2>1. manifest'[n] = copied /\ gone'[n] = gone[n] \ Batches(copied)
    BY <1>4 DEF PutBranch, TypeOK
  <2>2. \A o \in Referenced(copied) : holds[o] \subseteq Batches(copied)
    BY DEF Batches
  <2>3. \A o \in Referenced(manifest'[n]) : holds'[o] \cap gone'[n] = {}
    BY <1>1, <2>1, <2>2
  <2> QED
    BY <1>1, <1>2, <2>1, <2>3, ApartStep
<1> QED
  BY <1>3, <1>4

\* What is destroyed is not read by a compaction then: unless it was outrun.
LEMMA ApartDestroy ==
    ASSUME TypeOK, ApartInv, NEW t \in Tasks,
           (\E m \in Namespaces : BeginDestroy(t, m)) \/ Deletes(t),
           NEW n \in Namespaces \ outrun'
    PROVE  Apart(n)'
<1>1. PICK c, m :
        /\ task' = [task EXCEPT ![t] = c] /\ UNCHANGED holds /\ Names' = Names
        /\ ~IsCompaction(c, n)
        /\ n \notin outrun
        /\ \/ manifest' = manifest /\ gone' = gone
           \/ /\ manifest' = [manifest EXCEPT ![m] = NoManifest]
              /\ gone' = [gone EXCEPT ![m] = @ \cup Batches(manifest[m])]
              /\ n = m => ~Compacting(n)
  <2>1. CASE \E m \in Namespaces : BeginDestroy(t, m)
    <3>1. PICK m \in Namespaces : BeginDestroy(t, m)
      BY <2>1
    <3> DEFINE c == [op |-> "destroy", ns |-> m, phase |-> "list"]
    <3>2. ~IsCompaction(c, n)
      BY DEF IsCompaction
    <3>3. /\ task' = [task EXCEPT ![t] = c] /\ UNCHANGED holds /\ Names' = Names
          /\ n \notin outrun
          /\ \/ manifest' = manifest /\ gone' = gone
             \/ /\ manifest' = [manifest EXCEPT ![m] = NoManifest]
                /\ gone' = [gone EXCEPT ![m] = @ \cup Batches(manifest[m])]
                /\ n = m => ~Compacting(n)
      BY <3>1 DEF BeginDestroy, Take, Names
    <3> HIDE DEF c
    <3> QED
      BY <3>2, <3>3
  <2>2. CASE Deletes(t)
    <3> DEFINE m == task[t].ns
    <3>1. UNCHANGED holds /\ Names' = Names
      BY <2>2, DeletingCall DEF Names
    <3>2. PICK c \in {Idle} \cup ToDelete(Names) : task' = [task EXCEPT ![t] = c]
      BY <2>2, DeletingCall
    <3>3. /\ n \notin outrun
          /\ \/ manifest' = manifest /\ gone' = gone
             \/ /\ manifest' = [manifest EXCEPT ![m] = NoManifest]
                /\ gone' = [gone EXCEPT ![m] = @ \cup Batches(manifest[m])]
                /\ n = m => ~Compacting(n)
      BY <2>2, DeletingState
    <3>4. ~IsCompaction(c, n)
      BY <3>2 DEF IsCompaction, Idle, ToDelete
    <3> HIDE DEF m
    <3> QED
      BY <3>1, <3>2, <3>3, <3>4
  <2> QED
    BY <2>1, <2>2
<1>2. Apart(n)
  BY <1>1 DEF ApartInv
<1>3. CASE n # m \/ (manifest' = manifest /\ gone' = gone)
  <2>1. manifest'[n] = manifest[n] /\ gone'[n] = gone[n]
    BY <1>1, <1>3 DEF TypeOK
  <2> QED
    BY <1>1, <1>2, <2>1, ApartQuiet
<1>4. CASE n = m /\ ~Compacting(n) /\ manifest' = [manifest EXCEPT ![m] = NoManifest]
  <2>1. Referenced(manifest'[n]) = {}
    BY <1>4, NoManifestType DEF TypeOK
  <2>2. \A u \in Tasks : ~IsCompaction(task[u], n)
    BY <1>1, <1>4 DEF Compacting
  <2>3. /\ Names \subseteq Names' /\ \A o \in Names : holds'[o] = holds[o]
        /\ \A o \in Referenced(manifest'[n]) : holds'[o] \cap gone'[n] = {}
    BY <1>1, <2>1
  <2>4. task' = [task EXCEPT ![t] = c] /\ ~IsCompaction(c, n)
    BY <1>1
  <2> QED
    BY <1>2, <2>2, <2>3, <2>4, ApartStep
<1> QED
  BY <1>1, <1>3, <1>4

LEMMA ApartNext == TypeOK /\ PendingInv /\ ApartInv /\ [Next]_vars => ApartInv'
<1> SUFFICES ASSUME TypeOK, PendingInv, ApartInv, [Next]_vars, NEW n \in Namespaces \ outrun'
             PROVE  Apart(n)'
  BY DEF ApartInv
<1>1. ASSUME NEW t \in Tasks, TaskStep(t) PROVE Apart(n)'
  <2>1. CASE PutWal(t) \/ BuildShards(t) \/ CommitWrite(t) \/ CommitCompact(t) \/ PutBranch(t)
    BY <2>1, ApartPutWal, ApartBuildShards, ApartCommit, ApartPutBranch
  <2>2. CASE (\E m \in Namespaces : BeginDestroy(t, m)) \/ Deletes(t)
    BY <2>2, ApartDestroy
  <2>3. CASE \E o \in DOMAIN holds : Copy(t, o)
    BY <2>3, ApartBegin DEF Names
  <2>4. CASE \/ \E m \in Namespaces : \/ BeginWrite(t, m) \/ BeginCompact(t, m)
                                      \/ \E dest \in Namespaces : BeginBranch(t, m, dest)
             \/ HeadDestination(t) \/ ListDoomed(t) \/ Fail(t)
    BY <2>4, ApartBegin
  <2> QED
    BY <1>1, <2>1, <2>2, <2>3, <2>4 DEF TaskStep, Deletes, Names
<1>2. CASE SweepStep \/ (\E m \in Namespaces : EvictIdle(m)) \/ UNCHANGED vars
  <2>1. UNCHANGED <<task, holds, manifest, gone, outrun>>
    BY <1>2 DEF SweepStep, BeginSweep, ListGarbage, DeleteGarbage, EndSweep, FailSweep,
                EvictIdle, vars, storage, ghosts
  <2>2. Apart(n)
    BY <2>1 DEF ApartInv
  <2> QED
    BY <2>1, <2>2 DEF Apart, Batches, Referenced, IsCompaction
<1>3. CASE Restart
  <2>1. task' = [t \in Tasks |-> Idle] /\ UNCHANGED <<holds, manifest, gone, outrun>>
    BY <1>3 DEF Restart, storage, ghosts
  <2>2. Apart(n)
    BY <2>1 DEF ApartInv
  <2>3. \A t \in Tasks : ~IsCompaction(task'[t], n)
    BY <2>1 DEF IsCompaction, Idle
  <2> QED
    BY <2>1, <2>2, <2>3 DEF Apart, Batches, Referenced, IsCompaction
<1> QED
  BY <1>1, <1>2, <1>3 DEF Next

\* What was in a namespace when it was destroyed does not come back with a write
\* or a branch that was under way (commit_records' and branch's PutMode).
THEOREM DestroyedIsGone == Spec => []DestroyedStaysGone
<1>1. Init => PendingInv /\ ApartInv
  <2> SUFFICES ASSUME Init PROVE PendingInv /\ ApartInv
    OBVIOUS
  <2>1. \A t \in Tasks : task[t] = Idle
    BY DEF Init
  <2>2. PendingInv
    BY <2>1, IdlePending DEF PendingInv
  <2>3. \A n \in Namespaces : Referenced(manifest[n]) = {}
    BY NoManifestType DEF Init
  <2>4. ApartInv
    BY <2>1, <2>3 DEF ApartInv, Apart, Batches, IsCompaction, Idle
  <2> QED
    BY <2>2, <2>4
<1>2. ApartInv => DestroyedStaysGone
  BY DEF ApartInv, Apart, DestroyedStaysGone
<1> QED
  BY <1>1, <1>2, PendingNext, ApartNext, TypeInvariant, PTL DEF Spec

=============================================================================
