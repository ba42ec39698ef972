-------------------------- MODULE NamespaceProofs --------------------------
(***************************************************************************)
(* Proofs about the commit protocol of module Namespace, for any number of *)
(* nodes, batches, object names, compactions, sweeps and faults: the types,*)
(* then the safety properties, from the invariants of module               *)
(* NamespaceInvariants.  First what a step can do to the store and to the  *)
(* manifests that tasks hold, whatever task takes it; then one lemma for   *)
(* each invariant; then the theorems.  After these, garbage collection:    *)
(* while the grace window outlasts a commit and a compaction, no sweep     *)
(* deletes an object that the manifest names, or will name.                *)
(*                                                                         *)
(* Then what readers of a manifest see: that a compaction which races      *)
(* commits, crashes and other compactions changes no document, since the   *)
(* documents of every manifest that is held anywhere are those after the   *)
(* commits it knows of, whatever part of them its segment has and its WAL  *)
(* repeats.                                                                *)
(*                                                                         *)
(* Last, what queries answer while the namespace is written, compacted and *)
(* swept (module NamespaceReads).  A query keeps the manifest it loaded,   *)
(* while others replace it; and the manifest may end up remembered by its  *)
(* node.  So the invariants of module NamespaceInvariants have to hold of  *)
(* it too, although no task of the namespace holds it.                     *)
(***************************************************************************)
EXTENDS NamespaceReads, NamespaceInvariants, DocumentsProofs, FiniteSetTheorems,
        FunctionTheorems, SequenceTheorems, TLAPS

---------------------------------------------------------------------------
\* Types.

LEMMA FreshNames ==
    ASSUME NEW seq
    PROVE  /\ WalNames \ DOMAIN body # {} =>
                FreshWalName(seq) \in WalNames \ DOMAIN body
           /\ DataNames \ DOMAIN body # {} =>
                FreshDataName \in DataNames \ DOMAIN body
  BY Zenon DEF FreshWalName, FreshDataName

LEMMA IdleTypes ==
    /\ DefaultManifest \in Manifest
    /\ NoWrite \in WriterState
    /\ NoCompaction \in CompactorState
    /\ NoSweep \in CollectorState
<1>1. DefaultManifest \in Manifest
  BY Zenon DEF DefaultManifest, Manifest, Shards
<1>2. 0 \in 0..MAX_CAS_ATTEMPTS
  BY BoundsAssumption
<1> QED
  BY <1>1, <1>2 DEF NoWrite, NoCompaction, NoSweep, WriterState, CompactorState,
                    CollectorState, Shards

LEMMA IdleTasks ==
    NoWrite.pc = "idle" /\ NoCompaction.pc = "idle" /\ NoSweep.pc = "idle"
  BY DEF NoWrite, NoCompaction, NoSweep

TypeInv == TypeOK /\ BusyWriters

LEMMA InitType == Init => TypeInv
<1> SUFFICES ASSUME Init PROVE TypeInv
  OBVIOUS
<1>1. StoreTypeOK
  BY IdleTypes DEF Init, StoreTypeOK
<1>2. TasksTypeOK
  BY IdleTypes DEF Init, TasksTypeOK
<1>3. ClientsTypeOK
  BY DEF Init, ClientsTypeOK
<1>4. HistoryTypeOK
  <2>1. log \in Seq(Batches) /\ emptied \in BOOLEAN
    BY EmptySeq DEF Init
  <2>2. spent \in [compactions : Nat, sweeps : Nat, faults : Nat]
    BY DEF Init
  <2> QED
    BY <2>1, <2>2 DEF HistoryTypeOK
<1>5. BusyWriters
  BY DEF Init, BusyWriters, NoWrite
<1> QED
  BY <1>1, <1>2, <1>3, <1>4, <1>5 DEF TypeInv, TypeOK

---------------------------------------------------------------------------
\* What the shared pieces of the tasks preserve.

LEMMA RememberType ==
    ASSUME snapshot \in [Nodes -> Manifest \cup {NoManifest}],
           NEW node \in Nodes, NEW m \in Manifest, Remember(node, m)
    PROVE  snapshot' \in [Nodes -> Manifest \cup {NoManifest}]
  BY DEF Remember

LEMMA WithEntryType ==
    ASSUME NEW m \in Manifest, NEW name \in WalNames
    PROVE  /\ WithEntry(m, name) \in Manifest
           /\ WithEntry(m, name).ver = m.ver + 1
           /\ WithEntry(m, name).next_seq = m.next_seq + 1
           /\ WithEntry(m, name).wal = m.wal \cup {[seq |-> m.next_seq, name |-> name]}
           /\ WithEntry(m, name).shards = m.shards
  BY DEF Manifest, WalEntry, WithEntry

LEMMA FoldedType ==
    ASSUME NEW c \in CompactorState
    PROVE  /\ Folded(c) \in Manifest
           /\ Folded(c).ver = c.current.ver + 1
           /\ Folded(c).next_seq = c.current.next_seq
           /\ Folded(c).wal = {e \in c.current.wal : e.name \notin WalObjects(c.first)}
           /\ Folded(c).shards = c.built
<1>1. c.current \in Manifest /\ c.built \in Shards
  BY DEF CompactorState
<1> QED
  BY <1>1 DEF Folded, Manifest

LEMMA FaultType ==
    ASSUME HistoryTypeOK, Fault, UNCHANGED <<log, emptied>>
    PROVE  HistoryTypeOK'
  BY DEF HistoryTypeOK, Fault

LEMMA PutWalType ==
    ASSUME StoreTypeOK, NEW name \in WalNames, NEW b \in Batches,
           PutObject(name, b), UNCHANGED manifest
    PROVE  StoreTypeOK'
  BY NamesAssumption DEF StoreTypeOK, PutObject

LEMMA AnswerType ==
    ASSUME ClientsTypeOK, NEW b \in Batches, AnswerError(b), UNCHANGED <<submitted, acked>>
    PROVE  ClientsTypeOK'
  BY DEF ClientsTypeOK, AnswerError

\* The types of a writer's step: it changes its own record, to one that keeps
\* its promises, and no name is forgotten.
LEMMA WriterRecord ==
    ASSUME TypeInv, NEW node \in Nodes, NEW w \in WriterState,
           writer' = [writer EXCEPT ![node] = w],
           DOMAIN body \subseteq DOMAIN body',
           w.pc # "idle" => w.batch \in Batches,
           w.pc = "cas" => w.name \in WalNames \cap DOMAIN body',
           w.pc = "won" => w.view.next_seq > 0
    PROVE  writer' \in [Nodes -> WriterState] /\ BusyWriters'
<1>1. writer \in [Nodes -> WriterState] /\ BusyWriters
  BY DEF TypeInv, TypeOK, TasksTypeOK
<1>2. writer'[node] = w /\ \A n \in Nodes \ {node} : writer'[n] = writer[n]
  BY <1>1
<1> QED
  BY <1>1, <1>2 DEF BusyWriters

---------------------------------------------------------------------------
\* The committer.

LEMMA TakeType ==
    ASSUME TypeInv, NEW node \in Nodes, NEW b \in Batches, WriterTake(node, b)
    PROVE  TypeInv'
<1>1. writer \in [Nodes -> WriterState] /\ snapshot \in [Nodes -> Manifest \cup {NoManifest}]
  BY DEF TypeInv, TypeOK, TasksTypeOK
<1> DEFINE w == [pc |-> IF snapshot[node] # NoManifest THEN "put" ELSE "get",
                 batch |-> b,
                 view |-> IF snapshot[node] # NoManifest THEN snapshot[node] ELSE DefaultManifest,
                 name |-> NoName, attempt |-> 1]
<1>2. w \in WriterState
  BY <1>1, IdleTypes, BoundsAssumption DEF WriterState
<1>3. writer' = [writer EXCEPT ![node] = w]
  BY DEF WriterTake
<1>4. writer' \in [Nodes -> WriterState] /\ BusyWriters'
  <2>1. UNCHANGED body
    BY DEF WriterTake, storeVars
  <2>2. w.batch = b /\ w.pc \in {"put", "get"}
    OBVIOUS
  <2> QED
    BY <1>2, <1>3, <2>1, <2>2, WriterRecord
<1>5. submitted' \subseteq Batches
  BY DEF WriterTake, TypeInv, TypeOK, ClientsTypeOK
<1> QED
  BY <1>4, <1>5 DEF WriterTake, TypeInv, TypeOK, StoreTypeOK, TasksTypeOK, ClientsTypeOK,
                    HistoryTypeOK, storeVars

LEMMA GetType ==
    ASSUME TypeInv, NEW node \in Nodes, WriterGet(node)
    PROVE  TypeInv'
<1>1. writer[node] \in WriterState /\ manifest \in Manifest /\ BusyWriters
  BY DEF TypeInv, TypeOK, TasksTypeOK, StoreTypeOK
<1> DEFINE w == [writer[node] EXCEPT !.pc = "got", !.view = manifest]
<1>2. w \in WriterState /\ w.pc = "got" /\ w.batch = writer[node].batch
  BY <1>1 DEF WriterState
<1>3. writer' = [writer EXCEPT ![node] = w]
  BY DEF WriterGet
<1>4. writer[node].batch \in Batches
  BY <1>1 DEF BusyWriters, WriterGet
<1>5. writer' \in [Nodes -> WriterState] /\ BusyWriters'
  <2>1. UNCHANGED body
    BY DEF WriterGet, storeVars
  <2> HIDE DEF w
  <2> QED
    BY <1>2, <1>3, <1>4, <2>1, WriterRecord
<1> QED
  BY <1>5 DEF WriterGet, TypeInv, TypeOK, StoreTypeOK, TasksTypeOK, ClientsTypeOK,
              HistoryTypeOK, storeVars, clientVars

LEMMA PutType ==
    ASSUME TypeInv, NEW node \in Nodes, WriterPut(node)
    PROVE  TypeInv'
<1> DEFINE name == FreshWalName(writer[node].view.next_seq)
           w == [writer[node] EXCEPT !.pc = "cas", !.name = name]
<1>1. name \in WalNames \ DOMAIN body
  BY FreshNames DEF WriterPut
<1>2. writer[node] \in WriterState /\ BusyWriters /\ StoreTypeOK
  BY DEF TypeInv, TypeOK, TasksTypeOK
<1>3. writer[node].batch \in Batches
  BY <1>2 DEF BusyWriters, WriterPut
<1>4. PutObject(name, writer[node].batch) /\ writer' = [writer EXCEPT ![node] = w]
  BY DEF WriterPut
<1> HIDE DEF name
<1>5. w \in WriterState /\ w.pc = "cas" /\ w.batch = writer[node].batch /\ w.name = name
  BY <1>1, <1>2 DEF WriterState
<1> HIDE DEF w
<1>6. DOMAIN body' = DOMAIN body \cup {name}
  BY <1>4 DEF PutObject
<1>7. writer' \in [Nodes -> WriterState] /\ BusyWriters'
  BY <1>1, <1>3, <1>4, <1>5, <1>6, WriterRecord
<1>8. StoreTypeOK'
  BY <1>1, <1>2, <1>3, <1>4, PutWalType DEF WriterPut
<1>9. snapshot' \in [Nodes -> Manifest \cup {NoManifest}]
  BY <1>2, RememberType DEF WriterPut, TypeInv, TypeOK, TasksTypeOK, WriterState
<1> QED
  BY <1>7, <1>8, <1>9 DEF WriterPut, TypeInv, TypeOK, TasksTypeOK, ClientsTypeOK,
                          HistoryTypeOK, clientVars

LEMMA CommitType ==
    ASSUME TypeInv, NEW node \in Nodes, writer[node].pc = "cas",
           manifest' = WithEntry(writer[node].view, writer[node].name),
           log' = Append(log, writer[node].batch),
           UNCHANGED <<body, stored>>
    PROVE  /\ StoreTypeOK'
           /\ log' \in Seq(Batches)
<1>1. writer[node] \in WriterState /\ BusyWriters /\ log \in Seq(Batches) /\ StoreTypeOK
  BY DEF TypeInv, TypeOK, TasksTypeOK, HistoryTypeOK
<1>2. writer[node].view \in Manifest /\ writer[node].name \in WalNames /\ writer[node].batch \in Batches
  BY <1>1 DEF BusyWriters, WriterState
<1>3. log' \in Seq(Batches)
  BY <1>1, <1>2, AppendProperties
<1>4. manifest' \in Manifest
  BY <1>2, WithEntryType
<1> QED
  BY <1>1, <1>3, <1>4 DEF StoreTypeOK

LEMMA CasType ==
    ASSUME TypeInv, NEW node \in Nodes, WriterCas(node)
    PROVE  TypeInv'
<1>1. writer[node] \in WriterState /\ BusyWriters /\ writer[node].pc = "cas"
  BY DEF TypeInv, TypeOK, TasksTypeOK, WriterCas
<1>2. writer[node].view \in Manifest /\ writer[node].name \in WalNames /\ writer[node].batch \in Batches
  BY <1>1 DEF BusyWriters, WriterState
<1> DEFINE next == WithEntry(writer[node].view, writer[node].name)
<1>3. next \in Manifest /\ next.next_seq > 0
  BY <1>2, WithEntryType DEF Manifest
<1>4. StoreTypeOK' /\ log' \in Seq(Batches)
  <2>1. UNCHANGED <<manifest, log>> => StoreTypeOK' /\ log' \in Seq(Batches)
    BY DEF WriterCas, TypeInv, TypeOK, StoreTypeOK, HistoryTypeOK
  <2> QED
    BY <1>1, <2>1, CommitType DEF WriterCas
<1>5. writer' \in [Nodes -> WriterState] /\ BusyWriters'
  <2> DEFINE won == [writer[node] EXCEPT !.pc = "won", !.view = next]
             lost == [writer[node] EXCEPT !.pc = "lost"]
  <2>1. \/ writer' = [writer EXCEPT ![node] = won]
        \/ writer' = [writer EXCEPT ![node] = lost]
    BY DEF WriterCas
  <2>2. UNCHANGED body
    BY DEF WriterCas
  <2> HIDE DEF next
  <2>3. won \in WriterState /\ won.pc = "won" /\ won.batch = writer[node].batch /\ won.view = next
    BY <1>1, <1>3 DEF WriterState
  <2>4. lost \in WriterState /\ lost.pc = "lost" /\ lost.batch = writer[node].batch
    BY <1>1 DEF WriterState
  <2> HIDE DEF won, lost
  <2> QED
    BY <1>2, <1>3, <2>1, <2>2, <2>3, <2>4, WriterRecord
<1> QED
  BY <1>4, <1>5 DEF WriterCas, TypeInv, TypeOK, TasksTypeOK, ClientsTypeOK,
                    HistoryTypeOK, clientVars

LEMMA WonType ==
    ASSUME TypeInv, NEW node \in Nodes, WriterWon(node)
    PROVE  TypeInv'
<1>1. writer[node] \in WriterState /\ BusyWriters /\ TasksTypeOK /\ ClientsTypeOK
  BY DEF TypeInv, TypeOK, TasksTypeOK
<1>2. writer[node].view \in Manifest /\ writer[node].batch \in Batches
  BY <1>1 DEF BusyWriters, WriterState, WriterWon
<1>3. writer[node].view.next_seq - 1 \in Nat
  BY <1>1, <1>2 DEF BusyWriters, Manifest, WriterWon
<1>4. ClientsTypeOK'
  BY <1>1, <1>2, <1>3 DEF WriterWon, ClientsTypeOK
<1>5. writer' \in [Nodes -> WriterState] /\ BusyWriters'
  <2>1. UNCHANGED body /\ writer' = [writer EXCEPT ![node] = NoWrite]
    BY DEF WriterWon, storeVars
  <2> QED
    BY <2>1, IdleTypes, IdleTasks, WriterRecord
<1>6. snapshot' \in [Nodes -> Manifest \cup {NoManifest}]
  BY <1>1, <1>2, RememberType DEF WriterWon, TasksTypeOK
<1> QED
  BY <1>4, <1>5, <1>6 DEF WriterWon, TypeInv, TypeOK, StoreTypeOK, TasksTypeOK,
                          HistoryTypeOK, storeVars

LEMMA LostType ==
    ASSUME TypeInv, NEW node \in Nodes, WriterLost(node)
    PROVE  TypeInv'
<1>1. writer[node] \in WriterState /\ BusyWriters /\ TasksTypeOK /\ ClientsTypeOK
  BY DEF TypeInv, TypeOK, TasksTypeOK
<1>2. writer[node].batch \in Batches
  BY <1>1 DEF BusyWriters, WriterLost
<1>3. writer' \in [Nodes -> WriterState] /\ BusyWriters'
  <2>1. UNCHANGED body
    BY DEF WriterLost, storeVars
  <2>a. CASE writer' = [writer EXCEPT ![node] = NoWrite]
    BY <2>1, <2>a, IdleTypes, IdleTasks, WriterRecord
  <2>b. CASE MayRetry(writer[node].attempt) /\ writer' = [writer EXCEPT ![node] =
                [writer[node] EXCEPT !.pc = "get", !.view = DefaultManifest,
                          !.name = NoName, !.attempt = writer[node].attempt + 1]]
    <3>1. writer[node].attempt + 1 \in 0..MAX_CAS_ATTEMPTS
      BY <1>1, <2>b, BoundsAssumption DEF WriterState, MayRetry
    <3> DEFINE w == [writer[node] EXCEPT !.pc = "get", !.view = DefaultManifest,
                          !.name = NoName, !.attempt = writer[node].attempt + 1]
    <3>2. w \in WriterState /\ w.pc = "get" /\ w.batch = writer[node].batch
      <4> DEFINE k == writer[node].attempt + 1
      <4> HIDE DEF k
      <4>1. [writer[node] EXCEPT !.pc = "get", !.view = DefaultManifest,
                          !.name = NoName, !.attempt = k] \in WriterState
        BY <1>1, <3>1, IdleTypes DEF WriterState, k
      <4>2. w.pc = "get" /\ w.batch = writer[node].batch
        BY <1>1 DEF WriterState
      <4> QED
        BY <4>1, <4>2 DEF k
    <3> HIDE DEF w
    <3> QED
      BY <1>2, <2>1, <2>b, <3>2, WriterRecord DEF w
  <2> QED
    BY <2>a, <2>b DEF WriterLost
<1>4. snapshot' \in [Nodes -> Manifest \cup {NoManifest}]
  BY <1>1 DEF WriterLost, TasksTypeOK
<1>5. ClientsTypeOK'
  BY <1>1, <1>2, AnswerType DEF WriterLost, ClientsTypeOK
<1> QED
  BY <1>3, <1>4, <1>5 DEF WriterLost, TypeInv, TypeOK, StoreTypeOK, TasksTypeOK,
                          HistoryTypeOK, storeVars

LEMMA ErrorType ==
    ASSUME TypeInv, NEW node \in Nodes, WriterError(node)
    PROVE  TypeInv'
<1>1. writer[node] \in WriterState /\ BusyWriters /\ TasksTypeOK /\ ClientsTypeOK
  BY DEF TypeInv, TypeOK, TasksTypeOK
<1>2. writer[node].batch \in Batches /\ writer[node].view \in Manifest
  BY <1>1 DEF BusyWriters, WriterError, WriterState
<1>3. writer' \in [Nodes -> WriterState] /\ BusyWriters'
  <2>1. UNCHANGED body /\ writer' = [writer EXCEPT ![node] = NoWrite]
    BY DEF WriterError, storeVars
  <2> QED
    BY <2>1, IdleTypes, IdleTasks, WriterRecord
<1>4. snapshot' \in [Nodes -> Manifest \cup {NoManifest}]
  BY <1>1, <1>2, RememberType DEF WriterError, TasksTypeOK
<1>5. ClientsTypeOK' /\ HistoryTypeOK'
  BY <1>1, <1>2, AnswerType, FaultType DEF WriterError, TypeInv, TypeOK
<1> QED
  BY <1>3, <1>4, <1>5 DEF WriterError, TypeInv, TypeOK, StoreTypeOK, TasksTypeOK, storeVars

LEMMA UnsureType ==
    ASSUME TypeInv, NEW node \in Nodes, WriterUnsure(node)
    PROVE  TypeInv'
<1>1. writer[node] \in WriterState /\ BusyWriters /\ TasksTypeOK /\ ClientsTypeOK /\ HistoryTypeOK
  BY DEF TypeInv, TypeOK, TasksTypeOK
<1>2. writer[node].batch \in Batches
  BY <1>1 DEF BusyWriters, WriterUnsure
<1>3. writer' \in [Nodes -> WriterState] /\ BusyWriters'
  <2>1. UNCHANGED body /\ writer' = [writer EXCEPT ![node] = NoWrite]
    BY DEF WriterUnsure
  <2> QED
    BY <2>1, IdleTypes, IdleTasks, WriterRecord
<1>4. StoreTypeOK' /\ log' \in Seq(Batches)
  BY CommitType DEF WriterUnsure
<1>5. HistoryTypeOK'
  BY <1>1, <1>4 DEF HistoryTypeOK, WriterUnsure, Fault
<1>6. ClientsTypeOK'
  BY <1>1, <1>2, AnswerType DEF WriterUnsure
<1> QED
  BY <1>3, <1>4, <1>5, <1>6 DEF WriterUnsure, TypeInv, TypeOK, TasksTypeOK

---------------------------------------------------------------------------
\* Compaction.

CompactorPcs == {"idle", "first", "again", "second", "load", "check", "cas", "won"}

\* A step of a compaction changes its own record only.
LEMMA CompactionType ==
    ASSUME TypeInv, NEW node \in Nodes, NEW c \in CompactorState,
           NEW pc \in CompactorPcs, Compaction(node, pc, c)
    PROVE  /\ compactor' \in [Nodes -> CompactorState]
           /\ compactor'[node].pc = pc
           /\ compactor'[node].first = c.first
           /\ compactor'[node].second = c.second
           /\ compactor'[node].current = c.current
           /\ compactor'[node].built = c.built
           /\ \A n \in Nodes \ {node} : compactor'[n] = compactor[n]
<1>1. compactor \in [Nodes -> CompactorState]
  BY DEF TypeInv, TypeOK, TasksTypeOK
<1> DEFINE d == [c EXCEPT !.pc = pc]
<1>2. /\ d \in CompactorState
      /\ d.pc = pc /\ d.first = c.first /\ d.second = c.second
      /\ d.current = c.current /\ d.built = c.built
  BY DEF CompactorState, CompactorPcs
<1>3. compactor' = [compactor EXCEPT ![node] = d]
  BY DEF Compaction
<1> HIDE DEF d
<1> QED
  BY <1>1, <1>2, <1>3

\* The parts of the type invariant that no compaction step touches.
LEMMA CompactorFrame ==
    ASSUME TypeInv, compactor' \in [Nodes -> CompactorState],
           snapshot' \in [Nodes -> Manifest \cup {NoManifest}],
           StoreTypeOK', HistoryTypeOK', DOMAIN body \subseteq DOMAIN body',
           CompactorUnchanged
    PROVE  TypeInv'
<1>1. BusyWriters'
  BY DEF TypeInv, BusyWriters, CompactorUnchanged
<1> QED
  BY <1>1 DEF CompactorUnchanged, TypeInv, TypeOK, TasksTypeOK, ClientsTypeOK, clientVars

LEMMA StoreFrame ==
    ASSUME TypeInv, UNCHANGED storeVars
    PROVE  StoreTypeOK' /\ DOMAIN body' = DOMAIN body
  BY DEF TypeInv, TypeOK, StoreTypeOK, storeVars

LEMMA HistoryFrame ==
    ASSUME TypeInv, UNCHANGED <<log, emptied, spent>>
    PROVE  HistoryTypeOK'
  BY DEF TypeInv, TypeOK, HistoryTypeOK

LEMMA CompactorHeld ==
    ASSUME TypeInv, NEW node \in Nodes
    PROVE  /\ compactor \in [Nodes -> CompactorState]
           /\ compactor[node] \in CompactorState
           /\ compactor[node].first \in Manifest
           /\ compactor[node].second \in Manifest
           /\ compactor[node].current \in Manifest
           /\ compactor[node].built \in Shards
           /\ snapshot \in [Nodes -> Manifest \cup {NoManifest}]
           /\ manifest \in Manifest
  BY DEF TypeInv, TypeOK, TasksTypeOK, StoreTypeOK, CompactorState

LEMMA StartType ==
    ASSUME TypeInv, NEW node \in Nodes, CompactorStart(node)
    PROVE  TypeInv'
<1> DEFINE c == [NoCompaction EXCEPT !.first = manifest]
<1>1. c \in CompactorState
  BY CompactorHeld, IdleTypes DEF CompactorState
<1>2. compactor' \in [Nodes -> CompactorState]
  BY <1>1, CompactionType DEF CompactorStart, CompactorPcs
<1>3. HistoryTypeOK'
  BY DEF CompactorStart, HistoryTypeOK, TypeInv, TypeOK
<1> QED
  BY <1>2, <1>3, CompactorHeld, StoreFrame, CompactorFrame DEF CompactorStart

LEMMA PlanType ==
    ASSUME TypeInv, NEW node \in Nodes, CompactorPlan(node)
    PROVE  TypeInv'
<1>1. compactor' \in [Nodes -> CompactorState]
  <2>1. CASE compactor' = [compactor EXCEPT ![node] = NoCompaction]
    BY <2>1, IdleTypes, CompactorHeld
  <2>2. CASE Compaction(node, "again", compactor[node])
    BY <2>2, CompactorHeld, CompactionType DEF CompactorPcs
  <2> QED
    BY <2>1, <2>2 DEF CompactorPlan
<1>2. snapshot' \in [Nodes -> Manifest \cup {NoManifest}]
  BY CompactorHeld, RememberType DEF CompactorPlan
<1> QED
  BY <1>1, <1>2, StoreFrame, HistoryFrame, CompactorFrame DEF CompactorPlan

LEMMA ReloadType ==
    ASSUME TypeInv, NEW node \in Nodes, CompactorReload(node)
    PROVE  TypeInv'
<1> DEFINE c == [compactor[node] EXCEPT !.second = manifest]
<1>1. c \in CompactorState
  BY CompactorHeld DEF CompactorState
<1>2. compactor' \in [Nodes -> CompactorState]
  BY <1>1, CompactionType DEF CompactorReload, CompactorPcs
<1> QED
  BY <1>2, CompactorHeld, StoreFrame, HistoryFrame, CompactorFrame DEF CompactorReload

LEMMA BuiltType ==
    ASSUME NEW c \in CompactorState, NEW shards \in Shards
    PROVE  /\ Built(c, shards) \in CompactorState
           /\ Built(c, shards).first = c.first
           /\ Built(c, shards).second = DefaultManifest
           /\ Built(c, shards).current = c.current
           /\ Built(c, shards).built = shards
<1>1. 1 \in 0..MAX_CAS_ATTEMPTS
  BY BoundsAssumption
<1>2. Built(c, shards) \in CompactorState
  BY <1>1, IdleTypes DEF CompactorState, Built
<1> QED
  BY <1>2 DEF CompactorState, Built

LEMMA PutDataType ==
    ASSUME StoreTypeOK, NEW name \in DataNames, NEW docs, NEW covers,
           PutObject(name, [docs |-> docs, covers |-> covers]), UNCHANGED manifest
    PROVE  StoreTypeOK' /\ DOMAIN body' = DOMAIN body \cup {name}
<1> DEFINE segment == [docs |-> docs, covers |-> covers]
<1>1. DOMAIN segment = {"docs", "covers"}
  OBVIOUS
<1> HIDE DEF segment
<1>2. PutObject(name, segment)
  BY DEF segment
<1> QED
  BY <1>1, <1>2, NamesAssumption DEF StoreTypeOK, PutObject

LEMMA BuildType ==
    ASSUME TypeInv, NEW node \in Nodes, CompactorBuild(node)
    PROVE  TypeInv'
<1> DEFINE c == compactor[node]
           docs == LiveIn(c.second)
           covers == Covered(c.second)
<1>1. \/ /\ Compaction(node, "load", Built(c, EmptyShard))
         /\ UNCHANGED <<body, stored>>
      \/ /\ FreshDataName \in DataNames
         /\ PutObject(FreshDataName, [docs |-> docs, covers |-> covers])
         /\ Compaction(node, "load", Built(c, FreshDataName))
  BY FreshNames DEF CompactorBuild
<1>2. UNCHANGED <<manifest, log, spent>> /\ CompactorUnchanged /\ emptied' \in BOOLEAN
  BY DEF CompactorBuild, TypeInv, TypeOK, HistoryTypeOK
<1>3. compactor' \in [Nodes -> CompactorState]
  BY <1>1, CompactorHeld, BuiltType, CompactionType DEF CompactorPcs, Shards
<1>4. StoreTypeOK' /\ DOMAIN body \subseteq DOMAIN body'
  <2>1. UNCHANGED <<manifest, body, stored>> => StoreTypeOK' /\ DOMAIN body \subseteq DOMAIN body'
    BY StoreFrame DEF storeVars
  <2> HIDE DEF docs, covers
  <2> QED
    BY <1>1, <1>2, <2>1, PutDataType DEF TypeInv, TypeOK
<1>5. HistoryTypeOK'
  BY <1>2 DEF HistoryTypeOK, TypeInv, TypeOK
<1>6. snapshot' \in [Nodes -> Manifest \cup {NoManifest}]
  BY CompactorHeld, RememberType DEF CompactorBuild
<1> QED
  BY <1>2, <1>3, <1>4, <1>5, <1>6, CompactorFrame

LEMMA LoadType ==
    ASSUME TypeInv, NEW node \in Nodes, CompactorLoad(node)
    PROVE  TypeInv'
<1> DEFINE c == [compactor[node] EXCEPT !.current = manifest]
<1>1. c \in CompactorState
  BY CompactorHeld DEF CompactorState
<1>2. compactor' \in [Nodes -> CompactorState]
  BY <1>1, CompactionType DEF CompactorLoad, CompactorPcs
<1> QED
  BY <1>2, CompactorHeld, StoreFrame, HistoryFrame, CompactorFrame DEF CompactorLoad

LEMMA CheckType ==
    ASSUME TypeInv, NEW node \in Nodes, CompactorCheck(node)
    PROVE  TypeInv'
<1>1. compactor' \in [Nodes -> CompactorState]
  <2>1. CASE compactor' = [compactor EXCEPT ![node] = NoCompaction]
    BY <2>1, IdleTypes, CompactorHeld
  <2>2. CASE Compaction(node, "cas", compactor[node])
    BY <2>2, CompactorHeld, CompactionType DEF CompactorPcs
  <2> QED
    BY <2>1, <2>2 DEF CompactorCheck
<1>2. snapshot' \in [Nodes -> Manifest \cup {NoManifest}]
  BY CompactorHeld, RememberType DEF CompactorCheck
<1> QED
  BY <1>1, <1>2, StoreFrame, HistoryFrame, CompactorFrame DEF CompactorCheck

\* A landed compaction leaves a manifest.
LEMMA LandedType ==
    ASSUME TypeInv, NEW node \in Nodes, CompactionLands(compactor[node]),
           UNCHANGED <<body, stored>>
    PROVE  StoreTypeOK'
  BY CompactorHeld, FoldedType DEF CompactionLands, TypeInv, TypeOK, StoreTypeOK

LEMMA CompactorCasType ==
    ASSUME TypeInv, NEW node \in Nodes, CompactorCas(node)
    PROVE  TypeInv'
<1> DEFINE c == compactor[node]
<1>1. c \in CompactorState
  BY CompactorHeld
<1>2. UNCHANGED <<body, stored, snapshot, log, emptied, spent>> /\ CompactorUnchanged
  BY DEF CompactorCas
<1>3. compactor' \in [Nodes -> CompactorState]
  <2>1. CASE Compaction(node, "won", [c EXCEPT !.current = Folded(c)])
    <3>1. [c EXCEPT !.current = Folded(c)] \in CompactorState
      <4>1. Folded(c) \in Manifest
        BY <1>1, FoldedType
      <4> DEFINE next == Folded(c)
      <4> HIDE DEF next
      <4>2. [c EXCEPT !.current = next] \in CompactorState
        BY <1>1, <4>1 DEF CompactorState, next
      <4> QED
        BY <4>2 DEF next
    <3> QED
      BY <2>1, <3>1, CompactionType DEF CompactorPcs
  <2>2. CASE compactor' = [compactor EXCEPT ![node] = NoCompaction]
    BY <2>2, IdleTypes, CompactorHeld
  <2>3. CASE MayRetry(c.attempt) /\ Compaction(node, "load", [c EXCEPT !.attempt = c.attempt + 1])
    <3> DEFINE k == c.attempt + 1
    <3>1. k \in 0..MAX_CAS_ATTEMPTS
      BY <1>1, <2>3, BoundsAssumption DEF CompactorState, MayRetry
    <3> HIDE DEF k
    <3>2. [c EXCEPT !.attempt = k] \in CompactorState
      BY <1>1, <3>1 DEF CompactorState
    <3> QED
      BY <2>3, <3>2, CompactionType DEF CompactorPcs, k
  <2> QED
    BY <2>1, <2>2, <2>3 DEF CompactorCas
<1>4. StoreTypeOK'
  <2>1. CASE UNCHANGED manifest
    BY <1>2, <2>1, StoreFrame DEF storeVars
  <2>2. CASE CompactionLands(c)
    BY <1>2, <2>2, LandedType
  <2> QED
    BY <2>1, <2>2 DEF CompactorCas
<1>5. HistoryTypeOK'
  BY <1>2, HistoryFrame
<1> QED
  BY <1>2, <1>3, <1>4, <1>5, CompactorHeld, CompactorFrame

\* The steps that end a compaction and remember at most one manifest.
LEMMA EndedType ==
    ASSUME TypeInv, NEW node \in Nodes, NEW m \in Manifest,
           Remember(node, m) \/ UNCHANGED snapshot,
           compactor' = [compactor EXCEPT ![node] = NoCompaction],
           UNCHANGED <<body, stored>>, StoreTypeOK', HistoryTypeOK', CompactorUnchanged
    PROVE  TypeInv'
<1>1. compactor' \in [Nodes -> CompactorState]
  BY IdleTypes, CompactorHeld
<1>2. snapshot' \in [Nodes -> Manifest \cup {NoManifest}]
  BY CompactorHeld, RememberType
<1> QED
  BY <1>1, <1>2, CompactorFrame

LEMMA CompactorEndTypes ==
    ASSUME TypeInv, NEW node \in Nodes,
           CompactorWon(node) \/ CompactorMissing(node) \/ CompactorError(node)
    PROVE  TypeInv'
<1>1. CASE CompactorWon(node)
  <2>1. UNCHANGED <<body, stored>>
    BY <1>1 DEF CompactorWon, storeVars
  <2> QED
    BY <1>1, <2>1, CompactorHeld, StoreFrame, HistoryFrame, EndedType DEF CompactorWon
<1>2. CASE CompactorMissing(node)
  <2>1. UNCHANGED <<body, stored>>
    BY <1>2 DEF CompactorMissing, storeVars
  <2> QED
    BY <1>2, <2>1, CompactorHeld, StoreFrame, HistoryFrame, EndedType DEF CompactorMissing
<1>3. CASE CompactorError(node)
  <2>1. StoreTypeOK'
    BY <1>3, StoreFrame, LandedType DEF CompactorError, storeVars
  <2>2. HistoryTypeOK'
    BY <1>3, FaultType DEF CompactorError, TypeInv, TypeOK
  <2> QED
    BY <1>3, <2>1, <2>2, CompactorHeld, EndedType DEF CompactorError
<1> QED
  BY <1>1, <1>2, <1>3

---------------------------------------------------------------------------
\* Garbage collection, and crashes.

LEMMA CollectorHeld ==
    ASSUME TypeInv, NEW node \in Nodes
    PROVE  /\ collector \in [Nodes -> CollectorState]
           /\ collector[node] \in CollectorState
           /\ collector[node].view \in Manifest
           /\ snapshot \in [Nodes -> Manifest \cup {NoManifest}]
           /\ stored \subseteq WalNames \cup DataNames
           /\ manifest \in Manifest
  BY DEF TypeInv, TypeOK, TasksTypeOK, StoreTypeOK, CollectorState

\* The parts of the type invariant that no step of a sweep touches.
LEMMA CollectorFrame ==
    ASSUME TypeInv, collector' \in [Nodes -> CollectorState],
           snapshot' \in [Nodes -> Manifest \cup {NoManifest}],
           UNCHANGED <<manifest, body, writer, compactor, clientVars>>,
           stored' \subseteq stored, HistoryTypeOK'
    PROVE  TypeInv'
<1>1. BusyWriters'
  BY DEF TypeInv, BusyWriters
<1>2. StoreTypeOK'
  BY DEF TypeInv, TypeOK, StoreTypeOK
<1> QED
  BY <1>1, <1>2 DEF TypeInv, TypeOK, TasksTypeOK, ClientsTypeOK, clientVars

LEMMA CollectorLoadType ==
    ASSUME TypeInv, NEW node \in Nodes, CollectorLoad(node)
    PROVE  TypeInv'
<1>1. PICK old \in SUBSET (stored \ Recent) :
          collector' = [collector EXCEPT ![node] =
              [NoSweep EXCEPT !.pc = "list", !.view = manifest, !.old = old]]
  BY DEF CollectorLoad
<1>2. old \subseteq WalNames \cup DataNames
  BY CollectorHeld
<1>3. [NoSweep EXCEPT !.pc = "list", !.view = manifest, !.old = old] \in CollectorState
  BY <1>2, CollectorHeld, IdleTypes DEF CollectorState
<1>4. collector' \in [Nodes -> CollectorState]
  BY <1>1, <1>3, CollectorHeld
<1>5. HistoryTypeOK'
  BY DEF CollectorLoad, TypeInv, TypeOK, HistoryTypeOK
<1> QED
  BY <1>4, <1>5, CollectorHeld, CollectorFrame DEF CollectorLoad, storeVars

LEMMA CollectorListType ==
    ASSUME TypeInv, NEW node \in Nodes, CollectorList(node)
    PROVE  TypeInv'
<1> DEFINE doomed == {n \in stored \cap collector[node].old :
                         n \notin Referenced(collector[node].view)}
           s == [NoSweep EXCEPT !.pc = "delete", !.doomed = doomed]
<1>1. doomed \subseteq WalNames \cup DataNames
  BY CollectorHeld
<1>2. collector' = [collector EXCEPT ![node] = s]
  BY DEF CollectorList
<1> HIDE DEF doomed
<1>3. s \in CollectorState
  BY <1>1, IdleTypes DEF CollectorState
<1>4. collector' \in [Nodes -> CollectorState]
  BY <1>2, <1>3, CollectorHeld
<1>5. snapshot' \in [Nodes -> Manifest \cup {NoManifest}]
  BY CollectorHeld, RememberType DEF CollectorList
<1> QED
  BY <1>4, <1>5, HistoryFrame, CollectorFrame DEF CollectorList, storeVars

LEMMA CollectorDeleteType ==
    ASSUME TypeInv, NEW node \in Nodes, CollectorDelete(node)
    PROVE  TypeInv'
<1>1. PICK n \in collector[node].doomed :
          /\ stored' = stored \ {n}
          /\ collector' = [collector EXCEPT ![node].doomed = @ \ {n}]
  BY DEF CollectorDelete
<1>2. collector' \in [Nodes -> CollectorState]
  BY <1>1, CollectorHeld DEF CollectorState
<1> QED
  BY <1>1, <1>2, CollectorHeld, HistoryFrame, CollectorFrame DEF CollectorDelete

LEMMA CollectorEndTypes ==
    ASSUME TypeInv, NEW node \in Nodes, CollectorDone(node) \/ CollectorError(node)
    PROVE  TypeInv'
<1>1. collector' \in [Nodes -> CollectorState]
  BY CollectorHeld, IdleTypes DEF CollectorDone, CollectorError
<1>2. snapshot' \in [Nodes -> Manifest \cup {NoManifest}]
  BY CollectorHeld, RememberType DEF CollectorDone, CollectorError
<1>3. HistoryTypeOK'
  BY HistoryFrame, FaultType DEF CollectorDone, CollectorError, TypeInv, TypeOK
<1> QED
  BY <1>1, <1>2, <1>3, CollectorFrame DEF CollectorDone, CollectorError, storeVars

LEMMA CrashType ==
    ASSUME TypeInv, NEW node \in Nodes, Crash(node)
    PROVE  TypeInv'
<1>1. writer' \in [Nodes -> WriterState] /\ BusyWriters'
  <2>1. UNCHANGED body /\ writer' = [writer EXCEPT ![node] = NoWrite]
    BY DEF Crash, storeVars
  <2> QED
    BY <2>1, IdleTypes, IdleTasks, WriterRecord
<1>2. /\ snapshot' \in [Nodes -> Manifest \cup {NoManifest}]
      /\ compactor' \in [Nodes -> CompactorState]
      /\ collector' \in [Nodes -> CollectorState]
  BY CompactorHeld, CollectorHeld, IdleTypes DEF Crash
<1>3. HistoryTypeOK'
  BY FaultType DEF Crash, TypeInv, TypeOK
<1>4. ClientsTypeOK' /\ StoreTypeOK'
  BY StoreFrame DEF Crash, TypeInv, TypeOK, ClientsTypeOK
<1> QED
  BY <1>1, <1>2, <1>3, <1>4 DEF TypeInv, TypeOK, TasksTypeOK

---------------------------------------------------------------------------
\* A step of the protocol is a step of one task of one node, or a crash.
LEMMA Tasks ==
    ASSUME [Next]_vars
    PROVE  \/ UNCHANGED vars
           \/ \E node \in Nodes : \E b \in Batches : WriterTake(node, b)
           \/ \E node \in Nodes :
                 \/ WriterGet(node) \/ WriterPut(node) \/ WriterCas(node)
                 \/ WriterWon(node) \/ WriterLost(node) \/ WriterError(node)
                 \/ WriterUnsure(node)
           \/ \E node \in Nodes :
                 \/ CompactorStart(node) \/ CompactorPlan(node) \/ CompactorReload(node)
                 \/ CompactorBuild(node) \/ CompactorLoad(node) \/ CompactorCheck(node)
                 \/ CompactorCas(node) \/ CompactorWon(node) \/ CompactorMissing(node)
                 \/ CompactorError(node)
           \/ \E node \in Nodes :
                 \/ CollectorLoad(node) \/ CollectorList(node) \/ CollectorDelete(node)
                 \/ CollectorDone(node) \/ CollectorError(node) \/ Crash(node)
<1>1. CASE \E node \in Committing : WriterNext(node)
  BY <1>1, NodesAssumption DEF WriterNext, WriterStep
<1>2. CASE \E node \in Compacting : CompactorNext(node)
  BY <1>2, NodesAssumption DEF CompactorNext, CompactorStep
<1>3. CASE \E node \in Collecting : CollectorNext(node)
  BY <1>3, NodesAssumption DEF CollectorNext, CollectorStep
<1> QED
  BY <1>1, <1>2, <1>3 DEF Next, TasksNext

LEMMA TypeStep == TypeInv /\ [Next]_vars => TypeInv'
<1> SUFFICES ASSUME TypeInv, [Next]_vars PROVE TypeInv'
  OBVIOUS
<1>1. CASE UNCHANGED vars
  BY <1>1 DEF vars, storeVars, TypeInv, TypeOK, StoreTypeOK, TasksTypeOK, ClientsTypeOK,
              HistoryTypeOK, BusyWriters
<1> QED
  BY <1>1, Tasks, TakeType, GetType, PutType, CasType, WonType, LostType, ErrorType,
     UnsureType, StartType, PlanType, ReloadType, BuildType, LoadType, CheckType,
     CompactorCasType, CompactorEndTypes, CollectorLoadType, CollectorListType,
     CollectorDeleteType, CollectorEndTypes, CrashType

\* The fields of the manifest, of the remembered manifests and of the tasks in
\* progress keep their shape through every race, fault and crash, and no retry
\* loop passes MAX_CAS_ATTEMPTS.
THEOREM TypeCorrect == Spec => []TypeOK
<1>1. TypeInv => TypeOK
  BY DEF TypeInv
<1> QED
  BY <1>1, InitType, TypeStep, PTL DEF Spec


---------------------------------------------------------------------------
\* The manifests held after a step were held before it, or are the new one.

SnapshotMoves(node) ==
    /\ \A n \in Nodes \ {node} : snapshot'[n] = snapshot[n]
    /\ snapshot'[node] \in Views \cup {NoManifest}

WriterMoves(node) ==
    /\ \A n \in Nodes \ {node} : writer'[n] = writer[n]
    /\ writer'[node].view \in Views \cup {manifest'}

CompactorMoves(node) ==
    /\ \A n \in Nodes \ {node} : compactor'[n] = compactor[n]
    /\ {compactor'[node].first, compactor'[node].second, compactor'[node].current}
          \subseteq Views \cup {manifest'}

CollectorMoves(node) ==
    /\ \A n \in Nodes \ {node} : collector'[n] = collector[n]
    /\ collector'[node].view \in Views \cup {manifest'}

Moves(node) ==
    SnapshotMoves(node) /\ WriterMoves(node) /\ CompactorMoves(node) /\ CollectorMoves(node)

LEMMA ViewsHeld ==
    ASSUME TypeInv
    PROVE  /\ Views \subseteq Manifest
           /\ manifest \in Views /\ DefaultManifest \in Views
           /\ \A n \in Nodes :
                 /\ snapshot[n] \in Views \cup {NoManifest}
                 /\ writer[n].view \in Views
                 /\ compactor[n].first \in Views
                 /\ compactor[n].second \in Views
                 /\ compactor[n].current \in Views
                 /\ collector[n].view \in Views
<1>1. manifest \in Manifest /\ DefaultManifest \in Manifest
  BY IdleTypes DEF TypeInv, TypeOK, StoreTypeOK
<1>2. ASSUME NEW n \in Nodes
      PROVE  /\ snapshot[n] \in Manifest \cup {NoManifest}
             /\ writer[n].view \in Manifest
             /\ compactor[n].first \in Manifest
             /\ compactor[n].second \in Manifest
             /\ compactor[n].current \in Manifest
             /\ collector[n].view \in Manifest
  BY CompactorHeld, CollectorHeld DEF TypeInv, TypeOK, TasksTypeOK, WriterState
<1> QED
  BY <1>1, <1>2, NoManifestAssumption DEF Views, ViewsAt

LEMMA ViewsStep ==
    ASSUME NEW node \in Nodes, Moves(node)
    PROVE  Views' \subseteq Views \cup {manifest', DefaultManifest}
<1> SUFFICES ASSUME NEW m \in Views', m # manifest', m # DefaultManifest
             PROVE  m \in Views
  OBVIOUS
<1>1. PICK n \in Nodes : m \in ViewsAt(n)' /\ m # NoManifest
  BY DEF Views
<1>2. CASE n = node
  BY <1>1, <1>2 DEF ViewsAt, Moves, SnapshotMoves, WriterMoves, CompactorMoves, CollectorMoves
<1>3. CASE n # node
  <2>1. ViewsAt(n)' = ViewsAt(n)
    BY <1>3 DEF ViewsAt, Moves, SnapshotMoves, WriterMoves, CompactorMoves, CollectorMoves
  <2> QED
    BY <1>1, <2>1 DEF Views
<1> QED
  BY <1>2, <1>3

LEMMA Still ==
    ASSUME TypeInv, NEW node \in Nodes
    PROVE  /\ UNCHANGED snapshot => SnapshotMoves(node)
           /\ UNCHANGED writer => WriterMoves(node)
           /\ UNCHANGED compactor => CompactorMoves(node)
           /\ UNCHANGED collector => CollectorMoves(node)
  BY ViewsHeld DEF SnapshotMoves, WriterMoves, CompactorMoves, CollectorMoves

LEMMA Stops ==
    ASSUME TypeInv, NEW node \in Nodes
    PROVE  /\ snapshot' = [snapshot EXCEPT ![node] = NoManifest] => SnapshotMoves(node)
           /\ writer' = [writer EXCEPT ![node] = NoWrite] => WriterMoves(node)
           /\ compactor' = [compactor EXCEPT ![node] = NoCompaction] => CompactorMoves(node)
           /\ collector' = [collector EXCEPT ![node] = NoSweep] => CollectorMoves(node)
<1>1. /\ snapshot \in [Nodes -> Manifest \cup {NoManifest}]
      /\ writer \in [Nodes -> WriterState]
      /\ compactor \in [Nodes -> CompactorState]
      /\ collector \in [Nodes -> CollectorState]
  BY DEF TypeInv, TypeOK, TasksTypeOK
<1>2. /\ NoWrite.view = DefaultManifest /\ NoSweep.view = DefaultManifest
      /\ NoCompaction.first = DefaultManifest /\ NoCompaction.second = DefaultManifest
      /\ NoCompaction.current = DefaultManifest
  BY DEF NoWrite, NoSweep, NoCompaction
<1> QED
  BY <1>1, <1>2, ViewsHeld DEF SnapshotMoves, WriterMoves, CompactorMoves, CollectorMoves

LEMMA Remembers ==
    ASSUME TypeInv, NEW node \in Nodes, NEW m \in Views, Remember(node, m)
    PROVE  SnapshotMoves(node)
  BY ViewsHeld DEF Remember, SnapshotMoves, TypeInv, TypeOK, TasksTypeOK

LEMMA WriterViews ==
    ASSUME TypeInv, NEW node \in Nodes,
           \/ \E b \in Batches : WriterTake(node, b)
           \/ WriterGet(node) \/ WriterPut(node) \/ WriterCas(node) \/ WriterWon(node)
           \/ WriterLost(node) \/ WriterError(node) \/ WriterUnsure(node)
    PROVE  Moves(node)
<1>1. writer \in [Nodes -> WriterState] /\ snapshot \in [Nodes -> Manifest \cup {NoManifest}]
  BY DEF TypeInv, TypeOK, TasksTypeOK
<1>2. UNCHANGED <<compactor, collector>>
  BY DEF WriterTake, WriterGet, WriterPut, WriterCas, WriterWon, WriterLost, WriterError,
         WriterUnsure
<1>3. SnapshotMoves(node)
  <2>1. \/ UNCHANGED snapshot
        \/ Remember(node, writer[node].view)
        \/ snapshot' = [snapshot EXCEPT ![node] = NoManifest]
    BY DEF WriterTake, WriterGet, WriterPut, WriterCas, WriterWon, WriterLost, WriterError,
           WriterUnsure
  <2> QED
    BY <2>1, ViewsHeld, Still, Stops, Remembers
<1>4. WriterMoves(node)
  <2>1. CASE \E b \in Batches : WriterTake(node, b)
    BY <1>1, <2>1, ViewsHeld DEF WriterTake, WriterMoves
  <2>2. CASE WriterGet(node)
    BY <1>1, <2>2, ViewsHeld DEF WriterGet, WriterMoves, WriterState
  <2>3. CASE WriterPut(node)
    BY <1>1, <2>3, ViewsHeld DEF WriterPut, WriterMoves, WriterState
  <2>4. CASE WriterCas(node)
    BY <1>1, <2>4, ViewsHeld DEF WriterCas, WriterMoves, WriterState
  <2>5. CASE WriterLost(node)
    BY <1>1, <2>5, Stops, ViewsHeld DEF WriterLost, WriterMoves, WriterState
  <2>6. CASE WriterWon(node) \/ WriterError(node) \/ WriterUnsure(node)
    BY <2>6, Stops DEF WriterWon, WriterError, WriterUnsure
  <2> QED
    BY <2>1, <2>2, <2>3, <2>4, <2>5, <2>6
<1> QED
  BY <1>2, <1>3, <1>4, Still DEF Moves

\* What a compaction holds after its conditional PUT.
LEMMA CasFields ==
    ASSUME TypeInv, NEW node \in Nodes, CompactorCas(node)
    PROVE  /\ \A n \in Nodes \ {node} : compactor'[n] = compactor[n]
           /\ \/ /\ CompactionLands(compactor[node])
                 /\ compactor'[node].pc = "won"
                 /\ compactor'[node].current = manifest'
                 /\ compactor'[node].first = compactor[node].first
                 /\ compactor'[node].second = compactor[node].second
              \/ /\ UNCHANGED manifest
                 /\ compactor'[node].pc = "load"
                 /\ compactor'[node].current = compactor[node].current
                 /\ compactor'[node].first = compactor[node].first
                 /\ compactor'[node].second = compactor[node].second
                 /\ compactor'[node].built = compactor[node].built
              \/ /\ UNCHANGED manifest
                 /\ compactor' = [compactor EXCEPT ![node] = NoCompaction]
<1> DEFINE c == compactor[node]
<1>0. c \in CompactorState /\ compactor \in [Nodes -> CompactorState]
  BY CompactorHeld
<1>1. CASE CompactionLands(c) /\ Compaction(node, "won", [c EXCEPT !.current = Folded(c)])
  <2> DEFINE next == Folded(c)
  <2>1. next \in Manifest
    BY <1>0, FoldedType
  <2>2. manifest' = next
    BY <1>1 DEF CompactionLands
  <2> HIDE DEF next
  <2>3. /\ [c EXCEPT !.current = next] \in CompactorState
        /\ [c EXCEPT !.current = next].current = next
        /\ [c EXCEPT !.current = next].first = c.first
        /\ [c EXCEPT !.current = next].second = c.second
    BY <1>0, <2>1 DEF CompactorState
  <2>4. Compaction(node, "won", [c EXCEPT !.current = next])
    BY <1>1 DEF next
  <2> QED
    BY <1>1, <2>2, <2>3, <2>4, CompactionType DEF CompactorPcs
<1>2. CASE UNCHANGED manifest /\ compactor' = [compactor EXCEPT ![node] = NoCompaction]
  BY <1>0, <1>2
<1>3. CASE /\ UNCHANGED manifest /\ MayRetry(c.attempt)
           /\ Compaction(node, "load", [c EXCEPT !.attempt = c.attempt + 1])
  <2> DEFINE k == c.attempt + 1
  <2>1. k \in 0..MAX_CAS_ATTEMPTS
    BY <1>0, <1>3, BoundsAssumption DEF CompactorState, MayRetry
  <2> HIDE DEF k
  <2>2. /\ [c EXCEPT !.attempt = k] \in CompactorState
        /\ [c EXCEPT !.attempt = k].current = c.current
        /\ [c EXCEPT !.attempt = k].first = c.first
        /\ [c EXCEPT !.attempt = k].second = c.second
        /\ [c EXCEPT !.attempt = k].built = c.built
    BY <1>0, <2>1 DEF CompactorState
  <2>3. Compaction(node, "load", [c EXCEPT !.attempt = k])
    BY <1>3 DEF k
  <2> QED
    BY <1>3, <2>2, <2>3, CompactionType DEF CompactorPcs
<1> QED
  BY <1>1, <1>2, <1>3 DEF CompactorCas

LEMMA CompactorViews ==
    ASSUME TypeInv, NEW node \in Nodes,
           \/ CompactorStart(node) \/ CompactorPlan(node) \/ CompactorReload(node)
           \/ CompactorBuild(node) \/ CompactorLoad(node) \/ CompactorCheck(node)
           \/ CompactorCas(node) \/ CompactorWon(node) \/ CompactorMissing(node)
           \/ CompactorError(node)
    PROVE  Moves(node)
<1>2. UNCHANGED <<writer, collector>>
  BY DEF CompactorStart, CompactorPlan, CompactorReload, CompactorBuild, CompactorLoad,
         CompactorCheck, CompactorCas, CompactorWon, CompactorMissing, CompactorError,
         CompactorUnchanged
<1>3. SnapshotMoves(node)
  <2>1. \/ UNCHANGED snapshot
        \/ Remember(node, compactor[node].first)
        \/ Remember(node, compactor[node].second)
        \/ Remember(node, compactor[node].current)
    BY DEF CompactorStart, CompactorPlan, CompactorReload, CompactorBuild, CompactorLoad,
           CompactorCheck, CompactorCas, CompactorWon, CompactorMissing, CompactorError
  <2> QED
    BY <2>1, ViewsHeld, Still, Remembers
<1>4. CompactorMoves(node)
  <2> DEFINE c == compactor[node]
  <2>0. c \in CompactorState
    BY CompactorHeld
  <2>1. CASE compactor' = [compactor EXCEPT ![node] = NoCompaction]
    BY <2>1, Stops
  <2>2. ASSUME NEW d \in CompactorState, NEW pc \in CompactorPcs, Compaction(node, pc, d),
               {d.first, d.second, d.current} \subseteq Views \cup {manifest'}
        PROVE  CompactorMoves(node)
    BY <2>2, CompactionType DEF CompactorMoves
  <2>3. CASE CompactorStart(node)
    <3>1. /\ [NoCompaction EXCEPT !.first = manifest] \in CompactorState
          /\ [NoCompaction EXCEPT !.first = manifest].first = manifest
          /\ [NoCompaction EXCEPT !.first = manifest].second = DefaultManifest
          /\ [NoCompaction EXCEPT !.first = manifest].current = DefaultManifest
      BY CompactorHeld, IdleTypes DEF CompactorState, NoCompaction
    <3> QED
      BY <2>2, <2>3, <3>1, ViewsHeld DEF CompactorStart, CompactorPcs
  <2>4. CASE CompactorReload(node)
    <3>1. /\ [c EXCEPT !.second = manifest] \in CompactorState
          /\ [c EXCEPT !.second = manifest].first = c.first
          /\ [c EXCEPT !.second = manifest].second = manifest
          /\ [c EXCEPT !.second = manifest].current = c.current
      BY <2>0, CompactorHeld DEF CompactorState
    <3> QED
      BY <2>2, <2>4, <3>1, ViewsHeld DEF CompactorReload, CompactorPcs
  <2>5. CASE CompactorBuild(node)
    <3>1. \E shards \in Shards : Compaction(node, "load", Built(c, shards))
      BY <2>5, FreshNames DEF CompactorBuild, Shards
    <3> QED
      BY <2>0, <2>2, <3>1, BuiltType, ViewsHeld DEF CompactorPcs
  <2>6. CASE CompactorLoad(node)
    <3>1. /\ [c EXCEPT !.current = manifest] \in CompactorState
          /\ [c EXCEPT !.current = manifest].first = c.first
          /\ [c EXCEPT !.current = manifest].second = c.second
          /\ [c EXCEPT !.current = manifest].current = manifest
      BY <2>0, CompactorHeld DEF CompactorState
    <3> QED
      BY <2>2, <2>6, <3>1, ViewsHeld DEF CompactorLoad, CompactorPcs
  <2>7. CASE CompactorCas(node)
    BY <2>1, <2>7, CasFields, ViewsHeld DEF CompactorMoves
  <2>8. CASE CompactorPlan(node) \/ CompactorCheck(node)
    BY <2>0, <2>1, <2>2, <2>8, ViewsHeld DEF CompactorPlan, CompactorCheck, CompactorPcs
  <2>9. CASE CompactorWon(node) \/ CompactorMissing(node) \/ CompactorError(node)
    BY <2>1, <2>9 DEF CompactorWon, CompactorMissing, CompactorError
  <2> QED
    BY <2>3, <2>4, <2>5, <2>6, <2>7, <2>8, <2>9
<1> QED
  BY <1>2, <1>3, <1>4, Still DEF Moves

LEMMA OtherViews ==
    ASSUME TypeInv, NEW node \in Nodes,
           \/ CollectorLoad(node) \/ CollectorList(node) \/ CollectorDelete(node)
           \/ CollectorDone(node) \/ CollectorError(node) \/ Crash(node)
    PROVE  Moves(node)
<1>1. collector \in [Nodes -> CollectorState]
  BY DEF TypeInv, TypeOK, TasksTypeOK
<1>2. SnapshotMoves(node)
  <2>1. \/ UNCHANGED snapshot
        \/ Remember(node, collector[node].view)
        \/ snapshot' = [snapshot EXCEPT ![node] = NoManifest]
    BY DEF CollectorLoad, CollectorList, CollectorDelete, CollectorDone, CollectorError, Crash
  <2> QED
    BY <2>1, ViewsHeld, Still, Stops, Remembers
<1>3. WriterMoves(node) /\ CompactorMoves(node)
  BY Still, Stops DEF CollectorLoad, CollectorList, CollectorDelete, CollectorDone,
     CollectorError, Crash
<1>4. CollectorMoves(node)
  <2>1. CASE CollectorLoad(node)
    BY <1>1, <2>1, ViewsHeld DEF CollectorLoad, CollectorMoves, NoSweep
  <2>2. CASE CollectorList(node)
    BY <1>1, <2>2, ViewsHeld DEF CollectorList, CollectorMoves, NoSweep
  <2>3. CASE CollectorDelete(node)
    BY <1>1, <2>3, ViewsHeld DEF CollectorDelete, CollectorMoves, CollectorState
  <2>4. CASE CollectorDone(node) \/ CollectorError(node) \/ Crash(node)
    BY <2>4, Stops DEF CollectorDone, CollectorError, Crash
  <2> QED
    BY <2>1, <2>2, <2>3, <2>4
<1> QED
  BY <1>2, <1>3, <1>4 DEF Moves

LEMMA StepMoves ==
    ASSUME TypeInv, [Next]_vars
    PROVE  UNCHANGED vars \/ \E node \in Nodes : Moves(node)
  BY Tasks, WriterViews, CompactorViews, OtherViews

LEMMA OldOrNew ==
    ASSUME TypeInv, [Next]_vars
    PROVE  Views' \subseteq Views \cup {manifest'}
<1>1. CASE UNCHANGED vars
  BY <1>1 DEF vars, storeVars, Views, ViewsAt
<1> QED
  BY <1>1, StepMoves, ViewsStep, ViewsHeld

---------------------------------------------------------------------------
\* What a step does to the store.

\* Objects are only added, under names never used before.
BodyGrows ==
    DOMAIN body \subseteq DOMAIN body' /\ \A n \in DOMAIN body : body'[n] = body[n]

LEMMA Objects ==
    ASSUME TypeInv, [Next]_vars
    PROVE  BodyGrows
<1>1. ASSUME NEW name, NEW contents, name \notin DOMAIN body, PutObject(name, contents)
      PROVE  BodyGrows
  BY <1>1 DEF PutObject, BodyGrows
<1>2. UNCHANGED body => BodyGrows
  BY DEF BodyGrows
<1>3. ASSUME NEW node \in Nodes, WriterPut(node) PROVE BodyGrows
  BY <1>1, <1>3, FreshNames DEF WriterPut
<1>4. ASSUME NEW node \in Nodes, CompactorBuild(node) PROVE BodyGrows
  BY <1>1, <1>2, <1>4, FreshNames DEF CompactorBuild
<1>5. ASSUME NEW node \in Nodes,
             \/ \E b \in Batches : WriterTake(node, b)
             \/ WriterGet(node) \/ WriterCas(node) \/ WriterWon(node)
             \/ WriterLost(node) \/ WriterError(node) \/ WriterUnsure(node)
      PROVE  UNCHANGED body
  BY <1>5 DEF WriterTake, WriterGet, WriterCas, WriterWon, WriterLost, WriterError,
              WriterUnsure, storeVars
<1>6. ASSUME NEW node \in Nodes,
             \/ CompactorStart(node) \/ CompactorPlan(node) \/ CompactorReload(node)
             \/ CompactorLoad(node) \/ CompactorCheck(node) \/ CompactorCas(node)
             \/ CompactorWon(node) \/ CompactorMissing(node) \/ CompactorError(node)
      PROVE  UNCHANGED body
  BY <1>6 DEF CompactorStart, CompactorPlan, CompactorReload, CompactorLoad, CompactorCheck,
              CompactorCas, CompactorWon, CompactorMissing, CompactorError, storeVars
<1>7. ASSUME NEW node \in Nodes,
             \/ CollectorLoad(node) \/ CollectorList(node) \/ CollectorDelete(node)
             \/ CollectorDone(node) \/ CollectorError(node) \/ Crash(node)
      PROVE  UNCHANGED body
  BY <1>7 DEF CollectorLoad, CollectorList, CollectorDelete, CollectorDone, CollectorError,
              Crash, storeVars
<1>8. CASE UNCHANGED vars
  BY <1>2, <1>8 DEF vars, storeVars
<1> QED
  BY <1>2, <1>3, <1>4, <1>5, <1>6, <1>7, <1>8, Tasks

\* A commit takes effect.
Commits(node) ==
    LET w == writer[node] IN
    /\ w.pc = "cas"
    /\ CasHolds(w.view)
    /\ manifest' = WithEntry(w.view, w.name)
    /\ log' = Append(log, w.batch)
    /\ \A n \in Nodes \ {node} : writer'[n] = writer[n]
    /\ \/ writer'[node].pc = "idle"
       \/ /\ writer'[node].pc = "won"
          /\ writer'[node].view = manifest'
          /\ writer'[node].batch = w.batch
    /\ UNCHANGED <<body, stored, compactor, collector, emptied>>

\* A compaction takes effect.
Folds(node) ==
    /\ compactor[node].pc = "cas"
    /\ CompactionLands(compactor[node])
    /\ \A n \in Nodes \ {node} : compactor'[n] = compactor[n]
    /\ compactor'[node].pc \in {"idle", "won"}
    /\ UNCHANGED <<body, stored, log, writer, collector, emptied>>

LEMMA CasCommits ==
    ASSUME TypeInv, NEW node \in Nodes, WriterCas(node) \/ WriterUnsure(node)
    PROVE  UNCHANGED <<manifest, log>> \/ Commits(node)
<1>1. writer \in [Nodes -> WriterState] /\ writer[node] \in WriterState
  BY DEF TypeInv, TypeOK, TasksTypeOK
<1>2. CASE WriterUnsure(node)
  BY <1>1, <1>2, IdleTasks DEF WriterUnsure, Commits
<1>3. CASE WriterCas(node) /\ log' # log
  <2> DEFINE w == writer[node]
             next == WithEntry(w.view, w.name)
  <2>1. /\ w.pc = "cas" /\ CasHolds(w.view) /\ manifest' = next
        /\ log' = Append(log, w.batch)
        /\ writer' = [writer EXCEPT ![node].pc = "won", ![node].view = next]
        /\ UNCHANGED <<body, stored, compactor, collector, emptied>>
    BY <1>3 DEF WriterCas
  <2> HIDE DEF next
  <2>2. /\ \A n \in Nodes \ {node} : writer'[n] = writer[n]
        /\ writer'[node].pc = "won" /\ writer'[node].view = next
        /\ writer'[node].batch = w.batch
    BY <1>1, <2>1 DEF WriterState
  <2> QED
    BY <2>1, <2>2 DEF Commits, next
<1>4. CASE WriterCas(node) /\ ~CasHolds(writer[node].view)
  BY <1>4 DEF WriterCas
<1>5. CASE WriterCas(node) /\ log' = log
  <2>1. log \in Seq(Batches) /\ writer[node].batch \in Batches
    BY <1>5 DEF TypeInv, TypeOK, HistoryTypeOK, BusyWriters, WriterCas
  <2>2. Append(log, writer[node].batch) # log
    BY <2>1, AppendProperties, LenProperties
  <2> QED
    BY <1>5, <2>2 DEF WriterCas
<1> QED
  BY <1>2, <1>3, <1>5

LEMMA LandsFolds ==
    ASSUME TypeInv, NEW node \in Nodes, CompactorCas(node) \/ CompactorError(node)
    PROVE  UNCHANGED <<manifest, log>> \/ Folds(node)
<1>1. CASE CompactorCas(node)
  BY <1>1, CasFields DEF CompactorCas, Folds, CompactorUnchanged
<1>2. CASE CompactorError(node)
  BY <1>2, CompactorHeld, IdleTasks DEF CompactorError, Folds, CompactorUnchanged
<1> QED
  BY <1>1, <1>2

LEMMA ManifestSteps ==
    ASSUME TypeInv, [Next]_vars
    PROVE  \/ UNCHANGED <<manifest, log>>
           \/ \E node \in Nodes : Commits(node) \/ Folds(node)
<1>5. ASSUME NEW node \in Nodes,
             \/ \E b \in Batches : WriterTake(node, b)
             \/ WriterGet(node) \/ WriterPut(node) \/ WriterWon(node)
             \/ WriterLost(node) \/ WriterError(node)
      PROVE  UNCHANGED <<manifest, log>>
  BY <1>5 DEF WriterTake, WriterGet, WriterPut, WriterWon, WriterLost, WriterError, storeVars
<1>6. ASSUME NEW node \in Nodes,
             \/ CompactorStart(node) \/ CompactorPlan(node) \/ CompactorReload(node)
             \/ CompactorBuild(node) \/ CompactorLoad(node) \/ CompactorCheck(node)
             \/ CompactorWon(node) \/ CompactorMissing(node)
      PROVE  UNCHANGED <<manifest, log>>
  BY <1>6 DEF CompactorStart, CompactorPlan, CompactorReload, CompactorBuild, CompactorLoad,
              CompactorCheck, CompactorWon, CompactorMissing, storeVars
<1>7. ASSUME NEW node \in Nodes,
             \/ CollectorLoad(node) \/ CollectorList(node) \/ CollectorDelete(node)
             \/ CollectorDone(node) \/ CollectorError(node) \/ Crash(node)
      PROVE  UNCHANGED <<manifest, log>>
  BY <1>7 DEF CollectorLoad, CollectorList, CollectorDelete, CollectorDone, CollectorError,
              Crash, storeVars
<1>8. CASE UNCHANGED vars
  BY <1>8 DEF vars, storeVars
<1> QED
  BY <1>5, <1>6, <1>7, <1>8, Tasks, CasCommits, LandsFolds

LEMMA LogGrows ==
    ASSUME TypeInv, [Next]_vars
    PROVE  /\ Len(log) \in Nat /\ DOMAIN log = 1..Len(log)
           /\ DOMAIN log' = 1..Len(log') /\ Len(log') >= Len(log)
           /\ \A i \in DOMAIN log : i \in DOMAIN log' /\ log'[i] = log[i]
<1>1. log \in Seq(Batches)
  BY DEF TypeInv, TypeOK, HistoryTypeOK
<1>2. Len(log) \in Nat /\ DOMAIN log = 1..Len(log)
  BY <1>1, LenProperties
<1>3. CASE UNCHANGED log
  BY <1>2, <1>3
<1>4. ASSUME NEW b \in Batches, log' = Append(log, b)
      PROVE  /\ DOMAIN log' = 1..Len(log') /\ Len(log') = Len(log) + 1
             /\ \A i \in 1..Len(log) : log'[i] = log[i]
  BY <1>1, <1>4, AppendProperties, LenProperties
<1>5. CASE \E node \in Nodes : Commits(node)
  BY <1>2, <1>4, <1>5 DEF Commits, TypeInv, BusyWriters
<1>6. CASE \E node \in Nodes : Folds(node)
  BY <1>2, <1>6 DEF Folds
<1> QED
  BY <1>2, <1>3, <1>5, <1>6, ManifestSteps

LEMMA Appended ==
    ASSUME TypeInv, NEW node \in Nodes, Commits(node)
    PROVE  /\ Len(log) \in Nat /\ Len(log') = Len(log) + 1
           /\ log'[Len(log) + 1] = writer[node].batch
           /\ writer[node].name \in WalNames \cap DOMAIN body
           /\ writer[node].view \in Manifest
           /\ writer[node].batch \in Batches
           /\ body[writer[node].name] \in Batches
<1>1. log \in Seq(Batches) /\ writer[node] \in WriterState
  BY DEF TypeInv, TypeOK, HistoryTypeOK, TasksTypeOK
<1>2. writer[node].batch \in Batches /\ writer[node].name \in WalNames \cap DOMAIN body
  BY DEF Commits, TypeInv, BusyWriters
<1> QED
  BY <1>1, <1>2, AppendProperties, LenProperties DEF Commits, WriterState, TypeInv, TypeOK,
     StoreTypeOK

---------------------------------------------------------------------------
\* One manifest per version.

LEMMA InitViews == Init => Views = {DefaultManifest} /\ manifest = DefaultManifest
<1> SUFFICES ASSUME Init PROVE Views = {DefaultManifest} /\ manifest = DefaultManifest
  OBVIOUS
<1>1. ASSUME NEW n \in Nodes PROVE ViewsAt(n) = {NoManifest, DefaultManifest}
  BY DEF Init, ViewsAt, NoWrite, NoCompaction, NoSweep
<1>2. DefaultManifest # NoManifest
  BY IdleTypes, NoManifestAssumption
<1> QED
  BY <1>1, <1>2 DEF Init, Views

LEMMA InitVersions == Init => VersionsInv
  BY InitViews, EmptySeq, LenProperties DEF Init, VersionsInv, DefaultManifest

\* The view of a commit that takes effect is the current manifest.
LEMMA CommitsOverCurrent ==
    ASSUME TypeInv, VersionsInv, NEW node \in Nodes, Commits(node)
    PROVE  /\ writer[node].view = manifest
           /\ manifest'.ver = manifest.ver + 1
           /\ manifest'.next_seq = manifest.next_seq + 1
           /\ manifest'.wal = manifest.wal \cup
                  {[seq |-> manifest.next_seq, name |-> writer[node].name]}
           /\ manifest'.shards = manifest.shards
<1>1. writer[node].view = manifest
  BY ViewsHeld DEF Commits, CasHolds, VersionsInv
<1> QED
  BY <1>1, Appended, WithEntryType DEF Commits

LEMMA FoldsOverCurrent ==
    ASSUME TypeInv, VersionsInv, NEW node \in Nodes, Folds(node)
    PROVE  /\ compactor[node].current = manifest
           /\ manifest'.ver = manifest.ver + 1
           /\ manifest'.next_seq = manifest.next_seq
           /\ manifest'.wal = {e \in manifest.wal : e.name \notin WalObjects(compactor[node].first)}
           /\ manifest'.shards = compactor[node].built
<1>1. compactor[node].current = manifest
  BY ViewsHeld DEF Folds, CompactionLands, CasHolds, VersionsInv
<1> QED
  BY <1>1, CompactorHeld, FoldedType DEF Folds, CompactionLands

LEMMA VersionsStep ==
    ASSUME TypeInv, VersionsInv, [Next]_vars
    PROVE  VersionsInv'
<1>1. Views' \subseteq Views \cup {manifest'} /\ Views \subseteq Manifest
  BY OldOrNew, ViewsHeld
<1>2. manifest \in Manifest /\ Len(log) \in Nat
  BY LogGrows DEF TypeInv, TypeOK, StoreTypeOK
<1>3. \/ UNCHANGED <<manifest, log>>
      \/ /\ manifest'.ver = manifest.ver + 1
         /\ manifest'.next_seq >= manifest.next_seq
         /\ manifest'.next_seq \in Nat
         /\ manifest'.next_seq = Len(log')
  <2>1. CASE \E node \in Nodes : Commits(node)
    BY <1>2, <2>1, Appended, CommitsOverCurrent DEF VersionsInv, Manifest
  <2>2. CASE \E node \in Nodes : Folds(node)
    BY <1>2, <2>2, FoldsOverCurrent DEF VersionsInv, Manifest, Folds
  <2> QED
    BY <2>1, <2>2, ManifestSteps
<1>4. CASE UNCHANGED <<manifest, log>>
  BY <1>1, <1>2, <1>4 DEF VersionsInv, Manifest
<1>5. CASE /\ manifest'.ver = manifest.ver + 1
           /\ manifest'.next_seq >= manifest.next_seq
           /\ manifest'.next_seq \in Nat
           /\ manifest'.next_seq = Len(log')
  <2>1. ASSUME NEW m \in Views', m # manifest'
        PROVE  /\ m.ver <= manifest'.ver /\ m.ver # manifest'.ver
               /\ m.next_seq <= manifest'.next_seq
    <3>1. m \in Views /\ m \in Manifest
      BY <1>1, <2>1
    <3>2. m.ver <= manifest.ver /\ m.next_seq <= manifest.next_seq
      BY <3>1 DEF VersionsInv
    <3> QED
      BY <1>2, <1>5, <3>1, <3>2 DEF Manifest
  <2>2. manifest'.ver <= manifest'.ver /\ manifest'.next_seq <= manifest'.next_seq
    BY <1>2, <1>5 DEF Manifest
  <2> QED
    BY <1>5, <2>1, <2>2 DEF VersionsInv
<1> QED
  BY <1>3, <1>4, <1>5

---------------------------------------------------------------------------
\* What a step does to a task, whichever task takes it.

\* A committer writes its WAL object.
Puts(n) ==
    /\ writer'[n].pc = "cas"
    /\ writer'[n].name \in WalNames \ DOMAIN body
    /\ DOMAIN body' = DOMAIN body \cup {writer'[n].name}
    /\ body'[writer'[n].name] = writer'[n].batch
    /\ stored' = stored \cup {writer'[n].name}
    /\ \A k \in Nodes \ {n} : writer'[k] = writer[k]
    /\ UNCHANGED <<manifest, log, emptied, compactor, collector>>

LEMMA WriterSteps ==
    ASSUME TypeInv, [Next]_vars, NEW n \in Nodes
    PROVE  \/ writer'[n] = writer[n]
           \/ writer'[n].pc \notin {"cas", "won"}
           \/ Puts(n)
           \/ Commits(n)
<1>0. writer \in [Nodes -> WriterState] /\ \A k \in Nodes : writer[k] \in WriterState
  BY DEF TypeInv, TypeOK, TasksTypeOK
<1>1. ASSUME NEW node \in Nodes, NEW b \in Batches, WriterTake(node, b)
      PROVE  writer'[n] = writer[n] \/ writer'[n].pc \notin {"cas", "won"}
  BY <1>0, <1>1 DEF WriterTake
<1>2. ASSUME NEW node \in Nodes, WriterGet(node) \/ WriterLost(node)
      PROVE  writer'[n] = writer[n] \/ writer'[n].pc \notin {"cas", "won"}
  BY <1>0, <1>2, IdleTasks DEF WriterGet, WriterLost, WriterState
<1>3. ASSUME NEW node \in Nodes, WriterWon(node) \/ WriterError(node) \/ Crash(node)
      PROVE  writer'[n] = writer[n] \/ writer'[n].pc \notin {"cas", "won"}
  BY <1>0, <1>3, IdleTasks DEF WriterWon, WriterError, Crash
<1>4. ASSUME NEW node \in Nodes, WriterPut(node)
      PROVE  writer'[n] = writer[n] \/ Puts(n)
  <2> DEFINE name == FreshWalName(writer[node].view.next_seq)
             w == [writer[node] EXCEPT !.pc = "cas", !.name = name]
  <2>1. name \in WalNames \ DOMAIN body
    BY <1>4, FreshNames DEF WriterPut
  <2>2. /\ PutObject(name, writer[node].batch)
        /\ writer' = [writer EXCEPT ![node] = w]
        /\ UNCHANGED <<manifest, log, emptied, compactor, collector>>
    BY <1>4 DEF WriterPut
  <2> HIDE DEF name
  <2>3. w.pc = "cas" /\ w.name = name /\ w.batch = writer[node].batch
    BY <1>0 DEF WriterState
  <2> HIDE DEF w
  <2>4. /\ DOMAIN body' = DOMAIN body \cup {name} /\ body'[name] = writer[node].batch
        /\ stored' = stored \cup {name}
    BY <2>2 DEF PutObject
  <2>5. writer'[node] = w /\ \A k \in Nodes \ {node} : writer'[k] = writer[k]
    BY <1>0, <2>2
  <2> QED
    BY <2>1, <2>2, <2>3, <2>4, <2>5 DEF Puts
<1>5. ASSUME NEW node \in Nodes, WriterCas(node)
      PROVE  \/ writer'[n] = writer[n]
             \/ writer'[n].pc \notin {"cas", "won"}
             \/ Commits(n)
  <2>1. CASE node # n
    BY <1>0, <1>5, <2>1 DEF WriterCas
  <2>2. CASE node = n /\ writer' = [writer EXCEPT ![n].pc = "lost"]
    BY <1>0, <2>2 DEF WriterState
  <2>3. CASE node = n /\ ~(writer' = [writer EXCEPT ![n].pc = "lost"])
    <3>1. log' = Append(log, writer[n].batch)
      BY <1>5, <2>3 DEF WriterCas
    <3>2. log \in Seq(Batches) /\ writer[n].batch \in Batches
      BY <1>5, <2>3 DEF TypeInv, TypeOK, HistoryTypeOK, BusyWriters, WriterCas
    <3>3. log' # log
      BY <3>1, <3>2, AppendProperties, LenProperties
    <3> QED
      BY <1>5, <2>3, <3>3, CasCommits
  <2> QED
    BY <2>1, <2>2, <2>3
<1>6. ASSUME NEW node \in Nodes, WriterUnsure(node)
      PROVE  writer'[n] = writer[n] \/ writer'[n].pc \notin {"cas", "won"}
  BY <1>0, <1>6, IdleTasks DEF WriterUnsure
<1>7. ASSUME NEW node \in Nodes,
             \/ CompactorStart(node) \/ CompactorPlan(node) \/ CompactorReload(node)
             \/ CompactorBuild(node) \/ CompactorLoad(node) \/ CompactorCheck(node)
             \/ CompactorCas(node) \/ CompactorWon(node) \/ CompactorMissing(node)
             \/ CompactorError(node)
             \/ CollectorLoad(node) \/ CollectorList(node) \/ CollectorDelete(node)
             \/ CollectorDone(node) \/ CollectorError(node)
      PROVE  UNCHANGED writer
  BY <1>7 DEF CompactorStart, CompactorPlan, CompactorReload, CompactorBuild, CompactorLoad,
              CompactorCheck, CompactorCas, CompactorWon, CompactorMissing, CompactorError,
              CompactorUnchanged, CollectorLoad, CollectorList, CollectorDelete,
              CollectorDone, CollectorError
<1>8. CASE UNCHANGED vars
  BY <1>8 DEF vars
<1> QED
  BY <1>1, <1>2, <1>3, <1>4, <1>5, <1>6, <1>7, <1>8, Tasks

\* The store and the history stand still.
StoreStill == UNCHANGED <<manifest, body, log, emptied>>

Starts(n) ==
    compactor'[n].pc = "first" /\ compactor'[n].first = manifest /\ StoreStill

Plans(n) ==
    /\ compactor[n].pc = "first" /\ compactor'[n].pc = "again"
    /\ compactor'[n].first = compactor[n].first /\ StoreStill

Reloads(n) ==
    /\ compactor[n].pc = "again" /\ compactor'[n].pc = "second"
    /\ compactor'[n].first = compactor[n].first
    /\ compactor'[n].second = manifest /\ StoreStill

FindsNothing(n) ==
    /\ compactor[n].pc = "second" /\ compactor'[n].pc = "load"
    /\ compactor'[n].first = compactor[n].first
    /\ compactor'[n].built = EmptyShard
    /\ emptied' = (emptied \/ Referenced(compactor[n].second) # {})
    /\ UNCHANGED <<manifest, body, log, stored>>

Builds(n) ==
    /\ compactor[n].pc = "second" /\ compactor'[n].pc = "load"
    /\ compactor'[n].first = compactor[n].first
    /\ compactor'[n].built \in DataNames \ DOMAIN body
    /\ DOMAIN body' = DOMAIN body \cup {compactor'[n].built}
    /\ body'[compactor'[n].built].covers = Covered(compactor[n].second)
    /\ body'[compactor'[n].built].docs = LiveIn(compactor[n].second)
    /\ stored' = stored \cup {compactor'[n].built}
    /\ UNCHANGED <<manifest, log, emptied>>

Loads(n) ==
    /\ compactor[n].pc = "load" /\ compactor'[n].pc = "check"
    /\ compactor'[n].first = compactor[n].first
    /\ compactor'[n].built = compactor[n].built /\ StoreStill

Checks(n) ==
    /\ compactor[n].pc = "check" /\ compactor'[n].pc = "cas"
    /\ compactor'[n].first = compactor[n].first
    /\ compactor'[n].built = compactor[n].built
    /\ compactor'[n].current.shards = compactor[n].first.shards /\ StoreStill

Retries(n) ==
    /\ compactor[n].pc = "cas" /\ compactor'[n].pc = "load"
    /\ compactor'[n].first = compactor[n].first
    /\ compactor'[n].built = compactor[n].built /\ StoreStill

Advances(n) ==
    /\ \/ Starts(n) \/ Plans(n) \/ Reloads(n) \/ FindsNothing(n) \/ Builds(n)
       \/ Loads(n) \/ Checks(n) \/ Retries(n)
    /\ \A k \in Nodes \ {n} : compactor'[k] = compactor[k]
    /\ UNCHANGED <<writer, collector>>

Ended(n) == compactor'[n].pc \in {"idle", "won"}

LEMMA AdvanceSteps ==
    ASSUME TypeInv, NEW n \in Nodes,
           \/ CompactorStart(n) \/ CompactorPlan(n) \/ CompactorReload(n)
           \/ CompactorBuild(n) \/ CompactorLoad(n) \/ CompactorCheck(n)
           \/ CompactorCas(n)
    PROVE  Ended(n) \/ Advances(n)
<1> DEFINE c == compactor[n]
<1>0. c \in CompactorState /\ compactor \in [Nodes -> CompactorState]
  BY CompactorHeld
<1>1. UNCHANGED <<writer, collector>>
  BY DEF CompactorStart, CompactorPlan, CompactorReload, CompactorBuild, CompactorLoad,
         CompactorCheck, CompactorCas, CompactorUnchanged
<1>2. compactor' = [compactor EXCEPT ![n] = NoCompaction] => Ended(n)
  BY <1>0, IdleTasks DEF Ended
<1>3. CASE CompactorStart(n)
  <2>1. /\ [NoCompaction EXCEPT !.first = manifest] \in CompactorState
        /\ [NoCompaction EXCEPT !.first = manifest].first = manifest
    BY CompactorHeld, IdleTypes DEF CompactorState
  <2>2. StoreStill
    BY <1>3 DEF CompactorStart, StoreStill, storeVars
  <2> QED
    BY <1>1, <1>3, <2>1, <2>2, CompactionType DEF CompactorStart, CompactorPcs, Starts, Advances
<1>4. CASE CompactorPlan(n)
  <2>1. StoreStill /\ c.pc = "first"
    BY <1>4 DEF CompactorPlan, StoreStill, storeVars
  <2> QED
    BY <1>0, <1>1, <1>2, <1>4, <2>1, CompactionType DEF CompactorPlan, CompactorPcs, Plans, Advances
<1>5. CASE CompactorReload(n)
  <2>1. /\ [c EXCEPT !.second = manifest] \in CompactorState
        /\ [c EXCEPT !.second = manifest].first = c.first
        /\ [c EXCEPT !.second = manifest].second = manifest
    BY <1>0, CompactorHeld DEF CompactorState
  <2>2. StoreStill /\ c.pc = "again"
    BY <1>5 DEF CompactorReload, StoreStill, storeVars
  <2> QED
    BY <1>1, <1>5, <2>1, <2>2, CompactionType DEF CompactorReload, CompactorPcs, Reloads, Advances
<1>6. CASE CompactorBuild(n)
  <2> DEFINE live == LiveIn(c.second)
             covers == Covered(c.second)
  <2>0. c.pc = "second" /\ UNCHANGED <<manifest, log>>
    BY <1>6 DEF CompactorBuild
  <2>1. CASE /\ Compaction(n, "load", Built(c, EmptyShard))
             /\ emptied' = (emptied \/ Referenced(c.second) # {})
             /\ UNCHANGED <<body, stored>>
    BY <1>0, <1>1, <2>0, <2>1, BuiltType, CompactionType
       DEF CompactorPcs, Shards, FindsNothing, Advances
  <2>2. CASE /\ PutObject(FreshDataName, [docs |-> live, covers |-> covers])
             /\ Compaction(n, "load", Built(c, FreshDataName))
             /\ DataNames \ DOMAIN body # {}
             /\ UNCHANGED emptied
    <3> DEFINE name == FreshDataName
    <3>1. name \in DataNames \ DOMAIN body
      BY <2>2, FreshNames
    <3> HIDE DEF name, live, covers
    <3>2. /\ PutObject(name, [docs |-> live, covers |-> covers])
          /\ Compaction(n, "load", Built(c, name))
      BY <2>2 DEF name
    <3>3. /\ DOMAIN body' = DOMAIN body \cup {name}
          /\ body'[name].covers = covers /\ body'[name].docs = live
          /\ stored' = stored \cup {name}
      BY <3>2 DEF PutObject
    <3>4. /\ compactor'[n].pc = "load" /\ compactor'[n].first = c.first
          /\ compactor'[n].built = name
          /\ \A k \in Nodes \ {n} : compactor'[k] = compactor[k]
      BY <1>0, <3>1, <3>2, BuiltType, CompactionType DEF CompactorPcs, Shards
    <3> QED
      BY <1>1, <2>0, <2>2, <3>1, <3>3, <3>4 DEF Builds, Advances, covers, live
  <2> QED
    BY <1>6, <2>1, <2>2 DEF CompactorBuild
<1>7. CASE CompactorLoad(n)
  <2>1. /\ [c EXCEPT !.current = manifest] \in CompactorState
        /\ [c EXCEPT !.current = manifest].first = c.first
        /\ [c EXCEPT !.current = manifest].built = c.built
    BY <1>0, CompactorHeld DEF CompactorState
  <2>2. StoreStill /\ c.pc = "load"
    BY <1>7 DEF CompactorLoad, StoreStill, storeVars
  <2> QED
    BY <1>1, <1>7, <2>1, <2>2, CompactionType DEF CompactorLoad, CompactorPcs, Loads, Advances
<1>8. CASE CompactorCheck(n)
  <2>1. StoreStill /\ c.pc = "check"
    BY <1>8 DEF CompactorCheck, StoreStill, storeVars
  <2>2. CASE SameShards(c) /\ Compaction(n, "cas", c)
    BY <1>0, <1>1, <2>1, <2>2, CompactionType DEF CompactorPcs, SameShards, Checks, Advances
  <2> QED
    BY <1>2, <1>8, <2>2 DEF CompactorCheck
<1>9. CASE CompactorCas(n)
  <2>1. UNCHANGED <<body, log, emptied>> /\ c.pc = "cas"
    BY <1>9 DEF CompactorCas
  <2> QED
    BY <1>1, <1>2, <1>9, <2>1, CasFields DEF Ended, Retries, StoreStill, Advances
<1> QED
  BY <1>3, <1>4, <1>5, <1>6, <1>7, <1>8, <1>9

LEMMA CompactorSteps ==
    ASSUME TypeInv, [Next]_vars, NEW n \in Nodes
    PROVE  compactor'[n] = compactor[n] \/ Ended(n) \/ Advances(n)
<1>0. compactor \in [Nodes -> CompactorState]
  BY CompactorHeld
<1>1. ASSUME NEW node \in Nodes,
             \/ CompactorStart(node) \/ CompactorPlan(node) \/ CompactorReload(node)
             \/ CompactorBuild(node) \/ CompactorLoad(node) \/ CompactorCheck(node)
             \/ CompactorCas(node)
      PROVE  compactor'[n] = compactor[n] \/ Ended(n) \/ Advances(n)
  <2>1. CASE n = node
    BY <1>1, <2>1, AdvanceSteps
  <2>2. CASE n # node
    BY <1>1, <2>2, CompactorViews DEF Moves, CompactorMoves
  <2> QED
    BY <2>1, <2>2
<1>2. ASSUME NEW node \in Nodes,
             \/ CompactorWon(node) \/ CompactorMissing(node) \/ CompactorError(node)
             \/ Crash(node)
      PROVE  compactor'[n] = compactor[n] \/ Ended(n)
  BY <1>0, <1>2, IdleTasks
     DEF CompactorWon, CompactorMissing, CompactorError, Crash, Ended
<1>3. ASSUME NEW node \in Nodes,
             \/ \E b \in Batches : WriterTake(node, b)
             \/ WriterGet(node) \/ WriterPut(node) \/ WriterCas(node) \/ WriterWon(node)
             \/ WriterLost(node) \/ WriterError(node) \/ WriterUnsure(node)
             \/ CollectorLoad(node) \/ CollectorList(node) \/ CollectorDelete(node)
             \/ CollectorDone(node) \/ CollectorError(node)
      PROVE  UNCHANGED compactor
  BY <1>3 DEF WriterTake, WriterGet, WriterPut, WriterCas, WriterWon, WriterLost, WriterError,
              WriterUnsure, CollectorLoad, CollectorList, CollectorDelete, CollectorDone,
              CollectorError
<1>4. CASE UNCHANGED vars
  BY <1>4 DEF vars
<1> QED
  BY <1>1, <1>2, <1>3, <1>4, Tasks

---------------------------------------------------------------------------
\* Objects are written before a manifest names them.

LEMMA CommitsReferenced ==
    ASSUME TypeInv, VersionsInv, NEW node \in Nodes, Commits(node)
    PROVE  /\ WalObjects(manifest') = WalObjects(manifest) \cup {writer[node].name}
           /\ Referenced(manifest') = Referenced(manifest) \cup {writer[node].name}
<1> DEFINE entry == [seq |-> manifest.next_seq, name |-> writer[node].name]
<1>1. manifest'.wal = manifest.wal \cup {entry} /\ manifest'.shards = manifest.shards
  BY CommitsOverCurrent
<1>2. entry.name = writer[node].name
  OBVIOUS
<1> HIDE DEF entry
<1>3. WalObjects(manifest') = WalObjects(manifest) \cup {writer[node].name}
  BY <1>1, <1>2 DEF WalObjects
<1> QED
  BY <1>1, <1>3 DEF Referenced, Segments

LEMMA FoldsReferenced ==
    ASSUME TypeInv, VersionsInv, NEW node \in Nodes, Folds(node)
    PROVE  /\ WalObjects(manifest') \subseteq WalObjects(manifest)
           /\ Referenced(manifest') \subseteq
                  Referenced(manifest) \cup ({compactor[node].built} \cap DataNames)
  BY FoldsOverCurrent DEF WalObjects, Referenced, Segments

LEMMA InitNames == Init => NamesInv
<1> SUFFICES ASSUME Init PROVE NamesInv
  OBVIOUS
<1>1. Referenced(DefaultManifest) = {}
  BY NamesAssumption DEF Referenced, WalObjects, Segments, DefaultManifest
<1>2. \A n \in Nodes : ~Pending(n)
  BY IdleTasks DEF Init, Pending
<1> QED
  BY <1>1, <1>2, InitViews DEF NamesInv

LEMMA NamesStep ==
    ASSUME TypeInv, VersionsInv, NamesInv, [Next]_vars
    PROVE  NamesInv'
<1>1. BodyGrows
  BY Objects
<1>2. Referenced(manifest') \subseteq DOMAIN body'
  <2>0. Referenced(manifest) \subseteq DOMAIN body
    BY ViewsHeld DEF NamesInv
  <2>1. CASE \E node \in Nodes : Commits(node)
    BY <1>1, <2>0, <2>1, CommitsReferenced, Appended DEF BodyGrows
  <2>2. CASE \E node \in Nodes : Folds(node)
    <3>1. PICK node \in Nodes : Folds(node)
      BY <2>2
    <3>2. compactor[node].built \in DataNames => compactor[node].built \in DOMAIN body
      BY <3>1 DEF NamesInv, Folds, Pending
    <3> QED
      BY <1>1, <2>0, <3>1, <3>2, FoldsReferenced DEF BodyGrows
  <2> QED
    BY <1>1, <2>0, <2>1, <2>2, ManifestSteps DEF BodyGrows
<1>3. \A m \in Views' : Referenced(m) \subseteq DOMAIN body'
  BY <1>1, <1>2, OldOrNew DEF NamesInv, BodyGrows
<1>4. ASSUME NEW n \in Nodes, Pending(n)', (compactor[n].built)' \in DataNames
      PROVE  (compactor[n].built)' \in DOMAIN body'
  <2>1. CASE compactor'[n] = compactor[n]
    BY <1>1, <1>4, <2>1 DEF NamesInv, Pending, BodyGrows
  <2>2. CASE Advances(n)
    BY <1>1, <1>4, <2>2, NamesAssumption
       DEF NamesInv, Pending, BodyGrows, Advances, Starts, Plans, Reloads, FindsNothing,
           Builds, Loads, Checks, Retries
  <2> QED
    BY <1>4, <2>1, <2>2, CompactorSteps DEF Pending, Ended
<1> QED
  BY <1>3, <1>4 DEF NamesInv

---------------------------------------------------------------------------
\* Committers.

LEMMA InitWriters == Init => WritersInv /\ EntriesInv
<1> SUFFICES ASSUME Init PROVE WritersInv /\ EntriesInv
  OBVIOUS
<1>1. WritersInv
  BY IdleTasks DEF Init, WritersInv
<1>2. EntriesInv
  BY InitViews DEF EntriesInv, DefaultManifest
<1> QED
  BY <1>1, <1>2

\* No step adds to a held manifest the private object of another committer.
LEMMA WritersStep ==
    ASSUME TypeInv, VersionsInv, NamesInv, WritersInv, [Next]_vars
    PROVE  WritersInv'
<1>1. BodyGrows
  BY Objects
<1>2. \A k \in Nodes : writer[k].pc = "cas" => writer[k].name \in WalNames \cap DOMAIN body
  BY DEF TypeInv, BusyWriters
<1>3. ASSUME NEW n \in Nodes, writer'[n].pc = "cas"
      PROVE  /\ body'[writer'[n].name] = writer'[n].batch
             /\ \A m \in Views' : writer'[n].name \notin WalObjects(m)
             /\ \A k \in Nodes \ {n} :
                    writer'[k].pc = "cas" => writer'[k].name # writer'[n].name
  <2>1. CASE writer'[n] = writer[n]
    <3>1. body'[writer'[n].name] = writer'[n].batch
      BY <1>1, <1>2, <1>3, <2>1 DEF WritersInv, BodyGrows
    <3>2. writer[n].name \notin WalObjects(manifest')
      <4>0. writer[n].name \notin WalObjects(manifest)
        BY <1>3, <2>1, ViewsHeld DEF WritersInv
      <4>1. CASE \E node \in Nodes : Commits(node)
        <5>1. PICK node \in Nodes : Commits(node)
          BY <4>1
        <5>2. node # n
          BY <1>3, <2>1, <5>1 DEF Commits
        <5>3. writer[node].name # writer[n].name
          BY <1>3, <2>1, <5>1, <5>2 DEF Commits, WritersInv
        <5> QED
          BY <4>0, <5>1, <5>3, CommitsReferenced
      <4>2. CASE \E node \in Nodes : Folds(node)
        BY <4>0, <4>2, FoldsReferenced
      <4> QED
        BY <4>0, <4>1, <4>2, ManifestSteps
    <3>3. \A m \in Views' : writer'[n].name \notin WalObjects(m)
      BY <1>3, <2>1, <3>2, OldOrNew DEF WritersInv
    <3>4. ASSUME NEW k \in Nodes \ {n}, writer'[k].pc = "cas"
          PROVE  writer'[k].name # writer'[n].name
      <4>1. CASE writer'[k] = writer[k]
        BY <1>3, <2>1, <3>4, <4>1 DEF WritersInv
      <4>2. CASE Puts(k)
        BY <1>2, <1>3, <2>1, <4>2 DEF Puts
      <4> QED
        BY <3>4, <4>1, <4>2, WriterSteps DEF Commits
    <3> QED
      BY <3>1, <3>3, <3>4
  <2>2. CASE Puts(n)
    <3>1. \A m \in Views' : writer'[n].name \notin WalObjects(m)
      <4>1. Views' \subseteq Views
        BY <2>2, OldOrNew, ViewsHeld DEF Puts
      <4> QED
        BY <2>2, <4>1 DEF Puts, NamesInv, Referenced
    <3> QED
      BY <1>2, <2>2, <3>1 DEF Puts
  <2> QED
    BY <1>3, <2>1, <2>2, WriterSteps DEF Commits
<1>4. ASSUME NEW n \in Nodes, writer'[n].pc = "won"
      PROVE  /\ writer'[n].view.next_seq \in DOMAIN log'
             /\ log'[writer'[n].view.next_seq] = writer'[n].batch
  <2>1. CASE writer'[n] = writer[n]
    BY <1>4, <2>1, LogGrows DEF WritersInv
  <2>2. CASE Commits(n)
    <3>1. /\ manifest'.next_seq = manifest.next_seq + 1
          /\ manifest.next_seq = Len(log)
      BY <2>2, CommitsOverCurrent DEF VersionsInv
    <3>2. writer'[n].view = manifest' /\ writer'[n].batch = writer[n].batch
      BY <1>4, <2>2 DEF Commits
    <3> QED
      BY <2>2, <3>1, <3>2, Appended, LogGrows
  <2>3. CASE Puts(n)
    BY <1>4, <2>3 DEF Puts
  <2> QED
    BY <1>4, <2>1, <2>2, <2>3, WriterSteps
<1> QED
  BY <1>3, <1>4 DEF WritersInv

LEMMA EntriesStep ==
    ASSUME TypeInv, VersionsInv, NamesInv, WritersInv, EntriesInv, [Next]_vars
    PROVE  EntriesInv'
<1>1. BodyGrows /\ \A i \in DOMAIN log : log'[i] = log[i]
  BY Objects, LogGrows
<1>2. ASSUME NEW m \in Views, NEW e \in m.wal
      PROVE  e.seq < m.next_seq /\ body'[e.name] = log'[e.seq + 1]
  <2>1. e.seq \in Nat /\ m.next_seq \in Nat /\ m.next_seq <= Len(log) /\ e.seq < m.next_seq
    BY ViewsHeld DEF Manifest, WalEntry, VersionsInv, EntriesInv
  <2>2. e.seq + 1 \in DOMAIN log
    BY <2>1, LogGrows
  <2>3. e.name \in DOMAIN body
    BY DEF NamesInv, Referenced, WalObjects
  <2> QED
    BY <1>1, <2>1, <2>2, <2>3 DEF EntriesInv, BodyGrows
<1>3. ASSUME NEW e \in manifest'.wal
      PROVE  e.seq < manifest'.next_seq /\ body'[e.name] = log'[e.seq + 1]
  <2>0. manifest \in Views /\ manifest \in Manifest
    BY ViewsHeld
  <2>1. CASE \E node \in Nodes : Commits(node)
    <3>1. PICK node \in Nodes : Commits(node)
      BY <2>1
    <3>2. CASE e \in manifest.wal
      <4>1. e.seq < manifest.next_seq /\ body'[e.name] = log'[e.seq + 1]
        BY <1>2, <2>0, <3>2
      <4>2. manifest'.next_seq = manifest.next_seq + 1 /\ e.seq \in Nat
        BY <2>0, <3>1, <3>2, CommitsOverCurrent DEF Manifest, WalEntry
      <4> QED
        BY <2>0, <4>1, <4>2 DEF Manifest
    <3>3. CASE e = [seq |-> manifest.next_seq, name |-> writer[node].name]
      <4>1. e.seq = Len(log) /\ e.name = writer[node].name
        BY <3>3 DEF VersionsInv
      <4>2. body'[e.name] = writer[node].batch
        BY <1>1, <3>1, <4>1, Appended DEF Commits, WritersInv, BodyGrows
      <4> QED
        BY <2>0, <3>1, <3>3, <4>1, <4>2, Appended, CommitsOverCurrent DEF Manifest
    <3> QED
      BY <3>1, <3>2, <3>3, CommitsOverCurrent
  <2>2. CASE \E node \in Nodes : Folds(node)
    BY <1>2, <2>0, <2>2, FoldsOverCurrent
  <2> QED
    BY <1>2, <2>0, <2>1, <2>2, ManifestSteps
<1>4. ASSUME NEW m \in Views', NEW e \in m.wal
      PROVE  e.seq < m.next_seq /\ body'[e.name] = log'[e.seq + 1]
  BY <1>2, <1>3, OldOrNew
<1> QED
  BY <1>4 DEF EntriesInv

---------------------------------------------------------------------------
\* Compactions.

LEMMA EmptiedStays ==
    ASSUME TypeInv, [Next]_vars
    PROVE  ~emptied' => ~emptied
<1>1. ASSUME NEW node \in Nodes, CompactorBuild(node)
      PROVE  ~emptied' => ~emptied
  BY <1>1 DEF CompactorBuild
<1>2. ASSUME NEW node \in Nodes,
             \/ \E b \in Batches : WriterTake(node, b)
             \/ WriterGet(node) \/ WriterPut(node) \/ WriterCas(node) \/ WriterWon(node)
             \/ WriterLost(node) \/ WriterError(node) \/ WriterUnsure(node)
      PROVE  UNCHANGED emptied
  BY <1>2 DEF WriterTake, WriterGet, WriterPut, WriterCas, WriterWon, WriterLost, WriterError,
              WriterUnsure
<1>3. ASSUME NEW node \in Nodes,
             \/ CompactorStart(node) \/ CompactorPlan(node) \/ CompactorReload(node)
             \/ CompactorLoad(node) \/ CompactorCheck(node) \/ CompactorCas(node)
             \/ CompactorWon(node) \/ CompactorMissing(node) \/ CompactorError(node)
      PROVE  UNCHANGED emptied
  BY <1>3 DEF CompactorStart, CompactorPlan, CompactorReload, CompactorLoad, CompactorCheck,
              CompactorCas, CompactorWon, CompactorMissing, CompactorError
<1>4. ASSUME NEW node \in Nodes,
             \/ CollectorLoad(node) \/ CollectorList(node) \/ CollectorDelete(node)
             \/ CollectorDone(node) \/ CollectorError(node) \/ Crash(node)
      PROVE  UNCHANGED emptied
  BY <1>4 DEF CollectorLoad, CollectorList, CollectorDelete, CollectorDone, CollectorError,
              Crash
<1>5. CASE UNCHANGED vars
  BY <1>5 DEF vars
<1> QED
  BY <1>1, <1>2, <1>3, <1>4, <1>5, Tasks

\* A held manifest accounts for the same batches as long as it is held.
LEMMA CoveredKept ==
    ASSUME BodyGrows, NEW m, Referenced(m) \subseteq DOMAIN body
    PROVE  Covered(m)' = Covered(m)
<1>1. \A n \in WalObjects(m) : body'[n] = body[n]
  BY DEF BodyGrows, Referenced
<1>2. m.shards \in DataNames => body'[m.shards] = body[m.shards]
  BY DEF BodyGrows, Referenced, Segments
<1> QED
  BY <1>1, <1>2 DEF Covered

LEMMA InitCompactors == Init => StagesInv /\ CoveredInv /\ CompactorsInv
<1> SUFFICES ASSUME Init PROVE StagesInv /\ CoveredInv /\ CompactorsInv
  OBVIOUS
<1>1. StagesInv
  BY InitViews, NamesAssumption DEF StagesInv, DefaultManifest
<1>2. CoveredInv
  BY InitViews DEF CoveredInv, DefaultManifest
<1>3. CompactorsInv
  BY IdleTasks DEF Init, CompactorsInv, Pending
<1> QED
  BY <1>1, <1>2, <1>3

\* What holds of a compaction at the moment it takes effect.
LEMMA FoldFacts ==
    ASSUME TypeInv, VersionsInv, CompactorsInv, NEW node \in Nodes, Folds(node)
    PROVE  LET c == compactor[node] IN
           /\ manifest.shards = c.first.shards
           /\ manifest'.shards = c.built
           /\ c.built \in DataNames \cup {EmptyShard}
           /\ ~emptied /\ c.built = EmptyShard =>
                 manifest.shards \notin DataNames /\ manifest'.wal = manifest.wal
<1> DEFINE c == compactor[node]
<1>1. c.current = manifest /\ c.current.shards = c.first.shards /\ Pending(node)
  BY FoldsOverCurrent DEF Folds, CompactorsInv, Pending
<1>2. c.built \in Shards /\ c.built # NoShards
  BY <1>1, CompactorHeld DEF CompactorsInv
<1>3. ~emptied /\ c.built = EmptyShard => c.first.shards \notin DataNames /\ c.first.wal = {}
  BY <1>1 DEF CompactorsInv
<1>4. c.first.wal = {} => manifest'.wal = manifest.wal
  BY FoldsOverCurrent DEF WalObjects
<1> QED
  BY <1>1, <1>2, <1>3, <1>4, FoldsOverCurrent DEF Shards

LEMMA StagesStep ==
    ASSUME TypeInv, VersionsInv, StagesInv, CompactorsInv, [Next]_vars
    PROVE  StagesInv'
<1>0. manifest \in Views /\ (~emptied' => ~emptied)
  BY ViewsHeld, EmptiedStays
<1>1. CASE UNCHANGED <<manifest, log>> \/ \E node \in Nodes : Commits(node)
  <2>1. manifest'.shards = manifest.shards
    BY <1>1, CommitsOverCurrent
  <2> QED
    BY <1>0, <2>1, OldOrNew DEF StagesInv
<1>2. CASE \E node \in Nodes : Folds(node)
  <2>1. PICK node \in Nodes : Folds(node)
    BY <1>2
  <2>2. manifest'.shards # NoShards
    BY <2>1, FoldFacts, NamesAssumption
  <2>3. ~emptied /\ manifest.shards \in DataNames => manifest'.shards \in DataNames
    BY <2>1, FoldFacts
  <2> QED
    BY <1>0, <2>2, <2>3, OldOrNew DEF StagesInv
<1> QED
  BY <1>1, <1>2, ManifestSteps

LEMMA CoveredStep ==
    ASSUME TypeInv, VersionsInv, NamesInv, WritersInv, CoveredInv, CompactorsInv,
           [Next]_vars, ~emptied', NEW m \in Views', NEW i \in 1..m.next_seq
    PROVE  log'[i] \in Covered(m)'
<1>0. BodyGrows /\ ~emptied
  BY Objects, EmptiedStays
<1>1. ASSUME m \in Views
      PROVE  log'[i] \in Covered(m)'
  <2>1. m \in Manifest /\ m.next_seq <= Len(log)
    BY <1>1, ViewsHeld DEF VersionsInv
  <2>2. i \in DOMAIN log
    BY <2>1, LogGrows DEF Manifest
  <2>3. log[i] \in Covered(m)
    BY <1>0, <1>1 DEF CoveredInv
  <2>4. Covered(m)' = Covered(m)
    BY <1>0, <1>1, CoveredKept DEF NamesInv
  <2> QED
    BY <2>2, <2>3, <2>4, LogGrows
<1>2. ASSUME m = manifest', NEW node \in Nodes, Commits(node)
      PROVE  log'[i] \in Covered(m)'
  <2>1. manifest.next_seq = Len(log) /\ m.next_seq = Len(log) + 1
    BY <1>2, CommitsOverCurrent DEF VersionsInv
  <2>2. WalObjects(m) = WalObjects(manifest) \cup {writer[node].name} /\ m.shards = manifest.shards
    BY <1>2, CommitsReferenced, CommitsOverCurrent
  <2>3. body' = body /\ body[writer[node].name] = writer[node].batch
    BY <1>2 DEF Commits, WritersInv
  <2>4. Covered(m)' = Covered(manifest) \cup {writer[node].batch}
    BY <2>2, <2>3 DEF Covered
  <2>5. CASE i = Len(log) + 1
    BY <1>2, <2>4, <2>5, Appended
  <2>6. CASE i # Len(log) + 1
    <3>1. i \in 1..manifest.next_seq /\ i \in DOMAIN log
      BY <2>1, <2>6, LogGrows
    <3>2. log[i] \in Covered(manifest)
      BY <1>0, <3>1, ViewsHeld DEF CoveredInv
    <3> QED
      BY <2>4, <3>1, <3>2, LogGrows
  <2> QED
    BY <2>5, <2>6
<1>3. ASSUME m = manifest', NEW node \in Nodes, Folds(node)
      PROVE  log'[i] \in Covered(m)'
  <2> DEFINE c == compactor[node]
  <2>1. Pending(node) /\ c.pc = "cas" /\ body' = body /\ log' = log
    BY <1>3 DEF Folds, Pending
  <2>2. /\ m.shards = c.built /\ m.next_seq = Len(log)
        /\ m.wal = {e \in manifest.wal : e.name \notin WalObjects(c.first)}
        /\ manifest.shards = c.first.shards
    BY <1>3, FoldsOverCurrent, FoldFacts DEF VersionsInv
  <2>3. c.first.next_seq \in Nat /\ i \in DOMAIN log /\ i \in Nat
    BY <2>2, CompactorHeld, LogGrows DEF Manifest
  <2>4. CASE i <= c.first.next_seq
    <3>1. log[i] \in BuiltCovers(c)
      BY <1>0, <2>1, <2>3, <2>4 DEF CompactorsInv
    <3> QED
      BY <2>1, <2>2, <3>1 DEF BuiltCovers, Covered
  <2>5. CASE i > c.first.next_seq
    <3>1. \E e \in manifest.wal : e.name \notin WalObjects(c.first) /\ body[e.name] = log[i]
      <4>1. KeepsNewer(node)
        BY <2>1 DEF CompactorsInv
      <4> QED
        BY <1>0, <2>2, <2>3, <2>5, <4>1 DEF KeepsNewer
    <3>2. \E e \in m.wal : body[e.name] = log[i]
      BY <2>2, <3>1
    <3> QED
      BY <2>1, <3>2 DEF Covered, WalObjects
  <2> QED
    BY <2>3, <2>4, <2>5
<1> QED
  BY <1>1, <1>2, <1>3, OldOrNew, ManifestSteps, ViewsHeld

\* A compaction under way keeps its promise about the WAL through any step.
LEMMA KeepsStep ==
    ASSUME TypeInv, VersionsInv, NamesInv, WritersInv, StagesInv, CompactorsInv, [Next]_vars,
           NEW n \in Nodes, KeepsNewer(n), compactor'[n].first = compactor[n].first
    PROVE  KeepsNewer(n)'
<1> DEFINE first == compactor[n].first
<1> SUFFICES ASSUME ~emptied', manifest'.shards = first.shards,
                    NEW i \in DOMAIN log', i > first.next_seq
             PROVE  \E e \in manifest'.wal :
                        e.name \notin WalObjects(first) /\ body'[e.name] = log'[i]
  BY DEF KeepsNewer
<1>0. BodyGrows /\ ~emptied /\ first \in Views
  BY Objects, EmptiedStays, ViewsHeld
<1>1. ASSUME manifest.shards = first.shards, manifest.wal \subseteq manifest'.wal, i \in DOMAIN log
      PROVE  \E e \in manifest'.wal :
                 e.name \notin WalObjects(first) /\ body'[e.name] = log'[i]
  <2>1. PICK e \in manifest.wal : e.name \notin WalObjects(first) /\ body[e.name] = log[i]
    BY <1>0, <1>1 DEF KeepsNewer
  <2>2. e.name \in DOMAIN body
    BY <2>1, ViewsHeld DEF NamesInv, Referenced, WalObjects
  <2>3. body'[e.name] = log'[i]
    BY <1>0, <1>1, <2>1, <2>2, LogGrows DEF BodyGrows
  <2> QED
    BY <1>1, <2>1, <2>3
<1>2. CASE UNCHANGED <<manifest, log>>
  BY <1>1, <1>2
<1>3. ASSUME NEW node \in Nodes, Commits(node)
      PROVE  \E e \in manifest'.wal :
                 e.name \notin WalObjects(first) /\ body'[e.name] = log'[i]
  <2>1. CASE i \in DOMAIN log
    BY <1>1, <1>3, <2>1, CommitsOverCurrent
  <2>2. CASE i \notin DOMAIN log
    <3>1. i = Len(log) + 1
      BY <1>3, <2>2, Appended, LogGrows
    <3>2. /\ writer[node].name \notin WalObjects(first)
          /\ body[writer[node].name] = writer[node].batch
      BY <1>0, <1>3 DEF WritersInv, Commits
    <3>3. body'[writer[node].name] = log'[i]
      BY <1>3, <3>1, <3>2, Appended DEF Commits
    <3> DEFINE entry == [seq |-> manifest.next_seq, name |-> writer[node].name]
    <3>4. entry.name = writer[node].name
      OBVIOUS
    <3>5. entry \in manifest'.wal
      BY <1>3, CommitsOverCurrent
    <3> HIDE DEF entry
    <3> QED
      BY <3>2, <3>3, <3>4, <3>5
  <2> QED
    BY <2>1, <2>2
<1>4. ASSUME NEW node \in Nodes, Folds(node)
      PROVE  \E e \in manifest'.wal :
                 e.name \notin WalObjects(first) /\ body'[e.name] = log'[i]
  <2> DEFINE d == compactor[node]
  <2>1. Pending(node)
    BY <1>4 DEF Folds, Pending
  <2>2. d.built \notin DataNames
    BY <1>0, <1>4, <2>1, FoldFacts DEF CompactorsInv
  <2>3. d.built = EmptyShard /\ first.shards = EmptyShard
    BY <1>4, <2>2, FoldFacts
  <2>4. manifest.shards \notin DataNames /\ manifest'.wal = manifest.wal
    BY <1>0, <1>4, <2>3, FoldFacts
  <2>5. manifest.shards # NoShards
    BY <1>0, <2>3, NamesAssumption DEF StagesInv
  <2>6. manifest.shards = EmptyShard
    BY <2>4, <2>5, CompactorHeld DEF Manifest, Shards
  <2> QED
    BY <1>1, <1>4, <2>3, <2>4, <2>6 DEF Folds
<1> QED
  BY <1>2, <1>3, <1>4, ManifestSteps

\* The promises of compaction n after a step, one by one.
SecondInv(n) ==
    compactor[n].pc = "second" =>
        /\ compactor[n].first.next_seq <= compactor[n].second.next_seq
        /\ ~emptied /\ compactor[n].first.shards \in DataNames =>
              compactor[n].second.shards \in DataNames

PrivateInv(n) ==
    Pending(n) =>
        /\ compactor[n].built # NoShards
        /\ compactor[n].built \in DataNames =>
              /\ \A m \in Views : m.shards # compactor[n].built
              /\ \A k \in Nodes \ {n} : Pending(k) => compactor[k].built # compactor[n].built

BuiltInv(n) ==
    Pending(n) /\ ~emptied =>
        /\ \A i \in 1..compactor[n].first.next_seq : log[i] \in BuiltCovers(compactor[n])
        /\ compactor[n].built = EmptyShard =>
              compactor[n].first.shards \notin DataNames /\ compactor[n].first.wal = {}

CheckedInv(n) ==
    compactor[n].pc = "cas" => compactor[n].current.shards = compactor[n].first.shards

LEMMA CompactorParts ==
    CompactorsInv <=>
        \A n \in Nodes : /\ SecondInv(n) /\ PrivateInv(n) /\ BuiltInv(n) /\ CheckedInv(n)
                         /\ compactor[n].pc \notin {"idle", "won"} => KeepsNewer(n)
  BY DEF CompactorsInv, SecondInv, PrivateInv, BuiltInv, CheckedInv

LEMMA SecondStep ==
    ASSUME TypeInv, VersionsInv, StagesInv, [Next]_vars, NEW n \in Nodes, SecondInv(n)
    PROVE  SecondInv(n)'
<1>1. ~emptied' => ~emptied
  BY EmptiedStays
<1>2. CASE compactor'[n] = compactor[n]
  BY <1>1, <1>2 DEF SecondInv
<1>3. CASE Reloads(n)
  BY <1>1, <1>3, ViewsHeld DEF Reloads, SecondInv, VersionsInv, StagesInv
<1>4. CASE compactor'[n].pc # "second"
  BY <1>4 DEF SecondInv
<1> QED
  BY <1>2, <1>3, <1>4, CompactorSteps
     DEF Ended, Advances, Starts, Plans, FindsNothing, Builds, Loads, Checks, Retries

LEMMA CheckedStep ==
    ASSUME TypeInv, [Next]_vars, NEW n \in Nodes, CheckedInv(n)
    PROVE  CheckedInv(n)'
<1>1. CASE compactor'[n] = compactor[n] \/ compactor'[n].pc # "cas"
  BY <1>1 DEF CheckedInv
<1>2. CASE Checks(n)
  BY <1>2 DEF Checks, CheckedInv
<1> QED
  BY <1>1, <1>2, CompactorSteps
     DEF Ended, Advances, Starts, Plans, Reloads, FindsNothing, Builds, Loads, Retries

\* A pending compaction after a step was pending before it, with the same
\* segment, or has just written one, or needed none.
LEMMA PendingSteps ==
    ASSUME TypeInv, [Next]_vars, NEW n \in Nodes, Pending(n)'
    PROVE  \/ /\ Pending(n)
              /\ compactor'[n].first = compactor[n].first
              /\ compactor'[n].built = compactor[n].built
           \/ Builds(n)
           \/ FindsNothing(n)
<1>1. CASE compactor'[n] = compactor[n]
  BY <1>1 DEF Pending
<1>2. CASE Advances(n)
  BY <1>2 DEF Pending, Advances, Starts, Plans, Reloads, Loads, Checks, Retries
<1> QED
  BY <1>1, <1>2, CompactorSteps DEF Pending, Ended

LEMMA PrivateStep ==
    ASSUME TypeInv, VersionsInv, NamesInv, CompactorsInv, [Next]_vars, NEW n \in Nodes
    PROVE  PrivateInv(n)'
<1> SUFFICES ASSUME Pending(n)' PROVE PrivateInv(n)'
  BY DEF PrivateInv
<1>0. \A k \in Nodes : PrivateInv(k)
  BY CompactorParts
<1>1. CASE /\ Pending(n)
           /\ compactor'[n].first = compactor[n].first
           /\ compactor'[n].built = compactor[n].built
  <2>1. ASSUME compactor[n].built \in DataNames
        PROVE  manifest'.shards # compactor[n].built
    <3>0. manifest.shards # compactor[n].built
      BY <1>0, <1>1, <2>1, ViewsHeld DEF PrivateInv
    <3>1. ASSUME NEW k \in Nodes, Folds(k)
          PROVE  manifest'.shards # compactor[n].built
      <4>1. k # n
        BY <3>1 DEF Folds, Pending
      <4>2. compactor[k].built # compactor[n].built
        BY <1>0, <1>1, <2>1, <3>1, <4>1 DEF Folds, Pending, PrivateInv
      <4> QED
        BY <3>1, <4>2, FoldsOverCurrent
    <3> QED
      BY <3>0, <3>1, ManifestSteps, CommitsOverCurrent
  <2>2. compactor[n].built \in DataNames => \A m \in Views' : m.shards # compactor[n].built
    BY <1>0, <1>1, <2>1, OldOrNew DEF PrivateInv
  <2>3. ASSUME compactor[n].built \in DataNames, NEW k \in Nodes \ {n}, Pending(k)'
        PROVE  compactor'[k].built # compactor[n].built
    <3>1. CASE Pending(k) /\ compactor'[k].built = compactor[k].built
      BY <1>0, <1>1, <2>3, <3>1 DEF PrivateInv
    <3>2. CASE Builds(k)
      BY <1>1, <2>3, <3>2 DEF Builds, NamesInv
    <3>3. CASE FindsNothing(k)
      BY <2>3, <3>3, NamesAssumption DEF FindsNothing
    <3> QED
      BY <2>3, <3>1, <3>2, <3>3, PendingSteps
  <2> QED
    BY <1>0, <1>1, <2>2, <2>3 DEF PrivateInv
<1>2. CASE Builds(n)
  <2>1. compactor'[n].built \in DataNames \ DOMAIN body
    BY <1>2 DEF Builds
  <2>2. \A m \in Views' : m.shards # compactor'[n].built
    <3>1. Views' \subseteq Views
      BY <1>2, OldOrNew, ViewsHeld DEF Builds
    <3> QED
      BY <2>1, <3>1 DEF NamesInv, Referenced, Segments
  <2>3. ASSUME NEW k \in Nodes \ {n}, Pending(k)'
        PROVE  compactor'[k].built # compactor'[n].built
    <3>1. \/ compactor'[k] = compactor[k]
          \/ Builds(k) /\ compactor'[n] = compactor[n]
          \/ FindsNothing(k)
          \/ Pending(k) /\ compactor'[k].built = compactor[k].built
      BY <2>3, CompactorSteps, PendingSteps DEF Advances, Ended, Pending, Starts, Plans, Reloads,
         Loads, Checks, Retries
    <3>2. CASE Pending(k) /\ compactor'[k].built = compactor[k].built
      BY <2>1, <3>2 DEF NamesInv
    <3>3. CASE FindsNothing(k)
      BY <2>1, <3>3, NamesAssumption DEF FindsNothing
    <3>4. CASE Builds(k) /\ compactor'[n] = compactor[n]
      BY <1>2, <3>4 DEF Builds
    <3> QED
      BY <2>3, <3>1, <3>2, <3>3, <3>4 DEF Pending
  <2> QED
    BY <2>1, <2>2, <2>3, NamesAssumption DEF PrivateInv
<1>3. CASE FindsNothing(n)
  BY <1>3, NamesAssumption DEF FindsNothing, PrivateInv
<1> QED
  BY <1>1, <1>2, <1>3, PendingSteps

LEMMA BuiltStep ==
    ASSUME TypeInv, VersionsInv, NamesInv, EntriesInv, CoveredInv, CompactorsInv, [Next]_vars,
           NEW n \in Nodes
    PROVE  BuiltInv(n)'
<1> SUFFICES ASSUME Pending(n)', ~emptied' PROVE BuiltInv(n)'
  BY DEF BuiltInv
<1> DEFINE c == compactor[n]
<1>0. /\ BodyGrows /\ ~emptied /\ BuiltInv(n) /\ SecondInv(n)
      /\ c.first \in Manifest /\ c.first \in Views /\ c.second \in Manifest /\ c.second \in Views
  BY Objects, EmptiedStays, CompactorParts, CompactorHeld, ViewsHeld
<1>1. \A i \in 1..c.first.next_seq : i \in DOMAIN log /\ log'[i] = log[i]
  <2>1. c.first.next_seq \in Nat /\ c.first.next_seq <= Len(log)
    BY <1>0 DEF Manifest, VersionsInv
  <2> QED
    BY <2>1, LogGrows
<1>2. CASE Pending(n) /\ compactor'[n].first = c.first /\ compactor'[n].built = c.built
  <2>1. BuiltCovers(compactor[n])' = BuiltCovers(compactor[n])
    BY <1>0, <1>2 DEF BuiltCovers, NamesInv, BodyGrows
  <2> QED
    BY <1>0, <1>1, <1>2, <2>1 DEF BuiltInv
<1>3. CASE Builds(n)
  <2>1. BuiltCovers(compactor[n])' = Covered(c.second)
    BY <1>3 DEF Builds, BuiltCovers
  <2>2. c.first.next_seq <= c.second.next_seq
    BY <1>0, <1>3 DEF Builds, SecondInv
  <2>3. \A i \in 1..c.first.next_seq : log[i] \in Covered(c.second)
    BY <1>0, <2>2 DEF CoveredInv, Manifest
  <2> QED
    BY <1>1, <1>3, <2>1, <2>3, NamesAssumption DEF Builds, BuiltInv
<1>4. CASE FindsNothing(n)
  <2>1. Referenced(c.second) = {} /\ c.pc = "second"
    BY <1>4 DEF FindsNothing
  <2>2. c.second.shards \notin DataNames /\ Covered(c.second) = {}
    BY <2>1 DEF Referenced, Segments, Covered
  <2>3. c.second.next_seq = 0
    <3>1. \A i \in 1..c.second.next_seq : FALSE
      BY <1>0, <2>2 DEF CoveredInv
    <3> QED
      BY <1>0, <3>1 DEF Manifest
  <2>4. c.first.next_seq = 0 /\ c.first.shards \notin DataNames
    BY <1>0, <2>1, <2>2, <2>3 DEF SecondInv, Manifest
  <2>5. c.first.wal = {}
    <3>1. \A e \in c.first.wal : e.seq \in Nat /\ e.seq < c.first.next_seq
      BY <1>0 DEF Manifest, WalEntry, EntriesInv
    <3> QED
      BY <2>4, <3>1
  <2> QED
    BY <1>4, <2>4, <2>5 DEF FindsNothing, BuiltInv
<1> QED
  BY <1>2, <1>3, <1>4, PendingSteps

LEMMA CompactorsStep ==
    ASSUME TypeInv, VersionsInv, NamesInv, EntriesInv, WritersInv, StagesInv, CoveredInv,
           CompactorsInv, [Next]_vars
    PROVE  CompactorsInv'
<1>1. ASSUME NEW n \in Nodes, compactor'[n].pc \notin {"idle", "won"}
      PROVE  KeepsNewer(n)'
  <2>1. CASE Starts(n)
    <3>1. compactor'[n].first.next_seq = Len(log) /\ log' = log
      BY <2>1 DEF Starts, StoreStill, VersionsInv
    <3> QED
      BY <3>1, LogGrows DEF KeepsNewer
  <2>2. CASE compactor[n].pc \notin {"idle", "won"} /\ compactor'[n].first = compactor[n].first
    BY <2>2, KeepsStep DEF CompactorsInv
  <2> QED
    BY <1>1, <2>1, <2>2, CompactorSteps
       DEF Ended, Advances, Plans, Reloads, FindsNothing, Builds, Loads, Checks, Retries
<1>2. ASSUME NEW n \in Nodes
      PROVE  SecondInv(n)' /\ PrivateInv(n)' /\ BuiltInv(n)' /\ CheckedInv(n)'
  BY CompactorParts, SecondStep, PrivateStep, BuiltStep, CheckedStep
<1> QED
  BY <1>1, <1>2 DEF CompactorsInv, SecondInv, PrivateInv, BuiltInv, CheckedInv

---------------------------------------------------------------------------
\* Every part holds in every reachable state.

Inv == TypeInv /\ SafetyInv

LEMMA InvInit == Init => Inv
  BY InitType, InitVersions, InitNames, InitWriters, InitCompactors
     DEF Inv, TypeInv, SafetyInv

LEMMA InvStep == Inv /\ [Next]_vars => Inv'
<1> SUFFICES ASSUME Inv, [Next]_vars PROVE Inv'
  OBVIOUS
<1> USE DEF Inv, SafetyInv
<1>1. TypeInv'
  BY TypeStep
<1>2. VersionsInv' /\ NamesInv' /\ WritersInv' /\ EntriesInv'
  BY VersionsStep, NamesStep, WritersStep, EntriesStep
<1>3. StagesInv' /\ CompactorsInv'
  BY StagesStep, CompactorsStep
<1>4. CoveredInv'
  BY CoveredStep DEF CoveredInv
<1> QED
  BY <1>1, <1>2, <1>3, <1>4 DEF TypeInv

LEMMA Invariance == Spec => []Inv
  BY InvInit, InvStep, PTL DEF Spec

\* No committed batch is lost, whatever commits, compactions, sweeps, faults and
\* crashes race, as long as no compaction finds a namespace emptied: with
\* EntriesHoldTheirBatch and AckedInPlace below, the durability that
\* commit_records and compact promise.
THEOREM Durability == Spec => []NothingLost
<1>1. Inv => NothingLost
  <2> SUFFICES ASSUME Inv, ~emptied, NEW i \in DOMAIN log PROVE log[i] \in Covered(manifest)
    BY DEF NothingLost
  <2>1. log \in Seq(Batches)
    BY DEF Inv, TypeInv, TypeOK, HistoryTypeOK
  <2>2. i \in 1..manifest.next_seq
    BY <2>1, LenProperties DEF Inv, SafetyInv, VersionsInv
  <2> QED
    BY <2>2, ViewsHeld DEF Inv, SafetyInv, CoveredInv
<1> QED
  BY <1>1, Invariance, PTL

\* A WAL entry of the manifest names the bytes of the batch that was committed
\* under its number (commit_records: a name is unique per attempt).
THEOREM RightBytes == Spec => []EntriesHoldTheirBatch
<1>1. Inv => EntriesHoldTheirBatch
  <2> SUFFICES ASSUME Inv, NEW e \in manifest.wal
               PROVE  e.seq + 1 \in DOMAIN log /\ body[e.name] = log[e.seq + 1]
    BY DEF EntriesHoldTheirBatch
  <2>1. log \in Seq(Batches) /\ manifest \in Manifest
    BY DEF Inv, TypeInv, TypeOK, HistoryTypeOK, StoreTypeOK
  <2>2. e.seq \in Nat /\ manifest.next_seq \in Nat
    BY <2>1 DEF Manifest, WalEntry
  <2>3. e.seq < manifest.next_seq /\ manifest.next_seq = Len(log) /\ body[e.name] = log[e.seq + 1]
    BY ViewsHeld DEF Inv, SafetyInv, EntriesInv, VersionsInv
  <2> QED
    BY <2>1, <2>2, <2>3, LenProperties
<1> QED
  BY <1>1, Invariance, PTL

\* No name is ever given other bytes, and none is forgotten (what the read cache
\* relies on).
THEOREM Immutable == Spec => WrittenOnce
<1>1. Inv /\ [Next]_vars => [\A n \in DOMAIN body : n \in DOMAIN body' /\ body'[n] = body[n]]_vars
  BY Objects DEF Inv, BodyGrows
<1> QED
  BY <1>1, Invariance, PTL DEF Spec, WrittenOnce

\* Only a committer that won answers with a number.
LEMMA AckedSteps ==
    ASSUME TypeInv, [Next]_vars
    PROVE  UNCHANGED acked \/ \E node \in Nodes : WriterWon(node)
<1>1. ASSUME NEW node \in Nodes,
             \/ \E b \in Batches : WriterTake(node, b)
             \/ WriterGet(node) \/ WriterPut(node) \/ WriterCas(node)
             \/ WriterLost(node) \/ WriterError(node) \/ WriterUnsure(node)
      PROVE  UNCHANGED acked
  BY <1>1 DEF WriterTake, WriterGet, WriterPut, WriterCas, WriterLost, WriterError,
              WriterUnsure, clientVars
<1>2. ASSUME NEW node \in Nodes,
             \/ CompactorStart(node) \/ CompactorPlan(node) \/ CompactorReload(node)
             \/ CompactorBuild(node) \/ CompactorLoad(node) \/ CompactorCheck(node)
             \/ CompactorCas(node) \/ CompactorWon(node) \/ CompactorMissing(node)
             \/ CompactorError(node)
      PROVE  UNCHANGED acked
  BY <1>2 DEF CompactorStart, CompactorPlan, CompactorReload, CompactorBuild, CompactorLoad,
              CompactorCheck, CompactorCas, CompactorWon, CompactorMissing, CompactorError,
              CompactorUnchanged, clientVars
<1>3. ASSUME NEW node \in Nodes,
             \/ CollectorLoad(node) \/ CollectorList(node) \/ CollectorDelete(node)
             \/ CollectorDone(node) \/ CollectorError(node) \/ Crash(node)
      PROVE  UNCHANGED acked
  BY <1>3 DEF CollectorLoad, CollectorList, CollectorDelete, CollectorDone, CollectorError,
              Crash, clientVars
<1>4. CASE UNCHANGED vars
  BY <1>4 DEF vars
<1> QED
  BY <1>1, <1>2, <1>3, <1>4, Tasks

LEMMA AckedStep ==
    ASSUME TypeInv, WritersInv, AckedInPlace, [Next]_vars
    PROVE  AckedInPlace'
<1>1. \A b \in DOMAIN acked : acked[b] + 1 \in DOMAIN log' /\ log'[acked[b] + 1] = b
  BY LogGrows DEF AckedInPlace
<1>2. CASE UNCHANGED acked
  BY <1>1, <1>2 DEF AckedInPlace
<1>3. ASSUME NEW node \in Nodes, WriterWon(node)
      PROVE  AckedInPlace'
  <2> DEFINE w == writer[node]
             number == w.view.next_seq - 1
  <2>1. w.view.next_seq \in DOMAIN log /\ log[w.view.next_seq] = w.batch
    BY <1>3 DEF WriterWon, WritersInv
  <2>2. w.view.next_seq \in Nat
    BY ViewsHeld DEF Manifest
  <2>3. number + 1 \in DOMAIN log' /\ log'[number + 1] = w.batch
    BY <2>1, <2>2, LogGrows
  <2> HIDE DEF number
  <2>4. acked' = [b \in DOMAIN acked \cup {w.batch} |->
                      IF b = w.batch THEN number ELSE acked[b]]
    BY <1>3 DEF WriterWon, number
  <2> QED
    BY <1>1, <2>3, <2>4 DEF AckedInPlace
<1> QED
  BY <1>2, <1>3, AckedSteps

\* The number a writer is told is the place of its batch among all commits: so
\* an acknowledged batch is committed, and no two are told one number
\* (commit_records returns the seq of the manifest whose CAS it won).
THEOREM Acknowledged == Spec => []AckedInPlace
<1>1. Init => AckedInPlace
  BY DEF Init, AckedInPlace
<1>2. Inv /\ AckedInPlace /\ [Next]_vars => AckedInPlace'
  BY AckedStep DEF Inv, SafetyInv
<1> QED
  BY <1>1, <1>2, Invariance, PTL DEF Spec

---------------------------------------------------------------------------
\* Garbage collection.

Names == WalNames \cup DataNames

\* The objects of AllInFlight, task by task.
LEMMA FlightOf ==
    ASSUME NEW x
    PROVE  x \in AllInFlight <=>
              \/ \E n \in Nodes : writer[n].pc = "cas" /\ x = writer[n].name
              \/ \E n \in Nodes : Pending(n) /\ x = compactor[n].built
  BY DEF AllInFlight, InFlight, Pending

\* An object comes under way only when it is written.
LEMMA InFlightSteps ==
    ASSUME TypeInv, [Next]_vars
    PROVE  AllInFlight' \cap DOMAIN body \subseteq AllInFlight
<1> SUFFICES ASSUME NEW x \in AllInFlight', x \in DOMAIN body PROVE x \in AllInFlight
  OBVIOUS
<1>1. ASSUME NEW n \in Nodes, writer'[n].pc = "cas", x = writer'[n].name
      PROVE  x \in AllInFlight
  BY <1>1, WriterSteps, FlightOf DEF Puts, Commits
<1>2. ASSUME NEW n \in Nodes, Pending(n)', x = compactor'[n].built
      PROVE  x \in AllInFlight
  <2>1. EmptyShard \notin DOMAIN body
    BY NamesAssumption DEF TypeInv, TypeOK, StoreTypeOK
  <2> QED
    BY <1>2, <2>1, PendingSteps, FlightOf DEF Builds, FindsNothing
<1>3. \/ \E n \in Nodes : writer'[n].pc = "cas" /\ x = writer'[n].name
      \/ \E n \in Nodes : Pending(n)' /\ x = compactor'[n].built
  BY DEF AllInFlight, InFlight, Pending
<1> QED
  BY <1>1, <1>2, <1>3

\* An object that is under way was written.
LEMMA InFlightNames == TypeInv /\ NamesInv => AllInFlight \cap Names \subseteq DOMAIN body
<1> SUFFICES ASSUME TypeInv, NamesInv, NEW x \in AllInFlight, x \in Names
             PROVE  x \in DOMAIN body
  OBVIOUS
<1>1. \A n \in Nodes : compactor[n].built \in Shards
  BY CompactorHeld DEF CompactorState
<1> QED
  BY <1>1, FlightOf, NamesAssumption DEF TypeInv, BusyWriters, NamesInv, Names, Shards

\* What becomes part of the namespace was under way.
LEMMA ReferencedSteps ==
    ASSUME TypeInv, VersionsInv, [Next]_vars
    PROVE  Referenced(manifest') \subseteq Referenced(manifest) \cup AllInFlight
<1>1. ASSUME NEW node \in Nodes, Commits(node)
      PROVE  Referenced(manifest') \subseteq Referenced(manifest) \cup AllInFlight
  BY <1>1, CommitsReferenced, FlightOf DEF Commits
<1>2. ASSUME NEW node \in Nodes, Folds(node)
      PROVE  Referenced(manifest') \subseteq Referenced(manifest) \cup AllInFlight
  BY <1>2, FoldsReferenced, FlightOf DEF Folds, Pending
<1> QED
  BY <1>1, <1>2, ManifestSteps

\* Only a sweep takes an object out of the bucket.
LEMMA StoredSteps ==
    ASSUME TypeInv, [Next]_vars
    PROVE  \/ \E node \in Nodes : CollectorDelete(node)
           \/ stored \subseteq stored' /\ DOMAIN body' \ DOMAIN body \subseteq stored'
<1>1. ASSUME NEW name, NEW contents, PutObject(name, contents)
      PROVE  stored \subseteq stored' /\ DOMAIN body' \ DOMAIN body \subseteq stored'
  BY <1>1 DEF PutObject
<1>2. ASSUME NEW node \in Nodes, WriterPut(node) \/ CompactorBuild(node)
      PROVE  stored \subseteq stored' /\ DOMAIN body' \ DOMAIN body \subseteq stored'
  BY <1>1, <1>2 DEF WriterPut, CompactorBuild
<1>3. ASSUME NEW node \in Nodes,
             \/ \E b \in Batches : WriterTake(node, b)
             \/ WriterGet(node) \/ WriterCas(node) \/ WriterWon(node)
             \/ WriterLost(node) \/ WriterError(node) \/ WriterUnsure(node)
      PROVE  UNCHANGED <<body, stored>>
  BY <1>3 DEF WriterTake, WriterGet, WriterCas, WriterWon, WriterLost, WriterError,
              WriterUnsure, storeVars
<1>4. ASSUME NEW node \in Nodes,
             \/ CompactorStart(node) \/ CompactorPlan(node) \/ CompactorReload(node)
             \/ CompactorLoad(node) \/ CompactorCheck(node) \/ CompactorCas(node)
             \/ CompactorWon(node) \/ CompactorMissing(node) \/ CompactorError(node)
      PROVE  UNCHANGED <<body, stored>>
  BY <1>4 DEF CompactorStart, CompactorPlan, CompactorReload, CompactorLoad, CompactorCheck,
              CompactorCas, CompactorWon, CompactorMissing, CompactorError, storeVars
<1>5. ASSUME NEW node \in Nodes,
             \/ CollectorLoad(node) \/ CollectorList(node) \/ CollectorDone(node)
             \/ CollectorError(node) \/ Crash(node)
      PROVE  UNCHANGED <<body, stored>>
  BY <1>5 DEF CollectorLoad, CollectorList, CollectorDone, CollectorError, Crash, storeVars
<1>6. CASE UNCHANGED vars
  BY <1>6 DEF vars, storeVars
<1> QED
  BY <1>2, <1>3, <1>4, <1>5, <1>6, Tasks

---------------------------------------------------------------------------
\* What a step does to a sweep, whichever task takes it.

Sweeps(n) ==
    \/ /\ collector'[n].pc = "list"
       /\ collector'[n].view = manifest
       /\ collector'[n].old \subseteq stored \ Recent
    \/ /\ collector[n].pc = "list"
       /\ collector'[n].pc = "delete"
       /\ collector'[n].doomed \subseteq collector[n].old \ Referenced(collector[n].view)
    \/ /\ collector[n].pc = "delete"
       /\ collector'[n].pc = "delete"
       /\ collector'[n].doomed \subseteq collector[n].doomed

LEMMA CollectorSteps ==
    ASSUME TypeInv, [Next]_vars, NEW n \in Nodes
    PROVE  \/ collector'[n] = collector[n]
           \/ collector'[n].pc = "idle"
           \/ Sweeps(n) /\ UNCHANGED <<manifest, body, writer, compactor>>
<1>0. collector \in [Nodes -> CollectorState] /\ \A k \in Nodes : collector[k] \in CollectorState
  BY DEF TypeInv, TypeOK, TasksTypeOK
<1>1. ASSUME NEW node \in Nodes, CollectorLoad(node)
      PROVE  collector'[n] = collector[n] \/ (Sweeps(n) /\ UNCHANGED <<manifest, body, writer, compactor>>)
  <2>1. PICK old \in SUBSET (stored \ Recent) :
            collector' = [collector EXCEPT ![node] =
                [NoSweep EXCEPT !.pc = "list", !.view = manifest, !.old = old]]
    BY <1>1 DEF CollectorLoad
  <2> DEFINE s == [NoSweep EXCEPT !.pc = "list", !.view = manifest, !.old = old]
  <2>2. s.pc = "list" /\ s.view = manifest /\ s.old = old
    BY DEF NoSweep
  <2> HIDE DEF s
  <2> QED
    BY <1>0, <1>1, <2>1, <2>2 DEF CollectorLoad, Sweeps, storeVars, s
<1>2. ASSUME NEW node \in Nodes, CollectorList(node)
      PROVE  collector'[n] = collector[n] \/ (Sweeps(n) /\ UNCHANGED <<manifest, body, writer, compactor>>)
  <2> DEFINE doomed == {x \in stored \cap collector[node].old :
                            x \notin Referenced(collector[node].view)}
             s == [NoSweep EXCEPT !.pc = "delete", !.doomed = doomed]
  <2>1. collector' = [collector EXCEPT ![node] = s] /\ collector[node].pc = "list"
    BY <1>2 DEF CollectorList
  <2>2. s.pc = "delete" /\ s.doomed = doomed
    BY DEF NoSweep
  <2>3. doomed \subseteq collector[node].old \ Referenced(collector[node].view)
    OBVIOUS
  <2> HIDE DEF s, doomed
  <2> QED
    BY <1>0, <1>2, <2>1, <2>2, <2>3 DEF CollectorList, Sweeps, storeVars
<1>3. ASSUME NEW node \in Nodes, CollectorDelete(node)
      PROVE  collector'[n] = collector[n] \/ (Sweeps(n) /\ UNCHANGED <<manifest, body, writer, compactor>>)
  <2>1. PICK x \in collector[node].doomed :
            collector' = [collector EXCEPT ![node].doomed = @ \ {x}]
    BY <1>3 DEF CollectorDelete
  <2> QED
    BY <1>0, <1>3, <2>1 DEF CollectorDelete, Sweeps, CollectorState
<1>4. ASSUME NEW node \in Nodes, CollectorDone(node) \/ CollectorError(node) \/ Crash(node)
      PROVE  collector'[n] = collector[n] \/ collector'[n].pc = "idle"
  BY <1>0, <1>4, IdleTasks DEF CollectorDone, CollectorError, Crash
<1>5. ASSUME NEW node \in Nodes,
             \/ \E b \in Batches : WriterTake(node, b)
             \/ WriterGet(node) \/ WriterPut(node) \/ WriterCas(node) \/ WriterWon(node)
             \/ WriterLost(node) \/ WriterError(node) \/ WriterUnsure(node)
      PROVE  UNCHANGED collector
  BY <1>5 DEF WriterTake, WriterGet, WriterPut, WriterCas, WriterWon, WriterLost, WriterError,
              WriterUnsure
<1>6. ASSUME NEW node \in Nodes,
             \/ CompactorStart(node) \/ CompactorPlan(node) \/ CompactorReload(node)
             \/ CompactorBuild(node) \/ CompactorLoad(node) \/ CompactorCheck(node)
             \/ CompactorCas(node) \/ CompactorWon(node) \/ CompactorMissing(node)
             \/ CompactorError(node)
      PROVE  UNCHANGED collector
  BY <1>6 DEF CompactorStart, CompactorPlan, CompactorReload, CompactorBuild, CompactorLoad,
              CompactorCheck, CompactorCas, CompactorWon, CompactorMissing, CompactorError,
              CompactorUnchanged
<1>7. CASE UNCHANGED vars
  BY <1>7 DEF vars
<1> QED
  BY <1>1, <1>2, <1>3, <1>4, <1>5, <1>6, <1>7, Tasks

---------------------------------------------------------------------------
\* The invariant of garbage collection.

\* The grace window is longer than any commit and any compaction.
GraceSuffices == GraceCovers = {"commit", "compaction"}

LEMMA InitSweep == Init => SweepInv
<1> SUFFICES ASSUME Init PROVE SweepInv
  OBVIOUS
<1>1. Referenced(manifest) = {}
  BY NamesAssumption DEF Init, Referenced, WalObjects, Segments, DefaultManifest
<1>2. AllInFlight = {}
  BY FlightOf, IdleTasks DEF Init, Pending
<1>3. \A n \in Nodes : collector[n].pc = "idle"
  BY IdleTasks DEF Init
<1> QED
  BY <1>1, <1>2, <1>3 DEF SweepInv, NothingDangles

\* No sweep deletes an object that is named or under way.
LEMMA DeletesGarbage ==
    ASSUME SweepInv, NEW node \in Nodes, CollectorDelete(node)
    PROVE  /\ Referenced(manifest) \subseteq stored'
           /\ AllInFlight \cap Names \subseteq stored'
           /\ UNCHANGED <<manifest, body, writer, compactor>>
  BY DEF SweepInv, NothingDangles, CollectorDelete, Names

LEMMA SweepStep ==
    ASSUME TypeInv, VersionsInv, NamesInv, SweepInv, GraceSuffices, TypeInv', NamesInv',
           [Next]_vars
    PROVE  SweepInv'
<1>0. /\ BodyGrows
      /\ AllInFlight' \cap DOMAIN body \subseteq AllInFlight
      /\ Referenced(manifest') \subseteq Referenced(manifest) \cup (AllInFlight \cap Names)
  <2>1. Referenced(manifest') \subseteq Names
    BY DEF TypeInv, TypeOK, StoreTypeOK, Referenced, WalObjects, Segments, Manifest, WalEntry,
           Names
  <2> QED
    BY <2>1, Objects, InFlightSteps, ReferencedSteps
<1>1. NothingDangles' /\ (AllInFlight \cap Names \subseteq stored)'
  <2>1. CASE \E node \in Nodes : CollectorDelete(node)
    <3>1. PICK node \in Nodes : CollectorDelete(node)
      BY <2>1
    <3>2. AllInFlight' = AllInFlight
      BY <3>1 DEF CollectorDelete, AllInFlight, InFlight
    <3> QED
      BY <3>1, <3>2, DeletesGarbage DEF NothingDangles
  <2>2. CASE stored \subseteq stored' /\ DOMAIN body' \ DOMAIN body \subseteq stored'
    <3>1. Referenced(manifest') \subseteq stored'
      BY <1>0, <2>2 DEF SweepInv, NothingDangles, Names
    <3>2. (AllInFlight \cap Names \subseteq DOMAIN body)'
      BY InFlightNames, PTL
    <3>3. AllInFlight' \cap Names \subseteq stored'
      BY <1>0, <2>2, <3>2 DEF SweepInv, Names
    <3> QED
      BY <3>1, <3>3 DEF NothingDangles, Names
  <2> QED
    BY <2>1, <2>2, StoredSteps
<1>2. ASSUME NEW n \in Nodes, collector'[n].pc = "list"
      PROVE  /\ collector'[n].old \subseteq DOMAIN body'
             /\ collector'[n].old \cap AllInFlight' = {}
             /\ collector'[n].old \cap Referenced(manifest') \subseteq
                    Referenced(collector'[n].view)
  <2>1. CASE collector'[n] = collector[n]
    BY <1>0, <1>2, <2>1 DEF SweepInv, BodyGrows
  <2>2. CASE Sweeps(n) /\ UNCHANGED <<manifest, body, writer, compactor>>
    <3>1. AllInFlight' = AllInFlight /\ Recent = AllInFlight
      BY <2>2 DEF AllInFlight, InFlight, Recent, GraceSuffices
    <3>2. stored \subseteq DOMAIN body
      BY DEF TypeInv, TypeOK, StoreTypeOK
    <3> QED
      BY <1>2, <2>2, <3>1, <3>2 DEF Sweeps
  <2> QED
    BY <1>2, <2>1, <2>2, CollectorSteps
<1>3. ASSUME NEW n \in Nodes, collector'[n].pc = "delete"
      PROVE  /\ collector'[n].doomed \subseteq DOMAIN body'
             /\ collector'[n].doomed \cap (Referenced(manifest') \cup AllInFlight') = {}
  <2>1. CASE collector'[n] = collector[n]
    BY <1>0, <1>3, <2>1 DEF SweepInv, BodyGrows
  <2>2. CASE Sweeps(n) /\ UNCHANGED <<manifest, body, writer, compactor>>
    <3>1. AllInFlight' = AllInFlight
      BY <2>2 DEF AllInFlight, InFlight
    <3> QED
      BY <1>3, <2>2, <3>1 DEF Sweeps, SweepInv
  <2> QED
    BY <1>3, <2>1, <2>2, CollectorSteps
<1> QED
  BY <1>1, <1>2, <1>3 DEF SweepInv, Names

\* While the grace window outlasts every commit and every compaction, the
\* manifest never names an object that is gone (gc: "The grace window is
\* load-bearing"); the run MCShortGrace shows that a window as long as a commit
\* is not enough.
THEOREM NoDanglingReference ==
    ASSUME GraceSuffices
    PROVE  Spec => []NothingDangles
<1>1. SweepInv => NothingDangles
  BY DEF SweepInv
<1>2. Inv /\ Inv' /\ SweepInv /\ [Next]_vars => SweepInv'
  BY SweepStep DEF Inv, SafetyInv
<1> QED
  BY <1>1, <1>2, InitSweep, Invariance, PTL DEF Spec

---------------------------------------------------------------------------
\* The entries of a WAL in order.

\* The records of each commit.
Committed == [i \in DOMAIN log |-> RecordsIn[log[i]]]

LEMMA LogRecords ==
    ASSUME TypeInv
    PROVE  /\ Len(log) \in Nat /\ DOMAIN log = 1..Len(log)
           /\ \A i \in 1..Len(log) : Committed[i] = RecordsIn[log[i]]
                                     /\ Committed[i] \in Seq(Records)
           /\ \A k \in 0..Len(log) : LiveAfter(k) = After(Committed, k)
<1>1. log \in Seq(Batches)
  BY DEF TypeInv, TypeOK, HistoryTypeOK
<1>2. Len(log) \in Nat /\ DOMAIN log = 1..Len(log) /\ \A i \in 1..Len(log) : log[i] \in Batches
  BY <1>1, LenProperties, ElementOfSeq
<1>3. \A i \in 1..Len(log) : Committed[i] = RecordsIn[log[i]] /\ Committed[i] \in Seq(Records)
  BY <1>2, RecordsAssumption DEF Committed
<1>4. ASSUME NEW k \in 0..Len(log)
      PROVE  LiveAfter(k) = After(Committed, k)
  <2>1. [i \in 1..k |-> RecordsIn[log[i]]] = [i \in 1..k |-> Committed[i]]
    BY <1>2, <1>3
  <2> QED
    BY <2>1 DEF LiveAfter, After
<1> QED
  BY <1>2, <1>3, <1>4

\* Entries that have the numbers from lo up to hi, each once.
Numbered(entries, lo, hi) ==
    /\ \A e \in entries : e.seq \in lo..hi - 1
    /\ \A s \in lo..hi - 1 : \E e \in entries : e.seq = s
    /\ \A e, d \in entries : e.seq = d.seq => e = d

LEMMA CountNumbered ==
    ASSUME NEW entries, NEW lo \in Nat, NEW hi \in Nat, lo <= hi, Numbered(entries, lo, hi)
    PROVE  IsFiniteSet(entries) /\ Cardinality(entries) = hi - lo
<1> DEFINE S == lo..hi - 1
           entryOf == [s \in S |-> CHOOSE e \in entries : e.seq = s]
<1>1. IsFiniteSet(S) /\ Cardinality(S) = hi - lo
  <2> DEFINE last == hi - 1
  <2>1. lo \in Int /\ last \in Int /\ (IF lo > last THEN 0 ELSE last - lo + 1) = hi - lo
    OBVIOUS
  <2> HIDE DEF last
  <2>2. IsFiniteSet(lo..last) /\ Cardinality(lo..last) = hi - lo
    BY <2>1, FS_Interval
  <2> QED
    BY <2>2 DEF last
<1>2. \A s \in S : entryOf[s] \in entries /\ entryOf[s].seq = s
  BY DEF Numbered
<1>3. entryOf \in [S -> entries]
  BY <1>2
<1>4. \A s, t \in S : entryOf[s] = entryOf[t] => s = t
  BY <1>2
<1>5. \A e \in entries : \E s \in S : entryOf[s] = e
  BY <1>2 DEF Numbered
<1> HIDE DEF entryOf, S
<1>6. ExistsBijection(S, entries)
  <2>1. entryOf \in Bijection(S, entries)
    BY <1>3, <1>4, <1>5, Fun_IsBij
  <2> QED
    BY <2>1 DEF ExistsBijection
<1> QED
  BY <1>1, <1>6, FS_Bijection

LEMMA InNumberOrder ==
    ASSUME NEW entries, NEW lo \in Nat, NEW hi \in Nat, lo <= hi, Numbered(entries, lo, hi)
    PROVE  /\ DOMAIN InOrder(entries) = 1..(hi - lo)
           /\ \A k \in 1..(hi - lo) :
                 InOrder(entries)[k] \in entries /\ InOrder(entries)[k].seq = lo + k - 1
<1> DEFINE Below(e) == {d \in entries : d.seq < e.seq}
<1>1. Cardinality(entries) = hi - lo
  BY CountNumbered
<1>2. ASSUME NEW e \in entries PROVE Cardinality(Below(e)) = e.seq - lo
  <2>1. e.seq \in Nat /\ lo <= e.seq /\ e.seq \in lo..hi - 1
    BY DEF Numbered
  <2>2. \A d \in Below(e) : d \in entries /\ d.seq \in lo..e.seq - 1
    BY <2>1 DEF Numbered
  <2>3. \A s \in lo..e.seq - 1 : \E d \in Below(e) : d.seq = s
    BY <2>1 DEF Numbered
  <2>4. Numbered(Below(e), lo, e.seq)
    <3> HIDE DEF Below
    <3> QED
      BY <2>2, <2>3 DEF Numbered
  <2> HIDE DEF Below
  <2> QED
    BY <2>1, <2>4, CountNumbered
<1>3. ASSUME NEW k \in 1..(hi - lo)
      PROVE  LET x == CHOOSE e \in entries : Cardinality(Below(e)) = k - 1 IN
             x \in entries /\ x.seq = lo + k - 1
  <2>1. lo + k - 1 \in lo..hi - 1
    OBVIOUS
  <2>2. PICK e \in entries : e.seq = lo + k - 1
    BY <2>1 DEF Numbered
  <2>3. Cardinality(Below(e)) = k - 1
    BY <1>2, <2>2
  <2>4. \A d \in entries : Cardinality(Below(d)) = k - 1 => d.seq = lo + k - 1
    <3>1. \A d \in entries : d.seq \in Nat
      BY DEF Numbered
    <3> HIDE DEF Below
    <3> QED
      BY <1>2, <3>1
  <2> HIDE DEF Below
  <2> QED
    BY <2>3, <2>4
<1> QED
  BY <1>1, <1>3 DEF InOrder

---------------------------------------------------------------------------
\* What a reader makes of a manifest.

\* m's entries have the batches of their numbers.
TrueEntries(m) ==
    /\ m \in Manifest
    /\ m.next_seq <= Len(log)
    /\ \A e \in m.wal : e.seq < m.next_seq /\ body[e.name] = log[e.seq + 1]

LEMMA ViewsTrue ==
    ASSUME TypeInv, VersionsInv, EntriesInv, NEW m \in Views
    PROVE  TrueEntries(m)
  BY ViewsHeld DEF TrueEntries, VersionsInv, EntriesInv

\* Entries lo up to hi, over a segment with the first k commits, are the first hi
\* commits, although the commits between lo and k are replayed over their future.
LEMMA ReadsPart ==
    ASSUME TypeInv, NEW m, TrueEntries(m), NEW lo \in Nat, NEW hi \in lo..m.next_seq,
           NEW k \in lo..hi, NEW entries \in SUBSET m.wal, Numbered(entries, lo, hi),
           SegmentOf(m) = LiveAfter(k)
    PROVE  LiveWith(m, entries) = LiveAfter(hi)
<1> DEFINE ordered == InOrder(entries)
           read == [j \in DOMAIN ordered |-> RecordsIn[body[ordered[j].name]]]
           n == Len(log)
<1>1. /\ hi \in Nat /\ lo <= hi /\ k \in Nat /\ lo <= k /\ k <= hi /\ hi <= n /\ n \in Nat
      /\ m.next_seq \in Nat /\ hi - lo \in Nat
  BY LogRecords DEF TrueEntries, Manifest
<1>2. /\ DOMAIN ordered = 1..(hi - lo)
      /\ \A j \in 1..(hi - lo) : ordered[j] \in entries /\ ordered[j].seq = lo + j - 1
  BY <1>1, InNumberOrder
<1> HIDE DEF ordered
<1>3. ASSUME NEW j \in 1..(hi - lo)
      PROVE  RecordsIn[body[ordered[j].name]] = Committed[lo + j]
  <2>1. ordered[j] \in m.wal /\ ordered[j].seq + 1 = lo + j /\ lo + j \in 1..n
    BY <1>1, <1>2
  <2>2. body[ordered[j].name] = log[lo + j]
    BY <2>1 DEF TrueEntries
  <2> QED
    BY <2>1, <2>2, LogRecords
<1>4. read = [j \in 1..(hi - lo) |-> Committed[lo + j]]
  BY <1>2, <1>3
<1>5. \A i \in 1..hi : Committed[i] \in Seq(Records)
  BY <1>1, LogRecords
<1>6. SegmentOf(m) = After(Committed, k) /\ LiveAfter(hi) = After(Committed, hi)
  BY <1>1, LogRecords
<1>7. lo \in 0..hi /\ k \in lo..hi
  BY <1>1
<1>8. ReplayAll(After(Committed, k), [j \in 1..(hi - lo) |-> Committed[lo + j]]) =
          After(Committed, hi)
  BY <1>1, <1>5, <1>7, Refolded
<1>9. LiveWith(m, entries) = ReplayAll(SegmentOf(m), read)
  BY DEF LiveWith, ordered
<1> QED
  BY <1>4, <1>6, <1>8, <1>9

LEMMA SegmentIsOf ==
    ASSUME NEW m, NEW k, SegmentIs(m, k)
    PROVE  SegmentOf(m) = LiveAfter(k)
  BY DEF SegmentIs, SegmentOf, HoldsCommits

\* The documents of a manifest are those after the commits it knows of.
LEMMA ReadsAll ==
    ASSUME TypeInv, NEW m, TrueEntries(m), NEW lo \in Nat, ListsFrom(m, lo),
           NEW k \in 0..m.next_seq, SegmentIs(m, k)
    PROVE  LiveIn(m) = LiveAfter(m.next_seq)
<1>1. m.next_seq \in Nat /\ \A e \in m.wal : e.seq \in Nat
  BY DEF TrueEntries, Manifest, WalEntry
<1>2. lo <= k
  <2>1. CASE k = m.next_seq
    BY <2>1 DEF ListsFrom
  <2>2. CASE k < m.next_seq
    <3>1. PICK e \in m.wal : e.seq = k
      BY <1>1, <2>2 DEF SegmentIs
    <3> QED
      BY <3>1 DEF ListsFrom
  <2> QED
    BY <1>1, <2>1, <2>2
<1>3. Numbered(m.wal, lo, m.next_seq)
  BY <1>1 DEF Numbered, ListsFrom, TrueEntries
<1>4. k \in lo..m.next_seq /\ m.next_seq \in lo..m.next_seq
  BY <1>1, <1>2
<1>5. LiveWith(m, m.wal) = LiveAfter(m.next_seq)
  BY <1>3, <1>4, SegmentIsOf, ReadsPart
<1> QED
  BY <1>5 DEF LiveIn

LEMMA ViewsRead ==
    ASSUME TypeInv, VersionsInv, EntriesInv, TailsInv, SegmentsInv, ~emptied, NEW m \in Views
    PROVE  LiveIn(m) = LiveAfter(m.next_seq)
<1>1. PICK lo \in Nat : ListsFrom(m, lo)
  BY DEF TailsInv
<1>2. PICK k \in 0..m.next_seq : SegmentIs(m, k)
  BY DEF SegmentsInv
<1> QED
  BY <1>1, <1>2, ViewsTrue, ReadsAll

---------------------------------------------------------------------------
\* What a step does to the writers that wait.

OthersWait(node) == \A n \in Nodes \ {node} : writer'[n] = writer[n]

GoesOn(node) ==
    /\ OthersWait(node) /\ UNCHANGED <<clientVars, log>>
    /\ \/ writer'[node] = writer[node]
       \/ writer[node].pc = "idle" /\ writer'[node] = NoWrite
       \/ /\ writer[node].pc \notin {"idle", "won"} /\ writer'[node].pc \notin {"idle", "won"}
          /\ writer'[node].batch = writer[node].batch

Takes(node, b) ==
    /\ writer[node].pc = "idle" /\ b \notin submitted /\ submitted' = submitted \cup {b}
    /\ writer'[node].pc \notin {"idle", "won"} /\ writer'[node].batch = b
    /\ OthersWait(node) /\ UNCHANGED <<acked, failed, log>>

Wins(node) == Commits(node) /\ writer'[node].pc = "won" /\ UNCHANGED clientVars

CommitsUnsure(node) ==
    /\ Commits(node) /\ writer'[node] = NoWrite
    /\ failed' = failed \cup {writer[node].batch}
    /\ UNCHANGED <<submitted, acked>>

IsTold(node) ==
    /\ writer[node].pc = "won" /\ writer'[node] = NoWrite
    /\ DOMAIN acked' = DOMAIN acked \cup {writer[node].batch}
    /\ OthersWait(node) /\ UNCHANGED <<submitted, failed, log>>

GivesUp(node) ==
    /\ writer[node].pc # "idle" /\ writer'[node] = NoWrite
    /\ failed' = failed \cup {writer[node].batch}
    /\ OthersWait(node) /\ UNCHANGED <<submitted, acked, log>>

ClientStep(node) ==
    \/ GoesOn(node) \/ Wins(node) \/ CommitsUnsure(node) \/ IsTold(node) \/ GivesUp(node)
    \/ \E b \in Batches : Takes(node, b)

LEMMA ClientSteps ==
    ASSUME TypeInv, OnceInv, [Next]_vars
    PROVE  UNCHANGED <<writer, clientVars, log>> \/ \E node \in Nodes : ClientStep(node)
<1>0. writer \in [Nodes -> WriterState] /\ \A n \in Nodes : writer[n] \in WriterState
  BY DEF TypeInv, TypeOK, TasksTypeOK
<1> USE DEF OthersWait
<1>1. ASSUME NEW node \in Nodes, NEW b \in Batches, WriterTake(node, b)
      PROVE  Takes(node, b)
  BY <1>0, <1>1 DEF WriterTake, Takes
<1>2. ASSUME NEW node \in Nodes, WriterGet(node) \/ WriterPut(node)
      PROVE  GoesOn(node)
  <2>1. CASE WriterGet(node)
    BY <1>0, <2>1 DEF WriterGet, GoesOn, WriterState
  <2>2. CASE WriterPut(node)
    <3> DEFINE name == FreshWalName(writer[node].view.next_seq)
    <3>1. /\ writer[node].pc \in {"got", "put"} /\ UNCHANGED <<clientVars, log>>
          /\ writer' = [writer EXCEPT ![node].pc = "cas", ![node].name = name]
      BY <2>2 DEF WriterPut
    <3> HIDE DEF name
    <3> QED
      BY <1>0, <3>1 DEF GoesOn, WriterState
  <2> QED
    BY <1>2, <2>1, <2>2
<1>3. ASSUME NEW node \in Nodes, WriterCas(node)
      PROVE  GoesOn(node) \/ Wins(node)
  <2>1. CASE ~CasHolds(writer[node].view)
    BY <1>0, <1>3, <2>1 DEF WriterCas, GoesOn, WriterState
  <2>2. CASE CasHolds(writer[node].view)
    <3>1. log' = Append(log, writer[node].batch) /\ UNCHANGED clientVars
      BY <1>3, <2>2 DEF WriterCas
    <3>2. log' # log
      <4>1. log \in Seq(Batches) /\ writer[node].batch \in Batches
        BY <1>3 DEF TypeInv, TypeOK, HistoryTypeOK, BusyWriters, WriterCas
      <4> QED
        BY <3>1, <4>1, AppendProperties, LenProperties
    <3>3. Commits(node)
      BY <1>3, <3>2, CasCommits
    <3>4. writer'[node].pc = "won"
      <4> DEFINE next == WithEntry(writer[node].view, writer[node].name)
      <4>1. writer' = [writer EXCEPT ![node].pc = "won", ![node].view = next]
        BY <1>3, <2>2 DEF WriterCas
      <4> HIDE DEF next
      <4> QED
        BY <1>0, <4>1 DEF WriterState
    <3> QED
      BY <3>1, <3>3, <3>4 DEF Wins
  <2> QED
    BY <2>1, <2>2
<1>4. ASSUME NEW node \in Nodes, WriterWon(node)
      PROVE  IsTold(node)
  BY <1>0, <1>4 DEF WriterWon, IsTold
<1>5. ASSUME NEW node \in Nodes, WriterLost(node)
      PROVE  GoesOn(node) \/ GivesUp(node)
  <2> DEFINE w == writer[node]
  <2>1. CASE writer' = [writer EXCEPT ![node] = NoWrite] /\ AnswerError(w.batch)
    BY <1>0, <1>5, <2>1 DEF WriterLost, GivesUp, AnswerError
  <2>2. CASE /\ writer' = [writer EXCEPT ![node] = [w EXCEPT !.pc = "get",
                              !.view = DefaultManifest, !.name = NoName, !.attempt = @ + 1]]
             /\ UNCHANGED failed
    BY <1>0, <1>5, <2>2 DEF WriterLost, GoesOn, WriterState, clientVars
  <2> QED
    BY <1>5, <2>1, <2>2 DEF WriterLost
<1>6. ASSUME NEW node \in Nodes, WriterError(node)
      PROVE  GivesUp(node)
  BY <1>0, <1>6 DEF WriterError, GivesUp, AnswerError
<1>7. ASSUME NEW node \in Nodes, WriterUnsure(node)
      PROVE  CommitsUnsure(node)
  BY <1>0, <1>7, IdleTasks DEF WriterUnsure, CommitsUnsure, AnswerError, Commits
<1>8. ASSUME NEW node \in Nodes, Crash(node)
      PROVE  GoesOn(node) \/ GivesUp(node)
  <2>1. /\ writer' = [writer EXCEPT ![node] = NoWrite]
        /\ failed' = failed \cup ({writer[node].batch} \cap Batches)
        /\ UNCHANGED <<submitted, acked, log>>
    BY <1>8 DEF Crash
  <2>2. CASE writer[node].pc = "idle"
    BY <1>0, <2>1, <2>2, NamesAssumption DEF GoesOn, OnceInv, clientVars
  <2>3. CASE writer[node].pc # "idle"
    BY <1>0, <2>1, <2>3 DEF GivesUp, TypeInv, BusyWriters
  <2> QED
    BY <2>2, <2>3
<1>9. ASSUME NEW node \in Nodes,
             \/ CompactorStart(node) \/ CompactorPlan(node) \/ CompactorReload(node)
             \/ CompactorBuild(node) \/ CompactorLoad(node) \/ CompactorCheck(node)
             \/ CompactorCas(node) \/ CompactorWon(node) \/ CompactorMissing(node)
             \/ CompactorError(node)
             \/ CollectorLoad(node) \/ CollectorList(node) \/ CollectorDelete(node)
             \/ CollectorDone(node) \/ CollectorError(node)
      PROVE  UNCHANGED <<writer, clientVars, log>>
  BY <1>9 DEF CompactorStart, CompactorPlan, CompactorReload, CompactorBuild, CompactorLoad,
              CompactorCheck, CompactorCas, CompactorWon, CompactorMissing, CompactorError,
              CompactorUnchanged, CollectorLoad, CollectorList, CollectorDelete,
              CollectorDone, CollectorError
<1>10. CASE UNCHANGED vars
  BY <1>10 DEF vars, clientVars
<1> QED
  BY <1>1, <1>2, <1>3, <1>4, <1>5, <1>6, <1>7, <1>8, <1>9, <1>10, Tasks DEF ClientStep

LEMMA OnceStep ==
    ASSUME TypeInv, OnceInv, [Next]_vars
    PROVE  OnceInv'
<1>0. /\ Len(log) \in Nat /\ DOMAIN log = 1..Len(log)
      /\ \A i \in DOMAIN log : i \in DOMAIN log' /\ log'[i] = log[i]
  BY LogGrows
<1>1. CASE UNCHANGED <<writer, clientVars, log>>
  BY <1>1 DEF OnceInv, clientVars
<1>2. ASSUME NEW node \in Nodes, NEW b \in Batches, Takes(node, b)
      PROVE  OnceInv'
  BY <1>2 DEF Takes, OthersWait, OnceInv
<1>3. ASSUME NEW node \in Nodes, GoesOn(node)
      PROVE  OnceInv'
  BY <1>3 DEF GoesOn, OthersWait, OnceInv, NoWrite, clientVars
<1>4. ASSUME NEW node \in Nodes, Commits(node)
      PROVE  /\ \A i, j \in DOMAIN log' : log'[i] = log'[j] => i = j
             /\ \A i \in DOMAIN log' : log'[i] \in submitted
             /\ \A i \in DOMAIN log' : i \in DOMAIN log \/ log'[i] = writer[node].batch
             /\ writer[node].pc = "cas" /\ OthersWait(node)
  <2>1. /\ DOMAIN log' = 1..(Len(log) + 1) /\ log'[Len(log) + 1] = writer[node].batch
        /\ writer[node].pc = "cas"
    BY <1>4, Appended, LogGrows DEF Commits
  <2>2. /\ \A i \in DOMAIN log : log[i] # writer[node].batch
        /\ writer[node].batch \in submitted
    BY <2>1 DEF OnceInv
  <2> QED
    BY <1>0, <1>4, <2>1, <2>2 DEF OnceInv, Commits, OthersWait
<1>5. ASSUME NEW node \in Nodes, Wins(node)
      PROVE  OnceInv'
  <2>1. writer'[node].pc = "won" /\ writer'[node].batch = writer[node].batch /\ UNCHANGED clientVars
    BY <1>5 DEF Wins, Commits
  <2> QED
    BY <1>0, <1>4, <1>5, <2>1 DEF Wins, OthersWait, OnceInv, clientVars
<1>6. ASSUME NEW node \in Nodes, CommitsUnsure(node)
      PROVE  OnceInv'
  BY <1>0, <1>4, <1>6 DEF CommitsUnsure, OthersWait, OnceInv, NoWrite
<1>7. ASSUME NEW node \in Nodes, IsTold(node) \/ GivesUp(node)
      PROVE  OnceInv'
  BY <1>7 DEF IsTold, GivesUp, OthersWait, OnceInv, NoWrite
<1> QED
  BY <1>1, <1>2, <1>3, <1>5, <1>6, <1>7, ClientSteps DEF ClientStep

---------------------------------------------------------------------------
\* What stays as it was.

LEMMA LiveAfterKept ==
    ASSUME TypeInv, [Next]_vars, NEW k \in 0..Len(log)
    PROVE  LiveAfter(k)' = LiveAfter(k)
<1>1. \A i \in 1..k : log'[i] = log[i]
  BY LogGrows
<1>2. [i \in 1..k |-> RecordsIn[log'[i]]] = [i \in 1..k |-> RecordsIn[log[i]]]
  BY <1>1
<1> QED
  BY <1>2 DEF LiveAfter

\* An object keeps holding what it holds.
LEMMA HoldsKept ==
    ASSUME TypeInv, [Next]_vars, NEW name \in DOMAIN body, NEW k \in 0..Len(log),
           HoldsCommits(name, k)
    PROVE  HoldsCommits(name, k)'
<1>1. body'[name] = body[name] /\ \A i \in 1..k : log'[i] = log[i]
  BY Objects, LogGrows DEF BodyGrows
<1> QED
  BY <1>1, LiveAfterKept DEF HoldsCommits

LEMMA SegmentKept ==
    ASSUME TypeInv, [Next]_vars, NEW m, Referenced(m) \subseteq DOMAIN body,
           NEW k \in 0..Len(log), SegmentIs(m, k)
    PROVE  SegmentIs(m, k)'
<1>1. m.shards \in DataNames => m.shards \in DOMAIN body
  BY DEF Referenced, Segments
<1> QED
  BY <1>1, HoldsKept, LiveAfterKept DEF SegmentIs

\* A compaction takes out the entries its first manifest knew of, and no other.
LEMMA FoldTakes ==
    ASSUME TypeInv, OnceInv, VersionsInv, EntriesInv, PastInv, NEW node \in Nodes, Folds(node)
    PROVE  manifest'.wal = {e \in manifest.wal : e.seq >= compactor[node].first.next_seq}
<1> DEFINE first == compactor[node].first
<1>1. manifest \in Views /\ manifest \in Manifest /\ first \in Views /\ first \in Manifest
  BY ViewsHeld
<1>2. ASSUME NEW e \in manifest.wal, e.seq < first.next_seq
      PROVE  e.name \in WalObjects(first)
  BY <1>1, <1>2 DEF PastInv, WalObjects
<1>3. ASSUME NEW e \in manifest.wal, e.name \in WalObjects(first)
      PROVE  e.seq < first.next_seq
  <2>1. PICK d \in first.wal : d.name = e.name
    BY <1>3 DEF WalObjects
  <2>2. /\ e.seq \in Nat /\ d.seq \in Nat /\ d.seq < first.next_seq
        /\ first.next_seq \in Nat /\ first.next_seq <= Len(log)
        /\ e.seq < manifest.next_seq /\ manifest.next_seq = Len(log) /\ Len(log) \in Nat
    BY <1>1, <2>1, LogRecords DEF Manifest, WalEntry, EntriesInv, VersionsInv
  <2>3. log[e.seq + 1] = log[d.seq + 1]
    BY <1>1, <2>1 DEF EntriesInv
  <2>4. e.seq + 1 \in DOMAIN log /\ d.seq + 1 \in DOMAIN log
    BY <2>2, LogRecords
  <2>5. e.seq + 1 = d.seq + 1
    BY <2>3, <2>4 DEF OnceInv
  <2> QED
    BY <2>2, <2>5
<1>4. \A e \in manifest.wal : e.seq \in Nat /\ first.next_seq \in Nat
  BY <1>1 DEF Manifest, WalEntry
<1> QED
  BY <1>2, <1>3, <1>4, FoldsOverCurrent

LEMMA TailsStep ==
    ASSUME TypeInv, OnceInv, VersionsInv, EntriesInv, PastInv, TailsInv, [Next]_vars
    PROVE  TailsInv'
<1>1. manifest \in Views /\ manifest \in Manifest /\ manifest.next_seq \in Nat
      /\ \A e \in manifest.wal : e.seq \in Nat /\ e.seq < manifest.next_seq
  BY ViewsHeld DEF Manifest, WalEntry, EntriesInv
<1>2. PICK lo \in Nat : ListsFrom(manifest, lo)
  BY <1>1 DEF TailsInv
<1>3. ASSUME NEW node \in Nodes, Commits(node)
      PROVE  ListsFrom(manifest', lo)
  <2> DEFINE entry == [seq |-> manifest.next_seq, name |-> writer[node].name]
  <2>1. manifest'.next_seq = manifest.next_seq + 1 /\ manifest'.wal = manifest.wal \cup {entry}
    BY <1>3, CommitsOverCurrent
  <2>2. entry.seq = manifest.next_seq
    OBVIOUS
  <2> HIDE DEF entry
  <2>3. lo <= manifest'.next_seq /\ \A e \in manifest'.wal : lo <= e.seq
    BY <1>1, <1>2, <2>1, <2>2 DEF ListsFrom
  <2>4. \A e, d \in manifest'.wal : e.seq = d.seq => e = d
    BY <1>1, <1>2, <2>1, <2>2 DEF ListsFrom
  <2>5. ASSUME NEW s \in lo..manifest'.next_seq - 1
        PROVE  \E e \in manifest'.wal : e.seq = s
    <3>1. s = manifest.next_seq \/ s \in lo..manifest.next_seq - 1
      BY <1>1, <2>1
    <3> QED
      BY <1>2, <2>1, <2>2, <3>1 DEF ListsFrom
  <2> QED
    BY <2>3, <2>4, <2>5 DEF ListsFrom
<1>4. ASSUME NEW node \in Nodes, Folds(node)
      PROVE  \E l \in Nat : ListsFrom(manifest', l)
  <2> DEFINE f == compactor[node].first.next_seq
             l == IF lo >= f THEN lo ELSE f
  <2>1. f \in Nat /\ f <= manifest.next_seq
    BY <1>1, ViewsHeld DEF Manifest, VersionsInv
  <2>2. manifest'.next_seq = manifest.next_seq
        /\ manifest'.wal = {e \in manifest.wal : e.seq >= f}
    BY <1>4, FoldTakes, FoldsOverCurrent
  <2> HIDE DEF f
  <2>3. l \in Nat /\ l <= manifest'.next_seq /\ l >= lo /\ l >= f
    BY <1>1, <1>2, <2>1, <2>2 DEF ListsFrom
  <2>4. \A e \in manifest'.wal : l <= e.seq
    BY <1>1, <1>2, <2>1, <2>2 DEF ListsFrom
  <2> HIDE DEF l
  <2>5. ASSUME NEW s \in l..manifest'.next_seq - 1
        PROVE  \E e \in manifest'.wal : e.seq = s
    <3>1. s \in lo..manifest.next_seq - 1 /\ s >= f
      BY <1>1, <2>1, <2>2, <2>3
    <3> QED
      BY <1>2, <2>2, <3>1 DEF ListsFrom
  <2>6. \A e, d \in manifest'.wal : e.seq = d.seq => e = d
    BY <1>2, <2>2 DEF ListsFrom
  <2> QED
    BY <2>3, <2>4, <2>5, <2>6 DEF ListsFrom
<1>5. \E l \in Nat : ListsFrom(manifest', l)
  BY <1>2, <1>3, <1>4, ManifestSteps
<1> QED
  BY <1>5, OldOrNew DEF TailsInv

LEMMA PastStep ==
    ASSUME TypeInv, VersionsInv, PastInv, [Next]_vars, NEW m \in Views
    PROVE  \A e \in manifest'.wal : e.seq < m.next_seq => e \in m.wal
<1>1. m.next_seq \in Nat /\ manifest.next_seq \in Nat /\ m.next_seq <= manifest.next_seq
  BY ViewsHeld DEF Manifest, VersionsInv
<1>2. \A e \in manifest'.wal : e \in manifest.wal \/ e.seq = manifest.next_seq
  BY ManifestSteps, CommitsOverCurrent, FoldsOverCurrent
<1> QED
  BY <1>1, <1>2 DEF PastInv

---------------------------------------------------------------------------
\* What a fold makes of the segment.

LEMMA FoldedSegment ==
    ASSUME TypeInv, OnceInv, VersionsInv, NamesInv, EntriesInv, CompactorsInv, SegmentsInv,
           FoldsInv, ~emptied, NEW node \in Nodes, Folds(node)
    PROVE  \E k \in 0..manifest'.next_seq : SegmentIs(manifest, k)'
<1> DEFINE c == compactor[node]
<1>0. /\ manifest \in Views /\ manifest \in Manifest /\ c.first \in Views /\ c.first \in Manifest
      /\ manifest'.next_seq = manifest.next_seq /\ manifest.next_seq = Len(log)
      /\ manifest'.shards = c.built /\ UNCHANGED <<body, log>>
      /\ manifest'.wal = {e \in manifest.wal : e.name \notin WalObjects(c.first)}
      /\ Pending(node)
  BY ViewsHeld, FoldsOverCurrent DEF VersionsInv, Folds, Pending
<1>1. \A k : LiveAfter(k)' = LiveAfter(k)
  BY <1>0 DEF LiveAfter
<1>2. CASE c.built \in DataNames
  <2>0. PICK name \in DataNames : name = c.built
    BY <1>2
  <2>1. PICK k \in c.first.next_seq..Len(log) : HoldsCommits(name, k)
    BY <1>0, <2>0 DEF FoldsInv
  <2>2. HoldsCommits(name, k)'
    BY <1>0, <1>1, <2>1 DEF HoldsCommits
  <2>3. c.first.next_seq \in Nat /\ Len(log) \in Nat /\ k \in 0..manifest'.next_seq
    BY <1>0, <2>1, LogRecords DEF Manifest
  <2>4. ASSUME NEW s \in k..manifest'.next_seq - 1
        PROVE  \E e \in manifest'.wal : e.seq = s
    <3>1. s + 1 \in DOMAIN log /\ s + 1 > c.first.next_seq /\ s \in Nat
      BY <1>0, <2>1, <2>3, LogRecords
    <3>2. KeepsNewer(node) /\ manifest.shards = c.first.shards
      BY FoldFacts DEF CompactorsInv, Folds
    <3>3. PICK e \in manifest.wal :
              e.name \notin WalObjects(c.first) /\ body[e.name] = log[s + 1]
      BY <3>1, <3>2 DEF KeepsNewer
    <3>4. /\ e.seq \in Nat /\ e.seq < manifest.next_seq /\ log[e.seq + 1] = log[s + 1]
      BY <1>0, <3>3 DEF Manifest, WalEntry, EntriesInv
    <3>5. e.seq + 1 \in DOMAIN log
      BY <1>0, <2>3, <3>4, LogRecords
    <3>6. e.seq + 1 = s + 1
      BY <3>1, <3>4, <3>5 DEF OnceInv
    <3> QED
      BY <1>0, <3>1, <3>3, <3>4, <3>6
  <2> QED
    BY <1>0, <2>0, <2>2, <2>3, <2>4 DEF SegmentIs
<1>3. CASE c.built = EmptyShard
  <2>1. manifest.shards \notin DataNames /\ manifest'.wal = manifest.wal
        /\ manifest'.shards \notin DataNames
    BY <1>0, <1>3, FoldFacts, NamesAssumption
  <2>2. PICK k \in 0..manifest.next_seq : SegmentIs(manifest, k)
    BY <1>0 DEF SegmentsInv
  <2> QED
    BY <1>0, <1>1, <2>1, <2>2 DEF SegmentIs
<1> QED
  BY <1>2, <1>3, FoldFacts

LEMMA SegmentsStep ==
    ASSUME TypeInv, OnceInv, VersionsInv, NamesInv, EntriesInv, CompactorsInv, SegmentsInv,
           FoldsInv, [Next]_vars
    PROVE  SegmentsInv'
<1>0. /\ (~emptied' => ~emptied) /\ manifest \in Views
      /\ manifest.next_seq \in Nat /\ manifest.next_seq = Len(log)
  BY EmptiedStays, ViewsHeld DEF Manifest, VersionsInv
<1>1. ASSUME ~emptied', NEW m \in Views
      PROVE  \E k \in 0..m.next_seq : k \in 0..Len(log) /\ SegmentIs(m, k) /\ SegmentIs(m, k)'
  <2>1. PICK k \in 0..m.next_seq : SegmentIs(m, k)
    BY <1>0, <1>1 DEF SegmentsInv
  <2>2. m.next_seq \in Nat /\ m.next_seq <= Len(log)
    BY <1>0, ViewsHeld DEF Manifest, VersionsInv
  <2>3. k \in 0..Len(log)
    BY <1>0, <2>2
  <2>4. SegmentIs(m, k)'
    BY <2>1, <2>3, SegmentKept DEF NamesInv
  <2> QED
    BY <2>1, <2>3, <2>4
<1>2. ASSUME ~emptied', NEW node \in Nodes, Commits(node)
      PROVE  \E k \in 0..manifest'.next_seq : SegmentIs(manifest, k)'
  <2> DEFINE entry == [seq |-> manifest.next_seq, name |-> writer[node].name]
  <2>1. /\ manifest'.next_seq = manifest.next_seq + 1
        /\ manifest'.wal = manifest.wal \cup {entry} /\ manifest'.shards = manifest.shards
    BY <1>2, CommitsOverCurrent
  <2>2. entry.seq = manifest.next_seq
    OBVIOUS
  <2> HIDE DEF entry
  <2>3. PICK k \in 0..manifest.next_seq : k \in 0..Len(log) /\ SegmentIs(manifest, k)
    BY <1>0, <1>1, <1>2
  <2> PICK name : name = manifest.shards
    OBVIOUS
  <2>4. name \in DataNames => HoldsCommits(name, k)'
    <3>1. name \in DataNames => name \in DOMAIN body
      BY <1>0 DEF NamesInv, Referenced, Segments
    <3> QED
      BY <2>3, <3>1, HoldsKept DEF SegmentIs
  <2>5. name \notin DataNames => LiveAfter(k)' = NoDocs
    BY <2>3, LiveAfterKept DEF SegmentIs
  <2>6. ASSUME NEW s \in k..manifest'.next_seq - 1
        PROVE  \E e \in manifest'.wal : e.seq = s
    <3>1. s = manifest.next_seq \/ s \in k..manifest.next_seq - 1
      BY <1>0, <2>1, <2>3
    <3> QED
      BY <2>1, <2>2, <2>3, <3>1 DEF SegmentIs
  <2>7. k \in 0..manifest'.next_seq
    BY <1>0, <2>1, <2>3
  <2> QED
    BY <2>1, <2>4, <2>5, <2>6, <2>7 DEF SegmentIs
<1>3. ASSUME ~emptied'
      PROVE  \E k \in 0..manifest'.next_seq : SegmentIs(manifest, k)'
  <2>1. CASE \E node \in Nodes : Commits(node)
    BY <1>2, <1>3, <2>1
  <2>2. CASE \E node \in Nodes : Folds(node)
    BY <1>0, <1>3, <2>2, FoldedSegment
  <2>3. CASE UNCHANGED <<manifest, log>>
    <3>1. PICK k \in 0..manifest.next_seq : SegmentIs(manifest, k) /\ k \in 0..Len(log)
      BY <1>0, <1>1, <1>3
    <3> PICK name : name = manifest.shards
      OBVIOUS
    <3>2. name \in DataNames => HoldsCommits(name, k)'
      <4>1. name \in DataNames => name \in DOMAIN body
        BY <1>0 DEF NamesInv, Referenced, Segments
      <4> QED
        BY <3>1, <4>1, HoldsKept DEF SegmentIs
    <3>3. LiveAfter(k)' = LiveAfter(k)
      BY <3>1, LiveAfterKept
    <3> QED
      BY <2>3, <3>1, <3>2, <3>3 DEF SegmentIs
  <2> QED
    BY <2>1, <2>2, <2>3, ManifestSteps
<1>4. ASSUME ~emptied', NEW m \in Views'
      PROVE  \E k \in 0..m.next_seq : SegmentIs(m, k)'
  <2>1. CASE m \in Views
    BY <1>1, <1>4, <2>1
  <2>2. CASE m = manifest'
    <3>1. PICK k \in 0..manifest'.next_seq : SegmentIs(manifest, k)'
      BY <1>3, <1>4
    <3> QED
      BY <2>2, <3>1 DEF SegmentIs
  <2> QED
    BY <1>4, <2>1, <2>2, OldOrNew
<1> QED
  BY <1>4 DEF SegmentsInv

LEMMA FoldsStep ==
    ASSUME TypeInv, VersionsInv, NamesInv, EntriesInv, CoveredInv, TailsInv, CompactorsInv,
           SegmentsInv, FoldsInv, [Next]_vars
    PROVE  FoldsInv'
<1> SUFFICES ASSUME ~emptied', NEW n \in Nodes, Pending(n)', compactor'[n].built \in DataNames
             PROVE  \E k \in compactor'[n].first.next_seq..Len(log') :
                        HoldsCommits(compactor[n].built, k)'
  BY DEF FoldsInv
<1>0. /\ ~emptied /\ BodyGrows /\ Len(log) \in Nat /\ Len(log') >= Len(log)
      /\ DOMAIN log' = 1..Len(log') /\ Len(log') \in Nat
      /\ compactor[n].first.next_seq \in Nat
  <2>1. ~emptied /\ BodyGrows /\ compactor[n].first \in Manifest
    BY EmptiedStays, Objects, CompactorHeld
  <2>2. Len(log') \in Nat
    BY TypeStep, LenProperties DEF TypeInv, TypeOK, HistoryTypeOK
  <2> QED
    BY <2>1, <2>2, LogGrows DEF Manifest
<1>1. CASE /\ Pending(n)
           /\ compactor'[n].first = compactor[n].first
           /\ compactor'[n].built = compactor[n].built
  <2>1. PICK k \in compactor[n].first.next_seq..Len(log) :
            HoldsCommits(compactor[n].built, k)
    BY <1>0, <1>1 DEF FoldsInv
  <2>2. compactor[n].built \in DOMAIN body
    BY <1>0, <1>1 DEF NamesInv
  <2>3. k \in 0..Len(log) /\ k \in compactor[n].first.next_seq..Len(log')
    BY <1>0, <2>1
  <2>4. PICK name : name = compactor[n].built
    OBVIOUS
  <2>5. HoldsCommits(name, k)'
    BY <2>1, <2>2, <2>3, <2>4, HoldsKept
  <2> QED
    BY <1>1, <2>3, <2>4, <2>5 DEF HoldsCommits
<1>2. CASE Builds(n)
  <2> DEFINE second == compactor[n].second
  <2>1. /\ second \in Views /\ second.next_seq \in Nat /\ second.next_seq <= Len(log)
        /\ compactor[n].first.next_seq <= second.next_seq
        /\ compactor'[n].first = compactor[n].first
    BY <1>2, ViewsHeld DEF Manifest, VersionsInv, CompactorsInv, Builds
  <2>2. body'[compactor'[n].built].docs = LiveAfter(second.next_seq)
    BY <1>0, <1>2, <2>1, ViewsRead DEF Builds
  <2>3. PICK k \in Nat : k = second.next_seq
    BY <2>1
  <2>4. k \in 0..Len(log) /\ k \in compactor'[n].first.next_seq..Len(log')
    BY <1>0, <2>1, <2>3
  <2>5. LiveAfter(k)' = LiveAfter(k)
    BY <2>4, LiveAfterKept
  <2>6. \A i \in 1..k : log'[i] \in body'[compactor'[n].built].covers
    <3>1. \A i \in 1..k : log[i] \in Covered(second)
      BY <1>0, <2>1, <2>3 DEF CoveredInv
    <3>2. \A i \in 1..k : log'[i] = log[i]
      BY <1>2 DEF Builds
    <3> QED
      BY <1>2, <3>1, <3>2 DEF Builds
  <2> QED
    BY <2>2, <2>3, <2>4, <2>5, <2>6 DEF HoldsCommits
<1>3. CASE FindsNothing(n)
  BY <1>3, NamesAssumption DEF FindsNothing
<1> QED
  BY <1>1, <1>2, <1>3, PendingSteps

---------------------------------------------------------------------------
\* Every manifest, in every reachable state.

LEMMA InitLive == Init => LiveInv
<1> SUFFICES ASSUME Init PROVE LiveInv
  OBVIOUS
<1>1. /\ Views = {DefaultManifest} /\ DefaultManifest.wal = {} /\ DefaultManifest.next_seq = 0
      /\ DefaultManifest.shards = NoShards /\ NoShards \notin DataNames /\ DOMAIN log = {}
      /\ DOMAIN acked = {} /\ manifest = DefaultManifest
  BY InitViews, NamesAssumption DEF Init, DefaultManifest
<1>2. OnceInv
  BY <1>1, IdleTasks DEF Init, OnceInv, NoWrite
<1>3. ListsFrom(DefaultManifest, 0)
  BY <1>1 DEF ListsFrom
<1>4. TailsInv /\ PastInv
  BY <1>1, <1>3 DEF TailsInv, PastInv
<1>5. SegmentsInv
  <2>1. LiveAfter(0) = NoDocs
    BY FirstRound DEF LiveAfter
  <2> QED
    BY <1>1, <2>1 DEF SegmentsInv, SegmentIs
<1>6. FoldsInv
  BY IdleTasks DEF Init, FoldsInv, Pending
<1> QED
  BY <1>2, <1>4, <1>5, <1>6 DEF LiveInv

LEMMA LiveStep ==
    ASSUME Inv, LiveInv, [Next]_vars
    PROVE  LiveInv'
<1> USE DEF Inv, SafetyInv, LiveInv
<1>1. OnceInv' /\ TailsInv' /\ SegmentsInv' /\ FoldsInv'
  BY OnceStep, TailsStep, SegmentsStep, FoldsStep
<1>2. PastInv'
  BY PastStep, OldOrNew DEF PastInv
<1> QED
  BY <1>1, <1>2

LEMMA LiveInvariance == Spec => []LiveInv
  BY InitLive, LiveStep, Invariance, PTL DEF Spec

LEMMA LiveNow ==
    ASSUME Inv, LiveInv, ~emptied
    PROVE  LiveIsLog
<1>1. manifest \in Views /\ manifest.next_seq = Len(log)
  BY ViewsHeld DEF Inv, SafetyInv, VersionsInv
<1> QED
  BY <1>1, ViewsRead DEF Inv, SafetyInv, LiveInv, LiveIsLog

\* As long as no compaction finds a namespace emptied, the documents readers of the
\* manifest see are those that the committed batches make in commit order: a
\* compaction folds what was committed between its two loads of the manifest
\* without taking it out of the WAL, and no race with commits, compactions, sweeps
\* or crashes makes a document differ (compact, all_records, materialize).
THEOREM NothingDiffers == Spec => [](~emptied => LiveIsLog)
<1>1. Inv /\ LiveInv => (~emptied => LiveIsLog)
  BY LiveNow
<1> QED
  BY <1>1, Invariance, LiveInvariance, PTL

---------------------------------------------------------------------------
\* The abstract namespace.

\* The abstract namespace applies records as the detailed one does.
LEMMA SameReplay ==
    /\ Atomic!NoDocs = NoDocs
    /\ \A live, records : Atomic!Replay(live, records) = Replay(live, records)
<1>1. Atomic!NoDocs = NoDocs
  BY DEF Atomic!NoDocs, NoDocs
<1>2. \A attrs, patch : Atomic!Patched(attrs, patch) = Patched(attrs, patch)
  BY Zenon DEF Atomic!Patched, Patched
<1>3. \A live, r : Atomic!Apply(live, r) = Apply(live, r)
  BY <1>2, Zenon DEF Atomic!Apply, Apply
<1>4. \A live, records : Atomic!Replay(live, records) = Replay(live, records)
  BY <1>3, Zenon DEF Atomic!Replay, Replay
<1> QED
  BY <1>1, <1>4

\* The steps the abstract namespace takes: each of its actions with its operands.
LEMMA AtomicSteps ==
    ASSUME Inv, LiveInv, [Next]_vars, LiveIsLog, LiveIsLog'
    PROVE  Atomic!Next \/ UNCHANGED <<DOMAIN acked, failed, Range(log), LiveIn(manifest)>>
<1>0. /\ TypeInv /\ OnceInv /\ Inv' /\ LiveInv'
  BY InvStep, LiveStep DEF Inv, LiveInv
<1>1. /\ LiveIn(manifest) = LiveAfter(Len(log))
      /\ LiveIn(manifest)' = LiveAfter(Len(log))'
  BY DEF LiveIsLog
<1>2. /\ Len(log) \in Nat /\ DOMAIN log = 1..Len(log) /\ log \in Seq(Batches)
      /\ \A i \in DOMAIN log : log[i] \in submitted
  BY <1>0, LogRecords DEF TypeInv, TypeOK, HistoryTypeOK, OnceInv
<1>3. ASSUME UNCHANGED log
      PROVE  UNCHANGED <<Range(log), LiveIn(manifest)>>
  BY <1>1, <1>3 DEF LiveAfter
<1>4. ASSUME NEW node \in Nodes, writer[node].pc # "idle"
      PROVE  /\ writer[node].batch \in Batches /\ Atomic!Open(writer[node].batch)
             /\ writer[node].pc # "won" => writer[node].batch \notin Range(log)
  <2>1. writer[node].batch \in Batches
    BY <1>0, <1>4 DEF TypeInv, BusyWriters
  <2>2. Atomic!Open(writer[node].batch)
    BY <1>0, <1>4 DEF OnceInv, Atomic!Open
  <2>3. writer[node].pc # "won" => writer[node].batch \notin Range(log)
    BY <1>0, <1>4 DEF OnceInv, Range
  <2> QED
    BY <2>1, <2>2, <2>3
<1>5. ASSUME NEW node \in Nodes, Commits(node)
      PROVE  /\ writer[node].pc = "cas"
             /\ Range(log)' = Range(log) \cup {writer[node].batch}
             /\ LiveIn(manifest)' = Replay(LiveIn(manifest), RecordsIn[writer[node].batch])
  <2> DEFINE n == Len(log)
             b == writer[node].batch
  <2>1. /\ writer[node].pc = "cas" /\ Len(log') = n + 1 /\ log'[n + 1] = b /\ b \in Batches
        /\ DOMAIN log' = 1..(n + 1) /\ \A i \in 1..n : log'[i] = log[i]
    BY <1>0, <1>2, <1>5, Appended, LogGrows DEF Commits
  <2>2. Range(log)' = Range(log) \cup {b}
    BY <1>2, <2>1 DEF Range
  <2> DEFINE batches == [i \in 1..(n + 1) |-> RecordsIn[log'[i]]]
  <2>3. n \in Nat /\ \A i \in 1..(n + 1) : batches[i] \in Seq(Records)
    BY <1>2, <2>1, RecordsAssumption, ElementOfSeq
  <2>4. batches[n + 1] = RecordsIn[b]
    BY <1>2, <2>1
  <2>5. [i \in 1..(n + 1) |-> batches[i]] = [i \in 1..(n + 1) |-> RecordsIn[log'[i]]]
    OBVIOUS
  <2>6. [i \in 1..n |-> batches[i]] = [i \in 1..n |-> RecordsIn[log[i]]]
    BY <2>1
  <2> HIDE DEF batches, b
  <2>7. ReplayAll(NoDocs, [i \in 1..(n + 1) |-> batches[i]]) =
            Replay(ReplayAll(NoDocs, [i \in 1..n |-> batches[i]]), batches[n + 1])
    BY <2>3, NextRound
  <2>8. LiveAfter(Len(log))' = ReplayAll(NoDocs, [i \in 1..(n + 1) |-> batches[i]])
    BY <2>1, <2>5 DEF LiveAfter
  <2>9. LiveAfter(Len(log)) = ReplayAll(NoDocs, [i \in 1..n |-> batches[i]])
    BY <2>6 DEF LiveAfter
  <2> QED
    BY <1>1, <2>1, <2>2, <2>4, <2>7, <2>8, <2>9 DEF b
<1>6. CASE UNCHANGED <<writer, clientVars, log>>
  BY <1>3, <1>6 DEF clientVars
<1>7. ASSUME NEW node \in Nodes, GoesOn(node) \/ \E b \in Batches : Takes(node, b)
      PROVE  UNCHANGED <<DOMAIN acked, failed, Range(log), LiveIn(manifest)>>
  BY <1>3, <1>7 DEF GoesOn, Takes, clientVars
<1>8. ASSUME NEW node \in Nodes, Wins(node)
      PROVE  Atomic!Next
  <2>1. Atomic!Commit(writer[node].batch)
    BY <1>4, <1>5, <1>8, SameReplay DEF Wins, Atomic!Commit, clientVars
  <2> QED
    BY <1>4, <1>5, <1>8, <2>1 DEF Wins, Atomic!Next
<1>9. ASSUME NEW node \in Nodes, CommitsUnsure(node)
      PROVE  Atomic!Next
  <2>1. Atomic!CommitAndFail(writer[node].batch)
    BY <1>4, <1>5, <1>9, SameReplay DEF CommitsUnsure, Atomic!CommitAndFail
  <2> QED
    BY <1>4, <1>5, <1>9, <2>1 DEF CommitsUnsure, Atomic!Next
<1>10. ASSUME NEW node \in Nodes, GivesUp(node)
       PROVE  Atomic!Next
  <2>1. Atomic!Fail(writer[node].batch)
    BY <1>3, <1>4, <1>10 DEF GivesUp, Atomic!Fail
  <2> QED
    BY <1>4, <1>10, <2>1 DEF GivesUp, Atomic!Next
<1>11. ASSUME NEW node \in Nodes, IsTold(node)
       PROVE  Atomic!Next
  <2>1. writer[node].batch \in Range(log)
    BY <1>0, <1>2, <1>11 DEF IsTold, Inv, SafetyInv, WritersInv, Range
  <2>2. Atomic!Acknowledge(writer[node].batch)
    BY <1>3, <1>4, <1>11, <2>1 DEF IsTold, Atomic!Acknowledge
  <2> QED
    BY <1>4, <1>11, <2>2 DEF IsTold, Atomic!Next
<1> QED
  BY <1>0, <1>6, <1>7, <1>8, <1>9, <1>10, <1>11, ClientSteps DEF ClientStep

LEMMA AtomicInit == Init => Atomic!Init
<1> SUFFICES ASSUME Init PROVE Atomic!Init
  OBVIOUS
<1>1. Range(log) = {} /\ DOMAIN acked = {} /\ failed = {}
  BY DEF Init, Range
<1>2. LiveIn(manifest) = NoDocs
  <2>1. manifest.wal = {} /\ manifest.shards \notin DataNames
    BY NamesAssumption DEF Init, DefaultManifest
  <2>2. Numbered(manifest.wal, 0, 0)
    BY <2>1 DEF Numbered
  <2>3. DOMAIN InOrder(manifest.wal) = 1..0
    BY <2>2, InNumberOrder
  <2> DEFINE ordered == InOrder(manifest.wal)
  <2>4. Len([k \in DOMAIN ordered |-> RecordsIn[body[ordered[k].name]]]) = 0
    <3> HIDE DEF ordered
    <3> QED
      BY <2>3 DEF ordered
  <2>5. SegmentOf(manifest) = NoDocs
    BY <2>1 DEF SegmentOf
  <2> QED
    BY <2>4, <2>5, NoBatches DEF LiveIn, LiveWith
<1> QED
  BY <1>1, <1>2, SameReplay DEF Atomic!Init

\* The commit protocol implements the abstract namespace as long as no compaction
\* finds the namespace emptied: a batch takes effect at its CAS, whole, once and
\* before its writer is told, and no other step of a committer, a compaction or a
\* sweep changes a document (commit_records, compact, gc).
THEOREM Implements == Spec /\ []~emptied => ImplementsAtomic
<1>1. Inv /\ LiveInv /\ [Next]_vars /\ LiveIsLog /\ LiveIsLog' =>
          [Atomic!Next]_(Atomic!atomicVars)
  BY AtomicSteps DEF Atomic!atomicVars
<1> QED
  BY <1>1, AtomicInit, Invariance, LiveInvariance, NothingDiffers, PTL DEF Spec, ImplementsAtomic, Atomic!Spec


---------------------------------------------------------------------------
\* Manifests that anyone holds.

\* What holds of a manifest for as long as anyone holds it: what the invariants of
\* module NamespaceInvariants say of each member of Views.
HeldVersion(m) ==
    /\ m \in Manifest
    /\ m.ver <= manifest.ver
    /\ m.ver = manifest.ver => m = manifest
    /\ m.next_seq <= manifest.next_seq

HeldObjects(m) ==
    /\ Referenced(m) \subseteq DOMAIN body
    /\ \A e \in m.wal : e.seq < m.next_seq /\ body[e.name] = log[e.seq + 1]
    /\ \A n \in Nodes : writer[n].pc = "cas" => writer[n].name \notin WalObjects(m)
    /\ \A n \in Nodes :
          Pending(n) /\ compactor[n].built \in DataNames => m.shards # compactor[n].built

HeldStages(m) ==
    /\ manifest.shards = NoShards => m.shards = NoShards
    /\ ~emptied /\ m.shards \in DataNames => manifest.shards \in DataNames

HeldDocuments(m) ==
    /\ \E lo \in Nat : ListsFrom(m, lo)
    /\ \A e \in manifest.wal : e.seq < m.next_seq => e \in m.wal
    /\ ~emptied => /\ \A i \in 1..m.next_seq : log[i] \in Covered(m)
                   /\ \E k \in 0..m.next_seq : SegmentIs(m, k)

Held(m) == HeldVersion(m) /\ HeldObjects(m) /\ HeldStages(m) /\ HeldDocuments(m)

\* What a query holds.
ReadFields == {"pc", "mode", "view", "fromSnapshot", "since", "answer", "consistent"}

HoldsView(r) ==
    /\ Held(r.view)
    /\ r.since \in 0..Len(log)
    /\ ~r.fromSnapshot => r.since <= r.view.next_seq
    /\ r.mode = "strong" => ~r.fromSnapshot

\* An answer from the whole of the WAL is as new as the manifest it was read from,
\* and one from part of it is of an earlier moment, unless it replays a batch over
\* its own future.
AnswerIs(r) ==
    /\ r.consistent => Consistent(r)
    /\ ~Refused(r)
    /\ ~emptied /\ ~Truncated(r.view) => r.answer = LiveAfter(r.view.next_seq)
    /\ ~emptied /\ ~FoldedTwice(r.view) =>
          \E k \in 0..r.view.next_seq : r.answer = LiveAfter(k)

QueryIs(r) ==
    /\ DOMAIN r = ReadFields
    /\ r.pc # "idle" => HoldsView(r)
    /\ r.pc = "answered" => AnswerIs(r)

Queries == {reader[n] : n \in Nodes}

ReadersInv == DOMAIN reader = Nodes /\ \A r \in Queries : QueryIs(r)

LEMMA ViewsAreHeld ==
    ASSUME Inv, LiveInv, NEW m \in Views
    PROVE  Held(m)
<1> USE DEF Inv, SafetyInv, LiveInv
<1>1. HeldVersion(m)
  BY ViewsHeld DEF HeldVersion, VersionsInv
<1>2. HeldObjects(m)
  BY DEF HeldObjects, NamesInv, EntriesInv, WritersInv, CompactorsInv
<1>3. HeldStages(m)
  BY DEF HeldStages, StagesInv
<1>4. HeldDocuments(m)
  BY DEF HeldDocuments, TailsInv, PastInv, CoveredInv, SegmentsInv
<1> QED
  BY <1>1, <1>2, <1>3, <1>4 DEF Held

\* Whoever holds a manifest goes on holding it, whatever step is taken.
LEMMA HeldVersionStep ==
    ASSUME Inv, [Next]_vars, NEW m, HeldVersion(m)
    PROVE  HeldVersion(m)'
<1>1. TypeInv /\ VersionsInv /\ manifest \in Manifest
  BY DEF Inv, SafetyInv, TypeInv, TypeOK, StoreTypeOK
<1>2. CASE UNCHANGED <<manifest, log>>
  BY <1>2 DEF HeldVersion
<1>3. CASE \E node \in Nodes : Commits(node) \/ Folds(node)
  BY <1>1, <1>3, CommitsOverCurrent, FoldsOverCurrent DEF HeldVersion, Manifest
<1> QED
  BY <1>1, <1>2, <1>3, ManifestSteps

LEMMA HeldObjectsStep ==
    ASSUME Inv, [Next]_vars, NEW m, HeldVersion(m), HeldObjects(m)
    PROVE  HeldObjects(m)'
<1> USE DEF Inv, SafetyInv
<1>0. /\ BodyGrows /\ Referenced(m) \subseteq DOMAIN body
      /\ m \in Manifest /\ m.next_seq <= Len(log)
  BY Objects DEF HeldVersion, HeldObjects, VersionsInv
<1>1. Referenced(m) \subseteq DOMAIN body'
  BY <1>0 DEF BodyGrows
<1>2. ASSUME NEW e \in m.wal
      PROVE  e.seq < m.next_seq /\ body'[e.name] = log'[e.seq + 1]
  <2>1. e.seq \in Nat /\ m.next_seq \in Nat /\ e.seq < m.next_seq /\ e.name \in DOMAIN body
        /\ body[e.name] = log[e.seq + 1]
    BY <1>0 DEF HeldObjects, Manifest, WalEntry, Referenced, WalObjects
  <2>2. e.seq + 1 \in DOMAIN log
    BY <1>0, <2>1, LogGrows
  <2> QED
    BY <1>0, <2>1, <2>2, LogGrows DEF BodyGrows
<1>3. ASSUME NEW n \in Nodes, writer'[n].pc = "cas"
      PROVE  writer'[n].name \notin WalObjects(m)
  <2>1. CASE writer'[n] = writer[n]
    BY <1>3, <2>1 DEF HeldObjects
  <2>2. CASE Puts(n)
    BY <1>0, <2>2 DEF Puts, Referenced
  <2> QED
    BY <1>3, <2>1, <2>2, WriterSteps DEF Commits
<1>4. ASSUME NEW n \in Nodes, Pending(n)', compactor'[n].built \in DataNames
      PROVE  m.shards # compactor'[n].built
  <2>1. CASE Pending(n) /\ compactor'[n].built = compactor[n].built
    BY <1>4, <2>1 DEF HeldObjects
  <2>2. CASE Builds(n)
    BY <1>0, <1>4, <2>2 DEF Builds, Referenced, Segments
  <2>3. CASE FindsNothing(n)
    BY <1>4, <2>3, NamesAssumption DEF FindsNothing
  <2> QED
    BY <1>4, <2>1, <2>2, <2>3, PendingSteps
<1> QED
  BY <1>1, <1>2, <1>3, <1>4 DEF HeldObjects

LEMMA HeldStagesStep ==
    ASSUME Inv, [Next]_vars, NEW m, HeldStages(m)
    PROVE  HeldStages(m)'
<1>1. TypeInv /\ VersionsInv /\ CompactorsInv /\ (~emptied' => ~emptied)
  BY EmptiedStays DEF Inv, SafetyInv
<1>2. CASE UNCHANGED <<manifest, log>> \/ \E node \in Nodes : Commits(node)
  <2>1. manifest'.shards = manifest.shards
    BY <1>1, <1>2, CommitsOverCurrent
  <2> QED
    BY <1>1, <2>1 DEF HeldStages
<1>3. ASSUME NEW node \in Nodes, Folds(node)
      PROVE  HeldStages(m)'
  <2>1. manifest'.shards # NoShards
    BY <1>1, <1>3, FoldFacts, NamesAssumption
  <2>2. ~emptied /\ manifest.shards \in DataNames => manifest'.shards \in DataNames
    BY <1>1, <1>3, FoldFacts
  <2> QED
    BY <1>1, <2>1, <2>2 DEF HeldStages
<1> QED
  BY <1>1, <1>2, <1>3, ManifestSteps

LEMMA HeldDocumentsStep ==
    ASSUME Inv, LiveInv, [Next]_vars, NEW m, HeldVersion(m), HeldObjects(m), HeldDocuments(m)
    PROVE  HeldDocuments(m)'
<1> USE DEF Inv, SafetyInv
<1>0. /\ BodyGrows /\ (~emptied' => ~emptied) /\ Referenced(m) \subseteq DOMAIN body
      /\ m.next_seq \in Nat /\ m.next_seq <= Len(log) /\ Len(log) \in Nat
      /\ manifest.next_seq = Len(log)
  BY Objects, EmptiedStays, LogRecords DEF HeldVersion, HeldObjects, VersionsInv, Manifest
<1>1. \A e \in manifest'.wal : e.seq < m.next_seq => e \in m.wal
  <2>1. \A e \in manifest'.wal : e \in manifest.wal \/ e.seq = manifest.next_seq
    BY ManifestSteps, CommitsOverCurrent, FoldsOverCurrent
  <2> QED
    BY <1>0, <2>1 DEF HeldDocuments
<1>2. ASSUME ~emptied', NEW i \in 1..m.next_seq
      PROVE  log'[i] \in Covered(m)'
  <2>1. log[i] \in Covered(m) /\ i \in DOMAIN log
    BY <1>0, <1>2, LogGrows DEF HeldDocuments
  <2>2. Covered(m)' = Covered(m)
    BY <1>0, CoveredKept
  <2> QED
    BY <2>1, <2>2, LogGrows
<1>3. ASSUME ~emptied'
      PROVE  \E k \in 0..m.next_seq : SegmentIs(m, k)'
  <2>1. PICK k \in 0..m.next_seq : SegmentIs(m, k)
    BY <1>0, <1>3 DEF HeldDocuments
  <2>2. k \in 0..Len(log)
    BY <1>0
  <2> QED
    BY <1>0, <2>1, <2>2, SegmentKept
<1>4. \E lo \in Nat : ListsFrom(m, lo)
  BY DEF HeldDocuments
<1> QED
  BY <1>1, <1>2, <1>3, <1>4 DEF HeldDocuments

LEMMA HeldStep ==
    ASSUME Inv, LiveInv, [Next]_vars, NEW m, Held(m)
    PROVE  Held(m)'
  BY HeldVersionStep, HeldObjectsStep, HeldStagesStep, HeldDocumentsStep DEF Held

---------------------------------------------------------------------------
\* A query makes its node remember the manifest it loaded.

OnlyRemembers(node, m) ==
    /\ Remember(node, m)
    /\ UNCHANGED <<manifest, body, stored, writer, compactor, collector,
                   submitted, acked, failed, log, emptied, spent>>

LEMMA RememberKeeps ==
    ASSUME Inv, LiveInv, NEW node \in Nodes, NEW m, Held(m), OnlyRemembers(node, m)
    PROVE  Inv' /\ LiveInv'
<1>0. m \in Manifest /\ snapshot \in [Nodes -> Manifest \cup {NoManifest}]
  BY DEF Held, HeldVersion, Inv, TypeInv, TypeOK, TasksTypeOK
<1>1. \A v \in Views' : v \in Views \/ v = m
  <2>1. \A n \in Nodes : ViewsAt(n)' \subseteq ViewsAt(n) \cup {m}
    BY <1>0 DEF ViewsAt, OnlyRemembers, Remember
  <2> QED
    BY <2>1 DEF Views, OnlyRemembers
<1>2. \A v \in Views' : Held(v)
  BY <1>1, ViewsAreHeld
<1>3. TypeInv'
  <2>1. TasksTypeOK'
    BY <1>0 DEF Inv, TypeInv, TypeOK, TasksTypeOK, OnlyRemembers, Remember
  <2>2. StoreTypeOK' /\ ClientsTypeOK' /\ HistoryTypeOK' /\ BusyWriters'
    BY DEF Inv, TypeInv, TypeOK, StoreTypeOK, ClientsTypeOK, HistoryTypeOK, BusyWriters,
           OnlyRemembers
  <2> QED
    BY <2>1, <2>2 DEF TypeInv, TypeOK
<1> USE DEF Inv, SafetyInv, LiveInv, OnlyRemembers
<1>4. VersionsInv'
  BY <1>2 DEF VersionsInv, Held, HeldVersion
<1>5. NamesInv' /\ EntriesInv' /\ WritersInv'
  <2>1. \A v \in Views' : HeldObjects(v)
    BY <1>2 DEF Held
  <2>2. NamesInv'
    BY <2>1 DEF NamesInv, HeldObjects, Pending
  <2>3. EntriesInv'
    BY <2>1 DEF EntriesInv, HeldObjects
  <2>4. WritersInv'
    BY <2>1 DEF WritersInv, HeldObjects
  <2> QED
    BY <2>2, <2>3, <2>4
<1>6. StagesInv'
  BY <1>2 DEF StagesInv, Held, HeldStages
<1>7. CompactorsInv'
  <2>1. \A v \in Views' : HeldObjects(v)
    BY <1>2 DEF Held
  <2>2. ASSUME NEW n \in Nodes
        PROVE  SecondInv(n)' /\ PrivateInv(n)' /\ BuiltInv(n)' /\ CheckedInv(n)'
               /\ (compactor[n].pc \notin {"idle", "won"} => KeepsNewer(n))'
    <3>1. /\ SecondInv(n) /\ PrivateInv(n) /\ BuiltInv(n) /\ CheckedInv(n)
          /\ compactor[n].pc \notin {"idle", "won"} => KeepsNewer(n)
      BY CompactorParts
    <3>2. PrivateInv(n)'
      BY <2>1, <3>1 DEF PrivateInv, HeldObjects, Pending
    <3> QED
      BY <3>1, <3>2 DEF SecondInv, BuiltInv, CheckedInv, KeepsNewer, Pending, BuiltCovers
  <2> QED
    BY <2>2 DEF CompactorsInv, SecondInv, PrivateInv, BuiltInv, CheckedInv
<1>8. CoveredInv' /\ TailsInv' /\ PastInv' /\ SegmentsInv'
  <2>1. \A v \in Views' : HeldDocuments(v)
    BY <1>2 DEF Held
  <2>2. \A v : Covered(v)' = Covered(v)
    BY DEF Covered
  <2>3. \A v, k : SegmentIs(v, k)' <=> SegmentIs(v, k)
    BY DEF SegmentIs, HoldsCommits, LiveAfter
  <2> QED
    BY <2>1, <2>2, <2>3 DEF CoveredInv, TailsInv, PastInv, SegmentsInv, HeldDocuments
<1>9. OnceInv'
  BY DEF OnceInv
<1>10. FoldsInv'
  <2> SUFFICES ASSUME ~emptied, NEW n \in Nodes, Pending(n), compactor[n].built \in DataNames
               PROVE  \E k \in compactor[n].first.next_seq..Len(log) :
                          HoldsCommits(compactor[n].built, k)'
    BY DEF FoldsInv, Pending
  <2>1. PICK k \in compactor[n].first.next_seq..Len(log) :
            HoldsCommits(compactor[n].built, k)
    BY DEF FoldsInv
  <2>2. HoldsCommits(compactor[n].built, k)'
    BY <2>1 DEF HoldsCommits, LiveAfter
  <2> QED
    BY <2>1, <2>2
<1> QED
  BY <1>3, <1>4, <1>5, <1>6, <1>7, <1>8, <1>9, <1>10 DEF TypeInv

LEMMA HeldOn ==
    ASSUME NEW node, NEW n, OnlyRemembers(node, n), NEW m, Held(m)
    PROVE  Held(m)'
<1> USE DEF OnlyRemembers
<1>1. HeldVersion(m)' /\ HeldObjects(m)' /\ HeldStages(m)'
  BY DEF Held, HeldVersion, HeldObjects, HeldStages, Pending
<1>2. Covered(m)' = Covered(m) /\ \A k : SegmentIs(m, k)' <=> SegmentIs(m, k)
  BY DEF Covered, SegmentIs, HoldsCommits, LiveAfter
<1>3. HeldDocuments(m)'
  BY <1>2 DEF Held, HeldDocuments
<1> QED
  BY <1>1, <1>3 DEF Held
---------------------------------------------------------------------------
\* What a query answers.

\* A query on a manifest that it may hold sees the commits the manifest knows of.
LEMMA HeldTrue ==
    ASSUME Inv, NEW m, Held(m)
    PROVE  TrueEntries(m)
  BY DEF TrueEntries, Held, HeldVersion, HeldObjects, Inv, SafetyInv, VersionsInv

LEMMA WholeAnswer ==
    ASSUME Inv, LiveInv, ~emptied, NEW m, Held(m)
    PROVE  LiveIn(m) = LiveAfter(m.next_seq)
<1>1. PICK lo \in Nat : ListsFrom(m, lo)
  BY DEF Held, HeldDocuments
<1>2. PICK k \in 0..m.next_seq : SegmentIs(m, k)
  BY DEF Held, HeldDocuments
<1> QED
  BY <1>1, <1>2, HeldTrue, ReadsAll DEF Inv

LEMMA HeldFinite ==
    ASSUME Inv, NEW m, Held(m)
    PROVE  IsFiniteSet(m.wal)
<1>1. PICK lo \in Nat : ListsFrom(m, lo)
  BY DEF Held, HeldDocuments
<1>2. /\ m.next_seq \in Nat /\ lo <= m.next_seq
      /\ \A e \in m.wal : e.seq \in Nat /\ e.seq < m.next_seq
  BY <1>1, HeldTrue DEF TrueEntries, ListsFrom, Manifest, WalEntry
<1>3. Numbered(m.wal, lo, m.next_seq)
  BY <1>1, <1>2 DEF Numbered, ListsFrom
<1> QED
  BY <1>2, <1>3, CountNumbered

\* What fits is all there is, unless the WAL was cut.
LEMMA Untruncated ==
    ASSUME NEW m, IsFiniteSet(m.wal), m.wal \subseteq WalEntry, ~Truncated(m)
    PROVE  WalPrefixWithin(m) = m.wal
<1> SUFFICES ASSUME NEW e \in m.wal
             PROVE  Cardinality({d \in m.wal : d.seq <= e.seq}) <= MAX_UNINDEXED_SCAN_BYTES
  BY DEF WalPrefixWithin
<1> DEFINE upTo == {d \in m.wal : d.seq <= e.seq}
<1>1. upTo \subseteq m.wal
  OBVIOUS
<1> HIDE DEF upTo
<1>2. Cardinality(upTo) <= Cardinality(m.wal) /\ Cardinality(upTo) \in Nat
      /\ Cardinality(m.wal) \in Nat
  BY <1>1, FS_Subset, FS_CardinalityType
<1>3. Cardinality(m.wal) <= MAX_UNINDEXED_SCAN_BYTES
  BY <1>2, ReadsAssumption DEF Truncated
<1> QED
  BY <1>2, <1>3, ReadsAssumption DEF upTo

\* The oldest entries of an unbroken WAL that fit are its first ones.
LEMMA PrefixNumbered ==
    ASSUME NEW m, NEW lo \in Nat, m.next_seq \in Nat, lo <= m.next_seq,
           Numbered(m.wal, lo, m.next_seq)
    PROVE  \E hi \in lo..m.next_seq : Numbered(WalPrefixWithin(m), lo, hi)
<1> DEFINE UpTo(e) == {d \in m.wal : d.seq <= e.seq}
           fit == MAX_UNINDEXED_SCAN_BYTES
<1>1. \A e \in m.wal : e.seq \in Nat /\ lo <= e.seq /\ e.seq < m.next_seq
  BY DEF Numbered
<1>2. ASSUME NEW e \in m.wal PROVE Cardinality(UpTo(e)) = e.seq + 1 - lo
  <2> DEFINE hi == e.seq + 1
  <2>1. hi \in Nat /\ lo <= hi /\ hi - lo = e.seq + 1 - lo
    BY <1>1
  <2>2. UpTo(e) \subseteq m.wal /\ \A d \in UpTo(e) : d.seq <= e.seq
    OBVIOUS
  <2>3. \A d \in m.wal : d.seq <= e.seq => d \in UpTo(e)
    OBVIOUS
  <2> HIDE DEF UpTo
  <2>4. \A d \in UpTo(e) : d.seq \in lo..hi - 1
    BY <1>1, <2>2
  <2>5. ASSUME NEW s \in lo..hi - 1 PROVE \E d \in UpTo(e) : d.seq = s
    <3>1. s \in lo..m.next_seq - 1 /\ s <= e.seq
      BY <1>1
    <3>2. PICK d \in m.wal : d.seq = s
      BY <3>1 DEF Numbered
    <3> QED
      BY <2>3, <3>1, <3>2
  <2>6. \A c, d \in UpTo(e) : c.seq = d.seq => c = d
    BY <2>2 DEF Numbered
  <2>7. Numbered(UpTo(e), lo, hi)
    BY <2>4, <2>5, <2>6 DEF Numbered
  <2> HIDE DEF hi
  <2>8. Cardinality(UpTo(e)) = hi - lo
    BY <2>1, <2>7, CountNumbered
  <2> QED
    BY <2>1, <2>8
<1>3. WalPrefixWithin(m) = {e \in m.wal : e.seq + 1 - lo <= fit}
  BY <1>2 DEF WalPrefixWithin
<1> DEFINE hi == IF lo + fit <= m.next_seq THEN lo + fit ELSE m.next_seq
<1>4. /\ fit \in Nat /\ hi \in lo..m.next_seq
      /\ \A s \in lo..m.next_seq - 1 : s + 1 - lo <= fit <=> s < hi
  BY ReadsAssumption
<1> HIDE DEF hi, fit
<1>5. WalPrefixWithin(m) = {e \in m.wal : e.seq < hi}
  BY <1>1, <1>3, <1>4
<1>6. \A e \in WalPrefixWithin(m) : e.seq \in lo..hi - 1
  BY <1>1, <1>4, <1>5
<1>7. ASSUME NEW s \in lo..hi - 1 PROVE \E e \in WalPrefixWithin(m) : e.seq = s
  <2>1. s \in lo..m.next_seq - 1 /\ s < hi
    BY <1>4
  <2> QED
    BY <1>5, <2>1 DEF Numbered
<1>8. \A c, d \in WalPrefixWithin(m) : c.seq = d.seq => c = d
  BY <1>5 DEF Numbered
<1> QED
  BY <1>4, <1>6, <1>7, <1>8 DEF Numbered

\* Where the segment ends the WAL begins, unless the WAL still lists a batch that
\* the segment accounts for.
LEMMA SegmentMeetsWal ==
    ASSUME Inv, LiveInv, ~emptied, NEW m, Held(m), ~FoldedTwice(m),
           NEW lo \in Nat, ListsFrom(m, lo)
    PROVE  SegmentOf(m) = LiveAfter(lo)
<1>0. /\ m.next_seq \in Nat /\ Len(log) \in Nat /\ m.next_seq <= Len(log)
      /\ lo <= m.next_seq /\ DOMAIN log = 1..Len(log)
      /\ \A e \in m.wal : e.seq \in Nat /\ e.seq < m.next_seq /\ body[e.name] = log[e.seq + 1]
  BY HeldTrue, LogRecords DEF TrueEntries, Inv, ListsFrom, Manifest, WalEntry
<1>1. PICK k \in 0..m.next_seq : SegmentIs(m, k)
  BY DEF Held, HeldDocuments
<1>2. CASE m.shards \in DataNames
  <2>1. HoldsCommits(m.shards, k)
    BY <1>1, <1>2 DEF SegmentIs
  <2>2. ~(k < lo)
    <3> SUFFICES ASSUME k < lo PROVE FALSE
      OBVIOUS
    <3>1. k \in k..m.next_seq - 1
      BY <1>0
    <3>2. PICK e \in m.wal : e.seq = k
      BY <1>1, <3>1 DEF SegmentIs
    <3> QED
      BY <1>0, <3>2 DEF ListsFrom
  <2>3. ~(lo < k)
    <3> SUFFICES ASSUME lo < k PROVE FALSE
      OBVIOUS
    <3>1. lo \in lo..m.next_seq - 1 /\ lo + 1 \in 1..k
      BY <1>0
    <3>2. PICK e \in m.wal : e.seq = lo
      BY <3>1 DEF ListsFrom
    <3>3. body[e.name] \in body[m.shards].covers
      BY <1>0, <2>1, <3>1, <3>2 DEF HoldsCommits
    <3> QED
      BY <1>2, <3>2, <3>3 DEF FoldedTwice
  <2>4. k = lo
    BY <1>0, <2>2, <2>3
  <2> QED
    BY <1>1, <2>4, SegmentIsOf
<1>3. CASE m.shards \notin DataNames
  <2>1. lo = 0
    <3> SUFFICES ASSUME lo > 0 PROVE FALSE
      OBVIOUS
    <3>1. 1 \in 1..m.next_seq /\ 1 \in DOMAIN log
      BY <1>0
    <3>2. log[1] \in Covered(m)
      BY <3>1 DEF Held, HeldDocuments
    <3>3. PICK e \in m.wal : log[1] = body[e.name]
      BY <1>3, <3>2 DEF Covered, WalObjects
    <3>4. e.seq + 1 \in DOMAIN log /\ log[e.seq + 1] = log[1]
      BY <1>0, <3>3
    <3>5. e.seq + 1 = 1
      BY <3>1, <3>4 DEF LiveInv, OnceInv
    <3> QED
      BY <1>0, <3>5 DEF ListsFrom
  <2>2. LiveAfter(0) = NoDocs
    BY FirstRound DEF LiveAfter
  <2> QED
    BY <1>3, <2>1, <2>2 DEF SegmentOf
<1> QED
  BY <1>2, <1>3

\* An answer from part of the WAL.
LEMMA PartAnswer ==
    ASSUME Inv, LiveInv, ~emptied, NEW m, Held(m), ~FoldedTwice(m)
    PROVE  \E k \in 0..m.next_seq : LiveWith(m, WalPrefixWithin(m)) = LiveAfter(k)
<1>1. PICK lo \in Nat : ListsFrom(m, lo)
  BY DEF Held, HeldDocuments
<1>2. /\ m.next_seq \in Nat /\ lo <= m.next_seq
      /\ \A e \in m.wal : e.seq \in Nat /\ e.seq < m.next_seq
  BY <1>1, HeldTrue DEF TrueEntries, ListsFrom, Manifest, WalEntry
<1>3. Numbered(m.wal, lo, m.next_seq)
  BY <1>1, <1>2 DEF Numbered, ListsFrom
<1>4. PICK hi \in lo..m.next_seq : Numbered(WalPrefixWithin(m), lo, hi)
  BY <1>2, <1>3, PrefixNumbered
<1>5. lo \in lo..hi /\ WalPrefixWithin(m) \in SUBSET m.wal
  BY <1>2 DEF WalPrefixWithin
<1>6. LiveWith(m, WalPrefixWithin(m)) = LiveAfter(hi)
  BY <1>1, <1>4, <1>5, HeldTrue, SegmentMeetsWal, ReadsPart DEF Inv
<1> QED
  BY <1>2, <1>4, <1>6
---------------------------------------------------------------------------
\* Every query, in every reachable state.

\* What a query holds stays true of it, whatever others do.
LEMMA QueryKept ==
    ASSUME Inv, LiveInv, [Next]_vars, NEW r, r.view \in Manifest
    PROVE  /\ HoldsView(r) => HoldsView(r)'
           /\ HoldsView(r) /\ AnswerIs(r) => AnswerIs(r)'
<1>1. /\ Len(log) \in Nat /\ Len(log') \in Nat /\ Len(log) <= Len(log')
      /\ (~emptied' => ~emptied)
  <2>1. TypeInv /\ TypeInv'
    BY InvStep DEF Inv
  <2> QED
    BY <2>1, LogGrows, LogRecords, EmptiedStays, LenProperties DEF TypeInv, TypeOK, HistoryTypeOK
<1>2. PICK m : m = r.view
  OBVIOUS
<1>3. HoldsView(r) => HoldsView(r)'
  <2> SUFFICES ASSUME HoldsView(r) PROVE HoldsView(r)'
    OBVIOUS
  <2>1. Held(m)'
    BY <1>2, HeldStep DEF HoldsView
  <2> QED
    BY <1>1, <1>2, <2>1 DEF HoldsView
<1>4. ASSUME HoldsView(r), AnswerIs(r)
      PROVE  AnswerIs(r)'
  <2>1. Held(m) /\ m \in Manifest /\ m.next_seq \in Nat /\ m.next_seq <= Len(log)
    BY <1>2, <1>4, HeldTrue DEF HoldsView, TrueEntries, Manifest
  <2>2. FoldedTwice(m)' <=> FoldedTwice(m)
    <3>1. /\ \A e \in m.wal : body'[e.name] = body[e.name]
          /\ m.shards \in DataNames => body'[m.shards] = body[m.shards]
      BY <2>1, Objects DEF Held, HeldObjects, Inv, BodyGrows, Referenced, WalObjects, Segments
    <3> QED
      BY <3>1 DEF FoldedTwice
  <2>3. \A k \in 0..m.next_seq : LiveAfter(k)' = LiveAfter(k)
    <3> SUFFICES ASSUME NEW k \in 0..m.next_seq PROVE LiveAfter(k)' = LiveAfter(k)
      OBVIOUS
    <3>1. k \in 0..Len(log)
      BY <1>1, <2>1
    <3> QED
      BY <3>1, LiveAfterKept DEF Inv
  <2>4. ASSUME ~emptied', ~Truncated(m)
        PROVE  r.answer = LiveAfter(m.next_seq)'
    <3>1. r.answer = LiveAfter(m.next_seq)
      BY <1>1, <1>2, <1>4, <2>4 DEF AnswerIs
    <3>2. PICK k \in 0..m.next_seq : k = m.next_seq
      BY <2>1
    <3> QED
      BY <2>3, <3>1, <3>2
  <2>5. ASSUME ~emptied', ~FoldedTwice(m)
        PROVE  \E k \in 0..m.next_seq : r.answer = LiveAfter(k)'
    <3>1. PICK k \in 0..m.next_seq : r.answer = LiveAfter(k)
      BY <1>1, <1>2, <1>4, <2>5 DEF AnswerIs
    <3> QED
      BY <2>3, <3>1
  <2>6. (r.consistent => Consistent(r)) /\ ~Refused(r)
    BY <1>4 DEF AnswerIs
  <2> QED
    BY <1>2, <2>2, <2>4, <2>5, <2>6 DEF AnswerIs
<1> QED
  BY <1>3, <1>4

LEMMA NoReadFields ==
    /\ DOMAIN NoRead = ReadFields
    /\ NoRead.pc = "idle"
    /\ \A mode \in {"strong", "eventual"} : /\ DOMAIN Query(mode) = ReadFields
                                             /\ Query(mode).mode = mode
                                             /\ Query(mode).since = Len(log)
                                             /\ Query(mode).fromSnapshot = FALSE
  BY DEF NoRead, ReadFields, Query

\* A step of another task leaves every query as it was.
LEMMA OthersStep ==
    ASSUME Inv, LiveInv, [Next]_vars, NEW r, QueryIs(r)
    PROVE  QueryIs(r)'
<1>1. r.pc # "idle" => r.view \in Manifest
  BY DEF QueryIs, HoldsView, Held, HeldVersion
<1> QED
  BY <1>1, QueryKept DEF QueryIs
LEMMA RememberingStep ==
    ASSUME NEW node, NEW m, OnlyRemembers(node, m), NEW r, QueryIs(r)
    PROVE  QueryIs(r)'
<1>1. ASSUME HoldsView(r) PROVE HoldsView(r)'
  <2>1. Held(r.view)'
    BY <1>1, HeldOn DEF HoldsView
  <2> QED
    BY <1>1, <2>1 DEF HoldsView, OnlyRemembers
<1>2. ASSUME AnswerIs(r) PROVE AnswerIs(r)'
  BY <1>2 DEF AnswerIs, FoldedTwice, LiveAfter, OnlyRemembers
<1> QED
  BY <1>1, <1>2 DEF QueryIs

\* One query goes on, the others stay.
LEMMA OneQuery ==
    ASSUME ReadersInv, NEW node \in Nodes, NEW q, reader' = [reader EXCEPT ![node] = q]
    PROVE  DOMAIN reader' = Nodes /\ \A r \in Queries' : r \in Queries \/ r = q
  BY DEF ReadersInv, Queries

\* The steps of a query that leave the namespace alone.
LEMMA QuerySteps ==
    ASSUME Inv, LiveInv, ReadersInv, NEW node \in Nodes,
           \/ ReadRemembered(node)
           \/ \E mode \in {"strong", "eventual"} : ReadLoad(node, mode)
           \/ ReadObjects(node) \/ ReadFails(node) \/ ReadDone(node)
    PROVE  /\ UNCHANGED vars
           /\ \E q : QueryIs(q) /\ reader' = [reader EXCEPT ![node] = q]
<1>0. /\ reader[node] \in Queries /\ QueryIs(reader[node]) /\ Len(log) \in Nat
      /\ manifest \in Views /\ manifest.next_seq = Len(log)
      /\ snapshot[node] # NoManifest => snapshot[node] \in Views
  BY LogRecords, ViewsHeld DEF ReadersInv, Queries, Inv, SafetyInv, VersionsInv
<1>1. ASSUME ReadRemembered(node)
      PROVE  \E q : QueryIs(q) /\ reader' = [reader EXCEPT ![node] = q]
  <2> DEFINE q == [Query("eventual") EXCEPT !.pc = "read", !.view = snapshot[node],
                                            !.fromSnapshot = TRUE]
  <2>1. /\ DOMAIN q = ReadFields /\ q.pc = "read" /\ q.view = snapshot[node]
        /\ q.fromSnapshot = TRUE /\ q.mode = "eventual" /\ q.since = Len(log)
    BY NoReadFields DEF ReadFields
  <2>2. Held(snapshot[node])
    BY <1>0, <1>1, ViewsAreHeld DEF ReadRemembered
  <2>3. reader' = [reader EXCEPT ![node] = q]
    BY <1>1 DEF ReadRemembered
  <2> HIDE DEF q
  <2>4. HoldsView(q)
    BY <1>0, <2>1, <2>2 DEF HoldsView
  <2> QED
    BY <2>1, <2>3, <2>4 DEF QueryIs
<1>2. ASSUME NEW mode \in {"strong", "eventual"}, ReadLoad(node, mode)
      PROVE  \E q : QueryIs(q) /\ reader' = [reader EXCEPT ![node] = q]
  <2> DEFINE q == [Query(mode) EXCEPT !.pc = "got", !.view = manifest]
  <2>1. /\ DOMAIN q = ReadFields /\ q.pc = "got" /\ q.view = manifest
        /\ q.fromSnapshot = FALSE /\ q.since = Len(log)
    BY NoReadFields DEF ReadFields
  <2>2. Held(manifest)
    BY <1>0, ViewsAreHeld
  <2>3. reader' = [reader EXCEPT ![node] = q]
    BY <1>2 DEF ReadLoad
  <2> HIDE DEF q
  <2>4. HoldsView(q)
    BY <1>0, <2>1, <2>2 DEF HoldsView
  <2> QED
    BY <2>1, <2>3, <2>4 DEF QueryIs
<1>3. ASSUME ReadObjects(node)
      PROVE  \E q : QueryIs(q) /\ reader' = [reader EXCEPT ![node] = q]
  <2> DEFINE r == reader[node]
             answer == LiveWith(r.view, WalPrefixWithin(r.view))
             consistent == Consistent(r)
  <2> HIDE DEF answer, consistent
  <2> DEFINE q == [r EXCEPT !.pc = "answered", !.consistent = consistent, !.answer = answer]
  <2>1. /\ DOMAIN q = ReadFields /\ q.pc = "answered" /\ q.view = r.view
        /\ q.fromSnapshot = r.fromSnapshot /\ q.mode = r.mode /\ q.since = r.since
        /\ q.consistent = consistent /\ q.answer = answer
    BY <1>0 DEF QueryIs, ReadFields
  <2>2. r.pc = "read" /\ ~Refused(r) /\ reader' = [reader EXCEPT ![node] = q]
    BY <1>3 DEF ReadObjects, answer, consistent
  <2> HIDE DEF q
  <2>3. HoldsView(r)
    BY <1>0, <2>2 DEF QueryIs
  <2>4. HoldsView(q)
    BY <2>1, <2>3 DEF HoldsView
  <2>5. (q.consistent => Consistent(q)) /\ ~Refused(q)
    BY <2>1, <2>2 DEF Consistent, Refused, consistent
  <2> PICK m : m = r.view
    OBVIOUS
  <2>6. Held(m) /\ m.next_seq \in Nat
    BY <2>3 DEF HoldsView, Held, HeldVersion, Manifest
  <2>7. ASSUME ~emptied, ~Truncated(m) PROVE answer = LiveAfter(m.next_seq)
    <3>1. m.wal \subseteq WalEntry /\ IsFiniteSet(m.wal)
      BY <2>6, HeldFinite DEF Held, HeldVersion, Manifest
    <3> QED
      BY <2>6, <2>7, <3>1, Untruncated, WholeAnswer DEF answer, LiveIn
  <2>8. ASSUME ~emptied, ~FoldedTwice(m) PROVE \E k \in 0..m.next_seq : answer = LiveAfter(k)
    BY <2>6, <2>8, PartAnswer DEF answer
  <2>9. AnswerIs(q)
    BY <2>1, <2>5, <2>7, <2>8 DEF AnswerIs
  <2> QED
    BY <2>1, <2>2, <2>4, <2>9 DEF QueryIs
<1>4. ASSUME ReadFails(node) \/ ReadDone(node)
      PROVE  \E q : QueryIs(q) /\ reader' = [reader EXCEPT ![node] = q]
  BY <1>4, NoReadFields DEF ReadFails, ReadDone, QueryIs
<1>5. UNCHANGED vars
  BY DEF ReadRemembered, ReadLoad, ReadObjects, ReadFails, ReadDone
<1> QED
  BY <1>1, <1>2, <1>3, <1>4, <1>5

ReadsInv == Inv /\ LiveInv /\ ReadersInv

LEMMA ReadersInit == ReadsInit => ReadsInv
<1> SUFFICES ASSUME ReadsInit PROVE ReadsInv
  OBVIOUS
<1>1. Inv /\ LiveInv
  BY InvInit, InitLive DEF ReadsInit
<1>2. ReadersInv
  BY NoReadFields DEF ReadsInit, ReadersInv, Queries, QueryIs
<1> QED
  BY <1>1, <1>2 DEF ReadsInv

LEMMA ReadersStep == ReadsInv /\ [ReadsNext]_allVars => ReadsInv'
<1> SUFFICES ASSUME ReadsInv, [ReadsNext]_allVars PROVE ReadsInv'
  OBVIOUS
<1> USE DEF ReadsInv
<1>1. ASSUME [Next]_vars,
             \/ UNCHANGED reader
             \/ \E node \in Nodes : \E q :
                    QueryIs(q) /\ reader' = [reader EXCEPT ![node] = q]
      PROVE  ReadsInv'
  <2>1. Inv' /\ LiveInv'
    BY <1>1, InvStep, LiveStep
  <2>2. DOMAIN reader' = Nodes /\ \A r \in Queries' : QueryIs(r)
    BY <1>1, OneQuery DEF ReadersInv, Queries
  <2>3. \A r \in Queries' : QueryIs(r)'
    BY <1>1, <2>2, OthersStep
  <2> QED
    BY <2>1, <2>2, <2>3 DEF ReadersInv
<1>2. CASE UNCHANGED allVars
  BY <1>1, <1>2 DEF allVars
<1>3. CASE Elsewhere
  BY <1>1, <1>3 DEF Elsewhere, Next
<1>4. CASE \E node \in Nodes : CrashReading(node)
  <2>1. QueryIs(NoRead)
    BY NoReadFields DEF QueryIs
  <2> QED
    BY <1>1, <1>4, <2>1 DEF CrashReading, Next
<1>5. ASSUME NEW node \in Nodes, ReadRemember(node)
      PROVE  ReadsInv'
  <2> DEFINE r == reader[node]
             q == [r EXCEPT !.pc = "read"]
  <2>1. QueryIs(r) /\ r.pc = "got" /\ r \in Queries
    BY <1>5 DEF ReadRemember, ReadersInv, Queries
  <2>2. reader' = [reader EXCEPT ![node] = q]
    BY <1>5 DEF ReadRemember
  <2>3. /\ DOMAIN q = ReadFields /\ q.pc = "read" /\ q.view = r.view
        /\ q.fromSnapshot = r.fromSnapshot /\ q.mode = r.mode /\ q.since = r.since
    BY <2>1 DEF QueryIs, ReadFields
  <2> HIDE DEF q
  <2>4. QueryIs(q)
    BY <2>1, <2>3 DEF QueryIs, HoldsView
  <2> PICK m : m = r.view
    OBVIOUS
  <2>5. OnlyRemembers(node, m) /\ Held(m)
    BY <1>5, <2>1 DEF ReadRemember, OnlyRemembers, QueryIs, HoldsView, storeVars, clientVars
  <2>6. Inv' /\ LiveInv'
    BY <2>5, RememberKeeps
  <2>7. DOMAIN reader' = Nodes /\ \A p \in Queries' : QueryIs(p)
    BY <2>2, <2>4, OneQuery DEF ReadersInv
  <2>8. \A p \in Queries' : QueryIs(p)'
    BY <2>5, <2>7, RememberingStep
  <2> QED
    BY <2>6, <2>7, <2>8 DEF ReadersInv
<1>6. ASSUME NEW node \in Nodes, ReaderNext(node), ~ReadRemember(node)
      PROVE  ReadsInv'
  <2>1. /\ UNCHANGED vars
        /\ \E q : QueryIs(q) /\ reader' = [reader EXCEPT ![node] = q]
    BY <1>6, QuerySteps DEF ReaderNext
  <2> QED
    BY <1>1, <2>1
<1> QED
  BY <1>2, <1>3, <1>4, <1>5, <1>6, ReadsAssumption DEF ReadsNext

LEMMA ReadsInvariance == ReadsSpec => []ReadsInv
  BY ReadersInit, ReadersStep, PTL DEF ReadsSpec

\* What a query holds, when it has answered.
LEMMA AnswerOf ==
    ASSUME ReadsInv, NEW n \in Reading, Answered(n)
    PROVE  /\ HoldsView(reader[n]) /\ AnswerIs(reader[n])
           /\ reader[n].view.next_seq \in 0..Len(log) /\ Len(log) \in Nat
<1>1. QueryIs(reader[n])
  BY ReadsAssumption DEF ReadsInv, ReadersInv, Queries
<1>2. HoldsView(reader[n]) /\ AnswerIs(reader[n])
  BY <1>1 DEF Answered, QueryIs
<1> QED
  BY <1>2, HeldTrue, LogRecords DEF ReadsInv, Inv, HoldsView, TrueEntries, Manifest

\* A strong answer has every batch that was committed before the query arrived, and
\* each of them whole, whatever is compacted, swept or committed while the query
\* runs, as long as no compaction finds the namespace emptied (query: the load past
\* the snapshot, and the refusal to answer from part of the WAL).
THEOREM StrongReads == ReadsSpec => [](~emptied => StrongIsFresh)
<1>1. ReadsInv => (~emptied => StrongIsFresh)
  <2> SUFFICES ASSUME ReadsInv, ~emptied, NEW n \in Reading, Answered(n),
                      reader[n].mode = "strong"
               PROVE  \E k \in reader[n].since..Len(log) : reader[n].answer = LiveAfter(k)
    BY DEF StrongIsFresh
  <2> DEFINE r == reader[n]
             k == r.view.next_seq
  <2>1. HoldsView(r) /\ AnswerIs(r) /\ k \in 0..Len(log) /\ Len(log) \in Nat
    BY AnswerOf
  <2>2. ~Truncated(r.view) /\ r.since <= k /\ r.since \in Nat
    BY <2>1 DEF HoldsView, AnswerIs, Refused
  <2>3. r.answer = LiveAfter(k)
    BY <2>1, <2>2 DEF AnswerIs
  <2>4. k \in r.since..Len(log)
    BY <2>1, <2>2
  <2> QED
    BY <2>3, <2>4
<1> QED
  BY <1>1, ReadsInvariance, PTL

\* An answer that calls itself consistent has as much (query's `consistent` flag:
\* the manifest was loaded for the query and the WAL was not cut).
THEOREM HonestReads == ReadsSpec => [](~emptied => ConsistentIsHonest)
<1>1. ReadsInv => (~emptied => ConsistentIsHonest)
  <2> SUFFICES ASSUME ReadsInv, ~emptied, NEW n \in Reading, Answered(n), reader[n].consistent
               PROVE  \E k \in reader[n].since..Len(log) : reader[n].answer = LiveAfter(k)
    BY DEF ConsistentIsHonest
  <2> DEFINE r == reader[n]
             k == r.view.next_seq
  <2>1. HoldsView(r) /\ AnswerIs(r) /\ k \in 0..Len(log) /\ Len(log) \in Nat
    BY AnswerOf
  <2>2. ~Truncated(r.view) /\ r.since <= k /\ r.since \in Nat
    BY <2>1 DEF HoldsView, AnswerIs, Consistent
  <2>3. r.answer = LiveAfter(k)
    BY <2>1, <2>2 DEF AnswerIs
  <2>4. k \in r.since..Len(log)
    BY <2>1, <2>2
  <2> QED
    BY <2>3, <2>4
<1> QED
  BY <1>1, ReadsInvariance, PTL

\* Every answer is the live set after some number of commits, also one read from a
\* remembered manifest or from the oldest part of the WAL only, unless the WAL that
\* was cut still lists a batch the segment accounts for (wal_prefix_within).
THEOREM PastReads == ReadsSpec => [](~emptied => AnswersArePast)
<1>1. ReadsInv => (~emptied => AnswersArePast)
  <2> SUFFICES ASSUME ReadsInv, ~emptied, NEW n \in Reading, Answered(n),
                      Truncated(reader[n].view) => ~FoldedTwice(reader[n].view)
               PROVE  \E k \in 0..Len(log) : reader[n].answer = LiveAfter(k)
    BY DEF AnswersArePast
  <2> DEFINE r == reader[n]
  <2>1. HoldsView(r) /\ AnswerIs(r) /\ r.view.next_seq \in 0..Len(log) /\ Len(log) \in Nat
    BY AnswerOf
  <2>2. CASE ~Truncated(r.view)
    BY <2>1, <2>2 DEF AnswerIs
  <2>3. CASE Truncated(r.view)
    <3>1. PICK k \in 0..r.view.next_seq : r.answer = LiveAfter(k)
      BY <2>1, <2>3 DEF AnswerIs
    <3>2. k \in 0..Len(log)
      BY <2>1
    <3> QED
      BY <3>1, <3>2
  <2> QED
    BY <2>2, <2>3
<1> QED
  BY <1>1, ReadsInvariance, PTL

=============================================================================
