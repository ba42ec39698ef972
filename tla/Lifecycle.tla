----------------------------- MODULE Lifecycle -----------------------------
(***************************************************************************)
(* Namespaces that come and go (store.rs: branch, destroy; server.rs: the  *)
(* registry of handles and the collector), while others are written,       *)
(* compacted and swept by the same process, which may be restarted.        *)
(*                                                                         *)
(* A call of the store is a step.  What a batch does to documents is left  *)
(* out: a WAL object holds its batch, and a segment the batches it folds.  *)
(* A manifest stands for its version, as no two with the same objects      *)
(* differ.  The races of one namespace's own tasks over its manifest are   *)
(* the subject of Namespace.                                               *)
(***************************************************************************)
EXTENDS Integers, Sequences, FiniteSets, FiniteSetsExt, TLC

CONSTANTS
    Namespaces,
    Tasks,      \* requests and background compactions in flight
    Limits,     \* bound: [operation -> how often it begins]
    MaxBegun,   \* bound: operations that begin, of all kinds
    MaxNames    \* bound: objects that are named

ASSUME LifecycleAssumption == "none" \notin Namespaces

VARIABLES
    manifest,   \* [Namespaces -> manifest]
    objects,    \* [Namespaces -> names that storage holds under the namespace]
    holds,      \* the batches of every object ever written, by name
    task,       \* [Tasks -> an operation and its locals]
    sweep,      \* the collector's sweep
    resident,   \* the namespaces with a handle
    seen,       \* those the collector's `seen` has at the current counter
    spent,      \* how often each operation began
    gone,       \* ghost: [Namespaces -> batches that were destroyed]
    torn,       \* ghost: namespaces destroyed while a task was to change them or
                \* with their manifest left in place, since when no destroy came
                \* to its end with nobody about to change them; and those into
                \* which a copy was put that a sweep was about to delete
    outrun,     \* ghost: namespaces destroyed under a compaction
    swept       \* ghost: [Namespaces -> the garbage when a sweep began that found
                \* nothing to spare; without what was put there again]

storage == <<manifest, objects, holds>>
ghosts == <<gone, torn, outrun, swept>>
vars == <<storage, task, sweep, resident, seen, spent, ghosts>>

Operations == {"write", "compact", "branch", "destroy", "sweep", "evict", "fault"}

\* Manifest::default is what load() makes of one that is not there.
NoManifest == [exists |-> FALSE, wal |-> {}, built |-> FALSE, segments |-> {}]

Referenced(m) == m.wal \cup m.segments
Garbage(n) == objects[n] \ Referenced(manifest[n])
Batches(m) == UNION {holds[o] : o \in Referenced(m)}

Idle == [op |-> "idle", ns |-> "none"]
NextName == Len(holds) + 1

\* A call that is to change the manifest of n.
Changes(call, n) ==
    \/ call.op \in {"write", "compact"} /\ call.ns = n
    \/ call.op = "branch" /\ call.dest = n
IsCompaction(call, n) == call.op = "compact" /\ call.ns = n
IsDestroy(call, n) == call.op = "destroy" /\ call.ns = n

Changing(n) == \E t \in Tasks : Changes(task[t], n)
Compacting(n) == \E t \in Tasks : IsCompaction(task[t], n)
Destroying(n) == \E t \in Tasks : IsDestroy(task[t], n)

\* An object that a call has put and may yet refer to.
Uses(call, n, o) ==
    \/ call.op = "write" /\ call.phase = "cas" /\ call.ns = n /\ o = call.name
    \/ IsCompaction(call, n) /\ call.phase = "cas" /\ o \in call.names
    \/ call.op = "branch" /\ call.dest = n /\ o \in Referenced(call.view) \ call.rest

\* What the collector may delete of n, or is about to.
Condemned(n) ==
    IF sweep.ns # n THEN {}
    ELSE IF sweep.phase = "list" THEN sweep.aged \ sweep.referenced ELSE sweep.doomed

---------------------------------------------------------------------------
Init ==
    /\ manifest = [n \in Namespaces |-> NoManifest]
    /\ objects = [n \in Namespaces |-> {}]
    /\ holds = <<>>
    /\ task = [t \in Tasks |-> Idle]
    /\ sweep = Idle
    /\ resident = {}
    /\ seen = {}
    /\ spent = [op \in Operations |-> 0]
    /\ gone = [n \in Namespaces |-> {}]
    /\ torn = {}
    /\ outrun = {}
    /\ swept = [n \in Namespaces |-> {}]

SpendAll(ops) ==
    /\ \A op \in ops : spent[op] < Limits[op]
    /\ MapThenSumSet(LAMBDA o : spent[o], Operations) < MaxBegun
    /\ spent' = [op \in Operations |-> IF op \in ops THEN spent[op] + 1 ELSE spent[op]]

Spend(op) == SpendAll({op})

\* A request takes its namespace's handle, or makes it (resident).
Take(t, locals) ==
    /\ task[t] = Idle
    /\ task' = [task EXCEPT ![t] = locals]
    /\ resident' = resident \cup {locals.ns}

Begin(t, locals) == Spend(locals.op) /\ Take(t, locals)

Step(t, locals) ==
    /\ task' = [task EXCEPT ![t] = locals]
    /\ UNCHANGED <<resident, spent>>

\* What is put while a sweep is about to list is young; and what is put is not
\* what a sweep has found.
Put(n, name) ==
    /\ objects' = [objects EXCEPT ![n] = @ \cup {name}]
    /\ sweep' = IF sweep.ns # n THEN sweep
                ELSE IF sweep.phase = "list"
                THEN [sweep EXCEPT !.garbage = @ \ {name}, !.aged = @ \ {name}]
                ELSE [sweep EXCEPT !.garbage = @ \ {name}]
    /\ swept' = [swept EXCEPT ![n] = @ \ {name}]

NewObject(n, contents) ==
    /\ NextName <= MaxNames
    /\ holds' = Append(holds, contents)
    /\ Put(n, NextName)

---------------------------------------------------------------------------
\* commit_records.
BeginWrite(t, n) ==
    /\ Begin(t, [op |-> "write", ns |-> n, phase |-> "put", view |-> manifest[n]])
    /\ torn' = IF Destroying(n) THEN torn \cup {n} ELSE torn
    /\ UNCHANGED <<storage, sweep, seen, gone, outrun, swept>>

PutWal(t) ==
    LET n == task[t].ns IN
    /\ task[t].op = "write" /\ task[t].phase = "put"
    /\ NewObject(n, {NextName})
    /\ Step(t, [op |-> "write", ns |-> n, phase |-> "cas", view |-> task[t].view,
                name |-> NextName])
    /\ UNCHANGED <<manifest, seen, gone, torn, outrun>>

\* (Variant: the store takes any version for the current one.)
AnyVersion(t) == TRUE

SameVersion(t) == manifest[task[t].ns] = task[t].view

\* PutMode::Update, or Create; a commit that lost starts over with a new object.
CommitWrite(t) ==
    LET call == task[t]
        n == call.ns IN
    /\ call.op = "write" /\ call.phase = "cas"
    /\ IF SameVersion(t)
       THEN /\ manifest' = [manifest EXCEPT ![n] =
                    [call.view EXCEPT !.exists = TRUE, !.wal = @ \cup {call.name}]]
            /\ Step(t, Idle)
       ELSE /\ Step(t, [op |-> "write", ns |-> n, phase |-> "put", view |-> manifest[n]])
            /\ UNCHANGED manifest
    /\ UNCHANGED <<objects, holds, sweep, seen, ghosts>>

---------------------------------------------------------------------------
\* compact.  The process-wide counter moves when one begins, whatever it is for;
\* where all is folded and indexed already, that is all it does.
BeginCompact(t, n) ==
    LET m == manifest[n] IN
    /\ IF m.wal = {} /\ m.segments # {}
       THEN /\ Spend("compact") /\ task[t] = Idle
            /\ resident' = resident \cup {n}
            /\ UNCHANGED task
       ELSE Begin(t, [op |-> "compact", ns |-> n, phase |-> "read", view |-> m])
    /\ seen' = {}
    /\ sweep' = IF sweep = Idle THEN Idle ELSE [sweep EXCEPT !.current = FALSE]
    /\ torn' = IF Destroying(n) THEN torn \cup {n} ELSE torn
    /\ UNCHANGED <<storage, gone, outrun, swept>>

\* all_records, and the objects of the shards; an object that is not there
\* fails the compaction.
BuildShards(t) ==
    LET n == task[t].ns
        found == Batches(manifest[n])
        built(names) == [op |-> "compact", ns |-> n, phase |-> "cas",
                         view |-> task[t].view, names |-> names] IN
    /\ task[t].op = "compact" /\ task[t].phase = "read"
    /\ Referenced(manifest[n]) \subseteq objects[n]
    /\ IF found = {}
       THEN Step(t, built({})) /\ UNCHANGED <<objects, holds, sweep, swept>>
       ELSE Step(t, built({NextName})) /\ NewObject(n, found)
    /\ UNCHANGED <<manifest, seen, gone, torn, outrun>>

\* Its commit loads, compares the shards and puts, until the CAS holds.
CommitCompact(t) ==
    LET call == task[t]
        n == call.ns
        m == manifest[n] IN
    /\ call.op = "compact" /\ call.phase = "cas"
    /\ manifest' =
        IF m.built = call.view.built /\ m.segments = call.view.segments
        THEN [manifest EXCEPT ![n] = [exists |-> TRUE, wal |-> m.wal \ call.view.wal,
                                      built |-> TRUE, segments |-> call.names]]
        ELSE manifest
    /\ Step(t, Idle)
    /\ UNCHANGED <<objects, holds, sweep, seen, ghosts>>

---------------------------------------------------------------------------
\* branch: the manifest, the destination's, every object, and the manifest last.
BeginBranch(t, n, dest) ==
    /\ Begin(t, [op |-> "branch", ns |-> n, phase |-> "head", view |-> manifest[n],
                 dest |-> dest, rest |-> Referenced(manifest[n])])
    /\ torn' = IF Destroying(dest) THEN torn \cup {dest} ELSE torn
    /\ UNCHANGED <<storage, sweep, seen, gone, outrun, swept>>

\* Whatever the head call fails of is taken for a destination that is not there.
HeadDestination(t) ==
    LET copying == [task[t] EXCEPT !.phase = "copy"] IN
    /\ task[t].op = "branch" /\ task[t].phase = "head"
    /\ \/ Step(t, IF manifest[task[t].dest].exists THEN Idle ELSE copying)
       \/ /\ manifest[task[t].dest].exists
          /\ Spend("fault")
          /\ task' = [task EXCEPT ![t] = copying]
          /\ UNCHANGED resident
    /\ UNCHANGED <<storage, sweep, seen, ghosts>>

\* An object that is no longer there fails the branch.  A copy has the age of its
\* own PUT, but a sweep that has listed an older one of that name deletes it.
Copy(t, o) ==
    LET call == task[t] IN
    /\ call.op = "branch" /\ call.phase = "copy"
    /\ o \in call.rest \cap objects[call.ns]
    /\ Put(call.dest, o)
    /\ Step(t, [call EXCEPT !.rest = @ \ {o}])
    /\ torn' = IF o \in Condemned(call.dest) /\ sweep.phase = "delete"
               THEN torn \cup {call.dest} ELSE torn
    /\ UNCHANGED <<manifest, holds, seen, gone, outrun>>

\* (Variant: the manifest is put before the objects it names are copied.)
PutAtOnce(t) == task[t].phase = "copy"

AllCopied(t) == task[t].phase = "copy" /\ task[t].rest = {}

PutBranch(t) ==
    LET dest == task[t].dest
        copied == [task[t].view EXCEPT !.exists = TRUE] IN
    /\ task[t].op = "branch" /\ AllCopied(t)
    /\ manifest' = IF manifest[dest].exists THEN manifest
                   ELSE [manifest EXCEPT ![dest] = copied]
    /\ gone' = IF manifest[dest].exists THEN gone
               ELSE [gone EXCEPT ![dest] = @ \ Batches(copied)]
    /\ Step(t, Idle)
    /\ UNCHANGED <<objects, holds, sweep, seen, torn, outrun, swept>>

---------------------------------------------------------------------------
\* destroy: the manifest first, then whatever is listed; then the handle goes.
\* An error of the first delete is ignored: the manifest may be there still.
BeginDestroy(t, n) ==
    /\ Take(t, [op |-> "destroy", ns |-> n, phase |-> "list"])
    /\ \/ /\ Spend("destroy")
          /\ manifest' = [manifest EXCEPT ![n] = NoManifest]
          /\ gone' = [gone EXCEPT ![n] = @ \cup Batches(manifest[n])]
          /\ torn' = IF Changing(n) THEN torn \cup {n} ELSE torn
          /\ outrun' = IF Compacting(n) THEN outrun \cup {n} ELSE outrun
       \/ /\ manifest[n].exists
          /\ SpendAll({"destroy", "fault"})
          /\ torn' = torn \cup {n}
          /\ UNCHANGED <<manifest, gone, outrun>>
    /\ UNCHANGED <<objects, holds, sweep, seen, swept>>

ListDoomed(t) ==
    LET call == task[t] IN
    /\ call.op = "destroy" /\ call.phase = "list"
    /\ Step(t, [op |-> "destroy", ns |-> call.ns, phase |-> "delete",
                doomed |-> objects[call.ns], entry |-> manifest[call.ns].exists])
    /\ UNCHANGED <<storage, sweep, seen, ghosts>>

Delete(n, name) == objects' = [objects EXCEPT ![n] = @ \ {name}]

\* Everything listed is deleted at once, in any order.
DeleteDoomed(t, o) ==
    LET call == task[t] IN
    /\ call.op = "destroy" /\ call.phase = "delete"
    /\ o \in call.doomed
    /\ Delete(call.ns, o)
    /\ Step(t, [call EXCEPT !.doomed = @ \ {o}])
    /\ UNCHANGED <<manifest, holds, sweep, seen, ghosts>>

\* The listing has the manifest, if there is one.
DeleteEntry(t) ==
    LET call == task[t]
        n == call.ns IN
    /\ call.op = "destroy" /\ call.phase = "delete" /\ call.entry
    /\ manifest' = [manifest EXCEPT ![n] = NoManifest]
    /\ gone' = [gone EXCEPT ![n] = @ \cup Batches(manifest[n])]
    /\ outrun' = IF Compacting(n) THEN outrun \cup {n} ELSE outrun
    /\ Step(t, [call EXCEPT !.entry = FALSE])
    /\ UNCHANGED <<objects, holds, sweep, seen, torn, swept>>

EndDestroy(t) ==
    LET call == task[t]
        n == call.ns IN
    /\ call.op = "destroy" /\ call.phase = "delete"
    /\ call.doomed = {} /\ ~call.entry
    /\ task' = [task EXCEPT ![t] = Idle]
    /\ resident' = resident \ {n}
    /\ torn' = IF manifest[n] = NoManifest /\ ~Changing(n) THEN torn \ {n} ELSE torn
    /\ UNCHANGED <<storage, sweep, seen, spent, gone, outrun, swept>>

---------------------------------------------------------------------------
\* An error of the store ends an operation wherever it is, and evict_idle drops
\* a handle that nobody holds.
Fail(t) ==
    /\ task[t] # Idle
    /\ Spend("fault")
    /\ task' = [task EXCEPT ![t] = Idle]
    /\ UNCHANGED <<storage, sweep, resident, seen, ghosts>>

EvictIdle(n) ==
    /\ n \in resident
    /\ Spend("evict")
    /\ \A t \in Tasks : task[t].ns # n
    /\ sweep.ns # n
    /\ resident' = resident \ {n}
    /\ UNCHANGED <<storage, task, sweep, seen, ghosts>>

---------------------------------------------------------------------------
InUse(n) == {o \in DOMAIN holds : \E t \in Tasks : Uses(task[t], n, o)}

\* collect_once, for one namespace: gc, unless `seen` has it at the counter.
\* The grace window outlasts every operation and is reckoned from before the
\* listing: only what nobody uses when the sweep begins can be older.
BeginSweep(n) ==
    /\ sweep = Idle
    /\ n \in resident \ seen
    /\ Spend("sweep")
    /\ sweep' = [ns |-> n, phase |-> "list", referenced |-> Referenced(manifest[n]),
                 aged |-> objects[n] \ InUse(n), current |-> TRUE, garbage |-> Garbage(n)]
    /\ UNCHANGED <<storage, task, resident, seen, ghosts>>

ListGarbage(doomed) ==
    LET loose == objects[sweep.ns] \ sweep.referenced IN
    /\ sweep # Idle /\ sweep.phase = "list"
    /\ doomed \subseteq loose \cap sweep.aged
    /\ sweep' = [ns |-> sweep.ns, phase |-> "delete", doomed |-> doomed,
                 spared |-> loose \ doomed, current |-> sweep.current,
                 garbage |-> sweep.garbage]
    /\ UNCHANGED <<storage, task, resident, seen, spent, ghosts>>

DeleteGarbage(o) ==
    /\ sweep # Idle /\ sweep.phase = "delete"
    /\ o \in sweep.doomed
    /\ Delete(sweep.ns, o)
    /\ sweep' = [sweep EXCEPT !.doomed = @ \ {o}]
    /\ UNCHANGED <<manifest, holds, task, resident, seen, spent, ghosts>>

\* (Variant: the namespace is done with whatever was spared.)
DoneAnyway == sweep.current

\* Only a sweep that spared nothing marks its namespace, at the counter it read.
Done == sweep.spared = {} /\ sweep.current

EndSweep ==
    LET n == sweep.ns IN
    /\ sweep # Idle /\ sweep.phase = "delete" /\ sweep.doomed = {}
    /\ seen' = IF Done THEN seen \cup {n} ELSE seen
    /\ swept' = IF Done THEN [swept EXCEPT ![n] = sweep.garbage] ELSE swept
    /\ sweep' = Idle
    /\ UNCHANGED <<storage, task, resident, spent, gone, torn, outrun>>

FailSweep ==
    /\ sweep # Idle
    /\ Spend("fault")
    /\ sweep' = Idle
    /\ UNCHANGED <<storage, task, resident, seen, ghosts>>

\* The process stops, and starts again with nothing but the storage.
Restart ==
    /\ Spend("fault")
    /\ task' = [t \in Tasks |-> Idle]
    /\ sweep' = Idle
    /\ resident' = {}
    /\ seen' = {}
    /\ UNCHANGED <<storage, ghosts>>

---------------------------------------------------------------------------
TaskStep(t) ==
    \/ \E n \in Namespaces :
          \/ BeginWrite(t, n)
          \/ BeginCompact(t, n)
          \/ BeginDestroy(t, n)
          \/ \E dest \in Namespaces : BeginBranch(t, n, dest)
    \/ PutWal(t)
    \/ CommitWrite(t)
    \/ BuildShards(t)
    \/ CommitCompact(t)
    \/ HeadDestination(t)
    \/ \E o \in DOMAIN holds : Copy(t, o)
    \/ PutBranch(t)
    \/ ListDoomed(t)
    \/ \E o \in DOMAIN holds : DeleteDoomed(t, o)
    \/ DeleteEntry(t)
    \/ EndDestroy(t)
    \/ Fail(t)

SweepStep ==
    \/ \E n \in Namespaces : BeginSweep(n)
    \/ \E doomed \in SUBSET (DOMAIN holds) : ListGarbage(doomed)
    \/ \E o \in DOMAIN holds : DeleteGarbage(o)
    \/ EndSweep
    \/ FailSweep

Next ==
    \/ \E t \in Tasks : TaskStep(t)
    \/ SweepStep
    \/ \E n \in Namespaces : EvictIdle(n)
    \/ Restart

Spec == Init /\ [][Next]_vars

---------------------------------------------------------------------------
\* What must hold of namespaces that come and go.

\* A manifest names only objects that are there, those of a branch too, whatever
\* source or destination is written, compacted or swept at the same time, and
\* whatever is destroyed in part.  Left out are namespaces that are destroyed
\* although their manifest could not be deleted first, which destroy ignores, or
\* while a task is about to change the manifest: until a destroy of theirs comes
\* to its end and nobody is about to change them.  So are those where a branch
\* puts a copy over an older one that a sweep has listed and is about to delete
\* (see the README on a namespace that is branched into twice).
ManifestsAreWhole ==
    \A n \in Namespaces \ torn : Referenced(manifest[n]) \subseteq objects[n]

\* What was in a namespace when it was destroyed never comes back into it with
\* the commits and branches that were under way: each puts its manifest over the
\* version it loaded, or over none.  A compaction of a namespace without shards
\* compares nothing but the shards, of which a manifest that is gone has none
\* either, and does bring them back: namespaces outrun so are left out.
DestroyedStaysGone ==
    \A n \in Namespaces \ outrun : Batches(manifest[n]) \cap gone[n] = {}

\* A namespace that the collector skips has none of the garbage left that was
\* there when it was last swept.
SkippedIsClean ==
    \A n \in seen : swept[n] \cap Garbage(n) = {}

=============================================================================
