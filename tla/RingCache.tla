----------------------------- MODULE RingCache -----------------------------
(***************************************************************************)
(* The read cache of a node (cache.rs) and the one function that uses it,  *)
(* Namespace::read_immutable (store.rs).  The cache is a file of fixed     *)
(* size written as a ring; a lock guards its table, and is held while the  *)
(* file is written but not while it is read.                               *)
(*                                                                         *)
(* A cell of the file is one byte or one block.  What is written in it is  *)
(* the key of the object and the place in it, so that two objects never    *)
(* share a cell's value.  The checksum is kept as the bytes themselves:    *)
(* collisions of FNV-1a are left out.                                      *)
(***************************************************************************)
EXTENDS Naturals, Sequences, FiniteSets

CONSTANTS
    Keys,       \* names of immutable objects
    Length,     \* the size of each object, in cells
    Capacity,   \* the size of the file, in cells
    Readers,    \* tasks that read objects through the cache
    NoReader, NoKey, Blank,
    MaxReads, MaxBadCells   \* bounds of the model

ASSUME CacheAssumption ==
    /\ Length \in [Keys -> Nat \ {0}]
    /\ Capacity \in Nat \ {0}
    /\ MaxReads \in Nat
    /\ MaxBadCells \in Nat
    /\ NoReader \notin Readers
    /\ NoKey \notin Keys

VARIABLES
    disk,       \* the file
    cursor,     \* Ring: where the next object goes,
    map,        \* ... the entry of each cached object,
    order,      \* ... and the keys in the order they were written
    lock,       \* who holds the lock of the ring
    reader,     \* the calls of read_immutable in progress
    corrupt,    \* entries that did not match their checksum
    reads,      \* calls so far
    badCells    \* cells of the file that were spoiled

ringVars == <<cursor, map, order>>
cacheVars == <<disk, cursor, map, order, lock, reader, corrupt, reads, badCells>>

\* The bytes of an object.
Contents(k) == [i \in 0..Length[k] - 1 |-> <<k, i>>]

NoEntry == [offset |-> 0, len |-> 0, checksum |-> [i \in {} |-> Blank]]

NoCall == [pc |-> "idle", key |-> NoKey, entry |-> NoEntry,
           answer |-> NoEntry.checksum, start |-> 0, done |-> 0]

CacheInit ==
    /\ disk = [c \in 0..Capacity - 1 |-> Blank]
    /\ cursor = 0
    /\ map = [k \in {} |-> NoEntry]
    /\ order = <<>>
    /\ lock = NoReader
    /\ reader = [r \in Readers |-> NoCall]
    /\ corrupt = 0
    /\ reads = 0
    /\ badCells = 0

---------------------------------------------------------------------------
\* RingCache::get.

Lookup(r, k) ==
    /\ reader[r].pc = "idle"
    /\ reads < MaxReads
    /\ reads' = reads + 1
    /\ lock = NoReader
    /\ reader' = [reader EXCEPT ![r] =
            IF k \in DOMAIN map
               THEN [NoCall EXCEPT !.pc = "pread", !.key = k, !.entry = map[k]]
               ELSE [NoCall EXCEPT !.pc = "fetch", !.key = k]]
    /\ UNCHANGED <<disk, ringVars, lock, corrupt, badCells>>

BytesAt(entry) == [i \in 0..entry.len - 1 |-> disk[entry.offset + i]]

\* (Variant: serve what was read.)
AlwaysMatches(entry) == TRUE

Matches(entry) == BytesAt(entry) = entry.checksum

\* The file is read after the lock was released; a failed read is a miss.
Pread(r) ==
    LET entry == reader[r].entry IN
    /\ reader[r].pc = "pread"
    /\ \/ /\ Matches(entry)
          /\ reader' = [reader EXCEPT ![r].pc = "served", ![r].answer = BytesAt(entry)]
          /\ UNCHANGED corrupt
       \/ /\ ~Matches(entry)
          /\ reader' = [reader EXCEPT ![r].pc = "drop"]
          /\ corrupt' = corrupt + 1
       \/ /\ reader' = [reader EXCEPT ![r].pc = "fetch"]
          /\ UNCHANGED corrupt
    /\ UNCHANGED <<disk, ringVars, lock, reads, badCells>>

\* Drop the entry of the key, whichever it is by now.
Drop(r) ==
    /\ reader[r].pc = "drop"
    /\ lock = NoReader
    /\ map' = [k \in DOMAIN map \ {reader[r].key} |-> map[k]]
    /\ reader' = [reader EXCEPT ![r].pc = "fetch"]
    /\ UNCHANGED <<disk, cursor, order, lock, corrupt, reads, badCells>>

---------------------------------------------------------------------------
\* The object was fetched from the store; RingCache::put.

\* (Variant: the end of the file is one cell further.)
StartPastTheEnd(len) == IF cursor + len > Capacity + 1 THEN 0 ELSE cursor

\* Wrap to the start when the object would run off the end.
Start(len) == IF cursor + len > Capacity THEN 0 ELSE cursor

Overlap(entry, start, end) ==
    entry.offset < end /\ start < entry.offset + entry.len

\* What the eviction loop takes off the front of the order: a key that is no
\* longer mapped, or whose entry is about to be overwritten.
Leaves(k, start, end) == k \in DOMAIN map => Overlap(map[k], start, end)

\* (Variant: forget the key in the order, but not in the map.)
EvictFromOrder(start, end) ==
    \E n \in 0..Len(order) :
        /\ \A i \in 1..n : Leaves(order[i], start, end)
        /\ n < Len(order) => ~Leaves(order[n + 1], start, end)
        /\ order' = SubSeq(order, n + 1, Len(order))
        /\ UNCHANGED map

\* The loop stops at the first key that stays.
Evict(start, end) ==
    \E n \in 0..Len(order) :
        /\ \A i \in 1..n : Leaves(order[i], start, end)
        /\ n < Len(order) => ~Leaves(order[n + 1], start, end)
        /\ order' = SubSeq(order, n + 1, Len(order))
        /\ map' = [k \in DOMAIN map \ {order[i] : i \in 1..n} |-> map[k]]

\* An object larger than the file is not cached.
PutOversized(r) ==
    LET k == reader[r].key IN
    /\ reader[r].pc = "fetch"
    /\ Length[k] > Capacity
    /\ reader' = [reader EXCEPT ![r].pc = "served", ![r].answer = Contents(k)]
    /\ UNCHANGED <<disk, ringVars, lock, corrupt, reads, badCells>>

PutStart(r) ==
    LET len == Length[reader[r].key] IN
    /\ reader[r].pc = "fetch"
    /\ len <= Capacity
    /\ lock = NoReader
    /\ lock' = r
    /\ cursor' = Start(len)
    /\ Evict(Start(len), Start(len) + len)
    /\ reader' = [reader EXCEPT ![r].pc = "write", ![r].start = Start(len), ![r].done = 0]
    /\ UNCHANGED <<disk, corrupt, reads, badCells>>

\* A read of the file meanwhile sees some of the new cells, in this order.
PutWrite(r) ==
    LET c == reader[r] IN
    /\ c.pc = "write"
    /\ c.done < Length[c.key]
    /\ disk' = [disk EXCEPT ![c.start + c.done] = <<c.key, c.done>>]
    /\ reader' = [reader EXCEPT ![r].done = @ + 1]
    /\ UNCHANGED <<ringVars, lock, corrupt, reads, badCells>>

PutDone(r) ==
    LET c == reader[r]
        entry == [offset |-> c.start, len |-> Length[c.key], checksum |-> Contents(c.key)] IN
    /\ c.pc = "write"
    /\ c.done = Length[c.key]
    /\ map' = [k \in DOMAIN map \cup {c.key} |-> IF k = c.key THEN entry ELSE map[k]]
    /\ order' = Append(order, c.key)
    /\ cursor' = c.start + Length[c.key]
    /\ lock' = NoReader
    /\ reader' = [reader EXCEPT ![r].pc = "served", ![r].answer = Contents(c.key)]
    /\ UNCHANGED <<disk, corrupt, reads, badCells>>

\* The file cannot be written: what was evicted stays evicted.
PutFails(r) ==
    LET c == reader[r] IN
    /\ c.pc = "write"
    /\ lock' = NoReader
    /\ reader' = [reader EXCEPT ![r].pc = "served", ![r].answer = Contents(c.key)]
    /\ UNCHANGED <<disk, ringVars, corrupt, reads, badCells>>

\* The object is gone from the store.
FetchFails(r) ==
    /\ reader[r].pc = "fetch"
    /\ reader' = [reader EXCEPT ![r] = NoCall]
    /\ UNCHANGED <<disk, ringVars, lock, corrupt, reads, badCells>>

Return(r) ==
    /\ reader[r].pc = "served"
    /\ reader' = [reader EXCEPT ![r] = NoCall]
    /\ UNCHANGED <<disk, ringVars, lock, corrupt, reads, badCells>>

\* A sector of the disk goes bad.
SpoilCell ==
    /\ badCells < MaxBadCells
    /\ badCells' = badCells + 1
    /\ \E c \in 0..Capacity - 1 : disk' = [disk EXCEPT ![c] = Blank]
    /\ UNCHANGED <<ringVars, lock, reader, corrupt, reads>>

CacheNext ==
    \/ SpoilCell
    \/ \E r \in Readers :
          \/ \E k \in Keys : Lookup(r, k)
          \/ Pread(r) \/ Drop(r)
          \/ PutOversized(r) \/ PutStart(r) \/ PutWrite(r) \/ PutDone(r) \/ PutFails(r)
          \/ FetchFails(r) \/ Return(r)

CacheSpec == CacheInit /\ [][CacheNext]_cacheVars

---------------------------------------------------------------------------
\* Properties.

\* A wrong answer is impossible, only a slow one is (cache.rs, header): what
\* read_immutable returns is the object, although the file is read without the
\* lock, is written at the same time, may fail half-way through a write, may be
\* spoiled, and is sometimes reused under an entry that stays mapped.
ServedIsWritten ==
    \A r \in Readers :
        reader[r].pc = "served" => reader[r].answer = Contents(reader[r].key)

\* Every cached entry is still in the eviction order, also after keys were
\* dropped, written twice or evicted: none can stay mapped forever (put's loop
\* and its push_back).
EntriesTracked == \A k \in DOMAIN map : \E i \in DOMAIN order : order[i] = k

\* Entries lie inside the file, which therefore keeps the size it was allocated
\* with (open and put's wrap).
EntriesFit == \A k \in DOMAIN map : map[k].offset + map[k].len <= Capacity

=============================================================================
