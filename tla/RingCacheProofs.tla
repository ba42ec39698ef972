-------------------------- MODULE RingCacheProofs --------------------------
(***************************************************************************)
(* The safety properties of module RingCache, proved for any objects, any  *)
(* size of the file and any number of concurrent readers.                  *)
(***************************************************************************)
EXTENDS RingCache, SequenceTheorems, TLAPS

---------------------------------------------------------------------------
\* The invariant.

Objects == {Contents(k) : k \in Keys}

Entry == [offset : Nat, len : Nat, checksum : Objects \cup {NoEntry.checksum}]

Call == [pc : {"idle", "pread", "drop", "fetch", "write", "served"},
         key : Keys \cup {NoKey}, entry : Entry,
         answer : Objects \cup {NoEntry.checksum}, start : Nat, done : Nat]

CacheTypeOK ==
    /\ DOMAIN map \subseteq Keys
    /\ \A k \in DOMAIN map : map[k] \in Entry
    /\ order \in Seq(Keys)
    /\ cursor \in 0..Capacity
    /\ reader \in [Readers -> Call]

\* An entry says where the object it is filed under was written.
EntryOf(k, entry) == entry.len = Length[k] /\ entry.checksum = Contents(k)

EntriesInv == \A k \in DOMAIN map : EntryOf(k, map[k])

\* A call holds the entry of the object it was asked for, also after the table
\* has changed, and writes inside the file.
CallsInv ==
    \A r \in Readers :
        /\ reader[r].pc # "idle" => reader[r].key \in Keys
        /\ reader[r].pc = "pread" => EntryOf(reader[r].key, reader[r].entry)
        /\ reader[r].pc = "write" => reader[r].start + Length[reader[r].key] <= Capacity

CacheInv ==
    /\ CacheTypeOK /\ EntriesInv /\ CallsInv
    /\ EntriesFit /\ EntriesTracked /\ ServedIsWritten

---------------------------------------------------------------------------
LEMMA IdleCall ==
    /\ NoCall \in Call /\ NoEntry \in Entry
    /\ NoCall.pc = "idle" /\ NoCall.entry = NoEntry
    /\ NoEntry.checksum \in Objects \cup {NoEntry.checksum}
<1>1. NoEntry \in Entry /\ NoEntry.checksum \in Objects \cup {NoEntry.checksum}
  BY DEF NoEntry, Entry
<1> QED
  BY <1>1 DEF NoCall, Call

LEMMA Lengths ==
    ASSUME NEW k \in Keys
    PROVE  Length[k] \in Nat \ {0} /\ Contents(k) \in Objects
  BY CacheAssumption DEF Objects

LEMMA InitCache == CacheInit => CacheInv
<1> SUFFICES ASSUME CacheInit PROVE CacheInv
  OBVIOUS
<1>1. CacheTypeOK
  BY IdleCall, EmptySeq, CacheAssumption DEF CacheInit, CacheTypeOK
<1> QED
  BY <1>1, IdleCall
     DEF CacheInit, CacheInv, EntriesInv, CallsInv, EntriesFit, EntriesTracked, ServedIsWritten

\* A step of one call leaves the others alone.
LEMMA OneCall ==
    ASSUME CacheInv, NEW r \in Readers, NEW c \in Call,
           reader' = [reader EXCEPT ![r] = c],
           c.pc # "idle" => c.key \in Keys,
           c.pc = "pread" => EntryOf(c.key, c.entry),
           c.pc = "write" => c.start + Length[c.key] <= Capacity,
           c.pc = "served" => c.answer = Contents(c.key)
    PROVE  /\ reader' \in [Readers -> Call]
           /\ CallsInv' /\ ServedIsWritten'
<1>1. reader \in [Readers -> Call]
  BY DEF CacheInv, CacheTypeOK
<1>2. reader' \in [Readers -> Call] /\ reader'[r] = c
      /\ \A q \in Readers \ {r} : reader'[q] = reader[q]
  BY <1>1
<1> QED
  BY <1>2 DEF CacheInv, CallsInv, ServedIsWritten, EntryOf

\* What holds of the ring is not disturbed by a step that leaves it alone.
LEMMA SameRing ==
    ASSUME CacheInv, UNCHANGED ringVars,
           reader' \in [Readers -> Call], CallsInv', ServedIsWritten'
    PROVE  CacheInv'
  BY DEF CacheInv, CacheTypeOK, EntriesInv, EntriesFit, EntriesTracked, ringVars

\* What the eviction loop leaves in the table is still in the order.
LEMMA EvictTracked ==
    ASSUME CacheInv, NEW start \in Nat, NEW end \in Nat, Evict(start, end)
    PROVE  /\ DOMAIN map' \subseteq DOMAIN map /\ \A k \in DOMAIN map' : map'[k] = map[k]
           /\ order' \in Seq(Keys)
           /\ EntriesTracked'
<1>1. PICK n \in 0..Len(order) :
          /\ order' = SubSeq(order, n + 1, Len(order))
          /\ map' = [k \in DOMAIN map \ {order[i] : i \in 1..n} |-> map[k]]
  BY DEF Evict
<1>2. order \in Seq(Keys) /\ Len(order) \in Nat /\ DOMAIN order = 1..Len(order)
  BY LenProperties DEF CacheInv, CacheTypeOK
<1>3. /\ order' \in Seq(Keys) /\ Len(order') = Len(order) - n
      /\ \A i \in 1..Len(order) - n : order'[i] = order[n + i]
  <2>1. /\ n \in Nat /\ n <= Len(order)
        /\ n + 1 \in Int /\ Len(order) \in Int
        /\ \A i \in n + 1..Len(order) : order[i] \in Keys
    BY <1>2
  <2>2. /\ order' \in Seq(Keys)
        /\ Len(order') = Len(order) - n
        /\ \A i \in 1..Len(order) - (n + 1) + 1 : order'[i] = order[n + 1 + i - 1]
    BY <1>1, <2>1, SubSeqProperties
  <2>3. ASSUME NEW i \in 1..Len(order) - n PROVE order'[i] = order[n + i]
    <3>1. Len(order) - (n + 1) + 1 = Len(order) - n /\ n + 1 + i - 1 = n + i
      BY <1>2, <2>1
    <3> QED
      BY <2>2, <3>1
  <2> QED
    BY <2>2, <2>3
<1>4. ASSUME NEW k \in DOMAIN map'
      PROVE  \E i \in DOMAIN order' : order'[i] = k
  <2>1. k \in DOMAIN map /\ k \notin {order[i] : i \in 1..n}
    BY <1>1
  <2>2. PICK i \in 1..Len(order) : order[i] = k
    BY <1>2, <2>1 DEF CacheInv, EntriesTracked
  <2>3. i > n
    BY <1>2, <2>1, <2>2
  <2>4. i - n \in 1..Len(order) - n /\ n + (i - n) = i
    BY <1>2, <2>2, <2>3
  <2>5. order'[i - n] = k /\ i - n \in DOMAIN order'
    BY <1>3, <2>2, <2>4, LenProperties
  <2> QED
    BY <2>5
<1> QED
  BY <1>1, <1>3, <1>4 DEF EntriesTracked

---------------------------------------------------------------------------
\* The steps of a call.

LEMMA LookupStep ==
    ASSUME CacheInv, NEW r \in Readers, NEW k \in Keys, Lookup(r, k)
    PROVE  CacheInv'
<1> DEFINE hit == [NoCall EXCEPT !.pc = "pread", !.key = k, !.entry = map[k]]
           miss == [NoCall EXCEPT !.pc = "fetch", !.key = k]
<1>1. miss \in Call /\ miss.pc = "fetch" /\ miss.key = k
  BY IdleCall DEF Call
<1>2. CASE k \in DOMAIN map
  <2>1. map[k] \in Entry /\ EntryOf(k, map[k])
    BY <1>2 DEF CacheInv, CacheTypeOK, EntriesInv
  <2>2. hit \in Call /\ hit.pc = "pread" /\ hit.key = k /\ hit.entry = map[k]
    BY <2>1, IdleCall DEF Call
  <2> HIDE DEF hit
  <2>3. reader' = [reader EXCEPT ![r] = hit] /\ UNCHANGED ringVars
    BY <1>2 DEF Lookup, hit
  <2> QED
    BY <2>1, <2>2, <2>3, OneCall, SameRing
<1>3. CASE k \notin DOMAIN map
  <2> HIDE DEF miss
  <2>1. reader' = [reader EXCEPT ![r] = miss] /\ UNCHANGED ringVars
    BY <1>3 DEF Lookup, miss
  <2> QED
    BY <1>1, <2>1, OneCall, SameRing
<1> QED
  BY <1>2, <1>3

\* The bytes read without the lock are served only when they are the object's.
LEMMA PreadStep ==
    ASSUME CacheInv, NEW r \in Readers, Pread(r)
    PROVE  CacheInv'
<1> DEFINE c == reader[r]
           bytes == BytesAt(c.entry)
           served == [c EXCEPT !.pc = "served", !.answer = bytes]
           missed(pc) == [c EXCEPT !.pc = pc]
<1>1. c \in Call /\ reader \in [Readers -> Call] /\ c.pc = "pread"
  BY DEF CacheInv, CacheTypeOK, Pread
<1>2. c.key \in Keys /\ c.entry.checksum = Contents(c.key)
  BY <1>1 DEF CacheInv, CallsInv, EntryOf
<1>3. UNCHANGED ringVars
  BY DEF Pread
<1>4. ASSUME NEW pc \in {"drop", "fetch"}, reader' = [reader EXCEPT ![r].pc = pc]
      PROVE  CacheInv'
  <2>1. missed(pc) \in Call /\ missed(pc).pc = pc /\ missed(pc).key = c.key
    BY <1>1 DEF Call
  <2>2. reader' = [reader EXCEPT ![r] = missed(pc)]
    BY <1>1, <1>4
  <2> HIDE DEF missed
  <2> QED
    BY <1>2, <1>3, <2>1, <2>2, OneCall, SameRing
<1>5. CASE /\ Matches(c.entry)
           /\ reader' = [reader EXCEPT ![r].pc = "served", ![r].answer = bytes]
  <2>1. bytes = Contents(c.key) /\ bytes \in Objects
    BY <1>2, <1>5, Lengths DEF Matches
  <2> HIDE DEF bytes
  <2>2. served \in Call /\ served.pc = "served" /\ served.key = c.key /\ served.answer = bytes
    BY <1>1, <2>1 DEF Call
  <2>3. reader' = [reader EXCEPT ![r] = served]
    BY <1>1, <1>5 DEF bytes
  <2> HIDE DEF served
  <2> QED
    BY <1>2, <1>3, <2>1, <2>2, <2>3, OneCall, SameRing
<1> QED
  BY <1>4, <1>5 DEF Pread

LEMMA DropStep ==
    ASSUME CacheInv, NEW r \in Readers, Drop(r)
    PROVE  CacheInv'
<1> DEFINE c == reader[r]
           fetch == [c EXCEPT !.pc = "fetch"]
<1>1. c \in Call /\ reader \in [Readers -> Call] /\ c.key \in Keys
  BY DEF CacheInv, CacheTypeOK, CallsInv, Drop
<1>2. fetch \in Call /\ fetch.pc = "fetch" /\ fetch.key = c.key
  BY <1>1 DEF Call
<1>3. reader' = [reader EXCEPT ![r] = fetch]
  BY <1>1 DEF Drop
<1> HIDE DEF fetch
<1>4. reader' \in [Readers -> Call] /\ CallsInv' /\ ServedIsWritten'
  BY <1>1, <1>2, <1>3, OneCall
<1>5. /\ DOMAIN map' \subseteq DOMAIN map /\ \A k \in DOMAIN map' : map'[k] = map[k]
      /\ UNCHANGED <<cursor, order>>
  BY DEF Drop
<1> QED
  BY <1>4, <1>5 DEF CacheInv, CacheTypeOK, EntriesInv, EntriesFit, EntriesTracked

\* An answer straight from the store, however the caching of it went.
LEMMA ServeStep ==
    ASSUME CacheInv, NEW r \in Readers, reader[r].pc # "idle",
           reader' = [reader EXCEPT ![r].pc = "served",
                                    ![r].answer = Contents(reader[r].key)]
    PROVE  reader' \in [Readers -> Call] /\ CallsInv' /\ ServedIsWritten'
<1> DEFINE c == reader[r]
           bytes == Contents(c.key)
           served == [c EXCEPT !.pc = "served", !.answer = bytes]
<1>1. c \in Call /\ reader \in [Readers -> Call] /\ c.key \in Keys /\ bytes \in Objects
  BY Lengths DEF CacheInv, CacheTypeOK, CallsInv
<1> HIDE DEF bytes
<1>2. served \in Call /\ served.pc = "served" /\ served.key = c.key /\ served.answer = bytes
  BY <1>1 DEF Call
<1>3. reader' = [reader EXCEPT ![r] = served]
  BY <1>1 DEF bytes
<1> HIDE DEF served
<1> QED
  BY <1>1, <1>2, <1>3, OneCall DEF bytes

LEMMA PutStartStep ==
    ASSUME CacheInv, NEW r \in Readers, PutStart(r)
    PROVE  CacheInv'
<1> DEFINE c == reader[r]
           len == Length[c.key]
           start == Start(len)
           write == [c EXCEPT !.pc = "write", !.start = start, !.done = 0]
<1>1. c \in Call /\ reader \in [Readers -> Call] /\ c.key \in Keys
  BY DEF CacheInv, CacheTypeOK, CallsInv, PutStart
<1>2. len \in Nat /\ len <= Capacity /\ Capacity \in Nat /\ cursor \in 0..Capacity
  BY <1>1, Lengths, CacheAssumption DEF CacheInv, CacheTypeOK, PutStart
<1>3. start \in 0..Capacity /\ start + len \in Nat /\ start + len <= Capacity
  BY <1>2 DEF Start
<1>4. /\ cursor' = start /\ Evict(start, start + len)
      /\ reader' = [reader EXCEPT ![r].pc = "write", ![r].start = start, ![r].done = 0]
  BY DEF PutStart
<1> HIDE DEF start, len
<1>5. write \in Call /\ write.pc = "write" /\ write.key = c.key /\ write.start = start
  <2>1. start \in Nat
    BY <1>2, <1>3
  <2> QED
    BY <1>1, <2>1 DEF Call
<1>6. reader' = [reader EXCEPT ![r] = write]
  BY <1>1, <1>4
<1> HIDE DEF write
<1>7. reader' \in [Readers -> Call] /\ CallsInv' /\ ServedIsWritten'
  BY <1>1, <1>3, <1>5, <1>6, OneCall DEF len
<1>8. /\ DOMAIN map' \subseteq DOMAIN map /\ \A k \in DOMAIN map' : map'[k] = map[k]
      /\ order' \in Seq(Keys) /\ EntriesTracked'
  BY <1>3, <1>4, EvictTracked
<1> QED
  BY <1>3, <1>4, <1>7, <1>8 DEF CacheInv, CacheTypeOK, EntriesInv, EntriesFit

LEMMA PutWriteStep ==
    ASSUME CacheInv, NEW r \in Readers, PutWrite(r)
    PROVE  CacheInv'
<1> DEFINE c == reader[r]
           d == c.done + 1
           next == [c EXCEPT !.done = d]
<1>1. c \in Call /\ reader \in [Readers -> Call] /\ c.key \in Keys /\ c.pc = "write"
      /\ c.start + Length[c.key] <= Capacity
  BY DEF CacheInv, CacheTypeOK, CallsInv, PutWrite
<1>2. d \in Nat
  BY <1>1 DEF Call
<1>3. reader' = [reader EXCEPT ![r] = next] /\ UNCHANGED ringVars
  BY <1>1 DEF PutWrite
<1> HIDE DEF d
<1>4. /\ next \in Call /\ next.pc = "write" /\ next.key = c.key /\ next.start = c.start
  BY <1>1, <1>2 DEF Call
<1> HIDE DEF next
<1> QED
  BY <1>1, <1>3, <1>4, OneCall, SameRing

LEMMA PutDoneStep ==
    ASSUME CacheInv, NEW r \in Readers, PutDone(r)
    PROVE  CacheInv'
<1> DEFINE c == reader[r]
           entry == [offset |-> c.start, len |-> Length[c.key], checksum |-> Contents(c.key)]
<1>1. c \in Call /\ c.key \in Keys /\ c.pc = "write"
      /\ c.start + Length[c.key] <= Capacity
  BY DEF CacheInv, CacheTypeOK, CallsInv, PutDone
<1>2. c.start \in Nat /\ Length[c.key] \in Nat /\ Contents(c.key) \in Objects
  BY <1>1, Lengths DEF Call
<1>3. /\ map' = [k \in DOMAIN map \cup {c.key} |-> IF k = c.key THEN entry ELSE map[k]]
      /\ order' = Append(order, c.key)
      /\ cursor' = c.start + Length[c.key]
  BY DEF PutDone
<1>4. entry \in Entry /\ EntryOf(c.key, entry) /\ entry.offset + entry.len <= Capacity
  BY <1>1, <1>2 DEF Entry, EntryOf
<1> HIDE DEF entry
<1>5. reader' \in [Readers -> Call] /\ CallsInv' /\ ServedIsWritten'
  BY <1>1, ServeStep DEF PutDone
<1>6. order' \in Seq(Keys) /\ EntriesTracked'
  <2>1. order \in Seq(Keys) /\ Len(order) \in Nat
    BY LenProperties DEF CacheInv, CacheTypeOK
  <2>2. /\ order' \in Seq(Keys) /\ Len(order') = Len(order) + 1
        /\ order'[Len(order) + 1] = c.key
        /\ \A i \in 1..Len(order) : order'[i] = order[i]
    BY <1>1, <1>3, <2>1, AppendProperties
  <2>3. DOMAIN order = 1..Len(order) /\ DOMAIN order' = 1..Len(order) + 1
    BY <2>1, <2>2, LenProperties
  <2>4. Len(order) + 1 \in DOMAIN order' /\ DOMAIN order \subseteq DOMAIN order'
    BY <2>1, <2>3
  <2> QED
    BY <1>3, <2>2, <2>3, <2>4 DEF CacheInv, EntriesTracked
<1>7. cursor' \in 0..Capacity
  BY <1>1, <1>2, <1>3, CacheAssumption
<1> QED
  BY <1>1, <1>3, <1>4, <1>5, <1>6, <1>7 DEF CacheInv, CacheTypeOK, EntriesInv, EntriesFit

LEMMA EndStep ==
    ASSUME CacheInv, NEW r \in Readers, FetchFails(r) \/ Return(r)
    PROVE  CacheInv'
<1>1. reader' = [reader EXCEPT ![r] = NoCall] /\ UNCHANGED ringVars
  BY DEF FetchFails, Return
<1> QED
  BY <1>1, IdleCall, OneCall, SameRing

LEMMA CacheStep == CacheInv /\ [CacheNext]_cacheVars => CacheInv'
<1> SUFFICES ASSUME CacheInv, [CacheNext]_cacheVars PROVE CacheInv'
  OBVIOUS
<1>1. CASE UNCHANGED cacheVars
  BY <1>1 DEF cacheVars, ringVars, CacheInv, CacheTypeOK, EntriesInv, CallsInv, EntriesFit,
              EntriesTracked, ServedIsWritten
<1>2. ASSUME NEW r \in Readers, PutOversized(r) \/ PutFails(r)
      PROVE  CacheInv'
  BY <1>2, ServeStep, SameRing DEF PutOversized, PutFails
<1>3. CASE SpoilCell
  BY <1>3, SameRing DEF SpoilCell, CacheInv, CacheTypeOK, CallsInv, ServedIsWritten
<1> QED
  BY <1>1, <1>2, <1>3, LookupStep, PreadStep, DropStep, PutStartStep, PutWriteStep, PutDoneStep, EndStep
     DEF CacheNext

LEMMA CacheInvariance == CacheSpec => []CacheInv
  BY InitCache, CacheStep, PTL DEF CacheSpec

\* read_immutable returns the object it was asked for or fails, although the
\* file is read without the lock and overwritten under it (cache.rs: "A wrong
\* answer is impossible").
THEOREM RightAnswers == CacheSpec => []ServedIsWritten
  BY CacheInvariance, PTL DEF CacheInv

\* Every entry of the table can still be evicted (put's loop pops only keys that
\* it removes from the table, and put files every key it maps).
THEOREM AllTracked == CacheSpec => []EntriesTracked
  BY CacheInvariance, PTL DEF CacheInv

\* No entry, hence no read and no write, reaches past the end of the file.
THEOREM InsideTheFile == CacheSpec => []EntriesFit
  BY CacheInvariance, PTL DEF CacheInv

=============================================================================
