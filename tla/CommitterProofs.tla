-------------------------- MODULE CommitterProofs --------------------------
(***************************************************************************)
(* Safety of the write path of module Committer, for any number of         *)
(* requests, records, handles and faults.                                  *)
(***************************************************************************)
EXTENDS Committer, SequenceTheorems, FiniteSetTheorems, FunctionTheorems,
        WellFoundedInduction, TLAPS

---------------------------------------------------------------------------
\* The shape of the state.

Item == Callers \X Nat

Outcome == [ok : BOOLEAN, seq : Nat]

CallerState ==
    [pc : {"idle", "load", "send", "await", "ok", "error", "gone"},
     handle : Handles \cup {NoHandle}, sent : Nat, replies : Seq(Outcome),
     answered : Nat, seq : Nat]

TaskState ==
    [pc : {"unborn", "recv", "commit", "reply", "ended"},
     queue : Seq(Item), batch : Seq(Item), reply : Outcome]

PathTypeOK ==
    /\ registry \in Handles \cup {NoHandle}
    /\ caller \in [Callers -> CallerState]
    /\ committer \in [Handles -> TaskState]
    /\ commits \in Seq(Seq(Item))

Waiting(c) == caller[c].pc \in {"load", "send", "await"}

\* A request in progress has a handle, the registered one.
SharedInv ==
    /\ PathTypeOK
    /\ \A c \in Callers : Waiting(c) => caller[c].handle \in Handles
    /\ HoldersShareTheCommitter

---------------------------------------------------------------------------
LEMMA SharedInit == CommitterInit => SharedInv
  BY DEF CommitterInit, SharedInv, PathTypeOK, CallerState, TaskState, Outcome, Item,
         HoldersShareTheCommitter, NotArrived, Unborn, Waiting

LEMMA CallerKeepsType ==
    ASSUME PathTypeOK, NEW c \in Callers, CallerStep(c) \/ Cancel(c)
    PROVE  caller' \in [Callers -> CallerState]
<1>1. caller \in [Callers -> CallerState]
  BY DEF PathTypeOK
<1>2. CASE Admit(c)
  BY <1>1, <1>2 DEF Admit, CallerState
<1>3. CASE Refuse(c)
  BY <1>1, <1>3 DEF Refuse, CallerState
<1>4. CASE Send(c)
  <2>1. caller[c] \in CallerState /\ caller[c].sent + 1 \in Nat
    BY <1>1 DEF CallerState
  <2> QED
    BY <1>1, <1>4, <2>1 DEF Send, CallerState
<1>5. CASE Await(c)
  <2> DEFINE r == caller[c]
             n == r.answered + 1
  <2>1. r \in CallerState
    BY <1>1
  <2>2. r.replies[n] \in Outcome /\ n \in Nat
    <3>1. r.replies \in Seq(Outcome) /\ r.answered \in Nat /\ Len(r.replies) > r.answered
      BY <1>5, <2>1 DEF Await, CallerState
    <3>2. n \in 1..Len(r.replies)
      BY <3>1
    <3> QED
      BY <3>1, <3>2
  <2>3. r.replies[n].seq \in Nat
    BY <2>2 DEF Outcome
  <2> QED
    BY <1>1, <1>5, <2>1, <2>2, <2>3 DEF Await, CallerState
<1>6. CASE Cancel(c)
  BY <1>1, <1>6 DEF Cancel, CallerState
<1> QED
  BY <1>2, <1>3, <1>4, <1>5, <1>6 DEF CallerStep

LEMMA CallerKeepsTasks ==
    ASSUME SharedInv, NEW c \in Callers, CallerStep(c) \/ Cancel(c)
    PROVE  committer' \in [Handles -> TaskState]
<1>1. committer \in [Handles -> TaskState] /\ caller \in [Callers -> CallerState]
  BY DEF SharedInv, PathTypeOK
<1>2. CASE Send(c)
  <2>1. caller[c].handle \in Handles /\ caller[c].sent \in Nat
    BY <1>1, <1>2 DEF Send, SharedInv, Waiting, CallerState
  <2>2. <<c, caller[c].sent + 1>> \in Item
    BY <2>1 DEF Item
  <2>3. Append(committer[caller[c].handle].queue, <<c, caller[c].sent + 1>>) \in Seq(Item)
    BY <1>1, <2>1, <2>2 DEF TaskState
  <2> QED
    BY <1>1, <1>2, <2>1, <2>3 DEF Send, TaskState
<1>3. CASE ~Send(c)
  BY <1>1, <1>3 DEF CallerStep, Admit, Refuse, Await, Cancel
<1> QED
  BY <1>2, <1>3

LEMMA CallerShares ==
    ASSUME SharedInv, NEW c \in Callers, CallerStep(c) \/ Cancel(c)
    PROVE  SharedInv'
<1>1. caller' \in [Callers -> CallerState] /\ committer' \in [Handles -> TaskState]
  BY CallerKeepsType, CallerKeepsTasks DEF SharedInv
<1>2. registry' = registry /\ commits' = commits
  BY DEF CallerStep, Admit, Refuse, Send, Await, Cancel
<1>3. \A d \in Callers : caller'[d].handle = caller[d].handle /\ (Waiting(d)' => Waiting(d))
  <2>1. caller \in [Callers -> CallerState]
    BY DEF SharedInv, PathTypeOK
  <2>2. CASE Admit(c) \/ Refuse(c) \/ Cancel(c)
    <3>1. caller[c] \in CallerState /\ Waiting(c)
      BY <2>1, <2>2 DEF Admit, Refuse, Cancel, Waiting
    <3>2. PICK pc : caller' = [caller EXCEPT ![c].pc = pc]
      BY <2>2 DEF Admit, Refuse, Cancel
    <3>3. caller'[c].handle = caller[c].handle
      BY <2>1, <3>1, <3>2 DEF CallerState
    <3>4. \A d \in Callers \ {c} : caller'[d] = caller[d]
      BY <2>1, <3>2
    <3> QED
      BY <3>1, <3>3, <3>4 DEF Waiting
  <2>3. CASE Send(c)
    BY <2>1, <2>3 DEF Send, Waiting, CallerState
  <2>4. CASE Await(c)
    <3>1. Waiting(c) /\ caller[c] \in CallerState
      BY <2>1, <2>4 DEF Await, Waiting
    <3>2. PICK pc, m, n : caller' = [caller EXCEPT ![c] =
                  [caller[c] EXCEPT !.pc = pc, !.answered = m, !.seq = n]]
      BY <2>4 DEF Await
    <3>3. caller'[c].handle = caller[c].handle
      BY <2>1, <3>1, <3>2 DEF CallerState
    <3>4. \A d \in Callers \ {c} : caller'[d] = caller[d]
      BY <2>1, <3>2
    <3> QED
      BY <3>1, <3>3, <3>4 DEF Waiting
  <2> QED
    BY <2>2, <2>3, <2>4 DEF CallerStep
<1> QED
  BY <1>1, <1>2, <1>3 DEF SharedInv, PathTypeOK, HoldersShareTheCommitter, Waiting

LEMMA ArriveShares ==
    ASSUME SharedInv, NEW c \in Callers, Arrive(c)
    PROVE  SharedInv'
<1>1. registry' \in Handles /\ (registry # NoHandle => registry' = registry)
  BY DEF Arrive, SharedInv, PathTypeOK
<1>2. caller \in [Callers -> CallerState] /\ committer \in [Handles -> TaskState]
  BY DEF SharedInv, PathTypeOK
<1>3. caller' \in [Callers -> CallerState] /\ committer' \in [Handles -> TaskState]
  <2>1. caller' = [caller EXCEPT ![c].pc = "load", ![c].handle = registry']
    BY DEF Arrive
  <2>2. caller' \in [Callers -> CallerState]
    BY <1>1, <1>2, <2>1 DEF CallerState
  <2>3. \/ committer' = committer
        \/ \E h \in Handles : committer' = [committer EXCEPT ![h].pc = "recv"]
    BY DEF Arrive
  <2> QED
    BY <1>2, <2>2, <2>3 DEF TaskState
<1>4. \A d \in Callers : Waiting(d) => registry' = registry
  BY <1>1, CommitterAssumption DEF SharedInv, HoldersShareTheCommitter, Waiting
<1>5. \A d \in Callers : Waiting(d)' => caller'[d].handle = registry'
  BY <1>2, <1>4 DEF Arrive, SharedInv, HoldersShareTheCommitter, Waiting, CallerState
<1> QED
  BY <1>1, <1>3, <1>5 DEF Arrive, SharedInv, PathTypeOK, HoldersShareTheCommitter, Waiting

\* A handle is dropped only when no request has it, and then none has any.
LEMMA EvictShares ==
    ASSUME SharedInv, Evict
    PROVE  SharedInv'
<1>1. \A c \in Callers : ~Waiting(c)
  BY DEF Evict, Unheld, Holders, SharedInv, HoldersShareTheCommitter, Waiting
<1> QED
  BY <1>1 DEF Evict, SharedInv, PathTypeOK, HoldersShareTheCommitter, Waiting


LEMMA ReplyShares ==
    ASSUME SharedInv, NEW h \in Handles, Reply(h)
    PROVE  SharedInv'
<1> DEFINE t == committer[h]
           Mine(c) == {k \in DOMAIN t.batch : t.batch[k][1] = c}
           told(c) == [k \in 1..Cardinality(Mine(c)) |-> t.reply]
<1>1. /\ caller \in [Callers -> CallerState] /\ committer \in [Handles -> TaskState]
      /\ t.batch \in Seq(Item) /\ t.reply \in Outcome
  BY DEF SharedInv, PathTypeOK, TaskState
<1>2. \A c \in Callers : told(c) \in Seq(Outcome)
  <2> SUFFICES ASSUME NEW c \in Callers PROVE told(c) \in Seq(Outcome)
    OBVIOUS
  <2>1. IsFiniteSet(DOMAIN t.batch)
    BY <1>1, FS_Interval
  <2>2. Cardinality(Mine(c)) \in Nat
    BY <2>1, FS_Subset, FS_CardinalityType
  <2> QED
    BY <1>1, <2>2
<1>3. \A c \in Callers : caller'[c] = caller[c]
                        \/ caller'[c] = [caller[c] EXCEPT !.replies = @ \o told(c)]
  BY DEF Reply
<1> HIDE DEF told
<1>4. \A c \in Callers : caller'[c] \in CallerState
  <2> SUFFICES ASSUME NEW c \in Callers PROVE caller'[c] \in CallerState
    OBVIOUS
  <2>1. caller[c] \in CallerState
    BY <1>1
  <2>2. caller[c].replies \o told(c) \in Seq(Outcome)
    BY <1>2, <2>1 DEF CallerState
  <2> QED
    BY <1>3, <2>1, <2>2 DEF CallerState
<1>5. \A c \in Callers : caller'[c].handle = caller[c].handle /\ caller'[c].pc = caller[c].pc
  BY <1>1, <1>3 DEF CallerState
<1>6. caller' \in [Callers -> CallerState]
  <2>1. caller' = [c \in Callers |-> caller'[c]]
    BY Zenon DEF Reply
  <2> QED
    BY <1>4, <2>1
<1>7. committer' \in [Handles -> TaskState] /\ registry' = registry /\ commits' = commits
  <2>1. committer' = [committer EXCEPT ![h].pc = "recv", ![h].batch = <<>>]
    BY DEF Reply
  <2>2. registry' = registry /\ commits' = commits
    BY DEF Reply
  <2>3. t \in TaskState /\ <<>> \in Seq(Item)
    BY <1>1
  <2>4. [t EXCEPT !.pc = "recv", !.batch = <<>>] \in TaskState
    BY <2>3 DEF TaskState
  <2>5. committer' = [committer EXCEPT ![h] = [t EXCEPT !.pc = "recv", !.batch = <<>>]]
    BY <1>1, <2>1
  <2> HIDE DEF t
  <2> QED
    BY <1>1, <2>2, <2>4, <2>5
<1> QED
  BY <1>5, <1>6, <1>7 DEF SharedInv, PathTypeOK, HoldersShareTheCommitter, Waiting

\* The other steps of a committer touch no request.
LEMMA TaskShares ==
    ASSUME SharedInv, NEW h \in Handles, Receive(h) \/ Commit(h) \/ CommitFails(h) \/ End(h)
    PROVE  SharedInv'
<1>1. committer \in [Handles -> TaskState] /\ commits \in Seq(Seq(Item))
  BY DEF SharedInv, PathTypeOK
<1>2. committer[h].queue \in Seq(Item) /\ committer[h].batch \in Seq(Item) /\ Len(commits) \in Nat
  BY <1>1 DEF TaskState
<1>3. committer' \in [Handles -> TaskState]
  <2>1. CASE Receive(h)
    <3> DEFINE q == committer[h].queue
    <3>1. PICK n \in 1..Smaller(Len(q), MAX_BATCH_LEN) :
              committer' = [committer EXCEPT ![h] =
                  [committer[h] EXCEPT !.pc = "commit", !.batch = SubSeq(q, 1, n),
                                       !.queue = Rest(q, n)]]
      BY <2>1 DEF Receive
    <3>2. n \in 1..Len(q)
      BY <1>2, CommitterAssumption DEF Smaller
    <3>3. SubSeq(q, 1, n) \in Seq(Item) /\ Rest(q, n) \in Seq(Item)
      BY <1>2, <3>2, SubSeqProperties DEF Rest
    <3> QED
      BY <1>1, <3>1, <3>3 DEF TaskState
  <2>2. CASE Commit(h) \/ CommitFails(h)
    <3>1. PICK ok \in BOOLEAN : Replying(h, ok)
      BY <2>2 DEF Commit, CommitFails, Failed
    <3> QED
      BY <1>1, <1>2, <3>1 DEF Replying, TaskState, Outcome
  <2>3. CASE End(h)
    BY <1>1, <2>3 DEF End, TaskState
  <2> QED
    BY <2>1, <2>2, <2>3
<1>4. commits' \in Seq(Seq(Item))
  <2>1. CASE Commit(h)
    <3>1. commits' = Append(commits, committer[h].batch)
      BY <2>1 DEF Commit
    <3> QED
      BY <1>1, <1>2, <3>1
  <2>2. CASE ~Commit(h)
    BY <1>1, <2>2 DEF Receive, CommitFails, End
  <2> QED
    BY <2>1, <2>2
<1>5. UNCHANGED <<caller, registry>>
  BY DEF Receive, Commit, CommitFails, End
<1> QED
  BY <1>3, <1>4, <1>5 DEF SharedInv, PathTypeOK, HoldersShareTheCommitter, Waiting

LEMMA SharedNext == SharedInv /\ [CommitterNext]_committerVars => SharedInv'
<1> SUFFICES ASSUME SharedInv, [CommitterNext]_committerVars PROVE SharedInv'
  OBVIOUS
<1>1. ASSUME NEW c \in Callers, Arrive(c) PROVE SharedInv'
  BY <1>1, ArriveShares
<1>2. ASSUME NEW c \in Callers, CallerStep(c) \/ Cancel(c) PROVE SharedInv'
  BY <1>2, CallerShares
<1>3. ASSUME NEW h \in Handles, CommitterStep(h) PROVE SharedInv'
  BY <1>3, ReplyShares, TaskShares DEF CommitterStep
<1>4. CASE Evict
  BY <1>4, EvictShares
<1>5. CASE UNCHANGED committerVars
  BY <1>5 DEF committerVars, SharedInv, PathTypeOK, HoldersShareTheCommitter, Waiting
<1> QED
  BY <1>1, <1>2, <1>3, <1>4, <1>5 DEF CommitterNext

\* Requests in progress always share one committer, although idle handles are
\* dropped and made again (AppState::evict_idle's test of the strong count).
THEOREM OneCommitter == CommitterSpec => []HoldersShareTheCommitter
<1>1. SharedInv => HoldersShareTheCommitter
  BY DEF SharedInv
<1> QED
  BY SharedInit, SharedNext, <1>1, PTL DEF CommitterSpec

---------------------------------------------------------------------------
\* The way of a record.

Served(c) == Len(caller[c].replies)

InBatch(h, x) == \E k \in DOMAIN committer[h].batch : committer[h].batch[k] = x
InQueue(h, x) == \E k \in DOMAIN committer[h].queue : committer[h].queue[k] = x

\* The records of one request are in their order.
Ascending(s) ==
    \A k, l \in DOMAIN s : k < l /\ s[k][1] = s[l][1] => s[k][2] < s[l][2]

\* A request's records that are sent and not answered are, once each and in their
\* order, in the batch of its committer and then in its queue.
Streams(h) ==
    LET t == committer[h] IN
    /\ t.pc \notin {"commit", "reply"} => t.batch = <<>>
    /\ Len(t.batch) <= MAX_BATCH_LEN
    /\ Ascending(t.batch) /\ Ascending(t.queue)
    /\ \A k \in DOMAIN t.batch : \A l \in DOMAIN t.queue :
          t.batch[k][1] = t.queue[l][1] => t.batch[k][2] < t.queue[l][2]
    /\ \A c \in Callers : \A i \in Nat :
          InBatch(h, <<c, i>>) \/ InQueue(h, <<c, i>>) =>
              caller[c].handle = h /\ Served(c) < i /\ i <= caller[c].sent

Outstanding(c) ==
    /\ Served(c) <= caller[c].sent
    /\ caller[c].pc = "idle" => caller[c].sent = 0
    /\ \A i \in Served(c) + 1 .. caller[c].sent : \E h \in Handles :
          InBatch(h, <<c, i>>) \/ InQueue(h, <<c, i>>)

StreamInv ==
    /\ \A h \in Handles : Streams(h)
    /\ \A c \in Callers : Outstanding(c)

\* What is committed was not committed before, and is answered or about to be.
CommitsInv ==
    /\ \A n \in DOMAIN commits : Len(commits[n]) <= MAX_BATCH_LEN
    /\ \A n \in DOMAIN commits : \A k \in DOMAIN commits[n] :
          LET x == commits[n][k] IN
          \/ x[2] <= Served(x[1])
          \/ \E h \in Handles : committer[h].pc = "reply" /\ InBatch(h, x)
    /\ \A m, n \in DOMAIN commits : \A k \in DOMAIN commits[m], l \in DOMAIN commits[n] :
          commits[m][k][1] = commits[n][l][1] /\ commits[m][k][2] <= commits[n][l][2] =>
              m < n \/ (m = n /\ k <= l)

\* An answer that reports success names the commit.
RepliesInv ==
    /\ \A h \in Handles :
          LET t == committer[h] IN
          t.pc = "reply" /\ t.reply.ok =>
              t.reply.seq + 1 \in DOMAIN commits /\ commits[t.reply.seq + 1] = t.batch
    /\ \A c \in Callers : \A i \in 1..Served(c) :
          LET reply == caller[c].replies[i] IN
          reply.ok => /\ reply.seq + 1 \in DOMAIN commits
                      /\ \E k \in DOMAIN commits[reply.seq + 1] :
                            commits[reply.seq + 1][k] = <<c, i>>

\* A request has taken its answers in their order, and all of them succeeded.
AnswersInv ==
    \A c \in Callers :
        LET r == caller[c] IN
        /\ r.answered <= Len(r.replies)
        /\ r.pc \in {"await", "ok"} =>
              /\ \A i \in 1..r.answered : r.replies[i].ok
              /\ r.answered > 0 => r.seq = r.replies[r.answered].seq
        /\ r.pc = "ok" => r.answered = Size[c]
        /\ r.pc \in {"idle", "load", "send"} => r.answered = 0

RecordInv == SharedInv /\ StreamInv /\ CommitsInv /\ RepliesInv /\ AnswersInv

---------------------------------------------------------------------------
\* Induction, in the form in which the provers can use it.
LEMMA LeastNumber ==
    ASSUME NEW S \in SUBSET Nat, S # {}
    PROVE  \E m \in S : \A n \in S : m <= n
<1> DEFINE R == OpToRel(<, Nat)
<1>1. R = {p \in Nat \X Nat : p[1] < p[2]}
  BY DEF OpToRel
<1>2. IsWellFoundedOn(R, Nat)
  BY NatLessThanWellFounded
<1> HIDE DEF R
<1>3. PICK m \in S : \A n \in S : ~ (<<n, m>> \in R)
  BY <1>2, WFMin
<1>4. \A n \in S : ~ (n < m)
  BY <1>1, <1>3
<1> QED
  BY <1>4

Mine(h, c) == {k \in DOMAIN committer[h].batch : committer[h].batch[k][1] = c}

\* What is in a task's batch of one request are the records that are to be
\* answered next, and as many answers are handed out (the loop's `waiters`).
LEMMA BatchNumbers ==
    ASSUME SharedInv, StreamInv, NEW h \in Handles, NEW c \in Callers
    PROVE  /\ Cardinality(Mine(h, c)) \in Nat
           /\ \A i \in Nat : InBatch(h, <<c, i>>) <=>
                 Served(c) < i /\ i <= Served(c) + Cardinality(Mine(h, c))
<1> DEFINE b == committer[h].batch
           a == Served(c)
           M == Mine(h, c)
           S == {i \in Nat : InBatch(h, <<c, i>>)}
           Free == {n \in Nat : a <= n /\ n + 1 \notin S}
<1>1. /\ b \in Seq(Item) /\ a \in Nat /\ caller[c].sent \in Nat
      /\ Streams(h) /\ Outstanding(c)
  BY DEF SharedInv, PathTypeOK, TaskState, CallerState, Served, StreamInv
<1>2. \A i \in S : a < i /\ i <= caller[c].sent /\ caller[c].handle = h
  BY <1>1 DEF Streams
<1>3. \A i \in S : \A j \in Nat : a < j /\ j < i => j \in S
  <2> SUFFICES ASSUME NEW i \in S, NEW j \in Nat, a < j, j < i PROVE j \in S
    OBVIOUS
  <2>1. j \in a + 1 .. caller[c].sent
    BY <1>1, <1>2
  <2>2. PICK g \in Handles : InBatch(g, <<c, j>>) \/ InQueue(g, <<c, j>>)
    BY <1>1, <2>1 DEF Outstanding
  <2>3. caller[c].handle = g
    BY <2>2 DEF StreamInv, Streams
  <2>4. g = h
    BY <1>2, <2>3
  <2>5. ~InQueue(h, <<c, j>>)
    BY <1>1 DEF Streams, InBatch, InQueue
  <2> QED
    BY <2>2, <2>4, <2>5
<1>4. PICK n \in Free : \A m \in Free : n <= m
  <2>1. caller[c].sent + a \in Free
    BY <1>1, <1>2
  <2> HIDE DEF S
  <2>2. Free \in SUBSET Nat /\ Free # {}
    BY <2>1
  <2> HIDE DEF Free
  <2> QED
    BY <2>2, LeastNumber
<1>5. S = a + 1 .. n
  <2>1. ASSUME NEW i \in S PROVE i \in a + 1 .. n
    BY <1>1, <1>2, <1>3, <1>4, <2>1
  <2>2. ASSUME NEW i \in a + 1 .. n PROVE i \in S
    <3>1. i - 1 \in Nat /\ a <= i - 1 /\ i \in Nat /\ (i - 1) + 1 = i /\ i - 1 < n
      BY <1>1, <1>4, <2>2
    <3> HIDE DEF S
    <3>2. i \notin S => i - 1 \in Free
      BY <3>1
    <3> QED
      BY <1>4, <3>1, <3>2
  <2> QED
    BY <2>1, <2>2
<1>6. IsFiniteSet(S) /\ Cardinality(S) = n - a
  <2>1. a \in Int /\ a + 1 \in Int /\ n \in Int /\ a <= n
    BY <1>1, <1>4
  <2> HIDE DEF S
  <2> QED
    BY <1>5, <2>1, FS_Interval
<1>7. IsFiniteSet(M)
  <2>1. b \in Seq(Item)
    BY <1>1
  <2> HIDE DEF b
  <2>2. DOMAIN b = 1..Len(b) /\ Len(b) \in Int
    BY <2>1
  <2>3. IsFiniteSet(DOMAIN b)
    BY <2>2, FS_Interval
  <2>4. M \in SUBSET DOMAIN b
    BY DEF Mine, b
  <2> QED
    BY <2>3, <2>4, FS_Subset
<1>8. ExistsBijection(M, S)
  <2> DEFINE f == [k \in M |-> b[k][2]]
  <2>1. \A k \in M : b[k] = <<c, b[k][2]>> /\ b[k][2] \in Nat
    BY <1>1 DEF Mine, Item
  <2>2. f \in [M -> S]
    BY <2>1 DEF InBatch, Mine
  <2>3. \A k, l \in M : k # l => f[k] # f[l]
    <3> SUFFICES ASSUME NEW k \in M, NEW l \in M, k < l PROVE b[k][2] # b[l][2]
      BY <1>1 DEF Mine
    <3>1. b[k][2] < b[l][2]
      BY <1>1 DEF Streams, Ascending, Mine
    <3> QED
      BY <2>1, <3>1
  <2>4. \A i \in S : \E k \in M : f[k] = i
    BY DEF InBatch, Mine
  <2> HIDE DEF M, S, f
  <2> QED
    BY <2>2, <2>3, <2>4, Fun_IsBij DEF ExistsBijection
<1>9. Cardinality(M) = n - a
  BY <1>6, <1>7, <1>8, FS_Bijection
<1>10. \A i \in Nat : InBatch(h, <<c, i>>) <=> i \in a + 1 .. n
  BY <1>5
<1> QED
  BY <1>1, <1>4, <1>9, <1>10

---------------------------------------------------------------------------
\* Steps that neither send, nor receive, nor answer a record.

SameRecords ==
    \A h \in Handles :
        LET t == committer[h] IN
        /\ committer'[h].batch = t.batch /\ committer'[h].queue = t.queue
        /\ committer'[h].pc \notin {"commit", "reply"} => t.batch = <<>>

SameTold == \A c \in Callers : caller'[c].replies = caller[c].replies

SameRequests ==
    /\ SameTold
    /\ \A c \in Callers :
          LET r == caller[c] IN
          /\ caller'[c].sent = r.sent
          /\ caller'[c].handle = r.handle \/ r.sent = 0
          /\ caller'[c].pc = "idle" => r.pc = "idle"

SameReplies ==
    \A h \in Handles :
        LET t == committer[h] IN
        /\ t.pc = "reply" =>
              /\ committer'[h].pc = "reply"
              /\ committer'[h].reply = t.reply /\ committer'[h].batch = t.batch
        /\ committer'[h].pc = "reply" /\ committer'[h].reply.ok => t.pc = "reply"

LEMMA SameStreams ==
    ASSUME SharedInv, StreamInv, SameRecords, SameRequests
    PROVE  StreamInv'
<1>1. \A h \in Handles : \A c \in Callers : \A i \in Nat :
          /\ InBatch(h, <<c, i>>)' <=> InBatch(h, <<c, i>>)
          /\ InQueue(h, <<c, i>>)' <=> InQueue(h, <<c, i>>)
  BY DEF SameRecords, InBatch, InQueue
<1>2. \A c \in Callers : Served(c)' = Served(c) /\ Served(c) \in Nat /\ caller[c].sent \in Nat
  BY DEF SameRequests, SameTold, Served, SharedInv, PathTypeOK, CallerState
<1>3. ASSUME NEW h \in Handles PROVE Streams(h)'
  <2>1. ASSUME NEW c \in Callers, NEW i \in Nat, InBatch(h, <<c, i>>) \/ InQueue(h, <<c, i>>)
        PROVE  caller'[c].handle = h /\ Served(c)' < i /\ i <= caller'[c].sent
    <3>1. caller[c].handle = h /\ Served(c) < i /\ i <= caller[c].sent
      BY <2>1 DEF StreamInv, Streams
    <3> QED
      BY <1>2, <3>1 DEF SameRequests
  <2> QED
    BY <1>1, <2>1 DEF SameRecords, StreamInv, Streams, Ascending
<1>4. ASSUME NEW c \in Callers PROVE Outstanding(c)'
  <2>1. ASSUME NEW i \in Served(c) + 1 .. caller[c].sent
        PROVE  \E h \in Handles : InBatch(h, <<c, i>>)' \/ InQueue(h, <<c, i>>)'
    <3>1. i \in Nat
      BY <1>2
    <3> QED
      BY <1>1, <3>1 DEF StreamInv, Outstanding
  <2>2. Outstanding(c)
    BY DEF StreamInv
  <2>3. /\ caller'[c].sent = caller[c].sent /\ Served(c)' = Served(c)
        /\ caller'[c].pc = "idle" => caller[c].pc = "idle"
    BY <1>2 DEF SameRequests
  <2> QED
    BY <2>1, <2>2, <2>3 DEF Outstanding
<1> QED
  BY <1>3, <1>4 DEF StreamInv

LEMMA SameCommits ==
    ASSUME CommitsInv, SameTold, SameReplies, commits' = commits, SharedInv
    PROVE  CommitsInv'
<1>1. \A n \in DOMAIN commits : \A k \in DOMAIN commits[n] :
          commits[n][k][1] \in Callers
  BY DEF SharedInv, PathTypeOK, Item
<1>2. \A c \in Callers : Served(c)' = Served(c)
  BY DEF SameTold, Served
<1>3. ASSUME NEW n \in DOMAIN commits, NEW k \in DOMAIN commits[n]
      PROVE  LET x == commits[n][k] IN
             \/ x[2] <= Served(x[1])'
             \/ \E h \in Handles : committer'[h].pc = "reply" /\ InBatch(h, x)'
  <2> DEFINE x == commits[n][k]
  <2>1. \/ x[2] <= Served(x[1])
        \/ \E h \in Handles : committer[h].pc = "reply" /\ InBatch(h, x)
    BY DEF CommitsInv
  <2>2. Served(x[1])' = Served(x[1])
    BY <1>1, <1>2
  <2>3. \A h \in Handles : committer[h].pc = "reply" /\ InBatch(h, x)
                              => committer'[h].pc = "reply" /\ InBatch(h, x)'
    BY DEF SameReplies, InBatch
  <2> QED
    BY <2>1, <2>2, <2>3
<1> QED
  BY <1>3 DEF CommitsInv

LEMMA SameAnswers ==
    ASSUME RepliesInv, SameTold, SameReplies, commits' = commits
    PROVE  RepliesInv'
<1>1. ASSUME NEW h \in Handles, committer'[h].pc = "reply", committer'[h].reply.ok
      PROVE  /\ committer'[h].reply.seq + 1 \in DOMAIN commits
             /\ commits[committer'[h].reply.seq + 1] = committer'[h].batch
  BY <1>1 DEF SameReplies, RepliesInv
<1>2. \A c \in Callers : Served(c)' = Served(c) /\ caller'[c].replies = caller[c].replies
  BY DEF SameTold, Served
<1>3. ASSUME NEW c \in Callers, NEW i \in (1..Served(c))', caller'[c].replies[i].ok
      PROVE  LET reply == caller'[c].replies[i] IN
             /\ reply.seq + 1 \in DOMAIN commits
             /\ \E k \in DOMAIN commits[reply.seq + 1] : commits[reply.seq + 1][k] = <<c, i>>
  <2>1. i \in 1..Served(c) /\ caller[c].replies[i].ok
    BY <1>2, <1>3
  <2> QED
    BY <1>2, <2>1 DEF RepliesInv
<1> QED
  BY <1>1, <1>3 DEF RepliesInv

LEMMA QuietRequest ==
    ASSUME RecordInv, NEW c \in Callers,
           Arrive(c) \/ Admit(c) \/ Refuse(c) \/ Cancel(c) \/ Await(c)
    PROVE  SameRecords /\ SameRequests /\ SameReplies /\ commits' = commits
<1>1. /\ caller \in [Callers -> CallerState] /\ committer \in [Handles -> TaskState]
      /\ \A h \in Handles : Streams(h)
  BY DEF RecordInv, SharedInv, PathTypeOK, StreamInv
<1>2. commits' = commits
  BY DEF Arrive, Admit, Refuse, Cancel, Await
<1>3. SameRequests
  <2>1. CASE Arrive(c)
    <3>1. caller[c].sent = 0
      BY <2>1 DEF Arrive, RecordInv, StreamInv, Outstanding
    <3> QED
      BY <1>1, <2>1, <3>1 DEF Arrive, SameRequests, SameTold, CallerState
  <2>2. CASE Admit(c) \/ Refuse(c) \/ Cancel(c)
    <3>1. PICK pc \in {"send", "error", "gone"} : caller' = [caller EXCEPT ![c].pc = pc]
      BY <2>2 DEF Admit, Refuse, Cancel
    <3> QED
      BY <1>1, <3>1 DEF SameRequests, SameTold, CallerState
  <2>3. CASE Await(c)
    <3>1. caller[c] \in CallerState /\ caller[c].pc = "await"
      BY <1>1, <2>3 DEF Await
    <3>2. \E pc \in {"error", "ok", "await"} : \E m, n :
              caller' = [caller EXCEPT ![c] =
                  [caller[c] EXCEPT !.pc = pc, !.answered = m, !.seq = n]]
      BY <2>3 DEF Await
    <3> QED
      BY <1>1, <3>1, <3>2 DEF SameRequests, SameTold, CallerState
  <2> QED
    BY <2>1, <2>2, <2>3
<1>4. SameRecords /\ SameReplies
  <2>1. CASE Arrive(c) /\ committer' # committer
    <3>1. PICK h \in Handles : /\ committer[h].pc = "unborn"
                               /\ committer' = [committer EXCEPT ![h].pc = "recv"]
      BY <2>1 DEF Arrive
    <3>2. committer[h].batch = <<>>
      BY <1>1, <3>1 DEF Streams
    <3> QED
      BY <1>1, <3>1, <3>2 DEF SameRecords, SameReplies, Streams, TaskState
  <2>2. CASE committer' = committer
    BY <1>1, <2>2 DEF SameRecords, SameReplies, Streams
  <2> QED
    BY <2>1, <2>2 DEF Admit, Refuse, Cancel, Await
<1> QED
  BY <1>2, <1>3, <1>4

LEMMA QuietTask ==
    ASSUME RecordInv,
           Evict \/ (\E h \in Handles : CommitFails(h) \/ End(h)) \/ UNCHANGED committerVars
    PROVE  SameRecords /\ SameRequests /\ SameReplies /\ commits' = commits
<1>1. /\ committer \in [Handles -> TaskState]
      /\ \A h \in Handles : Streams(h)
  BY DEF RecordInv, SharedInv, PathTypeOK, StreamInv
<1>2. commits' = commits /\ caller' = caller
  BY DEF Evict, CommitFails, End, committerVars
<1>3. SameRequests
  BY <1>2 DEF SameRequests, SameTold
<1>4. SameRecords /\ SameReplies
  <2>1. ASSUME NEW h \in Handles, CommitFails(h) PROVE SameRecords /\ SameReplies
    <3>1. /\ committer[h].pc = "commit"
          /\ committer' = [committer EXCEPT ![h].pc = "reply",
                                  ![h].reply = [ok |-> FALSE, seq |-> Len(commits)]]
      BY <2>1 DEF CommitFails, Failed, Replying
    <3>2. committer'[h].pc = "reply" /\ ~committer'[h].reply.ok
      BY <1>1, <3>1 DEF TaskState
    <3>3. committer'[h].batch = committer[h].batch /\ committer'[h].queue = committer[h].queue
      BY <1>1, <3>1 DEF TaskState
    <3>4. \A g \in Handles \ {h} : committer'[g] = committer[g]
      BY <1>1, <3>1
    <3> QED
      BY <1>1, <3>1, <3>2, <3>3, <3>4 DEF SameRecords, SameReplies, Streams
  <2>2. ASSUME NEW h \in Handles, End(h) PROVE SameRecords /\ SameReplies
    <3>1. committer[h].pc = "recv" /\ committer' = [committer EXCEPT ![h].pc = "ended"]
      BY <2>2 DEF End
    <3> QED
      BY <1>1, <3>1 DEF SameRecords, SameReplies, Streams, TaskState
  <2>3. CASE committer' = committer
    BY <1>1, <2>3 DEF SameRecords, SameReplies, Streams
  <2> QED
    BY <2>1, <2>2, <2>3 DEF Evict, committerVars
<1> QED
  BY <1>2, <1>3, <1>4

---------------------------------------------------------------------------
\* The answers a request has taken.

LEMMA RequestAnswers ==
    ASSUME RecordInv, NEW c \in Callers, Arrive(c) \/ CallerStep(c) \/ Cancel(c)
    PROVE  AnswersInv'
<1>1. caller \in [Callers -> CallerState] /\ Size[c] \in Nat
  BY CommitterAssumption DEF RecordInv, SharedInv, PathTypeOK
<1> DEFINE r == caller[c]
           Right(q, d) ==
              /\ q.answered <= Len(q.replies)
              /\ q.pc \in {"await", "ok"} =>
                    /\ \A i \in 1..q.answered : q.replies[i].ok
                    /\ q.answered > 0 => q.seq = q.replies[q.answered].seq
              /\ q.pc = "ok" => q.answered = Size[d]
              /\ q.pc \in {"idle", "load", "send"} => q.answered = 0
<1>2. \A d \in Callers : Right(caller[d], d)
  BY DEF RecordInv, AnswersInv
<1>3. \A d \in Callers \ {c} : caller'[d] = caller[d]
  <2>1. CASE Arrive(c) \/ Admit(c) \/ Refuse(c) \/ Cancel(c)
    BY <1>1, <2>1 DEF Arrive, Admit, Refuse, Cancel
  <2>2. CASE Send(c) \/ Await(c)
    BY <1>1, <2>2 DEF Send, Await
  <2> QED
    BY <2>1, <2>2 DEF CallerStep
<1>4. Right(caller'[c], c)
  <2>1. r \in CallerState /\ Right(r, c)
    BY <1>1, <1>2
  <2>2. CASE Arrive(c) \/ Admit(c) \/ Refuse(c) \/ Cancel(c)
    <3>1. /\ caller'[c].pc \in {"load", "send", "error", "gone"}
          /\ caller'[c].pc \in {"load", "send"} => r.pc \in {"idle", "load"}
          /\ caller'[c].answered = r.answered /\ caller'[c].replies = r.replies
      <4>1. CASE Arrive(c)
        BY <1>1, <2>1, <4>1 DEF Arrive, CallerState
      <4>2. CASE Admit(c) \/ Refuse(c) \/ Cancel(c)
        BY <1>1, <2>1, <4>2 DEF Admit, Refuse, Cancel, CallerState
      <4> QED
        BY <2>2, <4>1, <4>2
    <3> HIDE DEF r
    <3> QED
      BY <2>1, <3>1
  <2>3. CASE Send(c)
    <3>1. r.pc = "send" /\ r.answered = 0 /\ Len(r.replies) \in Nat
      BY <2>1, <2>3 DEF Send, CallerState
    <3>2. /\ caller'[c].pc \in {"await", "send"} /\ caller'[c].answered = r.answered
          /\ caller'[c].replies = r.replies
      BY <1>1, <2>1, <2>3 DEF Send, CallerState
    <3> QED
      BY <3>1, <3>2
  <2>4. CASE Await(c)
    <3> DEFINE n == r.answered + 1
               reply == r.replies[n]
               q == [r EXCEPT
                        !.pc = IF ~reply.ok THEN "error"
                               ELSE IF n = Size[c] THEN "ok" ELSE "await",
                        !.answered = n,
                        !.seq = IF reply.ok THEN reply.seq ELSE r.seq]
    <3>1. r.answered \in Nat /\ Len(r.replies) \in Nat /\ Len(r.replies) > r.answered
      BY <2>1, <2>4 DEF Await, CallerState
    <3>2. caller'[c] = q
      BY <1>1, <2>4 DEF Await
    <3>3. /\ q.answered = n /\ q.replies = r.replies
          /\ q.pc \in {"ok", "await"} => reply.ok /\ q.seq = reply.seq
          /\ q.pc = "ok" => n = Size[c]
          /\ q.pc \notin {"idle", "load", "send"}
      BY <2>1 DEF CallerState
    <3>4. r.pc = "await" /\ \A i \in 1..r.answered : r.replies[i].ok
      BY <2>1, <2>4 DEF Await
    <3> HIDE DEF q, r
    <3> QED
      BY <3>1, <3>2, <3>3, <3>4
  <2> QED
    BY <2>2, <2>3, <2>4 DEF CallerStep
<1> QED
  BY <1>2, <1>3, <1>4 DEF AnswersInv

---------------------------------------------------------------------------
\* A record is sent: it is the request's newest and the queue's last.

\* What a sequence holds when one more is appended to it.
LEMMA Appended ==
    ASSUME NEW T, NEW q \in Seq(T), NEW x \in T
    PROVE  LET p == Append(q, x) IN
           /\ \A k \in DOMAIN q : k \in DOMAIN p /\ p[k] = q[k]
           /\ Len(q) + 1 \in DOMAIN p /\ p[Len(q) + 1] = x
           /\ \A k \in DOMAIN p : k \in DOMAIN q \/ k = Len(q) + 1
<1> DEFINE p == Append(q, x)
<1>1. /\ p \in Seq(T) /\ Len(p) = Len(q) + 1 /\ Len(q) \in Nat
      /\ \A k \in 1..Len(q) : p[k] = q[k]
      /\ p[Len(q) + 1] = x
  BY AppendProperties
<1>2. DOMAIN q = 1..Len(q) /\ DOMAIN p = 1..Len(p)
  BY <1>1
<1> HIDE DEF p
<1>3. \A k \in DOMAIN p : k \in DOMAIN q \/ k = Len(q) + 1
  BY <1>1, <1>2
<1>4. Len(q) + 1 \in DOMAIN p /\ \A k \in DOMAIN q : k \in DOMAIN p
  BY <1>1, <1>2
<1> QED
  BY <1>1, <1>2, <1>3, <1>4 DEF p

LEMMA AppendAscends ==
    ASSUME NEW q \in Seq(Item), NEW x \in Item, Ascending(q),
           \A k \in DOMAIN q : q[k][1] = x[1] => q[k][2] < x[2]
    PROVE  Ascending(Append(q, x))
<1> DEFINE p == Append(q, x)
<1>1. /\ \A k \in DOMAIN q : k \in DOMAIN p /\ p[k] = q[k]
      /\ p[Len(q) + 1] = x
      /\ \A k \in DOMAIN p : k \in DOMAIN q \/ k = Len(q) + 1
  BY Appended
<1>2. DOMAIN q = 1..Len(q) /\ Len(q) \in Nat
  OBVIOUS
<1> HIDE DEF p
<1>3. \A k, l \in DOMAIN p : k < l => k \in DOMAIN q
  BY <1>1, <1>2
<1>4. ASSUME NEW k \in DOMAIN p, NEW l \in DOMAIN p, k < l, p[k][1] = p[l][1]
      PROVE  p[k][2] < p[l][2]
  <2>1. k \in DOMAIN q /\ p[k] = q[k]
    BY <1>1, <1>3, <1>4
  <2>2. CASE l \in DOMAIN q
    BY <1>1, <1>4, <2>1, <2>2 DEF Ascending
  <2>3. CASE l = Len(q) + 1
    BY <1>1, <1>4, <2>1, <2>3
  <2> QED
    BY <1>1, <2>2, <2>3
<1> QED
  BY <1>4 DEF Ascending, p

LEMMA SendStreams ==
    ASSUME RecordInv, NEW c \in Callers, Send(c)
    PROVE  StreamInv' /\ SameTold /\ SameReplies /\ commits' = commits
<1>0. PICK h \in Handles, i0 \in Nat : h = caller[c].handle /\ i0 = caller[c].sent + 1
  BY DEF RecordInv, SharedInv, PathTypeOK, CallerState, Send, Waiting
<1> DEFINE q == committer[h].queue
<1>1. /\ caller \in [Callers -> CallerState] /\ committer \in [Handles -> TaskState]
      /\ h = caller[c].handle /\ i0 = caller[c].sent + 1
      /\ q \in Seq(Item) /\ <<c, i0>> \in Item
  BY <1>0 DEF RecordInv, SharedInv, PathTypeOK, TaskState, Item
<1>2. /\ committer' = [committer EXCEPT ![h].queue = Append(q, <<c, i0>>)]
      /\ \A d \in Callers \ {c} : caller'[d] = caller[d]
      /\ caller'[c] = [caller[c] EXCEPT !.sent = i0,
                            !.pc = IF i0 = Size[c] THEN "await" ELSE "send"]
      /\ commits' = commits
  BY <1>1 DEF Send
<1>3. /\ \A g \in Handles : /\ committer'[g].batch = committer[g].batch
                            /\ committer'[g].pc = committer[g].pc
                            /\ committer'[g].reply = committer[g].reply
      /\ \A g \in Handles \ {h} : committer'[g].queue = committer[g].queue
      /\ committer'[h].queue = Append(q, <<c, i0>>)
  BY <1>1, <1>2 DEF TaskState
<1>4. /\ caller'[c].sent = i0 /\ caller'[c].pc # "idle"
      /\ \A d \in Callers : /\ caller'[d].replies = caller[d].replies
                            /\ caller'[d].handle = caller[d].handle
      /\ \A d \in Callers \ {c} : /\ caller'[d].sent = caller[d].sent
                                  /\ caller'[d].pc = caller[d].pc
  <2>1. caller[c] \in CallerState
    BY <1>1
  <2> QED
    BY <1>2, <2>1 DEF CallerState
<1>5. \A d \in Callers : Served(d)' = Served(d) /\ Served(d) \in Nat /\ caller[d].sent \in Nat
  BY <1>1, <1>4 DEF Served, CallerState
<1> DEFINE p == Append(q, <<c, i0>>)
<1>6. /\ \A k \in DOMAIN q : k \in DOMAIN p /\ p[k] = q[k]
      /\ Len(q) + 1 \in DOMAIN p /\ p[Len(q) + 1] = <<c, i0>>
      /\ \A k \in DOMAIN p : k \in DOMAIN q \/ k = Len(q) + 1
  BY <1>1, Appended
<1> HIDE DEF p
<1>8. \A g \in Handles : \A d \in Callers : \A i \in Nat :
          /\ InBatch(g, <<d, i>>)' <=> InBatch(g, <<d, i>>)
          /\ InQueue(g, <<d, i>>)' <=>
                InQueue(g, <<d, i>>) \/ (g = h /\ d = c /\ i = i0)
  <2>1. ASSUME NEW g \in Handles, g # h, NEW x
        PROVE  (InBatch(g, x)' <=> InBatch(g, x)) /\ (InQueue(g, x)' <=> InQueue(g, x))
    BY <1>3, <2>1 DEF InBatch, InQueue
  <2>2. ASSUME NEW x
        PROVE  /\ InBatch(h, x)' <=> InBatch(h, x)
               /\ InQueue(h, x)' <=> InQueue(h, x) \/ x = <<c, i0>>
    <3>1. InBatch(h, x)' <=> InBatch(h, x)
      BY <1>1, <1>3 DEF InBatch
    <3>2. InQueue(h, x)' <=> \E k \in DOMAIN p : p[k] = x
      BY <1>3 DEF InQueue, p
    <3>3. InQueue(h, x) <=> \E k \in DOMAIN q : q[k] = x
      BY DEF InQueue
    <3> QED
      BY <1>6, <3>1, <3>2, <3>3
  <2> QED
    BY <2>1, <2>2
<1>9. /\ \A g \in Handles : Streams(g)
      /\ \A d \in Callers : Outstanding(d)
  BY DEF RecordInv, StreamInv
<1>10. \A k \in DOMAIN q : q[k] = <<q[k][1], q[k][2]>> /\ q[k][1] \in Callers /\ q[k][2] \in Nat
  BY <1>1 DEF Item
<1>11. ASSUME NEW g \in Handles PROVE Streams(g)'
  <2>1. ASSUME NEW d \in Callers, NEW i \in Nat, InBatch(g, <<d, i>>)' \/ InQueue(g, <<d, i>>)'
        PROVE  caller'[d].handle = g /\ Served(d)' < i /\ i <= caller'[d].sent
    <3>1. CASE InBatch(g, <<d, i>>) \/ InQueue(g, <<d, i>>)
      <4>1. caller[d].handle = g /\ Served(d) < i /\ i <= caller[d].sent
        BY <1>9, <3>1 DEF Streams
      <4> QED
        BY <1>0, <1>4, <1>5, <4>1
    <3>2. CASE g = h /\ d = c /\ i = i0
      BY <1>0, <1>4, <1>5, <1>9, <3>2 DEF Outstanding
    <3> QED
      BY <1>8, <2>1, <3>1, <3>2
  <2>2. Ascending(committer'[g].batch) /\ Ascending(committer'[g].queue)
    <3>1. Ascending(committer[g].batch) /\ Ascending(committer[g].queue)
      BY <1>9 DEF Streams
    <3>2. CASE g # h
      BY <1>3, <3>1, <3>2
    <3>3. CASE g = h
      <4>1. \A k \in DOMAIN q : q[k][1] = c => q[k][2] < i0
        <5> SUFFICES ASSUME NEW k \in DOMAIN q, q[k][1] = c PROVE q[k][2] < i0
          OBVIOUS
        <5>1. InQueue(h, <<c, q[k][2]>>) /\ q[k][2] \in Nat
          BY <1>10 DEF InQueue
        <5>2. q[k][2] <= caller[c].sent
          BY <1>1, <1>9, <5>1 DEF Streams
        <5> QED
          BY <1>0, <1>5, <5>1, <5>2
      <4>2. Ascending(p)
        BY <1>1, <3>1, <3>3, <4>1, AppendAscends DEF p
      <4> QED
        BY <1>3, <3>1, <3>3, <4>2 DEF p
    <3> QED
      BY <3>2, <3>3
  <2>3. \A k \in DOMAIN committer'[g].batch : \A l \in DOMAIN committer'[g].queue :
            committer'[g].batch[k][1] = committer'[g].queue[l][1] =>
                committer'[g].batch[k][2] < committer'[g].queue[l][2]
    <3>1. CASE g # h
      BY <1>3, <1>9, <3>1 DEF Streams
    <3>2. CASE g = h
      <4> DEFINE b == committer[h].batch
      <4>1. \A k \in DOMAIN b : \A l \in DOMAIN q : b[k][1] = q[l][1] => b[k][2] < q[l][2]
        BY <1>1, <1>9 DEF Streams
      <4>2. \A k \in DOMAIN b : b[k][1] = c => b[k][2] < i0
        <5> SUFFICES ASSUME NEW k \in DOMAIN b, b[k][1] = c PROVE b[k][2] < i0
          OBVIOUS
        <5>1. b \in Seq(Item)
          BY <1>1 DEF TaskState
        <5>2. b[k] = <<c, b[k][2]>> /\ b[k][2] \in Nat
          BY <5>1 DEF Item
        <5>3. b[k][2] <= caller[c].sent
          BY <1>1, <1>9, <5>2 DEF Streams, InBatch
        <5> QED
          BY <1>0, <1>5, <5>2, <5>3
      <4>3. \A k \in DOMAIN b : \A l \in DOMAIN p : b[k][1] = p[l][1] => b[k][2] < p[l][2]
        BY <1>6, <4>1, <4>2
      <4>4. committer'[g].batch = b /\ committer'[g].queue = p
        BY <1>3, <3>2 DEF p
      <4> HIDE DEF b
      <4> QED
        BY <4>3, <4>4
    <3> QED
      BY <3>1, <3>2
  <2>4. /\ committer'[g].pc \notin {"commit", "reply"} => committer'[g].batch = <<>>
        /\ Len(committer'[g].batch) <= MAX_BATCH_LEN
    BY <1>3, <1>9 DEF Streams
  <2> QED
    BY <2>1, <2>2, <2>3, <2>4 DEF Streams
<1>12. ASSUME NEW d \in Callers PROVE Outstanding(d)'
  <2>1. Outstanding(d)
    BY <1>9
  <2>2. ASSUME NEW i \in Served(d) + 1 .. caller'[d].sent
        PROVE  \E g \in Handles : InBatch(g, <<d, i>>)' \/ InQueue(g, <<d, i>>)'
    <3>1. i \in Nat /\ Served(d) + 1 <= i /\ (i <= caller[d].sent \/ (d = c /\ i = i0))
      BY <1>1, <1>4, <1>5
    <3>2. CASE d = c /\ i = i0
      BY <1>1, <1>8, <3>2
    <3>3. CASE i <= caller[d].sent
      <4>1. i \in Served(d) + 1 .. caller[d].sent
        BY <1>5, <3>1, <3>3
      <4> QED
        BY <1>8, <2>1, <3>1, <4>1 DEF Outstanding
    <3> QED
      BY <3>1, <3>2, <3>3
  <2>3. Served(d) <= caller'[d].sent /\ (caller'[d].pc = "idle" => caller'[d].sent = 0)
    BY <1>0, <1>4, <1>5, <2>1 DEF Outstanding
  <2> QED
    BY <1>5, <2>2, <2>3 DEF Outstanding
<1> QED
  BY <1>2, <1>3, <1>4, <1>11, <1>12 DEF StreamInv, SameTold, SameReplies

---------------------------------------------------------------------------
\* The head of the queue becomes the batch.

LEMMA Split ==
    ASSUME NEW q \in Seq(Item), NEW n \in 1..Len(q)
    PROVE  LET b == SubSeq(q, 1, n)
               r == Rest(q, n) IN
           /\ Len(b) = n
           /\ \A k \in DOMAIN b : k \in DOMAIN q /\ b[k] = q[k] /\ k <= n
           /\ \A k \in DOMAIN r : k + n \in DOMAIN q /\ r[k] = q[k + n] /\ 0 < k /\ k \in Nat
           /\ \A k \in DOMAIN q : (k \in DOMAIN b \/ (k - n \in DOMAIN r /\ (k - n) + n = k))
<1> DEFINE b == SubSeq(q, 1, n)
           r == SubSeq(q, n + 1, Len(q))
<1>1. /\ Len(q) \in Nat /\ n \in Nat /\ 1 <= n /\ n <= Len(q) /\ DOMAIN q = 1..Len(q)
      /\ \A k \in 1..Len(q) : q[k] \in Item
  OBVIOUS
<1>2. /\ b \in Seq(Item) /\ Len(b) = n
      /\ \A k \in 1..n : b[k] = q[k]
  <2>1. \A k \in 1..n : q[k] \in Item
    BY <1>1
  <2>2. /\ b \in Seq(Item) /\ Len(b) = IF 1 <= n THEN n - 1 + 1 ELSE 0
        /\ \A k \in 1..n - 1 + 1 : b[k] = q[1 + k - 1]
    BY <1>1, <2>1, SubSeqProperties
  <2> HIDE DEF b
  <2>3. n - 1 + 1 = n /\ \A k \in 1..n : 1 + k - 1 = k
    BY <1>1
  <2> QED
    BY <1>1, <2>2, <2>3
<1>3. /\ r \in Seq(Item) /\ Len(r) = Len(q) - n
      /\ \A k \in 1..Len(q) - n : r[k] = q[k + n]
  <2> DEFINE L == Len(q)
  <2>1. \A k \in n + 1..L : q[k] \in Item
    BY <1>1
  <2>2. /\ r \in Seq(Item) /\ Len(r) = IF n + 1 <= L THEN L - (n + 1) + 1 ELSE 0
        /\ \A k \in 1..L - (n + 1) + 1 : r[k] = q[n + 1 + k - 1]
    BY <1>1, <2>1, SubSeqProperties
  <2> HIDE DEF r, L
  <2>3. L \in Nat /\ n <= L
    BY <1>1 DEF L
  <2>4. L - (n + 1) + 1 = L - n /\ \A k \in 1..L - n : n + 1 + k - 1 = k + n
    BY <1>1, <2>3
  <2>5. Len(r) = L - n
    BY <1>1, <2>2, <2>3
  <2> QED
    BY <2>2, <2>4, <2>5 DEF L
<1>4. DOMAIN b = 1..n /\ DOMAIN r = 1..Len(q) - n
  BY <1>2, <1>3
<1> HIDE DEF b, r
<1>5. /\ \A k \in DOMAIN b : k \in DOMAIN q /\ b[k] = q[k] /\ k <= n
      /\ \A k \in DOMAIN r : k + n \in DOMAIN q /\ r[k] = q[k + n] /\ 0 < k /\ k \in Nat
      /\ \A k \in DOMAIN q : (k \in DOMAIN b \/ (k - n \in DOMAIN r /\ (k - n) + n = k))
  BY <1>1, <1>2, <1>3, <1>4
<1> QED
  BY <1>2, <1>5 DEF b, r, Rest

LEMMA ReceiveStreams ==
    ASSUME RecordInv, NEW h \in Handles, Receive(h)
    PROVE  StreamInv' /\ SameTold /\ SameReplies /\ commits' = commits
<1> DEFINE q == committer[h].queue
<1>1. /\ committer \in [Handles -> TaskState] /\ q \in Seq(Item)
      /\ committer[h].pc = "recv" /\ committer[h].batch = <<>>
      /\ \A g \in Handles : Streams(g)
      /\ \A c \in Callers : Outstanding(c)
  BY DEF RecordInv, SharedInv, PathTypeOK, TaskState, StreamInv, Streams, Receive
<1>2. caller' = caller /\ commits' = commits
  BY DEF Receive
<1>3. PICK n \in 1..Smaller(Len(q), MAX_BATCH_LEN) :
          committer' = [committer EXCEPT ![h] =
              [committer[h] EXCEPT !.pc = "commit", !.batch = SubSeq(q, 1, n),
                                   !.queue = Rest(q, n)]]
  BY DEF Receive
<1>4. n \in 1..Len(q) /\ n <= MAX_BATCH_LEN
  BY <1>1, CommitterAssumption DEF Smaller
<1> DEFINE b == SubSeq(q, 1, n)
           r == Rest(q, n)
<1>5. /\ Len(b) = n
      /\ \A k \in DOMAIN b : k \in DOMAIN q /\ b[k] = q[k] /\ k <= n
      /\ \A k \in DOMAIN r : k + n \in DOMAIN q /\ r[k] = q[k + n] /\ 0 < k /\ k \in Nat
      /\ \A k \in DOMAIN q : (k \in DOMAIN b \/ (k - n \in DOMAIN r /\ (k - n) + n = k))
  BY <1>1, <1>4, Split
<1> HIDE DEF b, r
<1>6. /\ committer'[h].pc = "commit" /\ committer'[h].batch = b /\ committer'[h].queue = r
      /\ \A g \in Handles \ {h} : committer'[g] = committer[g]
  BY <1>1, <1>3 DEF TaskState, b, r
<1>7. ASSUME NEW g \in Handles, NEW x
      PROVE  InBatch(g, x)' \/ InQueue(g, x)' <=> InBatch(g, x) \/ InQueue(g, x)
  <2>1. CASE g # h
    BY <1>6, <2>1 DEF InBatch, InQueue
  <2>2. CASE g = h
    <3>1. InBatch(g, x)' \/ InQueue(g, x)' <=>
             (\E k \in DOMAIN b : b[k] = x) \/ (\E k \in DOMAIN r : r[k] = x)
      BY <1>6, <2>2 DEF InBatch, InQueue
    <3>2. InBatch(g, x) \/ InQueue(g, x) <=> \E k \in DOMAIN q : q[k] = x
      BY <1>1, <2>2 DEF InBatch, InQueue
    <3> HIDE DEF q
    <3>3. (\E k \in DOMAIN b : b[k] = x) \/ (\E k \in DOMAIN r : r[k] = x)
             <=> \E k \in DOMAIN q : q[k] = x
      BY <1>5
    <3> QED
      BY <3>1, <3>2, <3>3
  <2> QED
    BY <2>1, <2>2
<1>8. \A c \in Callers : Served(c)' = Served(c)
  BY <1>2 DEF Served
<1>9. ASSUME NEW g \in Handles PROVE Streams(g)'
  <2>1. ASSUME NEW c \in Callers, NEW i \in Nat, InBatch(g, <<c, i>>)' \/ InQueue(g, <<c, i>>)'
        PROVE  caller'[c].handle = g /\ Served(c)' < i /\ i <= caller'[c].sent
    BY <1>1, <1>2, <1>7, <1>8, <2>1 DEF Streams
  <2>2. CASE g # h
    BY <1>1, <1>6, <2>1, <2>2 DEF Streams
  <2>3. CASE g = h
    <3>1. Ascending(q)
      BY <1>1 DEF Streams
    <3>2. \A k, l \in DOMAIN q : k < l /\ q[k][1] = q[l][1] => q[k][2] < q[l][2]
      BY <3>1 DEF Ascending
    <3>3. DOMAIN q = 1..Len(q) /\ Len(q) \in Nat /\ n \in Nat
      BY <1>1, <1>4
    <3> HIDE DEF q
    <3>4. Ascending(b)
      BY <1>5, <3>2 DEF Ascending
    <3>5. Ascending(r)
      <4> SUFFICES ASSUME NEW k \in DOMAIN r, NEW l \in DOMAIN r, k < l, r[k][1] = r[l][1]
                   PROVE  r[k][2] < r[l][2]
        BY DEF Ascending
      <4>1. k + n < l + n
        BY <1>5, <3>3
      <4> QED
        BY <1>5, <3>2, <4>1
    <3>6. \A k \in DOMAIN b : \A l \in DOMAIN r : b[k][1] = r[l][1] => b[k][2] < r[l][2]
      <4> SUFFICES ASSUME NEW k \in DOMAIN b, NEW l \in DOMAIN r, b[k][1] = r[l][1]
                   PROVE  b[k][2] < r[l][2]
        OBVIOUS
      <4>1. k \in DOMAIN q /\ b[k] = q[k] /\ k <= n
        BY <1>5
      <4>2. l + n \in DOMAIN q /\ r[l] = q[l + n] /\ 0 < l /\ l \in Nat
        BY <1>5
      <4>3. k < l + n
        BY <3>3, <4>1, <4>2
      <4> QED
        BY <3>2, <4>1, <4>2, <4>3
    <3> QED
      BY <1>4, <1>5, <1>6, <2>1, <2>3, <3>4, <3>5, <3>6 DEF Streams
  <2> QED
    BY <2>2, <2>3
<1>10. ASSUME NEW c \in Callers PROVE Outstanding(c)'
  <2>1. Outstanding(c)
    BY <1>1
  <2> QED
    BY <1>2, <1>7, <1>8, <2>1 DEF Outstanding
<1> QED
  BY <1>1, <1>2, <1>6, <1>9, <1>10 DEF StreamInv, SameTold, SameReplies

---------------------------------------------------------------------------
\* A batch is committed: its records are newer than all that were.

LEMMA CommitRecords ==
    ASSUME RecordInv, NEW h \in Handles, Commit(h)
    PROVE  StreamInv' /\ CommitsInv' /\ RepliesInv' /\ AnswersInv'
<1> DEFINE b == committer[h].batch
           N == Len(commits)
           C == Append(commits, b)
<1>1. /\ committer \in [Handles -> TaskState] /\ commits \in Seq(Seq(Item)) /\ b \in Seq(Item)
      /\ committer[h].pc = "commit" /\ commits' = C /\ caller' = caller
      /\ \A g \in Handles : Streams(g)
  BY DEF RecordInv, SharedInv, PathTypeOK, TaskState, StreamInv, Commit
<1>2. PICK ok \in BOOLEAN : Replying(h, ok)
  BY DEF Commit
<1>3. /\ committer'[h].pc = "reply" /\ committer'[h].reply = [ok |-> ok, seq |-> N]
      /\ committer'[h].batch = b /\ committer'[h].queue = committer[h].queue
      /\ \A g \in Handles \ {h} : committer'[g] = committer[g]
  BY <1>1, <1>2 DEF Replying, TaskState
<1>4. /\ \A n \in DOMAIN commits : n \in DOMAIN C /\ C[n] = commits[n] /\ n < N + 1
      /\ N + 1 \in DOMAIN C /\ C[N + 1] = b
      /\ \A n \in DOMAIN C : n \in DOMAIN commits \/ n = N + 1
  <2>1. \A n \in DOMAIN commits : n < N + 1
    BY <1>1
  <2> QED
    BY <1>1, <2>1, Appended
<1> HIDE DEF C, N
<1>5. StreamInv'
  <2>1. SameRecords /\ SameRequests
    BY <1>1, <1>3 DEF SameRecords, SameRequests, SameTold, Streams
  <2> QED
    BY <2>1, SameStreams DEF RecordInv
<1>6. AnswersInv'
  BY <1>1 DEF RecordInv, AnswersInv
<1>7. \A c \in Callers : Served(c)' = Served(c) /\ Served(c) \in Nat
  BY <1>1 DEF Served, RecordInv, SharedInv, PathTypeOK, CallerState
<1>8. \A k \in DOMAIN b :
          /\ b[k] = <<b[k][1], b[k][2]>> /\ b[k][1] \in Callers /\ b[k][2] \in Nat
          /\ InBatch(h, b[k])
  BY <1>1 DEF Item, InBatch
<1>9. \A n \in DOMAIN commits : \A k \in DOMAIN commits[n] :
          LET x == commits[n][k] IN
          x = <<x[1], x[2]>> /\ x[1] \in Callers /\ x[2] \in Nat
  BY <1>1 DEF Item
\* What is committed is older than the batch.
<1>10. ASSUME NEW n \in DOMAIN commits, NEW l \in DOMAIN commits[n], NEW k \in DOMAIN b,
              commits[n][l][1] = b[k][1]
       PROVE  commits[n][l][2] < b[k][2]
  <2> DEFINE x == commits[n][l]
             c == b[k][1]
  <2>1. x = <<c, x[2]>> /\ c \in Callers /\ x[2] \in Nat /\ b[k] = <<c, b[k][2]>> /\ b[k][2] \in Nat
    BY <1>8, <1>9, <1>10
  <2>2. caller[c].handle = h /\ Served(c) < b[k][2]
    <3>1. InBatch(h, <<c, b[k][2]>>)
      BY <1>8, <2>1
    <3> QED
      BY <1>1, <2>1, <3>1 DEF Streams
  <2>3. x[2] <= Served(c) \/ \E g \in Handles : committer[g].pc = "reply" /\ InBatch(g, x)
    BY <1>10 DEF RecordInv, CommitsInv
  <2>4. ~ \E g \in Handles : committer[g].pc = "reply" /\ InBatch(g, x)
    <3> SUFFICES ASSUME NEW g \in Handles, committer[g].pc = "reply", InBatch(g, x) PROVE FALSE
      OBVIOUS
    <3>1. InBatch(g, <<c, x[2]>>)
      BY <2>1
    <3>2. caller[c].handle = g
      BY <1>1, <2>1, <3>1 DEF Streams
    <3> QED
      BY <1>1, <2>2, <3>2
  <2> QED
    BY <1>7, <2>1, <2>2, <2>3, <2>4
<1>11. CommitsInv'
  <2>1. ASSUME NEW n \in DOMAIN C PROVE Len(C[n]) <= MAX_BATCH_LEN
    BY <1>1, <1>4 DEF Streams, RecordInv, CommitsInv
  <2>2. ASSUME NEW n \in DOMAIN C, NEW k \in DOMAIN C[n], NEW x, x = C[n][k]
        PROVE  \/ x[2] <= Served(x[1])'
               \/ \E g \in Handles : committer'[g].pc = "reply" /\ InBatch(g, x)'
    <3>1. CASE n = N + 1
      <4>1. C[n] = b
        BY <1>4, <3>1
      <4>2. InBatch(h, x)'
        BY <1>3, <2>2, <4>1 DEF InBatch
      <4> QED
        BY <1>3, <4>1, <4>2
    <3>2. CASE n \in DOMAIN commits
      <4>1. x = commits[n][k] /\ k \in DOMAIN commits[n] /\ x[1] \in Callers
        BY <1>4, <1>9, <2>2, <3>2
      <4>2. x[2] <= Served(x[1]) \/ \E g \in Handles : committer[g].pc = "reply" /\ InBatch(g, x)
        BY <3>2, <4>1 DEF RecordInv, CommitsInv
      <4>3. \A g \in Handles : committer[g].pc = "reply" /\ InBatch(g, x) =>
                committer'[g].pc = "reply" /\ InBatch(g, x)'
        BY <1>1, <1>3 DEF InBatch
      <4> QED
        BY <1>7, <4>1, <4>2, <4>3
    <3> QED
      BY <1>4, <3>1, <3>2
  <2>3. ASSUME NEW m \in DOMAIN C, NEW n \in DOMAIN C, NEW k \in DOMAIN C[m], NEW l \in DOMAIN C[n],
               C[m][k][1] = C[n][l][1], C[m][k][2] <= C[n][l][2]
        PROVE  m < n \/ (m = n /\ k <= l)
    <3>1. CASE m \in DOMAIN commits /\ n \in DOMAIN commits
      BY <1>4, <2>3, <3>1 DEF RecordInv, CommitsInv
    <3>2. CASE m \in DOMAIN commits /\ n = N + 1
      BY <1>4, <3>2
    <3>3. CASE m = N + 1 /\ n \in DOMAIN commits
      <4>1. C[m] = b /\ C[n] = commits[n]
        BY <1>4, <3>3
      <4>2. commits[n][l][2] < b[k][2]
        BY <1>10, <2>3, <3>3, <4>1
      <4>3. commits[n][l][2] \in Nat /\ b[k][2] \in Nat
        BY <1>8, <1>9, <2>3, <3>3, <4>1
      <4> QED
        BY <2>3, <4>1, <4>2, <4>3
    <3>4. CASE m = N + 1 /\ n = N + 1
      <4>1. C[m] = b /\ C[n] = b /\ Ascending(b)
        BY <1>1, <1>4, <3>4 DEF Streams
      <4>2. k \in Nat /\ l \in Nat /\ b[k][2] \in Nat /\ b[l][2] \in Nat
        BY <1>1, <1>8, <2>3, <4>1
      <4>3. ~(l < k)
        BY <2>3, <4>1, <4>2 DEF Ascending
      <4> QED
        BY <3>4, <4>2, <4>3
    <3> QED
      BY <1>4, <3>1, <3>2, <3>3, <3>4
  <2>4. \A n \in DOMAIN C : \A k \in DOMAIN C[n] :
            \/ C[n][k][2] <= Len(caller'[C[n][k][1]].replies)
            \/ \E g \in Handles : /\ committer'[g].pc = "reply"
                                  /\ \E j \in DOMAIN committer'[g].batch :
                                        committer'[g].batch[j] = C[n][k]
    BY <2>2 DEF Served, InBatch
  <2> QED
    BY <1>1, <2>1, <2>3, <2>4 DEF CommitsInv, Served, InBatch
<1>12. RepliesInv'
  <2>1. ASSUME NEW g \in Handles, committer'[g].pc = "reply", committer'[g].reply.ok
        PROVE  /\ committer'[g].reply.seq + 1 \in DOMAIN C
               /\ C[committer'[g].reply.seq + 1] = committer'[g].batch
    <3>1. CASE g = h
      BY <1>3, <1>4, <3>1
    <3>2. CASE g # h
      BY <1>3, <1>4, <2>1, <3>2 DEF RecordInv, RepliesInv
    <3> QED
      BY <3>1, <3>2
  <2>2. ASSUME NEW c \in Callers, NEW i \in 1..Served(c), caller[c].replies[i].ok
        PROVE  LET reply == caller[c].replies[i] IN
               /\ reply.seq + 1 \in DOMAIN C
               /\ \E k \in DOMAIN C[reply.seq + 1] : C[reply.seq + 1][k] = <<c, i>>
    BY <1>4, <2>2 DEF RecordInv, RepliesInv
  <2> QED
    BY <1>1, <1>7, <2>1, <2>2 DEF RepliesInv
<1> QED
  BY <1>5, <1>6, <1>11, <1>12

---------------------------------------------------------------------------
\* The batch is answered.

\* Each request is told once for each of its records in the batch.
LEMMA Told ==
    ASSUME RecordInv, NEW h \in Handles, Reply(h), NEW c \in Callers
    PROVE  LET w == Cardinality(Mine(h, c))
               r == caller'[c] IN
           /\ r.sent = caller[c].sent /\ r.handle = caller[c].handle /\ r.pc = caller[c].pc
           /\ r.answered = caller[c].answered /\ r.seq = caller[c].seq
           /\ Len(r.replies) = Served(c) + w
           /\ \A i \in 1..Served(c) : r.replies[i] = caller[c].replies[i]
           /\ \A i \in Served(c) + 1 .. Served(c) + w : r.replies[i] = committer[h].reply
<1> DEFINE w == Cardinality(Mine(h, c))
           old == caller[c].replies
           told == [k \in 1..w |-> committer[h].reply]
<1>1. /\ caller \in [Callers -> CallerState] /\ committer \in [Handles -> TaskState]
      /\ old \in Seq(Outcome) /\ committer[h].reply \in Outcome
  BY DEF RecordInv, SharedInv, PathTypeOK, CallerState, TaskState
<1>2. w \in Nat
  BY BatchNumbers DEF RecordInv
<1>3. caller'[c] = IF Mine(h, c) = {} THEN caller[c]
                   ELSE [caller[c] EXCEPT !.replies = old \o told]
  BY Zenon DEF Reply, Mine
<1> HIDE DEF w
<1>4. told \in Seq(Outcome) /\ Len(told) = w /\ \A k \in 1..w : told[k] = committer[h].reply
  BY <1>1, <1>2
<1> HIDE DEF told
<1>5. CASE Mine(h, c) = {}
  <2>1. w = 0
    BY <1>5, FS_EmptySet DEF w
  <2> QED
    BY <1>1, <1>3, <1>5, <2>1 DEF Served, w
<1>6. CASE Mine(h, c) # {}
  <2> DEFINE new == old \o told
  <2>1. /\ Len(new) = Len(old) + w
        /\ \A i \in 1..Len(old) + w : new[i] = IF i <= Len(old) THEN old[i] ELSE told[i - Len(old)]
    BY <1>1, <1>4, ConcatProperties
  <2> HIDE DEF new
  <2>2. Len(old) \in Nat
    BY <1>1
  <2>3. /\ \A i \in 1..Len(old) : new[i] = old[i]
        /\ \A i \in Len(old) + 1 .. Len(old) + w : new[i] = committer[h].reply
    BY <1>2, <1>4, <2>1, <2>2
  <2>4. caller'[c] = [caller[c] EXCEPT !.replies = new]
    BY <1>3, <1>6 DEF new
  <2>5. caller[c] \in CallerState
    BY <1>1
  <2>6. /\ caller'[c].replies = new /\ caller'[c].sent = caller[c].sent
        /\ caller'[c].handle = caller[c].handle /\ caller'[c].pc = caller[c].pc
        /\ caller'[c].answered = caller[c].answered /\ caller'[c].seq = caller[c].seq
    BY <2>4, <2>5 DEF CallerState
  <2> QED
    BY <2>1, <2>3, <2>6 DEF Served, w
<1> QED
  BY <1>5, <1>6

LEMMA ReplyRecords ==
    ASSUME RecordInv, NEW h \in Handles, Reply(h)
    PROVE  StreamInv' /\ CommitsInv' /\ RepliesInv' /\ AnswersInv'
<1> DEFINE w(c) == Cardinality(Mine(h, c))
<1>1. /\ committer \in [Handles -> TaskState] /\ committer[h].pc = "reply"
      /\ \A g \in Handles : Streams(g)
      /\ \A c \in Callers : Outstanding(c)
      /\ \A c \in Callers : Served(c) \in Nat /\ caller[c].sent \in Nat /\ caller[c].answered \in Nat
  BY DEF RecordInv, SharedInv, PathTypeOK, CallerState, StreamInv, Served, Reply
<1>2. /\ committer'[h].pc = "recv" /\ committer'[h].batch = <<>>
      /\ committer'[h].queue = committer[h].queue
      /\ \A g \in Handles \ {h} : committer'[g] = committer[g]
  BY <1>1 DEF Reply, TaskState
<1>3. commits' = commits
  BY DEF Reply
<1>4. \A c \in Callers :
          /\ w(c) \in Nat
          /\ \A i \in Nat : InBatch(h, <<c, i>>) <=> Served(c) < i /\ i <= Served(c) + w(c)
  BY BatchNumbers DEF RecordInv
<1>5. \A c \in Callers :
          LET r == caller'[c] IN
          /\ r.sent = caller[c].sent /\ r.handle = caller[c].handle /\ r.pc = caller[c].pc
          /\ r.answered = caller[c].answered /\ r.seq = caller[c].seq
          /\ Len(r.replies) = Served(c) + w(c)
          /\ \A i \in 1..Served(c) : r.replies[i] = caller[c].replies[i]
          /\ \A i \in Served(c) + 1 .. Served(c) + w(c) : r.replies[i] = committer[h].reply
  BY Told
<1> HIDE DEF w
<1>6. \A c \in Callers : Served(c)' = Served(c) + w(c)
  BY <1>5 DEF Served
\* The newest record that is answered, if any is.
<1>7. ASSUME NEW c \in Callers, w(c) # 0
      PROVE  InBatch(h, <<c, Served(c) + w(c)>>) /\ caller[c].handle = h /\ Served(c) + w(c) <= caller[c].sent
  <2>1. Served(c) + w(c) \in Nat /\ Served(c) < Served(c) + w(c)
    BY <1>1, <1>4, <1>7
  <2>2. InBatch(h, <<c, Served(c) + w(c)>>)
    BY <1>4, <2>1
  <2> QED
    BY <1>1, <2>1, <2>2 DEF Streams
<1>8. \A x : ~InBatch(h, x)' /\ (InQueue(h, x)' <=> InQueue(h, x))
  BY <1>2 DEF InBatch, InQueue
<1>9. \A g \in Handles \ {h} : \A x : (InBatch(g, x)' <=> InBatch(g, x)) /\ (InQueue(g, x)' <=> InQueue(g, x))
  BY <1>2 DEF InBatch, InQueue
<1>10. ASSUME NEW g \in Handles PROVE Streams(g)'
  <2>1. ASSUME NEW c \in Callers, NEW i \in Nat, InBatch(g, <<c, i>>)' \/ InQueue(g, <<c, i>>)'
        PROVE  caller'[c].handle = g /\ Served(c)' < i /\ i <= caller'[c].sent
    <3>1. (g # h /\ InBatch(g, <<c, i>>)) \/ InQueue(g, <<c, i>>)
      BY <1>8, <1>9, <2>1
    <3>2. caller[c].handle = g /\ Served(c) < i /\ i <= caller[c].sent
      BY <1>1, <3>1 DEF Streams
    <3>3. Served(c) + w(c) < i
      <4>1. CASE w(c) = 0
        BY <1>1, <3>2, <4>1
      <4>2. CASE w(c) # 0
        <5>1. g = h /\ InBatch(h, <<c, Served(c) + w(c)>>)
          BY <1>7, <3>2, <4>2
        <5>2. InQueue(h, <<c, i>>)
          BY <3>1, <5>1
        <5> QED
          BY <1>1, <5>1, <5>2 DEF Streams, InBatch, InQueue
      <4> QED
        BY <4>1, <4>2
    <3> QED
      BY <1>5, <1>6, <3>2, <3>3
  <2>2. CASE g # h
    BY <1>1, <1>2, <2>1, <2>2 DEF Streams
  <2>3. CASE g = h
    <3>1. Ascending(committer[h].queue)
      BY <1>1 DEF Streams
    <3>2. Len(committer'[h].batch) <= MAX_BATCH_LEN /\ DOMAIN committer'[h].batch = {}
      BY <1>2, CommitterAssumption
    <3> QED
      BY <1>2, <2>1, <2>3, <3>1, <3>2 DEF Streams, Ascending
  <2> QED
    BY <2>2, <2>3
<1>11. ASSUME NEW c \in Callers PROVE Outstanding(c)'
  <2>1. Outstanding(c)
    BY <1>1
  <2>2. Served(c) + w(c) <= caller[c].sent
    <3>1. Served(c) <= caller[c].sent
      BY <2>1 DEF Outstanding
    <3>2. CASE w(c) = 0
      BY <1>1, <3>1, <3>2
    <3>3. CASE w(c) # 0
      BY <1>7, <3>3
    <3> QED
      BY <3>2, <3>3
  <2>3. ASSUME NEW i \in Served(c) + w(c) + 1 .. caller[c].sent
        PROVE  \E g \in Handles : InBatch(g, <<c, i>>)' \/ InQueue(g, <<c, i>>)'
    <3>1. i \in Nat /\ i \in Served(c) + 1 .. caller[c].sent /\ ~(i <= Served(c) + w(c))
      BY <1>1, <1>4
    <3>2. PICK g \in Handles : InBatch(g, <<c, i>>) \/ InQueue(g, <<c, i>>)
      BY <2>1, <3>1 DEF Outstanding
    <3>3. ~InBatch(h, <<c, i>>)
      BY <1>4, <3>1
    <3> QED
      BY <1>8, <1>9, <3>2, <3>3
  <2> QED
    BY <1>5, <1>6, <2>1, <2>2, <2>3 DEF Outstanding
<1>12. ASSUME NEW n \in DOMAIN commits, NEW k \in DOMAIN commits[n], NEW x, x = commits[n][k]
       PROVE  x[2] <= Served(x[1])' \/ \E g \in Handles : committer'[g].pc = "reply" /\ InBatch(g, x)'
  <2>1. x = <<x[1], x[2]>> /\ x[1] \in Callers /\ x[2] \in Nat
    BY <1>12 DEF RecordInv, SharedInv, PathTypeOK, Item
  <2>2. x[2] <= Served(x[1]) \/ \E g \in Handles : committer[g].pc = "reply" /\ InBatch(g, x)
    BY <1>12 DEF RecordInv, CommitsInv
  <2>3. CASE x[2] <= Served(x[1]) \/ InBatch(h, x)
    <3>1. x[2] <= Served(x[1]) + w(x[1])
      BY <1>1, <1>4, <2>1, <2>3
    <3> QED
      BY <1>6, <2>1, <3>1
  <2>4. CASE \E g \in Handles \ {h} : committer[g].pc = "reply" /\ InBatch(g, x)
    BY <1>2, <1>9, <2>4
  <2> QED
    BY <2>2, <2>3, <2>4
<1>13. CommitsInv'
  <2>1. \A n \in DOMAIN commits : \A k \in DOMAIN commits[n] :
            \/ commits[n][k][2] <= Len(caller'[commits[n][k][1]].replies)
            \/ \E g \in Handles : /\ committer'[g].pc = "reply"
                                  /\ \E j \in DOMAIN committer'[g].batch :
                                        committer'[g].batch[j] = commits[n][k]
    BY <1>12 DEF Served, InBatch
  <2> QED
    BY <1>3, <2>1 DEF RecordInv, CommitsInv, Served, InBatch
<1>14. RepliesInv'
  <2>1. ASSUME NEW g \in Handles, committer'[g].pc = "reply", committer'[g].reply.ok
        PROVE  /\ committer'[g].reply.seq + 1 \in DOMAIN commits
               /\ commits[committer'[g].reply.seq + 1] = committer'[g].batch
    BY <1>2, <2>1 DEF RecordInv, RepliesInv
  <2>2. ASSUME NEW c \in Callers, NEW i \in 1..Served(c) + w(c), caller'[c].replies[i].ok
        PROVE  LET reply == caller'[c].replies[i] IN
               /\ reply.seq + 1 \in DOMAIN commits
               /\ \E k \in DOMAIN commits[reply.seq + 1] : commits[reply.seq + 1][k] = <<c, i>>
    <3>1. CASE i <= Served(c)
      <4>1. i \in 1..Served(c) /\ caller'[c].replies[i] = caller[c].replies[i]
        BY <1>1, <1>4, <1>5, <3>1
      <4> QED
        BY <2>2, <4>1 DEF RecordInv, RepliesInv
    <3>2. CASE ~(i <= Served(c))
      <4>1. i \in Served(c) + 1 .. Served(c) + w(c) /\ i \in Nat /\ Served(c) < i /\ i <= Served(c) + w(c)
        BY <1>1, <1>4, <3>2
      <4>2. caller'[c].replies[i] = committer[h].reply
        BY <1>5, <4>1
      <4>3. InBatch(h, <<c, i>>)
        BY <1>4, <4>1
      <4>4. /\ committer[h].reply.seq + 1 \in DOMAIN commits
            /\ commits[committer[h].reply.seq + 1] = committer[h].batch
        BY <1>1, <2>2, <4>2 DEF RecordInv, RepliesInv
      <4> QED
        BY <4>2, <4>3, <4>4 DEF InBatch
    <3> QED
      BY <3>1, <3>2
  <2> QED
    BY <1>3, <1>6, <2>1, <2>2 DEF RepliesInv
<1>15. AnswersInv'
  <2> SUFFICES ASSUME NEW c \in Callers
               PROVE  LET r == caller'[c] IN
                      /\ r.answered <= Len(r.replies)
                      /\ r.pc \in {"await", "ok"} =>
                            /\ \A i \in 1..r.answered : r.replies[i].ok
                            /\ r.answered > 0 => r.seq = r.replies[r.answered].seq
                      /\ r.pc = "ok" => r.answered = Size[c]
                      /\ r.pc \in {"idle", "load", "send"} => r.answered = 0
    BY DEF AnswersInv
  <2>1. caller[c].answered <= Served(c)
    BY DEF RecordInv, AnswersInv, Served
  <2>2. \A i \in 1..caller[c].answered : i \in 1..Served(c)
    BY <1>1, <2>1
  <2>3. \A i \in 1..caller[c].answered : caller'[c].replies[i] = caller[c].replies[i]
    BY <1>5, <2>2
  <2>4. caller[c].answered > 0 => caller[c].answered \in 1..caller[c].answered
    BY <1>1
  <2> DEFINE r == caller'[c]
  <2>5. /\ r.answered = caller[c].answered /\ r.pc = caller[c].pc /\ r.seq = caller[c].seq
        /\ Len(r.replies) = Served(c) + w(c)
    BY <1>5
  <2> HIDE DEF r
  <2>6. r.answered <= Len(r.replies)
    BY <1>1, <1>4, <2>1, <2>5
  <2>7. \A i \in 1..r.answered : r.replies[i] = caller[c].replies[i]
    BY <2>3, <2>5 DEF r
  <2>8. r.pc \in {"await", "ok"} =>
            /\ \A i \in 1..r.answered : caller[c].replies[i].ok
            /\ r.answered > 0 => r.seq = caller[c].replies[r.answered].seq
    BY <2>5 DEF RecordInv, AnswersInv
  <2>9. /\ r.pc = "ok" => r.answered = Size[c]
        /\ r.pc \in {"idle", "load", "send"} => r.answered = 0
    BY <2>5 DEF RecordInv, AnswersInv
  <2>10. r.answered > 0 => r.replies[r.answered] = caller[c].replies[r.answered]
    BY <2>4, <2>5, <2>7
  <2>11. r.pc \in {"await", "ok"} =>
            /\ \A i \in 1..r.answered : r.replies[i].ok
            /\ r.answered > 0 => r.seq = r.replies[r.answered].seq
    BY <2>7, <2>8, <2>10
  <2> QED
    BY <2>6, <2>9, <2>11 DEF r
<1> QED
  BY <1>10, <1>11, <1>13, <1>14, <1>15 DEF StreamInv

---------------------------------------------------------------------------
LEMMA RecordInit == CommitterInit => RecordInv
<1> SUFFICES ASSUME CommitterInit PROVE RecordInv
  OBVIOUS
<1>1. /\ committer = [h \in Handles |-> Unborn] /\ caller = [c \in Callers |-> NotArrived]
      /\ commits = <<>>
  BY DEF CommitterInit
<1>2. \A h \in Handles : Streams(h)
  BY <1>1, CommitterAssumption DEF Streams, Unborn, Ascending, InBatch, InQueue
<1>3. \A c \in Callers : Served(c) = 0 /\ caller[c].sent = 0
  BY <1>1 DEF NotArrived, Served
<1>4. \A c \in Callers : Outstanding(c)
  BY <1>3 DEF Outstanding
<1>5. CommitsInv
  BY <1>1 DEF CommitsInv
<1>6. RepliesInv
  BY <1>1, <1>3 DEF RepliesInv, Unborn
<1>7. AnswersInv
  BY <1>1 DEF AnswersInv, NotArrived
<1> QED
  BY <1>2, <1>4, <1>5, <1>6, <1>7, SharedInit DEF RecordInv, StreamInv

LEMMA RecordNext == RecordInv /\ [CommitterNext]_committerVars => RecordInv'
<1> SUFFICES ASSUME RecordInv, [CommitterNext]_committerVars PROVE RecordInv'
  OBVIOUS
<1> DEFINE Rest4 == StreamInv' /\ CommitsInv' /\ RepliesInv' /\ AnswersInv'
<1>1. SharedInv'
  BY SharedNext DEF RecordInv
<1>2. ASSUME SameRecords, SameRequests, SameReplies, commits' = commits
      PROVE  StreamInv' /\ CommitsInv' /\ RepliesInv'
  BY <1>2, SameStreams, SameCommits, SameAnswers DEF RecordInv, SameRequests
<1>3. ASSUME NEW c \in Callers, Arrive(c) \/ CallerStep(c) \/ Cancel(c) PROVE Rest4
  <2>1. AnswersInv'
    BY <1>3, RequestAnswers
  <2>2. CASE Send(c)
    BY <2>1, <2>2, SendStreams, SameCommits, SameAnswers DEF RecordInv
  <2>3. CASE Arrive(c) \/ Admit(c) \/ Refuse(c) \/ Cancel(c) \/ Await(c)
    BY <1>2, <2>1, <2>3, QuietRequest
  <2> QED
    BY <1>3, <2>2, <2>3 DEF CallerStep
<1>4. ASSUME NEW h \in Handles, CommitterStep(h) PROVE Rest4
  <2>1. CASE Receive(h)
    <3>1. caller' = caller
      BY <2>1 DEF Receive
    <3>2. AnswersInv'
      BY <3>1 DEF RecordInv, AnswersInv
    <3> QED
      BY <2>1, <3>2, ReceiveStreams, SameCommits, SameAnswers DEF RecordInv
  <2>2. CASE Commit(h)
    BY <2>2, CommitRecords
  <2>3. CASE CommitFails(h) \/ End(h)
    <3>1. caller' = caller
      BY <2>3 DEF CommitFails, End
    <3>2. AnswersInv'
      BY <3>1 DEF RecordInv, AnswersInv
    <3> QED
      BY <1>2, <2>3, <3>2, QuietTask
  <2>4. CASE Reply(h)
    BY <2>4, ReplyRecords
  <2> QED
    BY <1>4, <2>1, <2>2, <2>3, <2>4 DEF CommitterStep
<1>5. ASSUME Evict \/ UNCHANGED committerVars PROVE Rest4
  <2>1. caller' = caller
    BY <1>5 DEF Evict, committerVars
  <2>2. AnswersInv'
    BY <2>1 DEF RecordInv, AnswersInv
  <2>3. SameRecords /\ SameRequests /\ SameReplies /\ commits' = commits
    BY <1>5, QuietTask
  <2> QED
    BY <1>2, <2>2, <2>3
<1> HIDE DEF Rest4
<1>6. Rest4
  BY <1>3, <1>4, <1>5 DEF CommitterNext
<1> QED
  BY <1>1, <1>6 DEF RecordInv, Rest4

LEMMA AcknowledgedIsCommitted == RecordInv => AckedOnceInOrder
<1> SUFFICES ASSUME RecordInv, NEW c \in Callers, caller[c].pc = "ok"
             PROVE
        /\ \A k \in 1..Size[c] : \E p \in Places(<<c, k>>) : Places(<<c, k>>) = {p}
        /\ \A k, l \in 1..Size[c] : k < l =>
              \A p \in Places(<<c, k>>), q \in Places(<<c, l>>) : Before(p, q)
        /\ \A p \in Places(<<c, Size[c]>>) : p[1] = caller[c].seq + 1
  BY Zenon DEF AckedOnceInOrder
<1> DEFINE r == caller[c]
           N == Size[c]
           At(k) == r.replies[k].seq + 1
<1>1. /\ N \in Nat \ {0} /\ r.answered = N /\ N <= Served(c) /\ Served(c) \in Nat
      /\ \A i \in 1..N : r.replies[i].ok
      /\ r.seq = r.replies[N].seq
      /\ commits \in Seq(Seq(Item))
  <2>1. N \in Nat \ {0}
    BY CommitterAssumption
  <2>2. Served(c) \in Nat /\ commits \in Seq(Seq(Item))
    BY DEF RecordInv, Served, SharedInv, PathTypeOK, CallerState
  <2>3. /\ r.answered = N /\ N <= Served(c)
        /\ \A i \in 1..r.answered : r.replies[i].ok
        /\ r.answered > 0 => r.seq = r.replies[r.answered].seq
    BY DEF RecordInv, AnswersInv, Served
  <2> HIDE DEF r, N
  <2> QED
    BY <2>1, <2>2, <2>3
<1>2. \A n \in DOMAIN commits : /\ n \in Nat /\ DOMAIN commits[n] = 1..Len(commits[n])
                                /\ Len(commits[n]) \in Nat /\ Len(commits[n]) <= MAX_BATCH_LEN
  <2>1. \A n \in DOMAIN commits : n \in Nat /\ commits[n] \in Seq(Item)
    BY <1>1
  <2> QED
    BY <2>1 DEF RecordInv, CommitsInv
<1>3. \A x : \A p \in Places(x) :
          /\ p \in (DOMAIN commits) \X (1..MAX_BATCH_LEN) /\ p = <<p[1], p[2]>>
          /\ p[1] \in DOMAIN commits /\ p[1] \in Nat /\ p[2] \in Nat
          /\ p[2] \in DOMAIN commits[p[1]] /\ commits[p[1]][p[2]] = x
  BY <1>2, CommitterAssumption DEF Places
\* A record that was answered with success has a place, in the commit it was told.
<1>4. ASSUME NEW k \in 1..N PROVE \E p \in Places(<<c, k>>) : p[1] = At(k)
  <2>1. k \in 1..Served(c) /\ r.replies[k].ok
    BY <1>1
  <2>2. At(k) \in DOMAIN commits /\ \E j \in DOMAIN commits[At(k)] : commits[At(k)][j] = <<c, k>>
    BY <2>1 DEF RecordInv, RepliesInv
  <2> HIDE DEF At
  <2>3. PICK j \in DOMAIN commits[At(k)] : commits[At(k)][j] = <<c, k>>
    BY <2>2
  <2>4. j \in 1..MAX_BATCH_LEN
    BY <1>2, <2>2, CommitterAssumption
  <2>5. <<At(k), j>> \in Places(<<c, k>>)
    BY <2>2, <2>3, <2>4 DEF Places
  <2> QED
    BY <2>5
<1> HIDE DEF At
<1>5. ASSUME NEW k \in 1..N, NEW l \in 1..N, k <= l,
             NEW p \in Places(<<c, k>>), NEW q \in Places(<<c, l>>)
      PROVE  p[1] < q[1] \/ (p[1] = q[1] /\ p[2] <= q[2])
  <2>1. commits[p[1]][p[2]] = <<c, k>> /\ commits[q[1]][q[2]] = <<c, l>>
    BY <1>3
  <2>2. /\ p[1] \in DOMAIN commits /\ q[1] \in DOMAIN commits
        /\ p[2] \in DOMAIN commits[p[1]] /\ q[2] \in DOMAIN commits[q[1]]
    BY <1>3
  <2>3. /\ commits[p[1]][p[2]][1] = commits[q[1]][q[2]][1]
        /\ commits[p[1]][p[2]][2] <= commits[q[1]][q[2]][2]
    BY <1>5, <2>1
  <2> QED
    BY <2>2, <2>3 DEF RecordInv, CommitsInv
<1>6. ASSUME NEW k \in 1..N, NEW p \in Places(<<c, k>>), NEW q \in Places(<<c, k>>) PROVE p = q
  <2>1. k \in Nat /\ k <= k
    BY <1>1
  <2>2. /\ p[1] < q[1] \/ (p[1] = q[1] /\ p[2] <= q[2])
        /\ q[1] < p[1] \/ (q[1] = p[1] /\ q[2] <= p[2])
    BY <1>5, <2>1
  <2>3. p[1] = q[1] /\ p[2] = q[2]
    BY <1>3, <2>2
  <2> QED
    BY <1>3, <2>3
<1>7. ASSUME NEW k \in 1..N PROVE \E p \in Places(<<c, k>>) : Places(<<c, k>>) = {p}
  BY <1>4, <1>6
<1>8. ASSUME NEW k \in 1..N, NEW l \in 1..N, k < l,
             NEW p \in Places(<<c, k>>), NEW q \in Places(<<c, l>>)
      PROVE  Before(p, q)
  <2>1. k <= l /\ <<c, k>> # <<c, l>>
    BY <1>1, <1>8
  <2>2. ~(p[1] = q[1] /\ p[2] = q[2])
    BY <1>3, <2>1
  <2>3. p[1] < q[1] \/ (p[1] = q[1] /\ p[2] <= q[2])
    BY <1>5, <2>1
  <2> QED
    BY <1>3, <2>2, <2>3 DEF Before
<1>9. ASSUME NEW p \in Places(<<c, N>>) PROVE p[1] = r.seq + 1
  <2>1. N \in 1..N
    BY <1>1
  <2>2. PICK q \in Places(<<c, N>>) : q[1] = At(N)
    BY <1>4, <2>1
  <2>3. p = q
    BY <1>6, <2>1
  <2> QED
    BY <1>1, <2>2, <2>3 DEF At
<1> QED
  BY <1>7, <1>8, <1>9

\* A request that is told of success is in the namespace: each of its records
\* exactly once, in its order, the last in the commit whose number it is told,
\* whatever its records were coalesced with or split over (write_all, and the
\* replies of the committer's loop).
THEOREM RecordsOnceInOrder == CommitterSpec => []AckedOnceInOrder
  BY RecordInit, RecordNext, AcknowledgedIsCommitted, PTL DEF CommitterSpec

---------------------------------------------------------------------------
\* What becomes of the settings a request asks for.

\* The settings that a committed batch was carried out with are in force.
KeptInv == \A n \in DOMAIN commits : Holds(Kept(commits[n]))

\* Over data a commit changes no setting that there is.
LEMMA CommitKeepsSettings ==
    ASSUME NEW h \in Handles, Commit(h), commits # <<>>, NEW s \in DOMAIN settings
    PROVE  s \in DOMAIN settings' /\ settings'[s] = settings[s]
<1> DEFINE config == Kept(committer[h].batch)
<1>1. Agrees(config) /\ Adopt(config)
  BY DEF Commit
<1>2. s \in DOMAIN config => config[s] = settings[s]
  BY <1>1 DEF Agrees
<1> HIDE DEF config
<1> QED
  BY <1>1, <1>2 DEF Adopt

LEMMA CommitKeeps ==
    ASSUME PathTypeOK, KeptInv, NEW h \in Handles, Commit(h)
    PROVE  KeptInv'
<1> DEFINE batch == committer[h].batch
           config == Kept(batch)
<1>1. commits \in Seq(Seq(Item)) /\ commits' = Append(commits, batch) /\ Adopt(config)
  BY DEF Commit, PathTypeOK
<1>2. batch \in Seq(Item)
  BY DEF PathTypeOK, TaskState
<1>3. ASSUME NEW n \in DOMAIN commits'
      PROVE  \/ n \in DOMAIN commits /\ commits'[n] = commits[n] /\ commits # <<>>
             \/ commits'[n] = batch
  BY <1>1, <1>2
<1>4. ASSUME NEW n \in DOMAIN commits, commits # <<>>, NEW s \in DOMAIN Kept(commits[n])
      PROVE  s \in DOMAIN settings' /\ settings'[s] = Kept(commits[n])[s]
  <2>1. s \in DOMAIN settings /\ settings[s] = Kept(commits[n])[s]
    BY DEF KeptInv, Holds
  <2> QED
    BY <1>4, <2>1, CommitKeepsSettings
<1> HIDE DEF config
<1>5. ASSUME NEW s \in DOMAIN config PROVE s \in DOMAIN settings' /\ settings'[s] = config[s]
  BY <1>1 DEF Adopt
<1> USE DEF config
<1> HIDE DEF batch
<1>6. ASSUME NEW n \in DOMAIN commits', NEW s \in DOMAIN Kept(commits'[n])
      PROVE  s \in DOMAIN settings' /\ settings'[s] = Kept(commits'[n])[s]
  <2>1. CASE n \in DOMAIN commits /\ commits'[n] = commits[n] /\ commits # <<>>
    BY <1>4, <2>1
  <2>2. CASE commits'[n] = batch
    BY <1>5, <2>2
  <2> QED
    BY <1>3, <2>1, <2>2
<1> QED
  BY <1>6 DEF KeptInv, Holds

LEMMA KeptNext == PathTypeOK /\ KeptInv /\ [CommitterNext]_committerVars => KeptInv'
<1> SUFFICES ASSUME PathTypeOK, KeptInv, [CommitterNext]_committerVars PROVE KeptInv'
  OBVIOUS
<1>1. CASE \E h \in Handles : Commit(h)
  BY <1>1, CommitKeeps
<1>2. CASE UNCHANGED <<commits, settings>>
  BY <1>2 DEF KeptInv, Holds
<1>3. ASSUME NEW h \in Handles, CommitterStep(h), ~Commit(h) PROVE UNCHANGED <<commits, settings>>
  BY <1>3 DEF CommitterStep, Receive, CommitFails, Reply, End
<1>4. ASSUME NEW c \in Callers, Arrive(c) \/ CallerStep(c) \/ Cancel(c)
      PROVE  UNCHANGED <<commits, settings>>
  BY <1>4 DEF Arrive, CallerStep, Admit, Refuse, Send, Await, Cancel
<1>5. Evict => UNCHANGED <<commits, settings>>
  BY DEF Evict
<1> QED
  BY <1>1, <1>2, <1>3, <1>4, <1>5 DEF CommitterNext, committerVars

\* A batch is carried out with the first settings in it: those of a record are
\* those, or others are asked for before it.
LEMMA KeptOrOvershadowed ==
    ASSUME RecordInv, NEW c \in Callers, NEW i, NEW p \in Places(<<c, i>>), ~Overshadowed(p),
           DOMAIN Config[c] # {}
    PROVE  Kept(commits[p[1]]) = Config[c]
<1> DEFINE batch == commits[p[1]]
           carrying == {k \in DOMAIN batch : DOMAIN Config[batch[k][1]] # {}}
<1>1. /\ p[1] \in DOMAIN commits /\ p[2] \in Nat \ {0}
      /\ p[2] \in DOMAIN batch /\ batch[p[2]] = <<c, i>>
  BY CommitterAssumption DEF Places
<1>2. batch \in Seq(Item)
  BY <1>1 DEF RecordInv, SharedInv, PathTypeOK
<1>3. carrying \subseteq Nat \ {0} /\ p[2] \in carrying /\ carrying \in SUBSET Nat
  <2>1. p[2] \in carrying
    BY <1>1
  <2>2. DOMAIN batch = 1..Len(batch) /\ Len(batch) \in Nat
    BY <1>2
  <2>3. carrying \subseteq DOMAIN batch
    OBVIOUS
  <2> HIDE DEF carrying
  <2> QED
    BY <2>1, <2>2, <2>3
<1>4. PICK m \in carrying : \A n \in carrying : m <= n
  BY <1>3, LeastNumber
<1> DEFINE first == CHOOSE k \in carrying : \A j \in carrying : k <= j
<1>5. first \in carrying /\ \A j \in carrying : first <= j
  BY <1>4
<1>6. Kept(batch) = Config[batch[first][1]]
  BY <1>3 DEF Kept
<1>7. first \in DOMAIN batch /\ DOMAIN Config[batch[first][1]] # {}
  BY <1>5
<1> HIDE DEF carrying, first
<1>8. first \in Nat \ {0} /\ first <= p[2]
  BY <1>3, <1>5
<1>9. CASE first = p[2]
  BY <1>1, <1>6, <1>9
<1>10. CASE first # p[2]
  <2>1. first \in 1..p[2] - 1
    BY <1>1, <1>8, <1>10
  <2>2. Config[batch[first][1]] = Config[batch[p[2]][1]]
    BY <1>7, <2>1 DEF Overshadowed
  <2> QED
    BY <1>1, <1>6, <2>2
<1> QED
  BY <1>9, <1>10

LEMMA SettingsOfAcknowledged == RecordInv /\ KeptInv => AckedSettingsHold
<1> SUFFICES ASSUME RecordInv, KeptInv, NEW c \in Callers, caller[c].pc = "ok",
                    NEW i \in 1..Size[c],
                    \A p \in Places(<<c, i>>) : ~Overshadowed(p)
             PROVE  Holds(Config[c])
  BY DEF AckedSettingsHold
<1>1. PICK p \in Places(<<c, i>>) : TRUE
  BY AcknowledgedIsCommitted DEF AckedOnceInOrder
<1>2. p[1] \in DOMAIN commits
  BY DEF Places
<1>3. CASE DOMAIN Config[c] = {}
  BY <1>3 DEF Holds
<1>4. CASE DOMAIN Config[c] # {}
  <2>1. Kept(commits[p[1]]) = Config[c]
    BY <1>4, KeptOrOvershadowed
  <2> QED
    BY <1>2, <2>1 DEF KeptInv
<1> QED
  BY <1>3, <1>4

\* A request that is told of success has the settings it asked for, for good,
\* unless each of its records was coalesced behind a request that asks for others:
\* however requests are batched, split, refused and retried with other settings
\* (the choice of one configuration in GroupCommit's loop, and what set_metric
\* and declare let through).
THEOREM SettingsOfAckedHold == CommitterSpec => []AckedSettingsHold
<1>1. CommitterInit => KeptInv
  BY DEF CommitterInit, KeptInv
<1>2. RecordInv => PathTypeOK
  BY DEF RecordInv, SharedInv
<1> QED
  BY <1>1, <1>2, RecordInit, RecordNext, KeptNext, SettingsOfAcknowledged, PTL DEF CommitterSpec

=============================================================================
