----------------------------- MODULE Committer -----------------------------
(***************************************************************************)
(* The write path of one namespace in one process: the registry of         *)
(* resident handles (server.rs: resident, evict_idle), the write handler,  *)
(* and the group committer (store.rs: GroupCommit), which coalesces the    *)
(* records of many requests into one commit and answers each of them.      *)
(*                                                                         *)
(* A commit is one step here, with the outcomes that module Namespace      *)
(* gives it: whole, not at all, or whole and answered with an error.  Of   *)
(* the schema there are the metric and the declarations that a request may *)
(* carry.  Other processes are left out, and so is destroying the          *)
(* namespace, whose `forget` drops a handle that requests may still hold.  *)
(***************************************************************************)
EXTENDS Naturals, Sequences, FiniteSets

CONSTANTS
    Callers,        \* requests to write
    Size,           \* how many records each has; without any it is refused before
    Config,         \* the settings each carries, as a partial function
    Handles,        \* what `resident` may create
    Settings,       \* names of settings,
    DefaultSettings,    \* ... those a new namespace has, with their values,
    FirstWriteOnly,     \* ... and those of these that are fixed by its data
    NoHandle,
    MAX_BATCH_LEN,
    MaxFaults       \* bound on storage errors and cancelled requests

ASSUME CommitterAssumption ==
    /\ Size \in [Callers -> Nat \ {0}]
    /\ DOMAIN Config = Callers
    /\ \A c \in Callers : DOMAIN Config[c] \subseteq Settings
    /\ DOMAIN DefaultSettings = FirstWriteOnly
    /\ FirstWriteOnly \subseteq Settings
    /\ NoHandle \notin Handles
    /\ MAX_BATCH_LEN \in Nat \ {0}
    /\ MaxFaults \in Nat

VARIABLES
    registry,   \* the resident handle of the namespace
    committer,  \* the task of each handle, with its queue
    caller,     \* the requests
    commits,    \* the batches committed so far, in order
    settings,   \* the settings in the manifest
    faults      \* how many there were

committerVars == <<registry, committer, caller, commits, settings, faults>>

Unborn == [pc |-> "unborn", queue |-> <<>>, batch |-> <<>>,
           reply |-> [ok |-> FALSE, seq |-> 0]]

NotArrived == [pc |-> "idle", handle |-> NoHandle, sent |-> 0,
               replies |-> <<>>, answered |-> 0, seq |-> 0]

CommitterInit ==
    /\ registry = NoHandle
    /\ committer = [h \in Handles |-> Unborn]
    /\ caller = [c \in Callers |-> NotArrived]
    /\ commits = <<>>
    /\ settings = DefaultSettings
    /\ faults = 0

---------------------------------------------------------------------------
\* The registry.

\* The requests that have a clone of the handle: its strong count, less one.
Holders(h) ==
    {c \in Callers : caller[c].pc \in {"load", "send", "await"} /\ caller[c].handle = h}

\* AppState::resident, under the lock of the registry: the handle, or a new one.
Arrive(c) ==
    /\ caller[c].pc = "idle"
    /\ \/ /\ registry # NoHandle
          /\ UNCHANGED <<registry, committer>>
       \/ /\ registry = NoHandle
          /\ \E h \in Handles :
                /\ committer[h].pc = "unborn"
                /\ registry' = h
                /\ committer' = [committer EXCEPT ![h].pc = "recv"]
    /\ caller' = [caller EXCEPT ![c].pc = "load", ![c].handle = registry']
    /\ UNCHANGED <<commits, settings, faults>>

\* (Variant: no test of the strong count.)
NobodyAsked(h) == TRUE

Unheld(h) == Holders(h) = {}

\* AppState::evict_idle, for a handle that was not used for long enough.
Evict ==
    /\ registry # NoHandle
    /\ Unheld(registry)
    /\ registry' = NoHandle
    /\ UNCHANGED <<committer, caller, commits, settings, faults>>

---------------------------------------------------------------------------
\* A request: the write handlers, and write_all.

\* The load for backpressure, and the writes it lets through.
Admit(c) ==
    /\ caller[c].pc = "load"
    /\ caller' = [caller EXCEPT ![c].pc = "send"]
    /\ UNCHANGED <<registry, committer, commits, settings, faults>>

\* Refused for backpressure, or the load failed.
Refuse(c) ==
    /\ caller[c].pc = "load"
    /\ caller' = [caller EXCEPT ![c].pc = "error"]
    /\ UNCHANGED <<registry, committer, commits, settings, faults>>

\* The records are sent one by one, and the committer may run in between.  A
\* record is known by its request and its place in it.
Send(c) ==
    LET r == caller[c] IN
    /\ r.pc = "send"
    /\ committer' = [committer EXCEPT
            ![r.handle].queue = Append(@, <<c, r.sent + 1>>)]
    /\ caller' = [caller EXCEPT ![c] =
            [r EXCEPT !.sent = @ + 1,
                      !.pc = IF r.sent + 1 = Size[c] THEN "await" ELSE "send"]]
    /\ UNCHANGED <<registry, commits, settings, faults>>

\* The answers are awaited in order, up to the first error; the number
\* returned is that of the last.
Await(c) ==
    LET r == caller[c]
        reply == r.replies[r.answered + 1] IN
    /\ r.pc = "await"
    /\ Len(r.replies) > r.answered
    /\ caller' = [caller EXCEPT ![c] =
            [r EXCEPT
                !.pc = IF ~reply.ok THEN "error"
                       ELSE IF r.answered + 1 = Size[c] THEN "ok" ELSE "await",
                !.answered = r.answered + 1,
                !.seq = IF reply.ok THEN reply.seq ELSE r.seq]]
    /\ UNCHANGED <<registry, committer, commits, settings, faults>>

\* The client goes away, and the handler's future is dropped where it awaits.
\* What it sent stays in the queue.
Cancel(c) ==
    /\ faults < MaxFaults
    /\ faults' = faults + 1
    /\ caller[c].pc \in {"load", "await"}
    /\ caller' = [caller EXCEPT ![c].pc = "gone"]
    /\ UNCHANGED <<registry, committer, commits, settings>>

---------------------------------------------------------------------------
\* The committer's loop.

Smaller(m, n) == IF m < n THEN m ELSE n

\* (Variant: the request that did not fit is lost.)
RestWithoutOne(queue, n) == SubSeq(queue, n + 2, Len(queue))

Rest(queue, n) == SubSeq(queue, n + 1, Len(queue))

\* Wait for a record, and drain what else is queued, up to MAX_BATCH_LEN
\* records or earlier: up to MAX_BATCH_BYTES, whatever the records weigh.
Receive(h) ==
    LET t == committer[h] IN
    /\ t.pc = "recv"
    /\ \E n \in 1..Smaller(Len(t.queue), MAX_BATCH_LEN) :
          committer' = [committer EXCEPT ![h] =
              [t EXCEPT !.pc = "commit", !.batch = SubSeq(t.queue, 1, n),
                        !.queue = Rest(t.queue, n)]]
    /\ UNCHANGED <<registry, caller, commits, settings, faults>>

\* (Variant: the configuration of the first record, empty or not.)
FirstOf(batch) == Config[batch[1][1]]

\* The first configuration of the batch that is not empty.
Kept(batch) ==
    LET carrying == {k \in DOMAIN batch : DOMAIN Config[batch[k][1]] # {}}
    IN  IF carrying = {} THEN [s \in {} |-> 0]
        ELSE Config[batch[CHOOSE k \in carrying : \A j \in carrying : k <= j][1]]

\* (Variant: settings are overwritten.)
AlwaysAgrees(config) == TRUE

\* set_metric, declare and the like: what a namespace with data was given
\* stays; a setting it does not have yet is adopted.
Agrees(config) ==
    \A s \in DOMAIN config \cap DOMAIN settings :
        \/ config[s] = settings[s]
        \/ s \in FirstWriteOnly /\ commits = <<>>

Adopt(config) ==
    settings' = [s \in DOMAIN settings \cup DOMAIN config |->
                    IF s \in DOMAIN config THEN config[s] ELSE settings[s]]

Replying(h, ok) ==
    committer' = [committer EXCEPT
        ![h].pc = "reply", ![h].reply = [ok |-> ok, seq |-> Len(commits)]]

\* commit_records carries out the batch.
Commit(h) ==
    LET t == committer[h] IN
    /\ t.pc = "commit"
    /\ Agrees(Kept(t.batch))
    /\ commits' = Append(commits, t.batch)
    /\ Adopt(Kept(t.batch))
    /\ \/ Replying(h, TRUE) /\ UNCHANGED faults
       \/ Replying(h, FALSE) /\ faults < MaxFaults /\ faults' = faults + 1
    /\ UNCHANGED <<registry, caller>>

\* (Variant: a failure is reported as a success.)
Hushed(h) == Replying(h, TRUE)

Failed(h) == Replying(h, FALSE)

\* commit_records refuses the settings, or gives up.
CommitFails(h) ==
    /\ committer[h].pc = "commit"
    /\ Failed(h)
    /\ \/ ~Agrees(Kept(committer[h].batch)) /\ UNCHANGED faults
       \/ faults < MaxFaults /\ faults' = faults + 1
    /\ UNCHANGED <<registry, caller, commits, settings>>

\* Everyone in the batch is told the same, at once.
Reply(h) ==
    LET t == committer[h]
        Mine(c) == {k \in DOMAIN t.batch : t.batch[k][1] = c} IN
    /\ t.pc = "reply"
    /\ caller' = [c \in Callers |->
            IF Mine(c) = {} THEN caller[c]
            ELSE [caller[c] EXCEPT !.replies = @ \o
                     [k \in 1..Cardinality(Mine(c)) |-> t.reply]]]
    /\ committer' = [committer EXCEPT ![h].pc = "recv", ![h].batch = <<>>]
    /\ UNCHANGED <<registry, commits, settings, faults>>

\* (Variant: the task keeps a sender of its own.)
NeverClosed(h) == FALSE

\* The handle is the only sender, so recv() returns None when it is dropped.
Closed(h) == registry # h /\ Holders(h) = {}

End(h) ==
    /\ committer[h].pc = "recv"
    /\ committer[h].queue = <<>>
    /\ Closed(h)
    /\ committer' = [committer EXCEPT ![h].pc = "ended"]
    /\ UNCHANGED <<registry, caller, commits, settings, faults>>

CommitterStep(h) == Receive(h) \/ Commit(h) \/ CommitFails(h) \/ Reply(h) \/ End(h)

CallerStep(c) == Admit(c) \/ Refuse(c) \/ Send(c) \/ Await(c)

CommitterNext ==
    \/ \E c \in Callers : Arrive(c) \/ CallerStep(c) \/ Cancel(c)
    \/ \E h \in Handles : CommitterStep(h)
    \/ Evict

\* Tasks that can go on do; nothing is assumed of arrivals, cancellations and
\* evictions.
CommitterFairness ==
    /\ \A c \in Callers : WF_committerVars(CallerStep(c))
    /\ \A h \in Handles : WF_committerVars(CommitterStep(h))

CommitterSpec == CommitterInit /\ [][CommitterNext]_committerVars /\ CommitterFairness

---------------------------------------------------------------------------
\* Properties.

\* Where a record was committed: the commit, and its place in it.
Places(item) ==
    {p \in (DOMAIN commits) \X (1..MAX_BATCH_LEN) :
        p[2] \in DOMAIN commits[p[1]] /\ commits[p[1]][p[2]] = item}

Before(p, q) == p[1] < q[1] \/ (p[1] = q[1] /\ p[2] < q[2])

\* A request that is answered with success is in the namespace: each record
\* once, in the order of the request, the last in the commit whose number it is
\* told -- whatever it was coalesced with or split over (write_all, and the
\* replies of the loop).
AckedOnceInOrder ==
    \A c \in Callers : caller[c].pc = "ok" =>
        /\ \A k \in 1..Size[c] : \E p \in Places(<<c, k>>) : Places(<<c, k>>) = {p}
        /\ \A k, l \in 1..Size[c] : k < l =>
              \A p \in Places(<<c, k>>), q \in Places(<<c, l>>) : Before(p, q)
        /\ \A p \in Places(<<c, Size[c]>>) : p[1] = caller[c].seq + 1

\* All requests in progress use the same committer, although handles are
\* dropped and made again (evict_idle: "The `strong_count` test is what keeps
\* the one-committer-per-namespace invariant").
HoldersShareTheCommitter ==
    \A c \in Callers :
        caller[c].pc \in {"load", "send", "await"} => caller[c].handle = registry

\* The namespace has these settings.
Holds(config) ==
    \A s \in DOMAIN config : s \in DOMAIN settings /\ settings[s] = config[s]

\* The record in this place came into its commit behind one of a request that
\* asks for settings, and for others.
Overshadowed(p) ==
    \E k \in 1..p[2] - 1 :
        LET ahead == commits[p[1]][k][1]
            own == commits[p[1]][p[2]][1]
        IN  DOMAIN Config[ahead] # {} /\ Config[ahead] # Config[own]

\* A request that was answered with success has the settings it asked for, now
\* and for good, with one exception: each of its records was coalesced behind a
\* request that asks for other settings, and then its own were neither applied
\* nor refused (GroupCommit's loop, which hands the first configuration of a
\* batch to commit_records; "the rest agree by construction").  A namespace that
\* compaction emptied again is not modelled here.
AckedSettingsHold ==
    \A c \in Callers : caller[c].pc = "ok" =>
        \/ Holds(Config[c])
        \/ \A i \in 1..Size[c] : \E p \in Places(<<c, i>>) : Overshadowed(p)

\* A request that was let in is answered, unless its client went away.
EveryCallerAnswered ==
    \A c \in Callers : caller[c].pc = "send" ~> caller[c].pc \in {"ok", "error", "gone"}

\* The task of a handle nobody has ends (evict_idle: "the committer's `recv()`
\* then returns `None` and the task ends").
DroppedCommittersEnd ==
    \A h \in Handles :
        committer[h].pc # "unborn" /\ registry # h /\ Holders(h) = {}
            ~> committer[h].pc = "ended"

=============================================================================
