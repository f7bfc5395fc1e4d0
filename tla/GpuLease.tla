------------------------------ MODULE GpuLease ------------------------------
(***************************************************************************)
(* The GPU lease (crates/llm/src/gpu_lease.rs): the LeaseBook in memory,   *)
(* the GpuLease node that outlives the process, and the notes stored       *)
(* meanwhile (crates/knowledge/src/knowledge/store.rs) with the backfills  *)
(* that every release starts.                                              *)
(*                                                                         *)
(* One action is one critical section on the book, or one database call.   *)
(* Time is kept as the hours a lease has left, so that the model is finite *)
(* although its behaviours are not.                                        *)
(***************************************************************************)
EXTENDS Integers, FiniteSets

CONSTANTS
    Holder,   \* who may lease the GPU
    Nobody,   \* no holder
    Hours,    \* the ttl_hours of every acquire
    Note,     \* the notes that may be stored
    Task,     \* the backfills that may run at a time
    Budget    \* Budget[o]: how often o may happen (bounds the model)

Ops == {"acquire", "release", "force", "crash", "fault"}

ASSUME LeaseAssumption ==
    /\ Nobody \notin Holder
    /\ Hours \in Nat \ {0}
    /\ Budget \in [Ops -> Nat]

VARIABLES
    up,          \* whether the process runs and init has set the book
    book,        \* LeaseBook.lease
    node,        \* the GpuLease node in Neo4j
    persisting,  \* per holder: the lease its acquire is about to persist
    deletes,     \* how many spawned DELETEs have not run yet
    note,        \* per note: how far store_note is with it
    fill,        \* per backfill task: off, about to read, or the rows it still has
    granted,     \* history: the hours each holder has been told it still has
    overtaken,   \* history: a DELETE or a MERGE came after the book had changed
    straddled,   \* history: notes being stored or embedded while a lease began or ended
    used         \* how much of Budget has been spent

storing == <<note, straddled>>
leasing == <<book, node, persisting, deletes, granted, overtaken>>
vars == <<up, book, node, persisting, deletes, note, fill, granted,
          overtaken, straddled, used>>

Lease == [holder : Holder \cup {Nobody}, left : 0..Hours]
NoLease == [holder |-> Nobody, left |-> 0]
Live(l) == l.left > 0

\* A note without a vector is "bare" until its mark is written, one with a vector
\* "embedded" until the lease is asked, "marking" if it must be marked; unmarked, its
\* entities are still to be extracted ("extract"); "lost" is a note without a vector
\* or entities that no backfill will find.
NotePc == {"absent", "bare", "embedded", "marking", "extract", "pending", "lost", "done"}
MidStore == {n \in Note : note[n] \in {"bare", "embedded", "marking", "extract"}}

Fill == [pc : {"off", "read", "rows"}, rows : SUBSET Note]
NoFill == [pc |-> "off", rows |-> {}]

TypeOK ==
    /\ up \in BOOLEAN
    /\ book \in Lease /\ node \in Lease
    /\ persisting \in [Holder -> Lease]
    /\ deletes \in Nat
    /\ note \in [Note -> NotePc]
    /\ fill \in [Task -> Fill]
    /\ granted \in [Holder -> 0..Hours]
    /\ overtaken \in BOOLEAN
    /\ straddled \subseteq Note
    /\ used \in [Ops -> Nat]

Spend(o) == /\ used[o] < Budget[o]
            /\ used' = [used EXCEPT ![o] = @ + 1]

-----------------------------------------------------------------------------
\* The process has not booted yet: Boot is init.
Init ==
    /\ up = FALSE
    /\ book = NoLease /\ node = NoLease
    /\ persisting = [h \in Holder |-> NoLease]
    /\ deletes = 0
    /\ note = [n \in Note |-> "absent"]
    /\ fill = [t \in Task |-> NoFill]
    /\ granted = [h \in Holder |-> 0]
    /\ overtaken = FALSE
    /\ straddled = {}
    /\ used = [o \in Ops |-> 0]

\* LeaseBook::current.
Current(l) == IF Live(l) THEN l ELSE NoLease

\* after_release: the node's DELETE is spawned, and the hook spawns a backfill.
AfterReleaseQuietly ==                                                \* mutant
    /\ deletes' = deletes + 1
    /\ UNCHANGED fill
AfterRelease ==
    /\ deletes' = deletes + 1
    /\ \E t \in Task : /\ fill[t].pc = "off"
                       /\ fill' = [fill EXCEPT ![t] = [pc |-> "read", rows |-> {}]]

\* acquire: the book is written under the lock, the node after it.
OpenToAll(h) == TRUE                                                  \* mutant
OpenTo(h) == Current(book).holder \in {Nobody, h}
Acquire(h) ==
    /\ up
    /\ persisting[h] = NoLease
    /\ OpenTo(h)
    /\ Spend("acquire")
    /\ book' = [holder |-> h, left |-> Hours]
    /\ persisting' = [persisting EXCEPT ![h] = book']
    /\ granted' = [granted EXCEPT ![h] = Hours]
    /\ straddled' = straddled \cup MidStore
    /\ UNCHANGED <<up, node, deletes, note, fill, overtaken>>

\* persist, which may fail.
NothingPersisted(h) == UNCHANGED node                                 \* mutant
Merged(h) == node' = persisting[h]
Persist(h) ==
    /\ persisting[h] # NoLease
    /\ \/ Merged(h) /\ UNCHANGED used
       \/ Spend("fault") /\ UNCHANGED node
    /\ overtaken' = (overtaken \/ persisting[h] # book)
    /\ persisting' = [persisting EXCEPT ![h] = NoLease]
    /\ UNCHANGED <<up, book, deletes, fill, granted, storing>>

\* release by its holder, or by anyone with force; nothing held is released too.
GiveBack ==
    /\ book' = NoLease
    /\ granted' = [h \in Holder |-> IF h = Current(book).holder THEN 0 ELSE granted[h]]
    /\ AfterRelease
    /\ straddled' = straddled \cup MidStore
    /\ UNCHANGED <<up, node, persisting, note, overtaken>>

Release(h) ==
    /\ up
    /\ persisting[h] = NoLease
    /\ OpenTo(h)
    /\ Spend("release")
    /\ GiveBack

ForceRelease ==
    /\ up
    /\ Live(book)
    /\ Spend("force")
    /\ GiveBack

\* held: the first check after a lease has run out clears it.
RanOutAsPersisted == book # NoLease /\ ~Live(book) /\ node.holder = book.holder \* mutant
RanOut == book # NoLease /\ ~Live(book)
HeldExpires ==
    /\ up
    /\ RanOut
    /\ book' = NoLease
    /\ AfterRelease
    /\ straddled' = straddled \cup MidStore
    /\ UNCHANGED <<up, node, persisting, note, granted, overtaken, used>>

\* A spawned DELETE runs, or fails.
RunDelete ==
    /\ deletes > 0
    /\ deletes' = deletes - 1
    /\ \/ /\ node' = NoLease
          /\ overtaken' = (overtaken \/ Live(book))
          /\ UNCHANGED used
       \/ Spend("fault") /\ UNCHANGED <<node, overtaken>>
    /\ UNCHANGED <<up, book, persisting, fill, granted, storing>>

\* An hour passes.
Later(l) == [l EXCEPT !.left = IF @ = 0 THEN 0 ELSE @ - 1]
Tick ==
    /\ Live(book) \/ Live(node) \/ \E h \in Holder : granted[h] > 0
    /\ book' = Later(book) /\ node' = Later(node)
    /\ persisting' = [h \in Holder |-> Later(persisting[h])]
    /\ granted' = [h \in Holder |-> IF granted[h] = 0 THEN 0 ELSE granted[h] - 1]
    /\ UNCHANGED <<up, deletes, fill, overtaken, storing, used>>

-----------------------------------------------------------------------------
(* store_note and the backfill *)

\* The note is embedded, unless a lease refuses it, and created.
StoreNote(n) ==
    /\ up
    /\ note[n] = "absent"
    /\ note' = [note EXCEPT ![n] = IF Live(book) THEN "bare" ELSE "embedded"]
    /\ UNCHANGED <<up, leasing, fill, straddled, used>>

\* Is a lease held now?  Asked before the mark, and before the entity extraction.
AskLease(n) ==
    /\ note[n] \in {"embedded", "extract"}
    /\ note' = [note EXCEPT ![n] =
          CASE @ = "embedded" -> IF Live(book) THEN "marking" ELSE "extract"
            [] @ = "extract"  -> IF Live(book) THEN "lost" ELSE "done"]
    /\ UNCHANGED <<up, leasing, fill, straddled, used>>

\* The SET of embedding_pending: its failure is ignored.
MarkPending(n) ==
    /\ note[n] \in {"bare", "marking"}
    /\ note' = [note EXCEPT ![n] = "pending"]
    /\ UNCHANGED <<up, leasing, fill, straddled, used>>

\* backfill_pending_embeddings reads the pending notes, ...
FillReads(t) ==
    /\ fill[t].pc = "read"
    /\ fill' = [fill EXCEPT ![t] =
          [pc |-> "rows", rows |-> {n \in Note : note[n] = "pending"}]]
    /\ UNCHANGED <<up, leasing, storing, used>>

\* ... then embeds one after the other, drops its mark and has its entities extracted,
\* and stops when the GPU is leased again.
FillEmbeds(t) ==
    /\ fill[t].pc = "rows"
    /\ \/ /\ Live(book) \/ fill[t].rows = {}
          /\ fill' = [fill EXCEPT ![t] = NoFill]
          /\ UNCHANGED note
       \/ /\ ~Live(book)
          /\ \E n \in fill[t].rows :
                /\ note' = [note EXCEPT ![n] = "extract"]
                /\ fill' = [fill EXCEPT ![t].rows = @ \ {n}]
    /\ UNCHANGED <<up, leasing, straddled, used>>

-----------------------------------------------------------------------------
(* Crash, and init at the next start *)

Crash ==
    /\ up
    /\ Spend("crash")
    /\ up' = FALSE
    /\ book' = NoLease
    /\ persisting' = [h \in Holder |-> NoLease]
    /\ granted' = [h \in Holder |-> IF persisting[h] = NoLease THEN granted[h] ELSE 0]
    /\ deletes' = 0
    /\ note' = [n \in Note |-> IF n \in MidStore THEN "lost" ELSE note[n]]
    /\ straddled' = straddled \cup MidStore
    /\ fill' = [t \in Task |-> NoFill]
    /\ UNCHANGED <<node, overtaken>>

Boot ==
    /\ ~up
    /\ up' = TRUE
    /\ book' = Current(node)
    /\ \/ Live(node) /\ UNCHANGED <<deletes, fill>>
       \/ ~Live(node) /\ AfterRelease
    /\ UNCHANGED <<node, persisting, granted, overtaken, storing, used>>

-----------------------------------------------------------------------------
HolderStep(h) == Acquire(h) \/ Persist(h) \/ Release(h)
StoreStep(n) == AskLease(n) \/ MarkPending(n)
FillStep(t) == FillReads(t) \/ FillEmbeds(t)

Next ==
    \/ \E h \in Holder : HolderStep(h)
    \/ ForceRelease \/ HeldExpires \/ RunDelete \/ Tick
    \/ \E n \in Note : StoreNote(n) \/ StoreStep(n)
    \/ \E t \in Task : FillStep(t)
    \/ Crash \/ Boot

Spec == Init /\ [][Next]_vars

\* Time passes, the queue's coordinator keeps asking held (queue.rs:705), spawned
\* tasks run, and the process is started again after a crash.
FairSpec ==
    /\ Spec
    /\ WF_vars(Tick) /\ WF_vars(HeldExpires) /\ WF_vars(Boot)
    /\ \A n \in Note : WF_vars(StoreStep(n))
    /\ \A t \in Task : WF_vars(FillStep(t))

-----------------------------------------------------------------------------
\* Two holders are never both told that the GPU is theirs for the hours to come,
\* over renewals, releases, expiry, crashes and reloads of the node
\* (gpu_lease.rs:28-31).  It holds as long as no DELETE or MERGE is late; a failed one
\* is reported.
OneHolderUnlessOvertaken ==
    \/ overtaken \/ used["fault"] > 0
    \/ \A g, h \in Holder : granted[g] > 0 /\ granted[h] > 0 => g = h

\* The holder that was told it has the GPU has it while the process is up.
GrantHonoured ==
    up /\ ~overtaken /\ used["fault"] = 0 => \A h \in Holder : granted[h] > 0 =>
        book.holder = h /\ book.left >= granted[h]

\* A note stored under a lease gets its vector and its entities from the backfill of its
\* end, or of a later one that a further lease made it wait for, unless it was being
\* stored or taken by a backfill when a lease began or ended, or the process went down.
Quiet == up /\ book = NoLease /\ (\A t \in Task : fill[t].pc = "off") /\ MidStore = {}
Backfilled == Quiet => \A n \in Note \ straddled : note[n] \in {"absent", "done"}

\* A lease ends, its holder gone or not, and local models come back.
LocalReturns == <>[](up /\ book = NoLease)

=============================================================================
