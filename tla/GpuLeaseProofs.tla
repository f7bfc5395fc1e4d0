--------------------------- MODULE GpuLeaseProofs ---------------------------
(***************************************************************************)
(* One holder of the GPU, its grant honoured, and every note backfilled,    *)
(* for any number of holders, notes, backfills, hours and faults.  That a   *)
(* grant survives a restart needs to know that the node is the book as      *)
(* soon as nobody is about to write it (Persisted), and that while the      *)
(* process is down nothing is under way (Resting).  A note that is marked   *)
(* waits for a lease to end or for a backfill that will see it (Kept).     *)
(***************************************************************************)
EXTENDS GpuLease, TLAPS

\* No DELETE and no MERGE was late, and none has failed.
Clean == ~overtaken /\ used["fault"] = 0

\* A lease has a holder as long as it is not cleared; what an acquire is about to
\* persist is its own.
Named ==
    /\ book = NoLease \/ book.holder \in Holder
    /\ node = NoLease \/ node.holder \in Holder
    /\ \A h \in Holder : persisting[h] = NoLease \/ persisting[h].holder = h

\* While the process is down nothing is under way.
Resting ==
    ~up => /\ book = NoLease /\ deletes = 0 /\ MidStore = {}
           /\ \A h \in Holder : persisting[h] = NoLease
           /\ \A t \in Task : fill[t].pc = "off"

\* What a holder was told is in the book, or in the node while the process is down.
Told(l) == \A h \in Holder : granted[h] > 0 => l.holder = h /\ l.left >= granted[h]
Granted == Clean => Told(IF up THEN book ELSE node)

\* The node is the book, unless its holder's acquire is still about to write it.
Persisted == Clean /\ Live(book) /\ persisting[book.holder] = NoLease => node = book

\* A backfill will find the note, or has it among its rows.
Awaited(n) == \E t \in Task : \/ fill[t].pc = "read"
                              \/ fill[t].pc = "rows" /\ n \in fill[t].rows

\* A note that no lease began or ended beside.
Kept ==
    \A n \in Note \ straddled :
        /\ note[n] # "lost"
        /\ note[n] = "extract" => ~Live(book)
        /\ note[n] \in {"bare", "marking"} => book # NoLease
        /\ up /\ note[n] = "pending" => book # NoLease \/ Awaited(n)

Inv == TypeOK /\ Named /\ Resting /\ Granted /\ Persisted /\ Kept

-----------------------------------------------------------------------------
(* The operators *)

\* An hour later a lease has its holder, and an hour less if it had any.
LEMMA LaterIs ==
    ASSUME NEW l \in Lease
    PROVE  /\ Later(l) \in Lease
           /\ Later(l).holder = l.holder
           /\ Later(l).left = IF l.left = 0 THEN 0 ELSE l.left - 1
           /\ l = NoLease => Later(l) = NoLease
           /\ l.holder \in Holder => Later(l) # NoLease
<1>1. Hours \in Nat  BY LeaseAssumption
<1>2. l.holder \in Holder \cup {Nobody} /\ l.left \in 0..Hours  BY DEF Lease
<1>3. (IF l.left = 0 THEN 0 ELSE l.left - 1) \in 0..Hours  BY <1>1, <1>2
<1>4. Later(l) = [holder |-> l.holder, left |-> IF l.left = 0 THEN 0 ELSE l.left - 1]
  BY DEF Later, Lease
<1>5. Later(l) \in Lease  BY <1>2, <1>3, <1>4 DEF Lease
<1>6. Nobody \notin Holder  BY LeaseAssumption
<1> QED  BY <1>4, <1>5, <1>6 DEF NoLease

\* No lease is a lease that is not live, and a live one is not no lease.
LEMMA NoLeaseIs ==
    /\ NoLease \in Lease
    /\ NoLease.holder = Nobody /\ NoLease.left = 0
    /\ ~Live(NoLease)
    /\ \A h \in Holder : NoLease.holder # h
BY LeaseAssumption DEF NoLease, Lease, Live

\* What is current is a lease, held as long as it is live.
LEMMA CurrentIs ==
    ASSUME NEW l \in Lease
    PROVE  /\ Current(l) \in Lease
           /\ Live(l) => Current(l) = l
           /\ ~Live(l) => Current(l) = NoLease
BY NoLeaseIs DEF Current

\* A release spawns a DELETE, and a backfill that is about to read.
LEMMA ReleaseStarts ==
    ASSUME TypeOK, AfterRelease
    PROVE  /\ deletes' \in Nat
           /\ fill' \in [Task -> Fill]
           /\ \E t \in Task : fill'[t].pc = "read"
<1>1. PICK t \in Task : fill' = [fill EXCEPT ![t] = [pc |-> "read", rows |-> {}]]
  BY DEF AfterRelease
<1>2. [pc |-> "read", rows |-> {}] \in Fill  BY DEF Fill
<1>3. fill' \in [Task -> Fill]  BY <1>1, <1>2 DEF TypeOK
<1>4. fill'[t].pc = "read"  BY <1>1 DEF TypeOK
<1>5. deletes' \in Nat  BY DEF TypeOK, AfterRelease
<1> QED  BY <1>3, <1>4, <1>5

\* What is spent of the budget only grows, and no other operation's changes.
LEMMA SpendIs ==
    ASSUME TypeOK, NEW o \in Ops, Spend(o)
    PROVE  /\ used' \in [Ops -> Nat]
           /\ o # "fault" => used'["fault"] = used["fault"]
           /\ o = "fault" => used'["fault"] > 0
<1>1. "fault" \in Ops  BY DEF Ops
<1>2. used[o] + 1 \in Nat /\ used[o] + 1 > 0  BY DEF TypeOK
<1>3. used' = [used EXCEPT ![o] = used[o] + 1]  BY DEF Spend
<1> QED  BY <1>1, <1>2, <1>3 DEF TypeOK

-----------------------------------------------------------------------------
(* Types *)

\* Every action keeps the types.
LEMMA TypeKept ==
    ASSUME TypeOK, [Next]_vars
    PROVE  TypeOK'
<1> USE DEF TypeOK
<1>0. /\ Hours \in Nat /\ Hours \in 0..Hours
      /\ \A o \in {"acquire", "release", "force", "crash", "fault"} : o \in Ops
  BY LeaseAssumption DEF Ops
<1>g. ASSUME GiveBack, used' \in [Ops -> Nat] PROVE TypeOK'
  <2>1. granted' \in [Holder -> 0..Hours]  BY <1>g, <1>0 DEF GiveBack
  <2>2. deletes' \in Nat /\ fill' \in [Task -> Fill]
    BY <1>g, ReleaseStarts DEF GiveBack
  <2>3. book' \in Lease  BY <1>g, NoLeaseIs DEF GiveBack
  <2>4. straddled' \subseteq Note  BY <1>g DEF GiveBack, MidStore
  <2> QED  BY <1>g, <2>1, <2>2, <2>3, <2>4 DEF GiveBack
<1>1. CASE \E h \in Holder : Acquire(h)
  <2>1. PICK h \in Holder : Acquire(h)  BY <1>1
  <2>2. book' \in Lease  BY <2>1, <1>0 DEF Acquire, Lease
  <2>3. persisting' \in [Holder -> Lease]  BY <2>1, <2>2 DEF Acquire
  <2>4. granted' \in [Holder -> 0..Hours]  BY <2>1, <1>0 DEF Acquire
  <2>5. used' \in [Ops -> Nat]  BY <2>1, <1>0, SpendIs DEF Acquire
  <2>6. straddled' \subseteq Note  BY <2>1 DEF Acquire, MidStore
  <2> QED  BY <2>1, <2>2, <2>3, <2>4, <2>5, <2>6 DEF Acquire
<1>2. CASE \E h \in Holder : Persist(h)
  <2>1. PICK h \in Holder : Persist(h)  BY <1>2
  <2>2. persisting' \in [Holder -> Lease]  BY <2>1, NoLeaseIs DEF Persist
  <2>3. node' \in Lease /\ used' \in [Ops -> Nat]
    BY <2>1, <1>0, SpendIs DEF Persist, Merged
  <2>4. overtaken' \in BOOLEAN  BY <2>1 DEF Persist
  <2> QED  BY <2>1, <2>2, <2>3, <2>4 DEF Persist, storing
<1>3. CASE \E h \in Holder : Release(h)  BY <1>3, <1>g, <1>0, SpendIs DEF Release
<1>4. CASE ForceRelease  BY <1>4, <1>g, <1>0, SpendIs DEF ForceRelease
<1>5. CASE HeldExpires
  <2>1. deletes' \in Nat /\ fill' \in [Task -> Fill]
    BY <1>5, ReleaseStarts DEF HeldExpires
  <2>2. book' \in Lease  BY <1>5, NoLeaseIs DEF HeldExpires
  <2>3. straddled' \subseteq Note  BY <1>5 DEF HeldExpires, MidStore
  <2> QED  BY <1>5, <2>1, <2>2, <2>3 DEF HeldExpires
<1>6. CASE RunDelete
  <2>1. node' \in Lease /\ used' \in [Ops -> Nat] /\ overtaken' \in BOOLEAN
    BY <1>6, <1>0, SpendIs, NoLeaseIs DEF RunDelete
  <2>2. deletes' \in Nat  BY <1>6 DEF RunDelete
  <2> QED  BY <1>6, <2>1, <2>2 DEF RunDelete, storing
<1>7. CASE Tick
  <2>1. book' \in Lease /\ node' \in Lease  BY <1>7, LaterIs DEF Tick
  <2>2. persisting' \in [Holder -> Lease]  BY <1>7, LaterIs DEF Tick
  <2>3. granted' \in [Holder -> 0..Hours]  BY <1>7, <1>0 DEF Tick
  <2> QED  BY <1>7, <2>1, <2>2, <2>3 DEF Tick, storing
<1>8. CASE \E n \in Note : StoreNote(n) \/ StoreStep(n)
  <2>1. note' \in [Note -> NotePc]
    BY <1>8 DEF StoreNote, StoreStep, AskLease, MarkPending, NotePc
  <2> QED  BY <1>8, <2>1 DEF StoreNote, StoreStep, AskLease, MarkPending, leasing
<1>9. CASE \E t \in Task : FillReads(t)
  <2>1. PICK t \in Task : FillReads(t)  BY <1>9
  <2>2. fill' \in [Task -> Fill]  BY <2>1 DEF FillReads, Fill
  <2> QED  BY <2>1, <2>2 DEF FillReads, leasing, storing
<1>10. CASE \E t \in Task : FillEmbeds(t)
  <2>1. PICK t \in Task : FillEmbeds(t)  BY <1>10
  <2>2. CASE fill' = [fill EXCEPT ![t] = NoFill] /\ UNCHANGED note
    <3>1. fill' \in [Task -> Fill]  BY <2>2 DEF NoFill, Fill
    <3> QED  BY <2>1, <2>2, <3>1 DEF FillEmbeds, leasing
  <2>3. CASE \E n \in fill[t].rows : /\ note' = [note EXCEPT ![n] = "extract"]
                                     /\ fill' = [fill EXCEPT ![t].rows = @ \ {n}]
    <3>1. PICK n \in fill[t].rows : /\ note' = [note EXCEPT ![n] = "extract"]
                                    /\ fill' = [fill EXCEPT ![t].rows = @ \ {n}]
      BY <2>3
    <3>2. fill' \in [Task -> Fill]  BY <3>1 DEF Fill
    <3>3. note' \in [Note -> NotePc]  BY <3>1 DEF NotePc
    <3> QED  BY <2>1, <3>2, <3>3 DEF FillEmbeds, leasing
  <2> QED  BY <2>1, <2>2, <2>3 DEF FillEmbeds
<1>11. CASE Crash
  <2>1. note' \in [Note -> NotePc]  BY <1>11 DEF Crash, NotePc
  <2>2. fill' \in [Task -> Fill]  BY <1>11 DEF Crash, NoFill, Fill
  <2>3. granted' \in [Holder -> 0..Hours]  BY <1>11, <1>0 DEF Crash
  <2>4. book' \in Lease /\ persisting' \in [Holder -> Lease]
    BY <1>11, NoLeaseIs DEF Crash
  <2>5. used' \in [Ops -> Nat] /\ straddled' \subseteq Note
    BY <1>11, <1>0, SpendIs DEF Crash, MidStore
  <2> QED  BY <1>11, <2>1, <2>2, <2>3, <2>4, <2>5 DEF Crash
<1>12. CASE Boot
  <2>1. book' \in Lease  BY <1>12, CurrentIs DEF Boot
  <2>2. deletes' \in Nat /\ fill' \in [Task -> Fill]
    BY <1>12, ReleaseStarts DEF Boot
  <2> QED  BY <1>12, <2>1, <2>2 DEF Boot, storing
<1>13. CASE UNCHANGED vars  BY <1>13 DEF vars
<1> QED
  BY <1>1, <1>2, <1>3, <1>4, <1>5, <1>6, <1>7, <1>8, <1>9, <1>10, <1>11, <1>12, <1>13
  DEF Next, HolderStep, FillStep

-----------------------------------------------------------------------------
(* The lease *)

\* A fault and a late write are never forgotten.
LEMMA CleanBefore ==
    ASSUME TypeOK, [Next]_vars, Clean'
    PROVE  Clean
<1>0. /\ \A o \in {"acquire", "release", "force", "crash", "fault"} : o \in Ops
      /\ used["fault"] \in Nat
  BY DEF Ops, TypeOK
<1>1. ASSUME NEW o \in Ops, Spend(o) PROVE used'["fault"] = 0 => used["fault"] = 0
  BY <1>1, <1>0, SpendIs
<1>2. used' = used \/ \E o \in Ops : Spend(o)
  BY <1>0 DEF Next, HolderStep, Acquire, Persist, Release, GiveBack, ForceRelease,
     HeldExpires, RunDelete, Tick, StoreNote, StoreStep, AskLease, MarkPending, FillStep,
     FillReads, FillEmbeds, Crash, Boot, vars
<1>3. used["fault"] = 0  BY <1>1, <1>2 DEF Clean
<1>4. \/ overtaken' = overtaken
      \/ \E h \in Holder : overtaken' = (overtaken \/ persisting[h] # book)
      \/ overtaken' = (overtaken \/ Live(book))
  BY DEF Next, HolderStep, Acquire, Persist, Release, GiveBack, ForceRelease,
     HeldExpires, RunDelete, Tick, StoreNote, StoreStep, AskLease, MarkPending, FillStep,
     FillReads, FillEmbeds, Crash, Boot, vars, leasing
<1>5. ~overtaken'  BY DEF Clean
<1>6. ~overtaken  BY <1>4, <1>5, Zenon
<1> QED  BY <1>3, <1>6 DEF Clean

\* What an action keeps of the lease.
LeaseKept == Named /\ Granted /\ Persisted

\* An acquire: nobody else has been told that the GPU is theirs, because the book
\* would have refused it.
LEMMA AcquireKeeps ==
    ASSUME Inv, NEW h \in Holder, Acquire(h), Clean' => Clean
    PROVE  LeaseKept'
<1> USE DEF Inv
<1>1. /\ up /\ up' = up /\ node' = node
      /\ book' = [holder |-> h, left |-> Hours]
      /\ persisting' = [persisting EXCEPT ![h] = book']
      /\ granted' = [granted EXCEPT ![h] = Hours]
      /\ OpenTo(h)
  BY DEF Acquire
<1>2. book'.holder = h /\ book'.left = Hours  BY <1>1
<1>3. Hours \in Nat  BY LeaseAssumption
<1>4. book' # NoLease  BY <1>2, NoLeaseIs
<1>5. Named'  BY <1>1, <1>2 DEF Named, TypeOK
<1>6. ASSUME Clean', NEW g \in Holder, granted'[g] > 0
      PROVE  book'.holder = g /\ book'.left >= granted'[g]
  <2>1. CASE g = h  BY <2>1, <1>1, <1>2, <1>3 DEF TypeOK
  <2>2. CASE g # h
    <3>1. granted[g] > 0  BY <1>1, <1>6, <2>2 DEF TypeOK
    <3>2. book.holder = g /\ book.left >= granted[g]
      BY <1>1, <1>6, <3>1 DEF Granted, Told
    <3>3. Live(book)
      BY <3>1, <3>2, <1>3 DEF Live, TypeOK, Lease
    <3>4. Nobody \notin Holder  BY LeaseAssumption
    <3> QED  BY <1>1, <2>2, <3>2, <3>3, <3>4 DEF OpenTo, Current
  <2> QED  BY <2>1, <2>2
<1>7. Granted'  BY <1>1, <1>6 DEF Granted, Told
<1>8. Persisted'  BY <1>1, <1>2, <1>4 DEF Persisted, TypeOK
<1> QED  BY <1>5, <1>7, <1>8 DEF LeaseKept

\* A persist that is not late writes the book.
LEMMA PersistKeeps ==
    ASSUME Inv, NEW h \in Holder, Persist(h), Clean' => Clean
    PROVE  LeaseKept'
<1> USE DEF Inv
<1>1. /\ up' = up /\ book' = book /\ granted' = granted
      /\ persisting[h] # NoLease
      /\ persisting' = [persisting EXCEPT ![h] = NoLease]
      /\ overtaken' = (overtaken \/ persisting[h] # book)
      /\ \/ node' = persisting[h]
         \/ node' = node /\ Spend("fault")
  BY DEF Persist, Merged
<1>2. up  BY <1>1 DEF Resting
<1>3. persisting[h].holder = h  BY <1>1 DEF Named
<1>4. Named'  BY <1>1, <1>3 DEF Named, TypeOK
<1>5. Granted'  BY <1>1, <1>2 DEF Granted, Told
<1>6. Spend("fault") => used'["fault"] > 0  BY SpendIs DEF Ops
<1>7. ASSUME Clean' PROVE node' = book'
  <2>1. ~overtaken' /\ ~(used'["fault"] > 0)  BY <1>7 DEF Clean
  <2>2. persisting[h] = book  BY <1>1, <2>1, Zenon
  <2> QED  BY <1>1, <1>6, <2>1, <2>2
<1>8. Persisted'  BY <1>7 DEF Persisted
<1> QED  BY <1>4, <1>5, <1>8 DEF LeaseKept

\* A release takes back what its holder was told.
LEMMA GiveBackKeeps ==
    ASSUME Inv, GiveBack, up, Clean' => Clean
    PROVE  LeaseKept'
<1> USE DEF Inv
<1>1. /\ up' = up /\ book' = NoLease /\ node' = node /\ persisting' = persisting
      /\ granted' = [h \in Holder |-> IF h = Current(book).holder THEN 0 ELSE granted[h]]
  BY DEF GiveBack
<1>2. Named'  BY <1>1 DEF Named
<1>3. ASSUME Clean', NEW g \in Holder, granted'[g] > 0 PROVE FALSE
  <2>1. granted[g] > 0 /\ g # Current(book).holder  BY <1>1, <1>3
  <2>2. book.holder = g /\ book.left >= granted[g]
    BY <1>3, <2>1 DEF Granted, Told
  <2>3. Live(book)  BY <2>1, <2>2, LeaseAssumption DEF Live, TypeOK, Lease
  <2> QED  BY <2>1, <2>2, <2>3 DEF Current
<1>4. Granted'  BY <1>3 DEF Granted, Told
<1>5. Persisted'  BY <1>1, NoLeaseIs DEF Persisted
<1> QED  BY <1>2, <1>4, <1>5 DEF LeaseKept

\* When a lease has run out nobody has an hour left.
LEMMA HeldExpiresKeeps ==
    ASSUME Inv, HeldExpires, Clean' => Clean
    PROVE  LeaseKept'
<1> USE DEF Inv
<1>1. /\ up /\ up' = up /\ book' = NoLease /\ ~Live(book)
      /\ node' = node /\ persisting' = persisting /\ granted' = granted
  BY DEF HeldExpires, RanOut
<1>2. Named'  BY <1>1 DEF Named
<1>3. ASSUME Clean', NEW g \in Holder, granted'[g] > 0 PROVE FALSE
  <2>1. book.left >= granted[g] /\ granted[g] > 0
    BY <1>1, <1>3 DEF Granted, Told
  <2> QED  BY <1>1, <2>1, LeaseAssumption DEF Live, TypeOK, Lease
<1>4. Granted'  BY <1>3 DEF Granted, Told
<1>5. Persisted'  BY <1>1, NoLeaseIs DEF Persisted
<1> QED  BY <1>2, <1>4, <1>5 DEF LeaseKept

\* A DELETE that is not late finds no live lease.
LEMMA RunDeleteKeeps ==
    ASSUME Inv, RunDelete, Clean' => Clean
    PROVE  LeaseKept'
<1> USE DEF Inv
<1>1. /\ up' = up /\ book' = book /\ persisting' = persisting /\ granted' = granted
      /\ deletes > 0
      /\ \/ node' = NoLease /\ overtaken' = (overtaken \/ Live(book))
         \/ node' = node /\ Spend("fault")
  BY DEF RunDelete
<1>2. up  BY <1>1 DEF Resting
<1>3. Named'  BY <1>1 DEF Named
<1>4. Granted'  BY <1>1, <1>2 DEF Granted, Told
<1>5. Spend("fault") => used'["fault"] > 0  BY SpendIs DEF Ops
<1>6. ASSUME Clean' PROVE ~Live(book') \/ node' = node
  <2>1. ~overtaken'  BY <1>6 DEF Clean
  <2>2. CASE overtaken' = (overtaken \/ Live(book))
    <3>1. ~Live(book)  BY <2>1, <2>2, Zenon
    <3> QED  BY <1>1, <3>1 DEF Live
  <2>3. CASE node' = node  BY <2>3
  <2> QED  BY <1>1, <2>2, <2>3
<1>7. Persisted'  BY <1>1, <1>6 DEF Persisted
<1> QED  BY <1>3, <1>4, <1>7 DEF LeaseKept

\* An hour passes for everyone alike.
LEMMA TickKeeps ==
    ASSUME Inv, Tick, Clean' => Clean
    PROVE  LeaseKept'
<1> USE DEF Inv
<1>1. /\ up' = up /\ book' = Later(book) /\ node' = Later(node)
      /\ persisting' = [h \in Holder |-> Later(persisting[h])]
      /\ granted' = [h \in Holder |-> IF granted[h] = 0 THEN 0 ELSE granted[h] - 1]
  BY DEF Tick
<1>2. /\ book \in Lease /\ node \in Lease
      /\ \A h \in Holder : persisting[h] \in Lease /\ granted[h] \in Nat
  BY LeaseAssumption DEF TypeOK
<1>3. /\ book.left \in Nat /\ node.left \in Nat
      /\ book.holder \in Holder \cup {Nobody}
  BY <1>2, LeaseAssumption DEF Lease
<1>4. Named'
  <2>1. book' = NoLease \/ book'.holder \in Holder  BY <1>1, <1>2, LaterIs DEF Named
  <2>2. node' = NoLease \/ node'.holder \in Holder  BY <1>1, <1>2, LaterIs DEF Named
  <2>3. ASSUME NEW h \in Holder PROVE persisting'[h] = NoLease \/ persisting'[h].holder = h
    BY <1>1, <1>2, LaterIs DEF Named
  <2> QED  BY <2>1, <2>2, <2>3 DEF Named
<1>5. ASSUME NEW l \in Lease, l.left \in Nat, Told(l), NEW g \in Holder, granted'[g] > 0
      PROVE  Later(l).holder = g /\ Later(l).left >= granted'[g]
  <2>1. granted[g] \in Nat /\ granted[g] > 0 /\ granted'[g] = granted[g] - 1
    BY <1>1, <1>2, <1>5
  <2>2. l.holder = g /\ l.left >= granted[g]  BY <2>1, <1>5 DEF Told
  <2>3. Later(l).holder = l.holder /\ Later(l).left = IF l.left = 0 THEN 0 ELSE l.left - 1
    BY LaterIs
  <2> QED  BY <2>1, <2>2, <2>3, <1>5
<1>6. Granted'  BY <1>1, <1>2, <1>3, <1>5 DEF Granted, Told
<1>7. ASSUME Clean', Live(book'), persisting'[book'.holder] = NoLease PROVE node' = book'
  <2>1. book'.holder = book.holder /\ book'.left = IF book.left = 0 THEN 0 ELSE book.left - 1
    BY <1>1, <1>2, LaterIs
  <2>2. Live(book)  BY <2>1, <1>3, <1>7 DEF Live
  <2>3. book.holder \in Holder  BY <2>2, NoLeaseIs DEF Named
  <2>4. Later(persisting[book.holder]) = NoLease  BY <1>1, <1>7, <2>1, <2>3
  <2>5. persisting[book.holder] = NoLease
    BY <1>2, <2>3, <2>4, LaterIs DEF Named
  <2> QED  BY <1>1, <1>7, <2>2, <2>5 DEF Persisted
<1>8. Persisted'  BY <1>7 DEF Persisted
<1> QED  BY <1>4, <1>6, <1>8 DEF LeaseKept

\* A crash leaves the node, which is the book unless the answer of an acquire was lost.
LEMMA CrashKeeps ==
    ASSUME Inv, Crash, Clean' => Clean
    PROVE  LeaseKept'
<1> USE DEF Inv
<1>1. /\ up /\ ~up' /\ book' = NoLease /\ node' = node
      /\ persisting' = [h \in Holder |-> NoLease]
      /\ granted' = [h \in Holder |-> IF persisting[h] = NoLease THEN granted[h] ELSE 0]
  BY DEF Crash
<1>2. Named'  BY <1>1 DEF Named
<1>3. ASSUME Clean', NEW g \in Holder, granted'[g] > 0
      PROVE  node'.holder = g /\ node'.left >= granted'[g]
  <2>1. persisting[g] = NoLease /\ granted[g] > 0 /\ granted'[g] = granted[g]
    BY <1>1, <1>3
  <2>2. book.holder = g /\ book.left >= granted[g]
    BY <1>1, <1>3, <2>1 DEF Granted, Told
  <2>3. Live(book)  BY <2>1, <2>2, LeaseAssumption DEF Live, TypeOK, Lease
  <2>4. node = book  BY <1>3, <2>1, <2>2, <2>3 DEF Persisted
  <2> QED  BY <1>1, <2>1, <2>2, <2>4
<1>4. Granted'  BY <1>1, <1>3 DEF Granted, Told
<1>5. Persisted'  BY <1>1, NoLeaseIs DEF Persisted
<1> QED  BY <1>2, <1>4, <1>5 DEF LeaseKept

\* init takes the lease that the node still has.
LEMMA BootKeeps ==
    ASSUME Inv, Boot, Clean' => Clean
    PROVE  LeaseKept'
<1> USE DEF Inv
<1>1. /\ ~up /\ up' /\ book' = Current(node) /\ node' = node
      /\ persisting' = persisting /\ granted' = granted
  BY DEF Boot
<1>2. node \in Lease  BY DEF TypeOK
<1>3. Named'  BY <1>1, <1>2, CurrentIs DEF Named
<1>4. ASSUME Clean', NEW g \in Holder, granted'[g] > 0
      PROVE  book'.holder = g /\ book'.left >= granted'[g]
  <2>1. node.holder = g /\ node.left >= granted[g] /\ granted[g] > 0
    BY <1>1, <1>4 DEF Granted, Told
  <2>2. Live(node)  BY <2>1, LeaseAssumption DEF Live, TypeOK, Lease
  <2> QED  BY <1>1, <1>2, <2>1, <2>2, CurrentIs
<1>5. Granted'  BY <1>1, <1>4 DEF Granted, Told
<1>6. Persisted'  BY <1>1, <1>2, CurrentIs, NoLeaseIs DEF Persisted
<1> QED  BY <1>3, <1>5, <1>6 DEF LeaseKept

\* An action that touches no lease.
LEMMA LeaseUntouched ==
    ASSUME Inv, UNCHANGED <<up, leasing, used>>
    PROVE  LeaseKept'
BY DEF Inv, LeaseKept, Named, Granted, Told, Persisted, Clean, leasing

LEMMA LeaseStep ==
    ASSUME Inv, [Next]_vars
    PROVE  LeaseKept'
<1>0. Clean' => Clean  BY CleanBefore DEF Inv
<1>1. ASSUME NEW h \in Holder, HolderStep(h) PROVE LeaseKept'
  BY <1>0, <1>1, AcquireKeeps, PersistKeeps, GiveBackKeeps DEF HolderStep, Release
<1>2. CASE ForceRelease  BY <1>0, <1>2, GiveBackKeeps DEF ForceRelease
<1>3. CASE HeldExpires  BY <1>0, <1>3, HeldExpiresKeeps
<1>4. CASE RunDelete  BY <1>0, <1>4, RunDeleteKeeps
<1>5. CASE Tick  BY <1>0, <1>5, TickKeeps
<1>6. ASSUME NEW n \in Note, StoreNote(n) \/ StoreStep(n) PROVE LeaseKept'
  BY <1>6, LeaseUntouched DEF StoreNote, StoreStep, AskLease, MarkPending
<1>7. ASSUME NEW t \in Task, FillStep(t) PROVE LeaseKept'
  BY <1>7, LeaseUntouched DEF FillStep, FillReads, FillEmbeds
<1>8. CASE Crash  BY <1>0, <1>8, CrashKeeps
<1>9. CASE Boot  BY <1>0, <1>9, BootKeeps
<1>10. CASE UNCHANGED vars  BY <1>10, LeaseUntouched DEF vars, leasing
<1> QED  BY <1>1, <1>2, <1>3, <1>4, <1>5, <1>6, <1>7, <1>8, <1>9, <1>10 DEF Next

\* While the process is down only time passes.
LEMMA RestingStep ==
    ASSUME Inv, [Next]_vars
    PROVE  Resting'
<1> USE DEF Inv
<1>1. CASE Crash
  <2>1. \A n \in Note : note'[n] \notin {"bare", "embedded", "marking", "extract"}
    BY <1>1 DEF Crash, MidStore
  <2>2. MidStore' = {}  BY <2>1 DEF MidStore
  <2>3. \A t \in Task : fill'[t].pc = "off"  BY <1>1 DEF Crash, NoFill
  <2> QED  BY <1>1, <2>2, <2>3 DEF Crash, Resting
<1>2. CASE Tick /\ ~up
  <2>1. book = NoLease /\ \A h \in Holder : persisting[h] = NoLease
    BY <1>2 DEF Resting
  <2>2. Later(NoLease) = NoLease  BY LaterIs, NoLeaseIs
  <2>3. book' = NoLease /\ \A h \in Holder : persisting'[h] = NoLease
    BY <1>2, <2>1, <2>2 DEF Tick
  <2>4. UNCHANGED <<deletes, fill, note>>  BY <1>2 DEF Tick, storing
  <2>5. MidStore' = MidStore  BY <2>4 DEF MidStore
  <2> QED  BY <1>2, <2>3, <2>4, <2>5 DEF Resting
<1>3. CASE UNCHANGED vars
  <2>1. MidStore' = MidStore  BY <1>3 DEF vars, MidStore
  <2> QED  BY <1>3, <2>1 DEF vars, Resting
<1>4. CASE up /\ ~Crash  \* the process stays up
  <2>1. up' = up
    BY <1>4 DEF Next, HolderStep, Acquire, Persist, Release, GiveBack, ForceRelease,
       HeldExpires, RunDelete, Tick, StoreNote, StoreStep, AskLease, MarkPending, FillStep,
       FillReads, FillEmbeds, Boot, vars
  <2> QED  BY <1>4, <2>1 DEF Resting
<1>5. CASE ~up /\ Next /\ ~Tick
  <2>1. /\ deletes = 0
        /\ \A h \in Holder : persisting[h] = NoLease
        /\ \A t \in Task : fill[t].pc = "off"
        /\ \A n \in Note : note[n] \notin {"bare", "embedded", "marking", "extract"}
    BY <1>5 DEF Resting, MidStore
  <2>2. Boot
    BY <1>5, <2>1 DEF Next, HolderStep, Acquire, Persist, Release, ForceRelease,
       HeldExpires, RunDelete, StoreNote, StoreStep, AskLease, MarkPending, FillStep,
       FillReads, FillEmbeds, Crash
  <2> QED  BY <2>2 DEF Boot, Resting
<1> QED  BY <1>1, <1>2, <1>3, <1>4, <1>5

-----------------------------------------------------------------------------
(* The notes *)

\* A lease begins: the notes on their way are set aside, and the marked ones wait for
\* its end.
LEMMA AcquireKeepsNotes ==
    ASSUME Inv, NEW h \in Holder, Acquire(h)
    PROVE  Kept'
<1>1. /\ book' # NoLease /\ note' = note /\ straddled' = straddled \cup MidStore
  BY NoLeaseIs DEF Acquire
<1>2. \A n \in Note \ straddled' : note[n] \notin {"bare", "embedded", "marking", "extract"}
  BY <1>1 DEF MidStore
<1> QED  BY <1>1, <1>2 DEF Inv, Kept

\* A lease ends: a backfill that has not read yet will find the marked ones.
LEMMA ReleaseKeepsNotes ==
    ASSUME Inv, AfterRelease, note' = note, straddled' = straddled \cup MidStore
    PROVE  Kept'
<1>1. \A n \in Note \ straddled' : note[n] \notin {"bare", "embedded", "marking", "extract"}
  BY DEF MidStore
<1>2. \E t \in Task : fill'[t].pc = "read"  BY ReleaseStarts DEF Inv
<1>3. \A n \in Note : Awaited(n)'  BY <1>2 DEF Awaited
<1> QED  BY <1>1, <1>3 DEF Inv, Kept

\* An hour passes: a lease that has run out is still in the book until held clears it.
LEMMA TickKeepsNotes ==
    ASSUME Inv, Tick
    PROVE  Kept'
<1>1. /\ up' = up /\ book' = Later(book) /\ note' = note /\ fill' = fill
      /\ straddled' = straddled
  BY DEF Tick, storing
<1>2. book \in Lease /\ book.left \in Nat  BY LeaseAssumption DEF Inv, TypeOK, Lease
<1>3. book # NoLease => book' # NoLease
  BY <1>1, <1>2, LaterIs DEF Inv, Named
<1>4. ~Live(book) => ~Live(book')  BY <1>1, <1>2, LaterIs DEF Live
<1>5. \A n \in Note : Awaited(n) => Awaited(n)'  BY <1>1 DEF Awaited
<1> QED  BY <1>1, <1>3, <1>4, <1>5 DEF Inv, Kept

\* A note is stored, and its mark written, while the lease is in the book.
LEMMA StoreKeepsNotes ==
    ASSUME Inv, NEW m \in Note, StoreNote(m) \/ StoreStep(m)
    PROVE  Kept'
<1> USE DEF Inv
<1>1. /\ up' = up /\ book' = book /\ fill' = fill /\ straddled' = straddled
  BY DEF StoreNote, StoreStep, AskLease, MarkPending, leasing
<1>2. Live(book) => book # NoLease  BY NoLeaseIs
<1>3. \A n \in Note : Awaited(n) => Awaited(n)'  BY <1>1 DEF Awaited
<1>4. \A n \in Note \ {m} : note'[n] = note[n]
  BY DEF StoreNote, StoreStep, AskLease, MarkPending, TypeOK
<1>5. ASSUME m \notin straddled
      PROVE  /\ note'[m] # "lost"
             /\ note'[m] = "extract" => ~Live(book)
             /\ note'[m] \in {"bare", "marking", "pending"} => book # NoLease
  <2>1. CASE StoreNote(m)
    <3>1. note'[m] = IF Live(book) THEN "bare" ELSE "embedded"
      BY <2>1 DEF StoreNote, TypeOK
    <3> QED  BY <3>1, <1>2
  <2>2. CASE AskLease(m)
    <3>1. CASE note[m] = "embedded"
      <4>1. note'[m] = IF Live(book) THEN "marking" ELSE "extract"
        BY <2>2, <3>1 DEF AskLease, TypeOK
      <4> QED  BY <4>1, <1>2
    <3>2. CASE note[m] = "extract"
      <4>1. ~Live(book)  BY <1>5, <3>2 DEF Kept
      <4>2. note'[m] = IF Live(book) THEN "lost" ELSE "done"
        BY <2>2, <3>2 DEF AskLease, TypeOK
      <4> QED  BY <4>1, <4>2
    <3> QED  BY <2>2, <3>1, <3>2 DEF AskLease
  <2>3. CASE MarkPending(m)
    <3>1. note'[m] = "pending" /\ note[m] \in {"bare", "marking"}
      BY <2>3 DEF MarkPending, TypeOK
    <3> QED  BY <1>5, <3>1 DEF Kept
  <2> QED  BY <2>1, <2>2, <2>3 DEF StoreStep
<1>6. ASSUME NEW n \in Note \ straddled'
      PROVE  /\ note'[n] # "lost"
             /\ note'[n] = "extract" => ~Live(book')
             /\ note'[n] \in {"bare", "marking"} => book' # NoLease
             /\ up' /\ note'[n] = "pending" => book' # NoLease \/ Awaited(n)'
  <2>1. CASE n = m  BY <2>1, <1>1, <1>5
  <2>2. CASE n # m  BY <2>2, <1>1, <1>3, <1>4 DEF Kept
  <2> QED  BY <2>1, <2>2
<1> QED  BY <1>6 DEF Kept

\* A backfill reads every marked note.
LEMMA ReadKeepsNotes ==
    ASSUME Inv, NEW t \in Task, FillReads(t)
    PROVE  Kept'
<1>1. /\ up' = up /\ book' = book /\ note' = note /\ straddled' = straddled
      /\ fill' = [fill EXCEPT ![t] = [pc |-> "rows", rows |-> {n \in Note : note[n] = "pending"}]]
  BY DEF FillReads, leasing, storing
<1>2. ASSUME NEW n \in Note, note[n] = "pending" PROVE Awaited(n)'
  <2>1. fill'[t].pc = "rows" /\ n \in fill'[t].rows  BY <1>1, <1>2 DEF Inv, TypeOK
  <2> QED  BY <2>1 DEF Awaited
<1> QED  BY <1>1, <1>2 DEF Inv, Kept

\* A backfill that stops has no more rows, or the GPU is leased again.
LEMMA EmbedKeepsNotes ==
    ASSUME Inv, NEW t \in Task, FillEmbeds(t)
    PROVE  Kept'
<1> USE DEF Inv
<1>1. /\ up' = up /\ book' = book /\ straddled' = straddled /\ fill[t].pc = "rows"
  BY DEF FillEmbeds, leasing
<1>2. Live(book) => book # NoLease  BY NoLeaseIs
<1>3. CASE /\ Live(book) \/ fill[t].rows = {}
           /\ fill' = [fill EXCEPT ![t] = NoFill]
           /\ note' = note
  <2>1. ASSUME NEW n \in Note, Awaited(n), book = NoLease PROVE Awaited(n)'
    <3>1. PICK u \in Task : \/ fill[u].pc = "read"
                            \/ fill[u].pc = "rows" /\ n \in fill[u].rows
      BY <2>1 DEF Awaited
    <3>2. u # t  BY <1>1, <1>2, <1>3, <2>1, <3>1
    <3>3. fill'[u] = fill[u]  BY <1>3, <3>2 DEF TypeOK
    <3> QED  BY <3>1, <3>3 DEF Awaited
  <2> QED  BY <1>1, <1>3, <2>1 DEF Kept
<1>4. CASE /\ ~Live(book)
           /\ \E n \in fill[t].rows : /\ note' = [note EXCEPT ![n] = "extract"]
                                      /\ fill' = [fill EXCEPT ![t].rows = @ \ {n}]
  <2>1. PICK m \in fill[t].rows : /\ note' = [note EXCEPT ![m] = "extract"]
                                  /\ fill' = [fill EXCEPT ![t].rows = @ \ {m}]
    BY <1>4
  <2>2. fill'[t].pc = "rows" /\ fill'[t].rows = fill[t].rows \ {m}
    BY <1>1, <2>1 DEF TypeOK, Fill
  <2>3. \A u \in Task \ {t} : fill'[u] = fill[u]  BY <2>1 DEF TypeOK
  <2>4. \A n \in Note \ {m} : Awaited(n) => Awaited(n)'  BY <1>1, <2>2, <2>3 DEF Awaited
  <2>5. m \in Note /\ note'[m] = "extract" /\ \A n \in Note \ {m} : note'[n] = note[n]
    BY <2>1 DEF TypeOK, Fill
  <2>6. ASSUME NEW n \in Note \ straddled'
        PROVE  /\ note'[n] # "lost"
               /\ note'[n] = "extract" => ~Live(book')
               /\ note'[n] \in {"bare", "marking"} => book' # NoLease
               /\ up' /\ note'[n] = "pending" => book' # NoLease \/ Awaited(n)'
    <3>1. CASE n = m  BY <3>1, <1>1, <1>4, <2>5
    <3>2. CASE n # m  BY <3>2, <1>1, <2>4, <2>5 DEF Kept
    <3> QED  BY <3>1, <3>2
  <2> QED  BY <2>6 DEF Kept
<1> QED  BY <1>3, <1>4 DEF FillEmbeds

\* A crash loses the notes on their way, which a lease is said to have straddled too.
LEMMA CrashKeepsNotes ==
    ASSUME Inv, Crash
    PROVE  Kept'
<1>1. /\ ~up' /\ straddled' = straddled \cup MidStore
      /\ note' = [n \in Note |-> IF n \in MidStore THEN "lost" ELSE note[n]]
  BY DEF Crash
<1>2. \A n \in Note \ straddled' : /\ note'[n] = note[n]
                                   /\ note[n] \notin {"bare", "embedded", "marking", "extract"}
  BY <1>1 DEF MidStore
<1> QED  BY <1>1, <1>2 DEF Inv, Kept

\* init starts a backfill, or takes the lease that the marked notes wait for.
LEMMA BootKeepsNotes ==
    ASSUME Inv, Boot
    PROVE  Kept'
<1> USE DEF Inv
<1>1. /\ ~up /\ note' = note /\ straddled' = straddled /\ book' = Current(node)
      /\ Live(node) \/ AfterRelease
  BY DEF Boot, storing
<1>2. \A n \in Note : note[n] \notin {"bare", "embedded", "marking", "extract"}
  BY <1>1 DEF Resting, MidStore
<1>3. CASE Live(node)
  <2>1. book' # NoLease  BY <1>1, <1>3, CurrentIs, NoLeaseIs DEF TypeOK
  <2> QED  BY <1>1, <1>2, <2>1 DEF Kept
<1>4. CASE AfterRelease
  <2>1. \E t \in Task : fill'[t].pc = "read"  BY <1>4, ReleaseStarts
  <2>2. \A n \in Note : Awaited(n)'  BY <2>1 DEF Awaited
  <2> QED  BY <1>1, <1>2, <2>2 DEF Kept
<1> QED  BY <1>1, <1>3, <1>4

\* An action that touches no note and no backfill.
LEMMA NotesUntouched ==
    ASSUME Inv, UNCHANGED <<up, book, note, fill, straddled>>
    PROVE  Kept'
<1>1. \A n \in Note : Awaited(n) => Awaited(n)'  BY DEF Awaited
<1> QED  BY <1>1 DEF Inv, Kept

LEMMA KeptStep ==
    ASSUME Inv, [Next]_vars
    PROVE  Kept'
<1>1. ASSUME NEW h \in Holder, HolderStep(h) PROVE Kept'
  <2>1. CASE Acquire(h)  BY <2>1, AcquireKeepsNotes
  <2>2. CASE Persist(h)  BY <2>2, NotesUntouched DEF Persist, storing
  <2>3. CASE Release(h)  BY <2>3, ReleaseKeepsNotes DEF Release, GiveBack
  <2> QED  BY <1>1, <2>1, <2>2, <2>3 DEF HolderStep
<1>2. CASE ForceRelease  BY <1>2, ReleaseKeepsNotes DEF ForceRelease, GiveBack
<1>3. CASE HeldExpires  BY <1>3, ReleaseKeepsNotes DEF HeldExpires
<1>4. CASE RunDelete  BY <1>4, NotesUntouched DEF RunDelete, storing
<1>5. CASE Tick  BY <1>5, TickKeepsNotes
<1>6. ASSUME NEW n \in Note, StoreNote(n) \/ StoreStep(n) PROVE Kept'
  BY <1>6, StoreKeepsNotes
<1>7. ASSUME NEW t \in Task, FillStep(t) PROVE Kept'
  BY <1>7, ReadKeepsNotes, EmbedKeepsNotes DEF FillStep
<1>8. CASE Crash  BY <1>8, CrashKeepsNotes
<1>9. CASE Boot  BY <1>9, BootKeepsNotes
<1>10. CASE UNCHANGED vars  BY <1>10, NotesUntouched DEF vars
<1> QED  BY <1>1, <1>2, <1>3, <1>4, <1>5, <1>6, <1>7, <1>8, <1>9, <1>10 DEF Next

-----------------------------------------------------------------------------
(* The theorems *)

LEMMA InvStarts == Init => Inv
<1> SUFFICES ASSUME Init PROVE Inv  OBVIOUS
<1>1. \A o \in Ops : used[o] = 0  BY DEF Init
<1>2. TypeOK
  <2>1. NoFill \in Fill  BY DEF NoFill, Fill
  <2>2. 0 \in 0..Hours  BY LeaseAssumption
  <2> QED  BY <2>1, <2>2, NoLeaseIs DEF Init, TypeOK, NotePc
<1>3. Named  BY DEF Init, Named
<1>4. MidStore = {}  BY DEF Init, MidStore
<1>5. Resting  BY <1>4 DEF Init, Resting, NoFill
<1>6. Granted /\ Persisted  BY NoLeaseIs DEF Init, Granted, Told, Persisted
<1>7. Kept  BY DEF Init, Kept
<1> QED  BY <1>2, <1>3, <1>5, <1>6, <1>7 DEF Inv

LEMMA InvStep == Inv /\ [Next]_vars => Inv'
BY TypeKept, LeaseStep, RestingStep, KeptStep DEF Inv, LeaseKept

\* The inductive invariant holds in every reachable state.
LEMMA InvHolds == Spec => []Inv
<1>1. Init => Inv  BY InvStarts
<1>2. Inv /\ [Next]_vars => Inv'  BY InvStep
<1> QED  BY <1>1, <1>2, PTL DEF Spec

\* The book, the node, the notes and the backfills have the types they are declared
\* with (gpu_lease.rs:44-80).
THEOREM TypesHold == Spec => []TypeOK
<1>1. Inv => TypeOK  BY DEF Inv
<1> QED  BY <1>1, InvHolds, PTL

\* Two holders are never both told that the GPU is theirs for the hours to come, unless
\* a write came late or failed: over renewals, releases, expiry, crashes and reloads,
\* for any number of holders (gpu_lease.rs:86-118).
THEOREM OneHolderHolds == Spec => []OneHolderUnlessOvertaken
<1>1. Inv => OneHolderUnlessOvertaken
  <2> SUFFICES ASSUME Inv, ~overtaken, ~(used["fault"] > 0),
                      NEW g \in Holder, NEW h \in Holder, granted[g] > 0, granted[h] > 0
               PROVE  g = h
    BY DEF OneHolderUnlessOvertaken
  <2>1. Clean  BY DEF Clean, Inv, TypeOK, Ops
  <2>2. Told(IF up THEN book ELSE node)  BY <2>1 DEF Inv, Granted
  <2> QED  BY <2>2 DEF Told
<1> QED  BY <1>1, InvHolds, PTL

\* What a holder was told is what the book says for as long as the process is up, also
\* after a restart: the hours it was given are never cut short by another's release,
\* by an expiry or by the reload of the node.
THEOREM GrantHonouredHolds == Spec => []GrantHonoured
<1>1. Inv => GrantHonoured  BY DEF Inv, Granted, Told, Clean, GrantHonoured
<1> QED  BY <1>1, InvHolds, PTL

\* Whenever nothing is under way every note has its vector and its entities, but those
\* that a lease began or ended beside or that a crash cut off (gpu_lease.rs:23-26,
\* after_release, knowledge/store.rs).
THEOREM BackfilledHolds == Spec => []Backfilled
<1>1. Inv => Backfilled
  <2> SUFFICES ASSUME Inv, Quiet, NEW n \in Note \ straddled
               PROVE  note[n] \in {"absent", "done"}
    BY DEF Backfilled
  <2>1. note[n] \notin {"bare", "embedded", "marking", "extract"}
    BY DEF Quiet, MidStore
  <2>2. ~Awaited(n)  BY DEF Quiet, Awaited
  <2>3. note[n] \notin {"lost", "pending"}  BY <2>2 DEF Inv, Kept, Quiet
  <2> QED  BY <2>1, <2>3 DEF Inv, TypeOK, NotePc
<1> QED  BY <1>1, InvHolds, PTL
=============================================================================
