--------------------------- MODULE RevisionsProofs ---------------------------
(***************************************************************************)
(* Revisions, for every number of requests, operations and starts: its     *)
(* types, its chain of revisions, what an edit keeps of the definition it  *)
(* replaces, and what holds of the object at rest.                         *)
(*                                                                         *)
(* The chain needs to know of every append on its way (Pending) that it    *)
(* has the newest version of some earlier moment and the definition that   *)
(* version still has; the types need to know (Sound) that what writes the  *)
(* file's definition runs only while there is a file.  The rest needs what *)
(* every request has read of the object (Way, Laid), how far the start is  *)
(* (Versioned, Seeded), and who is about to make the newest revision and   *)
(* the live definition agree when they do not (Fixes).                     *)
(***************************************************************************)
EXTENDS Revisions, TLAPS

USE DEF Proc

\* A request that seeds is a reset, or the start; one that appends goes on to where its
\* kind goes on; and what writes the file's definition has one.
Seeding == {"unretire", "reset", "seedread", "seedwrite", "mark", "compare", "prune", "list"}
Sound(p, r) ==
    /\ p # Boot /\ r.pc \in Seeding => r.act = "reset"
    /\ r.act = "reset" => file # NoDef
    /\ r.pc \in {"unretire", "reset", "seedwrite", "mark", "compare"} => file # NoDef
    /\ r.pc \in {"latest", "txn"} =>
          \/ r.then \in {"remember", "retire", "remove", "top"}
          \/ r.then \in {"prune", "list"} /\ (p # Boot => r.act = "reset")

\* What an append in its transaction has read is a version there was, with its definition.
Read(r) == r.pc = "txn" => r.latest \in 0..Top /\ r.prev = DefOf(r.latest)

Pending == \A p \in Proc : Sound(p, at[p]) /\ Read(at[p])

\* The history is an initial segment, each revision linked to the one before it.
Linked == \E n \in Nat :
    /\ DOMAIN hist = 1..n
    /\ \A v \in 1..n : hist[v].prev = DefOf(v - 1)

Inv == TypeOK /\ Linked /\ Pending

\* The newest of the versions from 1 to n is n.
LEMMA Newest ==
    ASSUME NEW n \in Nat, NEW v \in (1..n) \cup {0}, \A u \in 1..n : u <= v
    PROVE  v = n
<1>1. CASE n = 0
  BY <1>1
<1>2. CASE n \in 1..n
  <2>1. n <= v
    BY <1>2
  <2>2. QED
    BY <2>1
<1>3. QED
  BY <1>1, <1>2

\* So a history of the versions from 1 to n is at n.
LEMMA TopIs ==
    ASSUME NEW n \in Nat, DOMAIN hist = 1..n
    PROVE  Top = n
<1>1. n \in DOMAIN hist \cup {0} /\ \A u \in DOMAIN hist : u <= n
  OBVIOUS
<1>2. \A v \in DOMAIN hist \cup {0} : (\A u \in DOMAIN hist : u <= v) => v = n
  BY Newest
<1>3. QED
  BY <1>1, <1>2 DEF Top

\* The same after a step.
LEMMA TopIsNext ==
    ASSUME NEW n \in Nat, DOMAIN hist' = 1..n
    PROVE  Top' = n
<1>1. n \in DOMAIN hist' \cup {0} /\ \A u \in DOMAIN hist' : u <= n
  OBVIOUS
<1>2. \A v \in DOMAIN hist' \cup {0} : (\A u \in DOMAIN hist' : u <= v) => v = n
  BY Newest
<1>3. QED
  BY <1>1, <1>2 DEF Top

\* The newest version is a number, and its definition is one.
LEMMA TopTyped ==
    ASSUME Inv
    PROVE  /\ Top \in Nat
           /\ DefOf(Top) \in Def \cup {NoDef}
           /\ \A v \in 1..Top : v \in DOMAIN hist
           /\ DOMAIN hist = 1..Top
<1>1. PICK n \in Nat : DOMAIN hist = 1..n
  BY DEF Inv, Linked
<1>2. Top = n
  BY <1>1, TopIs
<1>3. QED
  BY <1>1, <1>2 DEF Inv, TypeOK, DefOf, Revision, Version

\* A step that moves one request and no history keeps the invariant.
LEMMA OneMoves ==
    ASSUME Inv, NEW p \in Proc, NEW r \in At, Set(p, r),
           Sound(p, r), Read(r), hist' = hist, file' = file
    PROVE  at' \in [Proc -> At] /\ Linked' /\ Pending'
<1>1. at' \in [Proc -> At]
  BY DEF Inv, TypeOK, Set
<1>2. at'[p] = r /\ \A q \in Proc : q # p => at'[q] = at[q]
  BY DEF Inv, TypeOK, Set
<1>3. Linked'
  BY DEF Inv, Linked, DefOf
<1>4. Top' = Top /\ \A v : DefOf(v)' = DefOf(v)
  BY DEF Top, DefOf
<1>5. Pending'
  BY <1>2, <1>4 DEF Inv, Pending, Sound, Read
<1>6. QED
  BY <1>1, <1>3, <1>5

\* The same of a step to another place.
LEMMA OneGoes ==
    ASSUME Inv, NEW p \in Proc, NEW pc \in Pc \ {"latest", "txn"}, Go(p, pc),
           p # Boot /\ pc \in Seeding => at[p].act = "reset",
           pc \in {"unretire", "reset", "seedwrite", "mark", "compare"} => file # NoDef,
           hist' = hist, file' = file
    PROVE  at' \in [Proc -> At] /\ Linked' /\ Pending'
<1>1. PICK r : r = [at[p] EXCEPT !.pc = pc]
  OBVIOUS
<1>2. at[p] \in At /\ (at[p].act = "reset" => file # NoDef)
  BY DEF Inv, TypeOK, Pending, Sound
<1>3. r \in At /\ r.pc = pc /\ r.act = at[p].act
  BY <1>1, <1>2 DEF At
<1>4. Set(p, r)
  BY <1>1 DEF Go
<1>5. Sound(p, r) /\ Read(r)
  BY <1>2, <1>3 DEF Sound, Read
<1>6. QED
  BY <1>3, <1>4, <1>5, OneMoves

\* And of one that ends a request.
LEMMA OneEnds ==
    ASSUME Inv, NEW p \in Proc, Done(p), hist' = hist, file' = file
    PROVE  at' \in [Proc -> At] /\ Linked' /\ Pending'
<1>1. Idle \in At /\ Sound(p, Idle) /\ Read(Idle) /\ Set(p, Idle)
  BY DEF Idle, At, Pc, Op, Version, Def, Sound, Seeding, Read, Done
<1>2. QED
  BY <1>1, OneMoves

\* What the steps read has its type.
LEMMA Reads ==
    ASSUME Inv
    PROVE  /\ \A p \in Proc : at[p] \in At
           /\ node \in Node /\ memo \in Memo /\ file \in Def \cup {NoDef}
           /\ node.id \in Nat /\ node.src \in BOOLEAN /\ node.yaml \in BOOLEAN
           /\ node.rev \in Nat /\ node.def \in Def /\ LiveVersion \in Nat
           /\ Stored \in Def \cup {NoDef}
BY DEF Inv, TypeOK, Node, Version, LiveVersion, Stored, Memo

\* Steps of a save that write nothing: they move the request.
LEMMA SaveMoves ==
    ASSUME Inv, NEW w \in Worker, Start(w) \/ Prepare(w) \/ Gate(w) \/ Find(w) \/ ReadVersion(w)
    PROVE  at' \in [Proc -> At] /\ Linked' /\ Pending'
<1>1. CASE Start(w)
  <2>1. LiveVersion \in Nat
    BY DEF Inv, TypeOK, LiveVersion, Node, Version
  <2>2. PICK r \in At : Set(w, r) /\ Sound(w, r) /\ Read(r)
    <3> DEFINE begun(act, pc) == [Idle EXCEPT !.act = act, !.pc = pc, !.based = LiveVersion]
    <3>1. ASSUME NEW act \in {"save", "state", "revert", "delete"}, NEW pc \in {"prepare", "find"}
          PROVE  begun(act, pc) \in At /\ Sound(w, begun(act, pc)) /\ Read(begun(act, pc))
      BY <2>1 DEF Idle, At, Pc, Op, Version, Def, Sound, Seeding, Read
    <3>2. CASE Set(w, begun("save", "prepare"))
      BY <3>1, <3>2
    <3>3. CASE Set(w, begun("state", "prepare"))
      BY <3>1, <3>3
    <3>4. CASE Set(w, begun("delete", "find"))
      BY <3>1, <3>4
    <3>5. ASSUME NEW v \in DOMAIN hist, Set(w, [begun("revert", "prepare") EXCEPT !.def = hist[v].def])
          PROVE  \E r \in At : Set(w, r) /\ Sound(w, r) /\ Read(r)
      <4> DEFINE r == [begun("revert", "prepare") EXCEPT !.def = hist[v].def]
      <4>1. hist[v].def \in Def
        BY DEF Inv, TypeOK, Revision
      <4>2. r \in At /\ Sound(w, r) /\ Read(r)
        BY <4>1, <2>1 DEF Idle, At, Pc, Op, Version, Def, Sound, Seeding, Read
      <4>3. QED
        BY <4>2, <3>5
    <3>6. CASE /\ file # NoDef
               /\ Set(w, begun("reset", IF kind = "program" THEN "unretire" ELSE "reset"))
      <4> DEFINE r == begun("reset", IF kind = "program" THEN "unretire" ELSE "reset")
      <4>1. r \in At /\ Sound(w, r) /\ Read(r)
        BY <2>1, <3>6 DEF Idle, At, Pc, Op, Version, Def, Sound, Seeding, Read
      <4>2. QED
        BY <4>1, <3>6
    <3>7. QED
      BY <1>1, <3>2, <3>3, <3>4, <3>5, <3>6 DEF Start
  <2>3. QED
    BY <1>1, <2>2, OneMoves DEF Start
<1>2. CASE Prepare(w)
  <2>1. CASE Done(w)
    BY <1>2, <2>1, OneEnds DEF Prepare
  <2>2. CASE ~Done(w)
    <3> DEFINE base == Stored
               def  == IF at[w].act = "revert" THEN at[w].def
                       ELSE (IF base = NoDef THEN {} ELSE base)
                            \cup (IF at[w].act = "save" THEN {w} ELSE {})
               changed == base = NoDef \/ def # base
               r(own) == [at[w] EXCEPT !.pc = IF changed THEN "gate" ELSE "plain", !.base = base,
                            !.def = def, !.id = node.id, !.src = node.src, !.yaml = own]
    <3>1. PICK own \in Owners(changed) : Set(w, r(own))
      BY <1>2, <2>2 DEF Prepare
    <3>2. own \in BOOLEAN
      BY Reads DEF Owners
    <3>3. base \in Def \cup {NoDef}
      BY Reads
    <3>4. def \in Def
      BY <3>3, Reads DEF Def, At
    <3>5. PICK pc \in {"gate", "plain"} : pc = IF changed THEN "gate" ELSE "plain"
      OBVIOUS
    <3> HIDE DEF base, def, changed
    <3>6. PICK n : n = [at[w] EXCEPT !.pc = pc, !.base = base, !.def = def, !.id = node.id,
                                     !.src = node.src, !.yaml = own]
      OBVIOUS
    <3>7. n \in At /\ n.act = at[w].act /\ n.pc = pc
      <4>1. at[w] \in At /\ node.id \in Nat /\ node.src \in BOOLEAN
        BY Reads
      <4>2. QED
        BY <3>2, <3>3, <3>4, <3>6, <4>1 DEF At, Pc, Version
    <3>8. Sound(w, n) /\ Read(n)
      BY <3>7 DEF Inv, Pending, Sound, Seeding, Read
    <3>9. Set(w, n)
      BY <3>1, <3>5, <3>6
    <3>10. QED
      BY <1>2, <3>7, <3>8, <3>9, OneMoves DEF Prepare
  <2>3. QED
    BY <2>1, <2>2
<1>3. CASE Gate(w)
  <2>1. CASE Done(w)
    BY <1>3, <2>1, OneEnds DEF Gate
  <2>2. CASE ~Done(w)
    <3>1. PICK op \in Op : op = IF at[w].act = "revert" THEN "revert" ELSE "save"
      BY DEF Op
    <3>2. PICK r : r = [at[w] EXCEPT !.pc = "latest", !.current = LiveVersion,
                                     !.then = "remember", !.op = op]
      OBVIOUS
    <3>3. Set(w, r)
      BY <1>3, <2>2, <3>1, <3>2 DEF Gate
    <3>4. r \in At /\ r.pc = "latest" /\ r.then = "remember" /\ r.act = at[w].act
      <4>1. at[w] \in At /\ LiveVersion \in Nat
        BY Reads
      <4>2. QED
        BY <3>2, <4>1 DEF At, Pc, Version
    <3>5. Sound(w, r) /\ Read(r)
      BY <3>4 DEF Inv, Pending, Sound, Seeding, Read
    <3>6. QED
      BY <1>3, <3>3, <3>4, <3>5, OneMoves DEF Gate
  <2>3. QED
    BY <2>1, <2>2
<1>4. CASE Find(w)
  <2>1. CASE Done(w)
    BY <1>4, <2>1, OneEnds DEF Find
  <2>2. CASE ~Done(w)
    <3>1. PICK r : r = [at[w] EXCEPT !.pc = "version", !.id = node.id, !.src = node.src]
      OBVIOUS
    <3>2. Set(w, r)
      BY <1>4, <2>2, <3>1 DEF Find
    <3>3. r \in At /\ r.pc = "version" /\ r.act = at[w].act
      <4>1. at[w] \in At /\ node.id \in Nat /\ node.src \in BOOLEAN
        BY Reads
      <4>2. QED
        BY <3>1, <4>1 DEF At, Pc, Version
    <3>4. Sound(w, r) /\ Read(r)
      BY <3>3 DEF Inv, Pending, Sound, Seeding, Read
    <3>5. QED
      BY <1>4, <3>2, <3>3, <3>4, OneMoves DEF Find
  <2>3. QED
    BY <2>1, <2>2
<1>5. CASE ReadVersion(w)
  <2>1. PICK then \in {"retire", "remove"} :
            then = IF kind = "program" /\ at[w].src THEN "retire" ELSE "remove"
    OBVIOUS
  <2>2. PICK r : r = [at[w] EXCEPT !.pc = "latest", !.current = LiveVersion, !.op = "delete",
                                   !.then = then]
    OBVIOUS
  <2>3. Set(w, r)
    BY <1>5, <2>1, <2>2 DEF ReadVersion
  <2>4. r \in At /\ r.pc = "latest" /\ r.then = then /\ r.act = at[w].act
    <3>1. at[w] \in At /\ LiveVersion \in Version
      BY Reads DEF Version
    <3>2. "latest" \in Pc /\ then \in Pc /\ "delete" \in Op
      BY <2>1 DEF Pc, Op
    <3>3. QED
      BY <2>2, <3>1, <3>2 DEF At
  <2>5. Sound(w, r) /\ Read(r)
    BY <2>4 DEF Inv, Pending, Sound, Seeding, Read
  <2>6. QED
    BY <1>5, <2>3, <2>4, <2>5, OneMoves DEF ReadVersion
<1>6. QED
  BY <1>1, <1>2, <1>3, <1>4, <1>5

\* The writes of a save, of a delete and of a reset.
LEMMA WriteMoves ==
    ASSUME Inv, NEW w \in Worker,
           Plain(w) \/ Retire(w) \/ Remove(w) \/ Unretire(w) \/ Reset(w)
    PROVE  at' \in [Proc -> At] /\ Linked' /\ Pending'
<1>1. CASE Plain(w)
  BY <1>1, OneGoes DEF Plain, Pc, Seeding
<1>2. CASE Retire(w)
  BY <1>2, OneGoes DEF Retire, Pc, Seeding
<1>3. CASE Remove(w)
  BY <1>3, OneGoes DEF Remove, Pc, Seeding
<1>4. w # Boot /\ Sound(w, at[w])
  BY RevisionsAssumption DEF Inv, Pending
<1>5. CASE Unretire(w)
  <2>1. at[w].act = "reset" /\ file # NoDef
    BY <1>4, <1>5 DEF Unretire, Sound, Seeding
  <2>2. QED
    BY <1>5, <2>1, OneGoes DEF Unretire, Pc
<1>6. CASE Reset(w)
  <2>1. at[w].act = "reset" /\ file # NoDef
    BY <1>4, <1>6 DEF Reset, Sound, Seeding
  <2>2. PICK pc \in {"seedread", "mark"} : pc = IF kind = "profile" THEN "seedread" ELSE "mark"
    OBVIOUS
  <2>3. Go(w, pc)
    BY <1>6, <2>2 DEF Reset
  <2>4. QED
    BY <1>6, <2>1, <2>3, OneGoes DEF Reset, Pc
<1>7. QED
  BY <1>1, <1>2, <1>3, <1>5, <1>6

\* What the start and a reset do before and after their revision, and the steps they
\* share with saves.
LEMMA SeedMoves ==
    ASSUME Inv, NEW p \in Proc,
           \/ Remember(p) \/ Forget(p) \/ SeedRead(p) \/ SeedWrite(p) \/ Mark(p) \/ Prune(p)
    PROVE  at' \in [Proc -> At] /\ Linked' /\ Pending'
<1>1. CASE Remember(p)
  BY <1>1, OneEnds DEF Remember
<1>2. CASE Forget(p)
  BY <1>2, OneEnds DEF Forget
<1>3. Sound(p, at[p])
  BY DEF Inv, Pending
<1>4. CASE SeedRead(p)
  <2>1. p # Boot => at[p].act = "reset"
    BY <1>3, <1>4 DEF SeedRead, Sound, Seeding
  <2>2. PICK pc \in {"mark", "prune", "seedwrite"} :
            pc = IF file # NoDef /\ node.there /\ ~node.yaml THEN "mark"
                 ELSE IF file = NoDef \/ retired THEN "prune" ELSE "seedwrite"
    OBVIOUS
  <2>3. Go(p, pc)
    BY <1>4, <2>2 DEF SeedRead
  <2>4. pc # "prune" => file # NoDef
    BY <2>2
  <2>5. QED
    BY <1>4, <2>1, <2>3, <2>4, OneGoes DEF SeedRead, Pc
<1>5. CASE SeedWrite(p)
  <2>1. (p # Boot => at[p].act = "reset") /\ file # NoDef
    BY <1>3, <1>5 DEF SeedWrite, Sound, Seeding
  <2>2. QED
    BY <1>5, <2>1, OneGoes DEF SeedWrite, Pc
<1>6. CASE Mark(p)
  <2>1. (p # Boot => at[p].act = "reset") /\ file # NoDef
    BY <1>3, <1>6 DEF Mark, Sound, Seeding
  <2>2. AfterSeed(p) \in {"list", "prune"}
    BY DEF AfterSeed
  <2>3. CASE ~node.there
    BY <1>6, <2>1, <2>2, <2>3, OneGoes DEF Mark, Pc
  <2>4. CASE node.there
    <3>1. PICK pc \in {"compare", "list", "prune"} :
              pc = IF node.yaml THEN "compare" ELSE AfterSeed(p)
      BY <2>2
    <3>2. PICK r : r = [at[p] EXCEPT !.pc = pc, !.current = node.rev]
      OBVIOUS
    <3>3. Set(p, r)
      BY <1>6, <2>4, <3>1, <3>2 DEF Mark
    <3>4. at[p] \in At /\ node.rev \in Nat
      BY Reads
    <3>5. r \in At /\ r.pc = pc /\ r.act = at[p].act
      BY <3>2, <3>4 DEF At, Pc, Version
    <3>6. Sound(p, r) /\ Read(r)
      BY <2>1, <3>5 DEF Sound, Read
    <3>7. QED
      BY <1>6, <3>3, <3>5, <3>6, OneMoves DEF Mark
  <2>5. QED
    BY <2>3, <2>4
<1>7. CASE Prune(p)
  <2>1. p # Boot => at[p].act = "reset"
    BY <1>3, <1>7 DEF Prune, Sound, Seeding
  <2>2. QED
    BY <1>7, <2>1, OneGoes DEF Prune, Pc
<1>8. QED
  BY <1>1, <1>2, <1>4, <1>5, <1>6, <1>7

\* The steps that look at the newest revision: record_seed's and reconcile's.
LEMMA JudgeMoves ==
    ASSUME Inv, NEW p \in Proc,
           Compare(p) \/ List(p) \/ Row(p) \/ Judge(p) \/ ReadTop(p) \/ Stamp(p) \/ Load(p)
    PROVE  at' \in [Proc -> At] /\ Linked' /\ Pending'
<1>1. Sound(p, at[p]) /\ at[p] \in At
  BY Reads DEF Inv, Pending
<1>2. CASE Compare(p)
  <2>1. (p # Boot => at[p].act = "reset") /\ file \in Def
    BY <1>1, <1>2, Reads DEF Compare, Sound, Seeding
  <2>2. PICK then \in {"list", "prune"} : then = AfterSeed(p)
    BY DEF AfterSeed
  <2>3. CASE DefOf(Top) = file
    <3>1. Go(p, then)
      BY <1>2, <2>2, <2>3 DEF Compare, Go
    <3>2. QED
      BY <1>2, <2>1, <2>2, <3>1, OneGoes DEF Compare, Pc
  <2>4. CASE DefOf(Top) # file
    <3>1. PICK r : r = [at[p] EXCEPT !.pc = "latest", !.op = "seed", !.def = file, !.then = then]
      OBVIOUS
    <3>2. Set(p, r)
      BY <1>2, <2>2, <2>4, <3>1 DEF Compare
    <3>3. r \in At /\ r.pc = "latest" /\ r.act = at[p].act /\ r.then = then
      <4>1. "latest" \in Pc /\ then \in Pc /\ "seed" \in Op
        BY <2>2 DEF Pc, Op
      <4>2. QED
        BY <1>1, <2>1, <3>1, <4>1 DEF At
    <3>4. Sound(p, r) /\ Read(r)
      BY <1>1, <2>1, <3>3 DEF Sound, Seeding, Read
    <3>5. QED
      BY <1>2, <3>2, <3>3, <3>4, OneMoves DEF Compare
  <2>5. QED
    BY <2>3, <2>4
<1>3. CASE List(p)
  <2>1. p # Boot => at[p].act = "reset" /\ file \in Def
    BY <1>1, <1>3, Reads DEF List, Sound, Seeding
  <2>2. CASE Go(p, "load")
    BY <1>3, <2>2, OneGoes DEF List, Pc, Seeding
  <2>3. ASSUME NEW def \in Def, Set(p, [at[p] EXCEPT !.pc = "row", !.def = def])
        PROVE  at' \in [Proc -> At] /\ Linked' /\ Pending'
    <3>1. PICK r : r = [at[p] EXCEPT !.pc = "row", !.def = def]
      OBVIOUS
    <3>2. r \in At /\ r.pc = "row" /\ r.act = at[p].act
      BY <1>1, <3>1 DEF At, Pc
    <3>3. Sound(p, r) /\ Read(r)
      BY <1>1, <3>2 DEF Sound, Seeding, Read
    <3>4. QED
      BY <1>3, <2>3, <3>1, <3>2, <3>3, OneMoves DEF List
  <2>4. node.def \in Def
    BY Reads
  <2>5. QED
    BY <1>3, <2>1, <2>2, <2>3, <2>4 DEF List
<1>4. CASE Row(p)
  <2>1. CASE Go(p, "load")
    BY <1>4, <2>1, OneGoes DEF Row, Pc, Seeding
  <2>2. CASE node.there
    <3>1. PICK caught \in BOOLEAN : caught = (~node.yaml /\ node.seed = at[p].def)
      OBVIOUS
    <3>2. PICK r : r = [at[p] EXCEPT !.pc = "judge", !.current = node.rev, !.caught = caught]
      OBVIOUS
    <3>3. Set(p, r)
      BY <1>4, <2>2, <3>1, <3>2 DEF Row
    <3>4. node.rev \in Nat
      BY Reads
    <3>5. r \in At /\ r.pc = "judge" /\ r.act = at[p].act
      BY <1>1, <3>2, <3>4 DEF At, Pc, Version
    <3>6. Sound(p, r) /\ Read(r)
      BY <1>1, <3>5 DEF Sound, Seeding, Read
    <3>7. QED
      BY <1>4, <3>3, <3>5, <3>6, OneMoves DEF Row
  <2>3. QED
    BY <1>4, <2>1, <2>2 DEF Row
<1>5. CASE Judge(p)
  <2>1. CASE ~(Top = 0 \/ Differs(p))
    <3>1. Go(p, "top")
      BY <1>5, <2>1 DEF Judge, Go
    <3>2. QED
      BY <1>5, <3>1, OneGoes DEF Judge, Pc, Seeding
  <2>2. CASE Top = 0 \/ Differs(p)
    <3>1. PICK op \in {"baseline", "outside"} : op = IF Top = 0 THEN "baseline" ELSE "outside"
      OBVIOUS
    <3>2. PICK r : r = [at[p] EXCEPT !.pc = "latest", !.then = "top", !.op = op]
      OBVIOUS
    <3>3. Set(p, r)
      BY <1>5, <2>2, <3>1, <3>2 DEF Judge
    <3>4. r \in At /\ r.pc = "latest" /\ r.act = at[p].act /\ r.then = "top"
      <4>1. "latest" \in Pc /\ "top" \in Pc /\ op \in Op
        BY <3>1 DEF Pc, Op
      <4>2. QED
        BY <1>1, <3>2, <4>1 DEF At
    <3>5. Sound(p, r) /\ Read(r)
      BY <1>1, <3>4 DEF Sound, Seeding, Read
    <3>6. QED
      BY <1>5, <3>3, <3>4, <3>5, OneMoves DEF Judge
  <2>3. QED
    BY <2>1, <2>2
<1>6. CASE ReadTop(p)
  <2>1. PICK r : r = [at[p] EXCEPT !.pc = "stamp", !.latest = Top]
    OBVIOUS
  <2>2. Set(p, r) /\ Top \in Nat
    BY <1>6, <2>1, TopTyped DEF ReadTop
  <2>3. r \in At /\ r.pc = "stamp" /\ r.act = at[p].act
    BY <1>1, <2>1, <2>2 DEF At, Pc, Version
  <2>4. Sound(p, r) /\ Read(r)
    BY <1>1, <2>3 DEF Sound, Seeding, Read
  <2>5. QED
    BY <1>6, <2>2, <2>3, <2>4, OneMoves DEF ReadTop
<1>7. CASE Stamp(p)
  BY <1>7, OneGoes DEF Stamp, Pc, Seeding
<1>8. CASE Load(p)
  <2>1. CASE Done(p)
    BY <1>8, <2>1, OneEnds DEF Load
  <2>2. CASE Go(p, "forget")
    BY <1>8, <2>2, OneGoes DEF Load, Pc, Seeding
  <2>3. PICK r : r = [at[p] EXCEPT !.pc = "remember", !.def = node.def, !.yaml = node.yaml]
    OBVIOUS
  <2>4. CASE Set(p, r)
    <3>1. node.def \in Def /\ node.yaml \in BOOLEAN
      BY Reads
    <3>2. r \in At /\ r.pc = "remember" /\ r.act = at[p].act
      BY <1>1, <2>3, <3>1 DEF At, Pc
    <3>3. Sound(p, r) /\ Read(r)
      BY <1>1, <3>2 DEF Sound, Seeding, Read
    <3>4. QED
      BY <1>8, <2>4, <3>2, <3>3, OneMoves DEF Load
  <2>5. QED
    BY <1>8, <2>1, <2>2, <2>3, <2>4 DEF Load
<1>9. QED
  BY <1>2, <1>3, <1>4, <1>5, <1>6, <1>7, <1>8

\* append_revision reads the newest revision,
LEMMA LatestMoves ==
    ASSUME Inv, NEW p \in Proc, Latest(p)
    PROVE  at' \in [Proc -> At] /\ Linked' /\ Pending'
<1>1. PICK r : r = [at[p] EXCEPT !.pc = "txn", !.latest = Top, !.prev = DefOf(Top)]
  OBVIOUS
<1>2. Set(p, r)
  BY <1>1 DEF Latest
<1>3. at[p] \in At /\ Top \in Nat /\ DefOf(Top) \in Def \cup {NoDef}
  BY Reads, TopTyped
<1>4. r \in At /\ r.pc = "txn" /\ r.act = at[p].act /\ r.then = at[p].then
      /\ r.latest = Top /\ r.prev = DefOf(Top)
  BY <1>1, <1>3 DEF At, Pc, Version
<1>5. Sound(p, r) /\ Read(r)
  BY <1>3, <1>4 DEF Latest, Inv, Pending, Sound, Seeding, Read
<1>6. QED
  BY <1>2, <1>4, <1>5, OneMoves DEF Latest

\* and adds the next to the history as it is, or nothing.
LEMMA TxnMoves ==
    ASSUME Inv, NEW p \in Proc, Txn(p)
    PROVE  /\ at' \in [Proc -> At] /\ Linked' /\ Pending'
           /\ DOMAIN hist' \subseteq Version \ {0} /\ \A v \in DOMAIN hist' : hist'[v] \in Revision
<1>1. Sound(p, at[p]) /\ Read(at[p]) /\ at[p] \in At /\ at[p].pc = "txn"
  BY Reads DEF Inv, Pending, Txn
<1>2. at[p].then \in Pc \ {"latest", "txn"}
  BY <1>1 DEF Sound, Pc
<1>3. /\ p # Boot /\ at[p].then \in Seeding => at[p].act = "reset"
      /\ at[p].then \notin {"unretire", "reset", "seedwrite", "mark", "compare"}
  BY <1>1 DEF Sound, Seeding
<1>4. CASE hist' = hist
  <2>1. CASE Done(p)
    BY <1>4, <2>1, OneEnds DEF Txn, Inv, TypeOK
  <2>2. CASE Go(p, at[p].then)
    BY <1>2, <1>3, <1>4, <2>2, OneGoes DEF Txn, Inv, TypeOK
  <2>3. QED
    BY <2>1, <2>2 DEF Txn
<1>5. CASE Lands(p)
  <2>1. /\ Top \in Nat /\ DOMAIN hist = 1..Top
        /\ \A v \in 1..Top : hist[v] \in Revision /\ hist[v].prev = DefOf(v - 1)
    <3>1. PICK n \in Nat : DOMAIN hist = 1..n /\ \A v \in 1..n : hist[v].prev = DefOf(v - 1)
      BY DEF Inv, Linked
    <3>2. QED
      BY <3>1, TopIs DEF Inv, TypeOK
  <2>2. at[p].latest = Top /\ at[p].prev = DefOf(Top)
    BY <1>1, <1>5, <2>1 DEF Read, Lands, UidNew
  <2>3. PICK new : /\ hist' = [u \in DOMAIN hist \cup {Top + 1} |-> IF u = Top + 1 THEN new ELSE hist[u]]
                   /\ new.prev = DefOf(Top) /\ new \in Revision
    <3>1. PICK def \in Def : def = IF at[p].op = "delete" THEN {} ELSE at[p].def
      BY <1>1 DEF At, Def
    <3>2. PICK based \in Nat :
            based = IF Creates(p) THEN 0 ELSE IF Writes(p) THEN at[p].based
                    ELSE IF at[p].op = "delete" THEN at[p].current ELSE 0
      BY <1>1 DEF At, Version
    <3> DEFINE new == [def |-> def, prev |-> at[p].prev, op |-> at[p].op, based |-> based]
    <3>3. hist' = [u \in DOMAIN hist \cup {Top + 1} |-> IF u = Top + 1 THEN new ELSE hist[u]]
      BY <1>5, <2>2, <3>1, <3>2 DEF Txn, Extended
    <3>4. new.prev = DefOf(Top) /\ new \in Revision
      BY <1>1, <2>2 DEF At, Revision, Version
    <3>5. QED
      BY <3>3, <3>4
  <2>4. DOMAIN hist' = 1..(Top + 1)
    BY <2>1, <2>3
  <2>5. \A v \in 1..Top : hist'[v] = hist[v]
    BY <2>1, <2>3
  <2>6. hist'[Top + 1] = new
    BY <2>1, <2>3
  <2>7. \A v \in 0..Top : DefOf(v)' = DefOf(v)
    BY <2>1, <2>5 DEF DefOf
  <2>8. Linked'
    <3>1. Top + 1 \in Nat
      BY <2>1
    <3>2. ASSUME NEW v \in 1..(Top + 1)
          PROVE  hist'[v].prev = DefOf(v - 1)'
      <4>1. CASE v = Top + 1
        BY <2>1, <2>3, <2>6, <2>7, <4>1
      <4>2. CASE v \in 1..Top
        BY <2>1, <2>5, <2>7, <4>2
      <4>3. QED
        BY <2>1, <4>1, <4>2
    <3>3. QED
      BY <2>4, <3>1, <3>2 DEF Linked
  <2>9. Top' = Top + 1
    BY <2>1, <2>4, TopIsNext
  <2>10. Go(p, at[p].then)
    BY <1>5 DEF Txn
  <2>11. PICK r : r = [at[p] EXCEPT !.pc = at[p].then]
    OBVIOUS
  <2>12. r \in At /\ r.pc = at[p].then /\ r.act = at[p].act
    BY <1>1, <1>2, <2>11 DEF At
  <2>13. at' \in [Proc -> At] /\ at'[p] = r /\ \A q \in Proc : q # p => at'[q] = at[q]
    BY <2>10, <2>11, <2>12 DEF Go, Set, Inv, TypeOK
  <2>14. Pending'
    <3>1. ASSUME NEW q \in Proc
          PROVE  (Sound(q, at[q]) /\ Read(at[q]))'
      <4>1. CASE q = p
        BY <1>1, <1>2, <1>3, <2>12, <2>13, <4>1 DEF Sound, Read, Txn
      <4>2. CASE q # p
        <5>1. Sound(q, at[q]) /\ Read(at[q]) /\ at'[q] = at[q] /\ file' = file
          BY <2>13, <4>2 DEF Inv, Pending, Txn
        <5>2. QED
          BY <2>1, <2>7, <2>9, <5>1 DEF Sound, Read
      <4>3. QED
        BY <4>1, <4>2
    <3>2. QED
      BY <3>1 DEF Pending
  <2>15. \A v \in DOMAIN hist' : hist'[v] \in Revision
    BY <2>1, <2>3, <2>4, <2>5, <2>6
  <2>16. QED
    BY <2>1, <2>4, <2>8, <2>13, <2>14, <2>15 DEF Version
<1>6. QED
  BY <1>4, <1>5 DEF Txn, Inv, TypeOK

\* The object keeps its type.
LEMMA NodeTyped ==
    ASSUME Inv, NEW p \in Proc, Step(p) \/ (p \in Worker /\ Request(p))
    PROVE  node' \in Node
<1> USE DEF Version
<1>1. node \in Node /\ at[p] \in At /\ Sound(p, at[p])
  BY Reads DEF Inv, Pending
<1>2. NoNode \in Node
  BY DEF NoNode, Node, Def
<1>3. CASE Txn(p)
  <2>1. CASE node' = node
    BY <1>1, <2>1
  <2>2. CASE node' = Written(p)
    <3>1. at[p].latest + 1 \in Nat /\ at[p].def \in Def /\ at[p].yaml \in BOOLEAN
          /\ at[p].src \in BOOLEAN
      BY <1>1 DEF At
    <3>2. CASE Writes(p)
      <4>1. PICK id \in Nat : id = IF node.there THEN node.id ELSE at[p].latest + 1
        BY <3>1, Reads
      <4>2. node.seed \in Def \cup {NoDef}
        BY <1>1 DEF Node
      <4>3. node' = [there |-> TRUE, id |-> id, def |-> at[p].def, rev |-> at[p].latest + 1,
                     yaml |-> at[p].yaml, src |-> at[p].src, seed |-> node.seed]
        BY <2>2, <3>2, <4>1 DEF Written
      <4>4. QED
        BY <3>1, <4>1, <4>2, <4>3 DEF Node
    <3>3. CASE ~Writes(p)
      <4>1. node' = [node EXCEPT !.rev = at[p].latest + 1]
        BY <2>2, <3>3 DEF Written
      <4>2. QED
        BY <1>1, <3>1, <4>1 DEF Node
    <3>4. QED
      BY <3>2, <3>3
  <2>3. QED
    BY <1>3, <2>1, <2>2 DEF Txn
<1>4. CASE p \in Worker /\ Plain(p)
  <2>1. at[p].def \in Def /\ at[p].yaml \in BOOLEAN /\ at[p].src \in BOOLEAN
    BY <1>1 DEF At
  <2>2. CASE node' = node
    BY <1>1, <2>2
  <2>3. CASE node' = [node EXCEPT !.def = at[p].def, !.yaml = at[p].yaml, !.src = at[p].src]
    BY <1>1, <2>1, <2>3 DEF Node
  <2>4. CASE node' = [NoNode EXCEPT !.there = TRUE, !.def = at[p].def, !.yaml = at[p].yaml,
                                    !.src = at[p].src]
    BY <1>2, <2>1, <2>4 DEF Node
  <2>5. QED
    BY <1>4, <2>2, <2>3, <2>4 DEF Plain
<1>5. CASE node' = FromFile /\ file # NoDef
  <2>1. file \in Def
    BY <1>5, Reads
  <2>2. QED
    BY <1>1, <1>5, <2>1 DEF FromFile, Node
<1>6. CASE p \in Worker /\ Reset(p)
  BY <1>1, <1>5, <1>6 DEF Reset, Sound
<1>7. CASE SeedWrite(p)
  BY <1>1, <1>5, <1>7 DEF SeedWrite, Sound
<1>8. CASE Mark(p)
  <2>1. CASE node' = node
    BY <1>1, <2>1
  <2>2. CASE node' = [node EXCEPT !.seed = file]
    <3>1. file \in Def \cup {NoDef}
      BY Reads
    <3>2. QED
      BY <1>1, <2>2, <3>1 DEF Node
  <2>3. QED
    BY <1>8, <2>1, <2>2 DEF Mark
<1>9. CASE Stamp(p)
  <2>1. CASE node' = node
    BY <1>1, <2>1
  <2>2. CASE node' = [node EXCEPT !.rev = at[p].latest, !.yaml = @ \/ at[p].caught]
    <3>1. PICK yaml \in BOOLEAN : yaml = (node.yaml \/ at[p].caught)
      OBVIOUS
    <3>2. at[p].latest \in Nat
      BY <1>1 DEF At
    <3>3. node' = [node EXCEPT !.rev = at[p].latest, !.yaml = yaml]
      BY <2>2, <3>1
    <3>4. QED
      BY <1>1, <3>1, <3>2, <3>3 DEF Node
  <2>3. QED
    BY <1>9, <2>1, <2>2 DEF Stamp
<1>10. CASE Prune(p)
  BY <1>1, <1>2, <1>10 DEF Prune
<1>11. CASE p \in Worker /\ Remove(p)
  BY <1>1, <1>2, <1>11 DEF Remove
<1>12. CASE node' = node
  BY <1>1, <1>12
<1>13. QED
  BY <1>3, <1>4, <1>6, <1>7, <1>8, <1>9, <1>10, <1>11, <1>12
     DEF Step, Request, Latest, Remember, Forget, SeedRead, Compare, List, Row, Judge, ReadTop,
         Load, Start, Prepare, Gate, Find, ReadVersion, Retire, Unretire

\* So does all that is beside the object, its history and the requests.
LEMMA RestTyped ==
    ASSUME Inv, NEW p \in Proc, Step(p) \/ (p \in Worker /\ Request(p))
    PROVE  /\ kind' \in Kinds /\ memo' \in Memo /\ file' \in Def \cup {NoDef}
           /\ retired' \in BOOLEAN
           /\ slip' \subseteq {"undone", "stale", "restamped", "outside", "kept", "rewritten"}
           /\ ops' \in 0..MaxOps /\ starts' \in 0..MaxStarts
<1>1. kind' = kind /\ file' = file /\ starts' = starts
  BY DEF Step, Request, Latest, Txn, Remember, Forget, SeedRead, SeedWrite, Mark, Compare, Prune,
         List, Row, Judge, ReadTop, Stamp, Load, Start, Prepare, Gate, Plain, Find, ReadVersion,
         Retire, Remove, Unretire, Reset
<1>2. ops' \in 0..MaxOps
  <2>1. ops' = ops \/ (ops < MaxOps /\ ops' = ops + 1)
    BY DEF Step, Request, Latest, Txn, Remember, Forget, SeedRead, SeedWrite, Mark, Compare,
           Prune, List, Row, Judge, ReadTop, Stamp, Load, Start, Prepare, Gate, Plain, Find,
           ReadVersion, Retire, Remove, Unretire, Reset
  <2>2. ops \in 0..MaxOps /\ MaxOps \in Nat
    BY RevisionsAssumption DEF Inv, TypeOK
  <2>3. QED
    BY <2>1, <2>2
<1>3. retired' \in BOOLEAN
  <2>1. retired' \in {retired, TRUE, FALSE}
    BY DEF Step, Request, Latest, Txn, Remember, Forget, SeedRead, SeedWrite, Mark, Compare,
           Prune, List, Row, Judge, ReadTop, Stamp, Load, Start, Prepare, Gate, Plain, Find,
           ReadVersion, Retire, Remove, Unretire, Reset
  <2>2. QED
    BY <2>1 DEF Inv, TypeOK
<1>4. memo' \in Memo
  <2>1. memo \in Memo /\ NoMemo \in Memo
    BY DEF Inv, TypeOK, NoMemo, Memo
  <2>2. [def |-> at[p].def, yaml |-> at[p].yaml] \in Memo
    BY Reads DEF At, Memo
  <2>3. memo' \in {memo, NoMemo, [def |-> at[p].def, yaml |-> at[p].yaml]}
    BY DEF Step, Request, Latest, Txn, Remember, Forget, SeedRead, SeedWrite, Mark, Compare,
           Prune, List, Row, Judge, ReadTop, Stamp, Load, Start, Prepare, Gate, Plain, Find,
           ReadVersion, Retire, Remove, Unretire, Reset
  <2>4. QED
    BY <2>1, <2>2, <2>3
<1>5. slip' \subseteq slip \cup {"undone", "stale", "restamped", "outside", "kept", "rewritten"}
  BY DEF Slips, Step, Request, Latest, Txn, Remember, Forget, SeedRead, SeedWrite, Mark, Compare,
         Prune, List, Row, Judge, ReadTop, Stamp, Load, Start, Prepare, Gate, Plain, Find,
         ReadVersion, Retire, Remove, Unretire, Reset
<1>6. QED
  BY <1>1, <1>2, <1>3, <1>4, <1>5 DEF Inv, TypeOK

\* Every step of a request or of a start keeps the invariant.
LEMMA StepKeeps ==
    ASSUME Inv, NEW p \in Proc, Step(p) \/ (p \in Worker /\ Request(p))
    PROVE  Inv'
<1>1. at' \in [Proc -> At] /\ Linked' /\ Pending'
  BY SaveMoves, WriteMoves, SeedMoves, JudgeMoves, LatestMoves, TxnMoves DEF Step, Request
<1>2. DOMAIN hist' \subseteq Version \ {0} /\ \A v \in DOMAIN hist' : hist'[v] \in Revision
  <2>1. CASE Txn(p)
    BY <2>1, TxnMoves
  <2>2. CASE hist' = hist
    BY <2>2 DEF Inv, TypeOK
  <2>3. QED
    BY <2>1, <2>2
       DEF Step, Request, Latest, Remember, Forget, SeedRead, SeedWrite, Mark, Compare, Prune,
           List, Row, Judge, ReadTop, Stamp, Load, Start, Prepare, Gate, Plain, Find,
           ReadVersion, Retire, Remove, Unretire, Reset
<1>3. QED
  BY <1>1, <1>2, NodeTyped, RestTyped DEF Inv, TypeOK

\* What a start begins with.
LEMMA StartedSound == ASSUME NEW q \in Proc PROVE Started[q] \in At /\ Sound(q, Started[q]) /\ Read(Started[q])
<1>1. Idle \in At
  BY DEF Idle, At, Pc, Op, Version, Def
<1>2. CASE q = Boot
  <2>1. PICK r : r = [Idle EXCEPT !.pc = "seedread", !.act = "boot"]
    OBVIOUS
  <2>2. r \in At /\ r.pc = "seedread" /\ r.act = "boot"
    BY <1>1, <2>1 DEF At, Pc
  <2>3. Started[q] = r
    BY <1>2, <2>1 DEF Started
  <2>4. QED
    BY <1>2, <2>2, <2>3 DEF Sound, Read
<1>3. CASE q # Boot
  <2>1. Started[q] = Idle /\ Idle.pc = "idle" /\ Idle.act = "none"
    BY <1>3 DEF Started, Idle
  <2>2. QED
    BY <1>1, <2>1 DEF Sound, Seeding, Read
<1>4. QED
  BY <1>2, <1>3

\* So does a restart, which keeps the graph and drops all that was on its way.
LEMMA RestartKeeps ==
    ASSUME Inv, Restart
    PROVE  Inv'
<1>1. at' \in [Proc -> At]
  BY StartedSound DEF Restart, Started
<1>2. Linked'
  BY DEF Inv, Restart, Linked, DefOf
<1>3. Pending'
  <2>1. \A q \in Proc : Started[q].act # "reset" /\ Started[q].pc \in {"idle", "seedread"}
                        /\ (q # Boot => Started[q].pc = "idle")
    BY DEF Started, Idle
  <2>2. QED
    BY <2>1 DEF Restart, Pending, Sound, Seeding, Read
<1>4. file' \in Def \cup {NoDef} /\ memo' \in Memo
  BY Reads DEF Restart, NoMemo, Memo
<1>5. starts' \in 0..MaxStarts
  BY RevisionsAssumption DEF Restart, Inv, TypeOK
<1>6. QED
  BY <1>1, <1>2, <1>3, <1>4, <1>5 DEF Restart, Inv, TypeOK

\* It holds at first.
LEMMA InitSound == ASSUME Init PROVE Inv
<1>1. at \in [Proc -> At] /\ Pending
  BY StartedSound DEF Init, Started, Pending
<1>2. hist = [v \in {} |-> [def |-> {}, prev |-> NoDef, op |-> "save", based |-> 0]]
  BY DEF Init
<1>3. DOMAIN hist = {} /\ 1..0 = {} /\ 0 \in Nat
  BY <1>2
<1>4. Linked
  BY <1>3 DEF Linked
<1>5. node \in Node /\ memo \in Memo
  BY DEF Init, NoNode, Node, Version, NoMemo, Memo, Def
<1>6. file \in Def \cup {NoDef}
  BY DEF Init, Def
<1>7. ops \in 0..MaxOps /\ starts \in 0..MaxStarts
  BY RevisionsAssumption DEF Init
<1>8. kind \in Kinds /\ retired \in BOOLEAN /\ slip = {}
  BY DEF Init
<1>9. TypeOK
  BY <1>1, <1>3, <1>5, <1>6, <1>7, <1>8 DEF TypeOK
<1>10. QED
  BY <1>1, <1>4, <1>9 DEF Inv

\* Inv is inductive.
LEMMA Inductive == Spec => []Inv
<1>1. Init => Inv
  BY InitSound
<1>2. ASSUME Inv, [Next]_vars PROVE Inv'
  <2>1. CASE UNCHANGED vars
    BY <1>2, <2>1 DEF vars, Inv, TypeOK, Linked, DefOf, Pending, Sound, Read, Top
  <2>2. CASE Next
    BY <1>2, <2>1, <2>2, StepKeeps, RestartKeeps DEF Next, Finished
  <2>3. QED
    BY <1>2, <2>1, <2>2
<1>3. QED
  BY <1>1, <1>2, PTL DEF Spec

\* The variables keep their types, whatever the requests and the starts do.
THEOREM TypeHolds == Spec => []TypeOK
<1>1. Inv => TypeOK
  BY DEF Inv
<1>2. QED
  BY <1>1, Inductive, PTL

\* check_chains finds nothing, ever: the revisions follow each other from 1 and each
\* links to the one before it, however many requests append beside each other
\* (append_revision's transaction) and wherever a start interrupts them.
THEOREM ChainHolds == Spec => []ChainLinked
<1>1. ASSUME Inv PROVE ChainLinked
  <2>1. PICK n \in Nat : DOMAIN hist = 1..n /\ \A v \in 1..n : hist[v].prev = DefOf(v - 1)
    BY <1>1 DEF Inv, Linked
  <2>2. Top = n
    BY <2>1, TopIs
  <2>3. QED
    BY <2>1, <2>2 DEF ChainLinked
<1>2. QED
  BY <1>1, Inductive, PTL

-----------------------------------------------------------------------------
(* The object beside its history *)

Without(causes) == slip \cap causes = {}
Lost == {"stale", "undone", "rewritten", "restamped"}

\* A request that will append a save of its own key.
Edits(r) == \/ r.pc = "gate" /\ r.act # "revert"
            \/ r.pc \in {"latest", "txn"} /\ r.op = "save"
\* One that looks whether the owner is to be handed back to its file.
Reconciles(r) == \/ r.pc \in {"judge", "top", "stamp"}
                 \/ r.pc \in {"latest", "txn"} /\ r.then = "top"

\* What a request knows by itself.
Way(p, r) ==
    /\ r.act = "reset" => kind # "workflow"
    /\ r.pc \in {"latest", "txn"} =>
         /\ p = Boot => r.op \in {"seed", "baseline", "outside"} /\ r.then \in {"top", "prune"}
         /\ r.op \in {"save", "revert"} => /\ r.base # NoDef => r.based = r.current
                                           /\ kind # "workflow" => ~r.yaml
         /\ r.op = "delete" => r.then \in {"retire", "remove"}
    /\ r.pc = "gate" /\ kind # "workflow" => ~r.yaml
    /\ r.pc = "plain" /\ kind = "profile" => ~r.yaml
    /\ Edits(r) /\ r.base # NoDef => r.base \subseteq r.def
    /\ Reconciles(r) /\ r.caught /\ file # NoDef /\ kind # "workflow" => r.def = file

\* What it has read of the object: a version that is not ahead of the newest, and, as
\* long as the object is at that version, its definition.
Within(r) == "restamped" \notin slip => r.based <= Top
Laid(r) ==
    /\ Edits(r) /\ r.base # NoDef /\ r.based # 0
    /\ node.there /\ node.rev = r.based /\ Without(Lost)
    => node.def = r.base

Ways == \A p \in Proc : Way(p, at[p])
Kept == \A p \in Proc : Within(at[p]) /\ Laid(at[p])
Busy == at[Boot].pc # "idle" => \A w \in Worker : at[w].pc = "idle"
Gone == ~node.there => node = NoNode

\* Once the start has stamped it, the object is at the newest version, or at none yet.
Booted(b) == b.pc \in {"load", "remember", "forget", "idle"}
Current == node.there /\ "restamped" \notin slip => node.rev \in {0, Top}
Versioned(b) == /\ Booted(b) => Current
                /\ b.pc = "stamp" => b.latest = Top

\* Once the start has seeded and pruned, what its file owns says what the file says.
Pruning(b) == \/ b.pc \in {"mark", "compare", "prune"}
              \/ b.pc \in {"latest", "txn"} /\ b.then = "prune"
Early(b) == b.pc \in {"seedread", "seedwrite"} \/ Pruning(b)
Owning == kind # "workflow" /\ node.there /\ file # NoDef
OfFile == Owning => /\ node.yaml /\ Without({"undone", "restamped"}) => node.def = file
                    /\ node.seed \in {file, NoDef}
Seeds(b) == Owning => /\ node.yaml /\ ~retired => node.def = file
                      /\ b.pc # "mark" => node.seed = file \/ (node.yaml /\ retired)
Seeded(b) == /\ ~Early(b) => OfFile
             /\ Pruning(b) => Seeds(b)

\* The newest revision is the live definition, or somebody is about to make it so: by a
\* delete, or by what he has read so far.
Agrees == node.rev = Top /\ Top # 0 /\ node.def = DefOf(Top)
Fixes(p, r) ==
    \/ r.pc \in {"retire", "remove"}
    \/ /\ r.pc \in {"seedread", "seedwrite", "mark", "compare", "prune", "list"}
       /\ kind = "program" /\ p # Boot => node.def = file
    \/ r.pc \in {"latest", "txn"} /\ r.op \in {"seed", "outside", "baseline"}
    \/ r.pc \in {"row", "judge"} /\ r.def = node.def
    \/ r.pc = "top" /\ Top # 0 /\ node.def = DefOf(Top)
    \/ r.pc = "stamp" /\ r.latest = Top /\ Top # 0 /\ node.def = DefOf(Top)
Excused == {"undone", "restamped", "outside", "kept"}
Settled == node.there /\ Without(Excused) => Agrees \/ \E p \in Proc : Fixes(p, at[p])

Whole == /\ Inv /\ Ways /\ Kept /\ Busy /\ Gone
         /\ Versioned(at[Boot]) /\ Seeded(at[Boot]) /\ Settled

-----------------------------------------------------------------------------
(* What a step of one request does *)

Moves(p, r) == at'[p] = r /\ \A q \in Proc : q # p => at'[q] = at[q]
Active(p) == at[p].pc # "idle" \/ (p # Boot /\ at[Boot].pc = "idle")

\* A step that sets one request leaves the others.
LEMMA SetIs ==
    ASSUME Inv, NEW p \in Proc, NEW r, Set(p, r)
    PROVE  Moves(p, r)
  BY DEF Inv, TypeOK, Set, Moves

\* One that goes to another place keeps what was read.
LEMMA GoIs ==
    ASSUME Inv, NEW p \in Proc, NEW pc \in Pc, Go(p, pc)
    PROVE  \E r \in At : /\ Moves(p, r) /\ r.pc = pc
                         /\ r.act = at[p].act /\ r.based = at[p].based /\ r.base = at[p].base
                         /\ r.def = at[p].def /\ r.yaml = at[p].yaml /\ r.current = at[p].current
                         /\ r.latest = at[p].latest /\ r.op = at[p].op /\ r.then = at[p].then
                         /\ r.caught = at[p].caught
<1> DEFINE r == [at[p] EXCEPT !.pc = pc]
<1>1. Moves(p, r)  BY SetIs DEF Go
<1>2. at[p] \in At  BY Reads
<1>3. /\ r \in At /\ r.pc = pc
      /\ r.act = at[p].act /\ r.based = at[p].based /\ r.base = at[p].base
      /\ r.def = at[p].def /\ r.yaml = at[p].yaml /\ r.current = at[p].current
      /\ r.latest = at[p].latest /\ r.op = at[p].op /\ r.then = at[p].then
      /\ r.caught = at[p].caught
  BY <1>2 DEF At
<1> HIDE DEF r
<1>4. QED  BY <1>1, <1>3

\* A request that has ended knows nothing.
LEMMA IdleIs ==
    /\ Idle \in At /\ Idle.pc = "idle" /\ Idle.based = 0 /\ Idle.act = "none"
    /\ \A p : Way(p, Idle)
    /\ ~Edits(Idle)
<1>1. Idle \in At  BY DEF Idle, At, Pc, Op, Version, Def
<1>2. Idle.pc = "idle" /\ Idle.based = 0 /\ Idle.act = "none"  BY DEF Idle
<1>3. QED  BY <1>1, <1>2 DEF Way, Edits, Reconciles

\* A request that moves finds the start over.
LEMMA BootRests ==
    ASSUME Busy, NEW p \in Proc, p # Boot, Active(p), NEW r, Moves(p, r)
    PROVE  at[Boot].pc = "idle" /\ at'[Boot] = at[Boot]
  BY DEF Busy, Active, Moves

\* While a start runs, no worker does.
LEMMA BusyStays ==
    ASSUME Busy, NEW p \in Proc, Active(p), NEW r, Moves(p, r)
    PROVE  Busy'
<1>1. CASE p = Boot
  <2>1. \A w \in Worker : at[w].pc = "idle"  BY <1>1 DEF Busy, Active
  <2>2. \A w \in Worker : at'[w] = at[w]  BY <1>1, RevisionsAssumption DEF Moves
  <2>3. QED  BY <2>1, <2>2 DEF Busy
<1>2. CASE p # Boot  BY <1>2, BootRests DEF Busy
<1>3. QED  BY <1>1, <1>2

\* What the requests know by themselves does not change under them.
LEMMA WaysStay ==
    ASSUME Ways, NEW p \in Proc, NEW r, Moves(p, r), UNCHANGED <<kind, file>>, Way(p, r)
    PROVE  Ways'
<1>1. ASSUME NEW q \in Proc PROVE Way(q, at'[q])
  <2>1. CASE q = p  BY <2>1 DEF Moves
  <2>2. CASE q # p  BY <2>2 DEF Moves, Ways
  <2>3. QED  BY <2>1, <2>2
<1>2. \A q, s : Way(q, s)' <=> Way(q, s)  BY DEF Way, Edits, Reconciles
<1>3. QED  BY <1>1, <1>2 DEF Ways

\* The object keeps its version and its definition, or is at none, or at a new one.
Safe ==
    node'.there /\ Without(Lost)' =>
        \/ node.there /\ node'.rev = node.rev /\ node'.def = node.def
        \/ node'.rev = 0
        \/ node'.rev = Top + 1
\* What is to be appended was so before.
Follows(s, r) == Edits(r) => Edits(s) /\ r.base = s.base /\ r.based = s.based

\* What was read of the object still fits it: versions only grow.
LEMMA LaidStays ==
    ASSUME Inv, NEW r \in At, Within(r), Laid(r), slip \subseteq slip', Safe
    PROVE  Laid(r)'
<1> SUFFICES ASSUME Edits(r), r.base # NoDef, r.based # 0,
                    node'.there, node'.rev = r.based, Without(Lost)'
             PROVE  node'.def = r.base
  BY DEF Laid, Edits
<1>1. Without(Lost) /\ "restamped" \notin slip  BY DEF Without, Lost
<1>2. r.based \in Nat /\ Top \in Nat  BY TopTyped DEF At, Version
<1>3. r.based <= Top  BY <1>1 DEF Within
<1>4. node'.rev # 0 /\ node'.rev # Top + 1  BY <1>2, <1>3
<1>5. node.there /\ node'.rev = node.rev /\ node'.def = node.def  BY <1>4 DEF Safe
<1>6. QED  BY <1>1, <1>5 DEF Laid

\* So of every request.
LEMMA KeptStays ==
    ASSUME Inv, Kept, Busy, NEW p \in Proc, Active(p), NEW r \in At, Moves(p, r),
           slip \subseteq slip', Top' \in {Top, Top + 1}, p = Boot \/ Safe,
           Within(r), Laid(r)' \/ (Follows(at[p], r) /\ p # Boot) \/ ~Edits(r)
    PROVE  Kept'
<1>1. Top \in Nat /\ Top' \in Nat /\ Top <= Top'
  BY TopTyped
<1>2. ASSUME NEW s \in At, Within(s) PROVE Within(s)'
  <2>1. s.based \in Nat
    BY DEF At, Version
  <2>2. QED
    BY <1>1, <1>2, <2>1 DEF Within
<1>3. ASSUME NEW s, ~Edits(s) PROVE Laid(s)'
  BY <1>3 DEF Laid, Edits
<1>4. ASSUME NEW q \in Proc PROVE (Within(at[q]) /\ Laid(at[q]))'
  <2>1. CASE q # p
    <3>1. at'[q] = at[q] /\ at[q] \in At
      BY <2>1, Reads DEF Moves
    <3>2. Within(at[q]) /\ Laid(at[q])
      BY DEF Kept
    <3> DEFINE s == at[q]
    <3>3. PICK c \in At : c = at[q]
      BY <3>1
    <3>4. Within(c)'
      BY <3>2, <3>3, <1>2
    <3>5. Laid(c)'
      <4>1. CASE p = Boot
        <5>1. c.pc = "idle"
          BY <2>1, <3>3, <4>1 DEF Busy, Active
        <5>2. QED
          BY <5>1, <1>3 DEF Edits
      <4>2. CASE p # Boot
        BY <3>2, <3>3, <4>2, LaidStays
      <4>3. QED
        BY <4>1, <4>2
    <3>6. at'[q] = c
      BY <3>1, <3>3
    <3>7. QED
      BY <3>4, <3>5, <3>6
  <2>2. CASE q = p
    <3>1. at'[q] = r
      BY <2>2 DEF Moves
    <3>2. Within(r)'
      BY <1>2
    <3>3. Laid(r)'
      <4>1. CASE Follows(at[p], r) /\ p # Boot
        <5>1. Laid(at[p])
          BY DEF Kept
        <5>2. Laid(r)
          BY <4>1, <5>1 DEF Follows, Laid
        <5>3. QED
          BY <4>1, <5>2, LaidStays
      <4>2. QED
        BY <4>1, <1>3
    <3>4. QED
      BY <3>1, <3>2, <3>3
  <2>3. QED
    BY <2>1, <2>2
<1>5. QED
  BY <1>4 DEF Kept

\* A step of one request keeps the invariant when what it leaves fits the object.
LEMMA GoesOn ==
    ASSUME Whole, Inv', NEW p \in Proc, Active(p), NEW r \in At, Moves(p, r),
           UNCHANGED <<kind, file>>, slip \subseteq slip', Top' \in {Top, Top + 1},
           p = Boot \/ Safe,
           Way(p, r), Within(r), Laid(r)' \/ (Follows(at[p], r) /\ p # Boot) \/ ~Edits(r),
           Gone', Versioned(at[Boot])', Seeded(at[Boot])', Settled'
    PROVE  Whole'
<1>1. Inv /\ Ways /\ Kept /\ Busy
  BY DEF Whole
<1>2. Ways'
  BY <1>1, WaysStay
<1>3. Kept'
  BY <1>1, KeptStays
<1>4. Busy'
  BY <1>1, BusyStays
<1>5. QED
  BY <1>2, <1>3, <1>4 DEF Whole

\* A request of a worker leaves the start where it is, at rest.
LEMMA RestKeeps ==
    ASSUME Whole, NEW p \in Proc, p # Boot, Active(p), NEW r, Moves(p, r),
           Current', OfFile'
    PROVE  Versioned(at[Boot])' /\ Seeded(at[Boot])'
<1>1. at'[Boot] = at[Boot] /\ at[Boot].pc = "idle"
  BY BootRests DEF Whole
<1>2. QED
  BY <1>1 DEF Versioned, Booted, Seeded, Early, Pruning

\* What a worker may then take to hold of the object.
LEMMA AtRest ==
    ASSUME Whole, NEW p \in Proc, p # Boot, Active(p), NEW r, Moves(p, r)
    PROVE  Current /\ OfFile
<1>1. at[Boot].pc = "idle"
  BY BootRests DEF Whole
<1>2. QED
  BY <1>1 DEF Whole, Versioned, Booted, Seeded, Early, Pruning

\* What the others were about to repair they are still about to.
LEMMA SettledStays ==
    ASSUME Inv, Settled, NEW p \in Proc, NEW r, Moves(p, r), slip \subseteq slip',
           UNCHANGED <<kind, file>>,
           node'.there /\ Without(Excused)' =>
              \/ Agrees' \/ Fixes(p, r)'
              \/ /\ node.there /\ node'.rev = node.rev /\ node'.def = node.def /\ hist' = hist
                 /\ Fixes(p, at[p]) => Fixes(p, r)' \/ Agrees'
    PROVE  Settled'
<1> SUFFICES ASSUME node'.there, Without(Excused)', ~Agrees', ~Fixes(p, r)'
             PROVE  \E q \in Proc : Fixes(q, at[q])'
  BY DEF Settled, Moves
<1>1. /\ node.there /\ node'.rev = node.rev /\ node'.def = node.def /\ hist' = hist
      /\ ~Fixes(p, at[p])
  OBVIOUS
<1>2. Top' = Top /\ \A v : DefOf(v)' = DefOf(v)
  BY <1>1 DEF Top, DefOf
<1>3. Without(Excused)
  BY DEF Without
<1>4. ~Agrees
  BY <1>1, <1>2 DEF Agrees
<1>5. PICK q \in Proc : Fixes(q, at[q])
  BY <1>1, <1>3, <1>4 DEF Settled
<1>6. q # p
  BY <1>1, <1>5
<1>7. at'[q] = at[q]
  BY <1>6 DEF Moves
<1>8. PICK s : s = at[q]
  OBVIOUS
<1>9. Fixes(q, s)
  BY <1>5, <1>8
<1>10. Fixes(q, s)'
  BY <1>1, <1>2, <1>9 DEF Fixes
<1>11. Fixes(q, at[q])'
  BY <1>7, <1>8, <1>10
<1>12. QED
  BY <1>11

\* A step that only moves a request.
LEMMA QuietKeeps ==
    ASSUME Whole, Inv', NEW p \in Proc, Active(p), NEW r \in At, Moves(p, r),
           UNCHANGED <<kind, file, node, hist>>, slip \subseteq slip',
           Way(p, r), r.based \in {0, at[p].based} \/ (r.based = LiveVersion /\ p # Boot),
           Laid(r)' \/ (Follows(at[p], r) /\ p # Boot) \/ ~Edits(r),
           p = Boot => retired' = retired /\ Versioned(r) /\ Seeded(r),
           node.there /\ Without(Excused)' /\ Fixes(p, at[p]) => Fixes(p, r) \/ Agrees
    PROVE  Whole'
<1>1. Top' = Top /\ \A v : DefOf(v)' = DefOf(v)
  BY DEF Top, DefOf
<1>2. Safe
  BY DEF Safe
<1>3. Inv /\ Gone'
  BY DEF Whole, Gone
<1>4. Within(r)
  <2>1. CASE r.based \in {0, at[p].based}
    BY <2>1, <1>3, TopTyped DEF Whole, Kept, Within
  <2>2. CASE r.based = LiveVersion /\ p # Boot
    BY <2>2, <1>3, TopTyped, AtRest DEF Current, LiveVersion, Within
  <2>3. QED
    BY <2>1, <2>2
<1>5. Versioned(at[Boot])' /\ Seeded(at[Boot])'
  <2>1. CASE p # Boot
    <3>1. Current /\ OfFile
      BY <2>1, AtRest
    <3>2. Current' /\ OfFile'
      BY <1>1, <3>1 DEF Current, OfFile, Owning, Without
    <3>3. QED
      BY <2>1, <3>2, RestKeeps
  <2>2. CASE p = Boot
    <3>1. Versioned(r)' /\ Seeded(r)'
      BY <1>1, <2>2 DEF Versioned, Booted, Current, Seeded, Early, Pruning, Seeds, OfFile, Owning,
                        Without
    <3>2. QED
      BY <2>2, <3>1 DEF Moves
  <2>3. QED
    BY <2>1, <2>2
<1>6. Settled'
  <2>1. Agrees' <=> Agrees
    BY <1>1 DEF Agrees
  <2>2. Fixes(p, r)' <=> Fixes(p, r)
    BY <1>1 DEF Fixes
  <2>3. QED
    BY <1>3, <2>1, <2>2, SettledStays DEF Whole
<1>7. QED
  BY <1>1, <1>2, <1>3, <1>4, <1>5, <1>6, GoesOn

\* The same of one that goes to another place.
LEMMA GoKeeps ==
    ASSUME Whole, Inv', NEW p \in Proc, at[p].pc # "idle",
           NEW pc \in Pc \ {"gate", "latest", "txn", "plain", "stamp"}, Go(p, pc),
           UNCHANGED <<kind, file, node, hist>>, slip \subseteq slip',
           pc \in {"judge", "top"} => Reconciles(at[p]),
           p = Boot => retired' = retired,
           \A r \in At : r.pc = pc /\ r.def = at[p].def =>
              /\ p = Boot => Versioned(r) /\ Seeded(r)
              /\ node.there /\ Without(Excused)' /\ Fixes(p, at[p]) => Fixes(p, r) \/ Agrees
    PROVE  Whole'
<1>1. Inv /\ Active(p)
  BY DEF Whole, Active
<1>2. PICK r \in At : /\ Moves(p, r) /\ r.pc = pc
                      /\ r.act = at[p].act /\ r.based = at[p].based /\ r.base = at[p].base
                      /\ r.def = at[p].def /\ r.yaml = at[p].yaml /\ r.current = at[p].current
                      /\ r.latest = at[p].latest /\ r.op = at[p].op /\ r.then = at[p].then
                      /\ r.caught = at[p].caught
  BY <1>1, GoIs
<1>3. ~Edits(r)
  BY <1>2 DEF Edits
<1>4. Way(p, r)
  <2>1. Way(p, at[p])
    BY DEF Whole, Ways
  <2>2. QED
    BY <1>2, <1>3, <2>1 DEF Way, Reconciles
<1>5. QED
  BY <1>1, <1>2, <1>3, <1>4, QuietKeeps

\* And of one that ends a request.
LEMMA DoneKeeps ==
    ASSUME Whole, Inv', NEW p \in Proc, at[p].pc # "idle", Done(p),
           UNCHANGED <<kind, file, node, hist, retired>>, slip \subseteq slip',
           p = Boot => Booted(at[p]),
           node.there /\ Without(Excused)' => ~Fixes(p, at[p])
    PROVE  Whole'
<1>1. Inv /\ Active(p)
  BY DEF Whole, Active
<1>2. Moves(p, Idle)
  BY <1>1, SetIs DEF Done
<1>3. p = Boot => Versioned(Idle) /\ Seeded(Idle)
  BY IdleIs DEF Whole, Versioned, Booted, Seeded, Early, Pruning
<1>4. QED
  BY <1>1, <1>2, <1>3, IdleIs, QuietKeeps

-----------------------------------------------------------------------------
(* The steps that leave the object alone *)

\* A request begins with the version its client has read.
LEMMA StartKeeps ==
    ASSUME Whole, Inv', NEW w \in Worker, Start(w)
    PROVE  Whole'
<1>1. w \in Proc /\ w # Boot /\ Active(w) /\ Inv
  BY RevisionsAssumption DEF Start, Active, Whole
<1>2. LiveVersion \in Nat
  BY <1>1, Reads
<1>3. PICK r \in At : /\ Set(w, r)
                      /\ r.pc \in {"prepare", "find", "unretire", "reset"}
                      /\ r.act = "reset" => kind # "workflow"
                      /\ r.based = LiveVersion
  <2> DEFINE begun(act, pc) == [Idle EXCEPT !.act = act, !.pc = pc, !.based = LiveVersion]
             Fit(r) == /\ Set(w, r)
                       /\ r.pc \in {"prepare", "find", "unretire", "reset"}
                       /\ r.act = "reset" => kind # "workflow"
                       /\ r.based = LiveVersion
  <2>1. ASSUME NEW act \in {"save", "state", "revert", "delete", "reset"},
               NEW pc \in {"prepare", "find", "unretire", "reset"}
        PROVE  /\ begun(act, pc) \in At /\ begun(act, pc).pc = pc /\ begun(act, pc).act = act
               /\ begun(act, pc).based = LiveVersion
    BY <1>2 DEF Idle, At, Pc, Op, Version, Def
  <2>2. CASE Set(w, begun("save", "prepare"))
    BY <2>1, <2>2
  <2>3. CASE Set(w, begun("state", "prepare"))
    BY <2>1, <2>3
  <2>4. CASE Set(w, begun("delete", "find"))
    BY <2>1, <2>4
  <2>5. ASSUME NEW v \in DOMAIN hist, Set(w, [begun("revert", "prepare") EXCEPT !.def = hist[v].def])
        PROVE  \E r \in At : Fit(r)
    <3>1. hist[v].def \in Def
      BY <1>1 DEF Inv, TypeOK, Revision
    <3>2. PICK b \in At : /\ b = begun("revert", "prepare") /\ b.pc = "prepare"
                          /\ b.act = "revert" /\ b.based = LiveVersion
      BY <2>1
    <3>3. PICK r : r = [b EXCEPT !.def = hist[v].def]
      OBVIOUS
    <3>4. r \in At /\ r.pc = "prepare" /\ r.act = "revert" /\ r.based = LiveVersion
      BY <3>1, <3>2, <3>3 DEF At
    <3>5. Set(w, r)
      BY <2>5, <3>2, <3>3
    <3>6. QED
      BY <3>4, <3>5
  <2>6. CASE /\ kind # "workflow" /\ file # NoDef
             /\ Set(w, begun("reset", IF kind = "program" THEN "unretire" ELSE "reset"))
    <3>1. PICK pc \in {"unretire", "reset"} : pc = IF kind = "program" THEN "unretire" ELSE "reset"
      OBVIOUS
    <3>2. QED
      BY <2>1, <2>6, <3>1
  <2>7. QED
    BY <2>2, <2>3, <2>4, <2>5, <2>6 DEF Start
<1>4. Moves(w, r)
  BY <1>1, <1>3, SetIs
<1>5. ~Edits(r) /\ Way(w, r)
  BY <1>3 DEF Edits, Way, Reconciles
<1>6. ~Fixes(w, at[w])
  BY DEF Start, Fixes
<1>7. UNCHANGED <<kind, file, node, hist>> /\ slip \subseteq slip'
  BY DEF Start
<1>8. QED
  BY <1>1, <1>3, <1>4, <1>5, <1>6, <1>7, QuietKeeps

\* It is laid over what is stored, or over a memory that is noted to be behind.
LEMMA PrepareKeeps ==
    ASSUME Whole, Inv', NEW w \in Worker, Prepare(w)
    PROVE  Whole'
<1>1. w \in Proc /\ w # Boot /\ Inv /\ at[w].pc = "prepare"
  BY RevisionsAssumption DEF Prepare, Whole
<1>2. UNCHANGED <<kind, file, node, hist, retired>> /\ slip \subseteq slip'
  BY DEF Prepare, Slips
<1>3. ~Fixes(w, at[w])
  BY <1>1 DEF Fixes
<1>4. CASE Done(w)
  BY <1>1, <1>2, <1>3, <1>4, DoneKeeps
<1>5. CASE ~Done(w)
  <2> DEFINE base == Stored
             def  == IF at[w].act = "revert" THEN at[w].def
                     ELSE (IF base = NoDef THEN {} ELSE base)
                          \cup (IF at[w].act = "save" THEN {w} ELSE {})
             changed == base = NoDef \/ def # base
  <2>1. PICK own \in Owners(changed) :
             Set(w, [at[w] EXCEPT !.pc = IF changed THEN "gate" ELSE "plain", !.base = base,
                            !.def = def, !.id = node.id, !.src = node.src, !.yaml = own])
    BY <1>5 DEF Prepare
  <2>2. own \in BOOLEAN
    BY <1>1, Reads DEF Owners
  <2>3. /\ changed /\ kind # "workflow" => ~own
        /\ kind = "profile" => ~own
    BY <2>1 DEF Owners
  <2>4. base \in Def \cup {NoDef}
    BY <1>1, Reads
  <2>5. def \in Def
    BY <1>1, <2>4, Reads DEF Def, At
  <2>6. base # NoDef /\ at[w].act # "revert" => base \subseteq def
    OBVIOUS
  <2>7. "stale" \in slip' \/ base = NoDef \/ (node.there => node.def = base)
    BY DEF Prepare, Slips
  <2>8. PICK pc \in {"gate", "plain"} : pc = IF changed THEN "gate" ELSE "plain"
    OBVIOUS
  <2>9. pc = "gate" => changed
    BY <2>8
  <2>10. PICK b : b = base
    OBVIOUS
  <2>11. PICK d : d = def
    OBVIOUS
  <2>12. Set(w, [at[w] EXCEPT !.pc = pc, !.base = b, !.def = d, !.id = node.id,
                              !.src = node.src, !.yaml = own])
    BY <2>1, <2>8, <2>10, <2>11
  <2>13. pc = "gate" /\ kind # "workflow" => ~own
    BY <2>3, <2>9
  <2>14. b \in Def \cup {NoDef} /\ d \in Def
    BY <2>4, <2>5, <2>10, <2>11
  <2>15. b # NoDef /\ at[w].act # "revert" => b \subseteq d
    BY <2>6, <2>10, <2>11
  <2>16. "stale" \in slip' \/ b = NoDef \/ (node.there => node.def = b)
    BY <2>7, <2>10
  <2> HIDE DEF base, def, changed
  <2>17. PICK r : r = [at[w] EXCEPT !.pc = pc, !.base = b, !.def = d, !.id = node.id,
                                     !.src = node.src, !.yaml = own]
    OBVIOUS
  <2>18. /\ r \in At /\ r.act = at[w].act /\ r.pc = pc /\ r.base = b /\ r.def = d
         /\ r.yaml = own /\ r.based = at[w].based
    <3>1. at[w] \in At /\ node.id \in Nat /\ node.src \in BOOLEAN
      BY <1>1, Reads
    <3>2. QED
      BY <2>2, <2>14, <2>17, <3>1 DEF At, Pc, Version
  <2>19. Moves(w, r)
    BY <1>1, <2>12, <2>17, SetIs
  <2>20. Way(w, at[w])
    BY <1>1 DEF Whole, Ways
  <2>21. Way(w, r)
    BY <2>3, <2>13, <2>15, <2>18, <2>20 DEF Way, Edits, Reconciles
  <2>22. Laid(r)'
    BY <1>2, <2>16, <2>18 DEF Laid, Without, Lost
  <2>23. QED
    BY <1>1, <1>2, <1>3, <2>18, <2>19, <2>21, <2>22, QuietKeeps DEF Active
<1>6. QED
  BY <1>4, <1>5

\* A save that passes the gate is of the version it read.
LEMMA GateKeeps ==
    ASSUME Whole, Inv', NEW w \in Worker, Gate(w)
    PROVE  Whole'
<1>1. w \in Proc /\ w # Boot /\ Inv /\ at[w].pc = "gate"
  BY RevisionsAssumption DEF Gate, Whole
<1>2. UNCHANGED <<kind, file, node, hist, retired>> /\ slip \subseteq slip'
  BY DEF Gate
<1>3. ~Fixes(w, at[w])
  BY <1>1 DEF Fixes
<1>4. CASE ~GatePasses(w)
  BY <1>1, <1>2, <1>3, <1>4, DoneKeeps DEF Gate
<1>5. CASE GatePasses(w)
  <2>1. PICK op \in Op : op = IF at[w].act = "revert" THEN "revert" ELSE "save"
    BY DEF Op
  <2>2. PICK r : r = [at[w] EXCEPT !.pc = "latest", !.current = LiveVersion,
                                   !.then = "remember", !.op = op]
    OBVIOUS
  <2>3. Set(w, r)
    BY <1>5, <2>1, <2>2 DEF Gate
  <2>4. /\ r \in At /\ r.act = at[w].act /\ r.pc = "latest" /\ r.base = at[w].base
        /\ r.def = at[w].def /\ r.yaml = at[w].yaml /\ r.based = at[w].based
        /\ r.current = LiveVersion /\ r.then = "remember" /\ r.op = op
    <3>1. at[w] \in At /\ LiveVersion \in Nat
      BY <1>1, Reads
    <3>2. QED
      BY <2>2, <3>1 DEF At, Pc, Version
  <2>5. Moves(w, r)
    BY <1>1, <2>3, SetIs
  <2>6. Way(w, at[w])
    BY <1>1 DEF Whole, Ways
  <2>7. op = "save" \/ op = "revert"
    BY <2>1
  <2>8. Edits(r) => Edits(at[w])
    BY <1>1, <2>1, <2>4 DEF Edits
  <2>9. Way(w, r)
    BY <1>1, <1>5, <2>4, <2>6, <2>7, <2>8 DEF Way, Reconciles, GatePasses
  <2>10. Follows(at[w], r)
    BY <2>4, <2>8 DEF Follows
  <2>11. QED
    BY <1>1, <1>2, <1>3, <2>4, <2>5, <2>9, <2>10, QuietKeeps DEF Active
<1>6. QED
  BY <1>4, <1>5

\* A delete looks for the object, and reads its version.
LEMMA FindKeeps ==
    ASSUME Whole, Inv', NEW w \in Worker, Find(w) \/ ReadVersion(w)
    PROVE  Whole'
<1>1. w \in Proc /\ w # Boot /\ Inv /\ at[w].pc \in {"find", "version"}
  BY RevisionsAssumption DEF Find, ReadVersion, Whole
<1>2. UNCHANGED <<kind, file, node, hist, retired>> /\ slip \subseteq slip'
  BY DEF Find, ReadVersion
<1>3. ~Fixes(w, at[w])
  BY <1>1 DEF Fixes
<1>4. at[w] \in At /\ node.id \in Nat /\ node.src \in BOOLEAN /\ LiveVersion \in Nat
  BY <1>1, Reads
<1>5. Way(w, at[w])
  BY <1>1 DEF Whole, Ways
<1>6. CASE Done(w)
  BY <1>1, <1>2, <1>3, <1>6, DoneKeeps
<1>7. CASE Find(w) /\ ~Done(w)
  <2>1. PICK r : r = [at[w] EXCEPT !.pc = "version", !.id = node.id, !.src = node.src]
    OBVIOUS
  <2>2. Set(w, r)
    BY <1>7, <2>1 DEF Find
  <2>3. r \in At /\ r.pc = "version" /\ r.act = at[w].act /\ r.based = at[w].based
    BY <1>4, <2>1 DEF At, Pc, Version
  <2>4. Moves(w, r) /\ ~Edits(r) /\ Way(w, r)
    BY <1>1, <1>5, <2>2, <2>3, SetIs DEF Edits, Way, Reconciles
  <2>5. QED
    BY <1>1, <1>2, <1>3, <2>3, <2>4, QuietKeeps DEF Active
<1>8. CASE ReadVersion(w)
  <2>1. PICK then \in {"retire", "remove"} :
            then = IF kind = "program" /\ at[w].src THEN "retire" ELSE "remove"
    OBVIOUS
  <2>2. PICK r : r = [at[w] EXCEPT !.pc = "latest", !.current = LiveVersion, !.op = "delete",
                                   !.then = then]
    OBVIOUS
  <2>3. Set(w, r)
    BY <1>8, <2>1, <2>2 DEF ReadVersion
  <2>4. /\ r \in At /\ r.pc = "latest" /\ r.act = at[w].act /\ r.based = at[w].based
        /\ r.op = "delete" /\ r.then = then
    <3>1. "latest" \in Pc /\ then \in Pc /\ "delete" \in Op
      BY <2>1 DEF Pc, Op
    <3>2. QED
      BY <1>4, <2>2, <3>1 DEF At, Version
  <2>5. Moves(w, r) /\ ~Edits(r) /\ Way(w, r)
    BY <1>1, <1>5, <2>1, <2>3, <2>4, SetIs DEF Edits, Way, Reconciles
  <2>6. QED
    BY <1>1, <1>2, <1>3, <2>4, <2>5, QuietKeeps DEF Active
<1>9. QED
  BY <1>6, <1>7, <1>8

\* The note of a retired program, made and taken back.
LEMMA RetireKeeps ==
    ASSUME Whole, Inv', NEW w \in Worker, Retire(w) \/ Unretire(w)
    PROVE  Whole'
<1>1. w \in Proc /\ w # Boot
  BY RevisionsAssumption
<1>2. CASE Retire(w)
  <2>1. UNCHANGED <<kind, file, node, hist>> /\ slip \subseteq slip' /\ at[w].pc = "retire"
        /\ Go(w, "remove")
    BY <1>2 DEF Retire
  <2>2. \A r \in At : r.pc = "remove" => Fixes(w, r)
    BY DEF Fixes
  <2>3. "remove" \in Pc
    BY DEF Pc
  <2>4. QED
    BY <1>1, <2>1, <2>2, <2>3, GoKeeps
<1>3. CASE Unretire(w)
  <2>1. UNCHANGED <<kind, file, node, hist>> /\ slip \subseteq slip' /\ at[w].pc = "unretire"
        /\ Go(w, "reset")
    BY <1>3 DEF Unretire
  <2>2. ~Fixes(w, at[w])
    BY <2>1 DEF Fixes
  <2>3. "reset" \in Pc
    BY DEF Pc
  <2>4. QED
    BY <1>1, <2>1, <2>2, <2>3, GoKeeps
<1>4. QED
  BY <1>2, <1>3

\* append_revision reads the newest revision.
LEMMA LatestKeeps ==
    ASSUME Whole, Inv', NEW p \in Proc, Latest(p)
    PROVE  Whole'
<1>1. UNCHANGED <<kind, file, node, hist, retired>> /\ slip \subseteq slip' /\ Inv
      /\ at[p].pc = "latest"
  BY DEF Latest, Whole
<1>2. PICK r : r = [at[p] EXCEPT !.pc = "txn", !.latest = Top, !.prev = DefOf(Top)]
  OBVIOUS
<1>3. /\ r \in At /\ r.pc = "txn" /\ r.act = at[p].act /\ r.based = at[p].based
      /\ r.base = at[p].base /\ r.def = at[p].def /\ r.yaml = at[p].yaml
      /\ r.current = at[p].current /\ r.op = at[p].op /\ r.then = at[p].then
      /\ r.caught = at[p].caught
  <2>1. at[p] \in At /\ Top \in Nat /\ DefOf(Top) \in Def \cup {NoDef}
    BY <1>1, Reads, TopTyped
  <2>2. QED
    BY <1>2, <2>1 DEF At, Pc, Version
<1>4. Moves(p, r)
  BY <1>1, <1>2, SetIs DEF Latest
<1>5. Way(p, r)
  <2>1. Way(p, at[p])
    BY DEF Whole, Ways
  <2>2. QED
    BY <1>1, <1>3, <2>1 DEF Way, Edits, Reconciles
<1>6. Follows(at[p], r) /\ (p = Boot => ~Edits(r))
  BY <1>1, <1>3, <1>5 DEF Follows, Edits, Way
<1>7. p = Boot => Versioned(r) /\ Seeded(r)
  BY <1>1, <1>3 DEF Whole, Versioned, Booted, Seeded, Early, Pruning, Seeds
<1>8. Fixes(p, at[p]) => Fixes(p, r)
  BY <1>1, <1>3 DEF Fixes
<1>9. QED
  BY <1>1, <1>3, <1>4, <1>5, <1>6, <1>7, <1>8, QuietKeeps DEF Active

\* The profiles in memory.
LEMMA MemoKeeps ==
    ASSUME Whole, Inv', NEW p \in Proc, Remember(p) \/ Forget(p)
    PROVE  Whole'
<1>1. UNCHANGED <<kind, file, node, hist, retired>> /\ slip \subseteq slip' /\ Done(p)
      /\ at[p].pc \in {"remember", "forget"}
  BY DEF Remember, Forget
<1>2. ~Fixes(p, at[p]) /\ Booted(at[p])
  BY <1>1 DEF Fixes, Booted
<1>3. QED
  BY <1>1, <1>2, DoneKeeps

\* The seeder goes past what the graph owns, and past what is retired.
LEMMA SeedReadKeeps ==
    ASSUME Whole, Inv', NEW p \in Proc, SeedRead(p)
    PROVE  Whole'
<1>1. UNCHANGED <<kind, file, node, hist, retired>> /\ slip \subseteq slip'
      /\ at[p].pc = "seedread"
  BY DEF SeedRead
<1>2. PICK pc \in {"mark", "prune", "seedwrite"} :
          pc = IF file # NoDef /\ node.there /\ ~node.yaml THEN "mark"
               ELSE IF file = NoDef \/ retired THEN "prune" ELSE "seedwrite"
  OBVIOUS
<1>3. Go(p, pc) /\ pc \in Pc
  BY <1>2 DEF SeedRead, Pc
<1>4. ASSUME NEW r \in At, r.pc = pc
      PROVE  /\ Versioned(r) /\ Seeded(r)
             /\ Fixes(p, at[p]) => Fixes(p, r)
  <2>1. Versioned(r)
    BY <1>2, <1>4 DEF Versioned, Booted
  <2>2. Early(r)
    BY <1>2, <1>4 DEF Early, Pruning
  <2>3. ASSUME pc = "mark" PROVE Seeded(r)
    BY <1>2, <1>4, <2>2, <2>3 DEF Seeded, Seeds, Owning
  <2>4. ASSUME pc = "prune" PROVE Seeded(r)
    BY <1>2, <1>4, <2>2, <2>4 DEF Seeded, Seeds, Owning
  <2>5. ASSUME pc = "seedwrite" PROVE Seeded(r)
    BY <1>4, <2>2, <2>5 DEF Seeded, Pruning
  <2>6. Fixes(p, at[p]) => Fixes(p, r)
    BY <1>1, <1>2, <1>4 DEF Fixes
  <2>7. QED
    BY <1>2, <2>1, <2>3, <2>4, <2>5, <2>6
<1>5. QED
  BY <1>1, <1>2, <1>3, <1>4, GoKeeps

\* record_seed compares the file with the newest revision.
LEMMA CompareKeeps ==
    ASSUME Whole, Inv', NEW p \in Proc, Compare(p)
    PROVE  Whole'
<1>1. UNCHANGED <<kind, file, node, hist, retired>> /\ slip \subseteq slip' /\ Inv
      /\ at[p].pc = "compare"
  BY DEF Compare, Whole
<1>2. PICK then \in {"list", "prune"} : then = AfterSeed(p)
  BY DEF AfterSeed
<1>3. p = Boot => then = "prune"
  BY <1>2 DEF AfterSeed
<1>4. p = Boot => Seeds(at[p])
  BY <1>1 DEF Whole, Seeded, Pruning
<1>5. CASE DefOf(Top) = file
  <2>1. Go(p, then)
    BY <1>2, <1>5 DEF Compare, Go
  <2>2. ASSUME NEW r \in At, r.pc = then
        PROVE  /\ p = Boot => Versioned(r) /\ Seeded(r)
               /\ Fixes(p, at[p]) => Fixes(p, r)
    BY <1>1, <1>2, <1>3, <1>4, <2>2 DEF Versioned, Booted, Seeded, Seeds, Early, Pruning, Fixes
  <2>3. then \in Pc
    BY <1>2 DEF Pc
  <2>4. QED
    BY <1>1, <1>2, <2>1, <2>2, <2>3, GoKeeps
<1>6. CASE DefOf(Top) # file
  <2>1. PICK r : r = [at[p] EXCEPT !.pc = "latest", !.op = "seed", !.def = file, !.then = then]
    OBVIOUS
  <2>2. Set(p, r)
    BY <1>2, <1>6, <2>1 DEF Compare
  <2>3. /\ r \in At /\ r.pc = "latest" /\ r.op = "seed" /\ r.then = then /\ r.act = at[p].act
        /\ r.based = at[p].based
    <3>1. at[p] \in At /\ file \in Def
      BY <1>1, Reads DEF Inv, Pending, Sound
    <3>2. "latest" \in Pc /\ then \in Pc /\ "seed" \in Op
      BY <1>2 DEF Pc, Op
    <3>3. QED
      BY <2>1, <3>1, <3>2 DEF At
  <2>4. Moves(p, r) /\ ~Edits(r) /\ Fixes(p, r)
    BY <1>1, <2>2, <2>3, SetIs DEF Edits, Fixes
  <2>5. Way(p, r)
    <3>1. Way(p, at[p])
      BY DEF Whole, Ways
    <3>2. QED
      BY <1>2, <1>3, <2>3, <2>4, <3>1 DEF Way, Reconciles
  <2>6. p = Boot => Versioned(r) /\ Seeded(r)
    BY <1>1, <1>3, <1>4, <2>3 DEF Versioned, Booted, Seeded, Seeds, Early, Pruning
  <2>7. QED
    BY <1>1, <2>3, <2>4, <2>5, <2>6, QuietKeeps DEF Active
<1>7. QED
  BY <1>5, <1>6

\* reconcile reads the live definition,
LEMMA ListKeeps ==
    ASSUME Whole, Inv', NEW p \in Proc, List(p)
    PROVE  Whole'
<1>1. UNCHANGED <<kind, file, node, hist, retired>> /\ slip \subseteq slip' /\ Inv
      /\ at[p].pc = "list"
  BY DEF List, Whole
<1>2. p = Boot => OfFile
  BY <1>1 DEF Whole, Seeded, Early, Pruning
<1>3. ASSUME NEW d \in Def, Set(p, [at[p] EXCEPT !.pc = "row", !.def = d]),
             node.there /\ Fixes(p, at[p]) => node.def = d
      PROVE  Whole'
  <2>1. PICK r : r = [at[p] EXCEPT !.pc = "row", !.def = d]
    OBVIOUS
  <2>2. r \in At /\ r.pc = "row" /\ r.def = d /\ r.act = at[p].act /\ r.based = at[p].based
    <3>1. at[p] \in At
      BY <1>1, Reads
    <3>2. QED
      BY <2>1, <3>1 DEF At, Pc
  <2>3. Moves(p, r) /\ ~Edits(r)
    BY <1>1, <1>3, <2>1, <2>2, SetIs DEF Edits
  <2>4. Way(p, r)
    <3>1. Way(p, at[p])
      BY DEF Whole, Ways
    <3>2. QED
      BY <2>2, <2>3, <3>1 DEF Way, Reconciles
  <2>5. p = Boot => Versioned(r) /\ Seeded(r)
    BY <1>2, <2>2 DEF Versioned, Booted, Seeded, Early, Pruning
  <2>6. node.there /\ Fixes(p, at[p]) => Fixes(p, r)
    BY <1>3, <2>2 DEF Fixes
  <2>7. QED
    BY <1>1, <2>2, <2>3, <2>4, <2>5, <2>6, QuietKeeps DEF Active
<1>4. CASE kind = "program" /\ p # Boot
  <2>1. file \in Def
    BY <1>1, <1>4, Reads DEF Inv, Pending, Sound, Seeding
  <2>2. Fixes(p, at[p]) => node.def = file
    BY <1>1, <1>4 DEF Fixes
  <2>3. QED
    BY <1>3, <1>4, <2>1, <2>2 DEF List
<1>5. CASE ~(kind = "program" /\ p # Boot) /\ node.there
  BY <1>1, <1>3, <1>5, Reads DEF List
<1>6. CASE ~(kind = "program" /\ p # Boot) /\ ~node.there
  <2>1. Go(p, "load") /\ "load" \in Pc
    BY <1>6 DEF List, Pc
  <2>2. ASSUME NEW r \in At, r.pc = "load"
        PROVE  p = Boot => Versioned(r) /\ Seeded(r)
    BY <1>2, <1>6, <2>2 DEF Versioned, Current, Seeded, Early, Pruning
  <2>3. QED
    BY <1>1, <1>6, <2>1, <2>2, GoKeeps
<1>7. QED
  BY <1>4, <1>5, <1>6

\* finds an owner it may hand back, whose seed is the definition it read,
LEMMA RowKeeps ==
    ASSUME Whole, Inv', NEW p \in Proc, Row(p)
    PROVE  Whole'
<1>1. UNCHANGED <<kind, file, node, hist, retired>> /\ slip \subseteq slip' /\ Inv
      /\ at[p].pc = "row"
  BY DEF Row, Whole
<1>2. OfFile
  <2>1. p = Boot => OfFile
    BY <1>1 DEF Whole, Seeded, Early, Pruning
  <2>2. p # Boot => at[Boot].pc = "idle"
    BY <1>1 DEF Whole, Busy
  <2>3. at[Boot].pc = "idle" => OfFile
    BY DEF Whole, Seeded, Early, Pruning
  <2>4. QED
    BY <2>1, <2>2, <2>3
<1>3. CASE node.there
  <2>1. PICK caught \in BOOLEAN : caught <=> (~node.yaml /\ node.seed = at[p].def)
    OBVIOUS
  <2>2. PICK r : r = [at[p] EXCEPT !.pc = "judge", !.current = node.rev, !.caught = caught]
    OBVIOUS
  <2>3. Set(p, r)
    <3>1. caught = (~node.yaml /\ node.seed = at[p].def)
      BY <2>1
    <3>2. QED
      BY <1>3, <2>2, <3>1 DEF Row
  <2>4. /\ r \in At /\ r.pc = "judge" /\ r.def = at[p].def /\ r.act = at[p].act
        /\ r.based = at[p].based /\ r.caught = caught
    <3>1. at[p] \in At /\ node.rev \in Version /\ "judge" \in Pc
      BY <1>1, Reads DEF Version, Pc
    <3>2. QED
      BY <2>1, <2>2, <3>1 DEF At
  <2>5. Moves(p, r) /\ ~Edits(r)
    BY <1>1, <2>3, <2>4, SetIs DEF Edits
  <2>6. Way(p, r)
    <3>1. Way(p, at[p])
      BY DEF Whole, Ways
    <3>2. at[p].def # NoDef
      BY <1>1, Reads, RevisionsAssumption DEF At
    <3>3. caught /\ file # NoDef /\ kind # "workflow" => at[p].def = file
      BY <1>2, <1>3, <2>1, <3>2 DEF OfFile, Owning
    <3>4. QED
      BY <2>4, <2>5, <3>1, <3>3 DEF Way, Reconciles
  <2>7. p = Boot => Versioned(r) /\ Seeded(r)
    BY <1>2, <2>4 DEF Versioned, Booted, Seeded, Early, Pruning
  <2>8. Fixes(p, at[p]) => Fixes(p, r)
    BY <1>1, <2>4 DEF Fixes
  <2>9. QED
    BY <1>1, <2>4, <2>5, <2>6, <2>7, <2>8, QuietKeeps DEF Active
<1>4. CASE ~node.there
  <2>1. Go(p, "load") /\ "load" \in Pc
    BY <1>4 DEF Row, Pc
  <2>2. ASSUME NEW r \in At, r.pc = "load"
        PROVE  p = Boot => Versioned(r) /\ Seeded(r)
    BY <1>2, <1>4, <2>2 DEF Versioned, Current, Seeded, Early, Pruning
  <2>3. QED
    BY <1>1, <1>4, <2>1, <2>2, GoKeeps
<1>5. QED
  BY <1>3, <1>4

\* appends what went around the save path,
LEMMA JudgeKeeps ==
    ASSUME Whole, Inv', NEW p \in Proc, Judge(p)
    PROVE  Whole'
<1>1. UNCHANGED <<kind, file, node, hist, retired>> /\ slip \subseteq slip' /\ Inv
      /\ at[p].pc = "judge"
  BY DEF Judge, Whole
<1>2. p = Boot => OfFile
  BY <1>1 DEF Whole, Seeded, Early, Pruning
<1>3. CASE Top = 0 \/ Differs(p)
  <2>1. PICK op \in {"baseline", "outside"} : op = IF Top = 0 THEN "baseline" ELSE "outside"
    OBVIOUS
  <2>2. PICK r : r = [at[p] EXCEPT !.pc = "latest", !.then = "top", !.op = op]
    OBVIOUS
  <2>3. Set(p, r)
    BY <1>3, <2>1, <2>2 DEF Judge
  <2>4. /\ r \in At /\ r.pc = "latest" /\ r.then = "top" /\ r.op = op /\ r.def = at[p].def
        /\ r.act = at[p].act /\ r.based = at[p].based /\ r.caught = at[p].caught
    <3>1. at[p] \in At /\ "latest" \in Pc /\ "top" \in Pc /\ op \in Op
      BY <1>1, <2>1, Reads DEF Pc, Op
    <3>2. QED
      BY <2>2, <3>1 DEF At
  <2>5. Moves(p, r) /\ ~Edits(r) /\ Fixes(p, r)
    BY <1>1, <2>1, <2>3, <2>4, SetIs DEF Edits, Fixes
  <2>6. Way(p, r)
    <3>1. Way(p, at[p])
      BY DEF Whole, Ways
    <3>2. QED
      BY <1>1, <2>1, <2>4, <2>5, <3>1 DEF Way, Reconciles
  <2>7. p = Boot => Versioned(r) /\ Seeded(r)
    BY <1>2, <2>4 DEF Versioned, Booted, Seeded, Early, Pruning
  <2>8. QED
    BY <1>1, <2>4, <2>5, <2>6, <2>7, QuietKeeps DEF Active
<1>4. CASE ~(Top = 0 \/ Differs(p))
  <2>1. Go(p, "top") /\ "top" \in Pc
    BY <1>4 DEF Judge, Go, Pc
  <2>2. Reconciles(at[p])
    BY <1>1 DEF Reconciles
  <2>3. ASSUME NEW r \in At, r.pc = "top"
        PROVE  /\ p = Boot => Versioned(r) /\ Seeded(r)
               /\ Fixes(p, at[p]) => Fixes(p, r)
    BY <1>1, <1>2, <1>4, <2>3 DEF Versioned, Booted, Seeded, Early, Pruning, Fixes, Differs
  <2>4. QED
    BY <1>1, <2>1, <2>2, <2>3, GoKeeps
<1>5. QED
  BY <1>3, <1>4

\* and reads the version to stamp.
LEMMA ReadTopKeeps ==
    ASSUME Whole, Inv', NEW p \in Proc, ReadTop(p)
    PROVE  Whole'
<1>1. UNCHANGED <<kind, file, node, hist, retired>> /\ slip \subseteq slip' /\ Inv
      /\ at[p].pc = "top"
  BY DEF ReadTop, Whole
<1>2. PICK r : r = [at[p] EXCEPT !.pc = "stamp", !.latest = Top]
  OBVIOUS
<1>3. /\ r \in At /\ r.pc = "stamp" /\ r.latest = Top /\ r.act = at[p].act
      /\ r.based = at[p].based /\ r.caught = at[p].caught /\ r.def = at[p].def
  <2>1. at[p] \in At /\ Top \in Nat
    BY <1>1, Reads, TopTyped
  <2>2. QED
    BY <1>2, <2>1 DEF At, Pc, Version
<1>4. Moves(p, r) /\ ~Edits(r)
  BY <1>1, <1>2, <1>3, SetIs DEF ReadTop, Edits
<1>5. Way(p, r)
  <2>1. Way(p, at[p])
    BY DEF Whole, Ways
  <2>2. QED
    BY <1>1, <1>3, <1>4, <2>1 DEF Way, Reconciles
<1>6. p = Boot => Versioned(r) /\ Seeded(r)
  BY <1>1, <1>3 DEF Whole, Versioned, Booted, Seeded, Early, Pruning
<1>7. Fixes(p, at[p]) => Fixes(p, r)
  BY <1>1, <1>3 DEF Fixes
<1>8. QED
  BY <1>1, <1>3, <1>4, <1>5, <1>6, <1>7, QuietKeeps DEF Active

\* A profile is read for the memory.
LEMMA LoadKeeps ==
    ASSUME Whole, Inv', NEW p \in Proc, Load(p)
    PROVE  Whole'
<1>1. UNCHANGED <<kind, file, node, hist, retired>> /\ slip \subseteq slip' /\ Inv
      /\ at[p].pc = "load"
  BY DEF Load, Whole
<1>2. ~Fixes(p, at[p]) /\ Booted(at[p])
  BY <1>1 DEF Fixes, Booted
<1>3. p = Boot => Current /\ OfFile
  BY <1>1 DEF Whole, Versioned, Booted, Seeded, Early, Pruning
<1>4. CASE kind = "profile" /\ node.there
  <2>1. PICK r : r = [at[p] EXCEPT !.pc = "remember", !.def = node.def, !.yaml = node.yaml]
    OBVIOUS
  <2>2. r \in At /\ r.pc = "remember" /\ r.act = at[p].act /\ r.based = at[p].based
    <3>1. at[p] \in At /\ node.def \in Def /\ node.yaml \in BOOLEAN
      BY <1>1, Reads
    <3>2. QED
      BY <2>1, <3>1 DEF At, Pc
  <2>3. Moves(p, r) /\ ~Edits(r)
    BY <1>1, <1>4, <2>1, <2>2, SetIs DEF Load, Edits
  <2>4. Way(p, r)
    <3>1. Way(p, at[p])
      BY DEF Whole, Ways
    <3>2. QED
      BY <2>2, <2>3, <3>1 DEF Way, Reconciles
  <2>5. p = Boot => Versioned(r) /\ Seeded(r)
    BY <1>3, <2>2 DEF Versioned, Seeded, Early, Pruning
  <2>6. QED
    BY <1>1, <1>2, <2>2, <2>3, <2>4, <2>5, QuietKeeps DEF Active
<1>5. CASE kind = "profile" /\ ~node.there
  <2>1. Go(p, "forget") /\ "forget" \in Pc
    BY <1>5 DEF Load, Pc
  <2>2. ASSUME NEW r \in At, r.pc = "forget"
        PROVE  p = Boot => Versioned(r) /\ Seeded(r)
    BY <1>3, <2>2 DEF Versioned, Seeded, Early, Pruning
  <2>3. QED
    BY <1>1, <1>2, <2>1, <2>2, GoKeeps
<1>6. CASE kind # "profile"
  BY <1>1, <1>2, <1>6, DoneKeeps DEF Load
<1>7. QED
  BY <1>4, <1>5, <1>6

-----------------------------------------------------------------------------
(* The steps that write the object *)

\* A write that adds no revision.
LEMMA WriteKeeps ==
    ASSUME Whole, Inv', NEW p \in Proc, at[p].pc # "idle", NEW r \in At, Moves(p, r),
           r.pc \notin {"gate", "latest", "txn", "plain", "judge", "top", "stamp"},
           r.act = at[p].act, r.based = at[p].based,
           UNCHANGED <<kind, file, hist>>, slip \subseteq slip',
           p = Boot \/ Safe, Gone',
           p # Boot => Current' /\ OfFile',
           p = Boot => (Versioned(r) /\ Seeded(r))',
           node'.there /\ Without(Excused)' =>
              \/ Agrees' \/ Fixes(p, r)'
              \/ /\ node.there /\ node'.rev = node.rev /\ node'.def = node.def
                 /\ Fixes(p, at[p]) => Fixes(p, r)' \/ Agrees'
    PROVE  Whole'
<1>1. Inv /\ Active(p) /\ Settled
  BY DEF Whole, Active
<1>2. Top' = Top
  BY DEF Top
<1>3. ~Edits(r) /\ Within(r)
  BY DEF Edits, Within, Whole, Kept
<1>4. Way(p, r)
  <2>1. Way(p, at[p])
    BY DEF Whole, Ways
  <2>2. QED
    BY <1>3, <2>1 DEF Way, Reconciles
<1>5. Versioned(at[Boot])' /\ Seeded(at[Boot])'
  <2>1. CASE p # Boot
    BY <1>1, <2>1, RestKeeps
  <2>2. CASE p = Boot
    BY <2>2 DEF Moves
  <2>3. QED
    BY <2>1, <2>2
<1>6. Settled'
  BY <1>1, SettledStays
<1>7. QED
  BY <1>1, <1>2, <1>3, <1>4, <1>5, <1>6, GoesOn

\* An unchanged definition is written over the same one, or it is noted.
LEMMA PlainKeeps ==
    ASSUME Whole, Inv', NEW w \in Worker, Plain(w)
    PROVE  Whole'
<1>1. w \in Proc /\ w # Boot /\ Inv /\ at[w].pc = "plain" /\ Gone
  BY RevisionsAssumption DEF Plain, Whole
<1>2. UNCHANGED <<kind, file, hist>> /\ slip \subseteq slip' /\ Go(w, "remember")
  BY DEF Plain, Slips
<1>3. PICK r \in At : Moves(w, r) /\ r.pc = "remember" /\ r.act = at[w].act
                      /\ r.based = at[w].based
  <2>1. "remember" \in Pc
    BY DEF Pc
  <2>2. QED
    BY <1>1, <1>2, <2>1, GoIs
<1>4. Current /\ OfFile
  BY <1>1, <1>3, AtRest DEF Active
<1>5. PICK d : d = at[w].def
  OBVIOUS
<1>6. PICK y \in BOOLEAN : y = at[w].yaml
  BY <1>1, Reads DEF At
<1>7. PICK s : s = at[w].src
  OBVIOUS
<1>8. \/ /\ node.there /\ node' = [node EXCEPT !.def = d, !.yaml = y, !.src = s]
         /\ "undone" \in slip' \/ (node.def = d /\ (kind = "program" => node.yaml = y))
      \/ node' = node
      \/ /\ ~node.there /\ "undone" \in slip'
         /\ node' = [NoNode EXCEPT !.there = TRUE, !.def = d, !.yaml = y, !.src = s]
  <2>1. \/ "undone" \in slip'
        \/ ~(\/ ~node.there
             \/ (Same(w) /\ node.def # at[w].def)
             \/ (kind = "program" /\ node.yaml # at[w].yaml))
    BY DEF Plain, Slips
  <2>2. CASE node.there /\ Same(w)
    <3>1. node' = [node EXCEPT !.def = d, !.yaml = y, !.src = s]
      BY <1>5, <1>6, <1>7, <2>2 DEF Plain
    <3>2. "undone" \in slip' \/ (node.def = d /\ (kind = "program" => node.yaml = y))
      BY <1>5, <1>6, <2>1, <2>2
    <3>3. QED
      BY <2>2, <3>1, <3>2
  <2>3. CASE ~(node.there /\ Same(w)) /\ kind = "workflow"
    <3>1. node' = node
      BY <2>3 DEF Plain
    <3>2. QED
      BY <3>1
  <2>4. CASE ~(node.there /\ Same(w)) /\ kind # "workflow"
    <3>1. ~node.there /\ "undone" \in slip'
      BY <2>1, <2>4 DEF Same
    <3>2. node' = [NoNode EXCEPT !.there = TRUE, !.def = d, !.yaml = y, !.src = s]
      BY <1>5, <1>6, <1>7, <2>4 DEF Plain
    <3>3. QED
      BY <3>1, <3>2
  <2>5. QED
    BY <2>2, <2>3, <2>4
<1>9. node \in Node /\ NoNode \in Node /\ NoNode.rev = 0 /\ NoNode.seed = NoDef
  BY <1>1, Reads DEF NoNode, Node, Version, Def
<1>10. \/ /\ node.there /\ node'.there /\ node'.rev = node.rev /\ node'.seed = node.seed
          /\ node'.yaml = y
          /\ "undone" \in slip' \/ (/\ node.def = d /\ node'.def = d
                                    /\ kind = "program" => node.yaml = y)
       \/ node' = node
       \/ /\ "undone" \in slip' /\ node'.there /\ node'.rev = 0 /\ node'.seed = NoDef
  BY <1>8, <1>9 DEF Node
<1>11. Top' = Top
  BY <1>2 DEF Top
<1>12. Safe
  BY <1>10 DEF Safe, Without, Lost
<1>13. Gone'
  BY <1>1, <1>10 DEF Gone
<1>14. Current'
  BY <1>2, <1>4, <1>10, <1>11 DEF Current
<1>15. OfFile'
  <2>1. kind = "profile" => ~y
    BY <1>1, <1>6 DEF Whole, Ways, Way
  <2>2. kind \in {"workflow", "program", "profile"}
    BY <1>1, RevisionsAssumption DEF Inv, TypeOK
  <2>3. SUFFICES ASSUME kind # "workflow", node'.there, file # NoDef
                 PROVE  /\ node'.yaml /\ Without({"undone", "restamped"})' => node'.def = file
                        /\ node'.seed \in {file, NoDef}
    BY <1>2 DEF OfFile, Owning
  <2>4. CASE node' = node
    BY <1>2, <1>4, <2>3, <2>4 DEF OfFile, Owning, Without
  <2>5. CASE /\ node.there /\ node'.seed = node.seed /\ node'.yaml = y
             /\ "undone" \in slip' \/ (/\ node.def = d /\ node'.def = d
                                       /\ kind = "program" => node.yaml = y)
    BY <1>2, <1>4, <2>1, <2>2, <2>3, <2>5 DEF OfFile, Owning, Without
  <2>6. CASE "undone" \in slip' /\ node'.seed = NoDef
    BY <2>6 DEF Without
  <2>7. QED
    BY <1>10, <2>4, <2>5, <2>6
<1>16. ~Fixes(w, at[w])
  BY <1>1 DEF Fixes
<1>17. node'.there /\ Without(Excused)' =>
         node.there /\ node'.rev = node.rev /\ node'.def = node.def
  BY <1>10 DEF Without, Excused
<1>18. QED
  BY <1>1, <1>2, <1>3, <1>12, <1>13, <1>14, <1>15, <1>16, <1>17, WriteKeeps

\* The object goes, or stays made anew.
LEMMA RemoveKeeps ==
    ASSUME Whole, Inv', NEW w \in Worker, Remove(w)
    PROVE  Whole'
<1>1. w \in Proc /\ w # Boot /\ Inv /\ at[w].pc = "remove" /\ Gone
  BY RevisionsAssumption DEF Remove, Whole
<1>2. UNCHANGED <<kind, file, hist>> /\ slip \subseteq slip' /\ Go(w, "forget")
  BY DEF Remove, Slips
<1>3. PICK r \in At : Moves(w, r) /\ r.pc = "forget" /\ r.act = at[w].act
                      /\ r.based = at[w].based
  <2>1. "forget" \in Pc
    BY DEF Pc
  <2>2. QED
    BY <1>1, <1>2, <2>1, GoIs
<1>4. Current /\ OfFile
  BY <1>1, <1>3, AtRest DEF Active
<1>5. ~NoNode.there
  BY DEF NoNode
<1>6. node' = NoNode \/ (node' = node /\ (node.there => "kept" \in slip'))
  BY DEF Remove, Slips
<1>7. Top' = Top
  BY <1>2 DEF Top
<1>8. Safe /\ Gone' /\ Current' /\ OfFile'
  BY <1>1, <1>2, <1>4, <1>5, <1>6, <1>7 DEF Safe, Gone, Current, OfFile, Owning, Without
<1>9. ~(node'.there /\ Without(Excused)')
  BY <1>5, <1>6 DEF Without, Excused
<1>10. QED
  BY <1>1, <1>2, <1>3, <1>8, <1>9, WriteKeeps

\* What the file's definition leaves when it is written over the object.
LEMMA FromFileIs ==
    ASSUME Inv, node' = FromFile, Gone
    PROVE  /\ node'.there /\ node'.def = file /\ node'.yaml
           /\ node'.rev = node.rev /\ node'.seed = node.seed
           /\ ~node.there => node'.rev = 0 /\ node'.seed = NoDef
<1>1. node \in Node
  BY Reads
<1>2. /\ node'.there /\ node'.def = file /\ node'.yaml
      /\ node'.rev = node.rev /\ node'.seed = node.seed
  BY <1>1 DEF FromFile, Node
<1>3. ~node.there => node.rev = 0 /\ node.seed = NoDef
  BY DEF Gone, NoNode
<1>4. QED
  BY <1>2, <1>3

\* The file is written over the object, and its revision is to follow.
LEMMA ResetKeeps ==
    ASSUME Whole, Inv', NEW w \in Worker, Reset(w)
    PROVE  Whole'
<1>1. w \in Proc /\ w # Boot /\ Inv /\ at[w].pc = "reset" /\ Gone
  BY RevisionsAssumption DEF Reset, Whole
<1>2. UNCHANGED <<kind, file, hist>> /\ slip \subseteq slip' /\ node' = FromFile
      /\ ("rewritten" \in slip' \/ ~node.there \/ node.def = file)
  BY DEF Reset, Slips
<1>3. PICK pc \in {"seedread", "mark"} : pc = IF kind = "profile" THEN "seedread" ELSE "mark"
  OBVIOUS
<1>4. Go(w, pc) /\ pc \in Pc
  BY <1>3 DEF Reset, Pc
<1>5. PICK r \in At : Moves(w, r) /\ r.pc = pc /\ r.act = at[w].act /\ r.based = at[w].based
  BY <1>1, <1>4, GoIs
<1>6. Current /\ OfFile
  BY <1>1, <1>5, AtRest DEF Active
<1>7. /\ node'.there /\ node'.def = file /\ node'.yaml
      /\ node'.rev = node.rev /\ node'.seed = node.seed
      /\ ~node.there => node'.rev = 0 /\ node'.seed = NoDef
  BY <1>1, <1>2, FromFileIs
<1>8. Top' = Top
  BY <1>2 DEF Top
<1>9. Safe /\ Gone'
  BY <1>2, <1>7 DEF Safe, Gone, Without, Lost
<1>10. Current' /\ OfFile'
  BY <1>2, <1>6, <1>7, <1>8 DEF Current, OfFile, Owning
<1>11. Fixes(w, r)'
  BY <1>2, <1>3, <1>5, <1>7 DEF Fixes
<1>12. QED
  BY <1>1, <1>2, <1>3, <1>5, <1>9, <1>10, <1>11, WriteKeeps

\* So by the seeder, over what the file owns.
LEMMA SeedWriteKeeps ==
    ASSUME Whole, Inv', NEW p \in Proc, SeedWrite(p)
    PROVE  Whole'
<1>1. Inv /\ at[p].pc = "seedwrite" /\ Gone
  BY DEF SeedWrite, Whole
<1>2. UNCHANGED <<kind, file, hist>> /\ slip \subseteq slip' /\ node' = FromFile
      /\ ("undone" \in slip' \/ ~node.there \/ node.yaml) /\ Go(p, "mark")
  BY DEF SeedWrite, Slips
<1>3. PICK r \in At : Moves(p, r) /\ r.pc = "mark" /\ r.act = at[p].act /\ r.based = at[p].based
  <2>1. "mark" \in Pc
    BY DEF Pc
  <2>2. QED
    BY <1>1, <1>2, <2>1, GoIs
<1>4. /\ node'.there /\ node'.def = file /\ node'.yaml
      /\ node'.rev = node.rev /\ node'.seed = node.seed
      /\ ~node.there => node'.rev = 0 /\ node'.seed = NoDef
  BY <1>1, <1>2, FromFileIs
<1>5. Top' = Top
  BY <1>2 DEF Top
<1>6. Gone'
  BY <1>4 DEF Gone
<1>7. p # Boot => Safe /\ Current' /\ OfFile'
  <2>1. SUFFICES ASSUME p # Boot PROVE Safe /\ Current' /\ OfFile'
    OBVIOUS
  <2>2. Current /\ OfFile
    BY <1>1, <1>3, <2>1, AtRest DEF Active
  <2>3. kind # "workflow" /\ file # NoDef
    <3>1. at[p].act = "reset" /\ file # NoDef
      BY <1>1, <2>1 DEF Inv, Pending, Sound, Seeding
    <3>2. Way(p, at[p])
      BY DEF Whole, Ways
    <3>3. QED
      BY <3>1, <3>2 DEF Way
  <2>4. Safe
    BY <1>2, <1>4, <2>2, <2>3 DEF Safe, OfFile, Owning, Without, Lost
  <2>5. Current' /\ OfFile'
    BY <1>2, <1>4, <1>5, <2>2 DEF Current, OfFile, Owning
  <2>6. QED
    BY <2>4, <2>5
<1>8. (Versioned(r) /\ Seeded(r))'
  BY <1>2, <1>3, <1>4 DEF Versioned, Booted, Seeded, Seeds, Early, Pruning
<1>9. Fixes(p, r)'
  BY <1>2, <1>3, <1>4 DEF Fixes
<1>10. QED
  BY <1>1, <1>2, <1>3, <1>6, <1>7, <1>8, <1>9, WriteKeeps

\* The file is noted with the object.
LEMMA MarkKeeps ==
    ASSUME Whole, Inv', NEW p \in Proc, Mark(p)
    PROVE  Whole'
<1>1. Inv /\ at[p].pc = "mark" /\ Gone
  BY DEF Mark, Whole
<1>2. UNCHANGED <<kind, file, hist, retired>> /\ slip \subseteq slip'
  BY DEF Mark
<1>3. PICK after \in {"list", "prune"} : after = AfterSeed(p)
  BY DEF AfterSeed
<1>4. p = Boot => after = "prune"
  BY <1>3 DEF AfterSeed
<1>5. p = Boot => Seeds(at[p])
  BY <1>1 DEF Whole, Seeded, Pruning
<1>6. CASE node.there
  <2>1. PICK pc \in {"compare", "list", "prune"} : pc = IF node.yaml THEN "compare" ELSE after
    BY <1>3
  <2>2. PICK r : r = [at[p] EXCEPT !.pc = pc, !.current = node.rev]
    OBVIOUS
  <2>3. r \in At /\ r.pc = pc /\ r.act = at[p].act /\ r.based = at[p].based
    <3>1. at[p] \in At /\ node.rev \in Nat
      BY <1>1, Reads
    <3>2. pc \in Pc
      BY <2>1 DEF Pc
    <3>3. QED
      BY <2>2, <3>1, <3>2 DEF At, Version
  <2>4. Moves(p, r)
    BY <1>1, <1>3, <1>6, <2>1, <2>2, SetIs DEF Mark
  <2>5. /\ node'.there /\ node'.def = node.def /\ node'.rev = node.rev /\ node'.seed = file
        /\ node'.yaml = node.yaml
    <3>1. node' = [node EXCEPT !.seed = file] /\ node \in Node
      BY <1>1, <1>6, Reads DEF Mark
    <3>2. QED
      BY <1>6, <3>1 DEF Node
  <2>6. Top' = Top /\ \A v : DefOf(v)' = DefOf(v)
    BY <1>2 DEF Top, DefOf
  <2>7. Safe /\ Gone'
    BY <1>6, <2>5 DEF Safe, Gone
  <2>8. p # Boot => Current' /\ OfFile'
    <3>1. p # Boot => Current /\ OfFile
      BY <1>1, <2>4, AtRest DEF Active
    <3>2. QED
      BY <1>2, <1>6, <2>5, <2>6, <3>1 DEF Current, OfFile, Owning, Without
  <2>9. p = Boot => (Versioned(r) /\ Seeded(r))'
    <3>1. p = Boot => pc \in {"compare", "prune"}
      BY <1>4, <2>1
    <3>2. QED
      BY <1>2, <1>5, <1>6, <2>3, <2>5, <3>1 DEF Versioned, Booted, Seeded, Seeds, Owning, Early,
                                                Pruning
  <2>10. Fixes(p, at[p]) => Fixes(p, r)'
    BY <1>1, <1>2, <2>1, <2>3, <2>5 DEF Fixes
  <2>11. QED
    BY <1>1, <1>2, <1>6, <2>1, <2>3, <2>4, <2>5, <2>7, <2>8, <2>9, <2>10, WriteKeeps
<1>7. CASE ~node.there
  <2>1. Go(p, after) /\ after \in Pc /\ UNCHANGED node
    BY <1>3, <1>7 DEF Mark, Pc
  <2>2. ASSUME NEW r \in At, r.pc = after
        PROVE  p = Boot => Versioned(r) /\ Seeded(r)
    BY <1>4, <1>7, <2>2 DEF Versioned, Booted, Seeded, Seeds, Owning, Early, Pruning
  <2>3. QED
    BY <1>1, <1>2, <1>3, <1>7, <2>1, <2>2, GoKeeps
<1>8. QED
  BY <1>6, <1>7

\* What a file owned goes with it.
LEMMA PruneKeeps ==
    ASSUME Whole, Inv', NEW p \in Proc, Prune(p)
    PROVE  Whole'
<1>1. Inv /\ at[p].pc = "prune" /\ Gone
  BY DEF Prune, Whole
<1>2. UNCHANGED <<kind, file, hist, retired>> /\ slip \subseteq slip' /\ Go(p, "list")
  BY DEF Prune
<1>3. "list" \in Pc
  BY DEF Pc
<1>4. CASE kind # "workflow" /\ node.there /\ node.yaml /\ (file = NoDef \/ retired)
  <2>1. ~node'.there /\ node' = NoNode
    BY <1>4 DEF Prune, NoNode
  <2>2. PICK r \in At : Moves(p, r) /\ r.pc = "list" /\ r.act = at[p].act /\ r.based = at[p].based
    BY <1>1, <1>2, <1>3, GoIs
  <2>3. Safe /\ Gone' /\ Current' /\ OfFile'
    BY <2>1 DEF Safe, Gone, Current, OfFile, Owning
  <2>4. (Versioned(r) /\ Seeded(r))'
    BY <2>2, <2>3 DEF Versioned, Booted, Seeded, Early, Pruning
  <2>5. QED
    BY <1>1, <1>2, <2>1, <2>2, <2>3, <2>4, WriteKeeps
<1>5. CASE ~(kind # "workflow" /\ node.there /\ node.yaml /\ (file = NoDef \/ retired))
  <2>1. UNCHANGED node
    BY <1>5 DEF Prune
  <2>2. p = Boot => OfFile
    <3>1. p = Boot => Seeds(at[p])
      BY <1>1 DEF Whole, Seeded, Pruning
    <3>2. QED
      BY <1>1, <1>5, <3>1 DEF Seeds, OfFile, Owning
  <2>3. ASSUME NEW r \in At, r.pc = "list"
        PROVE  /\ p = Boot => Versioned(r) /\ Seeded(r)
               /\ Fixes(p, at[p]) => Fixes(p, r)
    BY <1>1, <2>2, <2>3 DEF Versioned, Booted, Seeded, Early, Pruning, Fixes
  <2>4. QED
    BY <1>1, <1>2, <1>3, <2>1, <2>3, GoKeeps
<1>6. QED
  BY <1>4, <1>5

\* The stamp is of the version the object has, or it is noted.
LEMMA StampKeeps ==
    ASSUME Whole, Inv', NEW p \in Proc, Stamp(p)
    PROVE  Whole'
<1>1. Inv /\ at[p].pc = "stamp" /\ Gone
  BY DEF Stamp, Whole
<1>2. UNCHANGED <<kind, file, hist, retired>> /\ slip \subseteq slip' /\ Go(p, "load")
  BY DEF Stamp, Slips
<1>3. PICK r \in At : Moves(p, r) /\ r.pc = "load" /\ r.act = at[p].act /\ r.based = at[p].based
  <2>1. "load" \in Pc
    BY DEF Pc
  <2>2. QED
    BY <1>1, <1>2, <2>1, GoIs
<1>4. p = Boot => OfFile /\ at[p].latest = Top
  BY <1>1 DEF Whole, Versioned, Seeded, Early, Pruning
<1>5. p # Boot => Current /\ OfFile
  BY <1>1, <1>3, AtRest DEF Active
<1>6. Top' = Top /\ \A v : DefOf(v)' = DefOf(v)
  BY <1>2 DEF Top, DefOf
<1>7. ~Edits(r)
  BY <1>3 DEF Edits
<1>8. CASE node.there
  <2>1. PICK caught \in BOOLEAN : caught = at[p].caught
    BY <1>1, Reads DEF At
  <2>2. PICK yaml \in BOOLEAN : yaml = (node.yaml \/ caught)
    OBVIOUS
  <2>3. /\ node' = [node EXCEPT !.rev = at[p].latest, !.yaml = yaml] /\ node \in Node
    BY <1>1, <1>8, <2>1, <2>2, Reads DEF Stamp
  <2>4. /\ node'.there /\ node'.def = node.def /\ node'.rev = at[p].latest
        /\ node'.seed = node.seed /\ node'.yaml = yaml
    BY <1>8, <2>3 DEF Node
  <2>5. "restamped" \in slip' \/ (/\ node.rev = at[p].latest
                                  /\ caught => node.def = at[p].def)
    BY <1>8, <2>1 DEF Stamp, Slips
  <2>6. Safe /\ Gone'
    BY <1>8, <2>4, <2>5 DEF Safe, Gone, Without, Lost
  <2>7. Current'
    BY <1>2, <1>4, <1>5, <1>6, <1>8, <2>4, <2>5 DEF Current
  <2>8. OfFile'
    <3>1. caught /\ file # NoDef /\ kind # "workflow" => at[p].def = file
      BY <1>1, <2>1 DEF Whole, Ways, Way, Reconciles
    <3>2. OfFile
      BY <1>4, <1>5
    <3>3. yaml => node.yaml \/ caught
      BY <2>2
    <3>4. QED
      BY <1>2, <1>8, <2>4, <2>5, <3>1, <3>2, <3>3 DEF OfFile, Owning, Without
  <2>9. (Versioned(r) /\ Seeded(r))'
    BY <1>3, <2>7, <2>8 DEF Versioned, Seeded, Early, Pruning
  <2>10. Without(Excused)' => "restamped" \notin slip'
    BY DEF Without, Excused
  <2>11. Without(Excused)' /\ Fixes(p, at[p]) => Agrees'
    BY <1>1, <1>6, <2>4 DEF Fixes, Agrees
  <2>12. QED
    BY <1>1, <1>2, <1>3, <1>8, <2>4, <2>5, <2>6, <2>7, <2>8, <2>9, <2>10, <2>11, WriteKeeps
<1>9. CASE ~node.there
  <2>1. UNCHANGED node /\ "load" \in Pc
    BY <1>9 DEF Stamp, Pc
  <2>2. ASSUME NEW s \in At, s.pc = "load"
        PROVE  p = Boot => Versioned(s) /\ Seeded(s)
    BY <1>4, <1>9, <2>2 DEF Versioned, Current, Seeded, Early, Pruning
  <2>3. QED
    BY <1>1, <1>2, <1>9, <2>1, <2>2, GoKeeps
<1>10. QED
  BY <1>8, <1>9

\* An append that lands has read the newest revision, and is the next.
LEMMA LandsIs ==
    ASSUME Inv, NEW p \in Proc, Txn(p), Lands(p)
    PROVE  /\ at[p].latest = Top /\ Top \in Nat /\ Top' = Top + 1
           /\ DOMAIN hist' = 1..(Top + 1) /\ DOMAIN hist = 1..Top
           /\ hist'[Top + 1].op = at[p].op
           /\ hist'[Top + 1].based = IF Creates(p) THEN 0 ELSE IF Writes(p) THEN at[p].based
                                     ELSE IF at[p].op = "delete" THEN at[p].current ELSE 0
           /\ hist'[Top + 1].def = IF at[p].op = "delete" THEN {} ELSE at[p].def
           /\ DefOf(Top)' = IF at[p].op = "delete" THEN {} ELSE at[p].def
<1>1. Read(at[p]) /\ at[p] \in At /\ at[p].pc = "txn"
  BY Reads DEF Inv, Pending, Txn
<1>2. Top \in Nat /\ DOMAIN hist = 1..Top
  BY TopTyped
<1>3. at[p].latest = Top
  BY <1>1, <1>2 DEF Read, Lands, UidNew
<1>4. PICK def : def = IF at[p].op = "delete" THEN {} ELSE at[p].def
  OBVIOUS
<1>5. PICK based : based = IF Creates(p) THEN 0 ELSE IF Writes(p) THEN at[p].based
                           ELSE IF at[p].op = "delete" THEN at[p].current ELSE 0
  OBVIOUS
<1>6. PICK new : new = [def |-> def, prev |-> at[p].prev, op |-> at[p].op, based |-> based]
  OBVIOUS
<1>7. hist' = [u \in DOMAIN hist \cup {Top + 1} |-> IF u = Top + 1 THEN new ELSE hist[u]]
  BY <1>3, <1>4, <1>5, <1>6 DEF Txn, Extended
<1>8. DOMAIN hist' = 1..(Top + 1)
  BY <1>2, <1>7
<1>9. Top' = Top + 1
  BY <1>2, <1>8, TopIsNext
<1>10. hist'[Top + 1] = new
  BY <1>2, <1>7
<1>11. hist'[Top + 1].op = at[p].op /\ hist'[Top + 1].based = based /\ hist'[Top + 1].def = def
  BY <1>6, <1>10
<1>12. DefOf(Top)' = def
  BY <1>2, <1>9, <1>11 DEF DefOf
<1>13. QED
  BY <1>2, <1>3, <1>4, <1>5, <1>8, <1>9, <1>11, <1>12

\* The transaction makes the object and the newest revision one, or leaves both.
LEMMA TxnKeeps ==
    ASSUME Whole, Inv', NEW p \in Proc, Txn(p)
    PROVE  Whole'
<1>1. Inv /\ at[p].pc = "txn" /\ Gone /\ Active(p) /\ Settled
  BY DEF Txn, Whole, Active
<1>2. UNCHANGED <<kind, file, retired>> /\ slip \subseteq slip'
  BY DEF Txn, Slips
<1>3. at[p] \in At /\ Way(p, at[p]) /\ Sound(p, at[p])
  BY <1>1, Reads DEF Whole, Ways, Inv, Pending
<1>4. CASE ~Lands(p) /\ Writes(p)
  <2>1. Done(p) /\ UNCHANGED <<node, hist>>
    BY <1>4 DEF Txn
  <2>2. p # Boot /\ ~Fixes(p, at[p])
    BY <1>1, <1>3, <1>4 DEF Way, Writes, Fixes
  <2>3. QED
    BY <1>1, <1>2, <2>1, <2>2, DoneKeeps
<1>5. CASE Lands(p) \/ ~Writes(p)
  <2>1. PICK then \in Pc : then = at[p].then
    BY <1>3 DEF At
  <2>2. then \in {"remember", "retire", "remove", "top", "prune", "list"}
    BY <1>1, <1>3, <2>1 DEF Sound
  <2>3. Go(p, then)
    BY <1>5, <2>1 DEF Txn
  <2>4. PICK r \in At : /\ Moves(p, r) /\ r.pc = then
                        /\ r.act = at[p].act /\ r.based = at[p].based /\ r.base = at[p].base
                        /\ r.def = at[p].def /\ r.yaml = at[p].yaml /\ r.current = at[p].current
                        /\ r.latest = at[p].latest /\ r.op = at[p].op /\ r.then = at[p].then
                        /\ r.caught = at[p].caught
    BY <1>1, <2>3, GoIs
  <2>5. ~Edits(r)
    BY <2>2, <2>4 DEF Edits
  <2>6. Way(p, r)
    BY <1>1, <1>3, <2>1, <2>2, <2>4, <2>5 DEF Way, Reconciles
  <2>7. p = Boot => then \in {"top", "prune"} /\ ~Writes(p)
    BY <1>1, <1>3, <2>1 DEF Way, Writes
  <2>8. p = Boot => (then # "prune" => OfFile) /\ (then = "prune" => Seeds(at[p]))
    BY <1>1, <2>1 DEF Whole, Seeded, Early, Pruning
  <2>9. at[p].op = "delete" => then \in {"retire", "remove"}
    BY <1>1, <1>3, <2>1 DEF Way
  <2>10. \/ "outside" \in slip'
         \/ at[p].op \in {"save", "revert", "delete"}
         \/ Lands(p) /\ at[p].def = node.def
    BY <1>3 DEF Txn, Slips, At, Op
  <2>11. CASE ~Lands(p)
    <3>1. UNCHANGED <<node, hist>>
      BY <2>11 DEF Txn
    <3>2. p = Boot => Versioned(r) /\ Seeded(r)
      BY <1>1, <2>4, <2>7, <2>8 DEF Versioned, Booted, Seeded, Seeds, Early, Pruning
    <3>3. Without(Excused)' => Fixes(p, r)
      BY <1>5, <2>4, <2>9, <2>10, <2>11 DEF Without, Excused, Fixes, Writes
    <3>4. QED
      BY <1>1, <1>2, <2>4, <2>5, <2>6, <3>1, <3>2, <3>3, QuietKeeps
  <2>12. CASE Lands(p)
    <3>1. /\ at[p].latest = Top /\ Top \in Nat /\ Top' = Top + 1
          /\ DefOf(Top)' = IF at[p].op = "delete" THEN {} ELSE at[p].def
      BY <1>1, <2>12, LandsIs
    <3>2. node'.there /\ node'.rev = Top + 1 /\ node'.seed = node.seed
          /\ \/ Writes(p) /\ node'.def = at[p].def /\ node'.yaml = at[p].yaml
             \/ ~Writes(p) /\ node.there /\ node'.def = node.def /\ node'.yaml = node.yaml
      <4>1. node' = Written(p)
        BY <2>12 DEF Txn
      <4>2. CASE Writes(p)
        BY <3>1, <4>1, <4>2 DEF Written
      <4>3. CASE ~Writes(p)
        <5>1. node.there
          BY <2>12, <4>3 DEF Lands, OwnerAt, Creates
        <5>2. node' = [node EXCEPT !.rev = at[p].latest + 1] /\ node \in Node
          BY <1>1, <4>1, <4>3, Reads DEF Written
        <5>3. QED
          BY <3>1, <4>3, <5>1, <5>2 DEF Node
      <4>4. QED
        BY <4>2, <4>3
    <3>3. Safe /\ Gone' /\ Current'
      BY <3>1, <3>2 DEF Safe, Gone, Current
    <3>4. Within(r)
      BY <2>4 DEF Whole, Kept, Within
    <3>5. OfFile => OfFile' \/ p = Boot
      <4>1. SUFFICES ASSUME OfFile, p # Boot, kind # "workflow", file # NoDef
                     PROVE  /\ node'.yaml /\ Without({"undone", "restamped"})' => node'.def = file
                            /\ node'.seed \in {file, NoDef}
        BY <1>2 DEF OfFile, Owning
      <4>2. node'.seed \in {file, NoDef}
        <5>1. ~node.there => node.seed = NoDef
          BY <1>1 DEF Gone, NoNode
        <5>2. QED
          BY <3>2, <4>1, <5>1 DEF OfFile, Owning
      <4>3. Writes(p) => ~at[p].yaml
        BY <1>1, <1>3, <4>1 DEF Way, Writes
      <4>4. node'.yaml /\ Without({"undone", "restamped"})' => node'.def = file
        BY <1>2, <3>2, <4>1, <4>3 DEF OfFile, Owning, Without
      <4>5. QED
        BY <4>2, <4>4
    <3>6. Versioned(at[Boot])' /\ Seeded(at[Boot])'
      <4>1. CASE p # Boot
        <5>1. OfFile
          BY <1>1, <2>4, <4>1, AtRest
        <5>2. QED
          BY <1>1, <2>4, <3>3, <3>5, <4>1, <5>1, RestKeeps
      <4>2. CASE p = Boot
        <5>1. /\ node.there /\ node'.there /\ node'.def = node.def /\ node'.yaml = node.yaml
              /\ node'.seed = node.seed
          BY <2>7, <3>2, <4>2
        <5>2. Versioned(r)'
          BY <2>4, <2>7, <4>2 DEF Versioned, Booted
        <5>3. CASE then = "top"
          <6>1. OfFile'
            BY <1>2, <2>8, <4>2, <5>1, <5>3 DEF OfFile, Owning, Without
          <6>2. Seeded(r)'
            BY <2>4, <5>3, <6>1 DEF Seeded, Early, Pruning
          <6>3. QED
            BY <2>4, <4>2, <5>2, <6>2 DEF Moves
        <5>4. CASE then = "prune"
          <6>1. Seeds(r)'
            BY <1>1, <1>2, <2>4, <2>8, <4>2, <5>1, <5>4 DEF Seeds, Owning
          <6>2. Seeded(r)'
            BY <2>4, <5>4, <6>1 DEF Seeded, Early, Pruning
          <6>3. QED
            BY <2>4, <4>2, <5>2, <6>2 DEF Moves
        <5>5. QED
          BY <2>7, <4>2, <5>3, <5>4
      <4>3. QED
        BY <4>1, <4>2
    <3>7. Without(Excused)' => Agrees' \/ Fixes(p, r)'
      <4>1. CASE at[p].op = "delete"
        BY <2>4, <2>9, <4>1 DEF Fixes
      <4>2. CASE at[p].op # "delete" /\ Writes(p)
        BY <3>1, <3>2, <4>2 DEF Agrees
      <4>3. CASE at[p].op # "delete" /\ ~Writes(p)
        <5>1. Without(Excused)' => at[p].def = node.def
          BY <2>10, <4>3 DEF Without, Excused, Writes
        <5>2. QED
          BY <3>1, <3>2, <4>3, <5>1 DEF Agrees
      <4>4. QED
        BY <4>1, <4>2, <4>3
    <3>8. Settled'
      BY <1>1, <1>2, <2>4, <3>7, SettledStays
    <3>9. QED
      BY <1>1, <1>2, <2>4, <2>5, <2>6, <3>1, <3>3, <3>4, <3>6, <3>8, GoesOn
  <2>13. QED
    BY <2>11, <2>12
<1>6. QED
  BY <1>4, <1>5

\* A start has all of it to do again.
LEMMA RestartBegins ==
    ASSUME Whole, Inv', Restart
    PROVE  Whole'
<1>1. \A q \in Proc : at'[q] = IF q = Boot THEN [Idle EXCEPT !.pc = "seedread", !.act = "boot"]
                               ELSE Idle
  BY DEF Restart, Started
<1>2. PICK b : b = [Idle EXCEPT !.pc = "seedread", !.act = "boot"]
  OBVIOUS
<1>3. b.pc = "seedread" /\ b.act = "boot" /\ b.based = 0
  BY <1>2, IdleIs DEF At
<1>4. at'[Boot] = b /\ \A w \in Worker : at'[w] = Idle
  BY <1>1, <1>2, RevisionsAssumption
<1>5. ASSUME NEW q \in Proc
      PROVE  (Way(q, at[q]) /\ Within(at[q]) /\ Laid(at[q]))'
  <2>1. PICK s : s = at'[q]
    OBVIOUS
  <2>2. s.pc \in {"seedread", "idle"} /\ s.act # "reset" /\ s.based = 0
    BY <1>3, <1>4, <2>1, IdleIs
  <2>3. Top' \in Nat
    BY TopTyped DEF Whole, Restart, Top
  <2>4. Way(q, s)' /\ Within(s)' /\ Laid(s)'
    BY <2>2, <2>3 DEF Way, Edits, Reconciles, Within, Laid
  <2>5. QED
    BY <2>1, <2>4
<1>6. Ways' /\ Kept'
  BY <1>5 DEF Ways, Kept
<1>7. Busy' /\ Gone'
  BY <1>4, IdleIs DEF Whole, Busy, Gone, Restart
<1>8. Versioned(b)' /\ Seeded(b)' /\ Fixes(Boot, b)'
  BY <1>3 DEF Versioned, Booted, Seeded, Early, Pruning, Fixes
<1>9. Versioned(at[Boot])' /\ Seeded(at[Boot])' /\ Settled'
  BY <1>4, <1>8 DEF Settled
<1>10. QED
  BY <1>6, <1>7, <1>9 DEF Whole

\* It holds at first.
LEMMA WholeBegins == Init => Whole
<1> SUFFICES ASSUME Init PROVE Whole
  OBVIOUS
<1>1. Inv
  BY InitSound
<1>2. PICK b : b = [Idle EXCEPT !.pc = "seedread", !.act = "boot"]
  OBVIOUS
<1>3. b.pc = "seedread" /\ b.act = "boot" /\ b.based = 0
  BY <1>2, IdleIs DEF At
<1>4. at[Boot] = b /\ \A w \in Worker : at[w] = Idle
  BY <1>2, RevisionsAssumption DEF Init, Started
<1>5. ASSUME NEW q \in Proc
      PROVE  Way(q, at[q]) /\ Within(at[q]) /\ Laid(at[q])
  <2>1. PICK s : s = at[q]
    OBVIOUS
  <2>2. s.pc \in {"seedread", "idle"} /\ s.act # "reset" /\ s.based = 0
    BY <1>3, <1>4, <2>1, IdleIs
  <2>3. Top \in Nat
    BY <1>1, TopTyped
  <2>4. Way(q, s) /\ Within(s) /\ Laid(s)
    BY <2>2, <2>3 DEF Way, Edits, Reconciles, Within, Laid
  <2>5. QED
    BY <2>1, <2>4
<1>6. Ways /\ Kept
  BY <1>5 DEF Ways, Kept
<1>7. Busy /\ Gone
  BY <1>4, IdleIs DEF Busy, Gone, Init
<1>8. Versioned(b) /\ Seeded(b) /\ Fixes(Boot, b)
  BY <1>3 DEF Versioned, Booted, Seeded, Early, Pruning, Fixes
<1>9. Versioned(at[Boot]) /\ Seeded(at[Boot]) /\ Settled
  BY <1>4, <1>8 DEF Settled
<1>10. QED
  BY <1>1, <1>6, <1>7, <1>9 DEF Whole

\* Whole is inductive.
LEMMA WholeInductive == Spec => []Whole
<1>1. ASSUME Whole, [Next]_vars, Inv' PROVE Whole'
  <2>1. CASE UNCHANGED vars
    <3>1. Top' = Top /\ \A v : DefOf(v)' = DefOf(v)
      BY <2>1 DEF vars, Top, DefOf
    <3>2. Ways' /\ Kept' /\ Busy' /\ Gone'
      BY <1>1, <2>1, <3>1 DEF vars, Whole, Ways, Way, Edits, Reconciles, Kept, Within, Laid, Without,
                              Busy, Gone
    <3>3. Versioned(at[Boot])' /\ Seeded(at[Boot])'
      BY <1>1, <2>1, <3>1 DEF vars, Whole, Versioned, Booted, Current, Seeded, Early, Pruning, Seeds,
                              OfFile, Owning, Without
    <3>4. Settled'
      <4>1. \A p, r : Fixes(p, r)' <=> Fixes(p, r)
        BY <2>1, <3>1 DEF vars, Fixes
      <4>2. Agrees' <=> Agrees
        BY <2>1, <3>1 DEF vars, Agrees
      <4>3. at' = at /\ node' = node /\ slip' = slip
        BY <2>1 DEF vars
      <4>4. QED
        BY <1>1, <4>1, <4>2, <4>3 DEF Whole, Settled, Without
    <3>5. QED
      BY <1>1, <3>2, <3>3, <3>4 DEF Whole
  <2>2. ASSUME NEW p \in Proc, Step(p) PROVE Whole'
    BY <1>1, <2>2, LatestKeeps, TxnKeeps, MemoKeeps, SeedReadKeeps, SeedWriteKeeps, MarkKeeps,
       CompareKeeps, PruneKeeps, ListKeeps, RowKeeps, JudgeKeeps, ReadTopKeeps, StampKeeps, LoadKeeps
       DEF Step
  <2>3. ASSUME NEW w \in Worker, Request(w) PROVE Whole'
    BY <1>1, <2>3, StartKeeps, PrepareKeeps, GateKeeps, PlainKeeps, FindKeeps, RetireKeeps,
       RemoveKeeps, ResetKeeps DEF Request
  <2>4. CASE Restart
    BY <1>1, <2>4, RestartBegins
  <2>5. CASE Finished
    BY <2>1, <2>5 DEF Finished
  <2>6. QED
    BY <1>1, <2>1, <2>2, <2>3, <2>4, <2>5 DEF Next
<1>2. QED
  BY <1>1, Inductive, WholeBegins, PTL DEF Spec

-----------------------------------------------------------------------------
(* The properties *)

\* An edit's revision comes of an append that found the object at the version its writer
\* has read; that is the newest, unless a late stamp came before.
LEMMA EditedIs ==
    ASSUME Whole, [Next]_vars, Edited
    PROVE  \E p \in Proc :
              /\ Way(p, at[p]) /\ Laid(at[p]) /\ at[p].pc = "txn" /\ at[p].op \in {"save", "revert"}
              /\ at[p].base # NoDef /\ at[p].based # 0
              /\ node.there /\ node.rev = at[p].based
              /\ "restamped" \notin slip => node.rev = Top
              /\ hist'[Top'].op = at[p].op /\ hist'[Top'].based = at[p].based
              /\ hist'[Top'].def = at[p].def
<1>1. hist' # hist
  BY DEF Edited
<1>2. PICK p \in Proc : Txn(p) /\ Lands(p)
  <2>1. \E p \in Proc : Txn(p)
    BY <1>1 DEF Next, vars, Step, Request, Latest, Remember, Forget, SeedRead, SeedWrite, Mark,
                Compare, Prune, List, Row, Judge, ReadTop, Stamp, Load, Start, Prepare, Gate, Plain,
                Find, ReadVersion, Retire, Remove, Unretire, Reset, Restart, Finished
  <2>2. QED
    BY <1>1, <2>1 DEF Txn
<1>3. /\ Top' = Top + 1
      /\ hist'[Top + 1].op = at[p].op
      /\ hist'[Top + 1].based = IF Creates(p) THEN 0 ELSE IF Writes(p) THEN at[p].based
                                ELSE IF at[p].op = "delete" THEN at[p].current ELSE 0
      /\ hist'[Top + 1].def = IF at[p].op = "delete" THEN {} ELSE at[p].def
  BY <1>2, LandsIs DEF Whole
<1>4. at[p].op \in {"save", "revert"} /\ ~Creates(p) /\ hist'[Top + 1].based = at[p].based
      /\ at[p].based # 0
  BY <1>3 DEF Edited, Writes
<1>5. at[p].base # NoDef /\ hist'[Top + 1].def = at[p].def
  BY <1>3, <1>4 DEF Creates, Writes
<1>6. Way(p, at[p]) /\ Laid(at[p]) /\ at[p].pc = "txn"
  BY <1>2 DEF Whole, Ways, Kept, Txn
<1>7. at[p].based = at[p].current /\ p # Boot
  BY <1>4, <1>5, <1>6 DEF Way
<1>8. node.there /\ node.rev = at[p].based
  BY <1>2, <1>4, <1>7 DEF Lands, OwnerAt
<1>9. Current
  <2>1. at[Boot].pc = "idle"
    BY <1>6, <1>7 DEF Whole, Busy
  <2>2. QED
    BY <2>1 DEF Whole, Versioned, Booted
<1>10. "restamped" \notin slip => node.rev = Top
  BY <1>4, <1>8, <1>9 DEF Current
<1>11. QED
  BY <1>3, <1>4, <1>5, <1>6, <1>8, <1>10

\* append_revision's transaction and gate: an edit's revision is always based on the one
\* right before it, however many requests save and revert beside each other, reset or
\* delete, and wherever a start comes in between; only after a reset's late stamp of an
\* older version is it not.
THEOREM SavedOnTopHolds == Spec => SavedOnTop
<1>1. ASSUME Whole, [Next]_vars
      PROVE  [Edited /\ "restamped" \notin slip => hist'[Top'].based = Top]_vars
  BY <1>1, EditedIs
<1>2. QED
  BY <1>1, WholeInductive, PTL DEF Spec, SavedOnTop

\* A save keeps all of the definition it replaces (gate: "an edit names the version it
\* read"), but for the writes the property names.
THEOREM NoLostEditHolds == Spec => NoLostEdit
<1>1. ASSUME Whole, [Next]_vars
      PROVE  [(/\ Edited /\ hist'[Top'].op = "save"
               /\ slip \cap {"stale", "undone", "rewritten", "restamped"} = {})
              => node.def \subseteq hist'[Top'].def]_vars
  <2>1. SUFFICES ASSUME Edited, hist'[Top'].op = "save", Without(Lost)
                 PROVE  node.def \subseteq hist'[Top'].def
    BY DEF Without, Lost
  <2>2. PICK p \in Proc :
              /\ Way(p, at[p]) /\ Laid(at[p]) /\ at[p].pc = "txn" /\ at[p].op \in {"save", "revert"}
              /\ at[p].base # NoDef /\ at[p].based # 0
              /\ node.there /\ node.rev = at[p].based
              /\ hist'[Top'].op = at[p].op /\ hist'[Top'].def = at[p].def
    BY <1>1, <2>1, EditedIs
  <2>3. Edits(at[p])
    BY <2>1, <2>2 DEF Edits
  <2>4. node.def = at[p].base
    BY <2>1, <2>2, <2>3 DEF Laid
  <2>5. at[p].base \subseteq at[p].def
    BY <2>2, <2>3 DEF Way
  <2>6. QED
    BY <2>2, <2>4, <2>5
<1>2. QED
  BY <1>1, WholeInductive, PTL DEF Spec, NoLostEdit

\* commit, record_seed and reconcile: with nothing under way the newest revision is the
\* live definition and the object is at its version, but for the writes the property
\* names; and a start makes it so again after those too.
THEOREM LiveIsLatestHolds == Spec => []LiveIsLatest
<1>1. ASSUME Whole PROVE LiveIsLatest
  <2>1. SUFFICES ASSUME Calm, node.there, Without(Excused)
                 PROVE  node.rev = Top /\ node.def = hist[Top].def
    BY DEF LiveIsLatest, Without, Excused
  <2>2. \A p \in Proc : ~Fixes(p, at[p])
    BY <2>1 DEF Calm, Fixes
  <2>3. Agrees
    BY <1>1, <2>1, <2>2 DEF Whole, Settled
  <2>4. QED
    BY <2>3 DEF Agrees, DefOf
<1>2. QED
  BY <1>1, WholeInductive, PTL

\* seed_programs, seed, the resets and reconcile: with nothing under way a program or a
\* profile that its file owns is what the file says.
THEOREM OwnedByFileHolds == Spec => []OwnedByFile
<1>1. ASSUME Whole PROVE OwnedByFile
  <2>1. ASSUME Calm PROVE OfFile
    BY <1>1, <2>1 DEF Calm, Whole, Seeded, Early, Pruning
  <2>2. QED
    BY <2>1 DEF OwnedByFile, OfFile, Owning, Without
<1>2. QED
  BY <1>1, WholeInductive, PTL
=============================================================================
