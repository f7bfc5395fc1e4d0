------------------------------ MODULE Revisions ------------------------------
(***************************************************************************)
(* The revisions of a workflow, a program or an agent profile              *)
(* (crates/work/src/revisions.rs, crates/repository/src/revision.rs) and    *)
(* what writes them: saves and reverts by clients, saves that change the    *)
(* state only, deletes, resets to the file, and the seeding of a start.     *)
(*                                                                         *)
(* One action is one call to the database, or one write of the profiles     *)
(* kept in memory; append_revision's transaction is one of them.  There is  *)
(* one object.  A definition is the set of what was put into it: a save     *)
(* adds its writer's key and keeps the others, as the body is laid over     *)
(* what is stored.  Equal definitions have equal hashes.                    *)
(***************************************************************************)
EXTENDS Naturals

CONSTANTS
    Worker,   \* requests that may run at the same time
    Boot,     \* the seeding of a start
    File,     \* what the file puts into the definition
    Kinds,    \* the kinds of object considered
    NoDef,    \* no definition
    MaxOps,   \* requests in all, and
    MaxStarts \* restarts in all (both bound the model)

Def == SUBSET (Worker \cup {File})

ASSUME RevisionsAssumption ==
    /\ Boot \notin Worker
    /\ Kinds \subseteq {"workflow", "program", "profile"}
    /\ NoDef \notin Def
    /\ MaxOps \in Nat /\ MaxStarts \in Nat

VARIABLES
    kind,    \* RevisionKind
    node,    \* the object in the graph
    hist,    \* its (:Revision) nodes by version: they outlive the object
    memo,    \* the profile and its owner in the context builder's memory
    file,    \* what the file says now
    retired, \* (:RetiredProgram): its file is not to be seeded
    at,      \* where each request is, and what it has read
    slip,    \* history: unguarded or late writes since the last start (see Slips)
    ops, starts

vars == <<kind, node, hist, memo, file, retired, at, slip, ops, starts>>

Proc == Worker \cup {Boot}

-----------------------------------------------------------------------------
(* Types *)

Version == Nat
Op == {"save", "revert", "seed", "baseline", "outside", "delete"}
Revision == [def : Def, prev : Def \cup {NoDef}, op : Op, based : Version]

\* `rev` is 0 before the first revision; `yaml` that the file owns the object;
\* `seed` is seed_definition; `src` that it names a file as its source; `id`, a
\* workflow's, is the version it was created at.
Node == [there : BOOLEAN, id : Version, def : Def, rev : Version, yaml : BOOLEAN,
         src : BOOLEAN, seed : Def \cup {NoDef}]
NoNode == [there |-> FALSE, id |-> 0, def |-> {}, rev |-> 0, yaml |-> FALSE,
           src |-> FALSE, seed |-> NoDef]

Memo == [def : Def \cup {NoDef}, yaml : BOOLEAN]
NoMemo == [def |-> NoDef, yaml |-> FALSE]

Pc == {"idle", "prepare", "gate", "latest", "txn", "plain", "remember",
       "find", "version", "retire", "remove", "forget", "unretire", "reset", "seedread",
       "seedwrite", "mark", "compare", "prune", "list", "row", "judge", "top", "stamp", "load"}

\* `op` and `then`: what is appended, and where the request goes on after it.
At == [pc : Pc, act : {"none", "save", "state", "revert", "delete", "reset", "boot"},
       id : Version, based : Version, base : Def \cup {NoDef}, def : Def,
       yaml : BOOLEAN, src : BOOLEAN, current : Version, latest : Version, prev : Def \cup {NoDef},
       op : Op, then : Pc, caught : BOOLEAN]

Idle == [pc |-> "idle", act |-> "none", id |-> 0, based |-> 0, base |-> NoDef, def |-> {},
         yaml |-> FALSE, src |-> FALSE, current |-> 0, latest |-> 0, prev |-> NoDef,
         op |-> "save", then |-> "idle", caught |-> FALSE]

TypeOK ==
    /\ kind \in Kinds
    /\ node \in Node
    /\ DOMAIN hist \subseteq Version \ {0} /\ \A v \in DOMAIN hist : hist[v] \in Revision
    /\ memo \in Memo
    /\ file \in Def \cup {NoDef}
    /\ retired \in BOOLEAN
    /\ at \in [Proc -> At]
    /\ slip \subseteq {"undone", "stale", "restamped", "outside", "kept", "rewritten"}
    /\ ops \in 0..MaxOps /\ starts \in 0..MaxStarts

-----------------------------------------------------------------------------
(* The history *)

\* The newest version there is, 0 with none.
Top == CHOOSE v \in DOMAIN hist \cup {0} : \A u \in DOMAIN hist : u <= v
DefOf(v) == IF v = 0 THEN NoDef ELSE hist[v].def

\* live_version
LiveVersion == IF node.there THEN node.rev ELSE 0

Set(p, r) == at' = [at EXCEPT ![p] = r]
Go(p, pc) == Set(p, [at[p] EXCEPT !.pc = pc])
Done(p) == Set(p, Idle)

\* What went wrong since the last start: a write that did not look at what had come in
\* between ("undone"), a save laid over a memory behind the graph ("stale"), a stamp
\* behind the newest version ("restamped"), a revision of something no longer live
\* ("outside"), a delete that removed nothing ("kept"), a file written over an edit ahead
\* of its revision ("rewritten").
Slips(what, when) == slip' = IF when THEN slip \cup {what} ELSE slip

\* A start seeds, and nothing else is under way.
Started == [p \in Proc |->
    IF p = Boot THEN [Idle EXCEPT !.pc = "seedread", !.act = "boot"] ELSE Idle]

Calm == \A p \in Proc : at[p].pc = "idle"

Init ==
    /\ kind \in Kinds
    /\ node = NoNode
    /\ hist = [v \in {} |-> [def |-> {}, prev |-> NoDef, op |-> "save", based |-> 0]]
    /\ memo = NoMemo
    /\ file \in {NoDef, {File}}
    /\ retired = FALSE
    /\ at = Started
    /\ slip = {}
    /\ ops = 0 /\ starts = 0

-----------------------------------------------------------------------------
(* Requests *)

\* A client has read the object, with its version, and sends a save of a key of its
\* own, a save that changes no definition (a pause, a status), a revert, or asks for a
\* delete or a reset.
Start(w) ==
    /\ at[Boot].pc = "idle" /\ at[w].pc = "idle" /\ ops < MaxOps
    /\ ops' = ops + 1
    /\ LET begun(act, pc) == [Idle EXCEPT !.act = act, !.pc = pc, !.based = LiveVersion] IN
       \/ Set(w, begun("save", "prepare"))
       \/ Set(w, begun("state", "prepare"))
       \/ \E v \in DOMAIN hist :
             /\ hist[v].op # "delete"
             /\ Set(w, [begun("revert", "prepare") EXCEPT !.def = hist[v].def])
       \/ Set(w, begun("delete", "find"))
       \/ /\ kind # "workflow" /\ file # NoDef
          /\ Set(w, begun("reset", IF kind = "program" THEN "unretire" ELSE "reset"))
    /\ UNCHANGED <<kind, node, hist, memo, file, retired, slip, starts>>

\* What a save is laid over: the stored object, or the profile in memory.
Stored == IF kind = "profile" THEN memo.def ELSE IF node.there THEN node.def ELSE NoDef

\* A changed program or profile is the graph's from then on; a save of a workflow may
\* name its owner.
OwnedStays(changed) == IF kind = "workflow" THEN BOOLEAN ELSE {node.yaml}        \* mutant
Owners(changed) ==
    IF kind = "workflow" THEN BOOLEAN ELSE {kind = "program" /\ ~changed /\ node.yaml}

\* A changed definition goes through commit, an unchanged one is written plainly.
Prepare(w) ==
    LET base == Stored
        def  == IF at[w].act = "revert" THEN at[w].def
                ELSE (IF base = NoDef THEN {} ELSE base)
                     \cup (IF at[w].act = "save" THEN {w} ELSE {})
        changed == base = NoDef \/ def # base IN
    /\ at[w].pc = "prepare"
    /\ IF base = NoDef /\ at[w].act = "state"
       THEN Done(w)
       ELSE \E own \in Owners(changed) :
               Set(w, [at[w] EXCEPT !.pc = IF changed THEN "gate" ELSE "plain", !.base = base,
                            !.def = def, !.id = node.id, !.src = node.src, !.yaml = own])
    /\ Slips("stale", base # NoDef /\ base # (IF node.there THEN node.def ELSE NoDef))
    /\ UNCHANGED <<kind, node, hist, memo, file, retired, ops, starts>>

\* gate: an edit names the version it read.
GateAnyBase(w) == TRUE                                                   \* mutant
GatePasses(w) == at[w].base = NoDef \/ at[w].based = LiveVersion
Gate(w) ==
    /\ at[w].pc = "gate"
    /\ IF GatePasses(w)
       THEN Set(w, [at[w] EXCEPT !.pc = "latest", !.current = LiveVersion, !.then = "remember",
                                 !.op = IF at[w].act = "revert" THEN "revert" ELSE "save"])
       ELSE Done(w)
    /\ UNCHANGED <<kind, node, hist, memo, file, retired, slip, ops, starts>>

\* append_revision reads the newest revision, for its version and the link to it,
Latest(p) ==
    /\ at[p].pc = "latest"
    /\ Set(p, [at[p] EXCEPT !.pc = "txn", !.latest = Top, !.prev = DefOf(Top)])
    /\ UNCHANGED <<kind, node, hist, memo, file, retired, slip, ops, starts>>

Writes(p) == at[p].op \in {"save", "revert"}
Creates(p) == Writes(p) /\ at[p].base = NoDef

\* and in one transaction writes a new owner, the revision, and the changed owner, if
\* the owner is at the version expected and the revision's uid is new.
OwnerAtAny(p) == node.there \/ Creates(p)                                \* mutant
OwnerAt(p) == IF node.there
              THEN at[p].current = node.rev /\ ~(Creates(p) /\ kind = "workflow")
              ELSE Creates(p) /\ at[p].current = 0
UidNewAlways(p) == TRUE                                                  \* mutant
UidNew(p) == at[p].latest + 1 \notin DOMAIN hist
Lands(p) == OwnerAt(p) /\ UidNew(p)

Extended(p) ==
    LET v == at[p].latest + 1
        new == [def |-> IF at[p].op = "delete" THEN {} ELSE at[p].def, prev |-> at[p].prev,
                op |-> at[p].op,
                based |-> IF Creates(p) THEN 0 ELSE IF Writes(p) THEN at[p].based
                          ELSE IF at[p].op = "delete" THEN at[p].current ELSE 0]
    IN  [u \in DOMAIN hist \cup {v} |-> IF u = v THEN new ELSE hist[u]]

\* The definition that was read, for the one to write.
Written(p) ==
    IF Writes(p)
    THEN [there |-> TRUE, id |-> IF node.there THEN node.id ELSE at[p].latest + 1,
          def |-> at[p].def, rev |-> at[p].latest + 1, yaml |-> at[p].yaml,
          src |-> at[p].src, seed |-> node.seed]
    ELSE [node EXCEPT !.rev = at[p].latest + 1]

\* A save that has not landed is refused; the others do not look.
Txn(p) ==
    /\ at[p].pc = "txn"
    /\ IF Lands(p)
       THEN hist' = Extended(p) /\ node' = Written(p)
       ELSE UNCHANGED <<hist, node>>
    /\ IF ~Lands(p) /\ Writes(p) THEN Done(p) ELSE Go(p, at[p].then)
    /\ Slips("outside", /\ at[p].op \in {"seed", "outside", "baseline"}
                        /\ Lands(p) => at[p].def # node.def)
    /\ UNCHANGED <<kind, memo, file, retired, ops, starts>>

\* A workflow is written and deleted by its id, the others by their name.
Same(w) == kind = "workflow" => node.id = at[w].id

\* An unchanged definition is written whole, with no look at the version; a program or
\* a profile that is gone comes back by it.
Plain(w) ==
    /\ at[w].pc = "plain"
    /\ IF node.there /\ Same(w)
       THEN node' = [node EXCEPT !.def = at[w].def, !.yaml = at[w].yaml, !.src = at[w].src]
       ELSE node' = IF kind = "workflow" THEN node
                    ELSE [NoNode EXCEPT !.there = TRUE, !.def = at[w].def,
                                        !.yaml = at[w].yaml, !.src = at[w].src]
    /\ Slips("undone", \/ ~node.there
                       \/ (Same(w) /\ node.def # at[w].def)
                       \/ (kind = "program" /\ node.yaml # at[w].yaml))
    /\ Go(w, "remember")
    /\ UNCHANGED <<kind, hist, memo, file, retired, ops, starts>>

\* save_profile and load_profiles put what they have into the memory.
Remember(p) ==
    /\ at[p].pc = "remember"
    /\ memo' = IF kind = "profile" THEN [def |-> at[p].def, yaml |-> at[p].yaml] ELSE memo
    /\ Done(p)
    /\ UNCHANGED <<kind, node, hist, file, retired, slip, ops, starts>>

-----------------------------------------------------------------------------
(* Deletes *)

\* A profile that its file owns, by the memory, is not deleted.
Find(w) ==
    /\ at[w].pc = "find"
    /\ IF Stored # NoDef /\ ~(kind = "profile" /\ memo.yaml)
       THEN Set(w, [at[w] EXCEPT !.pc = "version", !.id = node.id, !.src = node.src])
       ELSE Done(w)
    /\ UNCHANGED <<kind, node, hist, memo, file, retired, slip, ops, starts>>

\* record_delete, before the object goes,
ReadVersion(w) ==
    /\ at[w].pc = "version"
    /\ Set(w, [at[w] EXCEPT !.pc = "latest", !.current = LiveVersion, !.op = "delete",
                            !.then = IF kind = "program" /\ at[w].src
                                     THEN "retire" ELSE "remove"])
    /\ UNCHANGED <<kind, node, hist, memo, file, retired, slip, ops, starts>>

Retire(w) ==
    /\ at[w].pc = "retire"
    /\ retired' = TRUE
    /\ Go(w, "remove")
    /\ UNCHANGED <<kind, node, hist, memo, file, slip, ops, starts>>

\* whatever has become of it since.
Remove(w) ==
    /\ at[w].pc = "remove"
    /\ node' = IF Same(w) THEN NoNode ELSE node
    /\ Slips("kept", node.there /\ ~Same(w))
    /\ Go(w, "forget")
    /\ UNCHANGED <<kind, hist, memo, file, retired, ops, starts>>

Forget(w) ==
    /\ at[w].pc = "forget"
    /\ memo' = NoMemo
    /\ Done(w)
    /\ UNCHANGED <<kind, node, hist, file, retired, slip, ops, starts>>

-----------------------------------------------------------------------------
(* Resets and starts *)

FromFile == [node EXCEPT !.there = TRUE, !.def = file, !.yaml = TRUE, !.src = TRUE]

Unretire(w) ==
    /\ at[w].pc = "unretire"
    /\ retired' = FALSE
    /\ Go(w, "reset")
    /\ UNCHANGED <<kind, node, hist, memo, file, slip, ops, starts>>

\* A reset writes the file's definition over the stored one; a profile's is then
\* seeded like all of them.
Reset(w) ==
    /\ at[w].pc = "reset"
    /\ node' = FromFile
    /\ Go(w, IF kind = "profile" THEN "seedread" ELSE "mark")
    /\ Slips("rewritten", node.there /\ node.def # file)
    /\ UNCHANGED <<kind, hist, memo, file, retired, ops, starts>>

\* The seeder writes an object that its file owns.
SeedRead(p) ==
    /\ at[p].pc = "seedread"
    /\ Go(p, IF file # NoDef /\ node.there /\ ~node.yaml THEN "mark"
             ELSE IF file = NoDef \/ retired THEN "prune" ELSE "seedwrite")
    /\ UNCHANGED <<kind, node, hist, memo, file, retired, slip, ops, starts>>

SeedWrite(p) ==
    /\ at[p].pc = "seedwrite"
    /\ node' = FromFile
    /\ Slips("undone", node.there /\ ~node.yaml)
    /\ Go(p, "mark")
    /\ UNCHANGED <<kind, hist, memo, file, retired, ops, starts>>

\* The reset of a program seeds that one alone.
AfterSeed(p) == IF kind = "program" /\ p # Boot THEN "list" ELSE "prune"

\* record_seed notes the file, and adds a revision when the file owns the object and
\* says something new.
Mark(p) ==
    /\ at[p].pc = "mark"
    /\ IF node.there
       THEN /\ node' = [node EXCEPT !.seed = file]
            /\ Set(p, [at[p] EXCEPT !.pc = IF node.yaml THEN "compare" ELSE AfterSeed(p),
                                    !.current = node.rev])
       ELSE UNCHANGED node /\ Go(p, AfterSeed(p))
    /\ UNCHANGED <<kind, hist, memo, file, retired, slip, ops, starts>>

Compare(p) ==
    /\ at[p].pc = "compare"
    /\ Set(p, IF DefOf(Top) = file
              THEN [at[p] EXCEPT !.pc = AfterSeed(p)]
              ELSE [at[p] EXCEPT !.pc = "latest", !.op = "seed", !.def = file,
                                 !.then = AfterSeed(p)])
    /\ UNCHANGED <<kind, node, hist, memo, file, retired, slip, ops, starts>>

\* A program or a profile that a file owns goes with its file.
Prune(p) ==
    /\ at[p].pc = "prune"
    /\ node' = IF kind # "workflow" /\ node.there /\ node.yaml /\ (file = NoDef \/ retired)
               THEN NoNode ELSE node
    /\ Go(p, "list")
    /\ UNCHANGED <<kind, hist, memo, file, retired, slip, ops, starts>>

\* reconcile: the live definitions are read first, a program's reset has its own,
List(p) ==
    /\ at[p].pc = "list"
    /\ IF kind = "program" /\ p # Boot
       THEN Set(p, [at[p] EXCEPT !.pc = "row", !.def = file])
       ELSE IF node.there
       THEN Set(p, [at[p] EXCEPT !.pc = "row", !.def = node.def])
       ELSE Go(p, "load")
    /\ UNCHANGED <<kind, node, hist, memo, file, retired, slip, ops, starts>>

\* then what the owner says of it,
Row(p) ==
    /\ at[p].pc = "row"
    /\ IF node.there
       THEN Set(p, [at[p] EXCEPT !.pc = "judge", !.current = node.rev,
                                 !.caught = ~node.yaml /\ node.seed = at[p].def])
       ELSE Go(p, "load")
    /\ UNCHANGED <<kind, node, hist, memo, file, retired, slip, ops, starts>>

\* then the newest revision: one is added when it is not of that definition,
JudgedAlike(p) == FALSE                                                  \* mutant
Differs(p) == DefOf(Top) # at[p].def
Judge(p) ==
    /\ at[p].pc = "judge"
    /\ Set(p, IF Top = 0 \/ Differs(p)
              THEN [at[p] EXCEPT !.pc = "latest", !.then = "top",
                                 !.op = IF Top = 0 THEN "baseline" ELSE "outside"]
              ELSE [at[p] EXCEPT !.pc = "top"])
    /\ UNCHANGED <<kind, node, hist, memo, file, retired, slip, ops, starts>>

ReadTop(p) ==
    /\ at[p].pc = "top"
    /\ Set(p, [at[p] EXCEPT !.pc = "stamp", !.latest = Top])
    /\ UNCHANGED <<kind, node, hist, memo, file, retired, slip, ops, starts>>

\* and the owner is stamped with it, and handed back to a file that agrees.
Stamp(p) ==
    /\ at[p].pc = "stamp"
    /\ IF node.there
       THEN node' = [node EXCEPT !.rev = at[p].latest, !.yaml = @ \/ at[p].caught]
       ELSE UNCHANGED node
    /\ Slips("restamped", /\ node.there
                          /\ \/ node.rev # at[p].latest
                             \/ at[p].caught /\ node.def # at[p].def)
    /\ Go(p, "load")
    /\ UNCHANGED <<kind, hist, memo, file, retired, ops, starts>>

\* load_profiles reads the profiles for the memory.
Load(p) ==
    /\ at[p].pc = "load"
    /\ IF kind = "profile" /\ node.there
       THEN Set(p, [at[p] EXCEPT !.pc = "remember", !.def = node.def, !.yaml = node.yaml])
       ELSE IF kind = "profile" THEN Go(p, "forget") ELSE Done(p)
    /\ UNCHANGED <<kind, node, hist, memo, file, retired, slip, ops, starts>>

\* The process stops wherever it is, and starts again; meanwhile the owner may have
\* removed the file or written it from the live definition.  What went around the save
\* path before is found by the start.
Restart ==
    /\ starts < MaxStarts
    /\ starts' = starts + 1
    /\ file' \in {file, NoDef} \cup (IF node.there THEN {node.def} ELSE {})
    /\ memo' = NoMemo
    /\ at' = Started
    /\ slip' = {}
    /\ UNCHANGED <<kind, node, hist, retired, ops>>

-----------------------------------------------------------------------------
Step(p) ==
    \/ Latest(p) \/ Txn(p) \/ Remember(p) \/ Forget(p) \/ SeedRead(p) \/ SeedWrite(p)
    \/ Mark(p) \/ Compare(p) \/ Prune(p) \/ List(p) \/ Row(p) \/ Judge(p) \/ ReadTop(p) \/ Stamp(p) \/ Load(p)

Request(w) ==
    \/ Start(w) \/ Prepare(w) \/ Gate(w) \/ Plain(w) \/ Find(w) \/ ReadVersion(w)
    \/ Retire(w) \/ Remove(w) \/ Unretire(w) \/ Reset(w)

Finished == Calm /\ ops = MaxOps /\ starts = MaxStarts /\ UNCHANGED vars

Next ==
    \/ \E p \in Proc : Step(p)
    \/ \E w \in Worker : Request(w)
    \/ Restart
    \/ Finished

Spec == Init /\ [][Next]_vars

-----------------------------------------------------------------------------
(* Properties *)

\* chain_problems finds nothing: versions follow each other from 1, and each revision
\* links to the one before it, whoever wrote them beside each other, through deletes
\* and starts (append_revision's one transaction, check_chains).
ChainLinked ==
    /\ DOMAIN hist = 1..Top
    /\ \A v \in DOMAIN hist : hist[v].prev = DefOf(v - 1)

\* A new revision that an edit has written.
Edited == /\ DOMAIN hist' # DOMAIN hist
          /\ hist'[Top'].op \in {"save", "revert"}
          /\ hist'[Top'].based # 0

\* A reset that stamps an older version over a newer one is the exception.
SavedOnTop == [][Edited /\ "restamped" \notin slip => hist'[Top'].based = Top]_vars

\* gate, append_revision (revisions.rs:9-11): a save undoes nothing that came in between,
\* it keeps all of the definition it replaces.  The exceptions are a profile's that was
\* laid over a memory behind the graph, one beside a write that raises no version (an
\* unchanged save, a reset), and one that a reset's late stamp of an older version lets
\* through the gate.
NoLostEdit ==
    [][(/\ Edited /\ hist'[Top'].op = "save"
        /\ slip \cap {"stale", "undone", "rewritten", "restamped"} = {})
        => node.def \subseteq hist'[Top'].def]_vars

\* reconcile (revisions.rs:417): an object is handed back to a file that says what is live.
HandedToFile ==
    [][\A p \in Proc : Stamp(p) /\ ~node.yaml /\ node'.yaml => node.def = file]_vars

\* commit, record_seed, reconcile: at rest the newest revision is the live definition
\* and the object is at its version; a start brings this about whatever was written
\* around the save path, and wherever the process stopped before it.  The exceptions
\* last until that start: an unchanged save over a newer one, a reset whose revision or
\* stamp lost to a save, a delete whose object was made anew.
LiveIsLatest ==
    Calm /\ node.there /\ slip \cap {"undone", "restamped", "outside", "kept"} = {}
    => node.rev = Top /\ node.def = hist[Top].def

\* seed_programs, seed, the resets and reconcile: a program or a profile that its file
\* owns is at rest what the file says, so that seeding it again undoes nobody's edit.
\* An unchanged save and a stamp that came late are the exceptions.
OwnedByFile ==
    /\ Calm /\ kind # "workflow"
    /\ node.there /\ node.yaml /\ file # NoDef /\ ~retired
    /\ slip \cap {"undone", "restamped"} = {}
    => node.def = file
=============================================================================
