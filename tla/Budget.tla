------------------------------- MODULE Budget -------------------------------
(***************************************************************************)
(* The budget of one provider (crates/llm/src/budget.rs) and those who      *)
(* spend it: generations that walk a chain of rungs (shared_llm.rs), turns   *)
(* of several rounds (chat/round_loop.rs) and embeddings while the GPU is    *)
(* leased (llm.rs).  A verdict is asked before a call and the call is        *)
(* counted after it; between the two it waits for the provider's gate and    *)
(* for the answer.                                                         *)
(*                                                                         *)
(* A step of the clock is a minute: what was counted before it has left the  *)
(* window.  A successful call of a paid provider costs 1.  Tokens are        *)
(* counted and limited as requests are, and are left out, and so is the       *)
(* limit of a minute that a model may have of its own.                       *)
(***************************************************************************)
EXTENDS Naturals, Sequences, FiniteSets

CONSTANTS
    Run,        \* generations, turns and embeddings that may run at the same time,
    Kinds,      \* and which of these each may be
    Model,      \* the provider's models
    Ladder,     \* a generation's rungs: its primary model and build_fallback_chain
    Paid,       \* the provider's billing is Paid
    Rounds,     \* calls of one turn (bounds the model)
    None,       \* no limit declared
    Rpm, Rpd,   \* the provider's declared requests a minute and a day
    ModelRpd,   \* a model's own
    DailyUsd, MonthlyUsd, \* spend caps
    Day, Month, \* minutes of a day, days of a month
    Backoff,    \* BACKOFF_STEPS_SECS in minutes
    Hour,       \* minutes of an account's bench
    Hints,      \* waits a response's headers or error text ask for
    Ends,       \* how calls end
    Harm        \* crashes and failures of the ledger in all (bounds the model)

Limit == Nat \cup {None}

ASSUME BudgetAssumption ==
    /\ IsFiniteSet(Run)
    /\ Kinds \in [Run -> SUBSET {"generate", "turn", "embed"}]
    /\ None \notin Nat
    /\ Ladder \in Seq(Model) /\ Len(Ladder) > 0
    /\ Paid \in BOOLEAN
    /\ Rpm \in Limit /\ Rpd \in Limit /\ ModelRpd \in [Model -> Limit]
    /\ DailyUsd \in Limit /\ MonthlyUsd \in Limit
    /\ Rounds \in Nat /\ Harm \in Nat
    /\ Day \in Nat \ {0} /\ Month \in Nat \ {0} /\ Hour \in Nat \ {0}
    /\ Ends \subseteq {"ok", "account", "hinted", "limited", "server", "transport", "other"}
    /\ Backoff \in Seq(Nat \ {0}) /\ Len(Backoff) > 0 /\ Hints \subseteq Nat

VARIABLES
    minute, day, \* of the day, of the month
    book,    \* the provider's ProviderCounters
    models,  \* ModelState: a model's requests, its cooldown and its backoff step
    bench,   \* minutes left of the provider's cooldown
    ledger,  \* what model_usage holds of today and of this month
    run,     \* what each run is at
    beyond,  \* history: a run's calls today that ended at or beyond a daily limit
    slip,    \* history: "day", "month": a call is in the book or in the ledger alone
    harm     \* how much of Harm has been spent

vars == <<minute, day, book, models, bench, ledger, run, beyond, slip, harm>>

-----------------------------------------------------------------------------
Kind == {"generate", "turn", "embed"}

\* `fresh` and `month` that the counts are of today and of this month; `window` what
\* was counted in the last minute.
NoCounts == [fresh |-> FALSE, requests |-> 0, spend |-> 0,
             month |-> FALSE, spent |-> 0, window |-> 0]
NoState == [fresh |-> FALSE, requests |-> 0, wait |-> 0, step |-> 0]
NoRows == [requests |-> 0, spend |-> 0, spent |-> 0, of |-> [m \in Model |-> 0]]
Idle == [pc |-> "idle", kind |-> "generate", rung |-> 1, round |-> 0, out |-> "ok"]

\* How a call ends: an answer; a rate limit, of the whole account, with a hint when to
\* come back, or without; a 5xx or a broken connection; anything else.  (An account's
\* limit comes without a hint.)
Outcome == {"ok", "account", "hinted", "limited", "server", "transport", "other"}
Unavailable == {"account", "hinted", "limited", "server", "transport"}

TypeOK ==
    /\ minute \in 0..(Day - 1) /\ day \in 0..(Month - 1)
    /\ book \in [fresh : BOOLEAN, requests : Nat, spend : Nat,
                 month : BOOLEAN, spent : Nat, window : Nat]
    /\ models \in [Model -> [fresh : BOOLEAN, requests : Nat, wait : Nat,
                             step : 0..Len(Backoff)]]
    /\ bench \in 0..Hour
    /\ ledger \in [requests : Nat, spend : Nat, spent : Nat, of : [Model -> Nat]]
    /\ run \in [Run -> [pc : {"idle", "admit", "round", "call", "write", "count", "lost"},
                        kind : Kind, rung : 1..Len(Ladder), round : Nat, out : Outcome]]
    /\ beyond \in [Run -> Nat]
    /\ slip \subseteq {"day", "month"}
    /\ harm \in 0..Harm

Init ==
    /\ minute = 0 /\ day = 0
    /\ book = NoCounts
    /\ models = [m \in Model |-> NoState]
    /\ bench = 0
    /\ ledger = NoRows
    /\ run = [r \in Run |-> Idle]
    /\ beyond = [r \in Run |-> 0]
    /\ slip = {}
    /\ harm = 0

-----------------------------------------------------------------------------
(* Verdicts *)

Reached(n, limit) == limit # None /\ n >= limit

\* counters_usage: the counts of a past day or month read as zero.
StaleToday(c) == c.requests                                              \* mutant
Today(c) == IF c.fresh THEN c.requests ELSE 0
SpentToday == IF book.fresh THEN book.spend ELSE 0
SpentMonth == IF book.month THEN book.spent ELSE 0

\* BudgetBook::verdict_with
Verdict(m) ==
    /\ models[m].wait = 0 /\ bench = 0
    /\ ~Reached(Today(models[m]), ModelRpd[m])
    /\ ~Reached(book.window, Rpm) /\ ~Reached(Today(book), Rpd)
    /\ Paid => ~Reached(SpentToday, DailyUsd) /\ ~Reached(SpentMonth, MonthlyUsd)

ModelOf(r) == Ladder[run[r].rung]

Set(r, new) == run' = [run EXCEPT ![r] = new]
Go(r, pc) == Set(r, [run[r] EXCEPT !.pc = pc])
Done(r) == Set(r, Idle)

\* A generation's next rung.
NextRung(r) ==
    IF run[r].kind = "generate" /\ run[r].rung < Len(Ladder)
    THEN Set(r, [run[r] EXCEPT !.rung = @ + 1, !.pc = "admit", !.out = "ok"])
    ELSE Done(r)

Begin(r) ==
    /\ run[r].pc = "idle"
    /\ \E kind \in Kinds[r] : Set(r, [Idle EXCEPT !.pc = "admit", !.kind = kind])
    /\ UNCHANGED <<minute, day, book, models, bench, ledger, beyond, slip, harm>>

\* RoutingPolicy::admit, and lease_embeddings: each rung of a generation is judged when
\* it is its turn, a turn when it starts.
Admit(r) ==
    /\ run[r].pc = "admit"
    /\ IF Verdict(ModelOf(r))
       THEN Go(r, IF run[r].kind = "turn" THEN "round" ELSE "call")
       ELSE NextRung(r)
    /\ UNCHANGED <<minute, day, book, models, bench, ledger, beyond, slip, harm>>

\* paid_cap_refusal: a turn on a paid provider is judged before each call.
NeverRefused(r) == FALSE                                                 \* mutant
Refused(r) == Paid /\ ~Verdict(ModelOf(r))
Round(r) ==
    /\ run[r].pc = "round"
    /\ IF Refused(r)
       THEN Done(r)
       ELSE Set(r, [run[r] EXCEPT !.pc = "call", !.round = @ + 1])
    /\ UNCHANGED <<minute, day, book, models, bench, ledger, beyond, slip, harm>>

-----------------------------------------------------------------------------
(* Calls *)

\* extend_cooldown
Longer(m, minutes) == IF minutes > models[m].wait THEN minutes ELSE models[m].wait

\* The response, after a wait for the provider's gate: `observe` acts on its headers at
\* once (a retry-after; nothing remaining, a limit of zero, whatever its status).
Answer(r, out) ==
    /\ run[r].pc = "call"
    /\ \E minutes \in {0} \cup Hints :
          models' = [models EXCEPT ![ModelOf(r)].wait = Longer(ModelOf(r), minutes)]
    /\ IF run[r].kind = "embed"
       THEN IF out = "ok" THEN Set(r, [run[r] EXCEPT !.pc = "count", !.out = out]) ELSE Done(r)
       ELSE Set(r, [run[r] EXCEPT !.pc = "write", !.out = out])
    /\ UNCHANGED <<minute, day, book, bench, ledger, beyond, slip, harm>>

Cost(r) == IF Paid /\ run[r].out = "ok" THEN 1 ELSE 0

\* record_model_usage_reported: a row of model_usage.
Write(r) ==
    /\ run[r].pc = "write"
    /\ ledger' = [requests |-> ledger.requests + 1, spend |-> ledger.spend + Cost(r),
                  spent |-> ledger.spent + Cost(r),
                  of |-> [ledger.of EXCEPT ![ModelOf(r)] = @ + 1]]
    /\ Go(r, "count")
    /\ UNCHANGED <<minute, day, book, models, bench, beyond, slip, harm>>

\* It fails; the call is still counted in the book, at the cost that the provider told,
\* if it told one.
WriteFails(r) ==
    /\ run[r].pc = "write" /\ harm < Harm
    /\ harm' = harm + 1
    /\ slip' = {"day", "month"}
    /\ Go(r, "lost")
    /\ UNCHANGED <<minute, day, book, models, bench, ledger, beyond>>

\* roll: counts of a past day or month start anew.
Rolled(c) == [fresh |-> TRUE, requests |-> IF c.fresh THEN c.requests ELSE 0,
              spend |-> IF c.fresh THEN c.spend ELSE 0,
              month |-> TRUE, spent |-> IF c.month THEN c.spent ELSE 0, window |-> c.window]

Counted(cost) ==
    [Rolled(book) EXCEPT !.requests = @ + 1, !.spend = @ + cost, !.spent = @ + cost,
                         !.window = @ + 1]

\* What a call's end makes of its model's cooldown and backoff: the step is counted up to
\* the last one, which is what the code reads of it.
StepAfter(m) == IF models[m].step < Len(Backoff) THEN models[m].step + 1 ELSE models[m].step
BackoffOf(m) == Backoff[IF models[m].step < Len(Backoff) THEN models[m].step + 1 ELSE Len(Backoff)]

Ended(m, out, minutes) ==
    [fresh |-> TRUE, requests |-> (IF models[m].fresh THEN models[m].requests ELSE 0) + 1,
     wait |-> Longer(m, minutes),
     step |-> CASE out = "ok" -> 0
                [] out \in {"limited", "account"} -> StepAfter(m)
                [] OTHER -> models[m].step]

\* A daily limit of the provider is reached, by the book as it will be.
OutOfDay == \/ Reached(book'.requests, Rpd)
            \/ Paid /\ Reached(book'.spend, DailyUsd)

\* The primary's failure is passed on when it is not of the provider's making; a
\* fallback's never is.
WalksOn(r) == run[r].out \in Unavailable \/ (run[r].out = "other" /\ run[r].rung > 1)

\* BudgetBook::record, and where the run goes on.
Count(r) ==
    LET m == ModelOf(r)
        out == run[r].out IN
    /\ run[r].pc \in {"count", "lost"}
    /\ \E cost \in IF run[r].pc = "lost" THEN {0, Cost(r)} ELSE {Cost(r)} : book' = Counted(cost)
    /\ bench' = IF out = "ok" THEN 0 ELSE IF out = "account" /\ bench < Hour THEN Hour ELSE bench
    /\ \E minutes \in CASE out \in {"limited", "account"} -> {BackoffOf(m)}
                        [] out = "hinted" -> Hints
                        [] out = "server" -> {1}
                        [] OTHER -> {0} :
          models' = [models EXCEPT ![m] = Ended(m, out, minutes)]
    /\ beyond' = [beyond EXCEPT ![r] = IF OutOfDay THEN @ + 1 ELSE @]
    /\ slip' = IF run[r].kind = "embed" THEN {"day", "month"} ELSE slip
    /\ \/ out = "ok" /\ run[r].kind = "turn" /\ run[r].round < Rounds /\ Go(r, "round")
       \/ ~WalksOn(r) /\ Done(r)
       \/ WalksOn(r) /\ NextRung(r)
    /\ UNCHANGED <<minute, day, ledger, harm>>

\* The run is dropped while it waits or reads, or what it reads is no answer
\* (anthropic_loop.rs:187-190): nobody counts the call.
Drop(r) ==
    /\ run[r].pc \in {"call", "write"}
    /\ Done(r)
    /\ UNCHANGED <<minute, day, book, models, bench, ledger, beyond, slip, harm>>

-----------------------------------------------------------------------------
(* Time and restarts *)

\* A call is in the ledger, and in the book not yet.
Late == \E r \in Run : run[r].pc \in {"count", "lost"}

\* A minute passes: windows empty, waits shorten; at midnight the counts are of a past
\* day, and of a past month when that ends.
Tick ==
    LET midnight == minute = Day - 1
        newMonth == midnight /\ day = Month - 1 IN
    /\ minute' = (minute + 1) % Day
    /\ day' = IF midnight THEN (day + 1) % Month ELSE day
    /\ book' = [book EXCEPT !.window = 0, !.fresh = @ /\ ~midnight, !.month = @ /\ ~newMonth]
    /\ models' = [m \in Model |->
          [models[m] EXCEPT !.wait = IF @ > 0 THEN @ - 1 ELSE 0, !.fresh = @ /\ ~midnight]]
    /\ bench' = IF bench > 0 THEN bench - 1 ELSE 0
    /\ ledger' = [requests |-> IF midnight THEN 0 ELSE ledger.requests,
                  spend |-> IF midnight THEN 0 ELSE ledger.spend,
                  spent |-> IF newMonth THEN 0 ELSE ledger.spent,
                  of |-> IF midnight THEN [m \in Model |-> 0] ELSE ledger.of]
    /\ beyond' = IF midnight THEN [r \in Run |-> 0] ELSE beyond
    /\ slip' = (slip \ ((IF midnight THEN {"day"} ELSE {}) \cup (IF newMonth THEN {"month"} ELSE {})))
               \cup (IF Late /\ midnight THEN {"day"} ELSE {})
               \cup (IF Late /\ newMonth THEN {"month"} ELSE {})
    /\ UNCHANGED <<run, harm>>

\* The process stops, and before it serves again seed and seed_models take the counts
\* from the ledger: both, the provider's alone, or neither, when it cannot be read.
SeededNothing == NoCounts                                                \* mutant
Seeded == [fresh |-> TRUE, requests |-> ledger.requests, spend |-> ledger.spend,
           month |-> TRUE, spent |-> ledger.spent, window |-> 0]
Restart ==
    /\ harm < Harm
    /\ harm' = harm + 1
    /\ run' = [r \in Run |-> Idle]
    /\ bench' = 0
    /\ \E read \in {{"day", "month"}, {"month"}, {}} :
          /\ book' = IF "month" \in read THEN Seeded ELSE NoCounts
          /\ models' = [m \in Model |->
                IF "day" \in read
                THEN [NoState EXCEPT !.fresh = ledger.of[m] > 0, !.requests = ledger.of[m]]
                ELSE NoState]
          /\ slip' = {"day", "month"} \ read
    /\ beyond' = IF slip' = {} /\ slip = {} THEN beyond ELSE [r \in Run |-> 0]
    /\ UNCHANGED <<minute, day, ledger>>

-----------------------------------------------------------------------------
Step(r) ==
    \/ Begin(r) \/ Admit(r) \/ Round(r) \/ (\E out \in Ends : Answer(r, out))
    \/ Write(r) \/ WriteFails(r) \/ Count(r) \/ Drop(r)

Next == (\E r \in Run : Step(r)) \/ Tick \/ Restart

Spec == Init /\ [][Next]_vars

\* Time passes; a call ends, as its timeout makes it, and is recorded.
FairSpec ==
    /\ Spec
    /\ WF_vars(Tick)
    /\ \A r \in Run : WF_vars((\E out \in Ends : Answer(r, out)) \/ Write(r) \/ Count(r))

-----------------------------------------------------------------------------
(* Properties *)

\* "Checked before every call, a run can now overshoot by at most the one call that
\* crosses the cap" (round_loop.rs:90-93): however many runs share the provider, and over
\* restarts, each ends at most one call a day at or beyond a daily limit.
OneCallOver == Paid => \A r \in Run : beyond[r] <= 1

\* "Seeded at startup from model_usage, so a restart does not hand back a spent quota"
\* (budget.rs:10-11): the book and the ledger say the same of today and of this month, at
\* midnight, at the end of a month and over restarts.  It needs that no call is in one of
\* them alone: an embedding's, one whose row failed, one recorded across midnight.
BookAgrees ==
    ~Late =>
        /\ "day" \notin slip => /\ Today(book) = ledger.requests
                                /\ SpentToday = ledger.spend
                                /\ \A m \in Model : Today(models[m]) = ledger.of[m]
        /\ "month" \notin slip => SpentMonth = ledger.spent

\* A model is tried again: whatever its answers were, its cooldown, its provider's bench
\* and every quota come to an end (budget.rs:22-26).
ComesBack == \A m \in Model : []<>Verdict(m)
=============================================================================
