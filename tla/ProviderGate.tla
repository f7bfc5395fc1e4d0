---------------------------- MODULE ProviderGate ----------------------------
(***************************************************************************)
(* The concurrency gate of one provider (crates/llm/src/provider_gate.rs): *)
(* its Slot, the requests that wait for a permit in three classes, and the *)
(* registry reloads that resize, remove or restore the gate.  One action   *)
(* is one critical section on the gate's mutex; a request gives up         *)
(* wherever its future may be dropped.                                     *)
(***************************************************************************)
EXTENDS Integers, FiniteSets, Sequences

CONSTANTS
    Request,     \* the calls to the provider that may be under way at a time
    ClassOf,     \* ClassOf[r]: r's class: 1 chat, 2 subagent, 3 background
    Limits,      \* the limits.concurrency values a registry reload may install
    MayGiveUp,   \* the requests whose future may be dropped before it is done
    MayUngate    \* whether a reload may leave the provider without a limit

ASSUME GateAssumption ==
    /\ ClassOf \in [Request -> 1..3]
    /\ Limits \subseteq Nat
    /\ MayGiveUp \subseteq Request
    /\ MayUngate \in BOOLEAN

VARIABLES
    slot,      \* the provider's Slot, NoSlot when it is not gated
    call,      \* where each request stands in acquire and after it
    ahead,     \* history: the waiters that must be served before each waiter
    uncounted  \* history: the gate was removed while permits were out

vars == <<slot, call, ahead, uncounted>>

NoWaiters == [c \in 1..3 |-> <<>>]
NoSlot == [capacity |-> 0, inUse |-> 0, waiters |-> NoWaiters]

\* A limit of 0 is read as 1, so that no gated provider has capacity 0.
Gated == slot.capacity > 0

\* "gone": given up while its sender still sits in a queue; "handed": the permit
\* is in the channel; "ungated": the call proceeds without a permit.
CallPc == {"idle", "waiting", "gone", "handed", "holding", "ungated"}

\* Who has a sender in one of the queues.
Queued(s) == {r \in Request : \E c \in 1..3 : \E i \in DOMAIN s.waiters[c] : s.waiters[c][i] = r}
Waiting == {r \in Request : call[r] = "waiting"}
Permits == {r \in Request : call[r] \in {"handed", "holding"}}

TypeOK ==
    /\ slot.capacity \in Nat /\ slot.inUse \in Nat
    /\ slot.waiters \in [1..3 -> Seq(Request)]
    /\ call \in [Request -> CallPc]
    /\ ahead \in [Request -> SUBSET Request]
    /\ uncounted \in BOOLEAN
    /\ \A r \in Request : call[r] \in {"waiting", "gone"} <=> r \in Queued(slot)

-----------------------------------------------------------------------------
(* dispatch: fill free capacity from the waiters, highest class first.  A    *)
(* sender whose receiver has gone is popped, and its permit taken back.      *)

\* The loop pops the queues as one line: how many waiters stand before class c's,
Size(s, c) == Len(s.waiters[c])
Senders(s) == Size(s, 1) + Size(s, 2) + Size(s, 3)
BeforeBackwards(s, c) == IF c = 3 THEN 0 ELSE IF c = 2 THEN Size(s, 3) \* mutant
                         ELSE Size(s, 3) + Size(s, 2)
Before(s, c) == IF c = 1 THEN 0 ELSE IF c = 2 THEN Size(s, 1) ELSE Size(s, 1) + Size(s, 2)

\* how many of the first n are of class c, and who of the first n is sent a permit.
From(s, n, c) == LET k == n - Before(s, c) IN
    IF k < 0 THEN 0 ELSE IF k > Size(s, c) THEN Size(s, c) ELSE k
First(s, n) == {r \in Request : \E c \in 1..3 : \E i \in 1..From(s, n, c) : s.waiters[c][i] = r}
SentAnyone(s, n) == First(s, n)                                        \* mutant
Sent(s, n) == {r \in First(s, n) : call[r] = "waiting"}

\* It goes on after n of them while a permit is free and somebody is left.
GoesOnBeyond(s, n) == n < Senders(s) /\ s.inUse + Cardinality(Sent(s, n)) <= s.capacity \* mutant
GoesOn(s, n) == n < Senders(s) /\ s.inUse + Cardinality(Sent(s, n)) < s.capacity
Popped(s) == CHOOSE n \in 0..Senders(s) : ~GoesOn(s, n) /\ \A m \in 0..(n - 1) : GoesOn(s, m)

DispatchNobody(s) == s                                                 \* mutant
Dispatch(s) == LET n == Popped(s) IN
    [s EXCEPT !.inUse = @ + Cardinality(Sent(s, n)),
              !.waiters = [c \in 1..3 |->
                  SubSeq(s.waiters[c], From(s, n, c) + 1, Size(s, c))]]

\* Where that leaves the requests; the one in `done` takes this step.
Answered(done, pc) ==
    call' = [q \in Request |->
        IF q \in done THEN pc
        ELSE IF call[q] = "waiting" /\ q \notin Queued(slot') THEN "handed"
        ELSE IF call[q] = "gone" /\ q \notin Queued(slot') THEN "idle"
        ELSE call[q]]

Overtakes == ahead' = [r \in Request |->
    IF call'[r] # "waiting" THEN {}
    ELSE IF call[r] = "waiting" THEN {q \in ahead[r] : call'[q] = "waiting"}
    ELSE {q \in Waiting : ClassOf[q] <= ClassOf[r]}]
Remember == Overtakes /\ UNCHANGED uncounted

-----------------------------------------------------------------------------
Init ==
    /\ slot = NoSlot
    /\ call = [r \in Request |-> "idle"]
    /\ ahead = [r \in Request |-> {}]
    /\ uncounted = FALSE

\* acquire, up to its await.
Arrive(r) ==
    /\ call[r] = "idle"
    /\ \/ /\ ~Gated
          /\ UNCHANGED slot
          /\ Answered({r}, "ungated")
       \/ /\ Gated /\ slot.inUse < slot.capacity /\ Queued(slot) = {}
          /\ slot' = [slot EXCEPT !.inUse = @ + 1]
          /\ Answered({r}, "holding")
       \/ /\ Gated /\ ~(slot.inUse < slot.capacity /\ Queued(slot) = {})
          /\ slot' = [slot EXCEPT !.waiters[ClassOf[r]] = Append(@, r)]
          /\ Answered({r}, "waiting")
    /\ Remember

\* The await returns with the permit.
Receive(r) ==
    /\ call[r] = "handed"
    /\ UNCHANGED slot
    /\ Answered({r}, "holding")
    /\ Remember

\* GatePermit::drop, release: a gate that is gone meanwhile tracks nothing.
FreedBelowZero(s) == [s EXCEPT !.inUse = @ - 1]                        \* mutant
Freed(s) == [s EXCEPT !.inUse = IF @ = 0 THEN 0 ELSE @ - 1]
Release(r) ==
    /\ slot' = IF Gated THEN Dispatch(Freed(slot)) ELSE slot
    /\ Answered({r}, "idle")

Finish(r) ==
    /\ \/ call[r] = "holding" /\ Release(r)
       \/ call[r] = "ungated" /\ UNCHANGED slot /\ Answered({r}, "idle")
    /\ Remember

\* The future is dropped: a permit on its way comes back, a place in a queue stays.
GiveUp(r) ==
    /\ r \in MayGiveUp
    /\ \/ call[r] = "waiting" /\ UNCHANGED slot /\ Answered({r}, "gone")
       \/ call[r] = "handed" /\ Release(r)
    /\ Remember

\* configure: the reloaded registry declares a limit for the provider, ...
ConfiguredOnly(limit) ==                                               \* mutant
    [slot EXCEPT !.capacity = IF limit = 0 THEN 1 ELSE limit]
Configured(limit) == Dispatch([slot EXCEPT !.capacity = IF limit = 0 THEN 1 ELSE limit])
Configure(limit) ==
    /\ slot' = Configured(limit)
    /\ Answered({}, "idle")
    /\ Remember

\* ... or none: the slot goes, and who waits on it proceeds ungated.
Ungate ==
    /\ MayUngate /\ Gated
    /\ slot' = NoSlot
    /\ call' = [r \in Request |-> CASE call[r] = "waiting" -> "ungated"
                                    [] call[r] = "gone" -> "idle"
                                    [] OTHER -> call[r]]
    /\ Overtakes
    /\ uncounted' = (uncounted \/ Permits # {})

Next ==
    \/ \E r \in Request : Arrive(r) \/ Receive(r) \/ Finish(r) \/ GiveUp(r)
    \/ \E limit \in Limits : Configure(limit)
    \/ Ungate

Spec == Init /\ [][Next]_vars

\* A request runs to its end or its timeout (provider_gate.rs:21-22).
FairSpec == Spec /\ \A r \in Request : WF_vars(Receive(r) \/ Finish(r))

-----------------------------------------------------------------------------
\* Nobody waits while a permit is free: whoever releases, gives up or resizes the
\* gate hands every free slot on, past the waiters that have gone.
NoIdleSlot == slot.inUse < slot.capacity => Queued(slot) = {}

\* The gate never counts a permit that nobody holds, whatever gives up, and however
\* the gate is removed and restored meanwhile: no slot of a provider is lost for good
\* ("skipped without leaking a slot", provider_gate.rs:23).
NoLeak == slot.inUse <= Cardinality(Permits)

\* A permit goes to nobody while a request of a higher class waits, or one of the
\* same class that came earlier (provider_gate.rs:16-19).
NoOvertaking ==
    [][\A r, q \in Request :
          /\ call[r] \notin {"handed", "holding"} /\ call'[r] \in {"handed", "holding"}
          /\ call[q] = "waiting" /\ call'[q] = "waiting"
          => ClassOf[q] >= ClassOf[r] /\ q \notin ahead[r] /\ call[r] # "idle"]_vars

\* No permit is given out beyond the concurrency the provider declares now, also when
\* it was lowered with requests in flight, unless the gate has been removed and
\* restored around some (provider_gate.rs:3-6).
WithinLimit == Permits' \subseteq Permits \/ Cardinality(Permits') <= slot'.capacity
LimitUnlessRemoved == [][uncounted \/ WithinLimit]_vars

\* Every waiter is answered in the end, unless higher classes keep coming.
HigherWaits(r) == \E q \in Waiting : ClassOf[q] < ClassOf[r]
Answers ==
    \A r \in Request : []<>HigherWaits(r) \/ (call[r] = "waiting" ~> call[r] # "waiting")

=============================================================================
