----------------------------- MODULE Throttler -----------------------------
(***************************************************************************)
(* throttler.rs and pop_queue_message_w_throttle of dispatcher.rs: the     *)
(* dispatchers of several processes share the budget of one queue, kept in *)
(* a sorted set of time stamps.  Reading the budget, claiming a job,       *)
(* reading its cost, reading the budget again and recording the cost are   *)
(* separate commands, and any dispatcher may act between two of them.      *)
(*                                                                         *)
(* Time is relative: an entry has an age in milliseconds, a sleeping       *)
(* dispatcher a remaining time, and Tick moves both.  An entry that has    *)
(* left the window is dropped at once: ZREMBYSCORE is the first command of *)
(* every reading.  The time stamp of consume and its reading are one step. *)
(***************************************************************************)
EXTENDS Naturals, FiniteSets, FiniteSetsExt

CONSTANTS
    Dispatchers,   \* one per process that serves the queue
    Limit,         \* QueueThrottle::limit
    Window,        \* QueueThrottle::window_ms
    Costs,         \* the throttle costs of jobs
    FallbackWait,  \* throttled_queue_fallback_wait
    MaxJobs,       \* bound on the jobs pushed
    MaxErrors      \* bound on the Redis errors

(* What is assumed of the constants: a job without a cost of its own       *)
(* costs one.                                                              *)
ThrottlerAssumption ==
    /\ Dispatchers # {} /\ IsFiniteSet(Dispatchers)
    /\ Limit \in Nat /\ Window \in Nat \ {0} /\ FallbackWait \in Nat \ {0}
    /\ Costs \subseteq Nat /\ IsFiniteSet(Costs) /\ 1 \in Costs
    /\ MaxJobs \in Nat /\ MaxErrors \in Nat

VARIABLES
    entries,     \* the sorted set: how many entries of each age
    disp,        \* the point a dispatcher has reached in its pop
    backlog,     \* jobs on the queue
    pushed,      \* history: jobs pushed
    recorded,    \* history: claims whose cost was recorded
    unrecorded,  \* history: claims that started although consume was refused
    errors       \* errors so far

vars == <<entries, disp, backlog, pushed, recorded, unrecorded, errors>>

Ages  == 0 .. Window - 1
Points == {"check", "claim", "cost", "consume", "add", "sleep", "failed"}
(* wait: remaining sleep; age: of the time stamp taken by consume;         *)
(* throttled: its last pop found the budget used up; added: history, what  *)
(* was recorded since then, up to the limit.                               *)
Ready == [pc |-> "check", wait |-> 0, cost |-> 0, age |-> 0, throttled |-> FALSE, added |-> 0]

Init ==
    /\ entries = [a \in Ages |-> 0]
    /\ disp = [d \in Dispatchers |-> Ready]
    /\ backlog = 0 /\ pushed = 0 /\ recorded = 0 /\ unrecorded = 0 /\ errors = 0

-----------------------------------------------------------------------------
(* ThrottlerState: ZCARD, is_allowed, and throttled_for as now - start +   *)
(* window, in whole milliseconds plus one.                                 *)
Requests == MapThenSumSet(LAMBDA a : entries[a], Ages)

IsAllowed == Requests < Limit

ThrottledFor == Max({a \in Ages : entries[a] > 0} \cup {0}) + Window + 1

(* A producer pushes a job.                                                *)
Push ==
    /\ pushed < MaxJobs
    /\ pushed' = pushed + 1 /\ backlog' = backlog + 1
    /\ UNCHANGED <<entries, disp, recorded, unrecorded, errors>>

(* Mutant of Check: the budget is consulted only after the claim.          *)
CheckLater(d) ==
    /\ disp[d].pc = "check"
    /\ disp' = [disp EXCEPT ![d] = [Ready EXCEPT !.pc = "claim"]]
    /\ UNCHANGED <<entries, backlog, pushed, recorded, unrecorded, errors>>

(* throttler.state(): not allowed means a sleep for throttled_for, which   *)
(* is missing when the set is empty (a limit of zero).                     *)
Check(d) ==
    /\ disp[d].pc = "check"
    /\ disp' = [disp EXCEPT ![d] =
          IF IsAllowed THEN [Ready EXCEPT !.pc = "claim"]
          ELSE [Ready EXCEPT !.pc = "sleep", !.throttled = TRUE,
                             !.wait = IF Requests = 0 THEN FallbackWait ELSE ThrottledFor]]
    /\ UNCHANGED <<entries, backlog, pushed, recorded, unrecorded, errors>>

(* Mutant of Claim: an empty queue ends the dispatcher.                    *)
ClaimGivesUp(d) ==
    /\ disp[d].pc = "claim"
    /\ backlog' = IF backlog > 0 THEN backlog - 1 ELSE backlog
    /\ disp' = [disp EXCEPT ![d] = [Ready EXCEPT !.pc = IF backlog > 0 THEN "cost" ELSE "failed"]]
    /\ UNCHANGED <<entries, pushed, recorded, unrecorded, errors>>

(* claim_job: LMOVE, or the fallback wait when the queue is empty.         *)
Claim(d) ==
    /\ disp[d].pc = "claim"
    /\ IF backlog > 0
       THEN /\ backlog' = backlog - 1
            /\ disp' = [disp EXCEPT ![d] = [Ready EXCEPT !.pc = "cost"]]
       ELSE /\ UNCHANGED backlog
            /\ disp' = [disp EXCEPT ![d] = [Ready EXCEPT !.pc = "sleep", !.wait = FallbackWait]]
    /\ UNCHANGED <<entries, pushed, recorded, unrecorded, errors>>

(* get_claimed_job: the cost of the job, one when it has none.             *)
ReadCost(d) ==
    /\ disp[d].pc = "cost"
    /\ \E c \in Costs : disp' = [disp EXCEPT ![d].pc = "consume", ![d].cost = c]
    /\ UNCHANGED <<entries, backlog, pushed, recorded, unrecorded, errors>>

(* consume reads the budget again.  Refused, it records nothing, and the   *)
(* job starts all the same; a job of cost zero needs no entry.             *)
Consume(d) ==
    /\ disp[d].pc = "consume"
    /\ disp' = [disp EXCEPT ![d] = IF IsAllowed /\ disp[d].cost > 0
                                   THEN [@ EXCEPT !.pc = "add", !.age = 0] ELSE Ready]
    /\ unrecorded' = IF IsAllowed THEN unrecorded ELSE unrecorded + 1
    /\ UNCHANGED <<entries, backlog, pushed, recorded, errors>>

(* ZADD of cost entries with the time stamp of the reading.                *)
Add(d) ==
    /\ disp[d].pc = "add"
    /\ entries' = IF disp[d].age \in Ages THEN [entries EXCEPT ![disp[d].age] = @ + disp[d].cost]
                  ELSE entries
    /\ recorded' = recorded + 1
    /\ disp' = [e \in Dispatchers |->
          IF e = d THEN Ready
          ELSE IF disp[e].throttled
          THEN [disp[e] EXCEPT !.added = Min({Limit, @ + disp[d].cost})] ELSE disp[e]]
    /\ UNCHANGED <<backlog, pushed, unrecorded, errors>>

Wake(d) ==
    /\ disp[d].pc = "sleep" /\ disp[d].wait = 0
    /\ disp' = [disp EXCEPT ![d].pc = "check"]
    /\ UNCHANGED <<entries, backlog, pushed, recorded, unrecorded, errors>>

(* An error before the claim is tolerated and the pop starts again; after  *)
(* it the dispatcher fails the runtime and leaves the claim to recovery.   *)
Error(d) ==
    /\ errors < MaxErrors /\ disp[d].pc \in {"check", "claim", "cost", "consume", "add"}
    /\ errors' = errors + 1
    /\ disp' = [disp EXCEPT ![d] = IF @.pc = "check" THEN Ready ELSE [Ready EXCEPT !.pc = "failed"]]
    /\ UNCHANGED <<entries, backlog, pushed, recorded, unrecorded>>

(* Entries grow older; those older than the window are removed.            *)
Aged(e) == [a \in Ages |-> IF a = 0 THEN 0 ELSE e[a - 1]]

(* A millisecond passes.                                                   *)
Tick ==
    /\ entries' = Aged(entries)
    /\ disp' = [d \in Dispatchers |->
          [disp[d] EXCEPT !.wait = IF @ > 0 THEN @ - 1 ELSE 0,
                          !.age = IF disp[d].pc = "add" /\ @ < Window THEN @ + 1 ELSE @]]
    /\ UNCHANGED <<backlog, pushed, recorded, unrecorded, errors>>

Step(d) == Check(d) \/ Claim(d) \/ ReadCost(d) \/ Consume(d) \/ Add(d) \/ Wake(d)

Next == Push \/ Tick \/ \E d \in Dispatchers : Step(d) \/ Error(d)

Spec == Init /\ [][Next]_vars

(* Time passes, and a dispatcher that can take a step takes it.            *)
FairSpec == Spec /\ WF_vars(Tick) /\ \A d \in Dispatchers : WF_vars(Step(d))

-----------------------------------------------------------------------------
(* Type correctness: a sleep never exceeds two windows and a millisecond.  *)
TypeOK ==
    /\ entries \in [Ages -> Nat]
    /\ disp \in [Dispatchers -> [pc : Points, wait : 0 .. Max({FallbackWait, 2 * Window}),
                                 cost : Costs \cup {0}, age : 0 .. Window,
                                 throttled : BOOLEAN, added : 0 .. Limit]]
    /\ {backlog, pushed, recorded, unrecorded} \subseteq 0 .. MaxJobs
    /\ errors \in 0 .. MaxErrors

(* The budget: in no window is more recorded than the limit, but for what  *)
(* dispatchers that read the budget at the same time add on top of it.     *)
WindowBudget ==
    Requests <= Limit + Cardinality(Dispatchers) * Max(Costs) - 1

(* A job that starts without being recorded was overtaken: for each such   *)
(* job another dispatcher recorded one between its check and its consume.  *)
(* A queue with one dispatcher starts no job off the books.                *)
RefusalsExplained == unrecorded <= (Cardinality(Dispatchers) - 1) * recorded

(* throttled_for is long enough: a dispatcher that slept because of the    *)
(* limit is throttled again only if the others have meanwhile recorded a   *)
(* whole budget.                                                           *)
SleepsForAReason ==
    \A d \in Dispatchers : disp[d].throttled /\ disp[d].pc = "check" /\ disp'[d].throttled
        /\ disp'[d].pc = "sleep" => disp[d].added = Limit

(* A throttled queue is served in the end, if one dispatcher survives.     *)
Waiting == backlog > 0
Served == backlog = 0

(* The budget of a window is exceeded, and a job started off the books,    *)
(* only by what dispatchers do between the check and the consume of        *)
(* another.                                                                *)
ThrottleSound == TypeOK /\ WindowBudget /\ RefusalsExplained
=============================================================================
