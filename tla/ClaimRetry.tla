----------------------------- MODULE ClaimRetry -----------------------------
(***************************************************************************)
(* The two retries that a process makes while it holds a claim:            *)
(* get_claimed_job, which reads the payload of a job it has claimed, and   *)
(* claimed_connection, which acquires the connection for a transition.     *)
(* Both back off with jitter until a deadline.  The window of the first    *)
(* starts after its first failure, that of the second before its first     *)
(* attempt.  Time advances with the attempts and the delays.               *)
(***************************************************************************)
EXTENDS Naturals, FiniteSetsExt

CONSTANTS
    Window,        \* CLAIMED_JOB_READ_RETRY_WINDOW, retry_window
    Initial,       \* the first ceiling of the backoff
    Ceiling,       \* the largest
    LongestTry     \* bound on the duration of an attempt

(* What is assumed of the constants: a backoff is never zero.              *)
RetryAssumption ==
    /\ {Window, Initial, Ceiling, LongestTry} \subseteq Nat
    /\ 2 <= Initial /\ Initial <= Ceiling

VARIABLES
    kind,      \* which of the two
    pc,        \* "try", "backoff" or "done"
    now,       \* since the call
    deadline,  \* of the retries
    backoff,   \* the ceiling of the next delay
    error,     \* the last transient error, numbered; 0 for none
    result,    \* of the call
    attempts

vars == <<kind, pc, now, deadline, backoff, error, result, attempts>>

Init ==
    /\ kind \in {"payload", "connection"}
    /\ pc = "try" /\ now = 0 /\ backoff = Initial /\ error = 0 /\ attempts = 0
    /\ result = "none"
    /\ deadline = IF kind = "connection" THEN Window ELSE Window + LongestTry

-----------------------------------------------------------------------------
Return(r) == pc' = "done" /\ result' = r /\ UNCHANGED <<kind, backoff>>

(* The first payload read has no deadline.                                 *)
Unbounded == kind = "payload" /\ attempts = 0

(* An attempt ends in time: it succeeds, fails for good, or fails in a way *)
(* that is retried.  The window of payload reads starts with the failure.  *)
Attempt ==
    /\ pc = "try" /\ attempts' = attempts + 1
    /\ \E d \in 0 .. LongestTry :
          /\ now' = now + d
          /\ Unbounded \/ now' < deadline
          /\ deadline' = IF Unbounded THEN now' + Window ELSE deadline
    /\ \/ Return("ok") /\ UNCHANGED error
       \/ Return("permanent") /\ UNCHANGED error
       \/ pc' = "backoff" /\ error' = attempts' /\ UNCHANGED <<kind, backoff, result>>

(* Mutant of TimesOut: an attempt is not cut off by the deadline.          *)
TimesOutLate ==
    /\ pc = "try" /\ ~Unbounded /\ now + LongestTry >= deadline
    /\ attempts' = attempts + 1 /\ now' = now + LongestTry + 1
    /\ Return(IF error = 0 THEN "timeout" ELSE "transient") /\ UNCHANGED <<deadline, error>>

(* The deadline passes in the middle of an attempt.                        *)
TimesOut ==
    /\ pc = "try" /\ ~Unbounded /\ now + LongestTry >= deadline
    /\ attempts' = attempts + 1 /\ now' = deadline
    /\ Return(IF error = 0 THEN "timeout" ELSE "transient") /\ UNCHANGED <<deadline, error>>

(* Equal jitter: between half of the ceiling and all of it.                *)
Delays(ceiling) == ceiling \div 2 .. ceiling

Doubled(ceiling) == Min({2 * ceiling, Ceiling})

Wait ==
    /\ pc = "backoff"
    /\ \E d \in Delays(backoff) :
          IF now + d < deadline
          THEN /\ now' = now + d /\ pc' = "try" /\ backoff' = Doubled(backoff)
               /\ UNCHANGED <<kind, result>>
          ELSE now' = deadline /\ Return("transient")
    /\ UNCHANGED <<deadline, error, attempts>>

Next == Attempt \/ TimesOut \/ Wait

Spec == Init /\ [][Next]_vars

FairSpec == Spec /\ WF_vars(Next)

-----------------------------------------------------------------------------
(* Type correctness: the ceiling stays between its bounds.                 *)
TypeOK ==
    /\ kind \in {"payload", "connection"} /\ pc \in {"try", "backoff", "done"}
    /\ backoff \in Initial .. Ceiling
    /\ result \in {"none", "ok", "permanent", "transient", "timeout"}

(* A claim is held no longer than the window, counted from the start of a  *)
(* checkout and from the first failure of a payload read.                  *)
WindowKept == now <= deadline /\ (kind = "connection" => deadline = Window)

(* However fast the attempts fail, a process makes no more of them than    *)
(* delays of half the first ceiling fit in the window.                     *)
TrafficBounded == attempts <= 2 + Window \div Max({1, Initial \div 2})

(* The error that is returned was met: a timeout without any failure, or   *)
(* the failure of the last attempt that was not cut off.                   *)
ErrorsTrue ==
    /\ result = "transient" => error > 0 /\ error + 1 >= attempts
    /\ result = "timeout" => kind = "connection" /\ error = 0

(* Both calls return.                                                      *)
Returned == pc = "done"

(* A retry keeps to its window and to a bounded number of attempts, and    *)
(* returns an error that it met.                                           *)
RetryBounded == TypeOK /\ WindowKept /\ TrafficBounded /\ ErrorsTrue
=============================================================================
