------------------------------ MODULE Progress ------------------------------
(***************************************************************************)
(* The state of a resumable job across its attempts.  An attempt loads the *)
(* envelope, writes it back when it starts, and iterates over the items of *)
(* the job with JobProgressIterator, which stores the cursor each time it  *)
(* is asked for the next item.  Storing reads the envelope and writes all  *)
(* of it.  Two attempts overlap when a stalled process is taken for dead.  *)
(***************************************************************************)
EXTENDS Integers, FiniteSetsExt

CONSTANTS
    Attempts,      \* processes that can run an attempt, one at a time each
    Total,         \* number of items
    MaxRetries,    \* of the worker
    MaxRuns,       \* bound on the attempts
    None

(* The forms in which a progress is stored, with the cursor of each.       *)
Forms == {"struct", "tuple3", "tuple2", "cursor"}

States == [form : Forms, cursor : Int]
Envelopes == [state : States \cup {None}, retries : Nat]

(* What is assumed of the constants.                                       *)
ProgressAssumption ==
    /\ {Total, MaxRetries, MaxRuns} \subseteq Nat
    /\ None \notin Nat /\ None \notin States /\ None \notin Envelopes

VARIABLES
    resumes,    \* Job::should_resume
    payload,    \* the stored envelope, or None
    queued,     \* how often the id is on its queue
    claims,     \* the processing lists that hold it
    retrying,   \* whether it waits for a retry
    dead,       \* the envelopes on the dead list
    attempt,    \* the attempts under way
    runs,       \* number started
    done,       \* items whose processing was completed
    recorded,   \* the cursor stored last, and 0 when the state was dropped
    overlap,    \* two attempts ran at the same time
    began       \* the last iterator created: where, and where it should have been

places == <<queued, claims, retrying, dead>>
vars == <<resumes, payload, places, attempt, runs, done, recorded, overlap, began>>

Idle == [pc |-> "idle", envelope |-> None, current |-> None, next |-> 0, read |-> None]

(* The state a job was enqueued with may be a progress of any form.        *)
Init ==
    /\ resumes \in BOOLEAN
    /\ \E s \in {None, [form |-> "cursor", cursor |-> -1]} \union [form : Forms, cursor : {1}] :
          payload = [state |-> s, retries |-> 0]
    /\ queued = 1 /\ claims = {} /\ retrying = FALSE /\ dead = {} /\ runs = 0 /\ overlap = FALSE /\ began = None
    /\ attempt = [a \in Attempts |-> Idle]
    /\ done = IF payload.state = None \/ payload.state.cursor <= 0 THEN {} ELSE {0}
    /\ recorded = IF payload.state = None THEN 0 ELSE Max({0, payload.state.cursor})

Running(a) == attempt[a].pc # "idle"

-----------------------------------------------------------------------------
(* The claim and the read of the payload.                                  *)
Load(a) ==
    /\ attempt[a].pc = "idle" /\ a \notin claims /\ queued > 0 /\ payload # None
    /\ runs < MaxRuns /\ runs' = runs + 1
    /\ queued' = queued - 1 /\ claims' = claims \union {a}
    /\ attempt' = [attempt EXCEPT ![a] = [Idle EXCEPT !.pc = "loaded", !.envelope = payload]]
    /\ overlap' = (overlap \/ \E b \in Attempts : Running(b))
    /\ UNCHANGED <<payload, retrying, dead, done, recorded, began>>

(* The entry of a job that is gone is claimed and released.                *)
LoadMissing ==
    /\ queued > 0 /\ payload = None /\ queued' = queued - 1
    /\ UNCHANGED <<payload, claims, retrying, dead, attempt, runs, done, recorded, overlap, began>>

(* run_batch and process_job of the drainer: the state of earlier attempts *)
(* is dropped when the job does not resume.                                *)
Started(envelope) == IF resumes THEN envelope ELSE [envelope EXCEPT !.state = None]

(* set_started_at_batch writes the whole envelope.                         *)
Start(a) ==
    /\ attempt[a].pc = "loaded"
    /\ LET e == Started(attempt[a].envelope) IN
          /\ payload' = e
          /\ attempt' = [attempt EXCEPT ![a].pc = "process", ![a].envelope = e]
    /\ recorded' = IF resumes THEN recorded ELSE 0
    /\ UNCHANGED <<places, runs, done, overlap, began>>

(* The cursor of a stored progress: every form has one, and a negative one *)
(* counts as zero.                                                         *)
Cursor(state) == IF state = None THEN 0 ELSE Max({0, state.cursor})

(* JobProgressIterator::new reloads the progress.                          *)
NewIterator(a) ==
    /\ attempt[a].pc = "process"
    /\ LET c == IF payload = None THEN 0 ELSE Cursor(payload.state) IN
          /\ attempt' = [attempt EXCEPT ![a].pc = "ready", ![a].next = c]
          /\ began' = [at |-> c, expected |-> recorded]
    /\ UNCHANGED <<payload, places, runs, done, recorded, overlap>>

(* next(): first the cursor past the current item is stored, if any.       *)
MarkRead(a) ==
    /\ attempt[a].pc = "ready" /\ attempt[a].current # None
    /\ IF payload = None
       THEN attempt' = [attempt EXCEPT ![a].pc = "failed"]        \* JobNotFound
       ELSE attempt' = [attempt EXCEPT ![a].pc = "mark", ![a].read = payload]
    /\ UNCHANGED <<payload, places, runs, done, recorded, overlap, began>>

Marked(index) == index + 1

MarkWrite(a) ==
    /\ attempt[a].pc = "mark"
    /\ LET c == Marked(attempt[a].current) IN
          /\ payload' = [attempt[a].read EXCEPT !.state = [form |-> "struct", cursor |-> c]]
          /\ recorded' = c
    /\ attempt' = [attempt EXCEPT ![a].pc = "ready", ![a].current = None, ![a].read = None]
    /\ UNCHANGED <<places, runs, done, overlap, began>>

(* Then the next item is taken and processed; enumerate() starts at zero   *)
(* and skip() leaves out the items below the cursor.                       *)
Process(a) ==
    /\ attempt[a].pc = "ready" /\ attempt[a].current = None /\ attempt[a].next < Total
    /\ attempt' = [attempt EXCEPT ![a].current = attempt[a].next, ![a].next = @ + 1]
    /\ done' = done \union {attempt[a].next}
    /\ UNCHANGED <<payload, places, runs, recorded, overlap, began>>

(* The worker returns an error, or panics, while an item is processed.     *)
Fail(a) ==
    /\ attempt[a].pc \in {"process", "ready"}
    /\ attempt' = [attempt EXCEPT ![a].pc = "failed"]
    /\ UNCHANGED <<payload, places, runs, done, recorded, overlap, began>>

(* A crash leaves the claim.                                               *)
Crash(a) ==
    /\ Running(a) /\ attempt' = [attempt EXCEPT ![a] = Idle]
    /\ UNCHANGED <<payload, places, runs, done, recorded, overlap, began>>

(* A sweep puts the id back, of a process that crashed or of one that is   *)
(* taken for dead and goes on.                                             *)
Sweep(a) ==
    /\ a \in claims /\ claims' = claims \ {a}
    /\ queued' = IF payload = None THEN queued ELSE queued + 1
    /\ UNCHANGED <<payload, retrying, dead, attempt, runs, done, recorded, overlap, began>>

-----------------------------------------------------------------------------
(* The attempt ends and its claim, if it still has it, is released.        *)
Release(a) ==
    /\ claims' = claims \ {a} /\ attempt' = [attempt EXCEPT ![a] = Idle]
    /\ UNCHANGED <<queued, runs, done, overlap, began>>

Succeed(a) ==
    /\ attempt[a].pc = "ready" /\ attempt[a].current = None /\ attempt[a].next >= Total
    /\ payload' = None /\ Release(a)
    /\ UNCHANGED <<retrying, dead, recorded>>

Retried(a) == attempt[a].pc = "failed" /\ attempt[a].envelope.retries < MaxRetries

(* Mutant of RetryIn: the envelope of the start of the attempt is stored.  *)
RetryInStale(a) ==
    /\ Retried(a) /\ payload # None /\ Release(a)
    /\ payload' = [attempt[a].envelope EXCEPT !.retries = @ + 1] /\ retrying' = TRUE
    /\ UNCHANGED <<dead, recorded>>

(* retry_in reads the payload again: the progress of this attempt is kept. *)
RetryIn(a) ==
    /\ Retried(a) /\ payload # None /\ Release(a)
    /\ payload' = [payload EXCEPT !.retries = @ + 1] /\ retrying' = TRUE
    /\ UNCHANGED <<dead, recorded>>

RetryMissing(a) ==
    Retried(a) /\ payload = None /\ Release(a) /\ UNCHANGED <<payload, retrying, dead, recorded>>

(* kill stores the envelope of the start of the attempt: what the attempt  *)
(* recorded is not in it.                                                  *)
Kill(a) ==
    /\ attempt[a].pc = "failed" /\ ~Retried(a) /\ Release(a)
    /\ dead' = dead \union {attempt[a].envelope} /\ payload' = None
    /\ recorded' = Cursor(attempt[a].envelope.state)
    /\ UNCHANGED retrying

Promote ==
    /\ retrying /\ retrying' = FALSE
    /\ queued' = IF payload = None THEN queued ELSE queued + 1
    /\ UNCHANGED <<payload, claims, dead, attempt, runs, done, recorded, overlap, began>>

(* revive_all_dead enqueues the envelope as it was stored.                 *)
Revive ==
    /\ \E d \in dead : payload' = d /\ dead' = dead \ {d}
    /\ queued' = queued + 1
    /\ UNCHANGED <<claims, retrying, attempt, runs, done, recorded, overlap, began>>

Step ==
    \/ \E a \in Attempts :
          \/ Load(a) \/ Start(a) \/ NewIterator(a) \/ MarkRead(a) \/ MarkWrite(a)
          \/ Process(a) \/ Fail(a) \/ Crash(a) \/ Sweep(a)
          \/ Succeed(a) \/ RetryIn(a) \/ RetryMissing(a) \/ Kill(a)
    \/ LoadMissing \/ Promote \/ Revive

Next == Step /\ UNCHANGED resumes

Spec == Init /\ [][Next]_vars

-----------------------------------------------------------------------------
Below(c) == {i \in 0 .. Total - 1 : i < c}

(* No stored cursor, of a payload, of a dead job or about to be written by *)
(* an attempt that overlaps another, is past an item that nobody has       *)
(* processed: items may be processed twice, never left out.                *)
CursorCovered ==
    /\ payload # None => Below(Cursor(payload.state)) \subseteq done
    /\ \A d \in dead : Below(Cursor(d.state)) \subseteq done
    /\ \A a \in Attempts :
          attempt[a].pc \in {"ready", "mark"} => Below(attempt[a].next) \subseteq done

(* Without overlap an attempt starts exactly where the last one stopped,   *)
(* after errors, crashes and revivals alike: at the last cursor stored, at *)
(* zero for a job that does not resume, and, since kill keeps the envelope *)
(* of the start, where the last attempt of a killed job had started.       *)
StartsWhereLeft == began # None /\ ~overlap => began.at = began.expected

(* A resumable job leaves no item out, whatever attempts overlap, and      *)
(* without overlap repeats none that a stored cursor covers.               *)
ProgressSound == CursorCovered /\ StartsWhereLeft
=============================================================================
