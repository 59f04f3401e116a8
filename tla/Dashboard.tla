----------------------------- MODULE Dashboard ------------------------------
(***************************************************************************)
(* Requests of the dashboard that read Redis more than once while jobs     *)
(* move: job_detail looks for a job in the stored jobs and then on the     *)
(* dead list, the lists of jobs are counted, paged and resolved.  New ids  *)
(* are pushed on the left and claimed on the right, and pages count from   *)
(* the left.  A user of the MCP server walks a queue page by page.         *)
(***************************************************************************)
EXTENDS Integers, Sequences, SequencesExt, FiniteSetsExt

CONSTANTS
    Ids,         \* jobs, 1 .. n
    PerPage,     \* JOBS_PER_PAGE
    MaxPage,     \* bound on the page a request names
    MaxLimit,    \* 100, the most jobs of a page of the MCP server
    DeadLimit,   \* dead_job_limit, 0 for unlimited retention
    MaxMoves,    \* bound on the moves of jobs
    None

DashboardAssumption ==
    /\ IsFiniteSet(Ids) /\ Ids = 1 .. Cardinality(Ids)
    /\ PerPage \in Nat \ {0} /\ MaxPage \in Nat /\ MaxLimit \in Nat
    /\ DeadLimit \in Nat /\ MaxMoves \in Nat

VARIABLES
    queue, dead,  \* ids, left to right
    payload,      \* ids whose envelope is stored
    reviving,     \* entries claimed by revive_all_dead
    moves,
    request,      \* the request being served
    kept,         \* the job looked for could be found all the time
    steady,       \* nothing moved since the request began
    stays         \* jobs that waited all the time, while none was deleted

vars == <<queue, dead, payload, reviving, moves, request, kept, steady, stays>>

Idle == [pc |-> "idle", kind |-> None, arg |-> 0, asked |-> 0, count |-> 0, ids |-> <<>>,
         seen |-> {}, answer |-> None]

Init ==
    /\ \E n \in 0 .. Cardinality(Ids) :
          /\ queue = [i \in 1 .. n |-> i]
          /\ dead = [i \in 1 .. Cardinality(Ids) - n |-> n + i]
    /\ payload = ToSet(queue) /\ reviving = <<>> /\ moves = 0
    /\ request = Idle /\ kept = FALSE /\ steady = FALSE /\ stays = {}

-----------------------------------------------------------------------------
(* A list without what is not in S.                                        *)
Only(list, S) ==
    LET upTo[n \in 0 .. Len(list)] ==
            IF n = 0 THEN <<>>
            ELSE IF list[n] \in S THEN Append(upTo[n - 1], list[n]) ELSE upTo[n - 1]
    IN  upTo[Len(list)]

(* What the others do.                                                     *)
Move(still) ==
    /\ moves < MaxMoves /\ moves' = moves + 1 /\ steady' = FALSE
    /\ kept' = (kept /\ still) /\ UNCHANGED request

(* A job leaves the queue, or its payload does.                            *)
Waiting == stays' = stays \cap ToSet(queue') \cap payload'
Torn(i) == IF i \in ToSet(queue) THEN stays' = {} ELSE Waiting

Claim ==
    /\ queue # <<>> /\ queue' = Front(queue) /\ Move(TRUE)
    /\ UNCHANGED <<dead, payload, reviving>> /\ Waiting

Claimed == {i \in payload : i \notin ToSet(queue)}

Finish(i) ==
    /\ i \in Claimed /\ payload' = payload \ {i} /\ Move(i # request.arg)
    /\ UNCHANGED <<queue, dead, reviving>> /\ Waiting

Trimmed(list) ==
    IF DeadLimit > 0 /\ Len(list) > DeadLimit THEN SubSeq(list, 1, DeadLimit) ELSE list

(* A kill pushes the others to the right, past the count that was read,    *)
(* and may trim the last one off.                                          *)
Kill(i) ==
    /\ i \in Claimed /\ payload' = payload \ {i}
    /\ dead' = Trimmed(<<i>> \o dead)
    /\ Move(request.pc # "counted" /\ (request.arg \in ToSet(dead) => request.arg \in ToSet(dead')))
    /\ UNCHANGED <<queue, reviving>> /\ Waiting

ReviveClaim ==
    /\ reviving = <<>> /\ dead # <<>> /\ reviving' = dead /\ dead' = <<>>
    /\ Move(request.arg \notin ToSet(dead)) /\ UNCHANGED <<queue, payload>>
    /\ Waiting

ReviveOne ==
    /\ reviving # <<>> /\ reviving' = Tail(reviving)
    /\ queue' = <<Head(reviving)>> \o queue /\ payload' = payload \union {Head(reviving)}
    /\ Move(TRUE) /\ Waiting /\ UNCHANGED dead

(* Retention: the id stays on its queue without a payload.                 *)
Expire(i) ==
    /\ i \in payload /\ i \in ToSet(queue) /\ payload' = payload \ {i} /\ Move(i # request.arg)
    /\ UNCHANGED <<queue, dead, reviving>> /\ Torn(i)

Delete(i) ==
    /\ i \in payload /\ payload' = payload \ {i}
    /\ queue' = Only(queue, Ids \ {i}) /\ Move(i # request.arg)
    /\ Torn(i) /\ UNCHANGED <<dead, reviving>>

-----------------------------------------------------------------------------
(* Mutant of ListStop: the index is taken for one counted from 1.          *)
ListStopShort(offset, count) == offset + count - 1

(* The last index, counted from 1, of the range that the list_* functions  *)
(* read: offset + count - 1 counted from zero.                             *)
ListStop(offset, count) == offset + count

ListRange(list, offset, count) ==
    SubSeq(list, offset + 1, Min({ListStop(offset, count), Len(list)}))

ClampNumber(page, total) ==
    Max({1, Min({page, Max({1, (total + PerPage - 1) \div PerPage})})})

Offset(page) == (Max({1, page}) - 1) * PerPage

(* JobPage::new: one job more than fits is read to know of a next page.    *)
JobPage(page, total, jobs) ==
    [number |-> Max({1, page}), total |-> total, has_next |-> Len(jobs) > PerPage,
     jobs |-> SubSeq(jobs, 1, Min({PerPage, Len(jobs)}))]

Serve(r) == request' = r /\ UNCHANGED <<queue, dead, payload, reviving, moves, kept, steady, stays>>

Answer(a) == Serve([request EXCEPT !.pc = "idle", !.answer = a])

(* A request: the details of a job, a page of the queue or dead list, or   *)
(* the first page of a walk through the queue.                             *)
Request(kind, arg) ==
    /\ request.pc = "idle" /\ request.answer = None
    /\ request' = [Idle EXCEPT !.pc = "start", !.kind = kind, !.arg = arg, !.asked = arg]
    /\ kept' = (kind = "job" /\ arg \in payload \union ToSet(dead))
    /\ steady' = TRUE
    /\ stays' = IF kind = "walk" /\ ToSet(queue) \subseteq payload THEN ToSet(queue) ELSE {}
    /\ UNCHANGED <<queue, dead, payload, reviving, moves>>

(* find_job: first the stored jobs, where a killed job is not any more.    *)
GetJob ==
    /\ request.pc = "start" /\ request.kind = "job"
    /\ IF request.arg \in payload THEN Answer("stored")
       ELSE Serve([request EXCEPT !.pc = "missed"])

DeadCount ==
    /\ request.pc = "missed"
    /\ IF dead = <<>> THEN Answer("absent")
       ELSE Serve([request EXCEPT !.pc = "counted", !.count = Len(dead)])

FindDead ==
    /\ request.pc = "counted"
    /\ Answer(IF request.arg \in ToSet(ListRange(dead, 0, request.count)) THEN "dead" ELSE "absent")

(* queue_detail counts the queue and clamps the page; the global lists     *)
(* take the page as it is.                                                 *)
CountJobs ==
    /\ request.pc = "start" /\ request.kind \in {"queue", "deads"}
    /\ LET total == Len(IF request.kind = "queue" THEN queue ELSE dead) IN
       Serve([request EXCEPT !.pc = "list", !.count = total,
                             !.arg = IF request.kind = "queue" THEN ClampNumber(@, total) ELSE @])

(* An entry of the dead list holds its envelope, an id of the queue does   *)
(* not: get_many leaves out the ids without a payload.                     *)
ListJobs ==
    /\ request.pc = "list"
    /\ LET list == IF request.kind = "queue" THEN queue ELSE dead
           ids == ListRange(list, Offset(request.arg), PerPage + 1)
       IN  IF request.kind = "queue" THEN Serve([request EXCEPT !.pc = "resolve", !.ids = ids])
           ELSE Answer(JobPage(request.arg, request.count, ids))

GetMany ==
    /\ request.pc = "resolve"
    /\ Answer(JobPage(request.arg, request.count,
                      Only(request.ids, payload)))

(* ListJobsRequest::options: the limit is checked before anything is read. *)
Options(limit) == limit \in 1 .. MaxLimit

(* list_jobs of the MCP server: the ids of a page, then their payloads.    *)
(* The client asks for the next page until one is empty.                   *)
WalkPage ==
    /\ request.pc = "start" /\ request.kind = "walk"
    /\ IF Options(request.arg)
       THEN Serve([request EXCEPT !.pc = "page", !.ids = ListRange(queue, request.count, request.arg)])
       ELSE Answer("refused")

WalkResolve ==
    /\ request.pc = "page"
    /\ LET jobs == {request.ids[n] : n \in DOMAIN request.ids} \cap payload IN
       IF jobs = {} THEN Answer("walked")
       ELSE Serve([request EXCEPT !.pc = "start", !.count = @ + request.arg, !.ids = <<>>,
                                  !.seen = @ \union jobs])

Show ==
    /\ request.pc = "idle" /\ request.answer # None
    /\ request' = Idle /\ kept' = FALSE /\ steady' = FALSE /\ stays' = {}
    /\ UNCHANGED <<queue, dead, payload, reviving, moves>>

Next ==
    \/ Claim \/ ReviveClaim \/ ReviveOne
    \/ \E i \in Ids : Finish(i) \/ Kill(i) \/ Expire(i) \/ Delete(i) \/ Request("job", i)
    \/ \E n \in 0 .. MaxPage : Request("queue", n) \/ Request("deads", n)
    \/ \E n \in 0 .. MaxLimit + 1 : Request("walk", n)
    \/ WalkPage \/ WalkResolve
    \/ GetJob \/ DeadCount \/ FindDead \/ CountJobs \/ ListJobs \/ GetMany \/ Show

Spec == Init /\ [][Next]_vars

-----------------------------------------------------------------------------
Answered == request.pc = "idle" /\ request.answer # None

(* A job is found although it is killed while it is looked for: the order  *)
(* of the two lookups follows the job.  It is missed only when it left     *)
(* both places, was revived, or another one died between the count and the *)
(* read of the dead list.                                                  *)
FoundWhenKept == Answered /\ request.kind = "job" /\ kept => request.answer # "absent"

(* A page that is rendered while nothing moves, of a queue without expired *)
(* ids, shows exactly its part of the list and says whether more follows;  *)
(* a page that exists is the one shown, and no page of the queue is blank  *)
(* while jobs wait, whatever page the redirect after a deletion named.     *)
PageExact ==
    Answered /\ steady /\ request.kind \in {"queue", "deads"} =>
        LET list == IF request.kind = "queue" THEN queue ELSE dead
            page == request.answer
            from == (page.number - 1) * PerPage
        IN  request.kind = "deads" \/ ToSet(queue) \subseteq payload =>
                /\ page.jobs = SubSeq(list, from + 1, Min({from + PerPage, Len(list)}))
                /\ page.has_next = (Len(list) > from + PerPage)
                /\ Offset(request.asked) < Len(list) => page.number = Max({1, request.asked})
                /\ request.kind = "queue" /\ queue # <<>> => page.jobs # <<>>

(* A walk through the pages of a queue sees every job that waited all the  *)
(* time: what is pushed meanwhile shifts the others to later pages, where  *)
(* they are seen twice, and claims take from the last page.  Only a        *)
(* deletion, or an id without a payload, can hide one.                     *)
WalkMissesNothing ==
    Answered /\ request.kind = "walk" /\ request.answer = "walked" => stays \subseteq request.seen

(* What is answered about moving jobs is true of jobs that stayed.         *)
PagesTrue == FoundWhenKept /\ PageExact /\ WalkMissesNothing
=============================================================================
