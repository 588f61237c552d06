------------------------------ MODULE BatchPlan ------------------------------
(***************************************************************************)
(* BatchDriver::solve: callers submit requests to one SharedMatrixPlan.    *)
(* A request waits for the plan's timed mutex until its deadline, then     *)
(* admits its members group by group, within its memory budget, until the  *)
(* deadline passes.  A shared group runs in lanes (SharedLanes), other     *)
(* members are solved as they are admitted (PdhgSolve).                    *)
(***************************************************************************)
EXTENDS Integers, FiniteSets

CONSTANTS
    Callers,     \* threads, each with one request
    Request,     \* their requests
    None

IsRequest(r) ==
    /\ r.valid \in BOOLEAN         \* options and members pass validation
    /\ r.size \in Nat              \* members of the batch
    /\ r.shared \in BOOLEAN        \* options.execution == shared
    /\ r.tile \in Nat \ {0}        \* lp_tile_width
    /\ r.timed \in BOOLEAN         \* time_sec_limit is finite
    /\ r.budget \in Nat            \* resident_memory_budget_bytes, 0: none
    /\ r.base \in Nat              \* base_bytes
    /\ r.laneBytes \in Nat \ {0}   \* lane_bytes

ASSUME PlanAssumption ==
    /\ \A c \in Callers : IsRequest(Request[c])
    /\ None \notin Callers /\ None \notin {"solved", "unstarted"}

VARIABLES
    pc,
    expired,     \* the request's deadline has passed
    holder,      \* caller that owns the mutex
    stream,      \* submission_stream: the caller that set it
    begin,       \* first member of the group
    next,        \* next member to admit
    solvers,     \* members whose solvers are resident
    admitted,    \* has_solution
    results      \* result of each member

vars == <<pc, expired, holder, stream, begin, next, solvers, admitted, results>>

Least(a, b) == IF a <= b THEN a ELSE b

Size(c) == Request[c].size
Inputs(c) == 0 .. Size(c) - 1
Shared(c) == Request[c].shared /\ Size(c) > 1   \* "B=1 uses the single-LP route"

\* Lanes the budget holds, in whole tiles for shared execution.
Available(c) ==
    LET lanes == (Request[c].budget - Request[c].base) \div Request[c].laneBytes
    IN  IF Shared(c) THEN lanes - (lanes % Request[c].tile) ELSE lanes

DEV_FitsOneLane(c) ==
    Request[c].budget = 0 \/ Request[c].budget - Request[c].base >= Request[c].laneBytes

Fits(c) ==
    \/ Request[c].budget = 0
    \/ /\ Request[c].budget > Request[c].base
       /\ (Request[c].budget - Request[c].base) \div Request[c].laneBytes
             >= (IF Shared(c) THEN Request[c].tile ELSE 1)

GroupWidth(c) ==
    LET whole == IF Shared(c) THEN Size(c) ELSE 1
    IN  IF Request[c].budget = 0 THEN whole ELSE Least(whole, Available(c))

Set(f, c, v) == [f EXCEPT ![c] = v]

------------------------------------------------------------------------------
Init ==
    /\ pc = [c \in Callers |-> "enter"]
    /\ expired = [c \in Callers |-> FALSE]
    /\ holder = None /\ stream = None
    /\ begin = [c \in Callers |-> 0] /\ next = begin
    /\ solvers = [c \in Callers |-> {}] /\ admitted = solvers
    /\ results = [c \in Callers |-> [i \in Inputs(c) |-> None]]

\* Everything that can be rejected is, before the request waits.
Enter(c) ==
    /\ pc[c] = "enter"
    /\ pc' = Set(pc, c, IF ~Request[c].valid THEN "rejected"
                        ELSE IF Size(c) = 0 THEN "returned"
                        ELSE IF Fits(c) THEN "wait" ELSE "rejected")
    /\ UNCHANGED <<expired, holder, stream, begin, next, solvers, admitted, results>>

\* The deadline may pass while the lock is handed over.
Acquire(c) ==
    /\ pc[c] = "wait" /\ holder = None
    /\ holder' = c /\ stream' = c
    /\ pc' = Set(pc, c, "group")
    /\ UNCHANGED <<expired, begin, next, solvers, admitted, results>>

TimeOut(c) ==
    /\ pc[c] = "wait" /\ expired[c]
    /\ pc' = Set(pc, c, "fill")
    /\ UNCHANGED <<expired, holder, stream, begin, next, solvers, admitted, results>>

NextGroup(c) ==
    /\ pc[c] = "group"
    /\ IF begin[c] < Size(c) /\ ~expired[c]
       THEN pc' = Set(pc, c, "admit") /\ next' = Set(next, c, begin[c])
       ELSE pc' = Set(pc, c, "fill") /\ UNCHANGED next
    /\ UNCHANGED <<expired, holder, stream, begin, solvers, admitted, results>>

End(c) == Least(Size(c), begin[c] + GroupWidth(c))

\* Shared: the member's solver is constructed and initialized.  Independent:
\* it is also solved, and its solver destroyed, before the next is admitted.
Admit(c) ==
    /\ pc[c] = "admit" /\ next[c] < End(c) /\ ~expired[c]
    /\ admitted' = Set(admitted, c, admitted[c] \cup {next[c]})
    /\ IF Shared(c)
       THEN solvers' = Set(solvers, c, solvers[c] \cup {next[c]}) /\ UNCHANGED results
       ELSE results' = [results EXCEPT ![c][next[c]] = "solved"] /\ UNCHANGED solvers
    /\ next' = Set(next, c, next[c] + 1)
    /\ UNCHANGED <<pc, expired, holder, stream, begin>>

Solved(c, done) == [i \in Inputs(c) |-> IF i \in done THEN "solved" ELSE results[c][i]]

DEV_SkipCutGroups(c) ==
    IF next[c] < End(c) THEN results
    ELSE Set(results, c, Solved(c, solvers[c]))

\* run_shared and finish_member, for the members admitted before the deadline.
GroupResults(c) == Set(results, c, Solved(c, solvers[c]))

RunGroup(c) ==
    /\ pc[c] = "admit" /\ (next[c] >= End(c) \/ expired[c])
    /\ results' = GroupResults(c)
    /\ solvers' = Set(solvers, c, {})
    /\ begin' = Set(begin, c, begin[c] + GroupWidth(c))
    /\ pc' = Set(pc, c, "group")
    /\ UNCHANGED <<expired, holder, stream, next, admitted>>

Unlock(c) == holder' = IF holder = c THEN None ELSE holder

DEV_FillUnfinished(c) == [i \in Inputs(c) |-> "unstarted"]

\* Members that were never admitted get a TIME_LIMIT result of their own.
Filled(c) ==
    [i \in Inputs(c) |-> IF i \in admitted[c] THEN results[c][i] ELSE "unstarted"]

Fill(c) ==
    /\ pc[c] = "fill"
    /\ results' = Set(results, c, Filled(c))
    /\ pc' = Set(pc, c, "returned") /\ Unlock(c)
    /\ UNCHANGED <<expired, stream, begin, next, solvers, admitted>>

\* "An unrecoverable device exception fails the request."
Fail(c) ==
    /\ pc[c] = "admit"
    /\ pc' = Set(pc, c, "failed") /\ solvers' = Set(solvers, c, {}) /\ Unlock(c)
    /\ UNCHANGED <<expired, stream, begin, next, admitted, results>>

Ended == {"returned", "rejected", "failed"}

ClockExpires(c) ==
    /\ Request[c].timed /\ ~expired[c] /\ pc[c] \notin Ended
    /\ expired' = Set(expired, c, TRUE)
    /\ UNCHANGED <<pc, holder, stream, begin, next, solvers, admitted, results>>

Step(c) ==
    \/ Enter(c) \/ Acquire(c) \/ TimeOut(c) \/ NextGroup(c) \/ Admit(c)
    \/ RunGroup(c) \/ Fill(c)

AllEnded == (\A c \in Callers : pc[c] \in Ended) /\ UNCHANGED vars

Next == (\E c \in Callers : Step(c) \/ Fail(c) \/ ClockExpires(c)) \/ AllEnded

Spec == Init /\ [][Next]_vars

\* Every caller is a thread; the mutex is free again after each request.
FairSpec == Spec /\ \A c \in Callers : WF_vars(Step(c))

------------------------------------------------------------------------------
TypeOK ==
    /\ pc \in [Callers -> {"enter", "wait", "group", "admit", "fill"} \cup Ended]
    /\ expired \in [Callers -> BOOLEAN]
    /\ {holder, stream} \subseteq Callers \cup {None}
    /\ {begin, next} \subseteq [Callers -> Nat]
    /\ \A c \in Callers :
         /\ solvers[c] \subseteq Inputs(c) /\ admitted[c] \subseteq Inputs(c)
         /\ results[c] \in [Inputs(c) -> {"solved", "unstarted", None}]

(***************************************************************************)
(* "Every input gets a result in input order.  A queued member that cannot *)
(* start has has_solution=False [and] TIME_LIMIT": a returned request has  *)
(* solved exactly its admitted members, and those are the first ones,      *)
(* wherever between two members or groups the deadline passed.             *)
(***************************************************************************)
AnsweredInOrder ==
    \A c \in Callers : pc[c] = "returned" =>
        \E n \in 0 .. Size(c) :
            /\ admitted[c] = 0 .. n - 1
            /\ \A i \in Inputs(c) :
                 results[c][i] = IF i < n THEN "solved" ELSE "unstarted"
            /\ n < Size(c) => expired[c]

(***************************************************************************)
(* "Calls through one plan are serialized": what the plan shares between   *)
(* calls, its submission stream and resident solvers, belongs to the call  *)
(* that runs, also while others wait, time out or fail.                    *)
(***************************************************************************)
PlanOwned ==
    \A c \in Callers :
        /\ pc[c] \in {"group", "admit"} => holder = c /\ stream = c
        /\ solvers[c] # {} => holder = c

(***************************************************************************)
(* A positive budget holds the request's base and the padded workspace of  *)
(* every group, also of groups narrower than the tile.                     *)
(***************************************************************************)
WithinBudget ==
    \A c \in Callers :
        LET tile == Request[c].tile
            padded == ((Cardinality(solvers[c]) + tile - 1) \div tile) * tile
        IN  Request[c].budget # 0 /\ solvers[c] # {} =>
                Request[c].base + padded * Request[c].laneBytes <= Request[c].budget

AllInputs == UNION {{c} \X Inputs(c) : c \in Callers}

\* Every member of every request gets one result, once.
Answers == INSTANCE MemberResults WITH
    Members <- AllInputs, Reasons <- {"solved", "unstarted"}, NoResult <- None,
    results <- [p \in AllInputs |-> results[p[1]][p[2]]]

(***************************************************************************)
(* The plan implements the promise made for each member: results are given *)
(* as members are solved, by a group, or when a request runs out of time,  *)
(* and are never given twice, withdrawn or given to another request.       *)
(***************************************************************************)
ImplementsMembers == Answers!MrSpec

\* Every call returns, although calls wait for each other and may fail.
CallsReturn == \A c \in Callers : <>(pc[c] \in Ended)
==============================================================================
