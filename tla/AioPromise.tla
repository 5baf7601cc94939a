----------------------------- MODULE AioPromise -----------------------------
(***************************************************************************)
(* What an asynchronous backend promises its caller.  A transfer that was  *)
(* accepted may land at any later moment and in any order, but a flush     *)
(* (fsync, sync or close) that returns has waited for every transfer       *)
(* accepted before it; a backend that cannot keep this must fail the run.  *)
(***************************************************************************)
CONSTANT Requests

VARIABLES accepted,   \* transfers handed to the backend
          landed,     \* transfers whose bytes are all where they belong
          flushed,    \* transfers a returned flush vouches for
          failed      \* the run was aborted

vars == <<accepted, landed, flushed, failed>>

Init == accepted = {} /\ landed = {} /\ flushed = {} /\ failed = FALSE

Accept(r) == /\ ~failed
             /\ r \in Requests \ accepted
             /\ accepted' = accepted \cup {r}
             /\ UNCHANGED <<landed, flushed, failed>>

Land(r) == /\ ~failed
           /\ r \in accepted \ landed
           /\ landed' = landed \cup {r}
           /\ UNCHANGED <<accepted, flushed, failed>>

Flush == /\ ~failed
         /\ accepted \subseteq landed
         /\ flushed' = accepted
         /\ UNCHANGED <<accepted, landed, failed>>

\* An abort may happen inside the call that accepts a transfer.
Fail == /\ ~failed
        /\ failed' = TRUE
        /\ \E A \in SUBSET (Requests \ accepted) : accepted' = accepted \cup A
        /\ UNCHANGED <<landed, flushed>>

Next == \/ \E r \in Requests : Accept(r) \/ Land(r)
        \/ Flush
        \/ Fail

Spec == Init /\ [][Next]_vars
=============================================================================
