-------------------------- MODULE ExclusiveService --------------------------
(***************************************************************************)
(* What a service promises to the nodes that send it requests, with no     *)
(* mention of tasks, rosters or channels: a request waits, may be executed *)
(* while no other request of its lane is, and is resolved once.  A request *)
(* with no lane is executed whatever else is.                              *)
(***************************************************************************)
CONSTANTS Requests, Lanes, None

VARIABLES
    waiting,    \* requests given and not yet started
    running,    \* requests being executed
    resolved,   \* requests answered or disposed
    lane        \* the lane each request was given

vars == <<waiting, running, resolved, lane>>

Init ==
    /\ waiting = {}
    /\ running = {}
    /\ resolved = {}
    /\ lane = [r \in Requests |-> None]

Submit(r, l) ==
    /\ r \notin waiting \cup running \cup resolved
    /\ waiting' = waiting \cup {r}
    /\ lane' = [lane EXCEPT ![r] = l]
    /\ UNCHANGED <<running, resolved>>

Start(r) ==
    /\ r \in waiting
    /\ lane[r] # None => \A q \in running : lane[q] # lane[r]
    /\ waiting' = waiting \ {r}
    /\ running' = running \cup {r}
    /\ UNCHANGED <<resolved, lane>>

\* A group of requests is answered, disposed or cleaned in one step.
Resolve(group) ==
    /\ group # {}
    /\ group \subseteq waiting \cup running
    /\ waiting' = waiting \ group
    /\ running' = running \ group
    /\ resolved' = resolved \cup group
    /\ UNCHANGED lane

Next ==
    \/ \E r \in Requests, l \in Lanes \cup {None} : Submit(r, l)
    \/ \E r \in Requests : Start(r)
    \/ \E group \in SUBSET Requests : Resolve(group)

Spec == Init /\ [][Next]_vars

ResolveWith(r) == \E group \in SUBSET Requests : r \in group /\ Resolve(group)

FairSpec == Spec /\ \A r \in Requests : WF_vars(ResolveWith(r))
=============================================================================
