----------------------- MODULE AsyncServiceRefinement -----------------------
(***************************************************************************)
(* AsyncService implements ExclusiveService, for every value of its        *)
(* constants by which no lane is preempted: what the nodes see of the      *)
(* service is that requests wait, start when no other of their lane is     *)
(* executing, and are resolved.                                            *)
(***************************************************************************)
EXTENDS AsyncServiceProofs

Unpreempted == \A l \in Lanes : ~Preemptible(l)

\* The refinement mapping of Contract.
Waiting == {r \in Requests : phase[r] \in {"input", "queued"}}
Running == {r \in Requests : Executing(r)}
Resolved == {r \in Requests : phase[r] \notin {"new", "input", "queued"} /\ ~Executing(r)}
GivenLane == [r \in Requests |-> IF phase[r] = "new" THEN None ELSE LaneOf(node[r])]

ContractStep == [Contract!Next]_(Contract!vars)

RefinementInv ==
    TypeInv /\ ExclusionInv /\ Uncancelled

\* A step that resolves a group of requests, which may be empty.
LEMMA ResolvesGroup ==
  ASSUME NEW G \in SUBSET Requests,
         \A r \in G : r \in Waiting \cup Running /\ (r \in Resolved)',
         \A r \in Requests \ G : /\ (r \in Waiting)' <=> r \in Waiting
                                 /\ (r \in Running)' <=> r \in Running
                                 /\ (r \in Resolved)' <=> r \in Resolved,
         GivenLane' = GivenLane
  PROVE  ContractStep
  <1>1. /\ Waiting' = Waiting \ G
        /\ Running' = Running \ G
        /\ Resolved' = Resolved \cup G
    BY DEF Waiting, Running, Resolved
  <1>2. CASE G = {}
    BY <1>1, <1>2 DEF ContractStep, Contract!vars, Waiting, Running, Resolved, GivenLane
  <1>3. CASE G # {}
    <2>1. Contract!Resolve(G)
      BY <1>1, <1>3 DEF Contract!Resolve, Waiting, Running, Resolved, GivenLane
    <2> QED
      BY <2>1 DEF ContractStep, Contract!Next
  <1> QED
    BY <1>2, <1>3

\* A step that changes nothing of what the nodes see.
LEMMA Stutters ==
  ASSUME \A r \in Requests : /\ (r \in Waiting)' <=> r \in Waiting
                             /\ (r \in Running)' <=> r \in Running
                             /\ (r \in Resolved)' <=> r \in Resolved,
         GivenLane' = GivenLane
  PROVE  ContractStep
  BY ResolvesGroup, {} \in SUBSET Requests

\* A step that launches one request.
LEMMA StartsOne ==
  ASSUME NEW r \in Requests, r \in Waiting, (r \in Running)', ~(r \in Waiting)',
         ~(r \in Resolved)', r \notin Resolved,
         \A q \in Requests \ {r} : /\ (q \in Waiting)' <=> q \in Waiting
                                   /\ (q \in Running)' <=> q \in Running
                                   /\ (q \in Resolved)' <=> q \in Resolved,
         GivenLane' = GivenLane,
         GivenLane[r] # None => \A q \in Running : GivenLane[q] # GivenLane[r]
  PROVE  ContractStep
  <1>1. /\ Waiting' = Waiting \ {r}
        /\ Running' = Running \cup {r}
        /\ Resolved' = Resolved
    BY DEF Waiting, Running, Resolved
  <1>2. Contract!Start(r)
    BY <1>1 DEF Contract!Start, Waiting, Running, Resolved, GivenLane
  <1> QED
    BY <1>2 DEF ContractStep, Contract!Next

\* The lanes of the requests are given with them.
LEMMA LaneStays ==
  ASSUME \A r \in Requests : /\ phase'[r] = "new" <=> phase[r] = "new"
                             /\ node'[r] = node[r]
  PROVE  GivenLane' = GivenLane
  BY DEF GivenLane

\* The lane of a request that waits or is executing.
LEMMA ActiveLane ==
  ASSUME TypeInv, NEW r \in Requests, phase[r] # "new"
  PROVE  GivenLane[r] = LaneOf(node[r]) /\ LaneOf(node[r]) \in Lanes \cup {None}
  BY LaneOfType DEF GivenLane, TypeInv, Given

\* Every step of the service is a step of its contract, or shows nothing.
LEMMA RefinesStep ==
  ASSUME Unpreempted, RefinementInv, [Next]_vars
  PROVE  ContractStep
  <1>0. /\ TypeInv /\ TypeOK /\ Uncancelled /\ CancelledTasks /\ DeliveredOnLane
        /\ \A l \in Lanes : LaneInv(l)
    BY DEF RefinementInv, ExclusionInv, Unpreempted, TypeInv
  <1>1. CASE Silent
    <2>1. UNCHANGED <<phase, node, cancel>>
      BY <1>1 DEF Silent, requestVars
    <2> QED
      BY <2>1, Stutters DEF Waiting, Running, Resolved, Executing, GivenLane
  <1>2. CASE Disposes
    <2> DEFINE G == {q \in Requests : phase[q] = "input"}
    <2>1. \A q \in Requests : phase'[q] = IF q \in G THEN "done" ELSE phase[q]
      BY <1>0, <1>2 DEF Disposes, DisposeInputs, Assign, TypeOK
    <2>2. UNCHANGED <<node, cancel>>
      BY <1>2 DEF Disposes
    <2>3. \A q \in G : cancel[q] = "none"
      BY <1>0 DEF Uncancelled
    <2>4. GivenLane' = GivenLane
      BY <2>1, <2>2, LaneStays
    <2> QED
      BY <2>1, <2>2, <2>3, <2>4, ResolvesGroup DEF Waiting, Running, Resolved, Executing
  <1>3. CASE DespawnService
    <2> DEFINE G == {q \in Requests : phase[q] = "queued"}
    <2>1. \A q \in Requests : phase'[q] = IF q \in G THEN "done" ELSE phase[q]
      BY <1>3 DEF DespawnService
    <2>2. UNCHANGED <<node, cancel>>
      BY <1>3 DEF DespawnService, taskVars
    <2>3. \A q \in G : cancel[q] = "none"
      BY <1>0 DEF Uncancelled
    <2>4. GivenLane' = GivenLane
      BY <2>1, <2>2, LaneStays
    <2> QED
      BY <2>1, <2>2, <2>3, <2>4, ResolvesGroup DEF Waiting, Running, Resolved, Executing
  <1>4. ASSUME NEW r \in Requests, NEW n \in Nodes, NEW s \in Sessions,
               GiveInput(r, n, s)
        PROVE  ContractStep
    <2>1. /\ phase[r] = "new" /\ cancel' = cancel
          /\ \A q \in Requests : /\ phase'[q] = IF q = r THEN "input" ELSE phase[q]
                                 /\ node'[q] = IF q = r THEN n ELSE node[q]
      BY <1>0, <1>4 DEF GiveInput, taskVars, TypeOK
    <2>2. cancel[r] = "none"
      BY <1>0, <2>1 DEF Uncancelled
    <2>3. /\ Waiting' = Waiting \cup {r}
          /\ Running' = Running
          /\ Resolved' = Resolved
          /\ r \notin Waiting \cup Running \cup Resolved
      BY <2>1, <2>2 DEF Waiting, Running, Resolved, Executing
    <2>4. GivenLane' = [GivenLane EXCEPT ![r] = LaneOf(n)]
      BY <2>1 DEF GivenLane
    <2>5. Contract!Submit(r, LaneOf(n))
      BY <2>3, <2>4 DEF Contract!Submit, Waiting, Running, Resolved, GivenLane
    <2> QED
      BY <2>5, LaneOfType DEF ContractStep, Contract!Next
  <1>5. ASSUME NEW r \in Requests, CancelLands(r) PROVE ContractStep
    <2>1. /\ cancel[r] = "inflight" /\ UNCHANGED <<phase, node>>
          /\ \A q \in Requests : cancel'[q] = IF q = r THEN "landed" ELSE cancel[q]
      BY <1>0, <1>5 DEF CancelLands, requestVars, TypeOK
    <2>2. phase[r] \in {"stopping", "cleaning", "done"}
      BY <1>0, <2>1 DEF CancelledTasks
    <2>3. GivenLane' = GivenLane
      BY <2>1 DEF GivenLane
    <2>4. {r} \in SUBSET Requests
      OBVIOUS
    <2> QED
      BY <2>1, <2>2, <2>3, <2>4, ResolvesGroup DEF Waiting, Running, Resolved, Executing
  <1>6. ASSUME NEW r \in Requests, Finishes(r) PROVE ContractStep
    <2>1. /\ phase[r] = "running" /\ UNCHANGED <<cancel, node>>
          /\ \A q \in Requests : phase'[q] = IF q = r THEN "done" ELSE phase[q]
      BY <1>0, <1>6 DEF Finishes, FinishTask, HasFuture, TypeOK
    <2>2. cancel[r] = "none"
      BY <1>0, <2>1 DEF Uncancelled
    <2>3. GivenLane' = GivenLane
      BY <2>1, LaneStays
    <2>4. {r} \in SUBSET Requests
      OBVIOUS
    <2> QED
      BY <2>1, <2>2, <2>3, <2>4, ResolvesGroup DEF Waiting, Running, Resolved, Executing
  <1>7. ASSUME NEW r \in Requests, RunCancelled(r) PROVE ContractStep
    <2>1. /\ cancel[r] = "landed" /\ UNCHANGED node
          /\ \A q \in Requests : /\ phase'[q] = IF q = r THEN "done" ELSE phase[q]
                                 /\ cancel'[q] = IF q = r THEN "none" ELSE cancel[q]
      BY <1>0, <1>7 DEF RunCancelled, TypeOK
    <2>2. phase[r] \in {"stopping", "cleaning", "done"}
      BY <1>0, <2>1 DEF CancelledTasks
    <2>3. GivenLane' = GivenLane
      BY <2>1, <2>2, LaneStays
    <2> QED
      BY <2>1, <2>2, <2>3, Stutters DEF Waiting, Running, Resolved, Executing
  <1>8. ASSUME NEW l \in Lanes, ServeNextUnavailable(l) \/ ServeNextIdle(l)
        PROVE  ContractStep
    <2>1. UNCHANGED <<phase, node, cancel>>
      BY <1>8 DEF ServeNextUnavailable, ServeNextIdle, requestVars, taskVars
    <2> QED
      BY <2>1, Stutters DEF Waiting, Running, Resolved, Executing, GivenLane
  <1>9. ASSUME NEW r \in Requests, phase[r] \in {"input", "queued"},
               \A q \in Requests : phase'[q] = IF q = r THEN "running" ELSE phase[q],
               UNCHANGED <<node, cancel>>,
               LaneOf(node[r]) # None => \A q \in Requests : ~Holds(q, LaneOf(node[r]))
        PROVE  ContractStep
    <2>1. cancel[r] = "none"
      BY <1>0, <1>9 DEF Uncancelled
    <2>2. GivenLane' = GivenLane
      BY <1>9, LaneStays
    <2>3. \A q \in Running : Busy(q) /\ phase[q] # "new"
      BY <1>0 DEF Running, Executing, Busy, CancelledTasks
    <2>4. GivenLane[r] # None => \A q \in Running : GivenLane[q] # GivenLane[r]
      BY <1>0, <1>9, <2>3, ActiveLane DEF Running, Holds
    <2> QED
      BY <1>9, <2>1, <2>2, <2>4, StartsOne DEF Waiting, Running, Resolved, Executing
  <1>10. ASSUME NEW l \in Lanes, NEW r \in Requests, ServeNextOrder(l, r)
         PROVE  ContractStep
    <2>1. /\ phase[r] = "queued" /\ LaneOf(node[r]) = l
          /\ unblock[l] > 0 /\ provider = "alive"
          /\ UNCHANGED <<node, cancel>>
          /\ \A q \in Requests : phase'[q] = IF q = r THEN "running" ELSE phase[q]
      BY <1>0, <1>10 DEF ServeNextOrder, IsFront, Queue, taskVars, TypeOK
    <2>2. \A q \in Requests : ~Holds(q, l)
      BY <1>0, <2>1 DEF LaneInv
    <2> QED
      BY <1>9, <2>1, <2>2
  <1>11. ASSUME NEW n \in Nodes, NEW r \in Requests, ServeImmediately(n, r)
         PROVE  ContractStep
    <2>1. /\ phase[r] = "input" /\ node[r] = n
          /\ LaneIsFree(LaneOf(n)) /\ provider = "alive"
          /\ UNCHANGED <<node, cancel>>
          /\ \A q \in Requests : phase'[q] = IF q = r THEN "running" ELSE phase[q]
      BY <1>0, <1>11 DEF ServeImmediately, IsFront, Inputs, taskVars, TypeOK
    <2>2. LaneOf(n) # None => \A q \in Requests : ~Holds(q, LaneOf(n))
      BY <1>0, <2>1, LaneOfType DEF LaneInv, LaneIsFree
    <2> QED
      BY <1>9, <2>1, <2>2
  <1>12. ASSUME NEW n \in Nodes, NEW r \in Requests, ServeQueued(n, r)
         PROVE  ContractStep
    <2>1. ~Preempts(n)
      BY <1>12, LaneOfType DEF ServeQueued, LaneIsFree, Unpreempted, Preemptible
    <2>2. Stopped(n) = {} /\ Supplanted(n) = {}
      BY <2>1 DEF Stopped, StopsDelivery, Supplanted, Cancelled
    <2>3. /\ phase[r] = "input"
          /\ \A q \in Requests : /\ phase'[q] = IF q = r THEN "queued" ELSE phase[q]
                                 /\ cancel'[q] = cancel[q]
      BY <1>0, <1>12, <2>2, ServeQueuedEffect
    <2>4. node' = node
      BY <1>12 DEF ServeQueued
    <2>5. GivenLane' = GivenLane
      BY <2>3, <2>4, LaneStays
    <2> QED
      BY <2>3, <2>5, Stutters DEF Waiting, Running, Resolved, Executing
  <1>13. ASSUME NEW c \in Cleanups, BeginCleanup(c) PROVE ContractStep
    <2> DEFINE G == {q \in Requests : phase[q] \in {"input", "queued"} /\ phase'[q] = "done"}
    <2>1. node' = node
      BY <1>13 DEF BeginCleanup
    <2>2. ASSUME NEW q \in Requests
          PROVE  \/ phase[q] = "running" /\ phase'[q] = "cleaning" /\ cancel'[q] = "inflight"
                 \/ phase[q] \in {"input", "queued"} /\ phase'[q] = "done" /\ cancel'[q] = cancel[q]
                 \/ phase[q] = "cleaning" /\ phase'[q] = "done" /\ cancel'[q] = cancel[q]
                 \/ phase'[q] = phase[q] /\ cancel'[q] = cancel[q]
      BY <1>0, <1>13, BeginCleanupEffect
    <2>3. \A q \in Requests : phase[q] \in {"input", "queued"} => cancel[q] = "none"
      BY <1>0 DEF Uncancelled
    <2>4. GivenLane' = GivenLane
      BY <2>1, <2>2, LaneStays
    <2>5. ASSUME NEW q \in G PROVE q \in Waiting \cup Running /\ (q \in Resolved)'
      BY <2>2, <2>3 DEF Waiting, Resolved, Executing
    <2>6. ASSUME NEW q \in Requests \ G
          PROVE  /\ (q \in Waiting)' <=> q \in Waiting
                 /\ (q \in Running)' <=> q \in Running
                 /\ (q \in Resolved)' <=> q \in Resolved
      BY <2>2 DEF Waiting, Running, Resolved, Executing
    <2> QED
      BY <2>4, <2>5, <2>6, ResolvesGroup
  <1> QED
    BY <1>0, StepIsServiceStep, <1>1, <1>2, <1>3, <1>4, <1>5, <1>6, <1>7, <1>8, <1>10,
       <1>11, <1>12, <1>13 DEF ServiceStep

\* A service whose lanes are not preempted implements the exclusive service that
\* its nodes rely on: no request is started while another of its lane executes,
\* none is resolved twice or started after it was resolved, through cleanups,
\* trims and the despawning of the service.
THEOREM Refinement ==
  ASSUME Unpreempted
  PROVE  Spec => Contract!Spec
  <1>1. Init => RefinementInv
    BY TypeInvInit, ExclusionInit DEF RefinementInv, Init, Uncancelled
  <1>2. RefinementInv /\ [Next]_vars => RefinementInv'
    BY TypeInvNext, ExclusionNext, UncancelledNext DEF RefinementInv
  <1>3. Init => Contract!Init
    BY DEF Init, Contract!Init, Executing
  <1>4. RefinementInv /\ [Next]_vars => [Contract!Next]_(Contract!vars)
    BY RefinesStep DEF ContractStep
  <1> QED
    BY <1>1, <1>2, <1>3, <1>4, PTL DEF Spec, Contract!Spec
=============================================================================
