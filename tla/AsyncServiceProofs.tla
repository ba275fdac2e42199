------------------------- MODULE AsyncServiceProofs -------------------------
(* What is proved of AsyncService for every value of its constants. *)
EXTENDS AsyncService, TLAPS

(***************************************************************************)
(* Types.  A request that has been given has a node and a session, and so  *)
(* does one with a cancellation, so that its lane is defined.              *)
(***************************************************************************)
Given ==
    \A r \in Requests :
        /\ phase[r] # "new" => node[r] \in Nodes /\ session[r] \in Sessions
        /\ cancel[r] # "none" => phase[r] # "new"

TypeInv == TypeOK /\ Given

\* LaneOf gives a lane, or None to a request that is never queued.
LEMMA LaneOfType == \A n \in Nodes : LaneOf(n) \in Lanes \cup {None}
  BY DeliveryAssumption DEF LaneOf, Lanes, HasInstructions, InstructionSet

\* None is not a lane.
LEMMA NoneIsNoLane == None \notin Lanes
  BY DeliveryAssumption DEF Lanes

\* roster.unblock keeps a count for each lane.
LEMMA UnblockedType ==
  ASSUME TypeOK, NEW l \in Lanes \cup {None}
  PROVE  Unblocked(l) \in [Lanes -> Nat]
  BY NoneIsNoLane DEF Unblocked, TypeOK

\* Polling a task keeps the types of what it may change.
LEMMA PollTaskType ==
  ASSUME TypeInv, NEW r \in Requests, PollTask(r)
  PROVE  /\ phase' \in [Requests -> Phases]
         /\ outcome' \in [Requests -> Outcomes]
         /\ unblock' \in [Lanes -> Nat]
         /\ job' \in [Requests -> {"fresh", "pending", "ready"}]
         /\ \A q \in Requests : phase'[q] = "new" <=> phase[q] = "new"
  <1>1. CASE HasFuture(r) /\ job[r] = "ready" /\ FinishTask(r)
    <2>1. node[r] \in Nodes
      BY <1>1 DEF TypeInv, Given, HasFuture
    <2>2. Unblocked(LaneOf(node[r])) \in [Lanes -> Nat]
      BY <2>1, LaneOfType, UnblockedType DEF TypeInv
    <2> QED
      BY <1>1, <2>2 DEF TypeInv, TypeOK, HasFuture, FinishTask, Phases, Outcomes
  <1>2. CASE HasFuture(r) /\ job[r] # "ready" /\ KeepPending(r)
    BY <1>2 DEF TypeInv, TypeOK, KeepPending
  <1>3. CASE ~HasFuture(r) /\ UNCHANGED <<phase, outcome, unblock, job>>
    BY <1>3 DEF TypeInv, TypeOK
  <1> QED
    BY <1>1, <1>2, <1>3 DEF PollTask

\* What ServeQueued does to each request.
LEMMA ServeQueuedEffect ==
  ASSUME TypeOK, NEW n \in Nodes, NEW r \in Requests, ServeQueued(n, r)
  PROVE  /\ phase[r] = "input" /\ node[r] = n
         /\ \A q \in Supplanted(n) : q \in Requests /\ phase[q] = "queued"
         /\ phase' \in [Requests -> Phases]
         /\ outcome' \in [Requests -> Outcomes]
         /\ cancel' \in [Requests -> {"none", "inflight", "landed"}]
         /\ \A q \in Requests :
              phase'[q] = IF q \in Stopped(n) /\ phase[q] \in {"running", "cleaning"}
                          THEN "stopping"
                          ELSE IF q \in Supplanted(n) THEN "done"
                          ELSE IF q = r THEN "queued" ELSE phase[q]
         /\ \A q \in Requests :
              outcome'[q] = IF q \in Supplanted(n) THEN "supplanted" ELSE outcome[q]
         /\ \A q \in Requests :
              cancel'[q] = IF q \in Stopped(n) /\ phase[q] = "running"
                           THEN "inflight" ELSE cancel[q]
  <1> USE DEF TypeOK
  <1> DEFINE running == {q \in Stopped(n) : phase[q] = "running"}
             cleaning == {q \in Stopped(n) : phase[q] = "cleaning"}
             first == [phase EXCEPT ![r] = "queued"]
             second == Assign(first, Supplanted(n), "done")
  <1>1. phase[r] = "input" /\ node[r] = n
    BY DEF ServeQueued, IsFront, Inputs
  <1>2. \A q \in Supplanted(n) : q \in Requests /\ phase[q] = "queued"
    BY DEF Supplanted, Cancelled, Queue
  <1>3. first \in [Requests -> Phases]
    BY DEF Phases
  <1>4. /\ second \in [Requests -> Phases]
        /\ \A q \in Requests :
             second[q] = IF q \in Supplanted(n) THEN "done" ELSE first[q]
    <2> HIDE DEF first
    <2> QED
      BY <1>3 DEF Assign, Phases
  <1>5. phase' = Assign(second, running \cup cleaning, "stopping")
    BY DEF ServeQueued
  <1>6. /\ phase' \in [Requests -> Phases]
        /\ \A q \in Requests :
             phase'[q] = IF q \in running \cup cleaning THEN "stopping" ELSE second[q]
    <2> HIDE DEF first, second, running, cleaning
    <2> QED
      BY <1>4, <1>5 DEF Assign, Phases
  <1>7. \A q \in Requests :
          q \in running \cup cleaning
          <=> q \in Stopped(n) /\ phase[q] \in {"running", "cleaning"}
    OBVIOUS
  <1>8. \A q \in Requests :
              phase'[q] = IF q \in Stopped(n) /\ phase[q] \in {"running", "cleaning"}
                          THEN "stopping"
                          ELSE IF q \in Supplanted(n) THEN "done"
                          ELSE IF q = r THEN "queued" ELSE phase[q]
    <2>1. \A q \in Requests : first[q] = IF q = r THEN "queued" ELSE phase[q]
      OBVIOUS
    <2> HIDE DEF first, second, running, cleaning
    <2> QED
      BY <1>4, <1>6, <1>7, <2>1
  <1>9. /\ outcome' \in [Requests -> Outcomes]
        /\ \A q \in Requests :
              outcome'[q] = IF q \in Supplanted(n) THEN "supplanted" ELSE outcome[q]
    BY DEF Assign, ServeQueued, Outcomes
  <1>10. /\ cancel' \in [Requests -> {"none", "inflight", "landed"}]
         /\ \A q \in Requests :
              cancel'[q] = IF q \in Stopped(n) /\ phase[q] = "running"
                           THEN "inflight" ELSE cancel[q]
    BY DEF Assign, ServeQueued
  <1> QED
    BY <1>1, <1>2, <1>6, <1>8, <1>9, <1>10

\* What BeginCleanup does to each request: its node drops inputs, orders and the
\* tasks already being cleaned, and cancels the tasks that run.
LEMMA BeginCleanupEffect ==
  ASSUME TypeOK, NEW c \in Cleanups, BeginCleanup(c)
  PROVE  /\ phase' \in [Requests -> Phases]
         /\ outcome' \in [Requests -> Outcomes]
         /\ cancel' \in [Requests -> {"none", "inflight", "landed"}]
         /\ cancelFor' \in [Requests -> Cleanups \cup {None}]
         /\ marked' \in [Requests -> Cleanups \cup {None}]
         /\ \A r \in Requests :
              marked'[r] = IF /\ phase[r] \in {"running", "stopping", "cleaning"}
                              /\ node[r] \in CleanupNodes[c]
                              /\ session[r] = CleanupSession[c]
                           THEN c ELSE marked[r]
         /\ \A r \in Requests :
              \/ /\ phase[r] = "running"
                 /\ node[r] \in CleanupNodes[c] /\ session[r] = CleanupSession[c]
                 /\ phase'[r] = "cleaning" /\ cancel'[r] = "inflight"
                 /\ cancelFor'[r] = c /\ outcome'[r] = "cleaned"
              \/ /\ phase[r] \in {"input", "cleaning"}
                 /\ node[r] \in CleanupNodes[c] /\ session[r] = CleanupSession[c]
                 /\ phase'[r] = "done" /\ outcome'[r] = "cleaned"
                 /\ cancel'[r] = cancel[r] /\ cancelFor'[r] = cancelFor[r]
              \/ /\ phase[r] = "queued" /\ session[r] = CleanupSession[c]
                 /\ CleanupNodes[c] # {} /\ phase'[r] = "done"
                 /\ outcome'[r] = IF node[r] \in CleanupNodes[c]
                                  THEN "cleaned" ELSE outcome[r]
                 /\ cancel'[r] = cancel[r] /\ cancelFor'[r] = cancelFor[r]
              \/ /\ phase'[r] = phase[r] /\ outcome'[r] = outcome[r]
                 /\ cancel'[r] = cancel[r] /\ cancelFor'[r] = cancelFor[r]
                 /\ \/ node[r] \notin CleanupNodes[c]
                    \/ session[r] # CleanupSession[c]
                    \/ phase[r] \in {"new", "stopping", "done"}
  <1> DEFINE s == CleanupSession[c]
             nodes == CleanupNodes[c]
             tasks == UNION {Delegated(c, n) : n \in nodes}
             inputs == {r \in Requests : /\ phase[r] = "input" /\ session[r] = s
                                         /\ node[r] \in nodes}
             orders == IF nodes = {} THEN {} ELSE OrdersOf(s)
             running == {r \in tasks : phase[r] = "running"}
             recleaned == {r \in tasks : phase[r] = "cleaning"}
             dropped == inputs \cup orders \cup recleaned
             asked == {r \in inputs \cup orders \cup tasks :
                         /\ node[r] \in nodes /\ session[r] = s
                         /\ phase[r] # "stopping"}
             first == Assign(phase, dropped, "done")
  <1> USE DEF TypeOK
  <1>1. \A r \in Requests :
          /\ r \in tasks <=> /\ phase[r] \in {"running", "stopping", "cleaning"}
                             /\ node[r] \in nodes /\ session[r] = s
          /\ r \in inputs <=> /\ phase[r] = "input" /\ session[r] = s
                              /\ node[r] \in nodes
          /\ r \in orders <=> /\ nodes # {} /\ phase[r] = "queued"
                              /\ session[r] = s
    BY DEF Delegated, ActiveTasks, OrdersOf
  <1>2. /\ phase' = Assign(first, running, "cleaning")
        /\ outcome' = Assign(outcome, asked, "cleaned")
        /\ cancel' = Assign(cancel, running, "inflight")
        /\ cancelFor' = Assign(cancelFor, running, c)
        /\ marked' = Assign(marked, tasks, c)
    BY DEF BeginCleanup
  <1> HIDE DEF tasks, inputs, orders, nodes, s
  <1>3. \A r \in Requests :
          /\ r \in running <=> r \in tasks /\ phase[r] = "running"
          /\ r \in dropped <=> \/ r \in inputs \/ r \in orders
                               \/ r \in tasks /\ phase[r] = "cleaning"
          /\ r \in asked <=> /\ r \in inputs \/ r \in orders \/ r \in tasks
                             /\ node[r] \in nodes /\ session[r] = s
                             /\ phase[r] # "stopping"
    OBVIOUS
  <1> HIDE DEF running, recleaned, dropped, asked
  <1>4. /\ first \in [Requests -> Phases]
        /\ \A r \in Requests :
             first[r] = IF r \in dropped THEN "done" ELSE phase[r]
    BY DEF Assign, Phases
  <1> HIDE DEF first
  <1>5. /\ phase' \in [Requests -> Phases]
        /\ \A r \in Requests :
             phase'[r] = IF r \in running THEN "cleaning" ELSE first[r]
    BY <1>2, <1>4 DEF Assign, Phases
  <1>6. /\ outcome' \in [Requests -> Outcomes]
        /\ \A r \in Requests :
             outcome'[r] = IF r \in asked THEN "cleaned" ELSE outcome[r]
    BY <1>2 DEF Assign, Outcomes
  <1>7. /\ cancel' \in [Requests -> {"none", "inflight", "landed"}]
        /\ \A r \in Requests :
             cancel'[r] = IF r \in running THEN "inflight" ELSE cancel[r]
    BY <1>2 DEF Assign
  <1>8. /\ cancelFor' \in [Requests -> Cleanups \cup {None}]
        /\ \A r \in Requests :
             cancelFor'[r] = IF r \in running THEN c ELSE cancelFor[r]
    BY <1>2 DEF Assign
  <1>9. /\ marked' \in [Requests -> Cleanups \cup {None}]
        /\ \A r \in Requests :
             marked'[r] = IF r \in tasks THEN c ELSE marked[r]
    BY <1>2 DEF Assign
  <1>10. ASSUME NEW r \in Requests
         PROVE  phase[r] \in Phases
    BY DEF Phases
  <1> QED
    BY <1>1, <1>3, <1>4, <1>5, <1>6, <1>7, <1>8, <1>9, <1>10 DEF Phases, nodes, s

\* The initial states have their types.
LEMMA TypeInvInit == Init => TypeInv
  BY NoneIsNoLane DEF Init, TypeInv, TypeOK, Given, Phases, Outcomes

\* Every step keeps the types.
LEMMA TypeInvNext == TypeInv /\ [Next]_vars => TypeInv'
  <1> SUFFICES ASSUME TypeInv, [Next]_vars PROVE TypeInv'
    OBVIOUS
  <1> USE DEF TypeInv, TypeOK, Given
  <1>1. ASSUME NEW r \in Requests, NEW n \in Nodes, NEW s \in Sessions,
               GiveInput(r, n, s)
        PROVE  TypeInv'
    BY <1>1 DEF GiveInput, taskVars, cleanupVars, Phases
  <1>2. CASE DespawnService
    BY <1>2 DEF DespawnService, rosterVars, taskVars, cleanupVars, Phases
  <1>3. ASSUME NEW r \in Requests, CompleteJob(r) PROVE TypeInv'
    BY <1>3 DEF CompleteJob, requestVars, cleanupVars
  <1>4. ASSUME NEW r \in Requests, CancelLands(r) PROVE TypeInv'
    BY <1>4 DEF CancelLands, rosterVars, requestVars, cleanupVars
  <1>5. ASSUME NEW l \in Lanes, ServeNextUnavailable(l) PROVE TypeInv'
    BY <1>5 DEF ServeNextUnavailable, requestVars, taskVars, cleanupVars
  <1>6. ASSUME NEW l \in Lanes, ServeNextIdle(l) PROVE TypeInv'
    BY <1>6 DEF ServeNextIdle, requestVars, taskVars, cleanupVars
  <1>7. ASSUME NEW l \in Lanes, NEW r \in Requests, ServeNextOrder(l, r)
        PROVE  TypeInv'
    BY <1>7 DEF ServeNextOrder, IsFront, Queue, taskVars, cleanupVars, Phases
  <1>8. CASE EndUnblock
    BY <1>8 DEF EndUnblock, rosterVars, requestVars, taskVars, cleanupVars
  <1>9. ASSUME NEW n \in Nodes, ExecuteEmptyNode(n) PROVE TypeInv'
    BY <1>9 DEF ExecuteEmptyNode, Executes, requestVars, taskVars, cleanupVars
  <1>10. ASSUME NEW n \in Nodes, DispatchUnavailable(n) PROVE TypeInv'
    BY <1>10 DEF DispatchUnavailable, DisposeInputs, Assign, Executes, taskVars,
                 cleanupVars, Phases, Outcomes
  <1>11. ASSUME NEW n \in Nodes, NEW r \in Requests, ServeImmediately(n, r)
         PROVE  TypeInv'
    <2>1. LaneOf(n) \in Lanes \cup {None}
      BY LaneOfType
    <2> QED
      BY <1>11, <2>1 DEF ServeImmediately, IsFront, Inputs, Executes, taskVars,
                         cleanupVars, Phases
  <1>12. ASSUME NEW n \in Nodes, NEW r \in Requests, ServeQueued(n, r)
         PROVE  TypeInv'
    <2>1. Unblocked(LaneOf(n)) \in [Lanes -> Nat]
      BY LaneOfType, UnblockedType
    <2>2. /\ unblock' \in [Lanes -> Nat]
          /\ stamp' \in [Requests -> Nat] /\ clock' \in Nat
          /\ roster' \in Seq(Nodes \cup Requests)
      BY <1>12, <2>1 DEF ServeQueued, Executes
    <2>3. UNCHANGED <<stage, awake, wakeQueue, node, session, job, cancelFor,
                      marked, delivering, begun, cleaned, closed, provider>>
      BY <1>12 DEF ServeQueued, cleanupVars
    <2>4. ASSUME NEW q \in Requests
          PROVE  /\ phase'[q] # "new" => phase[q] # "new"
                 /\ cancel'[q] # "none" => phase'[q] # "new"
      <3>1. q = r => phase[q] = "input"
        BY <1>12, ServeQueuedEffect
      <3>2. q \in Supplanted(n) => phase[q] = "queued"
        BY <1>12, ServeQueuedEffect
      <3>3. /\ phase'[q] = IF q \in Stopped(n) /\ phase[q] \in {"running", "cleaning"}
                           THEN "stopping"
                           ELSE IF q \in Supplanted(n) THEN "done"
                           ELSE IF q = r THEN "queued" ELSE phase[q]
            /\ cancel'[q] = IF q \in Stopped(n) /\ phase[q] = "running"
                            THEN "inflight" ELSE cancel[q]
        BY <1>12, ServeQueuedEffect
      <3>4. cancel[q] # "none" => phase[q] # "new"
        OBVIOUS
      <3> HIDE DEF TypeInv, TypeOK, Given
      <3> QED
        BY <3>1, <3>2, <3>3, <3>4
    <2>5. /\ phase' \in [Requests -> Phases]
          /\ outcome' \in [Requests -> Outcomes]
          /\ cancel' \in [Requests -> {"none", "inflight", "landed"}]
      BY <1>12, ServeQueuedEffect
    <2> QED
      BY <2>2, <2>3, <2>4, <2>5
  <1>13. ASSUME NEW r \in Requests, ExecuteTask(r) PROVE TypeInv'
    BY <1>13, PollTaskType DEF ExecuteTask, Executes, cleanupVars
  <1>14. CASE EndQueue
    BY <1>14 DEF EndQueue, rosterVars, requestVars, taskVars, cleanupVars
  <1>15. ASSUME NEW r \in Requests, AwakenTask(r) PROVE TypeInv'
    BY <1>15, PollTaskType DEF AwakenTask, cleanupVars
  <1>16. CASE EndAwake
    BY <1>16 DEF EndAwake, rosterVars, requestVars, taskVars, cleanupVars
  <1>17. ASSUME NEW r \in Requests, RunCancelled(r) PROVE TypeInv'
    <2>1. node[r] \in Nodes
      BY <1>17 DEF RunCancelled
    <2>2. Unblocked(LaneOf(node[r])) \in [Lanes -> Nat]
      BY <2>1, LaneOfType, UnblockedType
    <2> QED
      BY <1>17, <2>1, <2>2 DEF RunCancelled, Phases, Outcomes
  <1>18. CASE EndChannel
    BY <1>18 DEF EndChannel, DisposeInputs, Assign, taskVars, cleanupVars, Phases,
                 Outcomes
  <1>19. ASSUME NEW c \in Cleanups, BeginCleanup(c) PROVE TypeInv'
    <2>1. \A r \in Requests :
            /\ phase'[r] = "new" => phase[r] = "new"
            /\ cancel'[r] # "none" => phase'[r] # "new"
      BY <1>19, BeginCleanupEffect
    <2>2. /\ begun' \in SUBSET Cleanups
          /\ cleaned' \in SUBSET (Cleanups \X Nodes)
          /\ closed' \in SUBSET Sessions
      BY <1>19, CleanupAssumption DEF BeginCleanup
    <2>3. UNCHANGED <<stage, rosterVars, node, session, stamp, clock, job,
                      delivering, provider>>
      BY <1>19 DEF BeginCleanup
    <2> QED
      BY <1>19, <2>1, <2>2, <2>3, BeginCleanupEffect DEF rosterVars
  <1>20. CASE UNCHANGED vars
    BY <1>20 DEF vars, rosterVars, requestVars, taskVars, cleanupVars
  <1> QED
    BY <1>1, <1>2, <1>3, <1>4, <1>5, <1>6, <1>7, <1>8, <1>9, <1>10, <1>11, <1>12,
       <1>13, <1>14, <1>15, <1>16, <1>17, <1>18, <1>19, <1>20
       DEF Next, Flush, Environment, Executor

\* Every state has its type, through cleanups, preemption and a despawned
\* service.
THEOREM TypeCorrect == Spec => []TypeOK
  <1>1. TypeInv => TypeOK
    BY DEF TypeInv
  <1> QED
    BY <1>1, TypeInvInit, TypeInvNext, PTL DEF Spec
-----------------------------------------------------------------------------
(***************************************************************************)
(* The steps of the flush, the executor and the environment, as far as the *)
(* invariants below are concerned: most of Next leaves the requests and    *)
(* the lanes alone.                                                        *)
(***************************************************************************)
Silent ==
    UNCHANGED <<requestVars, cancel, cancelFor, delivering, unblock, provider>>

Finishes(r) ==
    /\ HasFuture(r)
    /\ FinishTask(r)
    /\ UNCHANGED <<node, session, stamp, clock, cancel, cancelFor, delivering,
                   provider>>

Disposes ==
    /\ DisposeInputs
    /\ provider' = "alive" <=> provider = "alive"
    /\ UNCHANGED <<node, session, stamp, clock, cancel, cancelFor, delivering,
                   unblock>>

ServiceStep ==
    \/ Silent
    \/ Disposes
    \/ DespawnService
    \/ \E r \in Requests, n \in Nodes, s \in Sessions : GiveInput(r, n, s)
    \/ \E r \in Requests : CancelLands(r) \/ Finishes(r) \/ RunCancelled(r)
    \/ \E l \in Lanes : ServeNextUnavailable(l) \/ ServeNextIdle(l)
    \/ \E l \in Lanes, r \in Requests : ServeNextOrder(l, r)
    \/ \E n \in Nodes, r \in Requests : ServeImmediately(n, r) \/ ServeQueued(n, r)
    \/ \E c \in Cleanups : BeginCleanup(c)

\* Every step of the specification is one of these.
LEMMA StepIsServiceStep ==
  ASSUME TypeInv, [Next]_vars
  PROVE  ServiceStep
  <1>1. CASE UNCHANGED vars
    BY <1>1 DEF ServiceStep, Silent, vars, rosterVars, taskVars
  <1>2. CASE EndUnblock \/ EndQueue \/ EndAwake
    BY <1>2 DEF ServiceStep, Silent, EndUnblock, EndQueue, EndAwake, rosterVars,
                taskVars
  <1>3. ASSUME NEW r \in Requests, CompleteJob(r) PROVE ServiceStep
    BY <1>3 DEF ServiceStep, Silent, CompleteJob
  <1>4. ASSUME NEW n \in Nodes, ExecuteEmptyNode(n) PROVE ServiceStep
    BY <1>4 DEF ServiceStep, Silent, ExecuteEmptyNode, taskVars
  <1>5. ASSUME NEW n \in Nodes, DispatchUnavailable(n) PROVE ServiceStep
    BY <1>5 DEF ServiceStep, Disposes, DispatchUnavailable, taskVars
  <1>6. CASE EndChannel
    <2>1. CASE provider = "dropped"
      BY <1>6, <2>1 DEF ServiceStep, Disposes, EndChannel, taskVars
    <2>2. CASE provider # "dropped"
      BY <1>6, <2>2 DEF ServiceStep, Silent, EndChannel, taskVars, requestVars
    <2> QED
      BY <2>1, <2>2
  <1>7. ASSUME NEW r \in Requests, ExecuteTask(r) \/ AwakenTask(r)
        PROVE  ServiceStep
    <2>1. CASE FinishTask(r) /\ HasFuture(r)
      BY <1>7, <2>1 DEF ServiceStep, Finishes, ExecuteTask, AwakenTask
    <2>2. CASE ~(FinishTask(r) /\ HasFuture(r))
      BY <1>7, <2>2 DEF ServiceStep, Silent, ExecuteTask, AwakenTask, PollTask,
                        KeepPending, requestVars
    <2> QED
      BY <2>1, <2>2
  <1> QED
    BY <1>1, <1>2, <1>3, <1>4, <1>5, <1>6, <1>7
       DEF Next, Flush, Environment, Executor, ServiceStep

-----------------------------------------------------------------------------
(***************************************************************************)
(* Mutual exclusion on the lanes that no node preempts.  A request holds   *)
(* its lane from the launch of its task until the blocker of the task is   *)
(* released: while its future is held by the executor, and while its       *)
(* cancellation is on its way.  While the Delivery component exists a free *)
(* lane has no holder and no blocker in the roster, and a taken lane has   *)
(* exactly one of the two.  Preemption breaks this: a task that was stopped*)
(* after it finished releases the lane a second time.                      *)
(***************************************************************************)
Busy(r) == phase[r] = "running" \/ cancel[r] # "none"

Holds(r, l) == Busy(r) /\ LaneOf(node[r]) = l

\* A cancellation is only sent for a task, and takes its future.
CancelledTasks ==
    \A r \in Requests :
        cancel[r] # "none" => phase[r] \in {"stopping", "cleaning", "done"}

\* The order being delivered on a lane was launched on that lane.
DeliveredOnLane ==
    \A l \in Lanes : delivering[l] # None =>
        /\ phase[delivering[l]] \notin {"new", "input", "queued"}
        /\ LaneOf(node[delivering[l]]) = l

LaneInv(l) ==
    /\ provider = "alive" /\ delivering[l] = None =>
          unblock[l] = 0 /\ \A r \in Requests : ~Holds(r, l)
    /\ provider = "alive" /\ delivering[l] # None =>
          \/ unblock[l] = 0 /\ \A r \in Requests : Holds(r, l) <=> r = delivering[l]
          \/ unblock[l] = 1 /\ \A r \in Requests : ~Holds(r, l)
    /\ \A q, r \in Requests : Holds(q, l) /\ Holds(r, l) => q = r

ExclusionInv ==
    /\ CancelledTasks
    /\ DeliveredOnLane
    /\ \A l \in Lanes : ~Preemptible(l) => LaneInv(l)

\* Every step keeps a cancellation with the task whose future it took.
LEMMA CancelledTasksNext ==
  ASSUME TypeInv, CancelledTasks, [Next]_vars
  PROVE  CancelledTasks'
  <1> USE DEF TypeInv, TypeOK, Given, CancelledTasks
  <1>1. CASE Silent
    BY <1>1 DEF Silent, requestVars
  <1>2. CASE Disposes
    BY <1>2 DEF Disposes, DisposeInputs, Assign
  <1>3. CASE DespawnService
    BY <1>3 DEF DespawnService, rosterVars, taskVars
  <1>4. ASSUME NEW r \in Requests, NEW n \in Nodes, NEW s \in Sessions,
               GiveInput(r, n, s)
        PROVE  CancelledTasks'
    BY <1>4 DEF GiveInput, taskVars
  <1>5. ASSUME NEW r \in Requests, CancelLands(r) PROVE CancelledTasks'
    BY <1>5 DEF CancelLands, rosterVars, requestVars
  <1>6. ASSUME NEW r \in Requests, Finishes(r) PROVE CancelledTasks'
    BY <1>6 DEF Finishes, FinishTask, HasFuture
  <1>7. ASSUME NEW r \in Requests, RunCancelled(r) PROVE CancelledTasks'
    BY <1>7 DEF RunCancelled
  <1>8. ASSUME NEW l \in Lanes, ServeNextUnavailable(l) PROVE CancelledTasks'
    BY <1>8 DEF ServeNextUnavailable, requestVars, taskVars
  <1>9. ASSUME NEW l \in Lanes, ServeNextIdle(l) PROVE CancelledTasks'
    BY <1>9 DEF ServeNextIdle, requestVars, taskVars
  <1>10. ASSUME NEW l \in Lanes, NEW r \in Requests, ServeNextOrder(l, r)
         PROVE  CancelledTasks'
    BY <1>10 DEF ServeNextOrder, IsFront, Queue, taskVars
  <1>11. ASSUME NEW n \in Nodes, NEW r \in Requests, ServeImmediately(n, r)
         PROVE  CancelledTasks'
    BY <1>11 DEF ServeImmediately, LaneIsFree, IsFront, Inputs, taskVars
  <1>12. ASSUME NEW n \in Nodes, NEW r \in Requests, ServeQueued(n, r)
         PROVE  CancelledTasks'
    BY <1>12, ServeQueuedEffect DEF ServeQueued
  <1>13. ASSUME NEW c \in Cleanups, BeginCleanup(c) PROVE CancelledTasks'
    BY <1>13, BeginCleanupEffect DEF BeginCleanup, rosterVars
  <1> QED
    BY StepIsServiceStep, <1>1, <1>2, <1>3, <1>4, <1>5, <1>6, <1>7, <1>8, <1>9,
       <1>10, <1>11, <1>12, <1>13 DEF ServiceStep

\* Every step keeps the order being delivered on its lane.
LEMMA DeliveredOnLaneNext ==
  ASSUME TypeInv, DeliveredOnLane, [Next]_vars
  PROVE  DeliveredOnLane'
  <1> USE DEF TypeInv, TypeOK, Given, DeliveredOnLane
  <1>1. CASE Silent
    BY <1>1 DEF Silent, requestVars
  <1>2. CASE Disposes
    BY <1>2 DEF Disposes, DisposeInputs, Assign
  <1>3. CASE DespawnService
    BY <1>3 DEF DespawnService, rosterVars, taskVars
  <1>4. ASSUME NEW r \in Requests, NEW n \in Nodes, NEW s \in Sessions,
               GiveInput(r, n, s)
        PROVE  DeliveredOnLane'
    BY <1>4 DEF GiveInput, taskVars
  <1>5. ASSUME NEW r \in Requests, CancelLands(r) PROVE DeliveredOnLane'
    BY <1>5 DEF CancelLands, rosterVars, requestVars
  <1>6. ASSUME NEW r \in Requests, Finishes(r) PROVE DeliveredOnLane'
    BY <1>6 DEF Finishes, FinishTask, HasFuture
  <1>7. ASSUME NEW r \in Requests, RunCancelled(r) PROVE DeliveredOnLane'
    BY <1>7 DEF RunCancelled
  <1>8. ASSUME NEW l \in Lanes, ServeNextUnavailable(l) PROVE DeliveredOnLane'
    BY <1>8 DEF ServeNextUnavailable, requestVars, taskVars
  <1>9. ASSUME NEW l \in Lanes, ServeNextIdle(l) PROVE DeliveredOnLane'
    BY <1>9 DEF ServeNextIdle, requestVars, taskVars
  <1>10. ASSUME NEW l \in Lanes, NEW r \in Requests, ServeNextOrder(l, r)
         PROVE  DeliveredOnLane'
    BY <1>10 DEF ServeNextOrder, IsFront, Queue, taskVars
  <1>11. ASSUME NEW n \in Nodes, NEW r \in Requests, ServeImmediately(n, r)
         PROVE  DeliveredOnLane'
    BY <1>11 DEF ServeImmediately, LaneIsFree, IsFront, Inputs, taskVars
  <1>12. ASSUME NEW n \in Nodes, NEW r \in Requests, ServeQueued(n, r)
         PROVE  DeliveredOnLane'
    <2>1. ASSUME NEW q \in Requests, phase[q] \notin {"new", "input", "queued"}
          PROVE  phase'[q] \notin {"new", "input", "queued"}
      BY <1>12, <2>1, ServeQueuedEffect
    <2>2. UNCHANGED <<node, delivering>>
      BY <1>12 DEF ServeQueued
    <2> QED
      BY <2>1, <2>2
  <1>13. ASSUME NEW c \in Cleanups, BeginCleanup(c) PROVE DeliveredOnLane'
    <2>1. ASSUME NEW q \in Requests, phase[q] \notin {"new", "input", "queued"}
          PROVE  phase'[q] \notin {"new", "input", "queued"}
      BY <1>13, <2>1, BeginCleanupEffect
    <2>2. UNCHANGED <<node, delivering>>
      BY <1>13 DEF BeginCleanup
    <2> QED
      BY <2>1, <2>2
  <1> QED
    BY StepIsServiceStep, <1>1, <1>2, <1>3, <1>4, <1>5, <1>6, <1>7, <1>8, <1>9,
       <1>10, <1>11, <1>12, <1>13 DEF ServiceStep

\* The account of a lane is kept by a step that does not touch the lane.
LEMMA LaneInvUntouched ==
  ASSUME NEW l \in Lanes, LaneInv(l),
         \A q \in Requests : Holds(q, l)' <=> Holds(q, l),
         unblock'[l] = unblock[l], delivering'[l] = delivering[l],
         provider' = "alive" => provider = "alive"
  PROVE  LaneInv(l)'
  BY DEF LaneInv

\* The account of a lane is kept when a holder gives it up for a blocker.
LEMMA LaneInvReleased ==
  ASSUME TypeOK, NEW l \in Lanes, LaneInv(l), NEW r \in Requests, Holds(r, l),
         \A q \in Requests : Holds(q, l)' <=> Holds(q, l) /\ q # r,
         unblock'[l] = unblock[l] + 1, delivering'[l] = delivering[l],
         provider' = provider
  PROVE  LaneInv(l)'
  BY DEF LaneInv, TypeOK

\* Every step keeps the account of holders and blockers of a lane that no node
\* preempts.
LEMMA LaneInvNext ==
  ASSUME TypeInv, CancelledTasks, DeliveredOnLane, [Next]_vars,
         NEW l \in Lanes, ~Preemptible(l), LaneInv(l)
  PROVE  LaneInv(l)'
  <1> USE DEF TypeInv, TypeOK, Given, CancelledTasks, LaneInv, Holds, Busy
  <1>1. CASE Silent
    BY <1>1 DEF Silent, requestVars
  <1>2. CASE Disposes
    BY <1>2 DEF Disposes, DisposeInputs, Assign
  <1>3. CASE DespawnService
    BY <1>3 DEF DespawnService, rosterVars, taskVars
  <1>4. ASSUME NEW r \in Requests, NEW n \in Nodes, NEW s \in Sessions,
               GiveInput(r, n, s)
        PROVE  LaneInv(l)'
    BY <1>4 DEF GiveInput, taskVars
  <1>5. ASSUME NEW r \in Requests, CancelLands(r) PROVE LaneInv(l)'
    BY <1>5 DEF CancelLands, rosterVars, requestVars
  <1>6. ASSUME NEW r \in Requests, Finishes(r) PROVE LaneInv(l)'
    <2>1. LaneOf(node[r]) \in Lanes \cup {None}
      BY <1>6, LaneOfType DEF Finishes, HasFuture
    <2>2. \A q \in Requests : Holds(q, l)' <=> Holds(q, l) /\ q # r
      BY <1>6 DEF Finishes, FinishTask, HasFuture
    <2>3. CASE LaneOf(node[r]) = l
      <3>1. Holds(r, l) /\ unblock'[l] = unblock[l] + 1
        BY <1>6, <2>3, NoneIsNoLane DEF Finishes, FinishTask, HasFuture, Unblocked
      <3> QED
        BY <1>6, <2>2, <3>1, LaneInvReleased DEF Finishes
    <2>4. CASE LaneOf(node[r]) # l
      <3>1. unblock'[l] = unblock[l] /\ \A q \in Requests : Holds(q, l)' <=> Holds(q, l)
        BY <1>6, <2>1, <2>2, <2>4 DEF Finishes, FinishTask, Unblocked
      <3> QED
        BY <1>6, <3>1, LaneInvUntouched DEF Finishes
    <2> QED
      BY <2>3, <2>4
  <1>7. ASSUME NEW r \in Requests, RunCancelled(r) PROVE LaneInv(l)'
    <2>1. LaneOf(node[r]) \in Lanes \cup {None}
      BY <1>7, LaneOfType DEF RunCancelled
    <2>2. \A q \in Requests : Holds(q, l)' <=> Holds(q, l) /\ q # r
      BY <1>7 DEF RunCancelled
    <2>3. CASE LaneOf(node[r]) = l
      <3>1. Holds(r, l) /\ unblock'[l] = unblock[l] + 1
        BY <1>7, <2>3, NoneIsNoLane DEF RunCancelled, Unblocked
      <3> QED
        BY <1>7, <2>2, <3>1, LaneInvReleased DEF RunCancelled
    <2>4. CASE LaneOf(node[r]) # l
      <3>1. unblock'[l] = unblock[l] /\ \A q \in Requests : Holds(q, l)' <=> Holds(q, l)
        BY <1>7, <2>1, <2>2, <2>4 DEF RunCancelled, Unblocked
      <3> QED
        BY <1>7, <3>1, LaneInvUntouched DEF RunCancelled
    <2> QED
      BY <2>3, <2>4
  <1>8. ASSUME NEW k \in Lanes, ServeNextUnavailable(k) PROVE LaneInv(l)'
    BY <1>8 DEF ServeNextUnavailable, requestVars, taskVars
  <1>9. ASSUME NEW k \in Lanes, ServeNextIdle(k) PROVE LaneInv(l)'
    BY <1>9 DEF ServeNextIdle, requestVars, taskVars
  <1>10. ASSUME NEW k \in Lanes, NEW r \in Requests, ServeNextOrder(k, r)
         PROVE  LaneInv(l)'
    <2>1. LaneOf(node[r]) = k /\ ~Busy(r)
      BY <1>10 DEF ServeNextOrder, IsFront, Queue
    <2>2. ASSUME NEW q \in Requests
          PROVE  Holds(q, l)' <=> Holds(q, l) \/ (q = r /\ k = l)
      <3>1. UNCHANGED <<node, cancel>> /\ phase' = [phase EXCEPT ![r] = "running"]
        BY <1>10 DEF ServeNextOrder, taskVars
      <3>2. CASE q = r
        BY <2>1, <3>1, <3>2
      <3>3. CASE q # r
        <4>1. phase'[q] = phase[q] /\ cancel'[q] = cancel[q] /\ node'[q] = node[q]
          BY <3>1, <3>3
        <4> HIDE DEF TypeInv, CancelledTasks, LaneInv
        <4> QED
          BY <3>3, <4>1
      <3> QED
        BY <3>2, <3>3
    <2>3. CASE k = l
      <3>1. /\ unblock[l] > 0 /\ unblock'[l] = unblock[l] - 1
            /\ delivering'[l] = r /\ provider = "alive" /\ provider' = "alive"
        BY <1>10, <2>3 DEF ServeNextOrder
      <3>2. unblock[l] = 1 /\ \A q \in Requests : ~Holds(q, l)
        BY <3>1
      <3>3. r # None
        BY DeliveryAssumption
      <3> HIDE DEF Holds
      <3> QED
        BY <2>2, <2>3, <3>1, <3>2, <3>3
    <2>4. CASE k # l
      <3>1. /\ unblock'[l] = unblock[l] /\ delivering'[l] = delivering[l]
            /\ provider' = provider
        BY <1>10, <2>4 DEF ServeNextOrder
      <3> HIDE DEF Holds, LaneInv
      <3> QED
        BY <2>2, <2>4, <3>1, LaneInvUntouched
    <2> QED
      BY <2>3, <2>4
  <1>11. ASSUME NEW n \in Nodes, NEW r \in Requests, ServeImmediately(n, r)
         PROVE  LaneInv(l)'
    <2>1. phase[r] = "input" /\ node[r] = n /\ ~Busy(r)
      BY <1>11 DEF ServeImmediately, IsFront, Inputs
    <2>2. ASSUME NEW q \in Requests
          PROVE  Holds(q, l)' <=> Holds(q, l) \/ (q = r /\ LaneOf(n) = l)
      <3>1. UNCHANGED <<node, cancel>> /\ phase' = [phase EXCEPT ![r] = "running"]
        BY <1>11 DEF ServeImmediately, taskVars
      <3>2. CASE q = r
        BY <2>1, <3>1, <3>2
      <3>3. CASE q # r
        <4>1. phase'[q] = phase[q] /\ cancel'[q] = cancel[q] /\ node'[q] = node[q]
          BY <3>1, <3>3
        <4> HIDE DEF TypeInv, CancelledTasks, LaneInv
        <4> QED
          BY <3>3, <4>1
      <3> QED
        BY <3>2, <3>3
    <2>3. CASE LaneOf(n) = l
      <3>1. /\ delivering[l] = None /\ delivering'[l] = r /\ unblock' = unblock
            /\ provider = "alive" /\ provider' = "alive"
        BY <1>11, <2>3, NoneIsNoLane DEF ServeImmediately, LaneIsFree
      <3>2. unblock[l] = 0 /\ \A q \in Requests : ~Holds(q, l)
        BY <3>1
      <3>3. r # None
        BY DeliveryAssumption
      <3> HIDE DEF Holds
      <3> QED
        BY <2>2, <2>3, <3>1, <3>2, <3>3
    <2>4. CASE LaneOf(n) # l
      <3>1. delivering'[l] = delivering[l]
        BY <1>11, <2>4, LaneOfType DEF ServeImmediately
      <3>2. unblock' = unblock /\ provider' = provider
        BY <1>11 DEF ServeImmediately
      <3> HIDE DEF Holds, LaneInv
      <3> QED
        BY <2>2, <2>4, <3>1, <3>2, LaneInvUntouched
    <2> QED
      BY <2>3, <2>4
  <1>12. ASSUME NEW n \in Nodes, NEW r \in Requests, ServeQueued(n, r)
         PROVE  LaneInv(l)'
    <2>1. ASSUME NEW q \in Stopped(n), LaneOf(n) = l
          PROVE  FALSE
      BY <2>1 DEF Stopped, StopsDelivery, Preemptible
    <2>2. ASSUME NEW q \in Stopped(n)
          PROVE  LaneOf(node[q]) = LaneOf(n)
      <3>1. LaneOf(n) \in Lanes
        BY <1>12, LaneOfType DEF ServeQueued, LaneIsFree
      <3> QED
        BY <2>2, <3>1 DEF Stopped, StopsDelivery, DeliveredOnLane
    <2>3. UNCHANGED <<node, delivering, provider>>
      BY <1>12 DEF ServeQueued
    <2>4. ASSUME NEW q \in Requests
          PROVE  Holds(q, l)' <=> Holds(q, l)
      <3>1. CASE q \in Stopped(n)
        BY <2>1, <2>2, <2>3, <3>1
      <3>2. CASE q \notin Stopped(n)
        BY <1>12, <2>3, <3>2, ServeQueuedEffect
      <3> QED
        BY <3>1, <3>2
    <2>5. unblock'[l] = unblock[l]
      BY <1>12, <2>1 DEF ServeQueued, Unblocked
    <2> QED
      BY <2>3, <2>4, <2>5, LaneInvUntouched
  <1>13. ASSUME NEW c \in Cleanups, BeginCleanup(c) PROVE LaneInv(l)'
    <2>1. UNCHANGED <<node, delivering, unblock, provider>>
      BY <1>13 DEF BeginCleanup, rosterVars
    <2>2. \A q \in Requests : Holds(q, l)' <=> Holds(q, l)
      BY <1>13, <2>1, BeginCleanupEffect
    <2> QED
      BY <2>1, <2>2, LaneInvUntouched
  <1> QED
    BY StepIsServiceStep, <1>1, <1>2, <1>3, <1>4, <1>5, <1>6, <1>7, <1>8, <1>9,
       <1>10, <1>11, <1>12, <1>13 DEF ServiceStep

\* The initial states satisfy the invariant: no lane is taken.
LEMMA ExclusionInit == Init => ExclusionInv
  BY DEF Init, ExclusionInv, CancelledTasks, DeliveredOnLane, LaneInv, Holds, Busy

\* Every step keeps it.
LEMMA ExclusionNext == TypeInv /\ ExclusionInv /\ [Next]_vars => ExclusionInv'
  BY CancelledTasksNext, DeliveredOnLaneNext, LaneInvNext DEF ExclusionInv, Preemptible

\* The service is never executed for two requests of a lane that no node
\* preempts, be it the queue of a serial service or that of a label: through
\* cleanups, trims, the despawning of the service and preemption on other lanes.
THEOREM Exclusion == Spec => []UnpreemptedLanesAreExclusive
  <1>1. Init => TypeInv /\ ExclusionInv
    BY TypeInvInit, ExclusionInit
  <1>2. TypeInv /\ ExclusionInv /\ [Next]_vars => (TypeInv /\ ExclusionInv)'
    BY TypeInvNext, ExclusionNext
  <1>3. ExclusionInv => UnpreemptedLanesAreExclusive
    BY DEF ExclusionInv, LaneInv, Holds, Busy, UnpreemptedLanesAreExclusive, Overlap,
           Executing
  <1> QED
    BY <1>1, <1>2, <1>3, PTL DEF Spec

-----------------------------------------------------------------------------
(* The assertion of insert_serial_order. *)

\* Every step keeps the queue of a free lane empty.
LEMMA IdleLaneIsEmptyNext ==
  ASSUME TypeInv, IdleLaneIsEmpty, [Next]_vars
  PROVE  IdleLaneIsEmpty'
  <1> USE DEF TypeInv, TypeOK, Given, IdleLaneIsEmpty, Queue
  <1>1. CASE Silent
    BY <1>1 DEF Silent, requestVars
  <1>2. CASE Disposes
    BY <1>2 DEF Disposes, DisposeInputs, Assign
  <1>3. CASE DespawnService
    BY <1>3 DEF DespawnService
  <1>4. ASSUME NEW r \in Requests, NEW n \in Nodes, NEW s \in Sessions,
               GiveInput(r, n, s)
        PROVE  IdleLaneIsEmpty'
    BY <1>4 DEF GiveInput
  <1>5. ASSUME NEW r \in Requests, CancelLands(r) PROVE IdleLaneIsEmpty'
    BY <1>5 DEF CancelLands, requestVars
  <1>6. ASSUME NEW r \in Requests, Finishes(r) PROVE IdleLaneIsEmpty'
    BY <1>6 DEF Finishes, FinishTask
  <1>7. ASSUME NEW r \in Requests, RunCancelled(r) PROVE IdleLaneIsEmpty'
    BY <1>7 DEF RunCancelled
  <1>8. ASSUME NEW l \in Lanes, ServeNextUnavailable(l) \/ ServeNextIdle(l)
        PROVE  IdleLaneIsEmpty'
    BY <1>8 DEF ServeNextUnavailable, ServeNextIdle, requestVars
  <1>9. ASSUME NEW l \in Lanes, NEW r \in Requests, ServeNextOrder(l, r)
        PROVE  IdleLaneIsEmpty'
    BY <1>9, DeliveryAssumption DEF ServeNextOrder
  <1>10. ASSUME NEW n \in Nodes, NEW r \in Requests, ServeImmediately(n, r)
         PROVE  IdleLaneIsEmpty'
    BY <1>10, DeliveryAssumption DEF ServeImmediately
  <1>11. ASSUME NEW n \in Nodes, NEW r \in Requests, ServeQueued(n, r)
         PROVE  IdleLaneIsEmpty'
    <2>1. UNCHANGED <<node, delivering>> /\ delivering[LaneOf(n)] # None
      BY <1>11 DEF ServeQueued, LaneIsFree
    <2>2. ASSUME NEW q \in Requests, phase'[q] = "queued"
          PROVE  phase[q] = "queued" \/ node[q] = n
      BY <1>11, <2>2, ServeQueuedEffect
    <2> QED
      BY <2>1, <2>2
  <1>12. ASSUME NEW c \in Cleanups, BeginCleanup(c) PROVE IdleLaneIsEmpty'
    <2>1. UNCHANGED <<node, delivering>>
      BY <1>12 DEF BeginCleanup
    <2>2. \A q \in Requests : phase'[q] = "queued" => phase[q] = "queued"
      BY <1>12, BeginCleanupEffect
    <2> QED
      BY <2>1, <2>2
  <1> QED
    BY StepIsServiceStep, <1>1, <1>2, <1>3, <1>4, <1>5, <1>6, <1>7, <1>8, <1>9,
       <1>10, <1>11, <1>12 DEF ServiceStep

\* When no order of a lane is being delivered, none waits in its queue: the
\* INVARIANT comment and assertion of insert_serial_order.
THEOREM IdleLane == Spec => []IdleLaneIsEmpty
  <1>1. Init => IdleLaneIsEmpty
    BY DEF Init, IdleLaneIsEmpty, Queue
  <1> QED
    BY <1>1, TypeInvInit, TypeInvNext, IdleLaneIsEmptyNext, PTL DEF Spec

-----------------------------------------------------------------------------
(***************************************************************************)
(* Outcomes.  A request has none until it is answered or disposed.  A task *)
(* that is being cleaned was disposed with the cleanup; a task that was    *)
(* stopped is disposed when its cancellation runs.                         *)
(***************************************************************************)
OutcomeInv ==
    \A r \in Requests :
        /\ phase[r] \in {"new", "input", "queued", "running"} =>
              outcome[r] = "none" /\ cancel[r] = "none"
        /\ phase[r] = "cleaning" => outcome[r] = "cleaned"
        /\ cancel[r] # "none" /\ cancelFor[r] = None => outcome[r] = "none"

\* Every step keeps it.
LEMMA OutcomeInvNext ==
  ASSUME TypeInv, OutcomeInv, [Next]_vars
  PROVE  OutcomeInv'
  <1> USE DEF TypeInv, TypeOK, Given, OutcomeInv
  <1>1. CASE Silent
    BY <1>1 DEF Silent, requestVars
  <1>2. CASE Disposes
    BY <1>2 DEF Disposes, DisposeInputs, Assign
  <1>3. CASE DespawnService
    BY <1>3 DEF DespawnService, rosterVars, taskVars
  <1>4. ASSUME NEW r \in Requests, NEW n \in Nodes, NEW s \in Sessions,
               GiveInput(r, n, s)
        PROVE  OutcomeInv'
    BY <1>4 DEF GiveInput, taskVars
  <1>5. ASSUME NEW r \in Requests, CancelLands(r) PROVE OutcomeInv'
    BY <1>5 DEF CancelLands, rosterVars, requestVars
  <1>6. ASSUME NEW r \in Requests, Finishes(r) PROVE OutcomeInv'
    BY <1>6 DEF Finishes, FinishTask, HasFuture
  <1>7. ASSUME NEW r \in Requests, RunCancelled(r) PROVE OutcomeInv'
    BY <1>7 DEF RunCancelled
  <1>8. ASSUME NEW l \in Lanes, ServeNextUnavailable(l) \/ ServeNextIdle(l)
        PROVE  OutcomeInv'
    BY <1>8 DEF ServeNextUnavailable, ServeNextIdle, requestVars, taskVars
  <1>9. ASSUME NEW l \in Lanes, NEW r \in Requests, ServeNextOrder(l, r)
        PROVE  OutcomeInv'
    BY <1>9 DEF ServeNextOrder, IsFront, Queue, taskVars
  <1>10. ASSUME NEW n \in Nodes, NEW r \in Requests, ServeImmediately(n, r)
         PROVE  OutcomeInv'
    BY <1>10 DEF ServeImmediately, IsFront, Inputs, taskVars
  <1>11. ASSUME NEW n \in Nodes, NEW r \in Requests, ServeQueued(n, r)
         PROVE  OutcomeInv'
    <2>1. ASSUME NEW q \in Requests
          PROVE  /\ q \in Supplanted(n) => phase[q] = "queued"
                 /\ phase'[q] = IF q \in Stopped(n) /\ phase[q] \in {"running", "cleaning"}
                                THEN "stopping"
                                ELSE IF q \in Supplanted(n) THEN "done"
                                ELSE IF q = r THEN "queued" ELSE phase[q]
                 /\ outcome'[q] = IF q \in Supplanted(n) THEN "supplanted" ELSE outcome[q]
                 /\ cancel'[q] = IF q \in Stopped(n) /\ phase[q] = "running"
                                 THEN "inflight" ELSE cancel[q]
      BY <1>11, ServeQueuedEffect
    <2>2. phase[r] = "input" /\ cancelFor' = cancelFor
      BY <1>11, ServeQueuedEffect DEF ServeQueued
    <2>3. ASSUME NEW q \in Requests
          PROVE  /\ phase'[q] \in {"new", "input", "queued", "running"} =>
                       outcome'[q] = "none" /\ cancel'[q] = "none"
                 /\ phase'[q] = "cleaning" => outcome'[q] = "cleaned"
                 /\ cancel'[q] # "none" /\ cancelFor'[q] = None => outcome'[q] = "none"
      <3>1. CASE q \in Supplanted(n)
        BY <2>1, <2>2, <3>1
      <3>2. CASE q \notin Supplanted(n)
        BY <2>1, <2>2, <3>2
      <3> QED
        BY <3>1, <3>2
    <2> QED
      BY <2>3
  <1>12. ASSUME NEW c \in Cleanups, BeginCleanup(c) PROVE OutcomeInv'
    <2>1. c # None
      BY CleanupAssumption
    <2>2. ASSUME NEW q \in Requests
          PROVE  /\ phase'[q] \in {"new", "input", "queued", "running"} =>
                       outcome'[q] = "none" /\ cancel'[q] = "none"
                 /\ phase'[q] = "cleaning" => outcome'[q] = "cleaned"
                 /\ cancel'[q] # "none" /\ cancelFor'[q] = None => outcome'[q] = "none"
      <3>1. \/ /\ phase[q] = "running" /\ phase'[q] = "cleaning"
               /\ cancelFor'[q] = c /\ outcome'[q] = "cleaned"
            \/ /\ phase[q] \in {"input", "cleaning", "queued"} /\ phase'[q] = "done"
               /\ outcome'[q] = "cleaned" \/ outcome'[q] = outcome[q]
               /\ cancel'[q] = cancel[q] /\ cancelFor'[q] = cancelFor[q]
            \/ /\ phase'[q] = phase[q] /\ outcome'[q] = outcome[q]
               /\ cancel'[q] = cancel[q] /\ cancelFor'[q] = cancelFor[q]
        BY <1>12, BeginCleanupEffect
      <3>2. /\ phase[q] \in {"new", "input", "queued", "running"}
                 => outcome[q] = "none" /\ cancel[q] = "none"
            /\ phase[q] = "cleaning" => outcome[q] = "cleaned"
            /\ cancel[q] # "none" /\ cancelFor[q] = None => outcome[q] = "none"
        OBVIOUS
      <3> QED
        BY <2>1, <3>1, <3>2
    <2> QED
      BY <2>2
  <1> QED
    BY StepIsServiceStep, <1>1, <1>2, <1>3, <1>4, <1>5, <1>6, <1>7, <1>8, <1>9,
       <1>10, <1>11, <1>12 DEF ServiceStep

\* No step revises an outcome.
LEMMA OutcomeIsFinalNext ==
  ASSUME TypeInv, OutcomeInv, [Next]_vars, NEW q \in Requests, outcome[q] # "none"
  PROVE  outcome'[q] = outcome[q]
  <1> USE DEF TypeInv, TypeOK, OutcomeInv
  <1>1. CASE Silent
    BY <1>1 DEF Silent, requestVars
  <1>2. CASE Disposes
    BY <1>2 DEF Disposes, DisposeInputs, Assign
  <1>3. CASE DespawnService
    BY <1>3 DEF DespawnService, rosterVars, taskVars
  <1>4. ASSUME NEW r \in Requests, NEW n \in Nodes, NEW s \in Sessions,
               GiveInput(r, n, s)
        PROVE  outcome'[q] = outcome[q]
    BY <1>4 DEF GiveInput, taskVars
  <1>5. ASSUME NEW r \in Requests, CancelLands(r) PROVE outcome'[q] = outcome[q]
    BY <1>5 DEF CancelLands, rosterVars, requestVars
  <1>6. ASSUME NEW r \in Requests, Finishes(r) PROVE outcome'[q] = outcome[q]
    BY <1>6 DEF Finishes, FinishTask, HasFuture
  <1>7. ASSUME NEW r \in Requests, RunCancelled(r)
        PROVE  outcome'[q] = outcome[q]
    BY <1>7 DEF RunCancelled
  <1>8. ASSUME NEW l \in Lanes, ServeNextUnavailable(l) \/ ServeNextIdle(l)
        PROVE  outcome'[q] = outcome[q]
    BY <1>8 DEF ServeNextUnavailable, ServeNextIdle, requestVars, taskVars
  <1>9. ASSUME NEW l \in Lanes, NEW r \in Requests, ServeNextOrder(l, r)
        PROVE  outcome'[q] = outcome[q]
    BY <1>9 DEF ServeNextOrder, IsFront, Queue, taskVars
  <1>10. ASSUME NEW n \in Nodes, NEW r \in Requests, ServeImmediately(n, r)
         PROVE  outcome'[q] = outcome[q]
    BY <1>10 DEF ServeImmediately, IsFront, Inputs, taskVars
  <1>11. ASSUME NEW n \in Nodes, NEW r \in Requests, ServeQueued(n, r)
         PROVE  outcome'[q] = outcome[q]
    BY <1>11, ServeQueuedEffect DEF ServeQueued
  <1>12. ASSUME NEW c \in Cleanups, BeginCleanup(c)
         PROVE  outcome'[q] = outcome[q]
    BY <1>12, BeginCleanupEffect DEF BeginCleanup, rosterVars
  <1> QED
    BY StepIsServiceStep, <1>1, <1>2, <1>3, <1>4, <1>5, <1>6, <1>7, <1>8, <1>9,
       <1>10, <1>11, <1>12 DEF ServiceStep

\* A request that was answered is not disposed afterwards, and one that was
\* disposed is neither answered nor disposed again: through preemption of a task
\* that has just finished, cleanups of cancelled tasks and a despawned service.
THEOREM OutcomesAreFinal == Spec => OutcomeIsFinal
  <1> DEFINE A == \A r \in Requests : outcome[r] # "none" => outcome'[r] = outcome[r]
  <1>1. Init => OutcomeInv
    BY DEF Init, OutcomeInv
  <1>2. TypeInv /\ OutcomeInv /\ [Next]_vars => A
    BY OutcomeIsFinalNext
  <1>3. TypeInv /\ OutcomeInv /\ [Next]_vars => [A]_vars
    BY <1>2
  <1> QED
    BY <1>1, <1>3, TypeInvInit, TypeInvNext, OutcomeInvNext, PTL
       DEF Spec, OutcomeIsFinal

-----------------------------------------------------------------------------
(***************************************************************************)
(* Order.  Stamps never exceed the clock and no two requests share one;    *)
(* once a request was given to the service its stamp is settled.           *)
(***************************************************************************)
StampInv ==
    \A q, r \in Requests :
        /\ stamp[r] <= clock
        /\ phase[q] # "new" /\ phase[r] # "new" /\ q # r => stamp[q] # stamp[r]

Settled(r) == phase[r] \notin {"new", "input"}

\* The orders in the queues have a lane.
QueuedHasLane ==
    \A r \in Requests : phase[r] = "queued" => LaneOf(node[r]) \in Lanes

\* Every step keeps the stamps apart.
LEMMA StampInvNext ==
  ASSUME TypeInv, StampInv, [Next]_vars
  PROVE  StampInv'
  <1> USE DEF TypeInv, TypeOK, Given, StampInv
  <1>1. CASE Silent
    BY <1>1 DEF Silent, requestVars
  <1>2. CASE Disposes
    BY <1>2 DEF Disposes, DisposeInputs, Assign
  <1>3. CASE DespawnService
    BY <1>3 DEF DespawnService, rosterVars, taskVars
  <1>4. ASSUME NEW r \in Requests, NEW n \in Nodes, NEW s \in Sessions,
               GiveInput(r, n, s)
        PROVE  StampInv'
    BY <1>4 DEF GiveInput, taskVars
  <1>5. ASSUME NEW r \in Requests, CancelLands(r) PROVE StampInv'
    BY <1>5 DEF CancelLands, rosterVars, requestVars
  <1>6. ASSUME NEW r \in Requests, Finishes(r) PROVE StampInv'
    BY <1>6 DEF Finishes, FinishTask, HasFuture
  <1>7. ASSUME NEW r \in Requests, RunCancelled(r) PROVE StampInv'
    BY <1>7 DEF RunCancelled
  <1>8. ASSUME NEW l \in Lanes, ServeNextUnavailable(l) \/ ServeNextIdle(l)
        PROVE  StampInv'
    BY <1>8 DEF ServeNextUnavailable, ServeNextIdle, requestVars, taskVars
  <1>9. ASSUME NEW l \in Lanes, NEW r \in Requests, ServeNextOrder(l, r)
        PROVE  StampInv'
    BY <1>9 DEF ServeNextOrder, IsFront, Queue, taskVars
  <1>10. ASSUME NEW n \in Nodes, NEW r \in Requests, ServeImmediately(n, r)
         PROVE  StampInv'
    BY <1>10 DEF ServeImmediately, IsFront, Inputs, taskVars
  <1>11. ASSUME NEW n \in Nodes, NEW r \in Requests, ServeQueued(n, r)
         PROVE  StampInv'
    <2>1. \A q \in Requests : phase'[q] = "new" <=> phase[q] = "new"
      <3>1. \A q \in Requests : q = r \/ q \in Supplanted(n) => phase[q] # "new"
        BY <1>11, ServeQueuedEffect
      <3>2. \A q \in Requests :
              phase'[q] = IF q \in Stopped(n) /\ phase[q] \in {"running", "cleaning"}
                          THEN "stopping"
                          ELSE IF q \in Supplanted(n) THEN "done"
                          ELSE IF q = r THEN "queued" ELSE phase[q]
        BY <1>11, ServeQueuedEffect
      <3> QED
        BY <3>1, <3>2
    <2>2. stamp' = [stamp EXCEPT ![r] = clock + 1] /\ clock' = clock + 1
      BY <1>11 DEF ServeQueued
    <2> QED
      BY <2>1, <2>2
  <1>12. ASSUME NEW c \in Cleanups, BeginCleanup(c) PROVE StampInv'
    <2>1. \A q \in Requests : phase'[q] = "new" <=> phase[q] = "new"
      BY <1>12, BeginCleanupEffect
    <2>2. stamp' = stamp /\ clock' = clock
      BY <1>12 DEF BeginCleanup
    <2> QED
      BY <2>1, <2>2
  <1> QED
    BY StepIsServiceStep, <1>1, <1>2, <1>3, <1>4, <1>5, <1>6, <1>7, <1>8, <1>9,
       <1>10, <1>11, <1>12 DEF ServiceStep

\* A settled request stays so, with its node, session and stamp.
LEMMA SettledNext ==
  ASSUME TypeInv, [Next]_vars, NEW q \in Requests, Settled(q)
  PROVE  Settled(q)' /\ node'[q] = node[q] /\ stamp'[q] = stamp[q]
  <1> DEFINE Goal == Settled(q)' /\ node'[q] = node[q] /\ stamp'[q] = stamp[q]
  <1> SUFFICES Goal
    OBVIOUS
  <1> USE DEF TypeInv, TypeOK, Settled
  <1>1. CASE Silent
    BY <1>1 DEF Silent, requestVars
  <1>2. CASE Disposes
    BY <1>2 DEF Disposes, DisposeInputs, Assign
  <1>3. CASE DespawnService
    BY <1>3 DEF DespawnService, rosterVars, taskVars
  <1>4. ASSUME NEW r \in Requests, NEW n \in Nodes, NEW s \in Sessions,
               GiveInput(r, n, s)
        PROVE  Goal
    BY <1>4 DEF GiveInput, taskVars
  <1>5. ASSUME NEW r \in Requests, CancelLands(r) PROVE Goal
    BY <1>5 DEF CancelLands, rosterVars, requestVars
  <1>6. ASSUME NEW r \in Requests, Finishes(r) PROVE Goal
    BY <1>6 DEF Finishes, FinishTask, HasFuture
  <1>7. ASSUME NEW r \in Requests, RunCancelled(r) PROVE Goal
    BY <1>7 DEF RunCancelled
  <1>8. ASSUME NEW l \in Lanes, ServeNextUnavailable(l) \/ ServeNextIdle(l)
        PROVE  Goal
    BY <1>8 DEF ServeNextUnavailable, ServeNextIdle, requestVars, taskVars
  <1>9. ASSUME NEW l \in Lanes, NEW r \in Requests, ServeNextOrder(l, r)
        PROVE  Goal
    BY <1>9 DEF ServeNextOrder, IsFront, Queue, taskVars
  <1>10. ASSUME NEW n \in Nodes, NEW r \in Requests, ServeImmediately(n, r)
         PROVE  Goal
    BY <1>10 DEF ServeImmediately, IsFront, Inputs, taskVars
  <1>11. ASSUME NEW n \in Nodes, NEW r \in Requests, ServeQueued(n, r)
         PROVE  Goal
    <2>1. /\ phase[r] = "input" /\ phase[q] # "input"
          /\ UNCHANGED node /\ stamp' = [stamp EXCEPT ![r] = clock + 1]
      BY <1>11 DEF ServeQueued, IsFront, Inputs
    <2>2. phase'[q] \in {"stopping", "done", phase[q]}
      BY <1>11, <2>1, ServeQueuedEffect
    <2> QED
      BY <2>1, <2>2
  <1>12. ASSUME NEW c \in Cleanups, BeginCleanup(c) PROVE Goal
    <2>1. UNCHANGED <<node, stamp>>
      BY <1>12 DEF BeginCleanup
    <2>2. phase'[q] \in {"cleaning", "done", phase[q]}
      BY <1>12, BeginCleanupEffect
    <2> QED
      BY <2>1, <2>2
  <1> QED
    BY StepIsServiceStep, <1>1, <1>2, <1>3, <1>4, <1>5, <1>6, <1>7, <1>8, <1>9,
       <1>10, <1>11, <1>12 DEF ServiceStep

\* A task is launched by a blocker or by its own node, and by nothing else.
LEMMA LaunchedBy ==
  ASSUME TypeInv, [Next]_vars, NEW q \in Requests,
         phase[q] # "running", phase'[q] = "running"
  PROVE  \/ \E l \in Lanes : ServeNextOrder(l, q)
         \/ \E n \in Nodes : ServeImmediately(n, q)
  <1> DEFINE Goal == \/ \E l \in Lanes : ServeNextOrder(l, q)
                     \/ \E n \in Nodes : ServeImmediately(n, q)
  <1> SUFFICES Goal
    OBVIOUS
  <1> USE DEF TypeInv, TypeOK
  <1>1. CASE Silent
    BY <1>1 DEF Silent, requestVars
  <1>2. CASE Disposes
    BY <1>2 DEF Disposes, DisposeInputs, Assign
  <1>3. CASE DespawnService
    BY <1>3 DEF DespawnService, rosterVars, taskVars
  <1>4. ASSUME NEW r \in Requests, NEW n \in Nodes, NEW s \in Sessions,
               GiveInput(r, n, s)
        PROVE  Goal
    BY <1>4 DEF GiveInput, taskVars
  <1>5. ASSUME NEW r \in Requests, CancelLands(r) PROVE Goal
    BY <1>5 DEF CancelLands, rosterVars, requestVars
  <1>6. ASSUME NEW r \in Requests, Finishes(r) PROVE Goal
    BY <1>6 DEF Finishes, FinishTask, HasFuture
  <1>7. ASSUME NEW r \in Requests, RunCancelled(r) PROVE Goal
    BY <1>7 DEF RunCancelled
  <1>8. ASSUME NEW l \in Lanes, ServeNextUnavailable(l) \/ ServeNextIdle(l)
        PROVE  Goal
    BY <1>8 DEF ServeNextUnavailable, ServeNextIdle, requestVars, taskVars
  <1>9. ASSUME NEW l \in Lanes, NEW r \in Requests, ServeNextOrder(l, r)
        PROVE  Goal
    BY <1>9 DEF ServeNextOrder, IsFront, Queue, taskVars
  <1>10. ASSUME NEW n \in Nodes, NEW r \in Requests, ServeImmediately(n, r)
         PROVE  Goal
    BY <1>10 DEF ServeImmediately, IsFront, Inputs, taskVars
  <1>11. ASSUME NEW n \in Nodes, NEW r \in Requests, ServeQueued(n, r)
         PROVE  Goal
    <2>1. phase'[q] \in {"queued", "stopping", "done", phase[q]}
      BY <1>11, ServeQueuedEffect
    <2> QED
      BY <2>1
  <1>12. ASSUME NEW c \in Cleanups, BeginCleanup(c) PROVE Goal
    BY <1>12, BeginCleanupEffect DEF BeginCleanup, rosterVars
  <1> QED
    BY StepIsServiceStep, <1>1, <1>2, <1>3, <1>4, <1>5, <1>6, <1>7, <1>8, <1>9,
       <1>10, <1>11, <1>12 DEF ServiceStep

\* Every step keeps the orders in the queues on lanes.
LEMMA QueuedHasLaneNext ==
  ASSUME TypeInv, QueuedHasLane, [Next]_vars
  PROVE  QueuedHasLane'
  <1> USE DEF TypeInv, TypeOK, Given, QueuedHasLane
  <1>1. CASE Silent
    BY <1>1 DEF Silent, requestVars
  <1>2. CASE Disposes
    BY <1>2 DEF Disposes, DisposeInputs, Assign
  <1>3. CASE DespawnService
    BY <1>3 DEF DespawnService, rosterVars, taskVars
  <1>4. ASSUME NEW r \in Requests, NEW n \in Nodes, NEW s \in Sessions,
               GiveInput(r, n, s)
        PROVE  QueuedHasLane'
    BY <1>4 DEF GiveInput, taskVars
  <1>5. ASSUME NEW r \in Requests, CancelLands(r) PROVE QueuedHasLane'
    BY <1>5 DEF CancelLands, rosterVars, requestVars
  <1>6. ASSUME NEW r \in Requests, Finishes(r) PROVE QueuedHasLane'
    BY <1>6 DEF Finishes, FinishTask, HasFuture
  <1>7. ASSUME NEW r \in Requests, RunCancelled(r) PROVE QueuedHasLane'
    BY <1>7 DEF RunCancelled
  <1>8. ASSUME NEW l \in Lanes, ServeNextUnavailable(l) \/ ServeNextIdle(l)
        PROVE  QueuedHasLane'
    BY <1>8 DEF ServeNextUnavailable, ServeNextIdle, requestVars, taskVars
  <1>9. ASSUME NEW l \in Lanes, NEW r \in Requests, ServeNextOrder(l, r)
        PROVE  QueuedHasLane'
    BY <1>9 DEF ServeNextOrder, IsFront, Queue, taskVars
  <1>10. ASSUME NEW n \in Nodes, NEW r \in Requests, ServeImmediately(n, r)
         PROVE  QueuedHasLane'
    BY <1>10 DEF ServeImmediately, IsFront, Inputs, taskVars
  <1>11. ASSUME NEW n \in Nodes, NEW r \in Requests, ServeQueued(n, r)
         PROVE  QueuedHasLane'
    <2>1. LaneOf(n) \in Lanes
      BY <1>11, LaneOfType DEF ServeQueued, LaneIsFree
    <2>2. UNCHANGED node
      BY <1>11 DEF ServeQueued
    <2>3. ASSUME NEW q \in Requests, phase'[q] = "queued"
          PROVE  phase[q] = "queued" \/ node[q] = n
      BY <1>11, <2>3, ServeQueuedEffect
    <2> QED
      BY <2>1, <2>2, <2>3
  <1>12. ASSUME NEW c \in Cleanups, BeginCleanup(c) PROVE QueuedHasLane'
    <2>1. UNCHANGED node
      BY <1>12 DEF BeginCleanup
    <2>2. \A q \in Requests : phase'[q] = "queued" => phase[q] = "queued"
      BY <1>12, BeginCleanupEffect
    <2> QED
      BY <2>1, <2>2
  <1> QED
    BY StepIsServiceStep, <1>1, <1>2, <1>3, <1>4, <1>5, <1>6, <1>7, <1>8, <1>9,
       <1>10, <1>11, <1>12 DEF ServiceStep

\* A launch leaves no earlier order of its lane in the queue.
LEMMA FirstComeFirstServedNext ==
  ASSUME TypeInv, IdleLaneIsEmpty, StampInv, QueuedHasLane, [Next]_vars,
         NEW q \in Requests, NEW r \in Requests,
         phase[r] \in {"input", "queued"}, phase'[r] = "running",
         phase'[q] = "queued", LaneOf(node'[q]) = LaneOf(node'[r])
  PROVE  stamp'[r] < stamp'[q]
  <1> USE DEF TypeInv, TypeOK
  <1>1. ASSUME NEW l \in Lanes, ServeNextOrder(l, r) PROVE stamp'[r] < stamp'[q]
    <2>1. q # r /\ UNCHANGED <<node, stamp>> /\ phase[q] = "queued"
      BY <1>1 DEF ServeNextOrder
    <2>2. LaneOf(node[r]) = l /\ \A o \in Queue(l) : stamp[r] <= stamp[o]
      BY <1>1 DEF ServeNextOrder, IsFront, Queue
    <2>3. stamp[r] <= stamp[q]
      BY <2>1, <2>2 DEF Queue
    <2>4. stamp[r] # stamp[q]
      BY <2>1 DEF StampInv
    <2> QED
      BY <2>1, <2>3, <2>4
  <1>2. ASSUME NEW n \in Nodes, ServeImmediately(n, r)
        PROVE  stamp'[r] < stamp'[q]
    <2>1. q # r /\ UNCHANGED node /\ phase[q] = "queued" /\ node[r] = n
      BY <1>2 DEF ServeImmediately, IsFront, Inputs
    <2>2. LaneOf(n) \in Lanes /\ q \in Queue(LaneOf(n))
      BY <2>1 DEF QueuedHasLane, Queue
    <2>3. delivering[LaneOf(n)] = None
      BY <1>2, <2>2, NoneIsNoLane DEF ServeImmediately, LaneIsFree
    <2> QED
      BY <2>2, <2>3 DEF IdleLaneIsEmpty
  <1> QED
    BY <1>1, <1>2, LaunchedBy

\* The orders of a lane are launched in the order in which they were given to
\* the service, through preemption, cleanups and a despawned service.
THEOREM OrdersAreFirstComeFirstServed == Spec => FirstComeFirstServed
  <1> DEFINE Inv == TypeInv /\ IdleLaneIsEmpty /\ StampInv /\ QueuedHasLane
             A == \A q, r \in Requests :
                     /\ phase[r] \in {"input", "queued"} /\ phase'[r] = "running"
                     /\ phase'[q] = "queued"
                     /\ LaneOf(node'[q]) = LaneOf(node'[r])
                     => stamp'[r] < stamp'[q]
  <1>1. Init => Inv
    BY TypeInvInit DEF Init, IdleLaneIsEmpty, Queue, StampInv, QueuedHasLane
  <1>2. Inv /\ [Next]_vars => Inv'
    BY TypeInvNext, IdleLaneIsEmptyNext, StampInvNext, QueuedHasLaneNext
  <1>3. Inv /\ [Next]_vars => [A]_vars
    BY FirstComeFirstServedNext
  <1> QED
    BY <1>1, <1>2, <1>3, PTL DEF Spec, FirstComeFirstServed

-----------------------------------------------------------------------------
(***************************************************************************)
(* Preemption.  Whatever was or will be supplanted was displaced: a later  *)
(* order of a preempting node with the same label was given to the service.*)
(***************************************************************************)
Displaced(r) ==
    /\ ~Instructions[node[r]].ensure
    /\ \E q \in Requests :
          /\ phase[q] \notin {"new", "input"}
          /\ Preempts(node[q])
          /\ Instructions[node[q]].label = Instructions[node[r]].label
          /\ stamp[q] > stamp[r]

Preempted(r) ==
    outcome[r] = "supplanted" \/ (cancel[r] # "none" /\ cancelFor[r] = None)

PreemptionInv == \A r \in Requests : Preempted(r) => Settled(r) /\ Displaced(r)

\* A request that was displaced stays so.
LEMMA DisplacedNext ==
  ASSUME TypeInv, [Next]_vars, NEW r \in Requests, Settled(r), Displaced(r)
  PROVE  Settled(r)' /\ Displaced(r)'
  <1>1. Settled(r)' /\ node'[r] = node[r] /\ stamp'[r] = stamp[r]
    BY SettledNext
  <1>2. PICK q \in Requests :
          /\ Settled(q)
          /\ Preempts(node[q])
          /\ Instructions[node[q]].label = Instructions[node[r]].label
          /\ stamp[q] > stamp[r]
    BY DEF Displaced, Settled
  <1>3. Settled(q)' /\ node'[q] = node[q] /\ stamp'[q] = stamp[q]
    BY <1>2, SettledNext
  <1> QED
    BY <1>1, <1>2, <1>3 DEF Displaced, Settled

\* A step displaces only what an order of a preempting node displaces.
LEMMA PreemptedBy ==
  ASSUME TypeInv, OutcomeInv, PreemptionInv, [Next]_vars,
         NEW q \in Requests, ~Preempted(q), Preempted(q)'
  PROVE  \E n \in Nodes, r \in Requests :
            ServeQueued(n, r) /\ (q \in Supplanted(n) \/ q \in Stopped(n))
  <1> DEFINE Goal == \E n \in Nodes, r \in Requests :
                        ServeQueued(n, r) /\ (q \in Supplanted(n) \/ q \in Stopped(n))
  <1> SUFFICES Goal
    OBVIOUS
  <1> USE DEF TypeInv, TypeOK, Preempted
  <1>1. CASE Silent
    BY <1>1 DEF Silent, requestVars
  <1>2. CASE Disposes
    BY <1>2 DEF Disposes, DisposeInputs, Assign
  <1>3. CASE DespawnService
    BY <1>3 DEF DespawnService, rosterVars, taskVars
  <1>4. ASSUME NEW r \in Requests, NEW n \in Nodes, NEW s \in Sessions,
               GiveInput(r, n, s)
        PROVE  Goal
    BY <1>4 DEF GiveInput, taskVars
  <1>5. ASSUME NEW r \in Requests, CancelLands(r) PROVE Goal
    BY <1>5 DEF CancelLands, rosterVars, requestVars
  <1>6. ASSUME NEW r \in Requests, Finishes(r) PROVE Goal
    BY <1>6 DEF Finishes, FinishTask, HasFuture
  <1>7. ASSUME NEW r \in Requests, RunCancelled(r) PROVE Goal
    BY <1>7 DEF RunCancelled
  <1>8. ASSUME NEW l \in Lanes, ServeNextUnavailable(l) \/ ServeNextIdle(l)
        PROVE  Goal
    BY <1>8 DEF ServeNextUnavailable, ServeNextIdle, requestVars, taskVars
  <1>9. ASSUME NEW l \in Lanes, NEW r \in Requests, ServeNextOrder(l, r)
        PROVE  Goal
    BY <1>9 DEF ServeNextOrder, IsFront, Queue, taskVars
  <1>10. ASSUME NEW n \in Nodes, NEW r \in Requests, ServeImmediately(n, r)
         PROVE  Goal
    BY <1>10 DEF ServeImmediately, IsFront, Inputs, taskVars
  <1>11. ASSUME NEW n \in Nodes, NEW r \in Requests, ServeQueued(n, r)
         PROVE  Goal
    <2>1. /\ q \in Supplanted(n) \/ outcome'[q] = outcome[q]
          /\ q \in Stopped(n) \/ cancel'[q] = cancel[q]
      BY <1>11, ServeQueuedEffect
    <2>2. cancelFor' = cancelFor
      BY <1>11 DEF ServeQueued
    <2> QED
      BY <1>11, <2>1, <2>2
  <1>12. ASSUME NEW c \in Cleanups, BeginCleanup(c) PROVE Goal
    <2>1. outcome'[q] \in {"cleaned", outcome[q]}
      BY <1>12, BeginCleanupEffect
    <2>2. \/ cancelFor'[q] = c
          \/ cancel'[q] = cancel[q] /\ cancelFor'[q] = cancelFor[q]
      BY <1>12, BeginCleanupEffect
    <2>3. c # None
      BY CleanupAssumption
    <2> QED
      BY <2>1, <2>2, <2>3
  <1> QED
    BY StepIsServiceStep, <1>1, <1>2, <1>3, <1>4, <1>5, <1>6, <1>7, <1>8, <1>9,
       <1>10, <1>11, <1>12 DEF ServiceStep

\* Every step keeps the invariant: what a step displaces has the label of the
\* order it queues, and was given to the service before.
LEMMA PreemptionInvNext ==
  ASSUME TypeInv, OutcomeInv, DeliveredOnLane, StampInv, PreemptionInv, [Next]_vars
  PROVE  PreemptionInv'
  <1> SUFFICES ASSUME NEW q \in Requests, Preempted(q)'
               PROVE  Settled(q)' /\ Displaced(q)'
    BY DEF PreemptionInv
  <1>1. CASE Preempted(q)
    BY <1>1, DisplacedNext DEF PreemptionInv
  <1>2. CASE ~Preempted(q)
    <2>1. PICK n \in Nodes, r \in Requests :
            ServeQueued(n, r) /\ (q \in Supplanted(n) \/ q \in Stopped(n))
      BY <1>2, PreemptedBy
    <2>2. ShouldDiscard(n, node[q]) /\ Preempts(n)
      BY <2>1 DEF Supplanted, Cancelled, Stopped, StopsDelivery
    <2>3. phase[r] = "input" /\ node[r] = n
      BY <2>1, ServeQueuedEffect DEF TypeInv
    <2>4. Settled(q)
      <3>1. CASE q \in Supplanted(n)
        BY <3>1 DEF Supplanted, Cancelled, Queue, Settled
      <3>2. CASE q \in Stopped(n)
        <4>1. LaneOf(n) \in Lanes
          BY <2>1, LaneOfType DEF ServeQueued, LaneIsFree
        <4> QED
          BY <3>2, <4>1 DEF Stopped, StopsDelivery, DeliveredOnLane, Settled
      <3> QED
        BY <2>1, <3>1, <3>2
    <2>5. Settled(q)' /\ node'[q] = node[q] /\ stamp'[q] = stamp[q]
      BY <2>4, SettledNext
    <2>6. phase'[r] = "queued" /\ node'[r] = n /\ stamp'[r] = clock + 1
      <3>1. r \notin Supplanted(n)
        BY <2>3 DEF Supplanted, Cancelled, Queue
      <3>2. phase'[r] = "queued"
        BY <2>1, <2>3, <3>1, ServeQueuedEffect DEF TypeInv
      <3> QED
        BY <2>1, <2>3, <3>2 DEF ServeQueued, TypeInv, TypeOK
    <2>7. stamp'[r] > stamp'[q]
      BY <2>5, <2>6 DEF StampInv, TypeInv, TypeOK
    <2> QED
      BY <2>2, <2>5, <2>6, <2>7 DEF Displaced, ShouldDiscard
  <1> QED
    BY <1>1, <1>2

\* A request is supplanted only by one that asked to preempt it, had its label
\* and came after it, and never if it was to be ensured: also when the task it
\* stops finishes, is cleaned or is stopped again before its cancellation runs.
THEOREM Preemption == Spec => []SupplantedOnlyByPreemption
  <1> DEFINE Inv == /\ TypeInv /\ OutcomeInv /\ DeliveredOnLane
                    /\ StampInv /\ PreemptionInv
  <1>1. Init => Inv
    BY TypeInvInit DEF Init, OutcomeInv, DeliveredOnLane, StampInv, PreemptionInv,
       Preempted
  <1>2. Inv /\ [Next]_vars => Inv'
    BY TypeInvNext, OutcomeInvNext, DeliveredOnLaneNext, StampInvNext,
       PreemptionInvNext
  <1>3. Inv => SupplantedOnlyByPreemption
    BY DEF PreemptionInv, Preempted, Displaced, SupplantedOnlyByPreemption
  <1> QED
    BY <1>1, <1>2, <1>3, PTL DEF Spec

-----------------------------------------------------------------------------
(* The ends of the requests: a lane is freed, every request has an         *)
(* outcome, and the cleanup of a node is notified once its tasks are       *)
(* dropped, and not before.                                                *)

(***************************************************************************)
(* Lanes are freed.  The order being delivered on a lane is busy, or else  *)
(* it has left its blocker in the roster; with the service the deliveries  *)
(* are despawned.                                                          *)
(***************************************************************************)
FreedInv ==
    /\ provider # "alive" => \A l \in Lanes : delivering[l] = None
    /\ \A l \in Lanes : delivering[l] # None => Busy(delivering[l]) \/ unblock[l] > 0

\* A blocker is added to its own lane only.
LEMMA UnblockedCounts ==
  ASSUME TypeOK, NEW k \in Lanes \cup {None}, unblock' = Unblocked(k)
  PROVE  /\ \A l \in Lanes : unblock[l] > 0 => unblock'[l] > 0
         /\ k \in Lanes => unblock'[k] > 0
  BY NoneIsNoLane DEF Unblocked, TypeOK

\* Every step keeps the lanes that are taken from being forgotten.
LEMMA FreedInvNext ==
  ASSUME TypeInv, DeliveredOnLane, FreedInv, [Next]_vars
  PROVE  FreedInv'
  <1> USE DEF TypeInv, TypeOK, Given, DeliveredOnLane, FreedInv, Busy
  <1>1. CASE Silent
    BY <1>1 DEF Silent, requestVars
  <1>2. CASE Disposes
    BY <1>2 DEF Disposes, DisposeInputs, Assign
  <1>3. CASE DespawnService
    BY <1>3 DEF DespawnService, rosterVars, taskVars
  <1>4. ASSUME NEW r \in Requests, NEW n \in Nodes, NEW s \in Sessions,
               GiveInput(r, n, s)
        PROVE  FreedInv'
    BY <1>4 DEF GiveInput, taskVars
  <1>5. ASSUME NEW r \in Requests, CancelLands(r) PROVE FreedInv'
    BY <1>5 DEF CancelLands, rosterVars, requestVars
  <1>6. ASSUME NEW r \in Requests, Finishes(r) PROVE FreedInv'
    <2>1. /\ LaneOf(node[r]) \in Lanes \cup {None}
          /\ unblock' = Unblocked(LaneOf(node[r]))
          /\ UNCHANGED <<delivering, provider>>
      BY <1>6, LaneOfType DEF Finishes, FinishTask, HasFuture
    <2>2. \A q \in Requests \ {r} : Busy(q)' <=> Busy(q)
      BY <1>6 DEF Finishes, FinishTask
    <2> QED
      BY <2>1, <2>2, UnblockedCounts
  <1>7. ASSUME NEW r \in Requests, RunCancelled(r) PROVE FreedInv'
    <2>1. /\ LaneOf(node[r]) \in Lanes \cup {None}
          /\ unblock' = Unblocked(LaneOf(node[r]))
          /\ UNCHANGED <<delivering, provider>>
      BY <1>7, LaneOfType DEF RunCancelled
    <2>2. \A q \in Requests \ {r} : Busy(q)' <=> Busy(q)
      BY <1>7 DEF RunCancelled
    <2> QED
      BY <2>1, <2>2, UnblockedCounts
  <1>8. ASSUME NEW l \in Lanes, ServeNextUnavailable(l) PROVE FreedInv'
    BY <1>8 DEF ServeNextUnavailable, requestVars, taskVars
  <1>9. ASSUME NEW l \in Lanes, ServeNextIdle(l) PROVE FreedInv'
    BY <1>9 DEF ServeNextIdle, requestVars, taskVars
  <1>10. ASSUME NEW l \in Lanes, NEW r \in Requests, ServeNextOrder(l, r)
         PROVE  FreedInv'
    BY <1>10 DEF ServeNextOrder, IsFront, Queue, taskVars
  <1>11. ASSUME NEW n \in Nodes, NEW r \in Requests, ServeImmediately(n, r)
         PROVE  FreedInv'
    BY <1>11, LaneOfType DEF ServeImmediately, LaneIsFree, IsFront, Inputs, taskVars
  <1>12. ASSUME NEW n \in Nodes, NEW r \in Requests, ServeQueued(n, r)
         PROVE  FreedInv'
    <2>1. LaneOf(n) \in Lanes
      BY <1>12, LaneOfType DEF ServeQueued, LaneIsFree
    <2>2. \A l \in Lanes : unblock[l] > 0 => unblock'[l] > 0
      BY <1>12, <2>1 DEF ServeQueued, Unblocked
    <2>3. UNCHANGED <<delivering, provider>>
      BY <1>12 DEF ServeQueued
    <2>4. ASSUME NEW q \in Requests, Busy(q), phase[q] \notin {"new", "input", "queued"}
          PROVE  Busy(q)'
      BY <1>12, <2>4, ServeQueuedEffect
    <2> QED
      BY <2>2, <2>3, <2>4
  <1>13. ASSUME NEW c \in Cleanups, BeginCleanup(c) PROVE FreedInv'
    <2>1. UNCHANGED <<delivering, unblock, provider>>
      BY <1>13 DEF BeginCleanup, rosterVars
    <2>2. ASSUME NEW q \in Requests, Busy(q)
          PROVE  Busy(q)'
      BY <1>13, <2>2, BeginCleanupEffect
    <2> QED
      BY <2>1, <2>2
  <1> QED
    BY StepIsServiceStep, <1>1, <1>2, <1>3, <1>4, <1>5, <1>6, <1>7, <1>8, <1>9,
       <1>10, <1>11, <1>12, <1>13 DEF ServiceStep

\* A lane on which an order is being delivered will be freed, whether its task
\* finishes, is stopped or is cleaned, on preempted lanes too.
THEOREM LanesAreFreed == Spec => []TakenLaneIsFreed
  <1> DEFINE Inv == TypeInv /\ DeliveredOnLane /\ FreedInv
  <1>1. Init => Inv
    BY TypeInvInit DEF Init, DeliveredOnLane, FreedInv
  <1>2. Inv /\ [Next]_vars => Inv'
    BY TypeInvNext, DeliveredOnLaneNext, FreedInvNext
  <1>3. Inv => TakenLaneIsFreed
    BY DEF TypeInv, TypeOK, FreedInv, Busy, Executing, TakenLaneIsFreed
  <1> QED
    BY <1>1, <1>2, <1>3, PTL DEF Spec

-----------------------------------------------------------------------------

(***************************************************************************)
(* Cleanups.  Only the beginning of a cleanup and the run of a             *)
(* cancellation touch what a cleaner is told.                              *)
(***************************************************************************)
NoCleanup == UNCHANGED <<marked, begun, cleaned, closed>>

\* Every other step leaves the bookkeeping of cleanups alone.
LEMMA CleanupStep ==
  ASSUME TypeInv, [Next]_vars
  PROVE  \/ NoCleanup /\ ServiceStep
         \/ \E r \in Requests : RunCancelled(r)
         \/ \E c \in Cleanups : BeginCleanup(c)
  <1>1. NoCleanup \/ (\E r \in Requests : RunCancelled(r)) \/ (\E c \in Cleanups : BeginCleanup(c))
    BY ZenonT(60) DEF NoCleanup, Next, Flush, Environment, Executor, vars, taskVars, cleanupVars,
           GiveInput, DespawnService, CompleteJob, CancelLands, ServeNextUnavailable,
           ServeNextIdle, ServeNextOrder, EndUnblock, ExecuteEmptyNode,
           DispatchUnavailable, ServeImmediately, ServeQueued, ExecuteTask, EndQueue,
           AwakenTask, EndAwake, EndChannel
  <1> QED
    BY <1>1, StepIsServiceStep

\* A request whose task has not been stopped or cleaned has no cancellation.
Uncancelled ==
    \A r \in Requests :
        phase[r] \in {"new", "input", "queued", "running"}
        => cancel[r] = "none" /\ cancelFor[r] = None /\ marked[r] = None

\* Every step keeps it.
LEMMA UncancelledNext ==
  ASSUME TypeInv, Uncancelled, [Next]_vars
  PROVE  Uncancelled'
  <1> USE DEF TypeInv, TypeOK, Uncancelled
  <1>1. ASSUME NEW r \in Requests, RunCancelled(r) PROVE Uncancelled'
    BY <1>1 DEF RunCancelled
  <1>2. ASSUME NEW c \in Cleanups, BeginCleanup(c) PROVE Uncancelled'
    BY <1>2, BeginCleanupEffect
  <1>3. CASE NoCleanup /\ ServiceStep
    <2>1. UNCHANGED marked
      BY <1>3 DEF NoCleanup
    <2>2. CASE Silent
      BY <2>1, <2>2 DEF Silent, requestVars
    <2>3. CASE Disposes
      BY <2>1, <2>3 DEF Disposes, DisposeInputs, Assign
    <2>4. CASE DespawnService
      BY <2>1, <2>4 DEF DespawnService, rosterVars, taskVars
    <2>5. ASSUME NEW r \in Requests, NEW n \in Nodes, NEW s \in Sessions,
                 GiveInput(r, n, s)
          PROVE  Uncancelled'
      BY <2>1, <2>5 DEF GiveInput, taskVars
    <2>6. ASSUME NEW r \in Requests, CancelLands(r) \/ Finishes(r) PROVE Uncancelled'
      BY <2>1, <2>6 DEF CancelLands, rosterVars, requestVars, Finishes, FinishTask, HasFuture
    <2>7. ASSUME NEW l \in Lanes, ServeNextUnavailable(l) \/ ServeNextIdle(l)
          PROVE  Uncancelled'
      BY <2>1, <2>7 DEF ServeNextUnavailable, ServeNextIdle, requestVars, taskVars
    <2>8. ASSUME NEW l \in Lanes, NEW r \in Requests, ServeNextOrder(l, r)
          PROVE  Uncancelled'
      BY <2>1, <2>8 DEF ServeNextOrder, IsFront, Queue, taskVars
    <2>9. ASSUME NEW n \in Nodes, NEW r \in Requests, ServeImmediately(n, r)
          PROVE  Uncancelled'
      BY <2>1, <2>9 DEF ServeImmediately, IsFront, Inputs, taskVars
    <2>10. ASSUME NEW n \in Nodes, NEW r \in Requests, ServeQueued(n, r)
           PROVE  Uncancelled'
      <3>1. cancelFor' = cancelFor
        BY <2>10 DEF ServeQueued
      <3>2. ASSUME NEW q \in Requests, phase'[q] \in {"new", "input", "queued", "running"}
            PROVE  cancel'[q] = cancel[q] /\ phase[q] \in {"new", "input", "queued", "running"}
        <4>1. /\ phase[r] = "input"
              /\ phase'[q] = IF q \in Stopped(n) /\ phase[q] \in {"running", "cleaning"}
                             THEN "stopping"
                             ELSE IF q \in Supplanted(n) THEN "done"
                             ELSE IF q = r THEN "queued" ELSE phase[q]
              /\ cancel'[q] = IF q \in Stopped(n) /\ phase[q] = "running"
                              THEN "inflight" ELSE cancel[q]
          BY <2>10, ServeQueuedEffect
        <4> QED
          BY <3>2, <4>1
      <3> QED
        BY <2>1, <3>1, <3>2
    <2>11. CASE \E r \in Requests : RunCancelled(r)
      BY <2>11, <1>1
    <2>12. CASE \E c \in Cleanups : BeginCleanup(c)
      BY <2>12, <1>2
    <2> QED
      BY <1>3, <2>2, <2>3, <2>4, <2>5, <2>6, <2>7, <2>8, <2>9, <2>10, <2>11, <2>12
         DEF ServiceStep
  <1> QED
    BY <1>1, <1>2, <1>3, CleanupStep

-----------------------------------------------------------------------------
(***************************************************************************)
(* Nothing is lost.  A cancellation that was sent for a cleanup belongs to *)
(* a task whose outcome was settled with that cleanup; any other settles   *)
(* it when it runs.                                                        *)
(***************************************************************************)
AnsweredInv ==
    \A r \in Requests :
        /\ phase[r] = "done" => outcome[r] # "none"
        /\ cancel[r] # "none" /\ cancelFor[r] # None => outcome[r] # "none"

\* A cleanup asks every node of the service or none.
CleansAllOrNone == \A c \in Cleanups : CleanupNodes[c] \in {{}, Nodes}

\* Every step keeps it if the service lives.
LEMMA AnsweredInvNext ==
  ASSUME ~ServiceMayDespawn, CleansAllOrNone,
         TypeInv, Uncancelled, AnsweredInv, [Next]_vars
  PROVE  AnsweredInv'
  <1> USE DEF TypeInv, TypeOK, Given, Uncancelled, AnsweredInv
  <1>1. CASE Silent
    BY <1>1 DEF Silent, requestVars
  <1>2. CASE Disposes
    BY <1>2 DEF Disposes, DisposeInputs, Assign
  <1>3. CASE DespawnService
    BY <1>3 DEF DespawnService
  <1>4. ASSUME NEW r \in Requests, NEW n \in Nodes, NEW s \in Sessions,
               GiveInput(r, n, s)
        PROVE  AnsweredInv'
    BY <1>4 DEF GiveInput, taskVars
  <1>5. ASSUME NEW r \in Requests, CancelLands(r) PROVE AnsweredInv'
    BY <1>5 DEF CancelLands, rosterVars, requestVars
  <1>6. ASSUME NEW r \in Requests, Finishes(r) PROVE AnsweredInv'
    BY <1>6 DEF Finishes, FinishTask, HasFuture
  <1>7. ASSUME NEW r \in Requests, RunCancelled(r) PROVE AnsweredInv'
    BY <1>7 DEF RunCancelled
  <1>8. ASSUME NEW l \in Lanes, ServeNextUnavailable(l) \/ ServeNextIdle(l)
        PROVE  AnsweredInv'
    BY <1>8 DEF ServeNextUnavailable, ServeNextIdle, requestVars, taskVars
  <1>9. ASSUME NEW l \in Lanes, NEW r \in Requests, ServeNextOrder(l, r)
        PROVE  AnsweredInv'
    BY <1>9 DEF ServeNextOrder, IsFront, Queue, taskVars
  <1>10. ASSUME NEW n \in Nodes, NEW r \in Requests, ServeImmediately(n, r)
         PROVE  AnsweredInv'
    BY <1>10 DEF ServeImmediately, IsFront, Inputs, taskVars
  <1>11. ASSUME NEW n \in Nodes, NEW r \in Requests, ServeQueued(n, r)
         PROVE  AnsweredInv'
    <2>1. cancelFor' = cancelFor
      BY <1>11 DEF ServeQueued
    <2>2. ASSUME NEW q \in Requests
          PROVE  /\ phase'[q] = "done" => outcome'[q] # "none"
                 /\ cancel'[q] # "none" /\ cancelFor'[q] # None => outcome'[q] # "none"
      <3>1. /\ phase'[q] = IF q \in Stopped(n) /\ phase[q] \in {"running", "cleaning"}
                           THEN "stopping"
                           ELSE IF q \in Supplanted(n) THEN "done"
                           ELSE IF q = r THEN "queued" ELSE phase[q]
            /\ outcome'[q] = IF q \in Supplanted(n) THEN "supplanted" ELSE outcome[q]
            /\ cancel'[q] = IF q \in Stopped(n) /\ phase[q] = "running"
                            THEN "inflight" ELSE cancel[q]
        BY <1>11, ServeQueuedEffect
      <3>2. phase[r] = "input" /\ (q \in Supplanted(n) => phase[q] = "queued")
        BY <1>11, ServeQueuedEffect
      <3> QED
        BY <2>1, <3>1, <3>2
    <2> QED
      BY <2>2
  <1>12. ASSUME NEW c \in Cleanups, BeginCleanup(c) PROVE AnsweredInv'
    <2>1. ASSUME NEW q \in Requests, CleanupNodes[c] # {}, phase[q] # "new"
          PROVE  node[q] \in CleanupNodes[c]
      BY <2>1 DEF CleansAllOrNone
    <2>2. ASSUME NEW q \in Requests
          PROVE  /\ phase'[q] = "done" => outcome'[q] # "none"
                 /\ cancel'[q] # "none" /\ cancelFor'[q] # None => outcome'[q] # "none"
      <3>1. \/ phase[q] = "queued" /\ CleanupNodes[c] # {} /\ phase'[q] = "done"
               /\ outcome'[q] = IF node[q] \in CleanupNodes[c] THEN "cleaned" ELSE outcome[q]
            \/ outcome'[q] = "cleaned"
            \/ /\ phase'[q] = phase[q] /\ outcome'[q] = outcome[q]
               /\ cancel'[q] = cancel[q] /\ cancelFor'[q] = cancelFor[q]
        BY <1>12, BeginCleanupEffect
      <3>2. CASE phase[q] = "queued" /\ CleanupNodes[c] # {}
        BY <2>1, <3>1, <3>2
      <3>3. CASE ~(phase[q] = "queued" /\ CleanupNodes[c] # {})
        BY <3>1, <3>3
      <3> QED
        BY <3>2, <3>3
    <2> QED
      BY <2>2
  <1> QED
    BY StepIsServiceStep, <1>1, <1>2, <1>3, <1>4, <1>5, <1>6, <1>7, <1>8, <1>9,
       <1>10, <1>11, <1>12 DEF ServiceStep

\* A request that has left the service was answered, disposed or cleaned with
\* its node: preempted, trimmed, stopped and cleaned at once, or finished while
\* its cancellation was on its way.  The service lives, and cleanups do not ask
\* some of its nodes only.
THEOREM NoRequestIsLost ==
  ASSUME ~ServiceMayDespawn, CleansAllOrNone
  PROVE  Spec => []NothingIsLost
  <1> DEFINE Inv == TypeInv /\ Uncancelled /\ AnsweredInv
  <1>1. Init => Inv
    BY TypeInvInit DEF Init, Uncancelled, AnsweredInv
  <1>2. Inv /\ [Next]_vars => Inv'
    BY TypeInvNext, UncancelledNext, AnsweredInvNext
  <1>3. Inv => NothingIsLost
    BY DEF AnsweredInv, NothingIsLost
  <1> QED
    BY <1>1, <1>2, <1>3, PTL DEF Spec

-----------------------------------------------------------------------------
(***************************************************************************)
(* Notifications come.  On a lane that no node preempts a task is not      *)
(* stopped, so that a task which is being cleaned has its cancellation on  *)
(* the way and that cancellation has captured the last cleanup it was      *)
(* marked for.                                                             *)
(***************************************************************************)
Undisturbed(n) == n \in Nodes /\ ~Preemptible(LaneOf(n))

CleaningTask(r) ==
    /\ phase[r] # "stopping"
    /\ phase[r] = "cleaning" => /\ cancel[r] # "none"
                                /\ cancelFor[r] = marked[r]
                                /\ marked[r] # None

CleaningTasks == \A r \in Requests : Undisturbed(node[r]) => CleaningTask(r)

\* A request keeps its node from the moment it is given.
LEMMA NodeStays ==
  ASSUME TypeInv, [Next]_vars, NEW q \in Requests, phase[q] # "new"
  PROVE  phase'[q] # "new" /\ node'[q] = node[q] /\ session'[q] = session[q]
  <1> DEFINE Goal == phase'[q] # "new" /\ node'[q] = node[q] /\ session'[q] = session[q]
  <1> SUFFICES Goal
    OBVIOUS
  <1> USE DEF TypeInv, TypeOK
  <1>1. CASE Silent
    BY <1>1 DEF Silent, requestVars
  <1>2. CASE Disposes
    BY <1>2 DEF Disposes, DisposeInputs, Assign
  <1>3. CASE DespawnService
    BY <1>3 DEF DespawnService, rosterVars, taskVars
  <1>4. ASSUME NEW r \in Requests, NEW n \in Nodes, NEW s \in Sessions,
               GiveInput(r, n, s)
        PROVE  Goal
    BY <1>4 DEF GiveInput, taskVars
  <1>5. ASSUME NEW r \in Requests, CancelLands(r) \/ Finishes(r) \/ RunCancelled(r)
        PROVE  Goal
    BY <1>5 DEF CancelLands, rosterVars, requestVars, Finishes, FinishTask, RunCancelled
  <1>6. ASSUME NEW l \in Lanes, ServeNextUnavailable(l) \/ ServeNextIdle(l)
        PROVE  Goal
    BY <1>6 DEF ServeNextUnavailable, ServeNextIdle, requestVars, taskVars
  <1>7. ASSUME NEW l \in Lanes, NEW r \in Requests, ServeNextOrder(l, r)
        PROVE  Goal
    BY <1>7 DEF ServeNextOrder, IsFront, Queue, taskVars
  <1>8. ASSUME NEW n \in Nodes, NEW r \in Requests, ServeImmediately(n, r)
         PROVE  Goal
    BY <1>8 DEF ServeImmediately, IsFront, Inputs, taskVars
  <1>9. ASSUME NEW n \in Nodes, NEW r \in Requests, ServeQueued(n, r)
        PROVE  Goal
    <2>1. phase'[q] \in {"queued", "stopping", "done", phase[q]}
      BY <1>9, ServeQueuedEffect
    <2> QED
      BY <1>9, <2>1 DEF ServeQueued
  <1>10. ASSUME NEW c \in Cleanups, BeginCleanup(c) PROVE Goal
    <2>1. phase'[q] \in {"cleaning", "done", phase[q]}
      BY <1>10, BeginCleanupEffect
    <2> QED
      BY <1>10, <2>1 DEF BeginCleanup
  <1> QED
    BY StepIsServiceStep, <1>1, <1>2, <1>3, <1>4, <1>5, <1>6, <1>7, <1>8, <1>9, <1>10
       DEF ServiceStep

\* A task is stopped only on a lane that some node preempts.
LEMMA StoppedOnPreemptible ==
  ASSUME TypeInv, DeliveredOnLane, NEW n \in Nodes, NEW r \in Requests,
         ServeQueued(n, r), NEW q \in Stopped(n)
  PROVE  q \in Requests /\ Preemptible(LaneOf(node[q]))
  <1>1. LaneOf(n) \in Lanes
    BY LaneOfType DEF ServeQueued, LaneIsFree
  <1>2. q \in Requests /\ q = delivering[LaneOf(n)] /\ Preempts(n) /\ delivering[LaneOf(n)] # None
    BY DEF Stopped, StopsDelivery
  <1> QED
    BY <1>1, <1>2 DEF DeliveredOnLane, Preemptible

\* How a step changes a request that has left its node, other than by the run of
\* its own cancellation and by the beginning of a cleanup.
TaskKept(q) ==
    /\ cancelFor'[q] = cancelFor[q]
    /\ cancel[q] # "none" => cancel'[q] # "none"
    /\ phase[q] = "done" => phase'[q] = "done" /\ (cancel[q] = "none" => cancel'[q] = "none")
    /\ phase[q] = "cleaning" => phase'[q] = "cleaning" \/ phase'[q] = "stopping"
    /\ phase'[q] = "cleaning" => phase[q] = "cleaning"
    /\ phase[q] = "stopping" => phase'[q] = "stopping"
    /\ phase'[q] = "stopping" =>
          \/ phase[q] = "stopping"
          \/ Preemptible(LaneOf(node[q])) /\ phase[q] \in {"running", "cleaning"}
    /\ phase'[q] = "done" /\ phase[q] # "done" => cancel'[q] = "none"

LEMMA TaskStep ==
  ASSUME TypeInv, DeliveredOnLane, Uncancelled, NoCleanup, ServiceStep,
         \A r \in Requests : ~RunCancelled(r), \A c \in Cleanups : ~BeginCleanup(c),
         NEW q \in Requests
  PROVE  TaskKept(q)
  <1>0. phase[q] = "queued" => cancel[q] = "none"
    BY DEF Uncancelled
  <1> USE DEF TypeInv, TypeOK, Uncancelled, TaskKept
  <1>1. CASE Silent
    BY <1>1 DEF Silent, requestVars
  <1>2. CASE Disposes
    BY <1>2 DEF Disposes, DisposeInputs, Assign
  <1>3. CASE DespawnService
    BY <1>3 DEF DespawnService, rosterVars, taskVars
  <1>4. ASSUME NEW r \in Requests, NEW n \in Nodes, NEW s \in Sessions,
               GiveInput(r, n, s)
        PROVE  TaskKept(q)
    BY <1>4 DEF GiveInput, taskVars
  <1>5. ASSUME NEW r \in Requests, CancelLands(r) PROVE TaskKept(q)
    BY <1>5 DEF CancelLands, rosterVars, requestVars
  <1>6. ASSUME NEW r \in Requests, Finishes(r) PROVE TaskKept(q)
    BY <1>6 DEF Finishes, FinishTask, HasFuture
  <1>7. ASSUME NEW l \in Lanes, ServeNextUnavailable(l) \/ ServeNextIdle(l)
        PROVE  TaskKept(q)
    BY <1>7 DEF ServeNextUnavailable, ServeNextIdle, requestVars, taskVars
  <1>8. ASSUME NEW l \in Lanes, NEW r \in Requests, ServeNextOrder(l, r)
        PROVE  TaskKept(q)
    BY <1>8 DEF ServeNextOrder, IsFront, Queue, taskVars
  <1>9. ASSUME NEW n \in Nodes, NEW r \in Requests, ServeImmediately(n, r)
         PROVE  TaskKept(q)
    BY <1>9 DEF ServeImmediately, IsFront, Inputs, taskVars
  <1>10. ASSUME NEW n \in Nodes, NEW r \in Requests, ServeQueued(n, r)
         PROVE  TaskKept(q)
    <2>1. cancelFor' = cancelFor /\ phase[r] = "input"
      BY <1>10, ServeQueuedEffect DEF ServeQueued
    <2>2. /\ phase'[q] = IF q \in Stopped(n) /\ phase[q] \in {"running", "cleaning"}
                         THEN "stopping"
                         ELSE IF q \in Supplanted(n) THEN "done"
                         ELSE IF q = r THEN "queued" ELSE phase[q]
          /\ cancel'[q] = IF q \in Stopped(n) /\ phase[q] = "running"
                          THEN "inflight" ELSE cancel[q]
          /\ q \in Supplanted(n) => phase[q] = "queued"
      BY <1>10, ServeQueuedEffect
    <2>3. q \in Stopped(n) => Preemptible(LaneOf(node[q]))
      BY <1>10, StoppedOnPreemptible
    <2>4. phase[q] = "queued" => cancel[q] = "none"
      BY <1>0
    <2> HIDE DEF TypeInv, TypeOK, Uncancelled
    <2> QED
      BY <2>1, <2>2, <2>3, <2>4
  <1> QED
    BY <1>1, <1>2, <1>3, <1>4, <1>5, <1>6, <1>7, <1>8, <1>9, <1>10 DEF ServiceStep

\* Every step keeps the tasks of undisturbed nodes with their cancellations.
LEMMA CleaningTasksNext ==
  ASSUME TypeInv, DeliveredOnLane, Uncancelled, CleaningTasks, [Next]_vars
  PROVE  CleaningTasks'
  <1> SUFFICES ASSUME NEW q \in Requests, Undisturbed(node'[q])
               PROVE  CleaningTask(q)'
    BY DEF CleaningTasks, Undisturbed
  <1>1. CASE phase'[q] = "new"
    BY <1>1 DEF CleaningTask
  <1>2. CASE phase[q] = "new" /\ phase'[q] # "new"
    <2>1. phase'[q] \notin {"stopping", "cleaning"}
      <3>1. ASSUME NEW r \in Requests, RunCancelled(r) PROVE <2>1
        BY <1>2, <3>1 DEF RunCancelled, TypeInv, TypeOK
      <3>2. ASSUME NEW c \in Cleanups, BeginCleanup(c) PROVE <2>1
        BY <1>2, <3>2, BeginCleanupEffect DEF TypeInv
      <3>3. CASE (\A r \in Requests : ~RunCancelled(r)) /\ (\A c \in Cleanups : ~BeginCleanup(c))
        BY <1>2, <3>3, CleanupStep, TaskStep DEF TaskKept
      <3> QED
        BY <3>1, <3>2, <3>3
    <2> QED
      BY <2>1 DEF CleaningTask
  <1>3. CASE phase[q] # "new"
    <2>1. node'[q] = node[q] /\ CleaningTask(q) /\ ~Preemptible(LaneOf(node[q]))
      BY <1>3, NodeStays DEF CleaningTasks, Undisturbed
    <2>2. ASSUME NEW r \in Requests, RunCancelled(r) PROVE CleaningTask(q)'
      BY <2>1, <2>2 DEF RunCancelled, CleaningTask, TypeInv, TypeOK
    <2>3. ASSUME NEW c \in Cleanups, BeginCleanup(c) PROVE CleaningTask(q)'
      <3>1. c # None
        BY CleanupAssumption
      <3> QED
        BY <2>1, <2>3, <3>1, BeginCleanupEffect DEF CleaningTask, TypeInv
    <2>4. CASE (\A r \in Requests : ~RunCancelled(r)) /\ (\A c \in Cleanups : ~BeginCleanup(c))
      <3>1. TaskKept(q) /\ marked'[q] = marked[q]
        BY <2>4, CleanupStep, TaskStep DEF NoCleanup
      <3> QED
        BY <2>1, <3>1 DEF TaskKept, CleaningTask
    <2> QED
      BY <2>2, <2>3, <2>4
  <1> QED
    BY <1>1, <1>2, <1>3

\* Every step keeps the cleanups of undisturbed nodes under way: a cancellation
\* that does not notify its cleanup leaves one that will.
LEMMA UnderWayNext ==
  ASSUME TypeInv, DeliveredOnLane, Uncancelled, CleaningTasks,
         UnpreemptedCleanupIsUnderWay, [Next]_vars
  PROVE  UnpreemptedCleanupIsUnderWay'
  <1> SUFFICES ASSUME NEW c \in begun', NEW n \in CleanupNodes[c],
                      ~Preemptible(LaneOf(n))
               PROVE  UnderWay(c, n)'
    BY DEF UnpreemptedCleanupIsUnderWay, Preemptible
  <1>1. c \in Cleanups /\ n \in Nodes /\ c # None
    BY TypeInvNext, CleanupAssumption DEF TypeInv, TypeOK
  <1>2. ASSUME NEW d \in Cleanups, BeginCleanup(d) PROVE UnderWay(c, n)'
    <2>1. /\ begun' = begun \cup {d}
          /\ cleaned' = cleaned \cup
                {<<d, m>> : m \in {m \in CleanupNodes[d] : NotifiesAtOnce(d, m)}}
          /\ UNCHANGED <<node, session>>
      BY <1>2 DEF BeginCleanup
    <2>2. CASE c \in begun
      <3>1. UnderWay(c, n)
        BY <2>2 DEF UnpreemptedCleanupIsUnderWay
      <3>2. CASE <<c, n>> \in cleaned
        BY <2>1, <3>2 DEF UnderWay
      <3>3. ASSUME NEW r \in Requests, node[r] = n, cancel[r] # "none", cancelFor[r] = c
            PROVE  UnderWay(c, n)'
        <4>1. phase[r] # "running"
          BY <3>3 DEF Uncancelled
        <4>2. cancel'[r] = cancel[r] /\ cancelFor'[r] = cancelFor[r]
          BY <1>2, <4>1, BeginCleanupEffect DEF TypeInv
        <4> QED
          BY <2>1, <3>3, <4>2 DEF UnderWay
      <3> QED
        BY <3>1, <3>2, <3>3 DEF UnderWay
    <2>3. CASE c = d /\ NotifiesAtOnce(c, n)
      BY <2>1, <2>3 DEF UnderWay
    <2>4. CASE c = d /\ ~NotifiesAtOnce(c, n)
      <3>1. PICK r \in Delegated(c, n) : phase[r] # "cleaning"
        BY <2>4 DEF NotifiesAtOnce
      <3>2. r \in Requests /\ node[r] = n /\ session[r] = CleanupSession[c]
        BY <3>1 DEF Delegated, ActiveTasks
      <3>3. phase[r] = "running"
        BY <1>1, <3>1, <3>2 DEF Delegated, ActiveTasks, CleaningTasks, CleaningTask, Undisturbed
      <3>4. cancel'[r] = "inflight" /\ cancelFor'[r] = c
        BY <1>2, <2>4, <3>2, <3>3, BeginCleanupEffect DEF TypeInv
      <3> QED
        BY <2>1, <3>2, <3>4 DEF UnderWay
    <2> QED
      BY <2>1, <2>2, <2>3, <2>4
  <1>3. CASE \A d \in Cleanups : ~BeginCleanup(d)
    <2>1. begun' = begun /\ cleaned \subseteq cleaned'
      BY <1>3, CleanupStep DEF NoCleanup, RunCancelled
    <2>2. UnderWay(c, n)
      BY <2>1 DEF UnpreemptedCleanupIsUnderWay
    <2>3. CASE <<c, n>> \in cleaned
      BY <2>1, <2>3 DEF UnderWay
    <2>4. ASSUME NEW r \in Requests, node[r] = n, cancel[r] # "none", cancelFor[r] = c
          PROVE  UnderWay(c, n)'
      <3>1. node'[r] = n
        BY <2>4, NodeStays DEF TypeInv, Given
      <3>2. CASE \A q \in Requests : ~RunCancelled(q)
        BY <1>3, <2>4, <3>1, <3>2, CleanupStep, TaskStep DEF TaskKept, UnderWay
      <3>3. ASSUME NEW q \in Requests \ {r}, RunCancelled(q) PROVE UnderWay(c, n)'
        BY <2>4, <3>1, <3>3 DEF RunCancelled, UnderWay, TypeInv, TypeOK
      <3>4. CASE RunCancelled(r) /\ OtherTasks(r, c) = {}
        BY <1>1, <2>4, <3>4 DEF RunCancelled, UnderWay
      <3>5. CASE RunCancelled(r) /\ OtherTasks(r, c) # {}
        <4>1. PICK q \in Requests \ {r} :
                 /\ node[q] = n /\ marked[q] = c
                 /\ phase[q] \in {"running", "stopping", "cleaning"}
          BY <2>4, <3>5 DEF OtherTasks, ActiveTasks
        <4>2. phase[q] # "running"
          BY <1>1, <4>1 DEF Uncancelled
        <4>3. cancel[q] # "none" /\ cancelFor[q] = c
          BY <1>1, <4>1, <4>2 DEF CleaningTasks, CleaningTask, Undisturbed
        <4>4. UNCHANGED <<node, cancelFor>> /\ cancel'[q] = cancel[q]
          BY <3>5, <4>1 DEF RunCancelled, TypeInv, TypeOK
        <4> QED
          BY <4>1, <4>3, <4>4 DEF UnderWay
      <3> QED
        BY <3>2, <3>3, <3>4, <3>5
    <2> QED
      BY <2>2, <2>3, <2>4 DEF UnderWay
  <1> QED
    BY <1>2, <1>3

\* Every cleanup that a node was asked for is notified, or a cancellation that
\* will notify it is on its way, however the cleanups of a scope and its trims
\* overlap: the node is not forgotten when a task that is already being cleaned
\* is cleaned again.  The lane of the node is not one that another preempts.
THEOREM CleanupsAreUnderWay == Spec => []UnpreemptedCleanupIsUnderWay
  <1> DEFINE Inv == /\ TypeInv /\ DeliveredOnLane /\ Uncancelled /\ CleaningTasks
                    /\ UnpreemptedCleanupIsUnderWay
  <1>1. Init => Inv
    BY TypeInvInit DEF Init, DeliveredOnLane, Uncancelled, CleaningTasks, CleaningTask,
       UnpreemptedCleanupIsUnderWay
  <1>2. Inv /\ [Next]_vars => Inv'
    BY TypeInvNext, DeliveredOnLaneNext, UncancelledNext, CleaningTasksNext, UnderWayNext
  <1> QED
    BY <1>1, <1>2, PTL DEF Spec

-----------------------------------------------------------------------------
(***************************************************************************)
(* Notifications are true.  In a session that only its scope cleans, once  *)
(* that cleanup has begun every task of the nodes it asks is marked for it *)
(* until it is removed, with its cancellation, and no request arrives any  *)
(* more; a node is clean when none of its tasks is marked.                 *)
(***************************************************************************)
NoTrims ==
    \A c \in ScopeCleanups, d \in Cleanups :
        CleanupSession[d] = CleanupSession[c] => d \in ScopeCleanups

InScope(r) == \E c \in ScopeCleanups : session[r] = CleanupSession[c]

ScopeTask(r) ==
    /\ phase[r] = "done" => cancel[r] = "none"
    /\ session[r] \notin closed => phase[r] # "cleaning" /\ cancelFor[r] = None

ScopeTasks == \A r \in Requests : phase[r] # "new" /\ InScope(r) => ScopeTask(r)

\* Request r has been given to a node that cleanup c asks, in its session.
Asked(c, r) ==
    /\ phase[r] # "new"
    /\ session[r] = CleanupSession[c]
    /\ node[r] \in CleanupNodes[c]

BegunCleanup(c) ==
    /\ CleanupSession[c] \in closed
    /\ \A r \in Requests : Asked(c, r) =>
          \/ phase[r] = "done"
          \/ phase[r] \in {"stopping", "cleaning"} /\ marked[r] = c

BegunCleanups == \A c \in begun \cap ScopeCleanups : BegunCleanup(c)

\* A cancellation captures a cleanup that asked the node of its task.
Captured ==
    \A r \in Requests :
        cancelFor[r] # None => cancelFor[r] \in begun /\ Asked(cancelFor[r], r)

Notified ==
    \A c \in ScopeCleanups, n \in Nodes : <<c, n>> \in cleaned =>
        /\ c \in begun
        /\ n \in CleanupNodes[c]
        /\ \A r \in Requests : Asked(c, r) /\ node[r] = n => phase[r] = "done"

DroppedInv == ScopeTasks /\ BegunCleanups /\ Captured /\ Notified

\* A request is given to a session that is not closed.
LEMMA GivenToActive ==
  ASSUME TypeInv, DeliveredOnLane, Uncancelled, [Next]_vars,
         NEW q \in Requests, phase[q] = "new", phase'[q] # "new"
  PROVE  phase'[q] = "input" /\ session'[q] \notin closed
  <1> USE DEF TypeInv, TypeOK
  <1>1. CASE Silent
    BY <1>1 DEF Silent, requestVars
  <1>2. CASE Disposes
    BY <1>2 DEF Disposes, DisposeInputs, Assign
  <1>3. CASE DespawnService
    BY <1>3 DEF DespawnService, rosterVars, taskVars
  <1>4. ASSUME NEW r \in Requests, NEW n \in Nodes, NEW s \in Sessions,
               GiveInput(r, n, s)
        PROVE  phase'[q] = "input" /\ session'[q] \notin closed
    BY <1>4 DEF GiveInput
  <1>5. ASSUME NEW r \in Requests, CancelLands(r) PROVE FALSE
    BY <1>5 DEF CancelLands, requestVars
  <1>6. ASSUME NEW r \in Requests, Finishes(r) PROVE FALSE
    BY <1>6 DEF Finishes, FinishTask, HasFuture
  <1>7. ASSUME NEW r \in Requests, RunCancelled(r) PROVE FALSE
    BY <1>7 DEF RunCancelled, Given
  <1>8. ASSUME NEW l \in Lanes, ServeNextUnavailable(l) \/ ServeNextIdle(l) PROVE FALSE
    BY <1>8 DEF ServeNextUnavailable, ServeNextIdle, requestVars
  <1>9. ASSUME NEW l \in Lanes, NEW r \in Requests, ServeNextOrder(l, r) PROVE FALSE
    BY <1>9 DEF ServeNextOrder, IsFront, Queue
  <1>10. ASSUME NEW n \in Nodes, NEW r \in Requests, ServeImmediately(n, r) PROVE FALSE
    BY <1>10 DEF ServeImmediately, IsFront, Inputs
  <1>11. ASSUME NEW n \in Nodes, NEW r \in Requests, ServeQueued(n, r) PROVE FALSE
    <2>1. phase'[q] = "new"
      <3>1. /\ phase[r] = "input"
            /\ phase'[q] = IF q \in Stopped(n) /\ phase[q] \in {"running", "cleaning"}
                           THEN "stopping"
                           ELSE IF q \in Supplanted(n) THEN "done"
                           ELSE IF q = r THEN "queued" ELSE phase[q]
            /\ q \in Supplanted(n) => phase[q] = "queued"
        BY <1>11, ServeQueuedEffect
      <3> QED
        BY <3>1
    <2> QED
      BY <2>1
  <1>12. ASSUME NEW c \in Cleanups, BeginCleanup(c) PROVE FALSE
    BY <1>12, BeginCleanupEffect
  <1> QED
    BY StepIsServiceStep, <1>1, <1>2, <1>3, <1>4, <1>5, <1>6, <1>7, <1>8, <1>9,
       <1>10, <1>11, <1>12 DEF ServiceStep

\* A step that is not of the cleanups keeps the tasks and the bookkeeping.
LEMMA NoCleanupStep ==
  ASSUME TypeInv, DeliveredOnLane, Uncancelled, [Next]_vars,
         \A r \in Requests : ~RunCancelled(r), \A c \in Cleanups : ~BeginCleanup(c)
  PROVE  NoCleanup /\ \A q \in Requests : TaskKept(q)
  BY CleanupStep, TaskStep

\* Every step keeps the tasks of the scopes.
LEMMA ScopeTasksNext ==
  ASSUME NoTrims, TypeInv, DeliveredOnLane, Uncancelled, ScopeTasks, [Next]_vars
  PROVE  ScopeTasks'
  <1> SUFFICES ASSUME NEW q \in Requests, phase'[q] # "new", InScope(q)'
               PROVE  ScopeTask(q)'
    BY DEF ScopeTasks
  <1>1. CASE phase[q] = "new"
    BY <1>1, GivenToActive, UncancelledNext DEF Uncancelled, ScopeTask
  <1>2. CASE phase[q] # "new"
    <2>1. session'[q] = session[q] /\ InScope(q) /\ ScopeTask(q)
      BY <1>2, NodeStays DEF ScopeTasks, InScope
    <2>2. ASSUME NEW r \in Requests, RunCancelled(r) PROVE ScopeTask(q)'
      BY <2>1, <2>2 DEF RunCancelled, ScopeTask, TypeInv, TypeOK
    <2>3. ASSUME NEW c \in Cleanups, BeginCleanup(c) PROVE ScopeTask(q)'
      <3>1. /\ CleanupSession[c] \notin closed
            /\ closed' = IF c \in ScopeCleanups THEN closed \cup {CleanupSession[c]} ELSE closed
        BY <2>3 DEF BeginCleanup
      <3>2. phase[q] \in {"input", "queued"} => cancel[q] = "none"
        BY DEF Uncancelled
      <3>3. CASE session[q] = CleanupSession[c]
        <4>1. c \in ScopeCleanups
          BY <2>1, <3>3 DEF NoTrims, InScope
        <4> QED
          BY <2>1, <2>3, <3>1, <3>2, <3>3, <4>1, BeginCleanupEffect DEF ScopeTask, TypeInv
      <3>4. CASE session[q] # CleanupSession[c]
        BY <2>1, <2>3, <3>1, <3>4, BeginCleanupEffect DEF ScopeTask, TypeInv
      <3> QED
        BY <3>3, <3>4
    <2>4. CASE (\A r \in Requests : ~RunCancelled(r)) /\ (\A c \in Cleanups : ~BeginCleanup(c))
      BY <2>1, <2>4, NoCleanupStep DEF TaskKept, NoCleanup, ScopeTask
    <2> QED
      BY <2>2, <2>3, <2>4
  <1> QED
    BY <1>1, <1>2

\* Every step keeps the requests that a cleanup has asked for.
LEMMA BegunCleanupsNext ==
  ASSUME NoTrims, TypeInv, DeliveredOnLane, Uncancelled, ScopeTasks, BegunCleanups,
         [Next]_vars
  PROVE  BegunCleanups'
  <1> SUFFICES ASSUME NEW c \in begun' \cap ScopeCleanups
               PROVE  BegunCleanup(c)'
    BY DEF BegunCleanups
  <1>1. c \in Cleanups
    BY CleanupAssumption
  <1>2. ASSUME NEW q \in Requests, Asked(c, q)', phase[q] # "new"
        PROVE  Asked(c, q)
    BY <1>2, NodeStays DEF Asked
  <1>3. ASSUME NEW d \in Cleanups, BeginCleanup(d) PROVE BegunCleanup(c)'
    <2>1. /\ CleanupSession[d] \notin closed
          /\ begun' = begun \cup {d}
          /\ closed' = IF d \in ScopeCleanups THEN closed \cup {CleanupSession[d]} ELSE closed
      BY <1>3 DEF BeginCleanup
    <2>2. ASSUME NEW q \in Requests, Asked(c, q)' PROVE phase[q] # "new"
      BY <1>3, <2>2, BeginCleanupEffect DEF Asked, TypeInv
    <2>3. CASE c = d
      <3>1. ASSUME NEW q \in Requests, Asked(c, q)
            PROVE  \/ phase'[q] = "done"
                   \/ phase'[q] \in {"stopping", "cleaning"} /\ marked'[q] = c
        <4>1. phase[q] # "cleaning"
          BY <1>1, <2>1, <2>3, <3>1 DEF ScopeTasks, ScopeTask, InScope, Asked
        <4>2. phase[q] \in Phases
          BY DEF TypeInv, TypeOK
        <4> QED
          BY <1>3, <2>3, <3>1, <4>1, <4>2, BeginCleanupEffect DEF Asked, TypeInv, Phases
      <3> QED
        BY <1>2, <2>1, <2>2, <2>3, <3>1 DEF BegunCleanup
    <2>4. CASE c # d
      <3>1. BegunCleanup(c) /\ CleanupSession[c] # CleanupSession[d]
        BY <2>1, <2>4 DEF BegunCleanups, BegunCleanup
      <3>2. ASSUME NEW q \in Requests, Asked(c, q)
            PROVE  phase'[q] = phase[q] /\ marked'[q] = marked[q]
        BY <1>3, <3>1, <3>2, BeginCleanupEffect DEF Asked, TypeInv
      <3> QED
        BY <1>2, <2>1, <2>2, <3>1, <3>2 DEF BegunCleanup
    <2> QED
      BY <2>3, <2>4
  <1>4. ASSUME NEW r \in Requests, RunCancelled(r) PROVE BegunCleanup(c)'
    <2>1. UNCHANGED <<begun, closed, marked, node, session>>
      BY <1>4 DEF RunCancelled
    <2>2. \A q \in Requests : phase'[q] = "done" \/ phase'[q] = phase[q]
      BY <1>4 DEF RunCancelled, TypeInv, TypeOK
    <2> QED
      BY <1>4, <2>1, <2>2, GivenToActive DEF BegunCleanups, BegunCleanup, Asked
  <1>5. CASE (\A r \in Requests : ~RunCancelled(r)) /\ (\A d \in Cleanups : ~BeginCleanup(d))
    <2>1. NoCleanup /\ \A q \in Requests : TaskKept(q)
      BY <1>5, NoCleanupStep
    <2>2. BegunCleanup(c)
      BY <2>1 DEF NoCleanup, BegunCleanups
    <2>3. ASSUME NEW q \in Requests, Asked(c, q)' PROVE phase[q] # "new"
      BY <2>2, <2>3, GivenToActive DEF Asked, BegunCleanup
    <2> QED
      BY <1>2, <2>1, <2>2, <2>3 DEF NoCleanup, TaskKept, BegunCleanup
  <1> QED
    BY <1>3, <1>4, <1>5

\* Every step keeps what the cancellations have captured.
LEMMA CapturedNext ==
  ASSUME TypeInv, DeliveredOnLane, Uncancelled, Captured, [Next]_vars
  PROVE  Captured'
  <1> SUFFICES ASSUME NEW q \in Requests, NEW d, d = cancelFor'[q], d # None
               PROVE  d \in begun' /\ Asked(d, q)'
    BY DEF Captured, Asked
  <1>1. ASSUME NEW c \in begun, Asked(c, q) PROVE Asked(c, q)'
    BY <1>1, NodeStays DEF Asked
  <1>2. ASSUME NEW c \in Cleanups, BeginCleanup(c)
        PROVE  d \in begun' /\ Asked(d, q)'
    <2>1. begun' = begun \cup {c}
      BY <1>2 DEF BeginCleanup
    <2>2. CASE d = cancelFor[q]
      BY <1>1, <2>1, <2>2 DEF Captured
    <2>3. CASE d # cancelFor[q]
      <3>1. d = c /\ Asked(c, q)
        BY <1>2, <2>3, BeginCleanupEffect DEF TypeInv, Asked
      <3> QED
        BY <2>1, <3>1, NodeStays DEF Asked
    <2> QED
      BY <2>2, <2>3
  <1>3. ASSUME NEW r \in Requests, RunCancelled(r)
        PROVE  d \in begun' /\ Asked(d, q)'
    <2>1. d = cancelFor[q] /\ begun' = begun
      BY <1>3 DEF RunCancelled
    <2> QED
      BY <1>1, <2>1 DEF Captured
  <1>4. CASE (\A r \in Requests : ~RunCancelled(r)) /\ (\A c \in Cleanups : ~BeginCleanup(c))
    <2>1. d = cancelFor[q] /\ begun' = begun
      BY <1>4, NoCleanupStep DEF NoCleanup, TaskKept
    <2> QED
      BY <1>1, <2>1 DEF Captured
  <1> QED
    BY <1>2, <1>3, <1>4

\* Every step keeps the notifications true.
LEMMA NotifiedNext ==
  ASSUME NoTrims, TypeInv, DeliveredOnLane, Uncancelled, DroppedInv, [Next]_vars
  PROVE  Notified'
  <1> USE DEF DroppedInv
  <1> SUFFICES ASSUME NEW c \in ScopeCleanups, NEW n \in Nodes, <<c, n>> \in cleaned'
               PROVE  /\ c \in begun' /\ n \in CleanupNodes[c]
                      /\ \A q \in Requests : Asked(c, q)' /\ node'[q] = n => phase'[q] = "done"
    BY DEF Notified
  <1>1. c \in Cleanups /\ c # None
    BY CleanupAssumption
  <1>2. ASSUME NEW q \in Requests, phase[q] # "new", Asked(c, q)', node'[q] = n
        PROVE  Asked(c, q) /\ node[q] = n
    BY <1>2, NodeStays DEF Asked
  <1>3. ASSUME NEW q \in Requests, phase[q] = "new", Asked(c, q)', c \in begun
        PROVE  FALSE
    BY <1>3, GivenToActive DEF Asked, BegunCleanups, BegunCleanup
  <1>4. ASSUME NEW d \in Cleanups, BeginCleanup(d)
        PROVE  /\ c \in begun' /\ n \in CleanupNodes[c]
               /\ \A q \in Requests : Asked(c, q)' /\ node'[q] = n => phase'[q] = "done"
    <2>1. /\ CleanupSession[d] \notin closed
          /\ begun' = begun \cup {d}
          /\ cleaned' = cleaned \cup
                {<<d, m>> : m \in {m \in CleanupNodes[d] : NotifiesAtOnce(d, m)}}
      BY <1>4 DEF BeginCleanup
    <2>2. CASE <<c, n>> \in cleaned
      <3>1. ASSUME NEW q \in Requests, phase[q] = "done" PROVE phase'[q] = "done"
        BY <1>4, <3>1, BeginCleanupEffect DEF TypeInv
      <3> QED
        BY <1>2, <1>3, <2>1, <2>2, <3>1 DEF Notified
    <2>3. CASE <<c, n>> \notin cleaned
      <3>1. c = d /\ n \in CleanupNodes[c] /\ NotifiesAtOnce(c, n)
        BY <2>1, <2>3
      <3>2. ASSUME NEW q \in Requests, Asked(c, q), node[q] = n
            PROVE  phase'[q] = "done"
        <4>1. phase[q] # "cleaning"
          BY <1>1, <2>1, <3>1, <3>2 DEF ScopeTasks, ScopeTask, InScope, Asked
        <4>2. q \notin Delegated(c, n)
          BY <3>1, <4>1 DEF NotifiesAtOnce
        <4>3. phase[q] \in {"input", "queued", "done"}
          BY <3>2, <4>2, <4>1 DEF Delegated, ActiveTasks, Asked, TypeInv, TypeOK, Phases
        <4> QED
          BY <1>4, <3>1, <3>2, <4>3, BeginCleanupEffect DEF Asked, TypeInv
      <3>3. ASSUME NEW q \in Requests, Asked(c, q)' PROVE phase[q] # "new"
        BY <1>4, <3>3, BeginCleanupEffect DEF Asked, TypeInv
      <3> QED
        BY <1>2, <2>1, <3>1, <3>2, <3>3
    <2> QED
      BY <2>2, <2>3
  <1>5. ASSUME NEW r \in Requests, RunCancelled(r)
        PROVE  /\ c \in begun' /\ n \in CleanupNodes[c]
               /\ \A q \in Requests : Asked(c, q)' /\ node'[q] = n => phase'[q] = "done"
    <2>1. /\ begun' = begun /\ phase' = [phase EXCEPT ![r] = "done"]
          /\ cleaned' = IF cancelFor[r] # None /\ OtherTasks(r, cancelFor[r]) = {}
                        THEN cleaned \cup {<<cancelFor[r], node[r]>>} ELSE cleaned
      BY <1>5 DEF RunCancelled
    <2>2. CASE <<c, n>> \in cleaned
      BY <1>2, <1>3, <2>1, <2>2 DEF Notified, TypeInv, TypeOK
    <2>3. CASE <<c, n>> \notin cleaned
      <3>1. cancelFor[r] = c /\ node[r] = n /\ OtherTasks(r, c) = {}
        BY <2>1, <2>3
      <3>2. c \in begun /\ Asked(c, r)
        BY <1>1, <3>1 DEF Captured
      <3>3. ASSUME NEW q \in Requests, Asked(c, q), node[q] = n
            PROVE  q = r \/ phase[q] = "done"
        BY <3>1, <3>2, <3>3 DEF BegunCleanups, BegunCleanup, OtherTasks, ActiveTasks
      <3> QED
        BY <1>2, <1>3, <2>1, <3>1, <3>2, <3>3 DEF Asked, TypeInv, TypeOK
    <2> QED
      BY <2>2, <2>3
  <1>6. CASE (\A r \in Requests : ~RunCancelled(r)) /\ (\A d \in Cleanups : ~BeginCleanup(d))
    <2>1. UNCHANGED <<begun, cleaned>>
      BY <1>6, NoCleanupStep DEF NoCleanup
    <2>2. \A q \in Requests : phase[q] = "done" => phase'[q] = "done"
      BY <1>6, NoCleanupStep DEF TaskKept
    <2> QED
      BY <1>2, <1>3, <2>1, <2>2 DEF Notified
  <1> QED
    BY <1>4, <1>5, <1>6

\* When a node has told the scope that it is clean, none of its tasks of that
\* session is executing, and none will: whatever was queued, running, stopped by
\* another request or finished when the cleanup came.  No trim cleans a session
\* that a scope cleans.
THEOREM NotificationsAreTrue ==
  ASSUME NoTrims
  PROVE  Spec => []CleanedMeansDropped
  <1> DEFINE Inv == TypeInv /\ DeliveredOnLane /\ Uncancelled /\ DroppedInv
  <1>1. Init => Inv
    BY TypeInvInit DEF Init, DeliveredOnLane, Uncancelled, DroppedInv, ScopeTasks,
       BegunCleanups, Captured, Notified
  <1>2. Inv /\ [Next]_vars => Inv'
    BY TypeInvNext, DeliveredOnLaneNext, UncancelledNext, ScopeTasksNext,
       BegunCleanupsNext, CapturedNext, NotifiedNext DEF DroppedInv
  <1>3. Inv => CleanedMeansDropped
    <2> SUFFICES ASSUME Inv, NEW c \in ScopeCleanups, NEW n \in Nodes, NEW r \in Requests,
                        <<c, n>> \in cleaned, node[r] = n, session[r] = CleanupSession[c]
                 PROVE  ~Executing(r)
      BY DEF CleanedMeansDropped
    <2>1. CASE phase[r] = "new"
      BY <2>1 DEF Uncancelled, Executing
    <2>2. CASE phase[r] # "new"
      <3>1. phase[r] = "done"
        BY <2>2 DEF DroppedInv, Notified, Asked
      <3>2. cancel[r] = "none"
        BY <2>2, <3>1 DEF DroppedInv, ScopeTasks, ScopeTask, InScope
      <3> QED
        BY <3>1, <3>2 DEF Executing
    <2> QED
      BY <2>1, <2>2
  <1> QED
    BY <1>1, <1>2, <1>3, PTL DEF Spec
=============================================================================
