----------------------- MODULE WorkflowServiceProofs -----------------------
(* What is proved of WorkflowService for every value of its constants. *)
EXTENDS WorkflowService, TLAPS

(***************************************************************************)
(* A session is being cleaned, for a reason that is kept, exactly when it  *)
(* has left the statuses in which it was begun.                            *)
(***************************************************************************)
Ending ==
    \A r \in Requests :
        /\ phase[r] \in {"new", "queued", "ongoing"} => finish[r] = "none"
        /\ phase[r] \in {"terminated", "cancelled", "cleanup"} => finish[r] # "none"

\* LaneIsItsSession, request by request.
LaneInv ==
    \A l \in Lanes, r \in Requests :
        /\ phase[r] \in Stored /\ Lane(r) = l <=> delivering[l] = r
        /\ delivering[l] = None => ~(phase[r] = "queued" /\ Lane(r) = l)

Inv == TypeOK /\ Ending /\ LaneInv

\* LaneOf gives a lane, or None to an order that is never queued.
LEMMA LaneType ==
  ASSUME TypeOK
  PROVE  \A r \in Requests : Lane(r) \in Lanes \cup {None}
  BY DeliveryAssumption DEF TypeOK, Lane, LaneOf, Lanes, HasInstructions, InstructionSet

\* None is neither a lane nor a request.
LEMMA NoneIsDistinct == None \notin Lanes /\ None \notin Requests
  BY DeliveryAssumption DEF Lanes

(***************************************************************************)
(* What the larger steps do to each request.                               *)
(***************************************************************************)

\* ServeQueued discards only orders that are queued on the same lane.
LEMMA ServeQueuedEffect ==
  ASSUME TypeOK, NEW r \in Requests, ServeQueued(r)
  PROVE  /\ Lane(r) \in Lanes /\ delivering[Lane(r)] # None
         /\ \A q \in Discarded(r) : q \in Requests /\ phase[q] = "queued" /\ Lane(q) = Lane(r)
         /\ \A q \in Requests :
              /\ phase'[q] = IF q \in Discarded(r) THEN "gone"
                             ELSE IF q = r THEN "queued" ELSE phase[q]
              /\ outcome'[q] = IF q \in Discarded(r) THEN "disposed" ELSE outcome[q]
         /\ phase' \in [Requests -> Stored \cup {"new", "queued", "gone"}]
         /\ outcome' \in [Requests -> {"none", "output", "disposed"}]
  <1>1. Lane(r) \in Lanes /\ delivering[Lane(r)] # None
    BY LaneType, NoneIsDistinct DEF ServeQueued, LaneIsFree
  <1>2. \A q \in Discarded(r) : q \in Requests /\ phase[q] = "queued" /\ Lane(q) = Lane(r)
    BY DEF Discarded, Cancelled, Queue
  <1> QED
    BY <1>1, <1>2 DEF ServeQueued, Assign, Supplanted, TypeOK

\* CleanParent takes the requests of the parent out of the queues and has those
\* in the scope cleaned.
LEMMA CleanParentEffect ==
  ASSUME Inv, NEW p \in Sessions, CleanParent(p)
  PROVE  /\ \A r \in Requests :
              /\ parent[r] # p => phase'[r] = phase[r] /\ finish'[r] = finish[r]
              /\ parent[r] = p =>
                   /\ phase'[r] \in {"gone", "cleanup"}
                   /\ phase'[r] = "cleanup" <=> phase[r] \in Stored
                   /\ phase[r] \in Stored \ {"cleanup"} => finish'[r] # "none"
                   /\ finish'[r] = finish[r] \/ (phase[r] \in Stored /\ finish[r] = "none")
                   /\ finish[r] # "none" => finish'[r] = finish[r]
         /\ phase' \in [Requests -> Stored \cup {"new", "queued", "gone"}]
         /\ finish' \in [Requests -> {"none", "terminated", "cancelled", "early"}]
         /\ stopping' \in SUBSET {r \in Requests : phase'[r] = "ongoing"}
         /\ status' \in [Sessions -> {"active", "cleaning", "gone"}]
         /\ status'[p] # "active"
         /\ \A q \in Sessions : q # p => status'[q] = status[q]
  <1> DEFINE relevant == {r \in StoredFor(p) : phase[r] # "cleanup"}
             fresh == {r \in relevant : finish[r] = "none"}
  <1>1. /\ phase' = [r \in Requests |->
               IF parent[r] = p /\ phase[r] \in {"new", "queued"} THEN "gone"
               ELSE IF r \in relevant THEN "cleanup" ELSE phase[r]]
        /\ finish' = [r \in Requests |-> IF r \in fresh THEN "early" ELSE finish[r]]
        /\ stopping' = stopping \ fresh
        /\ status' = [status EXCEPT ![p] = IF relevant = {} THEN "gone" ELSE "cleaning"]
    BY DEF CleanParent, Clean, Assign, Inv, TypeOK
  <1>2. \A r \in Requests : r \in relevant <=>
            parent[r] = p /\ phase[r] \in Stored \ {"cleanup"}
    BY DEF StoredFor
  <1>3. \A r \in Requests : r \in fresh <=> r \in relevant /\ finish[r] = "none"
    BY DEF StoredFor
  <1> HIDE DEF relevant, fresh
  <1>4. /\ \A r \in Requests : phase[r] \in Stored \cup {"new", "queued", "gone"}
        /\ \A r \in Requests : finish[r] \in {"none", "terminated", "cancelled", "early"}
        /\ status \in [Sessions -> {"active", "cleaning", "gone"}]
    BY DEF Inv, TypeOK
  <1>5. ASSUME NEW r \in Requests
        PROVE  /\ parent[r] # p => phase'[r] = phase[r] /\ finish'[r] = finish[r]
               /\ parent[r] = p =>
                    /\ phase'[r] \in {"gone", "cleanup"}
                    /\ phase'[r] = "cleanup" <=> phase[r] \in Stored
                    /\ phase[r] \in Stored \ {"cleanup"} => finish'[r] # "none"
                    /\ finish'[r] = finish[r] \/ (phase[r] \in Stored /\ finish[r] = "none")
                    /\ finish[r] # "none" => finish'[r] = finish[r]
    <2>1. phase'[r] = IF parent[r] = p /\ phase[r] \in {"new", "queued"} THEN "gone"
                      ELSE IF r \in relevant THEN "cleanup" ELSE phase[r]
      BY <1>1
    <2>2. finish'[r] = IF r \in fresh THEN "early" ELSE finish[r]
      BY <1>1
    <2>3. r \in relevant <=> parent[r] = p /\ phase[r] \in {"ongoing", "terminated", "cancelled"}
      BY <1>2 DEF Stored
    <2>4. phase[r] \in {"new", "queued", "gone", "ongoing", "terminated", "cancelled", "cleanup"}
      BY <1>4 DEF Stored
    <2>5. CASE parent[r] # p
      BY <1>3, <2>1, <2>2, <2>3, <2>5
    <2>6. CASE parent[r] = p
      <3>1. phase'[r] \in {"gone", "cleanup"} /\ (phase'[r] = "cleanup" <=> phase[r] \in Stored)
        BY <2>1, <2>3, <2>4, <2>6 DEF Stored
      <3>2. phase[r] \in Stored \ {"cleanup"} => finish'[r] # "none"
        BY <1>3, <2>2, <2>3, <2>6 DEF Stored
      <3>3. /\ finish'[r] = finish[r] \/ (phase[r] \in Stored /\ finish[r] = "none")
            /\ finish[r] # "none" => finish'[r] = finish[r]
        BY <1>3, <2>2, <2>3, <2>6 DEF Stored
      <3> QED
        BY <2>6, <3>1, <3>2, <3>3
    <2> QED
      BY <2>5, <2>6
  <1>6. stopping' \in SUBSET {r \in Requests : phase'[r] = "ongoing"}
    <2>1. ASSUME NEW r \in stopping'
          PROVE  r \in Requests /\ phase'[r] = "ongoing"
      <3>1. r \in Requests /\ phase[r] = "ongoing" /\ finish[r] = "none" /\ r \notin fresh
        BY <1>1, <2>1 DEF Inv, TypeOK, Ending
      <3> QED
        BY <1>2, <1>3, <1>5, <3>1 DEF Stored
    <2> QED
      BY <2>1
  <1>7. /\ phase' \in [Requests -> Stored \cup {"new", "queued", "gone"}]
        /\ finish' \in [Requests -> {"none", "terminated", "cancelled", "early"}]
    BY <1>1, <1>4 DEF Stored
  <1> QED
    BY <1>1, <1>4, <1>5, <1>6, <1>7

-----------------------------------------------------------------------------
LEMMA TypeNext == Inv /\ [Next]_vars => TypeOK' /\ Ending'
  <1> DEFINE Typed == TypeOK /\ Ending
  <1> SUFFICES ASSUME Inv, [Next]_vars PROVE Typed'
    OBVIOUS
  <1>0. TypeOK /\ Ending
    BY DEF Inv
  <1>1. ASSUME NEW r \in Requests, Filter(r) PROVE Typed'
    BY <1>0, <1>1 DEF Filter, Ask, request, TypeOK, Ending, Stored
  <1>2. ASSUME NEW r \in Requests, ServeImmediately(r) PROVE Typed'
    <2>1. delivering' \in [Lanes -> Requests \cup {None}]
      BY <1>0, <1>2 DEF ServeImmediately, TypeOK
    <2> QED
      BY <1>0, <1>2, <2>1 DEF ServeImmediately, Stamped, parents, request, TypeOK, Ending, Stored
  <1>3. ASSUME NEW r \in Requests, ServeQueued(r) PROVE Typed'
    <2>1. Lane(r) \in Lanes /\ \A q \in Discarded(r) : q \in Requests /\ phase[q] = "queued"
      BY <1>0, <1>3, ServeQueuedEffect
    <2>2. phase[r] = "new" /\ stopping' = stopping \cup Stopped(r)
      BY <1>3 DEF ServeQueued
    <2>3. \A q \in Stopped(r) : q \in Requests /\ finish[q] = "none" /\ q = delivering[Lane(r)]
      BY DEF Stopped
    <2>4. \A q \in Stopped(r) : phase[q] \in Stored
      BY <2>1, <2>3 DEF Inv, LaneInv
    <2>5. \A q \in Stopped(r) : phase[q] = "ongoing"
      BY <1>0, <2>3, <2>4 DEF Ending, Stored
    <2>6. stopping' \in SUBSET {q \in Requests : phase'[q] = "ongoing"}
      <3>1. \A q \in stopping' : q \in Requests /\ phase[q] = "ongoing"
        BY <1>0, <2>2, <2>3, <2>5 DEF TypeOK
      <3>2. \A q \in stopping' : phase'[q] = "ongoing"
        BY <1>0, <1>3, <2>1, <2>2, <3>1, ServeQueuedEffect
      <3> QED
        BY <3>1, <3>2
    <2>7. UNCHANGED <<node, parent, finish, delivering, status, hopeless>>
      BY <1>3 DEF ServeQueued, request
    <2>8. /\ phase' \in [Requests -> Stored \cup {"new", "queued", "gone"}]
          /\ outcome' \in [Requests -> {"none", "output", "disposed"}]
      BY <1>0, <1>3, ServeQueuedEffect
    <2>9. Ending'
      <3>1. \A q \in Requests : phase'[q] \in {"gone", "queued", phase[q]} 
                                /\ (phase'[q] = "queued" => phase[q] \in {"new", "queued"})
        BY <1>0, <1>3, <2>2, ServeQueuedEffect
      <3> QED
        BY <1>0, <2>7, <3>1 DEF Ending
    <2>10. stamp' \in [Requests -> Nat] /\ clock' \in Nat
      BY <1>0, <1>3 DEF ServeQueued, Stamped, TypeOK
    <2>11. doubts' \in SUBSET Sessions
      BY <1>0, <1>3, <2>1 DEF ServeQueued, Supplanted, Ask, TypeOK
    <2> QED
      BY <1>0, <2>6, <2>7, <2>8, <2>9, <2>10, <2>11 DEF TypeOK
  <1>4. ASSUME NEW r \in Requests, Terminate(r) PROVE Typed'
    BY <1>0, <1>4 DEF Terminate, Clean, Assign, parents, request, TypeOK, Ending, Stored
  <1>5. ASSUME NEW r \in Requests, CancelOne(r) PROVE Typed'
    BY <1>0, <1>5 DEF CancelOne, Clean, Assign, parents, request, TypeOK, Ending, Stored
  <1>6. ASSUME NEW r \in Requests, Finalize(r) PROVE Typed'
    BY <1>0, <1>6 DEF Finalize, Conclude, Ask, request, TypeOK, Ending, Stored
  <1>7. ASSUME NEW r \in Requests, NEW q \in Requests, FinalizeAndServe(r, q) PROVE Typed'
    <2>1. phase[q] = "queued" /\ phase[r] \in Stored /\ finish[r] # "none" /\ phase[r] # "ongoing"
      BY <1>0, <1>7 DEF FinalizeAndServe, IsFront, Queue, Conclude, Ending, TypeOK
    <2>2. \A s \in Requests :
            phase'[s] = IF s = q THEN "ongoing" ELSE IF s = r THEN "gone" ELSE phase[s]
      BY <1>0, <1>7, <2>1 DEF FinalizeAndServe, TypeOK
    <2>3. finish' = finish /\ stopping' = stopping
      BY <1>7 DEF FinalizeAndServe, Conclude
    <2>4. stopping' \in SUBSET {s \in Requests : phase'[s] = "ongoing"}
      BY <1>0, <2>1, <2>2, <2>3 DEF TypeOK
    <2>5. Ending'
      BY <1>0, <2>1, <2>2, <2>3 DEF Ending
    <2>6. /\ phase' \in [Requests -> Stored \cup {"new", "queued", "gone"}]
          /\ delivering' \in [Lanes -> Requests \cup {None}]
      BY <1>0, <1>7 DEF FinalizeAndServe, TypeOK, Stored
    <2>7. /\ outcome' \in [Requests -> {"none", "output", "disposed"}]
          /\ status' \in [Sessions -> {"active", "cleaning", "gone"}]
          /\ doubts' \in SUBSET Sessions
      BY <1>0, <1>7 DEF FinalizeAndServe, Conclude, Ask, TypeOK
    <2>8. UNCHANGED <<request, hopeless>> /\ stamp' = Stamped(q) /\ clock' = clock + 1
      BY <1>7 DEF FinalizeAndServe, Conclude
    <2> QED
      BY <1>0, <2>3, <2>4, <2>5, <2>6, <2>7, <2>8 DEF Stamped, request, TypeOK
  <1>8. ASSUME NEW p \in Sessions, CleanParent(p), doubts' \in SUBSET Sessions,
               hopeless' \in SUBSET Sessions
        PROVE  Typed'
    <2>1. Ending'
      <3>1. ASSUME NEW r \in Requests
            PROVE  /\ phase'[r] \in {"new", "queued", "ongoing"} => finish'[r] = "none"
                   /\ phase'[r] \in {"terminated", "cancelled", "cleanup"} => finish'[r] # "none"
        <4>1. CASE parent[r] # p
          BY <1>0, <1>8, <4>1, CleanParentEffect DEF Ending
        <4>2. CASE parent[r] = p
          BY <1>0, <1>8, <4>2, CleanParentEffect DEF Ending, Stored
        <4> QED
          BY <4>1, <4>2
      <3> QED
        BY <3>1 DEF Ending
    <2> QED
      BY <1>0, <1>8, <2>1, CleanParentEffect DEF CleanParent, request, TypeOK
  <1>9. ASSUME NEW p \in Sessions, Validate(p) PROVE Typed'
    <2>1. doubts' \in SUBSET Sessions
      BY <1>0, <1>9 DEF Validate, TypeOK
    <2>2. CASE CleanParent(p) /\ hopeless' = hopeless \cup {p}
      BY <1>0, <1>8, <2>1, <2>2 DEF TypeOK
    <2>3. CASE UNCHANGED <<request, order, outcome, status, hopeless>>
      BY <1>0, <2>1, <2>3 DEF request, order, TypeOK, Ending
    <2> QED
      BY <1>9, <2>2, <2>3 DEF Validate
  <1>10. ASSUME NEW p \in Sessions, EndParent(p) PROVE Typed'
    BY <1>0, <1>8, <1>10 DEF EndParent, TypeOK
  <1>11. CASE UNCHANGED vars
    BY <1>0, <1>11 DEF vars, request, order, parents, TypeOK, Ending
  <1> QED
    BY <1>1, <1>2, <1>3, <1>4, <1>5, <1>6, <1>7, <1>9, <1>10, <1>11 DEF Next, CancelInside, Stop

-----------------------------------------------------------------------------
(* Lanes *)

\* A step that starts, queues or finishes no session keeps the lanes.
LEMMA LaneKept ==
  ASSUME Inv, UNCHANGED <<node, delivering>>,
         \A r \in Requests : phase'[r] \in Stored <=> phase[r] \in Stored,
         \A r \in Requests : phase'[r] = "queued" => phase[r] = "queued"
  PROVE  LaneInv'
  BY DEF Inv, LaneInv, Lane

LEMMA LaneNext == Inv /\ [Next]_vars => LaneInv'
  <1> SUFFICES ASSUME Inv, [Next]_vars PROVE LaneInv'
    OBVIOUS
  <1>0. TypeOK /\ Ending /\ LaneInv
    BY DEF Inv
  <1>1. ASSUME NEW r \in Requests, Filter(r) PROVE LaneInv'
    BY <1>0, <1>1, LaneKept DEF Filter, request, TypeOK, Stored
  <1>2. ASSUME NEW r \in Requests, ServeImmediately(r) PROVE LaneInv'
    <2>1. /\ node' = node /\ phase[r] = "new"
          /\ \A q \in Requests : phase'[q] = IF q = r THEN "ongoing" ELSE phase[q]
          /\ Lane(r) # None => delivering[Lane(r)] = None
      BY <1>0, <1>2 DEF ServeImmediately, request, LaneIsFree, TypeOK
    <2>2. \A l \in Lanes : delivering'[l] = IF l = Lane(r) THEN r ELSE delivering[l]
      BY <1>0, <1>2, NoneIsDistinct DEF ServeImmediately, TypeOK
    <2>3. ASSUME NEW l \in Lanes, NEW q \in Requests
          PROVE  /\ phase'[q] \in Stored /\ Lane(q) = l <=> delivering'[l] = q
                 /\ delivering'[l] = None => ~(phase'[q] = "queued" /\ Lane(q) = l)
      <3>1. CASE l = Lane(r)
        <4>1. delivering[l] = None /\ delivering'[l] = r
          BY <2>1, <2>2, <3>1, NoneIsDistinct
        <4>2. ~(phase[q] \in Stored /\ Lane(q) = l)
          BY <1>0, <4>1, NoneIsDistinct DEF LaneInv
        <4> QED
          BY <2>1, <3>1, <4>1, <4>2, NoneIsDistinct DEF Stored
      <3>2. CASE l # Lane(r)
        BY <1>0, <2>1, <2>2, <3>2 DEF LaneInv, Stored
      <3> QED
        BY <3>1, <3>2
    <2> QED
      BY <2>1, <2>3 DEF LaneInv, Lane
  <1>3. ASSUME NEW r \in Requests, ServeQueued(r) PROVE LaneInv'
    <2>1. node' = node /\ delivering' = delivering /\ phase[r] = "new"
      BY <1>3 DEF ServeQueued, request
    <2>2. /\ Lane(r) \in Lanes /\ delivering[Lane(r)] # None
          /\ \A q \in Discarded(r) : phase[q] = "queued"
          /\ \A q \in Requests : phase'[q] = IF q \in Discarded(r) THEN "gone"
                                             ELSE IF q = r THEN "queued" ELSE phase[q]
      BY <1>0, <1>3, ServeQueuedEffect
    <2>3. ASSUME NEW q \in Requests
          PROVE  /\ phase'[q] \in Stored <=> phase[q] \in Stored
                 /\ phase'[q] = "queued" => phase[q] = "queued" \/ q = r
      BY <2>1, <2>2 DEF Stored
    <2> QED
      BY <1>0, <2>1, <2>2, <2>3 DEF LaneInv, Lane
  <1>4. ASSUME NEW r \in Requests, Terminate(r) PROVE LaneInv'
    BY <1>0, <1>4, LaneKept DEF Terminate, request, TypeOK, Stored
  <1>5. ASSUME NEW r \in Requests, CancelOne(r) PROVE LaneInv'
    BY <1>0, <1>5, LaneKept DEF CancelOne, request, TypeOK, Stored
  <1>6. ASSUME NEW r \in Requests, Finalize(r) PROVE LaneInv'
    <2>1. /\ node' = node /\ phase[r] \in Stored
          /\ \A q \in Requests : phase'[q] = IF q = r THEN "gone" ELSE phase[q]
          /\ Lane(r) # None => Queue(Lane(r)) = {}
      BY <1>0, <1>6 DEF Finalize, Conclude, Frees, request, TypeOK
    <2>2. \A l \in Lanes : delivering'[l] = IF l = Lane(r) THEN None ELSE delivering[l]
      BY <1>0, <1>6, NoneIsDistinct DEF Finalize, Frees, TypeOK
    <2>3. ASSUME NEW l \in Lanes, NEW q \in Requests
          PROVE  /\ phase'[q] \in Stored /\ Lane(q) = l <=> delivering'[l] = q
                 /\ delivering'[l] = None => ~(phase'[q] = "queued" /\ Lane(q) = l)
      <3>1. CASE l = Lane(r)
        <4>1. delivering[l] = r /\ delivering'[l] = None
          BY <1>0, <2>1, <2>2, <3>1 DEF LaneInv
        <4>2. q # r => ~(phase[q] \in Stored /\ Lane(q) = l)
          BY <1>0, <4>1 DEF LaneInv
        <4>3. ~(phase[q] = "queued" /\ Lane(q) = l)
          BY <2>1, <3>1, NoneIsDistinct DEF Queue
        <4> QED
          BY <2>1, <4>1, <4>2, <4>3, NoneIsDistinct DEF Stored
      <3>2. CASE l # Lane(r)
        BY <1>0, <2>1, <2>2, <3>2 DEF LaneInv, Stored
      <3> QED
        BY <3>1, <3>2
    <2> QED
      BY <2>1, <2>3 DEF LaneInv, Lane
  <1>7. ASSUME NEW r \in Requests, NEW s \in Requests, FinalizeAndServe(r, s) PROVE LaneInv'
    <2>1. /\ node' = node /\ phase[r] \in Stored
          /\ phase[s] = "queued" /\ Lane(s) = Lane(r) /\ Lane(r) # None
      BY <1>7 DEF FinalizeAndServe, Conclude, Frees, IsFront, Queue, request
    <2>2. /\ s # r
          /\ \A q \in Requests :
               phase'[q] = IF q = s THEN "ongoing" ELSE IF q = r THEN "gone" ELSE phase[q]
          /\ \A l \in Lanes : delivering'[l] = IF l = Lane(r) THEN s ELSE delivering[l]
      BY <1>0, <1>7, <2>1 DEF FinalizeAndServe, TypeOK, Stored
    <2>3. ASSUME NEW l \in Lanes, NEW q \in Requests
          PROVE  /\ phase'[q] \in Stored /\ Lane(q) = l <=> delivering'[l] = q
                 /\ delivering'[l] = None => ~(phase'[q] = "queued" /\ Lane(q) = l)
      <3>1. CASE l = Lane(r)
        <4>1. delivering[l] = r /\ delivering'[l] = s
          BY <1>0, <2>1, <2>2, <3>1 DEF LaneInv
        <4>2. q # r => ~(phase[q] \in Stored /\ Lane(q) = l)
          BY <1>0, <4>1 DEF LaneInv
        <4> QED
          BY <2>1, <2>2, <3>1, <4>1, <4>2, NoneIsDistinct DEF Stored
      <3>2. CASE l # Lane(r)
        BY <1>0, <2>1, <2>2, <3>2 DEF LaneInv, Stored
      <3> QED
        BY <3>1, <3>2
    <2> QED
      BY <2>1, <2>3 DEF LaneInv, Lane
  <1>8. ASSUME NEW p \in Sessions, CleanParent(p) PROVE LaneInv'
    <2>1. ASSUME NEW r \in Requests
          PROVE  /\ phase'[r] \in Stored <=> phase[r] \in Stored
                 /\ phase'[r] = "queued" => phase[r] = "queued"
      <3>1. CASE parent[r] # p
        BY <1>8, <3>1, CleanParentEffect
      <3>2. CASE parent[r] = p
        BY <1>8, <3>2, CleanParentEffect DEF Stored
      <3> QED
        BY <3>1, <3>2
    <2> QED
      BY <1>8, <2>1, LaneKept DEF CleanParent, request
  <1>9. CASE UNCHANGED <<request, order>>
    BY <1>0, <1>9 DEF request, order, LaneInv, Lane
  <1> QED
    BY <1>1, <1>2, <1>3, <1>4, <1>5, <1>6, <1>7, <1>8, <1>9
       DEF Next, CancelInside, Stop, EndParent, Validate, vars

LEMMA InvInit == Init => Inv
  BY NoneIsDistinct DEF Init, Inv, TypeOK, Ending, LaneInv, Stored

\* The inductive invariant.
THEOREM Invariant == Spec => []Inv
  <1>1. Inv /\ [Next]_vars => Inv'
    BY TypeNext, LaneNext DEF Inv
  <1> QED
    BY <1>1, InvInit, PTL DEF Spec

\* The variables have their types, and the cancellation of a supplanted order
\* never outlives the activity of its session.
THEOREM TypeCorrect == Spec => []TypeOK
  <1>1. Inv => TypeOK
    BY DEF Inv
  <1> QED
    BY <1>1, Invariant, PTL

\* Two workflows of one lane never overlap, and no queue is left that nothing
\* will pop, whatever preempts, ends or cleans them.
THEOREM LanesAreExclusive == Spec => []LaneIsItsSession
  <1>1. Inv => LaneIsItsSession
    BY DEF Inv, LaneInv, LaneIsItsSession, Queue
  <1> QED
    BY <1>1, Invariant, PTL

(***************************************************************************)
(* The parents.  A status never becomes active again, and an outcome that  *)
(* a live parent was sent stays; the last request of a parent that ends    *)
(* without an output asks for the validation.                              *)
(***************************************************************************)

\* Nothing has been made of a request at first.
LEMMA LostInit == Init => NothingIsLost /\ NoParentIsStuck
  BY DEF Init, NothingIsLost, NoParentIsStuck

\* No step takes a request from a parent that lives without an outcome.
LEMMA OutcomeStep ==
  ASSUME Inv, NothingIsLost, [Next]_vars
  PROVE  NothingIsLost'
  <1>0. TypeOK
    BY DEF Inv
  <1>1. ASSUME NEW r \in Requests, Filter(r) PROVE NothingIsLost'
    BY <1>0, <1>1 DEF Filter, NothingIsLost, TypeOK, request
  <1>2. ASSUME NEW r \in Requests, ServeImmediately(r) PROVE NothingIsLost'
    BY <1>0, <1>2 DEF ServeImmediately, NothingIsLost, TypeOK, request, parents
  <1>3. ASSUME NEW r \in Requests, ServeQueued(r) PROVE NothingIsLost'
    <2>1. status' = status /\ parent' = parent
      BY <1>3 DEF ServeQueued, request
    <2> QED
      BY <1>0, <1>3, <2>1, ServeQueuedEffect DEF NothingIsLost
  <1>4. ASSUME NEW r \in Requests, Terminate(r) \/ CancelOne(r) PROVE NothingIsLost'
    BY <1>0, <1>4 DEF Terminate, CancelOne, NothingIsLost, TypeOK, request, parents
  <1>5. ASSUME NEW r \in Requests, NEW q \in Requests, Finalize(r) \/ FinalizeAndServe(r, q)
        PROVE  NothingIsLost'
    <2>1. \A x \in Requests : phase'[x] = "gone" => x = r \/ phase[x] = "gone"
      BY <1>0, <1>5 DEF Finalize, FinalizeAndServe, TypeOK
    <2>2. \A p \in Sessions : status'[p] = "active" => status[p] = "active"
      BY <1>0, <1>5 DEF Finalize, FinalizeAndServe, Conclude, TypeOK
    <2>3. status[parent[r]] = "active" => outcome'[r] # "none"
      BY <1>0, <1>5 DEF Finalize, FinalizeAndServe, Conclude, TypeOK
    <2>4. \A x \in Requests : x # r => outcome'[x] = outcome[x]
      BY <1>0, <1>5 DEF Finalize, FinalizeAndServe, Conclude, TypeOK
    <2>5. parent' = parent
      BY <1>5 DEF Finalize, FinalizeAndServe, Conclude, request
    <2>6. \A x \in Requests : parent[x] \in Sessions
      BY <1>0 DEF TypeOK
    <2> QED
      BY <2>1, <2>2, <2>3, <2>4, <2>5, <2>6 DEF NothingIsLost
  <1>6. ASSUME NEW p \in Sessions, CleanParent(p) PROVE NothingIsLost'
    <2>1. /\ parent' = parent /\ outcome' = outcome
          /\ \A x \in Sessions : status'[x] = "active" => x # p /\ status[x] = "active"
      BY <1>0, <1>6 DEF CleanParent, TypeOK, request
    <2>2. \A x \in Requests : parent[x] \in Sessions
      BY <1>0 DEF TypeOK
    <2> QED
      BY <1>6, <2>1, <2>2, CleanParentEffect DEF NothingIsLost
  <1>7. CASE UNCHANGED <<request, order, outcome, status>>
    BY <1>7 DEF NothingIsLost, request, order
  <1> QED
    BY <1>1, <1>2, <1>3, <1>4, <1>5, <1>6, <1>7
       DEF Next, CancelInside, Stop, EndParent, Validate, vars, parents

\* No request is dropped without a word to a parent that lives.
THEOREM RequestsAreAccountedFor == Spec => []NothingIsLost
  <1>1. Inv /\ NothingIsLost /\ [Next]_vars => NothingIsLost'
    BY OutcomeStep
  <1> QED
    BY <1>1, Invariant, LostInit, PTL DEF Spec

\* A step that leaves the requests of a parent alone, or keeps one of them,
\* leaves the parent no more stuck than it was.
Settled(p) == \A r \in Requests : parent[r] = p => phase[r] = "gone" /\ outcome[r] # "output"

LEMMA NotStuck ==
  ASSUME NoParentIsStuck, parent' = parent,
         \A p \in Sessions : status'[p] = "active" /\ Settled(p)' =>
            p \in doubts' \/ (status[p] = "active" /\ Settled(p) /\ (p \in doubts => p \in doubts'))
  PROVE  NoParentIsStuck'
  BY DEF NoParentIsStuck, Settled

\* No step leaves a parent without a request that may end it or a validation.
LEMMA StuckStep ==
  ASSUME Inv, NoParentIsStuck, [Next]_vars
  PROVE  NoParentIsStuck'
  <1>0. TypeOK
    BY DEF Inv
  <1>1. ASSUME NEW r \in Requests, Filter(r) PROVE NoParentIsStuck'
    BY <1>0, <1>1, NotStuck DEF Filter, Settled, TypeOK, request, Ask
  <1>2. ASSUME NEW r \in Requests, ServeImmediately(r) PROVE NoParentIsStuck'
    BY <1>0, <1>2, NotStuck DEF ServeImmediately, Settled, TypeOK, request, parents
  <1>3. ASSUME NEW r \in Requests, ServeQueued(r) PROVE NoParentIsStuck'
    <2>1. /\ status' = status /\ parent' = parent
          /\ doubts' = doubts \cup {parent[q] : q \in Discarded(r)}
      BY <1>3 DEF ServeQueued, request, Ask, Supplanted
    <2>2. ASSUME NEW p \in Sessions, Settled(p)', p \notin doubts'
          PROVE  Settled(p)
      BY <1>3, <2>1, <2>2, ServeQueuedEffect, <1>0 DEF Settled
    <2> QED
      BY <2>1, <2>2, NotStuck
  <1>4. ASSUME NEW r \in Requests, Terminate(r) \/ CancelOne(r) PROVE NoParentIsStuck'
    BY <1>0, <1>4, NotStuck DEF Terminate, CancelOne, Settled, TypeOK, request, parents
  <1>5. ASSUME NEW r \in Requests, NEW q \in Requests, Finalize(r) \/ FinalizeAndServe(r, q)
        PROVE  NoParentIsStuck'
    <2>1. \A x \in Requests : phase'[x] = "gone" => x = r \/ phase[x] = "gone"
      BY <1>0, <1>5 DEF Finalize, FinalizeAndServe, TypeOK
    <2>2. \A p \in Sessions : status'[p] = "active" => status[p] = "active"
      BY <1>0, <1>5 DEF Finalize, FinalizeAndServe, Conclude, TypeOK
    <2>3. \A x \in Requests : x # r => outcome'[x] = outcome[x]
      BY <1>0, <1>5 DEF Finalize, FinalizeAndServe, Conclude, TypeOK
    <2>4. parent' = parent /\ doubts' = doubts \cup {parent[r]}
      BY <1>5 DEF Finalize, FinalizeAndServe, Conclude, request, Ask
    <2>5. ASSUME NEW p \in Sessions, Settled(p)', p \notin doubts'
          PROVE  Settled(p)
      BY <2>1, <2>3, <2>4, <2>5 DEF Settled
    <2> QED
      BY <2>2, <2>4, <2>5, NotStuck
  <1>6. ASSUME NEW p \in Sessions, CleanParent(p), doubts' \cup {p} = doubts \cup {p}
        PROVE  NoParentIsStuck'
    <2>1. /\ parent' = parent /\ outcome' = outcome
          /\ \A x \in Sessions : status'[x] = "active" => x # p /\ status[x] = "active"
      BY <1>0, <1>6 DEF CleanParent, TypeOK, request
    <2>2. ASSUME NEW x \in Sessions, x # p, Settled(x)'
          PROVE  Settled(x)
      BY <1>6, <2>1, <2>2, CleanParentEffect DEF Settled
    <2> QED
      BY <1>6, <2>1, <2>2, NotStuck
  <1>7. ASSUME NEW p \in Sessions, doubts' = doubts \ {p},
               UNCHANGED <<request, order, outcome, status>>,
               status[p] # "active" \/ \E lingers \in BOOLEAN : ParentIsReachable(p, lingers)
        PROVE  NoParentIsStuck'
    <2>1. parent' = parent /\ phase' = phase /\ outcome' = outcome /\ status' = status
      BY <1>7 DEF request, order
    <2>2. status[p] = "active" => ~Settled(p)
      BY <1>7 DEF ParentIsReachable, Settled, First, StoredFor, Stored
    <2> QED
      BY <1>7, <2>1, <2>2, NotStuck DEF Settled
  <1>8. CASE UNCHANGED vars
    BY <1>8 DEF NoParentIsStuck, vars, request, order, parents
  <1>9. ASSUME NEW p \in Sessions, Validate(p) PROVE NoParentIsStuck'
    BY <1>6, <1>7, <1>9 DEF Validate
  <1> QED
    BY <1>1, <1>2, <1>3, <1>4, <1>5, <1>6, <1>8, <1>9
       DEF Next, CancelInside, Stop, EndParent

\* A parent whose requests have all ended without an output is validated.
THEOREM ParentsAreValidated == Spec => []NoParentIsStuck
  <1>1. Inv /\ NoParentIsStuck /\ [Next]_vars => NoParentIsStuck'
    BY StuckStep
  <1> QED
    BY <1>1, Invariant, LostInit, PTL DEF Spec

=============================================================================
