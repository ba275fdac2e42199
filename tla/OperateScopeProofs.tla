------------------------- MODULE OperateScopeProofs -------------------------
(* What is proved of OperateScope for every value of its constants. *)
EXTENDS OperateScope, TLAPS

(***************************************************************************)
(* Types.  Only a cleanup that the parent has begun is notified: an early  *)
(* cleanup has the cleanup_id of one.                                      *)
(***************************************************************************)
EarlyIsBegun == \A s \in Sessions : finish[s] = "early" => cleanupId[s] \in begun

TypeInv == TypeOK /\ EarlyIsBegun

\* None is neither a cleanup_id nor a set of nodes or of workflows.
LEMMA NoneIsDistinct ==
  /\ None \notin Ids
  /\ \A S \in SUBSET Nodes : None # S
  /\ \A S \in SUBSET Workflows : None # S
  BY ScopeAssumption DEF Ids

\* What cleanup_entire_scope does to each session.
Cleans(S, id, how) ==
    /\ session' \in [Sessions -> {"none", "active", "cleaning", "despawned"}]
    /\ awaiting' \in SUBSET Sessions
    /\ finished' \in SUBSET Sessions
    /\ cleanupId' \in [Sessions -> Ids \cup {None}]
    /\ finish' \in [Sessions -> {"none", "terminated", "cancelled", "early"}]
    /\ contents' \in [Ids -> (SUBSET Nodes) \cup {None}]
    /\ dropping' \in SUBSET tasks
    /\ \A q \in Sessions :
          q \in S /\ session[q] = "active"
          => /\ session'[q] = "cleaning"
             /\ cleanupId'[q] = id
             /\ finish'[q] = how
             /\ q \in finished' <=> q \in finished \/ Busy(q) = {}
             /\ \A n \in Nodes : <<n, q>> \in dropping' <=> <<n, q>> \in tasks
    /\ \A q \in Sessions :
          ~(q \in S /\ session[q] = "active")
          => /\ session'[q] = session[q]
             /\ cleanupId'[q] = cleanupId[q]
             /\ finish'[q] = finish[q]
             /\ q \in finished' <=> q \in finished
             /\ \A n \in Nodes : <<n, q>> \in dropping' <=> <<n, q>> \in dropping
    /\ \A i \in Ids \ {id} : contents'[i] = contents[i]
    /\ \/ contents' = contents /\ \A q \in S : session[q] # "active"
       \/ \E last \in S : session[last] = "active" /\ contents'[id] = AwaitedFor(last)

LEMMA CleanupEntireScopeCleans ==
  ASSUME TypeOK, NEW S \in SUBSET Sessions, NEW id \in Ids,
         NEW how \in {"terminated", "cancelled", "early"},
         CleanupEntireScope(S, id, how)
  PROVE  Cleans(S, id, how)
  <1> DEFINE fresh == NotYetCleaning(S)
  <1>1. fresh \in SUBSET Sessions
    BY DEF NotYetCleaning
  <1>2. /\ session' = Assign(session, fresh, "cleaning")
        /\ awaiting' = awaiting \cup fresh
        /\ cleanupId' = Assign(cleanupId, fresh, id)
        /\ finish' = Assign(finish, fresh, how)
        /\ dropping' = dropping \cup {t \in tasks : t[2] \in fresh}
        /\ finished' = finished \cup {s \in fresh : Busy(s) = {}}
    BY DEF CleanupEntireScope
  <1>3. \A q \in Sessions : q \in fresh <=> q \in S /\ session[q] = "active"
    BY DEF NotYetCleaning
  <1>4. /\ session' \in [Sessions -> {"none", "active", "cleaning", "despawned"}]
        /\ \A q \in Sessions : session'[q] = IF q \in fresh THEN "cleaning" ELSE session[q]
    BY <1>2 DEF Assign, TypeOK
  <1>5. /\ cleanupId' \in [Sessions -> Ids \cup {None}]
        /\ \A q \in Sessions : cleanupId'[q] = IF q \in fresh THEN id ELSE cleanupId[q]
    BY <1>2 DEF Assign, TypeOK
  <1>6. /\ finish' \in [Sessions -> {"none", "terminated", "cancelled", "early"}]
        /\ \A q \in Sessions : finish'[q] = IF q \in fresh THEN how ELSE finish[q]
    BY <1>2 DEF Assign, TypeOK
  <1>7. /\ finished' \in SUBSET Sessions
        /\ \A q \in Sessions :
              q \in finished' <=> q \in finished \/ (q \in fresh /\ Busy(q) = {})
    BY <1>1, <1>2 DEF TypeOK
  <1>8. /\ dropping' \in SUBSET tasks
        /\ \A q \in Sessions, n \in Nodes :
              <<n, q>> \in dropping'
              <=> <<n, q>> \in dropping \/ (q \in fresh /\ <<n, q>> \in tasks)
    BY <1>2 DEF TypeOK
  <1>9. \A s \in Sessions : AwaitedFor(s) \in (SUBSET Nodes) \cup {None}
    BY DEF AwaitedFor, Busy
  <1>10. \/ fresh = {} /\ contents' = contents
         \/ \E last \in fresh : contents' = [contents EXCEPT ![id] = AwaitedFor(last)]
    BY DEF CleanupEntireScope
  <1>11. /\ contents' \in [Ids -> (SUBSET Nodes) \cup {None}]
         /\ \A i \in Ids \ {id} : contents'[i] = contents[i]
         /\ \/ fresh = {} /\ contents' = contents
            \/ \E last \in fresh : contents'[id] = AwaitedFor(last)
    <2>1. CASE fresh = {} /\ contents' = contents
      BY <2>1 DEF TypeOK
    <2>2. ASSUME NEW last \in fresh,
                 contents' = [contents EXCEPT ![id] = AwaitedFor(last)]
          PROVE  <1>11!1
      BY <2>2, <1>1, <1>9 DEF TypeOK
    <2> QED
      BY <1>10, <2>1, <2>2
  <1>12. awaiting' \in SUBSET Sessions
    BY <1>1, <1>2 DEF TypeOK
  <1> HIDE DEF fresh
  <1>13. \A q \in Sessions : q \in fresh => \A n \in Nodes : <<n, q>> \in dropping' <=> <<n, q>> \in tasks
    BY <1>8 DEF TypeOK
  <1> QED
    BY <1>1, <1>3, <1>4, <1>5, <1>6, <1>7, <1>8, <1>11, <1>12, <1>13 DEF Cleans

\* What finalize_scoped_session does to each session.
LEMMA FinalizeEffect ==
  ASSUME TypeInv, NEW s \in Sessions, Finalize(s)
  PROVE  /\ awaiting' \in SUBSET Sessions
         /\ notified' \in SUBSET begun
         /\ outcome' \in [Sessions -> {"none", "output", "disposed", "cleaned"}]
         /\ status' \in [Sessions -> Stored \cup {"new", "waiting", "purged"}]
         /\ session' \in [Sessions -> {"none", "active", "cleaning", "despawned"}]
         /\ terminal' \in SUBSET Sessions
         /\ staged' \in SUBSET Sessions
         /\ status'[s] = "purged" /\ session'[s] = "despawned" /\ outcome'[s] # "none"
         /\ \A q \in Sessions \ {s} : /\ status'[q] = status[q]
                                      /\ session'[q] = session[q]
                                      /\ outcome'[q] = outcome[q]
  <1>1. /\ awaiting' \in SUBSET Sessions
        /\ terminal' \in SUBSET Sessions
        /\ staged' \in SUBSET Sessions
    BY DEF Finalize, TypeInv, TypeOK
  <1>2. notified' \in SUBSET begun
    <2>1. CASE notified' = notified
      BY <2>1 DEF TypeInv, TypeOK
    <2>2. CASE /\ notified' = notified \cup {cleanupId[s]}
               /\ \E q \in Sessions : finish[q] = "early" /\ cleanupId[q] = cleanupId[s]
      BY <2>2 DEF TypeInv, TypeOK, EarlyIsBegun
    <2> QED
      BY <2>1, <2>2 DEF Finalize, TypeInv, TypeOK
  <1>3. /\ outcome' \in [Sessions -> {"none", "output", "disposed", "cleaned"}]
        /\ outcome'[s] # "none"
        /\ \A q \in Sessions \ {s} : outcome'[q] = outcome[q]
    BY DEF Finalize, TypeInv, TypeOK
  <1>4. /\ status' \in [Sessions -> Stored \cup {"new", "waiting", "purged"}]
        /\ status'[s] = "purged"
        /\ \A q \in Sessions \ {s} : status'[q] = status[q]
    BY DEF Finalize, TypeInv, TypeOK
  <1>5. /\ session' \in [Sessions -> {"none", "active", "cleaning", "despawned"}]
        /\ session'[s] = "despawned"
        /\ \A q \in Sessions \ {s} : session'[q] = session[q]
    BY DEF Finalize, TypeInv, TypeOK
  <1> QED
    BY <1>1, <1>2, <1>3, <1>4, <1>5

LEMMA TypeInvInit == Init => TypeInv
  BY DEF Init, TypeInv, TypeOK, EarlyIsBegun, Ids

\* The sessions that an early cleanup changes get its cleanup_id.
LEMMA EarlyIsBegunKept ==
  ASSUME TypeInv, NEW S \in SUBSET Sessions, NEW id \in Ids,
         NEW how \in {"terminated", "cancelled", "early"}, Cleans(S, id, how),
         how = "early" => id \in begun', begun \subseteq begun'
  PROVE  EarlyIsBegun'
  BY DEF Cleans, EarlyIsBegun, TypeInv

LEMMA TypeInvNext == TypeInv /\ [Next]_vars => TypeInv'
  <1> SUFFICES ASSUME TypeInv, [Next]_vars PROVE TypeInv'
    OBVIOUS
  <1> USE DEF TypeInv, TypeOK, EarlyIsBegun, inner, cleaning, parent
  <1>1. ASSUME NEW s \in Sessions, GiveInput(s) \/ BeginScope(s) PROVE TypeInv'
    BY <1>1 DEF GiveInput, BeginScope, Stored
  <1>2. ASSUME NEW s \in Sessions,
               ReachTerminal(s) \/ TerminateIgnored(s)
        PROVE  TypeInv'
    BY <1>2 DEF ReachTerminal, TerminateIgnored
  <1>3. ASSUME NEW n \in Nodes, NEW s \in Sessions, StartTask(n, s) \/ FinishTask(n, s)
        PROVE  TypeInv'
    BY <1>3 DEF StartTask, FinishTask
  <1>4. CASE SwitchStage
    BY <1>4 DEF SwitchStage
  <1>5. ASSUME NEW p \in Parents, DespawnParent(p) PROVE TypeInv'
    BY <1>5 DEF DespawnParent
  <1>6. ASSUME NEW s \in Sessions, Terminate(s) \/ CancelScope(s) PROVE TypeInv'
    <2>1. PICK how \in {"terminated", "cancelled", "early"} :
             how # "early" /\ CleanupEntireScope({s}, s, how)
      BY <1>6 DEF Terminate, CancelScope
    <2>2. s \in Ids /\ {s} \in SUBSET Sessions
      BY DEF Ids
    <2>3. Cleans({s}, s, how)
      BY <2>1, <2>2, CleanupEntireScopeCleans
    <2>4. EarlyIsBegun'
      <3>1. begun \subseteq begun'
        BY <1>6 DEF Terminate, CancelScope
      <3> QED
        BY <2>1, <2>3, <3>1 DEF Cleans
    <2>5. status' \in [Sessions -> Stored \cup {"new", "waiting", "purged"}]
      BY <1>6 DEF Terminate, CancelScope, Stored
    <2> QED
      BY <1>6, <2>3, <2>4, <2>5 DEF Terminate, CancelScope, Cleans
  <1>7. ASSUME NEW c \in Cleanups, EarlyCleanup(c) PROVE TypeInv'
    <2>1. ToCleanup(CleanupOf[c]) \in SUBSET Sessions /\ c \in Ids
      BY DEF ToCleanup, StoredFor, Ids
    <2>2. Cleans(ToCleanup(CleanupOf[c]), c, "early")
      BY <1>7, <2>1, CleanupEntireScopeCleans DEF EarlyCleanup
    <2>3. EarlyIsBegun'
      BY <1>7, <2>1, <2>2, EarlyIsBegunKept DEF EarlyCleanup
    <2>4. /\ status' \in [Sessions -> Stored \cup {"new", "waiting", "purged"}]
          /\ outcome' \in [Sessions -> {"none", "output", "disposed", "cleaned"}]
      BY <1>7 DEF EarlyCleanup, Assign, Stored
    <2>5. CleanupOf[c] \in Parents
      BY ScopeAssumption
    <2>6. begun' \in SUBSET Cleanups /\ notified' \in SUBSET begun'
      BY <1>7 DEF EarlyCleanup
    <2>7. closed' \in SUBSET Parents /\ gone' \in SUBSET closed'
      BY <1>7, <2>5 DEF EarlyCleanup
    <2> QED
      BY <1>7, <2>1, <2>2, <2>3, <2>4, <2>6, <2>7
         DEF EarlyCleanup, Cleans
  <1>8. ASSUME NEW n \in Nodes, NEW s \in Sessions, TaskDropped(n, s) PROVE TypeInv'
    <2>1. contents' \in [Ids -> (SUBSET Nodes) \cup {None}]
      BY <1>8 DEF TaskDropped, AwaitedAfter
    <2> QED
      BY <1>8, <2>1 DEF TaskDropped
  <1>9. \A s \in Sessions : WorkflowsFor(s) \in SUBSET Workflows
    BY ScopeAssumption DEF WorkflowsFor
  <1>10. ASSUME NEW s \in Sessions, CleanupFinished(s) PROVE TypeInv'
    <2>1. CASE Finalize(s)
      BY <1>9, <1>10, <2>1, FinalizeEffect DEF CleanupFinished
    <2>2. CASE ~Finalize(s)
      BY <1>9, <1>10, <2>2 DEF CleanupFinished
    <2> QED
      BY <2>1, <2>2
  <1>11. ASSUME NEW w \in Workflows, NEW s \in Sessions, FinishCleanup(w, s)
         PROVE  TypeInv'
    <2>1. pending' \in [Sessions -> (SUBSET Workflows) \cup {None}]
      BY <1>11 DEF FinishCleanup
    <2>2. CASE Finalize(s)
      BY <1>11, <2>1, <2>2, FinalizeEffect DEF FinishCleanup
    <2>3. CASE ~Finalize(s)
      BY <1>11, <2>1, <2>3 DEF FinishCleanup
    <2> QED
      BY <2>2, <2>3
  <1>12. CASE UNCHANGED vars
    BY <1>12 DEF vars
  <1> QED
    BY <1>1, <1>2, <1>3, <1>4, <1>5, <1>6, <1>7, <1>8, <1>10, <1>11, <1>12
       DEF Next, Flush, InnerWorkflow, Parent

LEMMA TypeInvariant == Spec => []TypeInv
  BY TypeInvInit, TypeInvNext, PTL DEF Spec

\* Every variable of the scope keeps its type, and only cleanups that the parent
\* has asked for are ever notified.
THEOREM TypeCorrect == Spec => []TypeOK
  <1>1. TypeInv => TypeOK
    BY DEF TypeInv
  <1> QED
    BY <1>1, TypeInvariant, PTL

-----------------------------------------------------------------------------
(***************************************************************************)
(* The cleanup of a session, by the fields of its AwaitingCleanup.         *)
(*                                                                         *)
(* A session has a cleanup_id from the moment that its cleanup begins, its *)
(* own or that of a cleanup which the parent has begun, and no task of it  *)
(* goes on from there.  Once its cleanup workflows have begun, no node is  *)
(* awaited under the cleanup_id and the session is not in the roster, so   *)
(* that neither can happen twice; a purged session has none left to run.   *)
(* The nodes awaited are exactly those that run its tasks, but only if no  *)
(* other session shares the cleanup_id.                                    *)
(***************************************************************************)
NotCleaned(s) ==
    /\ session[s] \in {"none", "active"} => cleanupId[s] = None
    /\ session[s] = "cleaning" => cleanupId[s] # None
    /\ status[s] \in {"new", "waiting"} => session[s] = "none"
    /\ cleanupId[s] = None => /\ finish[s] = "none"
                              /\ pending[s] = None
                              /\ s \notin finished

CleanedBy(s) == cleanupId[s] \in begun \cup {s, None}

Dropped(s) ==
    \A n \in Nodes :
        <<n, s>> \in dropping <=> <<n, s>> \in tasks /\ cleanupId[s] # None

CleanedOnce(s) ==
    pending[s] # None => contents[cleanupId[s]] = None /\ s \notin finished

Purged(s) ==
    /\ outcome[s] # "none" <=> status[s] = "purged"
    /\ status[s] = "purged" => pending[s] = {} \/ session[s] = "none"

AwaitsItsTasks(s) ==
    cleanupId[s] # None /\ ~SharesCleanup(s)
    => /\ contents[cleanupId[s]] = AwaitedFor(s)
       /\ s \in finished => Busy(s) = {}

Progresses(s) ==
    session[s] = "cleaning"
    => /\ pending[s] # {}
       /\ ~SharesCleanup(s) /\ Busy(s) = {} => s \in finished \/ pending[s] # None

SessionInv(s) ==
    /\ NotCleaned(s)
    /\ CleanedBy(s)
    /\ Dropped(s)
    /\ CleanedOnce(s)
    /\ Purged(s)
    /\ AwaitsItsTasks(s)
    /\ Progresses(s)

CleaningInv == \A s \in Sessions : SessionInv(s)

\* Tasks of other sessions do not matter.
LEMMA BusyUnchanged ==
  ASSUME NEW s \in Sessions,
         \A n \in Nodes : <<n, s>> \in tasks' <=> <<n, s>> \in tasks
  PROVE  Busy(s)' = Busy(s) /\ AwaitedFor(s)' = AwaitedFor(s)
  <1>1. Busy(s)' = Busy(s)
    BY DEF Busy
  <1> QED
    BY <1>1 DEF AwaitedFor

LEMMA SharesUnchanged ==
  ASSUME cleanupId' = cleanupId, NEW s \in Sessions
  PROVE  SharesCleanup(s)' <=> SharesCleanup(s)
  BY DEF SharesCleanup

LEMMA CleaningInvInit == Init => CleaningInv
  BY DEF Init, CleaningInv, SessionInv, NotCleaned, CleanedBy, Dropped, CleanedOnce,
         Purged, AwaitsItsTasks, Progresses

\* A session whose own state does not change, except that it may be given to
\* the scope, begun, or despawned by its parent.
LEMMA SessionInvKept ==
  ASSUME TypeInv, NEW s \in Sessions, SessionInv(s),
         UNCHANGED <<cleanupId, finish, begun>>,
         pending'[s] = pending[s],
         (s \in finished') = (s \in finished),
         \/ contents'[cleanupId[s]] = contents[cleanupId[s]]
         \/ SharesCleanup(s) /\ contents'[cleanupId[s]] = None,
         \A n \in Nodes : /\ <<n, s>> \in tasks' <=> <<n, s>> \in tasks
                          /\ <<n, s>> \in dropping' <=> <<n, s>> \in dropping,
         outcome'[s] = outcome[s],
         \/ status'[s] = status[s] /\ session'[s] = session[s]
         \/ status'[s] = status[s] /\ session[s] # "none" /\ session'[s] = "despawned"
         \/ status[s] = "new" /\ status'[s] = "waiting" /\ session'[s] = session[s]
         \/ status[s] = "waiting" /\ status'[s] = "ongoing" /\ session'[s] = "active"
  PROVE  SessionInv(s)'
  <1>1. Busy(s)' = Busy(s) /\ AwaitedFor(s)' = AwaitedFor(s)
    BY BusyUnchanged
  <1>2. SharesCleanup(s)' <=> SharesCleanup(s)
    BY SharesUnchanged
  <1>3. NotCleaned(s)' /\ CleanedBy(s)' /\ CleanedOnce(s)'
    BY DEF SessionInv, NotCleaned, CleanedBy, CleanedOnce
  <1>4. Dropped(s)'
    BY DEF SessionInv, Dropped
  <1>5. Purged(s)'
    BY DEF SessionInv, Purged, NotCleaned
  <1>6. AwaitsItsTasks(s)' /\ Progresses(s)'
    BY <1>1, <1>2 DEF SessionInv, AwaitsItsTasks, Progresses
  <1> QED
    BY <1>3, <1>4, <1>5, <1>6 DEF SessionInv

\* Only a session that is not being cleaned starts and finishes tasks.
LEMMA SessionInvTasks ==
  ASSUME TypeInv, NEW s \in Sessions, SessionInv(s), NEW n \in Nodes,
         NEW x \in Sessions, StartTask(n, x) \/ FinishTask(n, x)
  PROVE  SessionInv(s)'
  <1>1. UNCHANGED <<cleanupId, finish, pending, contents, finished, begun, dropping,
                    outcome, status, session>>
    BY DEF StartTask, FinishTask, cleaning, parent
  <1>2. CASE s # x
    <2>1. \A m \in Nodes : <<m, s>> \in tasks' <=> <<m, s>> \in tasks
      BY <1>2 DEF StartTask, FinishTask
    <2> QED
      BY <1>1, <2>1, SessionInvKept
  <1>3. CASE s = x
    <2>1. cleanupId[s] = None
      BY <1>3 DEF StartTask, FinishTask, SessionInv, NotCleaned, Dropped
    <2>2. NotCleaned(s)' /\ CleanedBy(s)' /\ CleanedOnce(s)' /\ Purged(s)'
      BY <1>1 DEF SessionInv, NotCleaned, CleanedBy, CleanedOnce, Purged
    <2>3. Dropped(s)'
      BY <1>1, <2>1 DEF SessionInv, Dropped
    <2>4. AwaitsItsTasks(s)' /\ Progresses(s)'
      BY <1>1, <2>1 DEF SessionInv, NotCleaned, AwaitsItsTasks, Progresses
    <2> QED
      BY <2>2, <2>3, <2>4 DEF SessionInv
  <1> QED
    BY <1>2, <1>3

\* A termination, a cancellation or an early cleanup.  Its cleanup_id is new, so
\* that it changes nothing for the sessions that are being cleaned already.
LEMMA SessionInvCleans ==
  ASSUME TypeInv, CleaningInv, NEW s \in Sessions,
         NEW S \in SUBSET Sessions, NEW id \in Ids,
         NEW how \in {"terminated", "cancelled", "early"},
         Cleans(S, id, how),
         \A q \in Sessions : cleanupId[q] = id => \A r \in S : session[r] # "active",
         tasks' = tasks, pending' = pending, begun \subseteq begun',
         s \in S => id \in begun' \cup {s},
         outcome'[s] # "none" <=> status'[s] = "purged",
         status'[s] = "purged" => pending[s] = {} \/ session[s] = "none",
         s \in S => status'[s] \notin {"new", "waiting"},
         status'[s] \in {"new", "waiting"} => status[s] \in {"new", "waiting"}
  PROVE  SessionInv(s)'
  <1> DEFINE fresh(q) == q \in S /\ session[q] = "active"
  <1>1. SessionInv(s)
    BY DEF CleaningInv
  <1>2. Busy(s)' = Busy(s) /\ AwaitedFor(s)' = AwaitedFor(s)
    BY BusyUnchanged
  <1>3. CASE fresh(s)
    <2>1. /\ session'[s] = "cleaning" /\ cleanupId'[s] = id /\ id # None
          /\ s \in finished' <=> s \in finished \/ Busy(s) = {}
          /\ \A n \in Nodes : <<n, s>> \in dropping' <=> <<n, s>> \in tasks
          /\ cleanupId[s] = None /\ pending[s] = None /\ s \notin finished
      BY <1>1, <1>3, NoneIsDistinct DEF Cleans, SessionInv, NotCleaned
    <2>2. NotCleaned(s)' /\ CleanedBy(s)' /\ CleanedOnce(s)'
      BY <1>3, <2>1 DEF NotCleaned, CleanedBy, CleanedOnce
    <2>3. Dropped(s)'
      BY <2>1 DEF Dropped
    <2>4. Purged(s)'
      BY <1>3, <2>1, NoneIsDistinct DEF Purged
    <2>5. SharesCleanup(s)' \/ contents'[id] = AwaitedFor(s)
      <3>1. PICK last \in S : session[last] = "active" /\ contents'[id] = AwaitedFor(last)
        BY <1>3 DEF Cleans
      <3>2. last \in Sessions /\ cleanupId'[last] = id
        BY <3>1 DEF Cleans
      <3>3. CASE last # s
        BY <2>1, <3>2, <3>3 DEF SharesCleanup
      <3>4. CASE last = s
        BY <3>1, <3>4
      <3> QED
        BY <3>3, <3>4
    <2>6. AwaitsItsTasks(s)' /\ Progresses(s)'
      BY <1>2, <2>1, <2>5, NoneIsDistinct DEF AwaitsItsTasks, Progresses
    <2> QED
      BY <2>2, <2>3, <2>4, <2>6 DEF SessionInv
  <1>4. CASE ~fresh(s)
    <2>1. /\ session'[s] = session[s] /\ cleanupId'[s] = cleanupId[s]
          /\ finish'[s] = finish[s]
          /\ s \in finished' <=> s \in finished
          /\ \A n \in Nodes : <<n, s>> \in dropping' <=> <<n, s>> \in dropping
      BY <1>4 DEF Cleans
    <2>2. cleanupId[s] # None => contents'[cleanupId[s]] = contents[cleanupId[s]]
      <3>1. cleanupId[s] \in Ids \cup {None}
        BY DEF TypeInv, TypeOK
      <3>2. CASE cleanupId[s] = id
        BY <3>2 DEF Cleans
      <3>3. CASE cleanupId[s] # id
        BY <3>1, <3>3 DEF Cleans
      <3> QED
        BY <3>2, <3>3
    <2>3. SharesCleanup(s) => SharesCleanup(s)'
      <3>1. ASSUME NEW q \in Sessions \ {s}, cleanupId[s] # None,
                   cleanupId[q] = cleanupId[s]
            PROVE  cleanupId'[q] = cleanupId'[s]
        <4>1. session[q] # "active"
          BY <3>1 DEF CleaningInv, SessionInv, NotCleaned
        <4> QED
          BY <2>1, <3>1, <4>1 DEF Cleans
      <3> QED
        BY <2>1, <3>1 DEF SharesCleanup
    <2>8. pending'[s] = pending[s]
      OBVIOUS
    <2>9. NotCleaned(s)'
      BY <1>1, <2>1, <2>8 DEF SessionInv, NotCleaned
    <2>10. CleanedBy(s)'
      BY <1>1, <2>1 DEF SessionInv, CleanedBy
    <2>11. CleanedOnce(s)'
      BY <1>1, <2>1, <2>2, <2>8 DEF SessionInv, NotCleaned, CleanedOnce
    <2>5. Dropped(s)'
      BY <1>1, <2>1 DEF SessionInv, Dropped
    <2>6. Purged(s)'
      BY <2>1 DEF Purged
    <2>7. AwaitsItsTasks(s)'
      BY <1>1, <1>2, <2>1, <2>2, <2>3 DEF SessionInv, AwaitsItsTasks
    <2>12. Progresses(s)'
      BY <1>1, <1>2, <2>1, <2>3, <2>8 DEF SessionInv, Progresses
    <2> QED
      BY <2>5, <2>6, <2>7, <2>9, <2>10, <2>11, <2>12 DEF SessionInv
  <1> QED
    BY <1>3, <1>4

\* Terminate and cancel_one clean one session under an id of its own.
LEMMA EndsClean ==
  ASSUME TypeInv, NEW x \in Sessions, Terminate(x) \/ CancelScope(x)
  PROVE  \E how \in {"terminated", "cancelled"} : Cleans({x}, x, how)
  <1>1. PICK how \in {"terminated", "cancelled"} : CleanupEntireScope({x}, x, how)
    BY DEF Terminate, CancelScope
  <1>2. x \in Ids /\ {x} \in SUBSET Sessions
    BY DEF Ids
  <1> QED
    BY <1>1, <1>2, CleanupEntireScopeCleans DEF TypeInv

\* An early cleanup cleans the sessions of its parent session, and purges the
\* inputs that wait for one.
LEMMA EarlyCleanupEffect ==
  ASSUME TypeInv, NEW c \in Cleanups, EarlyCleanup(c)
  PROVE  /\ c \in Ids /\ ToCleanup(CleanupOf[c]) \in SUBSET Sessions
         /\ Cleans(ToCleanup(CleanupOf[c]), c, "early")
         /\ \A s \in Sessions :
              IF ParentOf[s] = CleanupOf[c] /\ status[s] = "waiting"
              THEN status'[s] = "purged" /\ outcome'[s] = "cleaned"
              ELSE /\ outcome'[s] = outcome[s]
                   /\ status'[s] =
                        IF ParentOf[s] = CleanupOf[c] /\ status[s] \in Stored \ {"cleanup"}
                        THEN IF Uninterruptible THEN "deferred" ELSE "cleanup"
                        ELSE status[s]
  <1> DEFINE inputs == {q \in Sessions : ParentOf[q] = CleanupOf[c] /\ status[q] = "waiting"}
             changed == {q \in StoredFor(CleanupOf[c]) : status[q] # "cleanup"}
             how == IF Uninterruptible THEN "deferred" ELSE "cleanup"
  <1>1. c \in Ids /\ ToCleanup(CleanupOf[c]) \in SUBSET Sessions
    BY DEF Ids, ToCleanup, StoredFor
  <1>2. Cleans(ToCleanup(CleanupOf[c]), c, "early")
    BY <1>1, CleanupEntireScopeCleans DEF EarlyCleanup, TypeInv
  <1>3. /\ status' = Assign(Assign(status, inputs, "purged"), changed, how)
        /\ outcome' = Assign(outcome, inputs, "cleaned")
    BY DEF EarlyCleanup
  <1>4. \A q \in Sessions :
           /\ q \in inputs <=> ParentOf[q] = CleanupOf[c] /\ status[q] = "waiting"
           /\ q \in changed <=> ParentOf[q] = CleanupOf[c] /\ status[q] \in Stored \ {"cleanup"}
    BY DEF StoredFor
  <1> HIDE DEF inputs, changed, how
  <1>5. \A q \in Sessions :
           /\ status'[q] = IF q \in changed THEN how
                           ELSE IF q \in inputs THEN "purged" ELSE status[q]
           /\ outcome'[q] = IF q \in inputs THEN "cleaned" ELSE outcome[q]
    BY <1>3 DEF Assign, TypeInv, TypeOK
  <1>6. "waiting" \notin Stored
    BY DEF Stored
  <1> QED
    BY <1>1, <1>2, <1>4, <1>5, <1>6 DEF how

\* A session that is ended from the inside.
LEMMA SessionInvEnds ==
  ASSUME TypeInv, CleaningInv, NEW s \in Sessions, NEW x \in Sessions,
         Terminate(x) \/ CancelScope(x)
  PROVE  SessionInv(s)'
  <1>2. x \in Ids /\ {x} \in SUBSET Sessions
    BY DEF Ids
  <1>3. PICK how \in {"terminated", "cancelled"} : Cleans({x}, x, how)
    BY EndsClean
  <1>4. \A q \in Sessions : cleanupId[q] = x => \A r \in {x} : session[r] # "active"
    <2>1. ASSUME NEW q \in Sessions, cleanupId[q] = x PROVE session[x] # "active"
      <3>1. x \notin begun /\ x # None
        BY ScopeAssumption DEF TypeInv, TypeOK
      <3>2. q = x
        BY <2>1, <3>1 DEF CleaningInv, SessionInv, CleanedBy
      <3> QED
        BY <2>1, <3>1, <3>2 DEF CleaningInv, SessionInv, NotCleaned
    <2> QED
      BY <2>1
  <1>5. tasks' = tasks /\ pending' = pending /\ begun' = begun /\ outcome' = outcome
    BY DEF Terminate, CancelScope, inner, parent
  <1>6. /\ (status[s] # "purged" /\ status'[s] # "purged") \/ status'[s] = status[s]
        /\ status'[s] \in {"new", "waiting"} => status[s] \in {"new", "waiting"}
        /\ s \in {x} => status'[s] \notin {"new", "waiting"}
    BY DEF Terminate, CancelScope, MayBeCancelled, TypeInv, TypeOK
  <1>7. SessionInv(s)
    BY DEF CleaningInv
  <1>8. /\ outcome'[s] # "none" <=> status'[s] = "purged"
        /\ status'[s] = "purged" => pending[s] = {} \/ session[s] = "none"
    BY <1>5, <1>6, <1>7 DEF SessionInv, Purged
  <1>9. s \in {x} => x \in begun' \cup {s}
    OBVIOUS
  <1> QED
    BY <1>2, <1>3, <1>4, <1>5, <1>6, <1>8, <1>9, SessionInvCleans

\* An early cleanup has the id of a cleanup that was not begun before.
LEMMA SessionInvEarlyCleanup ==
  ASSUME TypeInv, CleaningInv, NEW s \in Sessions, NEW c \in Cleanups, EarlyCleanup(c)
  PROVE  SessionInv(s)'
  <1> DEFINE S == ToCleanup(CleanupOf[c])
             input == ParentOf[s] = CleanupOf[c] /\ status[s] = "waiting"
             changed == ParentOf[s] = CleanupOf[c] /\ status[s] \in Stored \ {"cleanup"}
  <1>1. c \in Ids /\ S \in SUBSET Sessions /\ (s \in S => changed)
    BY EarlyCleanupEffect DEF ToCleanup, StoredFor
  <1>2. Cleans(S, c, "early")
    BY EarlyCleanupEffect
  <1>3. \A q \in Sessions : cleanupId[q] # c
    <2>1. c \notin begun /\ c \notin Sessions /\ c # None
      BY ScopeAssumption DEF EarlyCleanup
    <2> QED
      BY <2>1 DEF CleaningInv, SessionInv, CleanedBy
  <1>4. /\ tasks' = tasks /\ pending' = pending
        /\ begun \subseteq begun' /\ c \in begun'
    BY DEF EarlyCleanup, inner
  <1>5. /\ input => status'[s] = "purged" /\ outcome'[s] = "cleaned"
        /\ changed => status'[s] \in {"deferred", "cleanup"} /\ outcome'[s] = outcome[s]
        /\ ~(input \/ changed) => status'[s] = status[s] /\ outcome'[s] = outcome[s]
    BY EarlyCleanupEffect DEF Stored
  <1> HIDE DEF S
  <1>6. SessionInv(s)
    BY DEF CleaningInv
  <1>7. /\ outcome'[s] # "none" <=> status'[s] = "purged"
        /\ status'[s] = "purged" => pending[s] = {} \/ session[s] = "none"
    BY <1>5, <1>6 DEF SessionInv, Purged, NotCleaned, Stored
  <1>8. /\ s \in S => status'[s] \notin {"new", "waiting"}
        /\ status'[s] \in {"new", "waiting"} => status[s] \in {"new", "waiting"}
    BY <1>1, <1>5
  <1> QED
    BY <1>1, <1>2, <1>3, <1>4, <1>7, <1>8, SessionInvCleans

\* A task that is dropped is no longer awaited, and the last puts its session in
\* the roster.
LEMMA SessionInvTaskDropped ==
  ASSUME TypeInv, CleaningInv, NEW s \in Sessions, NEW n \in Nodes, NEW x \in Sessions,
         TaskDropped(n, x)
  PROVE  SessionInv(s)'
  <1> DEFINE id == cleanupId[x]
             others == {q \in Sessions \ {x} : <<n, q>> \in dropping /\ cleanupId[q] = id}
             notifies == others = {} /\ contents[id] # None
             last == notifies /\ AwaitedAfter(n, id) = {}
  <1>1. UNCHANGED <<cleanupId, finish, pending, begun, outcome, status, session>>
    BY DEF TaskDropped, parent
  <1>2. SessionInv(s) /\ SessionInv(x)
    BY DEF CleaningInv
  <1>3. /\ <<n, x>> \in dropping
        /\ tasks' = tasks \ {<<n, x>>} /\ dropping' = dropping \ {<<n, x>>}
        /\ finished' = IF last THEN finished \cup {x} ELSE finished
        /\ contents' = [contents EXCEPT ![id] = IF last THEN None
                                                ELSE IF notifies THEN AwaitedAfter(n, id)
                                                ELSE @]
    BY DEF TaskDropped
  <1>4. id # None /\ id \in Ids
    BY <1>2, <1>3 DEF SessionInv, Dropped, TypeInv, TypeOK
  <1>5. contents[id] = None => contents' = contents /\ finished' = finished
    BY <1>3 DEF TypeInv, TypeOK
  <1>6. \A i \in Ids \ {id} : contents'[i] = contents[i]
    BY <1>3 DEF TypeInv, TypeOK
  <1>7. SharesCleanup(s)' <=> SharesCleanup(s)
    BY <1>1, SharesUnchanged
  <1>8. NotCleaned(s)' /\ CleanedBy(s)' /\ Purged(s)'
    BY <1>1, <1>2, <1>3, <1>4 DEF SessionInv, NotCleaned, CleanedBy, Purged
  <1>9. Dropped(s)'
    BY <1>1, <1>2, <1>3 DEF SessionInv, Dropped
  <1>10. cleanupId[s] \in Ids \cup {None}
    BY DEF TypeInv, TypeOK
  <1>11. CleanedOnce(s)'
    <2> SUFFICES ASSUME pending[s] # None
                 PROVE  contents'[cleanupId[s]] = None /\ s \notin finished'
      BY <1>1 DEF CleanedOnce
    <2>1. contents[cleanupId[s]] = None /\ s \notin finished /\ cleanupId[s] \in Ids
      BY <1>2, <1>10 DEF SessionInv, CleanedOnce, NotCleaned
    <2>2. CASE cleanupId[s] = id
      BY <1>5, <2>1, <2>2
    <2>3. CASE cleanupId[s] # id
      BY <1>3, <1>6, <2>1, <2>3
    <2> QED
      BY <2>2, <2>3
  <1>12. CASE s = x /\ ~SharesCleanup(s)
    <2>1. n \in Busy(s) /\ contents[id] = Busy(s)
      <3>1. n \in Busy(s)
        BY <1>3, <1>12 DEF Busy, TypeInv, TypeOK
      <3> QED
        BY <1>2, <1>4, <1>12, <3>1 DEF SessionInv, AwaitsItsTasks, AwaitedFor
    <2>2. others = {}
      BY <1>4, <1>12 DEF SharesCleanup
    <2>3. notifies
      BY <2>1, <2>2, NoneIsDistinct DEF Busy
    <2>4. Busy(s)' = Busy(s) \ {n} /\ AwaitedAfter(n, id) = Busy(s) \ {n}
      <3>1. Busy(s)' = Busy(s) \ {n}
        BY <1>3, <1>12 DEF Busy
      <3> QED
        BY <2>1, <3>1 DEF AwaitedAfter
    <2> HIDE DEF others, notifies, last
    <2>5. last <=> Busy(s)' = {}
      BY <2>3, <2>4 DEF last
    <2>6. contents'[id] = IF last THEN None ELSE Busy(s)'
      BY <1>3, <1>4, <2>3, <2>4 DEF TypeInv, TypeOK
    <2>7. contents'[id] = AwaitedFor(s)'
      BY <2>5, <2>6 DEF AwaitedFor
    <2>8. AwaitsItsTasks(s)'
      <3>1. s \in finished' => Busy(s)' = {}
        <4>1. s \notin finished
          BY <1>2, <1>4, <1>12, <2>1 DEF SessionInv, AwaitsItsTasks
        <4> QED
          BY <1>3, <2>5, <4>1
      <3> QED
        BY <1>1, <1>12, <2>7, <3>1 DEF AwaitsItsTasks
    <2>9. Progresses(s)'
      BY <1>1, <1>2, <1>3, <1>12, <2>5 DEF SessionInv, Progresses
    <2> QED
      BY <1>8, <1>9, <1>11, <2>8, <2>9 DEF SessionInv
  <1>13. CASE SharesCleanup(s)
    <2>1. AwaitsItsTasks(s)' /\ Progresses(s)'
      BY <1>1, <1>2, <1>7, <1>13 DEF SessionInv, AwaitsItsTasks, Progresses
    <2> QED
      BY <1>8, <1>9, <1>11, <2>1 DEF SessionInv
  <1>14. CASE s # x /\ ~SharesCleanup(s)
    <2>1. \A m \in Nodes : <<m, s>> \in tasks' <=> <<m, s>> \in tasks
      BY <1>3, <1>14
    <2>2. Busy(s)' = Busy(s) /\ AwaitedFor(s)' = AwaitedFor(s)
      BY <2>1, BusyUnchanged
    <2>3. cleanupId[s] # None => contents'[cleanupId[s]] = contents[cleanupId[s]]
      BY <1>4, <1>6, <1>10, <1>14 DEF SharesCleanup
    <2>4. s \in finished' <=> s \in finished
      BY <1>3, <1>14
    <2>5. AwaitsItsTasks(s)'
      BY <1>1, <1>2, <1>7, <2>2, <2>3, <2>4 DEF SessionInv, AwaitsItsTasks
    <2>6. Progresses(s)'
      BY <1>1, <1>2, <1>7, <2>2, <2>4 DEF SessionInv, Progresses
    <2> QED
      BY <1>8, <1>9, <1>11, <2>5, <2>6 DEF SessionInv
  <1> QED
    BY <1>12, <1>13, <1>14

\* finalize_scoped_session and what precedes it change nothing of the sessions
\* that are not finalized.
Untouched(s) ==
    /\ status'[s] = status[s] /\ session'[s] = session[s] /\ outcome'[s] = outcome[s]

LEMMA SessionInvFinishes ==
  ASSUME TypeInv, NEW s \in Sessions, SessionInv(s),
         cleanupId[s] # None,
         UNCHANGED <<tasks, dropping, cleanupId, finish, begun>>,
         pending'[s] \in SUBSET Workflows, s \notin finished',
         contents'[cleanupId[s]] = None,
         pending[s] # {},
         ~SharesCleanup(s) => Busy(s) = {},
         \/ pending'[s] # {} /\ Untouched(s)
         \/ /\ pending'[s] = {} /\ status'[s] = "purged"
            /\ session'[s] = "despawned" /\ outcome'[s] # "none"
  PROVE  SessionInv(s)'
  <1>1. Busy(s)' = Busy(s) /\ AwaitedFor(s)' = AwaitedFor(s)
    BY BusyUnchanged
  <1>2. SharesCleanup(s)' <=> SharesCleanup(s)
    BY SharesUnchanged
  <1>3. pending'[s] # None
    BY NoneIsDistinct
  <1>4. session[s] # "none" /\ status[s] # "purged"
    BY DEF SessionInv, NotCleaned, Purged
  <1>5. NotCleaned(s)'
    BY <1>4 DEF SessionInv, NotCleaned, Untouched
  <1>6. CleanedBy(s)' /\ Dropped(s)' /\ CleanedOnce(s)'
    BY DEF SessionInv, CleanedBy, Dropped, CleanedOnce
  <1>7. Purged(s)'
    BY <1>4 DEF SessionInv, Purged, Untouched
  <1>8. AwaitsItsTasks(s)'
    BY <1>1, <1>2 DEF AwaitsItsTasks, AwaitedFor
  <1>9. Progresses(s)'
    BY <1>3 DEF Progresses, Untouched
  <1> QED
    BY <1>5, <1>6, <1>7, <1>8, <1>9 DEF SessionInv

\* The roster puts a session to its cleanup workflows only when its tasks have
\* been dropped.
LEMMA SessionInvCleanupFinished ==
  ASSUME TypeInv, CleaningInv, NEW s \in Sessions, NEW x \in Sessions,
         CleanupFinished(x)
  PROVE  SessionInv(s)'
  <1>1. SessionInv(s) /\ SessionInv(x)
    BY DEF CleaningInv
  <1>2. /\ x \in finished /\ finished' = finished \ {x}
        /\ contents' = [contents EXCEPT ![cleanupId[x]] = None]
        /\ pending' = [pending EXCEPT ![x] = WorkflowsFor(x)]
        /\ UNCHANGED <<tasks, dropping, cleanupId, finish, begun>>
    BY DEF CleanupFinished
  <1>3. \/ WorkflowsFor(x) = {} /\ Finalize(x)
        \/ WorkflowsFor(x) # {} /\ UNCHANGED <<status, session, outcome>>
    BY DEF CleanupFinished, NothingToRun
  <1>4. WorkflowsFor(x) \in SUBSET Workflows
    BY ScopeAssumption DEF WorkflowsFor
  <1>5. cleanupId[x] # None /\ pending[x] = None
    BY <1>1, <1>2 DEF SessionInv, NotCleaned, CleanedOnce
  <1>6. cleanupId[x] \in Ids /\ contents'[cleanupId[x]] = None
    BY <1>2, <1>5 DEF TypeInv, TypeOK
  <1>7. CASE s = x
    <2>1. pending'[s] = WorkflowsFor(s)
      BY <1>2, <1>7 DEF TypeInv, TypeOK
    <2>2. \/ pending'[s] # {} /\ Untouched(s)
          \/ /\ pending'[s] = {} /\ status'[s] = "purged"
             /\ session'[s] = "despawned" /\ outcome'[s] # "none"
      BY <1>3, <1>7, <2>1, FinalizeEffect DEF Untouched
    <2>3. pending[s] # {} /\ s \notin finished'
      BY <1>2, <1>5, <1>7, NoneIsDistinct
    <2>4. ~SharesCleanup(s) => Busy(s) = {}
      BY <1>1, <1>2, <1>5, <1>7 DEF SessionInv, AwaitsItsTasks
    <2> QED
      BY <1>1, <1>2, <1>4, <1>5, <1>6, <1>7, <2>1, <2>2, <2>3, <2>4, SessionInvFinishes
  <1>8. CASE s # x
    <2>1. Untouched(s)
      BY <1>3, <1>8, FinalizeEffect DEF Untouched
    <2>2. /\ pending'[s] = pending[s]
          /\ (s \in finished') = (s \in finished)
      BY <1>2, <1>8 DEF TypeInv, TypeOK
    <2>3. \/ contents'[cleanupId[s]] = contents[cleanupId[s]]
          \/ SharesCleanup(s) /\ contents'[cleanupId[s]] = None
      <3>1. CASE cleanupId[s] = cleanupId[x]
        BY <1>5, <1>6, <1>8, <3>1 DEF SharesCleanup
      <3>2. CASE cleanupId[s] # cleanupId[x]
        BY <1>2, <3>2 DEF TypeInv, TypeOK
      <3> QED
        BY <3>1, <3>2
    <2> QED
      BY <1>1, <1>2, <2>1, <2>2, <2>3, SessionInvKept DEF Untouched
  <1> QED
    BY <1>7, <1>8

\* The last cleanup workflow of a session finalizes it.
LEMMA SessionInvFinishCleanup ==
  ASSUME TypeInv, CleaningInv, NEW s \in Sessions, NEW x \in Sessions,
         NEW w \in Workflows, FinishCleanup(w, x)
  PROVE  SessionInv(s)'
  <1>1. SessionInv(s) /\ SessionInv(x)
    BY DEF CleaningInv
  <1>2. /\ pending[x] # None /\ w \in pending[x]
        /\ pending' = [pending EXCEPT ![x] = @ \ {w}]
        /\ UNCHANGED <<tasks, dropping, cleanupId, finish, begun, contents, finished>>
    BY DEF FinishCleanup
  <1>3. \/ pending[x] = {w} /\ Finalize(x)
        \/ pending[x] # {w} /\ UNCHANGED <<status, session, outcome>>
    BY DEF FinishCleanup
  <1>4. pending[x] \in SUBSET Workflows
    BY <1>2 DEF TypeInv, TypeOK
  <1>5. CASE s = x
    <2>1. pending'[s] = pending[s] \ {w}
      BY <1>2, <1>5 DEF TypeInv, TypeOK
    <2>2. \/ pending'[s] # {} /\ Untouched(s)
          \/ /\ pending'[s] = {} /\ status'[s] = "purged"
             /\ session'[s] = "despawned" /\ outcome'[s] # "none"
      BY <1>2, <1>3, <1>5, <2>1, FinalizeEffect DEF Untouched
    <2>3. /\ cleanupId[s] # None
          /\ contents'[cleanupId[s]] = None
          /\ s \notin finished'
          /\ pending[s] # {}
      BY <1>1, <1>2, <1>5 DEF SessionInv, NotCleaned, CleanedOnce
    <2>4. ~SharesCleanup(s) => Busy(s) = {}
      BY <1>1, <1>2, <2>3, NoneIsDistinct DEF SessionInv, AwaitsItsTasks, AwaitedFor, Busy
    <2> QED
      BY <1>1, <1>2, <1>4, <1>5, <2>1, <2>2, <2>3, <2>4, SessionInvFinishes
  <1>6. CASE s # x
    <2>1. Untouched(s)
      BY <1>3, <1>6, FinalizeEffect DEF Untouched
    <2>2. pending'[s] = pending[s]
      BY <1>2, <1>6 DEF TypeInv, TypeOK
    <2> QED
      BY <1>1, <1>2, <2>1, <2>2, SessionInvKept DEF Untouched
  <1> QED
    BY <1>5, <1>6

LEMMA CleaningInvNext == TypeInv /\ CleaningInv /\ [Next]_vars => CleaningInv'
  <1> SUFFICES ASSUME TypeInv, CleaningInv, [Next]_vars, NEW s \in Sessions
               PROVE  SessionInv(s)'
    BY DEF CleaningInv
  <1>1. SessionInv(s)
    BY DEF CleaningInv
  <1>2. ASSUME NEW x \in Sessions, GiveInput(x) PROVE SessionInv(s)'
    BY <1>1, <1>2, SessionInvKept DEF GiveInput, inner, cleaning, parent, TypeInv, TypeOK
  <1>3. ASSUME NEW x \in Sessions, BeginScope(x) PROVE SessionInv(s)'
    BY <1>1, <1>3, SessionInvKept DEF BeginScope, inner, parent, TypeInv, TypeOK
  <1>4. ASSUME NEW x \in Sessions, ReachTerminal(x) \/ TerminateIgnored(x)
        PROVE  SessionInv(s)'
    BY <1>1, <1>4, SessionInvKept DEF ReachTerminal, TerminateIgnored, cleaning, parent
  <1>5. CASE SwitchStage
    BY <1>1, <1>5, SessionInvKept DEF SwitchStage, inner, cleaning, parent
  <1>6. ASSUME NEW p \in Parents, DespawnParent(p) PROVE SessionInv(s)'
    BY <1>1, <1>6, SessionInvKept DEF DespawnParent, inner
  <1>7. CASE UNCHANGED vars
    BY <1>1, <1>7, SessionInvKept DEF vars, inner, cleaning, parent
  <1>8. ASSUME NEW n \in Nodes, NEW x \in Sessions, StartTask(n, x) \/ FinishTask(n, x)
        PROVE  SessionInv(s)'
    BY <1>1, <1>8, SessionInvTasks
  <1>9. ASSUME NEW x \in Sessions, Terminate(x) \/ CancelScope(x) PROVE SessionInv(s)'
    BY <1>9, SessionInvEnds
  <1>10. ASSUME NEW c \in Cleanups, EarlyCleanup(c) PROVE SessionInv(s)'
    BY <1>10, SessionInvEarlyCleanup
  <1>11. ASSUME NEW n \in Nodes, NEW x \in Sessions, TaskDropped(n, x) PROVE SessionInv(s)'
    BY <1>11, SessionInvTaskDropped
  <1>12. ASSUME NEW x \in Sessions, CleanupFinished(x) PROVE SessionInv(s)'
    BY <1>12, SessionInvCleanupFinished
  <1>13. ASSUME NEW w \in Workflows, NEW x \in Sessions, FinishCleanup(w, x)
         PROVE  SessionInv(s)'
    BY <1>13, SessionInvFinishCleanup
  <1> QED
    BY <1>2, <1>3, <1>4, <1>5, <1>6, <1>7, <1>8, <1>9, <1>10, <1>11, <1>12, <1>13
       DEF Next, Flush, InnerWorkflow, Parent

LEMMA CleaningInvariant == Spec => []CleaningInv
  BY TypeInvariant, CleaningInvInit, CleaningInvNext, PTL DEF Spec

-----------------------------------------------------------------------------
\* A cleanup workflow never begins, and no output is ever given to the parent,
\* while a task of the session may still use the buffers that are cleaned.
THEOREM BuffersLast == Spec => []BuffersAreCleanedLast
  <1>1. CleaningInv => BuffersAreCleanedLast
    <2> SUFFICES ASSUME CleaningInv, NEW s \in Sessions, pending[s] # None,
                        ~SharesCleanup(s)
                 PROVE  Busy(s) = {}
      BY DEF BuffersAreCleanedLast
    <2>1. SessionInv(s)
      BY DEF CleaningInv
    <2>2. cleanupId[s] # None /\ contents[cleanupId[s]] = None
      BY <2>1 DEF SessionInv, NotCleaned, CleanedOnce
    <2>3. AwaitedFor(s) = None
      BY <2>1, <2>2 DEF SessionInv, AwaitsItsTasks
    <2> QED
      BY <2>3, NoneIsDistinct DEF AwaitedFor, Busy
  <1> QED
    BY <1>1, CleaningInvariant, PTL

\* No session whose cleanup_id is its own is forgotten half-way through its
\* cleanup.
THEOREM OwnProgress == Spec => []OwnCleaningProgresses
  <1>1. CleaningInv => OwnCleaningProgresses
    <2> SUFFICES ASSUME CleaningInv, NEW s \in Sessions, session[s] = "cleaning",
                        ~SharesCleanup(s)
                 PROVE  HasProgress(s)
      BY DEF OwnCleaningProgresses
    <2>1. SessionInv(s)
      BY DEF CleaningInv
    <2>2. cleanupId[s] # None /\ pending[s] # {}
      BY <2>1 DEF SessionInv, NotCleaned, Progresses
    <2>3. CASE Busy(s) = {}
      BY <2>1, <2>2, <2>3 DEF SessionInv, Progresses, HasProgress
    <2>4. CASE Busy(s) # {}
      <3>1. contents[cleanupId[s]] = Busy(s)
        BY <2>1, <2>2, <2>4 DEF SessionInv, AwaitsItsTasks, AwaitedFor
      <3>2. \A n \in Busy(s) : <<n, s>> \in dropping
        BY <2>1, <2>2 DEF SessionInv, Dropped, Busy
      <3> QED
        BY <2>4, <3>1, <3>2 DEF HasProgress
    <2> QED
      BY <2>3, <2>4
  <1> QED
    BY <1>1, CleaningInvariant, PTL

\* A session whose cleanup is asked for again is already decided, and one that
\* is finalized was not before.
LEMMA FirstEndingNext ==
  ASSUME TypeInv, CleaningInv, [Next]_vars, NEW s \in Sessions
  PROVE  /\ finish[s] # "none" => finish'[s] = finish[s]
         /\ outcome[s] # "none" => outcome'[s] = outcome[s]
  <1> DEFINE Kept == /\ finish[s] # "none" => finish'[s] = finish[s]
                     /\ outcome[s] # "none" => outcome'[s] = outcome[s]
  <1>1. SessionInv(s)
    BY DEF CleaningInv
  <1>2. CASE UNCHANGED <<finish, outcome>>
    BY <1>2
  <1>3. ASSUME NEW S \in SUBSET Sessions, NEW id \in Ids,
               NEW how \in {"terminated", "cancelled", "early"},
               CleanupEntireScope(S, id, how)
        PROVE  finish[s] # "none" => finish'[s] = finish[s]
    <2>1. Cleans(S, id, how)
      BY <1>3, CleanupEntireScopeCleans DEF TypeInv
    <2> QED
      BY <1>1, <2>1 DEF Cleans, SessionInv, NotCleaned
  <1>4. ASSUME NEW x \in Sessions, Terminate(x) \/ CancelScope(x) PROVE Kept
    <2>1. PICK how \in {"terminated", "cancelled", "early"} : CleanupEntireScope({x}, x, how)
      BY <1>4 DEF Terminate, CancelScope
    <2>2. x \in Ids /\ {x} \in SUBSET Sessions
      BY DEF Ids
    <2> QED
      BY <1>3, <1>4, <2>1, <2>2 DEF Terminate, CancelScope
  <1>5. ASSUME NEW c \in Cleanups, EarlyCleanup(c) PROVE Kept
    <2>1. c \in Ids /\ ToCleanup(CleanupOf[c]) \in SUBSET Sessions
      BY DEF Ids, ToCleanup, StoredFor
    <2>2. finish[s] # "none" => finish'[s] = finish[s]
      BY <1>3, <1>5, <2>1 DEF EarlyCleanup
    <2>3. outcome[s] # "none" => outcome'[s] = outcome[s]
      BY <1>1, <1>5 DEF EarlyCleanup, Assign, SessionInv, Purged, TypeInv, TypeOK
    <2> QED
      BY <2>2, <2>3
  <1>6. ASSUME NEW x \in Sessions, CleanupFinished(x) PROVE Kept
    <2>1. CASE s = x
      <3>1. cleanupId[s] # None /\ pending[s] = None
        BY <1>1, <1>6, <2>1 DEF CleanupFinished, SessionInv, NotCleaned, CleanedOnce
      <3>2. outcome[s] = "none"
        BY <1>1, <3>1, NoneIsDistinct DEF SessionInv, NotCleaned, Purged
      <3> QED
        BY <1>6, <3>2 DEF CleanupFinished
    <2>2. CASE s # x
      BY <1>6, <2>2, FinalizeEffect DEF CleanupFinished
    <2> QED
      BY <2>1, <2>2
  <1>7. ASSUME NEW w \in Workflows, NEW x \in Sessions, FinishCleanup(w, x) PROVE Kept
    <2>1. CASE s = x
      <3>1. pending[s] # None /\ pending[s] # {}
        BY <1>7, <2>1 DEF FinishCleanup
      <3>2. outcome[s] = "none"
        BY <1>1, <3>1 DEF SessionInv, NotCleaned, Purged
      <3> QED
        BY <1>7, <3>2 DEF FinishCleanup
    <2>2. CASE s # x
      BY <1>7, <2>2, FinalizeEffect DEF FinishCleanup
    <2> QED
      BY <2>1, <2>2
  <1>8. UNCHANGED <<finish, outcome>> => Kept
    BY <1>2
  <1> QED
    BY <1>4, <1>5, <1>6, <1>7, <1>8
       DEF Next, Flush, InnerWorkflow, Parent, vars, cleaning, GiveInput, BeginScope,
           ReachTerminal, TerminateIgnored, SwitchStage, StartTask, FinishTask,
           TaskDropped, DespawnParent

\* However a termination, a cancellation and an early cleanup of one session
\* meet, the first decides, and the parent is told one thing.
THEOREM FirstEnding == Spec => FirstEndingDecides
  <1> DEFINE A == \A s \in Sessions :
                     /\ finish[s] # "none" => finish'[s] = finish[s]
                     /\ outcome[s] # "none" => outcome'[s] = outcome[s]
  <1>1. TypeInv /\ CleaningInv /\ [Next]_vars => [A]_vars
    BY FirstEndingNext
  <1>2. Spec => [][A]_vars
    BY <1>1, TypeInvariant, CleaningInvariant, PTL DEF Spec
  <1> QED
    BY <1>2 DEF FirstEndingDecides

-----------------------------------------------------------------------------
(***************************************************************************)
(* The notification of the parent scope.  The sessions that are cleaned    *)
(* under one early cleanup either had no task left to drop, or the nodes   *)
(* awaited under its id are used up by the first of them that is clean, so *)
(* that the others stay: with more than one session the parent is notified *)
(* only if none of them had a task.                                        *)
(***************************************************************************)

\* The parent session is interrupted, by no cleanup but that of its scope.
NoTrims ==
    \A c \in ScopeCleanups, d \in Cleanups :
        CleanupOf[d] = CleanupOf[c] => d \in ScopeCleanups

Released(s) == s \in finished \/ pending[s] # None

Under(c) == {s \in Sessions : cleanupId[s] = c}

\* No node will be taken for the last one that is awaited under id c: none is
\* awaited, or none will be when the roster is next drained.
UsedUp(c) ==
    \/ contents[c] = None
    \/ stage = "queue" /\ Under(c) \cap finished # {}

SharedCleanup(c) ==
    \/ \A s \in Under(c) : Busy(s) = {} /\ Released(s)
    \/ \E s \in Sessions : Under(c) = {s}
    \/ UsedUp(c) /\ (\E s \in Under(c) : ~Released(s))
    \/ \A s \in Under(c) : ~Released(s)

SharedCleanups == \A c \in Cleanups : SharedCleanup(c)

\* A session is interrupted by a cleanup of its own parent.
Interrupted(s) ==
    /\ status[s] # "deferred"
    /\ session[s] = "active" => status[s] = "ongoing"
    /\ session[s] = "none" => Busy(s) = {}
    /\ status[s] = "cleanup" => \E c \in begun : CleanupOf[c] = ParentOf[s]
    /\ cleanupId[s] \in Cleanups => CleanupOf[cleanupId[s]] = ParentOf[s]

\* No session begins for a parent session that is closed.
Settled(s) == ParentOf[s] \in closed => status[s] # "waiting" /\ session[s] # "active"

SessionsInterrupted == \A s \in Sessions : Interrupted(s) /\ Settled(s)

\* A scope cleans a session once.
ClosedOnce ==
    /\ \A c \in begun \cap ScopeCleanups : CleanupOf[c] \in closed
    /\ \A c, d \in begun \cap ScopeCleanups : CleanupOf[c] = CleanupOf[d] => c = d

NotifiedInv ==
    SharedCleanups /\ SessionsInterrupted /\ ClosedOnce /\ NotifiedMeansClean

\* What finalize_scoped_session tells the parent.
LEMMA FinalizeNotifies ==
  ASSUME TypeInv, NEW s \in Sessions, Finalize(s)
  PROVE  \/ notified' = notified
         \/ /\ notified' = notified \cup {cleanupId[s]}
            /\ LastOfParent(s)
            /\ \E q \in Sessions : finish[q] = "early" /\ cleanupId[q] = cleanupId[s]
  BY DEF Finalize, TypeInv, TypeOK

\* A step that does not concern the sessions of a cleanup.
LEMMA SharedCleanupKept ==
  ASSUME TypeOK, NEW c \in Cleanups, SharedCleanup(c),
         stage' = stage, contents'[c] = contents[c],
         \A s \in Sessions : cleanupId'[s] = c <=> cleanupId[s] = c,
         \A s \in Under(c) : /\ s \in finished' <=> s \in finished
                             /\ pending'[s] = None <=> pending[s] = None
                             /\ Busy(s) = {} => Busy(s)' = {}
  PROVE  SharedCleanup(c)'
  <1>1. Under(c)' = Under(c)
    BY DEF Under
  <1>2. \A s \in Under(c) : Released(s)' <=> Released(s)
    BY DEF Released
  <1>3. UsedUp(c)' <=> UsedUp(c)
    BY <1>1 DEF UsedUp, Under
  <1> HIDE DEF Under, Released, UsedUp, Busy
  <1> QED
    BY <1>1, <1>2, <1>3 DEF SharedCleanup

\* Every step keeps the account of the sessions that share a cleanup.
LEMMA SharedCleanupsNext ==
  ASSUME TypeInv, CleaningInv, SharedCleanups, [Next]_vars, NEW c \in Cleanups
  PROVE  SharedCleanup(c)'
  <1>1. SharedCleanup(c) /\ TypeOK
    BY DEF SharedCleanups, TypeInv
  <1>2. c \in Ids /\ c # None /\ c \notin Sessions
    BY ScopeAssumption DEF Ids
  <1>3. \A s \in Sessions :
           /\ cleanupId[s] = c => session[s] # "active"
           /\ session[s] = "active" => /\ cleanupId[s] = None /\ pending[s] = None
                                       /\ s \notin finished
           /\ cleanupId[s] = c => c \in begun
    BY <1>2 DEF CleaningInv, SessionInv, NotCleaned, CleanedBy
  <1>4. ASSUME UNCHANGED <<stage, contents, cleanupId, finished, pending>>,
               \A s \in Under(c) : Busy(s) = {} => Busy(s)' = {}
        PROVE  SharedCleanup(c)'
    BY <1>1, <1>4, SharedCleanupKept
  <1>5. ASSUME NEW n \in Nodes, NEW x \in Sessions, StartTask(n, x) \/ FinishTask(n, x)
        PROVE  SharedCleanup(c)'
    <2>1. \A s \in Under(c) : Busy(s) = {} => Busy(s)' = {}
      BY <1>3, <1>5 DEF StartTask, FinishTask, Busy, Under
    <2> QED
      BY <1>4, <1>5, <2>1 DEF StartTask, FinishTask, cleaning
  <1>6. ASSUME NEW x \in Sessions, Terminate(x) \/ CancelScope(x) PROVE SharedCleanup(c)'
    <2>1. PICK how \in {"terminated", "cancelled"} : Cleans({x}, x, how)
      BY <1>6, EndsClean
    <2>2. UNCHANGED <<stage, tasks, pending>>
      BY <1>6 DEF Terminate, CancelScope, inner
    <2>3. contents'[c] = contents[c]
      BY <1>2, <2>1 DEF Cleans
    <2>4. ASSUME NEW s \in Sessions
          PROVE  /\ cleanupId'[s] = c <=> cleanupId[s] = c
                 /\ cleanupId[s] = c => (s \in finished' <=> s \in finished)
      BY <1>2, <1>3, <2>1 DEF Cleans
    <2>5. \A s \in Under(c) : Busy(s)' = Busy(s)
      BY <2>2 DEF Busy
    <2> QED
      BY <1>1, <2>2, <2>3, <2>4, <2>5, SharedCleanupKept DEF Under
  <1>7. ASSUME NEW d \in Cleanups, EarlyCleanup(d) PROVE SharedCleanup(c)'
    <2> DEFINE S == ToCleanup(CleanupOf[d])
    <2>1. Cleans(S, d, "early") /\ S \in SUBSET Sessions
      BY <1>7, EarlyCleanupEffect
    <2>2. UNCHANGED <<stage, tasks, pending>> /\ d \notin begun /\ stage = "queue"
      BY <1>7 DEF EarlyCleanup, inner, Ready
    <2> HIDE DEF S
    <2>3. CASE d # c
      <3>1. contents'[c] = contents[c]
        BY <1>2, <2>1, <2>3 DEF Cleans
      <3>2. ASSUME NEW s \in Sessions
            PROVE  /\ cleanupId'[s] = c <=> cleanupId[s] = c
                   /\ cleanupId[s] = c => (s \in finished' <=> s \in finished)
        BY <1>2, <1>3, <2>1, <2>3 DEF Cleans
      <3>3. \A s \in Under(c) : Busy(s)' = Busy(s)
        BY <2>2 DEF Busy
      <3> QED
        BY <1>1, <2>2, <3>1, <3>2, <3>3, SharedCleanupKept DEF Under
    <2>4. CASE d = c
      <3>1. ASSUME NEW s \in Under(c)'
            PROVE  /\ s \in Sessions /\ pending'[s] = None
                   /\ s \in finished' <=> Busy(s) = {}
        BY <1>3, <2>1, <2>2, <2>4 DEF Cleans, Under
      <3>2. \A s \in Under(c)' : /\ Busy(s)' = Busy(s)
                                 /\ Released(s)' <=> Busy(s) = {}
        BY <2>2, <3>1 DEF Busy, Released
      <3>3. CASE \A s \in Under(c)' : Busy(s) = {}
        BY <3>2, <3>3 DEF SharedCleanup
      <3>4. CASE \A s \in Under(c)' : Busy(s) # {}
        BY <3>2, <3>4 DEF SharedCleanup
      <3>5. ASSUME NEW q \in Under(c)', NEW s \in Under(c)', Busy(q) = {}, Busy(s) # {}
            PROVE  SharedCleanup(c)'
        <4>1. UsedUp(c)'
          BY <2>2, <3>1, <3>5 DEF UsedUp
        <4> QED
          BY <3>2, <3>5, <4>1 DEF SharedCleanup
      <3> QED
        BY <3>3, <3>4, <3>5
    <2> QED
      BY <2>3, <2>4
  <1>8. CASE SwitchStage
    <2>1. /\ UNCHANGED <<tasks, contents, cleanupId, finished, pending>>
          /\ stage = "queue" => finished = {}
      BY <1>8 DEF SwitchStage, inner, cleaning
    <2>2. UsedUp(c) => UsedUp(c)'
      BY <2>1 DEF UsedUp
    <2>3. Under(c)' = Under(c) /\ \A s \in Under(c) : Busy(s)' = Busy(s) /\ Released(s)' = Released(s)
      BY <2>1 DEF Under, Busy, Released
    <2> QED
      BY <1>1, <2>2, <2>3 DEF SharedCleanup
  <1>9. ASSUME NEW n \in Nodes, NEW x \in Sessions, TaskDropped(n, x)
        PROVE  SharedCleanup(c)'
    <2> DEFINE id == cleanupId[x]
               others == {q \in Sessions \ {x} : <<n, q>> \in dropping /\ cleanupId[q] = id}
               notifies == others = {} /\ contents[id] # None
               last == notifies /\ AwaitedAfter(n, id) = {}
    <2>1. /\ UNCHANGED <<stage, cleanupId, pending>> /\ stage = "channel"
          /\ tasks' = tasks \ {<<n, x>>} /\ <<n, x>> \in dropping
          /\ finished' = IF last THEN finished \cup {x} ELSE finished
          /\ contents' = [contents EXCEPT ![id] = IF last THEN None
                                                  ELSE IF notifies THEN AwaitedAfter(n, id)
                                                  ELSE @]
      BY <1>9 DEF TaskDropped
    <2>2. \A s \in Sessions : Busy(s) = {} => Busy(s)' = {}
      BY <2>1 DEF Busy
    <2>3. Under(c)' = Under(c)
      BY <2>1 DEF Under
    <2>4. last => contents[id] # None
      OBVIOUS
    <2>5. /\ id # c => contents'[c] = contents[c]
          /\ id = c => contents'[c] = IF last THEN None
                                      ELSE IF notifies THEN AwaitedAfter(n, id) ELSE contents[c]
      BY <1>1, <1>2, <2>1 DEF TypeOK
    <2>6. ~notifies => ~last
      OBVIOUS
    <2>7. contents[id] = None => ~notifies
      OBVIOUS
    <2> HIDE DEF notifies, last, others
    <2>8. CASE id = c /\ last
      <3>1. x \in Under(c) /\ UsedUp(c)'
        BY <2>5, <2>8 DEF Under, UsedUp
      <3>2. \A s \in Under(c) : Released(s)' <=> Released(s) \/ s = x
        BY <2>1, <2>8, <3>1 DEF Released
      <3>3. ~UsedUp(c)
        BY <2>1, <2>4, <2>8 DEF UsedUp
      <3>4. CASE \A s \in Under(c) : s = x
        BY <2>3, <3>1, <3>4 DEF SharedCleanup, Under
      <3>5. CASE ~ \A s \in Under(c) : s = x
        <4>1. \/ \A s \in Under(c) : Busy(s) = {} /\ Released(s)
              \/ \A s \in Under(c) : ~Released(s)
          BY <1>1, <3>1, <3>3, <3>5 DEF SharedCleanup
        <4>2. \A s \in Under(c) : Busy(s) = {} => Busy(s)' = {}
          BY <2>2 DEF Under
        <4> QED
          BY <2>3, <3>1, <3>2, <3>5, <4>1, <4>2 DEF SharedCleanup
      <3> QED
        BY <3>4, <3>5
    <2>9. CASE id = c /\ ~last
      <3>1. UsedUp(c) => UsedUp(c)'
        BY <2>1, <2>5, <2>7, <2>9 DEF UsedUp
      <3>2. \A s \in Under(c) : Released(s)' <=> Released(s)
        BY <2>1, <2>9 DEF Released
      <3>3. \A s \in Under(c) : Busy(s) = {} => Busy(s)' = {}
        BY <2>2 DEF Under
      <3> QED
        BY <1>1, <2>3, <3>1, <3>2, <3>3 DEF SharedCleanup
    <2>10. CASE id # c
      <3>1. \A s \in Under(c) : s \in finished' <=> s \in finished
        BY <2>1, <2>10 DEF Under
      <3> QED
        BY <1>1, <2>1, <2>2, <2>5, <2>10, <3>1, SharedCleanupKept DEF Under
    <2> QED
      BY <2>8, <2>9, <2>10
  <1>10. ASSUME NEW x \in Sessions, CleanupFinished(x) PROVE SharedCleanup(c)'
    <2>1. /\ UNCHANGED <<stage, tasks, cleanupId>> /\ stage = "queue"
          /\ x \in finished /\ finished' = finished \ {x}
          /\ contents' = [contents EXCEPT ![cleanupId[x]] = None]
          /\ pending' = [pending EXCEPT ![x] = WorkflowsFor(x)]
      BY <1>10 DEF CleanupFinished
    <2>2. WorkflowsFor(x) # None
      BY NoneIsDistinct, ScopeAssumption DEF WorkflowsFor
    <2>3. Under(c)' = Under(c) /\ \A s \in Under(c) : Busy(s)' = Busy(s)
      BY <2>1 DEF Under, Busy
    <2>4. \A s \in Under(c) : Released(s)' <=> Released(s)
      BY <1>1, <2>1, <2>2 DEF Released, TypeOK, Under
    <2>5. UsedUp(c) => UsedUp(c)'
      <3>1. CASE cleanupId[x] = c
        BY <1>1, <1>2, <2>1, <3>1 DEF UsedUp, TypeOK
      <3>2. CASE cleanupId[x] # c
        BY <1>1, <1>2, <2>1, <2>3, <3>2 DEF UsedUp, Under, TypeOK
      <3> QED
        BY <3>1, <3>2
    <2> QED
      BY <1>1, <2>3, <2>4, <2>5 DEF SharedCleanup
  <1>11. ASSUME NEW w \in Workflows, NEW x \in Sessions, FinishCleanup(w, x)
         PROVE  SharedCleanup(c)'
    <2>1. /\ UNCHANGED <<stage, tasks, cleanupId, contents, finished>>
          /\ pending[x] # None
          /\ pending' = [pending EXCEPT ![x] = @ \ {w}]
      BY <1>11 DEF FinishCleanup
    <2>2. \A s \in Sessions : pending'[s] = None <=> pending[s] = None
      BY <1>1, <2>1, NoneIsDistinct DEF TypeOK
    <2>3. \A s \in Under(c) : Busy(s)' = Busy(s)
      BY <2>1 DEF Busy
    <2> QED
      BY <1>1, <2>1, <2>2, <2>3, SharedCleanupKept DEF Under
  <1>12. ASSUME UNCHANGED <<stage, tasks, cleanupId, contents, finished, pending>>
         PROVE  SharedCleanup(c)'
    BY <1>4, <1>12 DEF Busy
  <1>13. ASSUME NEW s \in Sessions,
                GiveInput(s) \/ BeginScope(s) \/ ReachTerminal(s) \/ TerminateIgnored(s)
         PROVE  SharedCleanup(c)'
    BY <1>12, <1>13 DEF GiveInput, BeginScope, ReachTerminal, TerminateIgnored, inner, cleaning
  <1>14. ASSUME NEW p \in Parents, DespawnParent(p) PROVE SharedCleanup(c)'
    BY <1>12, <1>14 DEF DespawnParent, inner
  <1>15. CASE UNCHANGED vars
    BY <1>12, <1>15 DEF vars, inner, cleaning
  <1> QED
    BY <1>5, <1>6, <1>7, <1>8, <1>9, <1>10, <1>11, <1>13, <1>14, <1>15
       DEF Next, Flush, InnerWorkflow, Parent

\* Every step keeps the sessions interrupted by their own parent only, and none
\* begins for a parent session that is closed.
LEMMA InterruptedNext ==
  ASSUME ~Uninterruptible, TypeInv, CleaningInv, SessionsInterrupted, [Next]_vars,
         NEW s \in Sessions
  PROVE  Interrupted(s)' /\ Settled(s)'
  <1> DEFINE Goal == Interrupted(s)' /\ Settled(s)'
  <1>1. Interrupted(s) /\ Settled(s) /\ NotCleaned(s) /\ TypeOK
    BY DEF SessionsInterrupted, CleaningInv, SessionInv, TypeInv
  <1>2. s \notin Cleanups
    BY ScopeAssumption
  <1>3. ASSUME UNCHANGED <<cleanupId, begun, closed>>,
               Busy(s) = {} => Busy(s)' = {},
               \/ status'[s] = status[s] /\ session'[s] \in {session[s], "despawned"}
               \/ status'[s] = "purged" /\ session'[s] = "despawned"
        PROVE  Goal
    <2>1. Interrupted(s)'
      BY <1>1, <1>3 DEF Interrupted
    <2>2. Settled(s)'
      BY <1>1, <1>3 DEF Settled
    <2> QED
      BY <2>1, <2>2
  <1>4. ASSUME NEW x \in Sessions, GiveInput(x) PROVE Goal
    <2>1. /\ UNCHANGED <<session, tasks, cleanupId, begun, closed>>
          /\ Busy(s)' = Busy(s) /\ ParentOf[x] \notin closed
          /\ status'[s] = IF s = x THEN "waiting" ELSE status[s]
          /\ s = x => session[s] = "none"
      BY <1>1, <1>4 DEF GiveInput, inner, cleaning, parent, Busy, NotCleaned, TypeOK
    <2> QED
      BY <1>1, <2>1 DEF Interrupted, Settled
  <1>5. ASSUME NEW x \in Sessions, BeginScope(x) PROVE Goal
    <2>1. /\ UNCHANGED <<tasks, cleanupId, begun, closed>>
          /\ Busy(s)' = Busy(s) /\ status[x] = "waiting"
          /\ status'[s] = IF s = x THEN "ongoing" ELSE status[s]
          /\ session'[s] = IF s = x THEN "active" ELSE session[s]
      BY <1>5, <1>1 DEF BeginScope, inner, parent, Busy, TypeOK
    <2> QED
      BY <1>1, <2>1 DEF Interrupted, Settled
  <1>6. ASSUME NEW n \in Nodes, NEW x \in Sessions, StartTask(n, x) \/ FinishTask(n, x)
        PROVE  Goal
    <2>1. UNCHANGED <<status, session, cleanupId, begun, closed>>
      BY <1>6 DEF StartTask, FinishTask, cleaning, parent
    <2>2. Busy(s) = {} /\ session[s] = "none" => Busy(s)' = {}
      BY <1>6 DEF StartTask, FinishTask, Busy
    <2> QED
      BY <1>1, <2>1, <2>2 DEF Interrupted, Settled
  <1>7. ASSUME NEW x \in Sessions, Terminate(x) \/ CancelScope(x) PROVE Goal
    <2>1. PICK how \in {"terminated", "cancelled"} : Cleans({x}, x, how)
      BY <1>7, EndsClean DEF TypeInv
    <2>2. UNCHANGED <<tasks, begun, closed>> /\ Busy(s)' = Busy(s)
      BY <1>7 DEF Terminate, CancelScope, inner, parent, Busy
    <2>3. /\ s # x => status'[s] = status[s]
          /\ s = x => /\ status[s] # "waiting"
                      /\ status'[s] \in {"terminated", "cancelled"}
      BY <1>1, <1>7 DEF Terminate, CancelScope, MayBeCancelled, Interrupted, TypeOK
    <2>4. /\ s # x => session'[s] = session[s] /\ cleanupId'[s] = cleanupId[s]
          /\ s = x => /\ cleanupId'[s] \in {s, cleanupId[s]}
                      /\ session'[s] \in {session[s], "cleaning"}
                      /\ session'[s] # "active"
      BY <2>1 DEF Cleans
    <2> QED
      BY <1>1, <1>2, <2>2, <2>3, <2>4 DEF Interrupted, Settled
  <1>8. ASSUME NEW c \in Cleanups, EarlyCleanup(c) PROVE Goal
    <2>1. /\ UNCHANGED tasks /\ Busy(s)' = Busy(s)
          /\ begun' = begun \cup {c} /\ closed' \subseteq closed \cup {CleanupOf[c]}
      BY <1>8 DEF EarlyCleanup, inner, Busy
    <2>2. CASE ParentOf[s] = CleanupOf[c]
      <3>1. s \in ToCleanup(CleanupOf[c]) <=> status[s] \in Stored \ {"cleanup"}
        BY <2>2 DEF ToCleanup, StoredFor
      <3>2. /\ status'[s] = IF status[s] = "waiting" THEN "purged"
                            ELSE IF status[s] \in Stored \ {"cleanup"} THEN "cleanup"
                            ELSE status[s]
            /\ Cleans(ToCleanup(CleanupOf[c]), c, "early")
        BY <1>8, <2>2, EarlyCleanupEffect DEF Stored
      <3>3. /\ cleanupId'[s] \in {c, cleanupId[s]}
            /\ session'[s] \in {session[s], "cleaning"}
            /\ session'[s] # "active"
        BY <1>1, <3>1, <3>2 DEF Cleans, Interrupted, Stored
      <3>4. status'[s] \in {status[s], "purged", "cleanup"} /\ status'[s] # "waiting"
        BY <3>2
      <3> QED
        BY <1>1, <2>1, <2>2, <3>3, <3>4 DEF Interrupted, Settled
    <2>3. CASE ParentOf[s] # CleanupOf[c]
      <3>1. s \notin ToCleanup(CleanupOf[c])
        BY <2>3 DEF ToCleanup, StoredFor
      <3>2. status'[s] = status[s] /\ Cleans(ToCleanup(CleanupOf[c]), c, "early")
        BY <1>8, <2>3, EarlyCleanupEffect
      <3>3. cleanupId'[s] = cleanupId[s] /\ session'[s] = session[s]
        BY <3>1, <3>2 DEF Cleans
      <3> QED
        BY <1>1, <2>1, <2>3, <3>2, <3>3 DEF Interrupted, Settled
    <2> QED
      BY <2>2, <2>3
  <1>9. ASSUME NEW n \in Nodes, NEW x \in Sessions, TaskDropped(n, x) PROVE Goal
    BY <1>3, <1>9 DEF TaskDropped, Busy, parent
  <1>10. ASSUME UNCHANGED <<tasks, cleanupId, begun, closed>>, NEW x \in Sessions,
                Finalize(x) \/ UNCHANGED <<status, session>>
         PROVE  Goal
    <2>1. \/ status'[s] = status[s] /\ session'[s] = session[s]
          \/ status'[s] = "purged" /\ session'[s] = "despawned"
      BY <1>10, FinalizeEffect
    <2> QED
      BY <1>3, <1>10, <2>1 DEF Busy
  <1>11. ASSUME NEW x \in Sessions, NEW w \in Workflows, FinishCleanup(w, x) PROVE Goal
    BY <1>10, <1>11 DEF FinishCleanup
  <1>16. ASSUME NEW x \in Sessions, CleanupFinished(x) PROVE Goal
    BY <1>10, <1>16 DEF CleanupFinished
  <1>12. ASSUME NEW x \in Sessions, ReachTerminal(x) \/ TerminateIgnored(x) PROVE Goal
    BY <1>3, <1>12 DEF ReachTerminal, TerminateIgnored, cleaning, parent, Busy
  <1>13. ASSUME NEW p \in Parents, DespawnParent(p) PROVE Goal
    <2>1. session'[s] \in {session[s], "despawned"}
      BY <1>13 DEF DespawnParent
    <2> QED
      BY <1>3, <1>13, <2>1 DEF DespawnParent, inner, Busy
  <1>14. CASE SwitchStage
    BY <1>3, <1>14 DEF SwitchStage, inner, cleaning, parent, Busy
  <1>15. CASE UNCHANGED vars
    BY <1>3, <1>15 DEF vars, inner, cleaning, parent, Busy
  <1> QED
    BY <1>4, <1>5, <1>6, <1>7, <1>8, <1>9, <1>11, <1>12, <1>13, <1>14, <1>15, <1>16
       DEF Next, Flush, InnerWorkflow, Parent

\* Every step keeps what the cleanups of scopes have closed.
LEMMA ClosedOnceNext ==
  ASSUME TypeInv, ClosedOnce, [Next]_vars
  PROVE  ClosedOnce'
  <1>1. ASSUME NEW c \in Cleanups, EarlyCleanup(c) PROVE ClosedOnce'
    <2>1. /\ CleanupOf[c] \notin closed
          /\ begun' = begun \cup {c}
          /\ closed' = IF c \in ScopeCleanups THEN closed \cup {CleanupOf[c]} ELSE closed
      BY <1>1 DEF EarlyCleanup
    <2> QED
      BY <2>1 DEF ClosedOnce
  <1>2. CASE UNCHANGED <<begun, closed>>
    BY <1>2 DEF ClosedOnce
  <1>3. UNCHANGED <<begun, closed>> \/ \E c \in Cleanups : EarlyCleanup(c)
    BY DEF Next, Flush, InnerWorkflow, Parent, vars, parent, GiveInput, BeginScope,
           ReachTerminal, TerminateIgnored, SwitchStage, StartTask, FinishTask,
           TaskDropped, DespawnParent, Terminate, CancelScope, CleanupFinished,
           FinishCleanup
  <1> QED
    BY <1>1, <1>2, <1>3

\* A session that the scope does not hold, of a parent session that is closed,
\* stays away, and without tasks.
LEMMA StaysAway ==
  ASSUME TypeInv, CleaningInv, SessionsInterrupted, [Next]_vars,
         NEW s \in Sessions, ParentOf[s] \in closed, status[s] \notin Stored, Busy(s) = {}
  PROVE  status'[s] \notin Stored /\ Busy(s)' = {}
  <1>1. status[s] \in {"new", "purged"} /\ session[s] # "active"
    BY DEF SessionsInterrupted, Settled, TypeInv, TypeOK
  <1>2. Busy(s)' = {}
    BY <1>1 DEF Next, Flush, InnerWorkflow, Parent, vars, inner, Busy, GiveInput, BeginScope,
           ReachTerminal, TerminateIgnored, SwitchStage, StartTask, FinishTask,
           TaskDropped, DespawnParent, Terminate, CancelScope, CleanupFinished,
           FinishCleanup, EarlyCleanup
  <1>3. ASSUME NEW c \in Cleanups, EarlyCleanup(c) PROVE status'[s] = status[s]
    BY <1>1, <1>3, EarlyCleanupEffect DEF Stored
  <1>4. ASSUME NEW x \in Sessions, Terminate(x) \/ CancelScope(x) PROVE status'[s] = status[s]
    BY <1>1, <1>4 DEF Terminate, CancelScope, MayBeCancelled, TypeInv, TypeOK
  <1>5. ASSUME NEW x \in Sessions, GiveInput(x) \/ BeginScope(x) PROVE status'[s] = status[s]
    BY <1>1, <1>5 DEF GiveInput, BeginScope, TypeInv, TypeOK
  <1>6. ASSUME NEW x \in Sessions, CleanupFinished(x)
        PROVE  status'[s] \in {status[s], "purged"}
    BY <1>6, FinalizeEffect DEF CleanupFinished
  <1>7. ASSUME NEW x \in Sessions, NEW w \in Workflows, FinishCleanup(w, x)
        PROVE  status'[s] \in {status[s], "purged"}
    BY <1>7, FinalizeEffect DEF FinishCleanup
  <1>8. status'[s] \in {status[s], "purged"}
    BY <1>3, <1>4, <1>5, <1>6, <1>7
       DEF Next, Flush, InnerWorkflow, Parent, vars, ReachTerminal, TerminateIgnored,
           SwitchStage, StartTask, FinishTask, TaskDropped, DespawnParent
  <1> QED
    BY <1>1, <1>2, <1>8 DEF Stored

\* When the last session of a parent is finalized, no other is left, and none
\* of them has a task.
LEMMA LastIsClean ==
  ASSUME NoTrims, TypeInv, CleaningInv, SharedCleanups, SessionsInterrupted, ClosedOnce,
         NEW x \in Sessions, Released(x), cleanupId[x] \in ScopeCleanups, LastOfParent(x),
         NEW s \in Sessions, ParentOf[s] = ParentOf[x]
  PROVE  (s # x => status[s] \notin Stored) /\ Busy(s) = {}
  <1> DEFINE c == cleanupId[x]
  <1>1. SessionInv(s) /\ Interrupted(s) /\ SessionInv(x) /\ Interrupted(x)
    BY DEF CleaningInv, SessionsInterrupted
  <1>2. c \in Cleanups /\ c # None /\ c \in begun /\ CleanupOf[c] = ParentOf[x]
    <2>1. c \in Cleanups
      BY ScopeAssumption
    <2>2. c # None /\ c \notin Sessions
      BY <2>1, ScopeAssumption
    <2> QED
      BY <1>1, <2>1, <2>2 DEF SessionInv, CleanedBy, Interrupted
  <1>3. \A q \in Sessions : q # x /\ ParentOf[q] = ParentOf[x] => status[q] \notin Stored
    BY DEF LastOfParent, StoredFor
  <1>4. x \in Under(c) /\ SharedCleanup(c)
    BY <1>2 DEF Under, SharedCleanups
  <1>5. \A q \in Under(c) : Released(q)
    <2> SUFFICES ASSUME NEW q \in Under(c), q # x PROVE Released(q)
      OBVIOUS
    <2>1. /\ q \in Sessions /\ cleanupId[q] = c
          /\ SessionInv(q) /\ Interrupted(q)
      BY DEF Under, CleaningInv, SessionsInterrupted
    <2>2. status[q] \notin Stored
      BY <1>2, <1>3, <2>1 DEF Interrupted
    <2>3. status[q] = "purged" /\ session[q] # "none"
      BY <1>2, <2>1, <2>2 DEF SessionInv, NotCleaned, TypeInv, TypeOK
    <2> QED
      BY <2>1, <2>3, NoneIsDistinct DEF SessionInv, Purged, Released
  <1>6. (\A q \in Under(c) : Busy(q) = {}) \/ (\E q \in Sessions : Under(c) = {q})
    BY <1>4, <1>5 DEF SharedCleanup
  <1>7. ASSUME cleanupId[s] = c PROVE Busy(s) = {}
    <2>1. s \in Under(c)
      BY <1>7 DEF Under
    <2>2. CASE ~SharesCleanup(s)
      <3>1. CASE s \in finished
        BY <1>1, <1>2, <1>7, <2>2, <3>1 DEF SessionInv, AwaitsItsTasks
      <3>2. CASE pending[s] # None
        <4>1. AwaitedFor(s) = None
          BY <1>1, <1>2, <1>7, <2>2, <3>2 DEF SessionInv, AwaitsItsTasks, CleanedOnce
        <4> QED
          BY <4>1, NoneIsDistinct DEF AwaitedFor, Busy
      <3> QED
        BY <1>5, <2>1, <3>1, <3>2 DEF Released
    <2>3. CASE SharesCleanup(s)
      <3>1. PICK q \in Sessions \ {s} : cleanupId[q] = c
        BY <1>7, <2>3 DEF SharesCleanup
      <3>2. q \in Under(c) /\ q # s
        BY <3>1 DEF Under
      <3> QED
        BY <1>6, <2>1, <3>2
    <2> QED
      BY <2>2, <2>3
  <1>8. ASSUME cleanupId[s] # c PROVE Busy(s) = {}
    <2>1. s # x /\ status[s] \notin Stored
      BY <1>3, <1>8
    <2>2. CASE session[s] = "none"
      BY <1>1, <2>2 DEF Interrupted
    <2>3. CASE session[s] # "none"
      <3>1. status[s] = "purged" /\ pending[s] = {}
        BY <1>1, <2>1, <2>3 DEF SessionInv, NotCleaned, Purged, TypeInv, TypeOK
      <3>2. pending[s] # None /\ cleanupId[s] # None /\ contents[cleanupId[s]] = None
        BY <1>1, <3>1, NoneIsDistinct DEF SessionInv, NotCleaned, CleanedOnce
      <3>3. cleanupId[s] \notin Cleanups
        <4> SUFFICES ASSUME cleanupId[s] \in Cleanups PROVE FALSE
          OBVIOUS
        <4>1. CleanupOf[cleanupId[s]] = ParentOf[x] /\ cleanupId[s] \in begun
          BY <1>1, <3>2, ScopeAssumption DEF Interrupted, SessionInv, CleanedBy
        <4>2. cleanupId[s] \in ScopeCleanups
          BY <1>2, <4>1 DEF NoTrims
        <4> QED
          BY <1>2, <1>8, <4>1, <4>2 DEF ClosedOnce
      <3>4. ~SharesCleanup(s)
        <4> SUFFICES ASSUME NEW q \in Sessions \ {s}, cleanupId[q] = cleanupId[s] PROVE FALSE
          BY DEF SharesCleanup
        <4>1. begun \subseteq Cleanups
          BY DEF TypeInv, TypeOK
        <4>2. cleanupId[s] = s /\ cleanupId[q] = q
          BY <1>1, <3>2, <3>3, <4>1 DEF CleaningInv, SessionInv, CleanedBy
        <4> QED
          BY <4>2
      <3>5. AwaitedFor(s) = None
        BY <1>1, <3>2, <3>4 DEF SessionInv, AwaitsItsTasks
      <3> QED
        BY <3>5, NoneIsDistinct DEF AwaitedFor, Busy
    <2> QED
      BY <2>2, <2>3
  <1> QED
    BY <1>3, <1>7, <1>8

\* Every step keeps the notifications of the parent true.
LEMMA NotifiedMeansCleanNext ==
  ASSUME ~Uninterruptible, NoTrims, TypeInv, CleaningInv, NotifiedInv, [Next]_vars
  PROVE  NotifiedMeansClean'
  <1> USE DEF NotifiedInv
  <1> SUFFICES ASSUME NEW c \in ScopeCleanups \cap notified', NEW s \in Sessions,
                      ParentOf[s] = CleanupOf[c]
               PROVE  status'[s] \notin Stored /\ Busy(s)' = {}
    BY DEF NotifiedMeansClean, Stored
  <1>1. c \in Cleanups /\ notified \subseteq begun
    BY ScopeAssumption DEF TypeInv, TypeOK
  <1>2. CASE c \in notified
    <2>1. ParentOf[s] \in closed
      BY <1>1, <1>2 DEF ClosedOnce
    <2> QED
      BY <1>2, <2>1, StaysAway DEF NotifiedMeansClean
  <1>3. ASSUME c \notin notified, NEW d \in Cleanups, EarlyCleanup(d)
        PROVE  status'[s] \notin Stored /\ Busy(s)' = {}
    <2>1. /\ c = d /\ ToCleanup(CleanupOf[c]) = {} /\ CleanupOf[c] \notin closed
          /\ tasks' = tasks
      BY <1>3 DEF EarlyCleanup, inner
    <2>2. SessionInv(s) /\ Interrupted(s)
      BY DEF CleaningInv, SessionsInterrupted
    <2>3. ASSUME NEW d2 \in begun, CleanupOf[d2] = ParentOf[s] PROVE FALSE
      <3>1. d2 \in Cleanups
        BY DEF TypeInv, TypeOK
      <3>2. d2 \in ScopeCleanups
        BY <2>3, <3>1 DEF NoTrims
      <3> QED
        BY <2>1, <2>3, <3>2 DEF ClosedOnce
    <2>4. status[s] \notin Stored
      <3>1. status[s] # "cleanup"
        BY <2>2, <2>3 DEF Interrupted
      <3> QED
        BY <2>1, <3>1 DEF ToCleanup, StoredFor
    <2>5. status'[s] \notin Stored
      BY <1>3, <2>4, EarlyCleanupEffect DEF Stored
    <2>6. Busy(s) = {}
      <3>1. CASE session[s] = "none"
        BY <2>2, <3>1 DEF Interrupted
      <3>2. CASE session[s] # "none"
        <4>1. status[s] = "purged" /\ pending[s] = {}
          BY <2>2, <2>4, <3>2 DEF SessionInv, NotCleaned, Purged, TypeInv, TypeOK
        <4>2. pending[s] # None /\ cleanupId[s] # None /\ contents[cleanupId[s]] = None
          BY <2>2, <4>1, NoneIsDistinct DEF SessionInv, NotCleaned, CleanedOnce
        <4>3. begun \subseteq Cleanups
          BY DEF TypeInv, TypeOK
        <4>4. cleanupId[s] = s
          BY <2>2, <2>3, <4>2, <4>3 DEF SessionInv, CleanedBy, Interrupted
        <4>5. s \notin Cleanups /\ s # None
          BY ScopeAssumption
        <4>6. ~SharesCleanup(s)
          BY <4>3, <4>4, <4>5 DEF SharesCleanup, CleaningInv, SessionInv, CleanedBy
        <4>7. AwaitedFor(s) = None
          BY <2>2, <4>2, <4>6 DEF SessionInv, AwaitsItsTasks
        <4> QED
          BY <4>7, NoneIsDistinct DEF AwaitedFor, Busy
      <3> QED
        BY <3>1, <3>2
    <2>7. Busy(s)' = Busy(s)
      BY <2>1 DEF Busy
    <2> QED
      BY <2>5, <2>6, <2>7
  <1>4. ASSUME c \notin notified, NEW x \in Sessions, Finalize(x), Released(x),
               UNCHANGED <<tasks, begun>>
        PROVE  status'[s] \notin Stored /\ Busy(s)' = {}
    <2>1. cleanupId[x] = c /\ LastOfParent(x)
      BY <1>4, FinalizeNotifies
    <2>2. ParentOf[x] = ParentOf[s]
      BY <1>1, <2>1 DEF SessionsInterrupted, Interrupted
    <2>3. (s # x => status[s] \notin Stored) /\ Busy(s) = {}
      BY <1>4, <2>1, <2>2, LastIsClean
    <2>4. status'[s] \notin Stored
      BY <1>4, <2>3, FinalizeEffect DEF Stored
    <2> QED
      BY <1>4, <2>3, <2>4 DEF Busy
  <1>5. ASSUME c \notin notified, NEW x \in Sessions, CleanupFinished(x)
        PROVE  status'[s] \notin Stored /\ Busy(s)' = {}
    BY <1>4, <1>5 DEF CleanupFinished, Released
  <1>6. ASSUME c \notin notified, NEW x \in Sessions, NEW w \in Workflows, FinishCleanup(w, x)
        PROVE  status'[s] \notin Stored /\ Busy(s)' = {}
    BY <1>4, <1>6 DEF FinishCleanup, Released
  <1>7. \/ notified' = notified
        \/ \E d \in Cleanups : EarlyCleanup(d)
        \/ \E x \in Sessions : CleanupFinished(x)
        \/ \E w \in Workflows, x \in Sessions : FinishCleanup(w, x)
    BY DEF Next, Flush, InnerWorkflow, Parent, vars, parent, GiveInput, BeginScope,
           ReachTerminal, TerminateIgnored, SwitchStage, StartTask, FinishTask,
           TaskDropped, DespawnParent, Terminate, CancelScope
  <1> QED
    BY <1>2, <1>3, <1>5, <1>6, <1>7

\* When the parent scope has been told that the scope is clean, the scope holds
\* no session for it, runs none of its tasks, and never will: however many
\* sessions it ran for that parent, whichever of them had terminated or been
\* cancelled by then, and although they may overwrite each other's nodes in
\* CleanupContents.  The scope may be interrupted, and no trim asks for a
\* cleanup of a session that the parent scope cleans.
THEOREM NotifiedClean ==
  ASSUME ~Uninterruptible, NoTrims
  PROVE  Spec => []NotifiedMeansClean
  <1> DEFINE Inv == TypeInv /\ CleaningInv /\ NotifiedInv
  <1>1. Init => Inv
    <2> SUFFICES ASSUME Init PROVE NotifiedInv
      BY TypeInvInit, CleaningInvInit
    <2>1. SharedCleanups
      BY ScopeAssumption DEF Init, SharedCleanups, SharedCleanup, Under
    <2>2. SessionsInterrupted
      BY ScopeAssumption DEF Init, SessionsInterrupted, Interrupted, Settled, Busy
    <2> QED
      BY <2>1, <2>2 DEF Init, NotifiedInv, ClosedOnce, NotifiedMeansClean
  <1>2. Inv /\ [Next]_vars => Inv'
    <2> SUFFICES ASSUME Inv, [Next]_vars PROVE NotifiedInv'
      BY TypeInvNext, CleaningInvNext
    <2>1. SharedCleanups'
      BY SharedCleanupsNext DEF NotifiedInv, SharedCleanups
    <2>2. SessionsInterrupted'
      BY InterruptedNext DEF NotifiedInv, SessionsInterrupted
    <2>3. ClosedOnce'
      BY ClosedOnceNext DEF NotifiedInv
    <2>4. NotifiedMeansClean'
      BY NotifiedMeansCleanNext
    <2> QED
      BY <2>1, <2>2, <2>3, <2>4 DEF NotifiedInv
  <1>3. Inv => NotifiedMeansClean
    BY DEF NotifiedInv
  <1> QED
    BY <1>1, <1>2, <1>3, PTL DEF Spec
=============================================================================
