---------------------------- MODULE OperateScope ----------------------------
(***************************************************************************)
(* One scope embedded in a parent workflow (operation/scope.rs): the       *)
(* sessions it runs for the inputs it is given, how each of them ends, and *)
(* the cleanup that must finish before the parent is told of the end.      *)
(*                                                                         *)
(* A session ends by terminating, by being cancelled from the inside, or   *)
(* by an early cleanup its parent asks for.  Its nodes are then cleaned, a *)
(* node with a running task when the task has been dropped and any other   *)
(* at once; when the last has notified, the cleanup workflows run on the   *)
(* buffers; when the last of those is finished the session is finalized:   *)
(* its output or disposal is sent to the parent and it is despawned.       *)
(*                                                                         *)
(* CleanupContents and the roster identify a cleanup by its cleanup_id.    *)
(* A session that terminates or is cancelled is cleaned under an id of its *)
(* own, written here as the session itself; the sessions of an early       *)
(* cleanup share the id of the parent's cleanup.                           *)
(*                                                                         *)
(* The inner workflow is open: while a session is active any node may      *)
(* start a task, and the terminate and cancel operations may be reached.   *)
(* A node with no task for a session is cleaned within the step that asks, *)
(* so CleanupContents keeps only the nodes that have one.                  *)
(***************************************************************************)
CONSTANTS
    Sessions,         \* the scoped sessions, one for each input of the scope
    Parents,          \* the sessions of the parent scope
    ParentOf,         \* ParentSession of each scoped session
    Nodes,            \* the nodes of the scope that run tasks
    Workflows,        \* the cleanup workflows of the scope
    OnTerminate,      \* those that run when a session has terminated
    OnCancelled,      \* those that run when it was cancelled or cleaned early
    Uninterruptible,  \* ScopeSettings::uninterruptible
    Cleanups,         \* the cleanups the parent may ask the scope for
    CleanupOf,        \* the parent session each of them cleans
    ScopeCleanups,    \* those the parent scope issues; its trims issue the others
    None              \* Option::None

ASSUME ScopeAssumption ==
    /\ ParentOf \in [Sessions -> Parents]
    /\ OnTerminate \subseteq Workflows /\ OnCancelled \subseteq Workflows
    /\ Uninterruptible \in BOOLEAN
    /\ CleanupOf \in [Cleanups -> Parents]
    /\ ScopeCleanups \subseteq Cleanups
    /\ Cleanups \cap Sessions = {}
    /\ None \notin Cleanups \cup Sessions
    /\ \A S \in (SUBSET Nodes) \cup (SUBSET Workflows) : None # S

VARIABLES
    stage,      \* whether the flush is draining the roster or the channel
    status,     \* ScopedSession::status, and where a session without one is
    session,    \* SessionStatus of the scoped session
    tasks,      \* the tasks being executed, as <<node, session>>
    dropping,   \* those that were cancelled and have not been dropped
    terminal,   \* sessions with an input in the Terminate operation
    staged,     \* sessions with an entry in its Staging
    contents,   \* CleanupContents: the nodes each cleanup_id awaits, or None
    finished,   \* roster.cleanup_finished
    awaiting,   \* sessions with an entry in AwaitingCleanupStorage
    cleanupId,  \* CleanupInfo::cleanup of that entry
    finish,     \* CleanupInfo::status of that entry
    pending,    \* cleanup_workflow_sessions of that entry
    outcome,    \* what the parent has been told of the session
    begun,      \* the cleanups the parent has asked for
    notified,   \* those it has been notified of
    closed,     \* the parent sessions whose SessionStatus is Cleaning
    gone        \* the parent sessions that are despawned

inner == <<tasks, terminal, staged>>
cleaning == <<session, dropping, contents, finished, awaiting, cleanupId, finish>>
parent == <<begun, notified, closed, gone>>
vars == <<stage, status, inner, cleaning, pending, outcome, parent>>

Ids == Cleanups \cup Sessions

\* The statuses of the sessions that ScopedSessionStorage holds.
Stored == {"ongoing", "terminated", "deferred", "cleanup", "cancelled"}

TypeOK ==
    /\ stage \in {"queue", "channel"}
    /\ status \in [Sessions -> Stored \cup {"new", "waiting", "purged"}]
    /\ session \in [Sessions -> {"none", "active", "cleaning", "despawned"}]
    /\ tasks \in SUBSET (Nodes \X Sessions)
    /\ dropping \in SUBSET tasks
    /\ terminal \in SUBSET Sessions
    /\ staged \in SUBSET Sessions
    /\ contents \in [Ids -> (SUBSET Nodes) \cup {None}]
    /\ finished \in SUBSET Sessions
    /\ awaiting \in SUBSET Sessions
    /\ cleanupId \in [Sessions -> Ids \cup {None}]
    /\ finish \in [Sessions -> {"none", "terminated", "cancelled", "early"}]
    /\ pending \in [Sessions -> (SUBSET Workflows) \cup {None}]
    /\ outcome \in [Sessions -> {"none", "output", "disposed", "cleaned"}]
    /\ begun \in SUBSET Cleanups
    /\ notified \in SUBSET begun
    /\ closed \in SUBSET Parents
    /\ gone \in SUBSET closed

Init ==
    /\ stage = "queue"
    /\ status = [s \in Sessions |-> "new"]
    /\ session = [s \in Sessions |-> "none"]
    /\ tasks = {}
    /\ dropping = {}
    /\ terminal = {}
    /\ staged = {}
    /\ contents = [i \in Ids |-> None]
    /\ finished = {}
    /\ awaiting = {}
    /\ cleanupId = [s \in Sessions |-> None]
    /\ finish = [s \in Sessions |-> "none"]
    /\ pending = [s \in Sessions |-> None]
    /\ outcome = [s \in Sessions |-> "none"]
    /\ begun = {}
    /\ notified = {}
    /\ closed = {}
    /\ gone = {}

-----------------------------------------------------------------------------
(* Derived state *)

Assign(f, S, v) == [x \in DOMAIN f |-> IF x \in S THEN v ELSE f[x]]

\* The nodes that run a task for session s.
Busy(s) == {n \in Nodes : <<n, s>> \in tasks}

\* The sessions that ScopedSessionStorage holds for parent session p.
StoredFor(p) == {s \in Sessions : ParentOf[s] = p /\ status[s] \in Stored}

\* garbage_cleanup runs after every operation, so that an operation runs only
\* when the cleanup_finished of the one before it is empty.
Ready == stage = "queue" /\ finished = {}

-----------------------------------------------------------------------------
(* The parent workflow gives inputs and the scope begins a session for each *)

GiveInput(s) ==
    /\ Ready
    /\ status[s] = "new"
    /\ ParentOf[s] \notin closed
    /\ status' = [status EXCEPT ![s] = "waiting"]
    /\ UNCHANGED <<stage, inner, cleaning, pending, outcome, parent>>

BeginScope(s) ==
    /\ Ready
    /\ status[s] = "waiting"
    /\ status' = [status EXCEPT ![s] = "ongoing"]
    /\ session' = [session EXCEPT ![s] = "active"]
    /\ UNCHANGED <<stage, inner, dropping, contents, finished, awaiting,
                   cleanupId, finish, pending, outcome, parent>>

-----------------------------------------------------------------------------
(* The inner workflow *)

StartTask(n, s) ==
    /\ Ready
    /\ session[s] = "active"
    /\ tasks' = tasks \cup {<<n, s>>}
    /\ UNCHANGED <<stage, status, terminal, staged, cleaning, pending, outcome,
                   parent>>

\* Mutant: a task is polled after its future was taken to be cancelled.
FinishCancelledTask(n, s) ==
    /\ Ready
    /\ <<n, s>> \in tasks
    /\ tasks' = tasks \ {<<n, s>>}
    /\ UNCHANGED <<stage, status, terminal, staged, cleaning, pending, outcome,
                   parent>>

FinishTask(n, s) ==
    /\ Ready
    /\ <<n, s>> \in tasks \ dropping
    /\ tasks' = tasks \ {<<n, s>>}
    /\ UNCHANGED <<stage, status, terminal, staged, cleaning, pending, outcome,
                   parent>>

\* An input for the Terminate operation.
ReachTerminal(s) ==
    /\ Ready
    /\ session[s] = "active"
    /\ terminal' = terminal \cup {s}
    /\ UNCHANGED <<stage, status, tasks, staged, cleaning, pending, outcome,
                   parent>>

-----------------------------------------------------------------------------
(* The cleanup of the sessions of a scope *)

\* Mutant: the sessions that are already being cleaned are cleaned again.
NotYetCleaningOrAgain(S) == {s \in S : session[s] \in {"active", "cleaning"}}

\* Sessions of S that cleanup_entire_scope does not skip.
NotYetCleaning(S) == {s \in S : session[s] = "active"}

\* The nodes left to await once those without a task have notified.
AwaitedFor(s) == IF Busy(s) = {} THEN None ELSE Busy(s)

\* cleanup_entire_scope: each session gets an AwaitingCleanup, its tasks are
\* cancelled, and add_cleanup registers its nodes under the cleanup_id in place
\* of those of the session before it, so that the last one's remain.  The order
\* is that of the inputs, which is any.
CleanupEntireScope(S, id, how) ==
    LET fresh == NotYetCleaning(S)
    IN  /\ session' = Assign(session, fresh, "cleaning")
        /\ awaiting' = awaiting \cup fresh
        /\ cleanupId' = Assign(cleanupId, fresh, id)
        /\ finish' = Assign(finish, fresh, how)
        /\ dropping' = dropping \cup {t \in tasks : t[2] \in fresh}
        /\ finished' = finished \cup {s \in fresh : Busy(s) = {}}
        /\ IF fresh = {} THEN UNCHANGED contents
           ELSE \E last \in fresh :
                    contents' = [contents EXCEPT ![id] = AwaitedFor(last)]

\* Terminate::execute, when the session already has a staged output or its
\* status does not change.
TerminateIgnored(s) ==
    /\ Ready
    /\ s \in terminal
    /\ s \in staged \/ status[s] \notin {"ongoing", "deferred"}
    /\ terminal' = terminal \ {s}
    /\ staged' = staged \cup {s}
    /\ UNCHANGED <<stage, status, tasks, cleaning, pending, outcome, parent>>

\* Terminate::execute: ScopedSessionStatus::to_finished.
Terminate(s) ==
    /\ Ready
    /\ s \in terminal \ staged
    /\ status[s] \in {"ongoing", "deferred"}
    /\ terminal' = terminal \ {s}
    /\ staged' = staged \cup {s}
    /\ status' = [status EXCEPT ![s] = IF status[s] = "ongoing"
                                       THEN "terminated" ELSE "cleanup"]
    /\ CleanupEntireScope({s}, s, "terminated")
    /\ UNCHANGED <<stage, tasks, pending, outcome, parent>>

\* ScopedSessionStatus::to_cancelled
MayBeCancelled(s) == status[s] \in {"ongoing", "deferred"}

\* cancel_one, for an input of the CancelScope operation, for a broken node or
\* because validate_scope_reachability finds no way to an end.
CancelScope(s) ==
    /\ Ready
    /\ session[s] = "active"
    /\ MayBeCancelled(s)
    /\ status' = [status EXCEPT ![s] = "cancelled"]
    /\ CleanupEntireScope({s}, s, "cancelled")
    /\ UNCHANGED <<stage, inner, pending, outcome, parent>>

\* ScopedSessionStatus::to_cleanup: the sessions of p that are to be cleaned.
ToCleanup(p) ==
    IF Uninterruptible THEN {}
    ELSE {s \in StoredFor(p) : status[s] # "cleanup"}

\* dyn_early_cleanup: the parent scope, or a trim in it, asks the scope to
\* clean parent session CleanupOf[c].
EarlyCleanup(c) ==
    LET p == CleanupOf[c]
        inputs == {s \in Sessions : ParentOf[s] = p /\ status[s] = "waiting"}
        changed == {s \in StoredFor(p) : status[s] # "cleanup"}
    IN  /\ Ready
        /\ c \notin begun
        /\ p \notin closed
        /\ begun' = begun \cup {c}
        /\ closed' = IF c \in ScopeCleanups THEN closed \cup {p} ELSE closed
        /\ status' = Assign(Assign(status, inputs, "purged"), changed,
                            IF Uninterruptible THEN "deferred" ELSE "cleanup")
        /\ outcome' = Assign(outcome, inputs, "cleaned")
        /\ CleanupEntireScope(ToCleanup(p), c, "early")
        /\ notified' = IF ToCleanup(p) = {} THEN notified \cup {c} ELSE notified
        /\ UNCHANGED <<stage, inner, pending, gone>>

\* The flush begins, and ends, a drain of the channel.
SwitchStage ==
    /\ stage = "queue" => finished = {}
    /\ stage' = IF stage = "queue" THEN "channel" ELSE "queue"
    /\ UNCHANGED <<status, inner, cleaning, pending, outcome, parent>>

\* Mutant: a node that runs a task is forgotten with its first notification.
AwaitedAfterNone(n, id) == {}

\* Mutant: the notification of a node is not registered.
AwaitedAfterAll(n, id) == contents[id]

\* register_cleanup_of_node
AwaitedAfter(n, id) == contents[id] \ {n}

\* A task of session s has been dropped.  Its node notifies the scope unless it
\* has another task under the same cleanup_id, and the scope takes the session
\* for clean when no node is left to await under that id.
TaskDropped(n, s) ==
    LET id == cleanupId[s]
        others == {q \in Sessions \ {s} : <<n, q>> \in dropping
                                           /\ cleanupId[q] = id}
        notifies == others = {} /\ contents[id] # None
        last == notifies /\ AwaitedAfter(n, id) = {}
    IN  /\ stage = "channel"
        /\ <<n, s>> \in dropping
        /\ tasks' = tasks \ {<<n, s>>}
        /\ dropping' = dropping \ {<<n, s>>}
        /\ contents' = [contents EXCEPT ![id] = IF last THEN None
                                                ELSE IF notifies THEN AwaitedAfter(n, id)
                                                ELSE @]
        /\ finished' = IF last THEN finished \cup {s} ELSE finished
        /\ UNCHANGED <<stage, status, session, terminal, staged, awaiting,
                       cleanupId, finish, pending, outcome, parent>>

-----------------------------------------------------------------------------
(* The end of a session *)

\* Mutant: the other sessions of the parent are not looked at.
NoOtherSession(s) == TRUE

\* Mutant: session s itself, which is purged later, is taken for another.
NoSessionLeft(s) == StoredFor(ParentOf[s]) = {}

\* No other session is left that the scope runs for the parent of s.
LastOfParent(s) == StoredFor(ParentOf[s]) \subseteq {s}

\* finalize_scoped_session: the parent is notified of an early cleanup once all
\* its sessions are finished, and is given the output of a terminated session
\* unless its own session is not active any more.
Finalize(s) ==
    LET p == ParentOf[s]
        left == IF finish[s] = "early" THEN awaiting ELSE awaiting \ {s}
        same == {q \in left : cleanupId[q] = cleanupId[s]}
        notifies == /\ \E q \in same : finish[q] = "early"
                    /\ \A q \in same \ {s} : pending[q] = {}
                    /\ LastOfParent(s)
    IN  /\ awaiting' = IF notifies THEN {q \in left : ParentOf[q] # p} ELSE left
        /\ notified' = IF notifies THEN notified \cup {cleanupId[s]} ELSE notified
        /\ outcome' = [outcome EXCEPT ![s] =
                          IF finish[s] = "cancelled" THEN "disposed"
                          ELSE IF finish[s] = "terminated" /\ p \notin closed
                          THEN "output" ELSE "cleaned"]
        /\ status' = [status EXCEPT ![s] = "purged"]
        /\ session' = [session EXCEPT ![s] = "despawned"]
        /\ terminal' = terminal \ {s}
        /\ staged' = staged \ {s}

\* The cleanup workflows that run for session s.
WorkflowsFor(s) == IF finish[s] = "terminated" THEN OnTerminate ELSE OnCancelled

\* Mutant: check_awaiting_session is forgotten.
NeverFinished(s) == FALSE

\* check_awaiting_session: no cleanup workflow was started for session s.
NothingToRun(s) == WorkflowsFor(s) = {}

\* Cleanup::trigger, begin_cleanup_workflows and check_awaiting_session: the
\* cleanup workflows are begun, or the session is finalized if there are none.
CleanupFinished(s) ==
    /\ stage = "queue"
    /\ s \in finished \cap awaiting
    /\ finished' = finished \ {s}
    /\ contents' = [contents EXCEPT ![cleanupId[s]] = None]
    /\ pending' = [pending EXCEPT ![s] = WorkflowsFor(s)]
    /\ IF NothingToRun(s) THEN Finalize(s)
       ELSE UNCHANGED <<status, session, terminal, staged, awaiting, outcome,
                        notified>>
    /\ UNCHANGED <<stage, tasks, dropping, cleanupId, finish, begun, closed, gone>>

\* FinishCleanup: one of the cleanup workflows terminated or was cancelled.
FinishCleanup(w, s) ==
    /\ Ready
    /\ s \in awaiting
    /\ pending[s] # None /\ w \in pending[s]
    /\ pending' = [pending EXCEPT ![s] = @ \ {w}]
    /\ IF pending[s] = {w} THEN Finalize(s)
       ELSE UNCHANGED <<status, session, terminal, staged, awaiting, outcome,
                        notified>>
    /\ UNCHANGED <<stage, tasks, dropping, contents, finished, cleanupId, finish,
                   begun, closed, gone>>

\* The parent scope is finished with session p and despawns it, which despawns
\* the sessions that are its children.
DespawnParent(p) ==
    /\ Ready
    /\ p \in closed \ gone
    /\ \A c \in ScopeCleanups \cap begun : CleanupOf[c] = p => c \in notified
    /\ gone' = gone \cup {p}
    /\ session' = [s \in Sessions |-> IF ParentOf[s] = p /\ session[s] # "none"
                                      THEN "despawned" ELSE session[s]]
    /\ UNCHANGED <<stage, status, inner, dropping, contents, finished, awaiting,
                   cleanupId, finish, pending, outcome, begun, notified, closed>>

-----------------------------------------------------------------------------
Flush ==
    \/ \E s \in Sessions : BeginScope(s) \/ CleanupFinished(s)
    \/ \E s \in Sessions : TerminateIgnored(s) \/ Terminate(s)
    \/ SwitchStage
    \/ \E n \in Nodes, s \in Sessions : TaskDropped(n, s)

InnerWorkflow ==
    \/ \E n \in Nodes, s \in Sessions : StartTask(n, s) \/ FinishTask(n, s)
    \/ \E s \in Sessions : ReachTerminal(s) \/ CancelScope(s)

Parent ==
    \/ \E s \in Sessions : GiveInput(s)
    \/ \E c \in Cleanups : EarlyCleanup(c)
    \/ \E p \in Parents : DespawnParent(p)

Next ==
    \/ Flush
    \/ InnerWorkflow
    \/ Parent
    \/ \E w \in Workflows, s \in Sessions : FinishCleanup(w, s)

Spec == Init /\ [][Next]_vars

\* The application keeps flushing and each pass drains the channel and the
\* roster; every cancelled task is dropped, and every cleanup workflow ends.
Fairness ==
    /\ WF_vars(SwitchStage)
    /\ \A s \in Sessions :
          /\ WF_vars(CleanupFinished(s))
          /\ \A n \in Nodes : SF_vars(TaskDropped(n, s))
          /\ \A w \in Workflows : SF_vars(FinishCleanup(w, s))

FairSpec == Spec /\ Fairness

-----------------------------------------------------------------------------
(* Properties *)

\* Session s was cleaned under an id that another session was cleaned under.
SharesCleanup(s) ==
    \E q \in Sessions \ {s} : cleanupId[s] # None /\ cleanupId[q] = cleanupId[s]

\* The cleanup of session s has something to wait for: it is in the roster, a
\* cleanup workflow is running, or its tasks are being dropped and the scope
\* awaits exactly the nodes that run them.
HasProgress(s) ==
    \/ s \in finished
    \/ pending[s] # None /\ pending[s] # {}
    \/ /\ Busy(s) # {}
       /\ contents[cleanupId[s]] = Busy(s)
       /\ \A n \in Busy(s) : <<n, s>> \in dropping

\* No session is forgotten half-way: as long as a session is being cleaned its
\* cleanup has something to wait for.
CleaningProgresses ==
    \A s \in Sessions : session[s] = "cleaning" => HasProgress(s)

\* The same for the sessions that do not share their cleanup_id.
OwnCleaningProgresses ==
    \A s \in Sessions :
        session[s] = "cleaning" /\ ~SharesCleanup(s) => HasProgress(s)

\* The buffers are cleaned last: no task of a session is executing once its
\* cleanup workflows have begun, nor after the session has been finalized and
\* its output given to the parent.
BuffersAreCleanedLast ==
    \A s \in Sessions :
        pending[s] # None /\ ~SharesCleanup(s) => Busy(s) = {}

\* When the parent scope has been told that the scope is clean of a session,
\* the scope holds no session for it and executes none of its tasks.
NotifiedMeansClean ==
    \A c \in ScopeCleanups \cap notified :
        \A s \in Sessions : ParentOf[s] = CleanupOf[c]
                            => status[s] \notin Stored /\ Busy(s) = {}

\* A cleanup the parent has asked for is notified, or some session that is
\* being cleaned under its id will notify it.
CleanupIsUnderWay ==
    \A c \in begun \ notified :
        \E s \in awaiting : cleanupId[s] = c /\ finish[s] = "early"

\* A termination, a cancellation and a cleanup that the parent asks for may all
\* come to the same session: the first of them decides how it ends, and what
\* the parent has been told of it is never revised.
FirstEndingDecides ==
    [][\A s \in Sessions :
          /\ finish[s] # "none" => finish'[s] = finish[s]
          /\ outcome[s] # "none" => outcome'[s] = outcome[s]]_vars

\* A session that is being cleaned is despawned in the end.
CleaningFinishes ==
    \A s \in Sessions : session[s] = "cleaning" ~> session[s] = "despawned"

\* A cleanup that has interrupted some session of the parent is notified.
InterruptionIsNotified ==
    \A c \in Cleanups :
        (\E s \in Sessions : cleanupId[s] = c) ~> c \in notified
=============================================================================
