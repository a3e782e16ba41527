----------------------------- MODULE Execution ------------------------------
(***************************************************************************)
(* Execution of a process (execution/api.py, service.py): an instance      *)
(* pins the graph of a published version, works through it in attempts at  *)
(* steps, confirms results from a registry card or by hand, advances over  *)
(* the transition the result selects, and goes back step by step.          *)
(*                                                                         *)
(* mutation() locks the instance row to the end of the transaction and     *)
(* refuses an old revision, so a handler is one step; two are not, because *)
(* they read rows they do not lock: start reads the version first and its  *)
(* graph later, and advance reads the result's card, which may be edited   *)
(* before advance commits.  What a handler refuses changes nothing.        *)
(* Deadlines, reasons, attachments and the event history are left out.     *)
(***************************************************************************)
EXTENDS ProcessVersions

CONSTANTS
    Instance,     \* identities of process instances (a bound)
    User,         \* users who may work on them
    NoUser,
    Blank,        \* the values of a step without a form
    NotRouting,   \* no advance of the instance is under way
    MaxAttempt,   \* bound on the attempts of an instance
    MaxRevision   \* bound on the revisions of the card

ASSUME BoundsAreNat == MaxAttempt \in Nat /\ MaxRevision \in Nat

VARIABLES
    instances,    \* process_instances; version 0 before the row exists
    attempts,     \* [Instance -> its step_executions, with checklist and result]
    starting,     \* [Instance -> the version a start has read, or 0]
    routing,      \* [Instance -> the step an uncommitted advance selected]
    card          \* the result card: the value of each of its metadata revisions

execVars == <<instances, attempts, starting, routing, card>>
vars == <<versions, execVars>>

NoInstance == [state |-> "none", version |-> 0, graph |-> EmptyGraph,
               assignee |-> NoUser, path |-> <<>>, current |-> 0]
NoResult == [revision |-> 0, value |-> NoStep]   \* result_id NULL
\* A result read from the card at a revision, or (revision 0) typed in.
Result == [revision: 0..MaxRevision, value: Value \cup {Blank}]

Terminal == {"completed", "cancelled"}

ProcessInstance ==
    [state: {"none", "pending", "active", "suspended"} \cup Terminal,
     version: Nat, graph: Graph \cup {EmptyGraph}, assignee: User \cup {NoUser},
     path: Seq(Nat), current: Nat]
StepExecution(g) ==
    [step: g.steps, no: 1..MaxAttempt, assignee: User,
     state: {"pending", "active", "completed", "returned"},
     checked: BOOLEAN, result: Result \cup {NoResult}]

TypeOK ==
    /\ versions \in Seq(Version)
    /\ \A v \in DOMAIN versions :
           versions[v].state = "published" => versions[v].graph \in Publishable
    /\ instances \in [Instance -> ProcessInstance]
    /\ starting \in [Instance -> 0..Len(versions)]
    /\ attempts = [i \in Instance |-> attempts[i]]
    /\ routing = [i \in Instance |-> routing[i]]
    /\ \A i \in Instance :
        LET n == instances[i] IN
        /\ n.version \in 0..Len(versions)
        /\ attempts[i] \in Seq(StepExecution(n.graph))
        /\ n.current \in 0..Len(attempts[i])
        /\ \A k \in DOMAIN n.path : n.path[k] \in DOMAIN attempts[i]
        /\ routing[i] \in n.graph.steps \cup {NoStep, NotRouting}
    /\ card \in Seq(Value)

Init ==
    /\ InitVersions
    /\ instances = [i \in Instance |-> NoInstance]
    /\ attempts = [i \in Instance |-> <<>>]
    /\ starting = [i \in Instance |-> 0]
    /\ routing = [i \in Instance |-> NotRouting]
    /\ card \in {<<v>> : v \in Value}

-----------------------------------------------------------------------------
\* make_attempt: the next attempt at step s; a step without a checklist has
\* nothing left to check.
NewAttempt(n, old, s) ==
    [step |-> s, no |-> Cardinality({k \in DOMAIN old : old[k].step = s}) + 1,
     assignee |-> n.assignee, state |-> "pending",
     checked |-> s \notin n.graph.tasks, result |-> NoResult]

\* Instance i is left as n, its attempts as a.
Write(i, n, a) ==
    /\ instances' = [instances EXCEPT ![i] = n]
    /\ attempts' = [attempts EXCEPT ![i] = a]

\* The same, with a new current attempt at step s.
WriteAttempt(i, n, a, s) ==
    /\ Len(a) < MaxAttempt
    /\ Write(i, [n EXCEPT !.current = Len(a) + 1], Append(a, NewAttempt(n, a, s)))

\* Slip: start does not look at the state of the version.
ReadVersionOfAny(i, v) ==
    /\ instances[i].state = "none" /\ starting[i] = 0
    /\ versions[v].graph # EmptyGraph
    /\ starting' = [starting EXCEPT ![i] = v]
    /\ UNCHANGED <<versions, instances, attempts, routing, card>>

ReadVersion(i, v) ==
    /\ instances[i].state = "none" /\ starting[i] = 0
    /\ versions[v].state = "published"
    /\ starting' = [starting EXCEPT ![i] = v]
    /\ UNCHANGED <<versions, instances, attempts, routing, card>>

\* start: build_snapshot pins the graph it now reads.
StartInstance(i, u) ==
    LET g == versions[starting[i]].graph IN
    /\ starting[i] # 0
    /\ WriteAttempt(i, [NoInstance EXCEPT !.state = "pending", !.version = starting[i],
                                          !.graph = g, !.assignee = u],
                    <<>>, Start(g))
    /\ starting' = [starting EXCEPT ![i] = 0]
    /\ UNCHANGED <<versions, routing, card>>

-----------------------------------------------------------------------------
\* mutation: the row is free and not terminal.  With work = TRUE it also is not
\* suspended; the worker is its assignee.
Current(i) == attempts[i][instances[i].current]
Mutable(i) ==
    /\ instances[i].state \in {"pending", "active", "suspended"}
    /\ routing[i] = NotRouting
Workable(i) == Mutable(i) /\ instances[i].state # "suspended"
WorkOn(i, step) ==
    Write(i, instances[i], [attempts[i] EXCEPT ![instances[i].current] = step])

Open(i) ==
    /\ Workable(i)
    /\ Current(i).state = "pending"
    /\ Write(i, [instances[i] EXCEPT !.state = "active"],
             [attempts[i] EXCEPT ![instances[i].current].state = "active"])
    /\ UNCHANGED <<versions, starting, routing, card>>

Checklist(i, checked) ==
    /\ Workable(i)
    /\ Current(i).state = "active" /\ Current(i).step \in instances[i].graph.tasks
    /\ WorkOn(i, [Current(i) EXCEPT !.checked = checked])
    /\ UNCHANGED <<versions, starting, routing, card>>

\* confirmed_values, result_document: the card is locked and at the revision the
\* user confirms; its values are read at the server.
SaveResult(i, r) ==
    /\ Workable(i)
    /\ Current(i).state = "active"
    /\ r.revision # 0 => r = [revision |-> Len(card), value |-> Last(card)]
    /\ IF Current(i).step \in instances[i].graph.forms THEN r.value \in Value
       ELSE r = [revision |-> 0, value |-> Blank]
    /\ WorkOn(i, [Current(i) EXCEPT !.result = r])
    /\ UNCHANGED <<versions, starting, routing, card>>

\* The attempt is active, confirmed, checked, and its card still at the
\* confirmed revision.
MayAdvance(i) ==
    /\ Workable(i)
    /\ Current(i).state = "active" /\ Current(i).result # NoResult
    /\ Current(i).checked
    /\ Current(i).result.revision \in {0, Len(card)}

\* advance, up to route.
SelectRoute(i) ==
    /\ MayAdvance(i)
    /\ routing' = [routing EXCEPT ![i] =
           Route(instances[i].graph, Current(i).step, Current(i).result.value)]
    /\ UNCHANGED <<versions, instances, attempts, starting, card>>

\* The rest of advance: the attempt completes and joins the path; the instance
\* goes on at the selected step or completes.
Advance(i) ==
    LET n == [instances[i] EXCEPT !.path = Append(@, instances[i].current)]
        done == [attempts[i] EXCEPT ![instances[i].current].state = "completed"]
    IN
    /\ routing[i] # NotRouting
    /\ \/ routing[i] # NoStep /\ WriteAttempt(i, n, done, routing[i])
       \/ routing[i] = NoStep /\ Write(i, [n EXCEPT !.state = "completed"], done)
    /\ routing' = [routing EXCEPT ![i] = NotRouting]
    /\ UNCHANGED <<versions, starting, card>>

\* The transaction of advance fails after route.
AbandonAdvance(i) ==
    /\ routing[i] # NotRouting
    /\ routing' = [routing EXCEPT ![i] = NotRouting]
    /\ UNCHANGED <<versions, instances, attempts, starting, card>>

-----------------------------------------------------------------------------
Assign(i, u) ==
    /\ Mutable(i)
    /\ Write(i, [instances[i] EXCEPT !.assignee = u],
             [attempts[i] EXCEPT ![instances[i].current].assignee = u])
    /\ UNCHANGED <<versions, starting, routing, card>>

SetState(i, state) ==
    /\ instances' = [instances EXCEPT ![i].state = state]
    /\ UNCHANGED <<versions, attempts, starting, routing, card>>

Suspend(i) == Mutable(i) /\ instances[i].state # "suspended" /\ SetState(i, "suspended")
Cancel(i) == Mutable(i) /\ SetState(i, "cancelled")

\* started_at is set since Open.
Resume(i) ==
    /\ Mutable(i) /\ instances[i].state = "suspended"
    /\ SetState(i, IF Current(i).state = "active" THEN "active" ELSE "pending")

\* Slips: a return from a suspended instance, and one that leaves the current
\* attempt open.
ReturnSuspended(i) ==
    LET n == instances[i] IN
    /\ Mutable(i) /\ n.state # "pending" /\ n.path # <<>>
    /\ WriteAttempt(i, [n EXCEPT !.path = Front(@)],
                    [attempts[i] EXCEPT ![n.current].state = "returned"],
                    attempts[i][Last(n.path)].step)
    /\ UNCHANGED <<versions, starting, routing, card>>

ReturnLeavingOpen(i) ==
    LET n == instances[i] IN
    /\ Mutable(i) /\ n.state = "active" /\ n.path # <<>>
    /\ WriteAttempt(i, [n EXCEPT !.path = Front(@)], attempts[i],
                    attempts[i][Last(n.path)].step)
    /\ UNCHANGED <<versions, starting, routing, card>>

\* return_step: a new attempt at the step the path last completed.
Return(i) ==
    LET n == instances[i] IN
    /\ Mutable(i) /\ n.state = "active" /\ n.path # <<>>
    /\ WriteAttempt(i, [n EXCEPT !.path = Front(@)],
                    [attempts[i] EXCEPT ![n.current].state = "returned"],
                    attempts[i][Last(n.path)].step)
    /\ UNCHANGED <<versions, starting, routing, card>>

\* Somebody saves the result card: its next metadata revision.
UpdateCard(v) ==
    /\ Len(card) < MaxRevision
    /\ card' = Append(card, v)
    /\ UNCHANGED <<versions, instances, attempts, starting, routing>>

Next ==
    \/ NextVersions /\ UNCHANGED execVars
    \/ \E i \in Instance :
        \/ \E v \in DOMAIN versions : ReadVersion(i, v)
        \/ \E u \in User : StartInstance(i, u) \/ Assign(i, u)
        \/ \E checked \in BOOLEAN : Checklist(i, checked)
        \/ \E r \in Result : SaveResult(i, r)
        \/ Open(i) \/ SelectRoute(i) \/ Advance(i) \/ AbandonAdvance(i)
        \/ Suspend(i) \/ Resume(i) \/ Cancel(i) \/ Return(i)
    \/ \E v \in Value : UpdateCard(v)

Spec == Init /\ [][Next]_vars

-----------------------------------------------------------------------------
Existing == {i \in Instance : instances[i].state # "none"}

\* What a result confirms: the value its card revision has, or the typed one.
Confirmed(r) == IF r.revision = 0 THEN r.value ELSE card[r.revision]

\* The step the path leads to after its first k attempts, by the graph the
\* version has now.
StepAfter(i, k) ==
    LET g == versions[instances[i].version].graph
        a == attempts[i][instances[i].path[k]]
    IN  IF k = 0 THEN Start(g) ELSE Route(g, a.step, Confirmed(a.result))

\* The path of an instance is the route through its published version that its
\* confirmed results select, whatever was returned, suspended, edited or
\* published meanwhile; it ends at the current step, or at an end if completed.
PathIsTheRoute ==
    \A i \in Existing :
        LET path == instances[i].path a == attempts[i] IN
        /\ \A k \in DOMAIN path :
            /\ a[path[k]].step = StepAfter(i, k - 1)
            /\ a[path[k]].state = "completed" /\ a[path[k]].checked
        /\ StepAfter(i, Len(path)) =
               IF instances[i].state = "completed" THEN NoStep ELSE Current(i).step

\* An instance has one open attempt, its current one, with the instance's
\* assignee; a step is under way only in an instance that is.
OneOpenAttempt ==
    \A i \in Existing :
        LET n == instances[i] IN
        /\ {k \in DOMAIN attempts[i] : attempts[i][k].state \in {"pending", "active"}}
               = IF n.state = "completed" THEN {} ELSE {n.current}
        /\ n.state # "completed" => Current(i).assignee = n.assignee
        /\ n.state = "pending" => Current(i).state = "pending"
        /\ routing[i] # NotRouting => n.state = "active"

\* No handler runs into the triggers of migrations 0007 and 0009: published
\* versions, terminal instances, closed attempts and their facts stay as they
\* are, and results and checks go to an active current attempt only.
TriggerAccepts(i) ==
    LET n == instances[i] m == instances'[i] a == attempts[i] b == attempts'[i]
        underWay == n.state = "active" /\ a[n.current].state = "active"
    IN
    /\ (n.state \in Terminal) => (m = n /\ b = a)
    /\ n.state # "none" => <<m.version, m.graph>> = <<n.version, n.graph>>
    /\ \A k \in DOMAIN a :
        /\ b[k] # a[k] => a[k].state \in {"pending", "active"}
        /\ <<b[k].step, b[k].no>> = <<a[k].step, a[k].no>>
        /\ <<b[k].result, b[k].checked>> # <<a[k].result, a[k].checked>>
               => underWay /\ k = n.current
    /\ \A k \in DOMAIN b \ DOMAIN a : m.state \in {"pending", "active"} /\ k = m.current

TriggersAccept ==
    [][/\ \A i \in Instance : TriggerAccepts(i)
       /\ \A v \in DOMAIN versions :
              versions[v].state = "published" => versions'[v] = versions[v]]_vars
=============================================================================
