-------------------------- MODULE ExecutionProofs ---------------------------
(***************************************************************************)
(* What is proved of the execution of a process, for all graphs a          *)
(* configurator may write, all instances and users and every bound: the    *)
(* path of an instance is the route its confirmed results select, it has   *)
(* one open attempt, and no handler runs into a trigger of the tables.     *)
(***************************************************************************)
EXTENDS Execution, FiniteSetTheorems, SequenceTheorems, WellFoundedInduction, TLAPS

-----------------------------------------------------------------------------
\* The inductive invariant.  Of an instance n with attempts a and the route r that
\* an uncommitted advance has selected:

OpenState == {"pending", "active"}

\* the current attempt is the open one, and the instance's assignee has it,
OneOpen(n, a) ==
    /\ \A k \in DOMAIN a :
          a[k].state \in OpenState <=> (n.state # "completed" /\ k = n.current)
    /\ n.state # "completed" => a[n.current].assignee = n.assignee
    /\ n.state = "pending" => a[n.current].state = "pending"

\* the path is walked along the pinned graph, by the results of its attempts,
Following(n, a, k) ==
    IF k = 0 THEN Start(n.graph)
    ELSE Route(n.graph, a[n.path[k]].step, a[n.path[k]].result.value)

Walked(n, a) ==
    \A k \in DOMAIN n.path :
        /\ n.path[k] \in DOMAIN a
        /\ a[n.path[k]].state = "completed" /\ a[n.path[k]].checked
        /\ a[n.path[k]].step = Following(n, a, k - 1)

Arrived(n, a) ==
    Following(n, a, Len(n.path)) =
        IF n.state = "completed" THEN NoStep ELSE a[n.current].step

\* and the selected route is still the one the current attempt selects.
Routed(n, a, r) ==
    r # NotRouting =>
        /\ n.state = "active"
        /\ a[n.current].state = "active" /\ a[n.current].checked
        /\ r = Route(n.graph, a[n.current].step, a[n.current].result.value)

Tracked(n, a, r) ==
    /\ n.assignee \in User /\ n.current \in DOMAIN a
    /\ OneOpen(n, a) /\ Walked(n, a) /\ Arrived(n, a) /\ Routed(n, a, r)

\* A published version is pinned as it stays, and results are what the card was.
Pinned(n) ==
    /\ n.version \in DOMAIN versions
    /\ versions[n.version] = [state |-> "published", graph |-> n.graph]
Confirms(a) ==
    \A k \in DOMAIN a :
        a[k].result.revision # 0 =>
            /\ a[k].result.revision \in DOMAIN card
            /\ card[a[k].result.revision] = a[k].result.value

IInv ==
    /\ TypeOK
    /\ versions # <<>>
    /\ \A i \in Instance :
          /\ starting[i] # 0 => versions[starting[i]].state = "published"
          /\ instances[i].state = "none" => attempts[i] = <<>> /\ routing[i] = NotRouting
          /\ instances[i].state # "none" =>
                /\ starting[i] = 0
                /\ Pinned(instances[i]) /\ Confirms(attempts[i])
                /\ Tracked(instances[i], attempts[i], routing[i])

-----------------------------------------------------------------------------
\* A published graph leads from a step to a step or nowhere.

LEMMA MinIsThere ==
    ASSUME NEW S, S \subseteq Nat, S # {}
    PROVE  Min(S) \in S
<1>1. PICK x \in S : \A y \in S : ~ (<<y, x>> \in OpToRel(<, Nat))
  BY NatLessThanWellFounded, WFMin, Zenon
<1>2. ASSUME NEW y \in S PROVE x <= y
  <2>1. x \in Nat /\ y \in Nat /\ <<y, x>> \in Nat \X Nat
    OBVIOUS
  <2>2. ~ (y < x)
    BY <1>1, <2>1 DEF OpToRel
  <2> QED
    BY <2>1, <2>2
<1> QED
  BY <1>2 DEF Min

LEMMA PublishedGraph ==
    ASSUME NEW g \in Publishable
    PROVE  /\ g \in Graph /\ Start(g) \in g.steps
           /\ \A k \in DOMAIN g.edges : g.edges[k].to \in g.steps
           /\ DOMAIN g.edges = 1 .. Len(g.edges) /\ Len(g.edges) \in Nat
<1>1. g \in Graph /\ Valid(g)
  BY DEF Publishable
<1>2. PICK s \in g.steps : /\ g.starts = {s}
                           /\ \A k \in DOMAIN g.edges : {g.edges[k].from, g.edges[k].to} \subseteq g.steps
  BY <1>1 DEF Valid
<1>3. Start(g) \in g.steps
  BY <1>2 DEF Start
<1>4. g.edges \in Seq({g.edges[k] : k \in DOMAIN g.edges})
  BY <1>1, GraphsAreWritten
<1>5. DOMAIN g.edges = 1 .. Len(g.edges) /\ Len(g.edges) \in Nat
  BY <1>4
<1> QED
  BY <1>1, <1>2, <1>3, <1>5

LEMMA RouteIsAStep ==
    ASSUME NEW g \in Publishable, NEW s, NEW v
    PROVE  Route(g, s, v) \in g.steps \cup {NoStep}
<1>1. ASSUME NEW S, S \subseteq 1 .. Len(g.edges)
      PROVE  (IF S # {} THEN Min(S) ELSE 0) \in DOMAIN g.edges \cup {0}
  <2>1. S \subseteq Nat
    BY <1>1, PublishedGraph
  <2> QED
    BY <1>1, <2>1, MinIsThere, PublishedGraph
<1> DEFINE met == {k \in 1 .. Len(g.edges) :
                g.edges[k].from = s /\ ~g.edges[k].otherwise
                /\ (Conditional(g.edges[k]) => v \in g.edges[k].on)}
           other == {k \in 1 .. Len(g.edges) : g.edges[k].from = s /\ g.edges[k].otherwise}
           least(S) == IF S # {} THEN Min(S) ELSE 0
<1>2. least(met) \in DOMAIN g.edges \cup {0} /\ least(other) \in DOMAIN g.edges \cup {0}
  BY <1>1
<1>3. Route(g, s, v) = IF least(met) > 0 THEN g.edges[least(met)].to
                       ELSE IF least(other) > 0 THEN g.edges[least(other)].to ELSE NoStep
  BY DEF Route, SelectInSeq
<1> HIDE DEF met, other, least
<1> QED
  BY <1>2, <1>3, PublishedGraph

-----------------------------------------------------------------------------
\* The values of an instance and of an attempt.

LEMMA InstanceFields ==
    ASSUME NEW n \in ProcessInstance
    PROVE  /\ n.state \in {"none", "pending", "active", "suspended", "completed", "cancelled"}
           /\ n.version \in Nat /\ n.graph \in Graph \cup {EmptyGraph}
           /\ n.assignee \in User \cup {NoUser} /\ n.path \in Seq(Nat) /\ n.current \in Nat
  BY DEF ProcessInstance, Terminal

LEMMA AttemptFields ==
    ASSUME NEW g, NEW a \in StepExecution(g)
    PROVE  /\ a.step \in g.steps /\ a.no \in 1 .. MaxAttempt /\ a.assignee \in User
           /\ a.state \in {"pending", "active", "completed", "returned"}
           /\ a.checked \in BOOLEAN /\ a.result \in Result \cup {NoResult}
  BY DEF StepExecution

LEMMA NewAttemptIsPending ==
    ASSUME NEW n, NEW old, NEW s,
           old \in Seq(StepExecution(n.graph)), s \in n.graph.steps, n.assignee \in User,
           Len(old) < MaxAttempt
    PROVE  /\ NewAttempt(n, old, s) \in StepExecution(n.graph)
           /\ NewAttempt(n, old, s).step = s /\ NewAttempt(n, old, s).state = "pending"
           /\ NewAttempt(n, old, s).assignee = n.assignee
           /\ NewAttempt(n, old, s).result = NoResult
<1> DEFINE same == {k \in DOMAIN old : old[k].step = s}
<1>1. Cardinality(same) \in Nat /\ Cardinality(same) <= Len(old)
  <2>1. DOMAIN old = 1 .. Len(old) /\ Len(old) \in Nat
    OBVIOUS
  <2>2. IsFiniteSet(1 .. Len(old)) /\ Cardinality(1 .. Len(old)) = Len(old)
    <3>1. 1 \in Int /\ Len(old) \in Int
      BY <2>1
    <3>2. IsFiniteSet(1 .. Len(old)) /\
          Cardinality(1 .. Len(old)) = IF 1 > Len(old) THEN 0 ELSE Len(old) - 1 + 1
      BY <3>1, FS_Interval
    <3> QED
      BY <2>1, <3>2
  <2>3. same \subseteq 1 .. Len(old)
    BY <2>1
  <2>4. IsFiniteSet(same) /\ Cardinality(same) <= Cardinality(1 .. Len(old))
    BY <2>2, <2>3, FS_Subset
  <2>5. Cardinality(same) \in Nat
    BY <2>4, FS_CardinalityType
  <2> QED
    BY <2>2, <2>4, <2>5
<1> HIDE DEF same
<1>2. PICK no \in 1 .. MaxAttempt : no = Cardinality(same) + 1
  <2>1. Len(old) \in Nat
    OBVIOUS
  <2> QED
    BY <1>1, <2>1, BoundsAreNat
<1>3. PICK checked \in BOOLEAN : checked = (s \notin n.graph.tasks)
  OBVIOUS
<1>4. NewAttempt(n, old, s) =
          [step |-> s, no |-> no, assignee |-> n.assignee, state |-> "pending",
           checked |-> checked, result |-> NoResult]
  BY <1>2, <1>3 DEF NewAttempt, same
<1> QED
  BY <1>2, <1>3, <1>4 DEF StepExecution

-----------------------------------------------------------------------------
\* What a handler makes of an instance: it is left as m, with attempts b and route q,
\* and the triggers accept the change.

Accepts(n, a, m, b) ==
    LET underWay == n.state = "active" /\ a[n.current].state = "active" IN
    /\ (n.state \in Terminal) => (m = n /\ b = a)
    /\ n.state # "none" => <<m.version, m.graph>> = <<n.version, n.graph>>
    /\ \A k \in DOMAIN a :
        /\ b[k] # a[k] => a[k].state \in {"pending", "active"}
        /\ <<b[k].step, b[k].no>> = <<a[k].step, a[k].no>>
        /\ <<b[k].result, b[k].checked>> # <<a[k].result, a[k].checked>>
               => underWay /\ k = n.current
    /\ \A k \in DOMAIN b \ DOMAIN a : m.state \in {"pending", "active"} /\ k = m.current

Outcome(i, m, b, q) ==
    /\ instances' = [instances EXCEPT ![i] = m]
    /\ attempts' = [attempts EXCEPT ![i] = b]
    /\ routing' = [routing EXCEPT ![i] = q]
    /\ starting' = [starting EXCEPT ![i] = 0]
    /\ versions' = versions /\ card' = card
    /\ m \in ProcessInstance /\ m.state # "none" /\ Pinned(m)
    /\ b \in Seq(StepExecution(m.graph)) /\ q \in m.graph.steps \cup {NoStep, NotRouting}
    /\ Confirms(b) /\ Tracked(m, b, q)
    /\ Accepts(instances[i], attempts[i], m, b)

LEMMA AcceptsNothing ==
    ASSUME NEW n, NEW a
    PROVE  Accepts(n, a, n, a)
  BY DEF Accepts

LEMMA OutcomeKeeps ==
    ASSUME IInv, NEW i \in Instance, NEW m, NEW b, NEW q, Outcome(i, m, b, q)
    PROVE  IInv' /\ \A j \in Instance : TriggerAccepts(j)
<1>1. /\ instances'[i] = m /\ attempts'[i] = b /\ routing'[i] = q /\ starting'[i] = 0
      /\ \A j \in Instance : j # i =>
            /\ instances'[j] = instances[j] /\ attempts'[j] = attempts[j]
            /\ routing'[j] = routing[j] /\ starting'[j] = starting[j]
      /\ versions' = versions /\ card' = card
  BY DEF Outcome, IInv, TypeOK
<1>2. /\ m.version \in 0 .. Len(versions) /\ m.current \in 0 .. Len(b)
      /\ \A k \in DOMAIN m.path : m.path[k] \in DOMAIN b
  <2>1. versions \in Seq(Version) /\ m.version \in DOMAIN versions
    BY DEF Outcome, Pinned, IInv, TypeOK
  <2>2. b \in Seq(StepExecution(m.graph)) /\ m.current \in DOMAIN b
        /\ \A k \in DOMAIN m.path : m.path[k] \in DOMAIN b
    BY DEF Outcome, Tracked, Walked
  <2> QED
    BY <2>1, <2>2
<1>3. TypeOK'
  <2>1. /\ instances' \in [Instance -> ProcessInstance]
        /\ starting' \in [Instance -> 0 .. Len(versions)]
    <3>1. 0 \in 0 .. Len(versions)
      BY DEF IInv, TypeOK
    <3> QED
      BY <3>1 DEF Outcome, IInv, TypeOK
  <2>2. /\ attempts' = [j \in Instance |-> attempts'[j]]
        /\ routing' = [j \in Instance |-> routing'[j]]
    BY DEF Outcome, IInv, TypeOK
  <2>3. ASSUME NEW j \in Instance
        PROVE  /\ instances'[j].version \in 0 .. Len(versions)
               /\ attempts'[j] \in Seq(StepExecution(instances'[j].graph))
               /\ instances'[j].current \in 0 .. Len(attempts'[j])
               /\ \A k \in DOMAIN instances'[j].path :
                     instances'[j].path[k] \in DOMAIN attempts'[j]
               /\ routing'[j] \in instances'[j].graph.steps \cup {NoStep, NotRouting}
    <3>1. CASE j = i
      BY <1>1, <1>2, <3>1 DEF Outcome
    <3>2. CASE j # i
      BY <1>1, <3>2 DEF IInv, TypeOK
    <3> QED
      BY <3>1, <3>2
  <2> QED
    BY <1>1, <2>1, <2>2, <2>3 DEF IInv, TypeOK
<1>4. ASSUME NEW j \in Instance
      PROVE  /\ starting'[j] # 0 => versions[starting'[j]].state = "published"
             /\ instances'[j].state = "none" => attempts'[j] = <<>> /\ routing'[j] = NotRouting
             /\ instances'[j].state # "none" =>
                   /\ starting'[j] = 0
                   /\ Pinned(instances'[j]) /\ Confirms(attempts'[j])
                   /\ Tracked(instances'[j], attempts'[j], routing'[j])
  <2>1. CASE j = i
    BY <1>1, <2>1 DEF Outcome
  <2>2. CASE j # i
    BY <1>1, <2>2 DEF IInv
  <2> QED
    BY <2>1, <2>2
<1>5. IInv'
  BY <1>1, <1>3, <1>4 DEF IInv, Pinned, Confirms
<1>6. ASSUME NEW j \in Instance PROVE TriggerAccepts(j)
  <2>1. Accepts(instances[j], attempts[j], instances'[j], attempts'[j])
    <3>1. CASE j = i
      BY <1>1, <3>1 DEF Outcome
    <3>2. CASE j # i
      BY <1>1, <3>2, AcceptsNothing
    <3> QED
      BY <3>1, <3>2
  <2> QED
    BY <2>1 DEF Accepts, TriggerAccepts
<1> QED
  BY <1>5, <1>6

-----------------------------------------------------------------------------
\* The current attempt of n is replaced by x, and its place in the route stays.
Worked(n, a, m, b, x) ==
    /\ n \in ProcessInstance /\ m \in ProcessInstance
    /\ a \in Seq(StepExecution(n.graph)) /\ x \in StepExecution(n.graph)
    /\ Tracked(n, a, NotRouting)
    /\ n.state \in {"pending", "active", "suspended"}
    /\ m.state \in {"pending", "active", "suspended", "cancelled"}
    /\ m.version = n.version /\ m.graph = n.graph /\ m.path = n.path /\ m.current = n.current
    /\ b = [a EXCEPT ![n.current] = x]
    /\ x.step = a[n.current].step /\ x.no = a[n.current].no
    /\ x.state \in OpenState /\ m.assignee = x.assignee
    /\ m.state = "pending" => x.state = "pending"

LEMMA WorkTracks ==
    ASSUME NEW n, NEW a, NEW m, NEW b, NEW x, Worked(n, a, m, b, x)
    PROVE  b \in Seq(StepExecution(m.graph)) /\ Tracked(m, b, NotRouting)
<1>1. /\ n.current \in DOMAIN a /\ DOMAIN b = DOMAIN a /\ b[n.current] = x
      /\ \A k \in DOMAIN a : k # n.current => b[k] = a[k]
      /\ b \in Seq(StepExecution(m.graph))
  BY DEF Worked, Tracked
<1>2. m.assignee \in User /\ m.current \in DOMAIN b
  BY <1>1, AttemptFields DEF Worked
<1>3. OneOpen(m, b)
  BY <1>1 DEF Worked, Tracked, OneOpen, OpenState
<1>4. \A k \in DOMAIN n.path : n.path[k] \in DOMAIN a /\ n.path[k] # n.current
  BY DEF Worked, Tracked, OneOpen, Walked, OpenState
<1>5. ASSUME NEW k \in DOMAIN n.path \cup {0}
      PROVE  Following(m, b, k) = Following(n, a, k)
  <2>1. CASE k = 0
    BY <2>1 DEF Following, Worked
  <2>2. CASE k # 0
    <3>1. k \in DOMAIN n.path
      BY <2>2
    <3>2. b[m.path[k]] = a[n.path[k]] /\ m.path[k] = n.path[k]
      BY <1>1, <1>4, <3>1 DEF Worked
    <3> QED
      BY <2>2, <3>2 DEF Following, Worked
  <2> QED
    BY <2>1, <2>2
<1>6. n.path \in Seq(Nat)
  BY InstanceFields DEF Worked
<1>7. Walked(m, b)
  <2>a. m.path = n.path
    BY DEF Worked
  <2> SUFFICES ASSUME NEW k \in DOMAIN n.path
               PROVE  /\ n.path[k] \in DOMAIN b
                      /\ b[n.path[k]].state = "completed" /\ b[n.path[k]].checked
                      /\ b[n.path[k]].step = Following(m, b, k - 1)
    BY <2>a DEF Walked
  <2>1. b[n.path[k]] = a[n.path[k]] /\ n.path[k] \in DOMAIN b
    BY <1>1, <1>4
  <2>2. k - 1 \in DOMAIN n.path \cup {0}
    BY <1>6
  <2>3. Following(m, b, k - 1) = Following(n, a, k - 1)
    BY <1>5, <2>2
  <2> QED
    BY <2>1, <2>3 DEF Worked, Tracked, Walked
<1>8. Arrived(m, b)
  <2>1. Len(n.path) \in DOMAIN n.path \cup {0}
    BY <1>6
  <2>2. Following(m, b, Len(n.path)) = Following(n, a, Len(n.path))
    BY <1>5, <2>1
  <2> QED
    BY <1>1, <2>2 DEF Worked, Tracked, Arrived
<1>9. Routed(m, b, NotRouting)
  BY DEF Routed
<1> QED
  BY <1>1, <1>2, <1>3, <1>7, <1>8, <1>9 DEF Tracked

LEMMA WorkAccepted ==
    ASSUME NEW n, NEW a, NEW m, NEW b, NEW x, Worked(n, a, m, b, x),
           \/ x.result = a[n.current].result /\ x.checked = a[n.current].checked
           \/ a[n.current].state = "active" /\ n.state # "suspended"
    PROVE  Accepts(n, a, m, b)
<1>1. /\ n.current \in DOMAIN a /\ DOMAIN b = DOMAIN a /\ b[n.current] = x
      /\ \A k \in DOMAIN a : k # n.current => b[k] = a[k]
  BY DEF Worked, Tracked
<1>2. a[n.current].state \in {"pending", "active"} /\ n.state \notin Terminal
  BY <1>1 DEF Worked, Tracked, OneOpen, OpenState, Terminal
<1>3. a[n.current].state = "active" /\ n.state # "suspended" => n.state = "active"
  BY DEF Worked, Tracked, OneOpen
<1> QED
  BY <1>1, <1>2, <1>3 DEF Accepts, Worked

-----------------------------------------------------------------------------
\* The current attempt of n is closed in state st.
Closed(n, a, st, c) ==
    /\ n.current \in DOMAIN a /\ OneOpen(n, a)
    /\ a \in Seq(StepExecution(n.graph)) /\ st \in {"completed", "returned"}
    /\ c = [a EXCEPT ![n.current].state = st]

LEMMA CloseCurrent ==
    ASSUME NEW n, NEW a, NEW st, NEW c, Closed(n, a, st, c)
    PROVE  /\ c \in Seq(StepExecution(n.graph)) /\ DOMAIN c = DOMAIN a /\ Len(c) = Len(a)
           /\ \A k \in DOMAIN a : k # n.current => c[k] = a[k]
           /\ c[n.current].state = st /\ c[n.current].step = a[n.current].step
           /\ c[n.current].no = a[n.current].no
           /\ c[n.current].checked = a[n.current].checked
           /\ c[n.current].result = a[n.current].result
           /\ \A k \in DOMAIN c : c[k].state \notin OpenState
<1>1. PICK x : x = a[n.current]
  OBVIOUS
<1>2. x \in StepExecution(n.graph)
  BY <1>1 DEF Closed
<1>3. PICK y \in StepExecution(n.graph) :
         /\ y.state = st /\ y.step = x.step /\ y.no = x.no /\ y.checked = x.checked
         /\ y.result = x.result /\ c = [a EXCEPT ![n.current] = y]
  <2>1. c = [a EXCEPT ![n.current] = [x EXCEPT !.state = st]]
    BY <1>1 DEF Closed
  <2>2. [x EXCEPT !.state = st] \in StepExecution(n.graph)
    BY <1>2 DEF StepExecution, Closed
  <2> QED
    BY <1>2, <2>1, <2>2 DEF StepExecution
<1>4. /\ c \in Seq(StepExecution(n.graph)) /\ DOMAIN c = DOMAIN a /\ Len(c) = Len(a)
      /\ \A k \in DOMAIN a : k # n.current => c[k] = a[k]
      /\ c[n.current] = y
  BY <1>3 DEF Closed
<1>5. \A k \in DOMAIN c : c[k].state \notin OpenState
  BY <1>3, <1>4 DEF Closed, OneOpen, OpenState
<1> QED
  BY <1>1, <1>3, <1>4, <1>5

\* A new attempt at step s, where the path of n leads with its attempts c all closed.
Leads(n, c, s) ==
    /\ n \in ProcessInstance /\ n.graph \in Publishable /\ n.assignee \in User
    /\ n.state \in OpenState
    /\ c \in Seq(StepExecution(n.graph)) /\ Len(c) < MaxAttempt
    /\ \A k \in DOMAIN c : c[k].state \notin OpenState
    /\ Walked(n, c) /\ s \in n.graph.steps /\ Following(n, c, Len(n.path)) = s

Renewed(n, c, s, m, b) ==
    /\ Leads(n, c, s)
    /\ m = [n EXCEPT !.current = Len(c) + 1]
    /\ b = Append(c, NewAttempt(n, c, s))

Extends(n, c, m, b) ==
    /\ m \in ProcessInstance /\ m.state = n.state /\ m.graph = n.graph
    /\ m.version = n.version
    /\ b \in Seq(StepExecution(m.graph)) /\ Tracked(m, b, NotRouting)
    /\ DOMAIN b = DOMAIN c \cup {m.current} /\ b[m.current].result = NoResult
    /\ \A k \in DOMAIN c : b[k] = c[k]

LEMMA NewTracks ==
    ASSUME NEW n, NEW c, NEW s, NEW m, NEW b, Renewed(n, c, s, m, b)
    PROVE  Extends(n, c, m, b)
<1>1. /\ m \in ProcessInstance /\ m.state = n.state /\ m.graph = n.graph
      /\ m.version = n.version /\ m.path = n.path /\ m.current = Len(c) + 1
      /\ m.assignee = n.assignee
  <2>1. PICK l \in Nat : l = Len(c) + 1
    BY DEF Renewed, Leads
  <2>2. m = [n EXCEPT !.current = l]
    BY <2>1 DEF Renewed
  <2> QED
    BY <2>1, <2>2 DEF Renewed, Leads, ProcessInstance
<1>2. PICK x \in StepExecution(n.graph) :
         /\ x = NewAttempt(n, c, s) /\ x.step = s /\ x.state = "pending"
         /\ x.assignee = n.assignee /\ x.result = NoResult
  BY NewAttemptIsPending DEF Renewed, Leads
<1>3. /\ b \in Seq(StepExecution(n.graph)) /\ DOMAIN b = DOMAIN c \cup {m.current}
      /\ b[m.current] = x /\ m.current \notin DOMAIN c
      /\ \A k \in DOMAIN c : b[k] = c[k]
  BY <1>1, <1>2 DEF Renewed, Leads
<1>4. OneOpen(m, b)
  BY <1>1, <1>2, <1>3 DEF Renewed, Leads, OneOpen, OpenState
<1>5. \A k \in DOMAIN n.path : n.path[k] \in DOMAIN c
  BY DEF Renewed, Leads, Walked
<1>6. n.path \in Seq(Nat)
  BY InstanceFields DEF Renewed, Leads
<1>7. ASSUME NEW k \in DOMAIN n.path \cup {0}
      PROVE  Following(m, b, k) = Following(n, c, k)
  <2>1. k = 0 \/ (m.path[k] = n.path[k] /\ b[m.path[k]] = c[n.path[k]])
    BY <1>1, <1>3, <1>5
  <2>2. k = 0 \/ (m.path[k] = n.path[k] /\ b[m.path[k]].step = c[n.path[k]].step
                 /\ b[m.path[k]].result = c[n.path[k]].result)
    BY <2>1
  <2>3. m.graph = n.graph
    BY <1>1
  <2> QED
    BY <2>2, <2>3 DEF Following
<1>8. Walked(m, b)
  <2> SUFFICES ASSUME NEW k \in DOMAIN n.path
               PROVE  /\ n.path[k] \in DOMAIN b
                      /\ b[n.path[k]].state = "completed" /\ b[n.path[k]].checked
                      /\ b[n.path[k]].step = Following(m, b, k - 1)
    BY <1>1 DEF Walked
  <2>1. b[n.path[k]] = c[n.path[k]] /\ n.path[k] \in DOMAIN b
    BY <1>3, <1>5
  <2>2. k - 1 \in DOMAIN n.path \cup {0}
    BY <1>6
  <2>3. Following(m, b, k - 1) = Following(n, c, k - 1)
    BY <1>7, <2>2
  <2> QED
    BY <2>1, <2>3 DEF Renewed, Leads, Walked
<1>9. Arrived(m, b)
  <2>1. Len(n.path) \in DOMAIN n.path \cup {0}
    BY <1>6
  <2>2. Following(m, b, Len(n.path)) = s
    BY <1>7, <2>1 DEF Renewed, Leads
  <2>3. m.state # "completed"
    BY <1>1 DEF Renewed, Leads, OpenState
  <2> QED
    BY <1>1, <1>2, <1>3, <2>2, <2>3 DEF Arrived
<1>10. m.assignee \in User /\ m.current \in DOMAIN b /\ Routed(m, b, NotRouting)
  BY <1>1, <1>3 DEF Renewed, Leads, Routed
<1> QED
  BY <1>1, <1>2, <1>3, <1>4, <1>8, <1>9, <1>10 DEF Tracked, Extends

-----------------------------------------------------------------------------
\* What the invariant says of an instance that exists.
LEMMA Known ==
    ASSUME IInv, NEW i \in Instance, instances[i].state # "none"
    PROVE  /\ instances[i] \in ProcessInstance /\ instances[i].graph \in Publishable
           /\ attempts[i] \in Seq(StepExecution(instances[i].graph))
           /\ instances[i].current \in DOMAIN attempts[i]
           /\ Current(i) \in StepExecution(instances[i].graph)
           /\ starting[i] = 0 /\ Pinned(instances[i]) /\ Confirms(attempts[i])
           /\ Tracked(instances[i], attempts[i], routing[i])
<1>1. /\ instances[i] \in ProcessInstance /\ starting[i] = 0
      /\ attempts[i] \in Seq(StepExecution(instances[i].graph))
      /\ Pinned(instances[i]) /\ Confirms(attempts[i])
      /\ Tracked(instances[i], attempts[i], routing[i])
  BY DEF IInv, TypeOK
<1>2. instances[i].graph \in Publishable
  <2>1. PICK v : v = instances[i].version
    OBVIOUS
  <2>2. v \in DOMAIN versions /\ versions[v].state = "published"
        /\ versions[v].graph = instances[i].graph
    BY <1>1, <2>1 DEF Pinned
  <2> QED
    BY <2>2 DEF IInv, TypeOK
<1>3. instances[i].current \in DOMAIN attempts[i]
  BY <1>1 DEF Tracked
<1> QED
  BY <1>1, <1>2, <1>3 DEF Current

LEMMA CurrentConfirms ==
    ASSUME IInv, NEW i \in Instance, instances[i].state # "none",
           Current(i).result.revision # 0
    PROVE  /\ Current(i).result.revision \in DOMAIN card
           /\ card[Current(i).result.revision] = Current(i).result.value
<1>1. Confirms(attempts[i]) /\ instances[i].current \in DOMAIN attempts[i]
  BY Known
<1> QED
  BY <1>1 DEF Confirms, Current

LEMMA Work ==
    ASSUME IInv, NEW i \in Instance, Mutable(i), NEW m, NEW b, NEW x,
           Worked(instances[i], attempts[i], m, b, x),
           \/ x.result = Current(i).result /\ x.checked = Current(i).checked
           \/ Current(i).state = "active" /\ instances[i].state # "suspended",
           x.result.revision # 0 =>
               x.result.revision \in DOMAIN card /\ card[x.result.revision] = x.result.value,
           Write(i, m, b), UNCHANGED <<versions, starting, routing, card>>
    PROVE  Outcome(i, m, b, NotRouting)
<1>1. instances[i].state # "none"
  BY DEF Mutable
<1>2. Tracked(m, b, NotRouting) /\ b \in Seq(StepExecution(m.graph))
  BY WorkTracks
<1>3. Accepts(instances[i], attempts[i], m, b)
  BY WorkAccepted DEF Current
<1>4. /\ m \in ProcessInstance /\ m.state # "none"
      /\ m.version = instances[i].version /\ m.graph = instances[i].graph
  BY DEF Worked
<1>5. Pinned(m)
  BY <1>1, <1>4, Known DEF Pinned
<1>6. Confirms(b)
  <2>1. /\ DOMAIN b = DOMAIN attempts[i] /\ b[instances[i].current] = x
        /\ \A k \in DOMAIN attempts[i] : k # instances[i].current => b[k] = attempts[i][k]
    BY <1>1, Known DEF Worked
  <2> QED
    BY <1>1, <2>1, Known DEF Confirms
<1>7. /\ starting' = [starting EXCEPT ![i] = 0]
      /\ routing' = [routing EXCEPT ![i] = NotRouting]
  BY <1>1, Known DEF IInv, TypeOK, Mutable
<1> QED
  BY <1>2, <1>3, <1>4, <1>5, <1>6, <1>7 DEF Outcome, Write

\* A worked attempt as the handlers write it.
LEMMA WorkedBy ==
    ASSUME IInv, NEW i \in Instance, Mutable(i), NEW m \in ProcessInstance, NEW b,
           NEW x \in StepExecution(instances[i].graph),
           m.state \in {"pending", "active", "suspended", "cancelled"},
           m.version = instances[i].version, m.graph = instances[i].graph,
           m.path = instances[i].path, m.current = instances[i].current,
           b = [attempts[i] EXCEPT ![instances[i].current] = x],
           x.step = Current(i).step, x.no = Current(i).no, x.state \in OpenState,
           m.assignee = x.assignee, m.state = "pending" => x.state = "pending"
    PROVE  Worked(instances[i], attempts[i], m, b, x)
<1>1. instances[i].state \in {"pending", "active", "suspended"} /\ routing[i] = NotRouting
  BY DEF Mutable
<1>2. instances[i].state # "none"
  BY <1>1
<1> QED
  BY <1>1, <1>2, Known DEF Worked, Current

\* The current attempt is open and its assignee is the instance's.
LEMMA CurrentIsOpen ==
    ASSUME IInv, NEW i \in Instance,
           instances[i].state \in {"pending", "active", "suspended", "cancelled"}
    PROVE  /\ Current(i).state \in OpenState /\ Current(i).assignee = instances[i].assignee
           /\ instances[i].state = "pending" => Current(i).state = "pending"
           /\ instances[i].assignee \in User
<1>1. instances[i].state # "none" /\ instances[i].state # "completed"
  OBVIOUS
<1>2. Tracked(instances[i], attempts[i], routing[i])
  BY <1>1, Known
<1> QED
  BY <1>1, <1>2 DEF Tracked, OneOpen, Current

LEMMA InState ==
    ASSUME NEW n \in ProcessInstance,
           NEW st \in {"pending", "active", "suspended", "completed", "cancelled"}
    PROVE  \E m \in ProcessInstance :
              /\ m = [n EXCEPT !.state = st]
              /\ m.state = st /\ m.version = n.version /\ m.graph = n.graph
              /\ m.path = n.path /\ m.current = n.current /\ m.assignee = n.assignee
<1>1. [n EXCEPT !.state = st] \in ProcessInstance
  BY DEF ProcessInstance, Terminal
<1>2. PICK m \in ProcessInstance : m = [n EXCEPT !.state = st]
  BY <1>1
<1>3. /\ m.state = st /\ m.version = n.version /\ m.graph = n.graph
      /\ m.path = n.path /\ m.current = n.current /\ m.assignee = n.assignee
  BY <1>2 DEF ProcessInstance
<1> QED
  BY <1>2, <1>3, Zenon

LEMMA AttemptInState ==
    ASSUME NEW g, NEW a \in StepExecution(g),
           NEW st \in {"pending", "active", "completed", "returned"}
    PROVE  \E x \in StepExecution(g) :
              /\ x = [a EXCEPT !.state = st]
              /\ x.state = st /\ x.step = a.step /\ x.no = a.no
              /\ x.assignee = a.assignee
              /\ x.result = a.result /\ x.checked = a.checked
<1>1. [a EXCEPT !.state = st] \in StepExecution(g)
  BY DEF StepExecution
<1>2. PICK x \in StepExecution(g) : x = [a EXCEPT !.state = st]
  BY <1>1
<1>3. /\ x.state = st /\ x.step = a.step /\ x.no = a.no /\ x.assignee = a.assignee
      /\ x.result = a.result /\ x.checked = a.checked
  BY <1>2 DEF StepExecution
<1> QED
  BY <1>2, <1>3, Zenon

LEMMA OpenWorks ==
    ASSUME IInv, NEW i \in Instance, Open(i)
    PROVE  \E m, b, q : Outcome(i, m, b, q)
<1> DEFINE n == instances[i]
<1>1. Mutable(i) /\ n.state # "none" /\ Current(i).state = "pending"
  BY DEF Open, Workable, Mutable
<1>2. PICK m \in ProcessInstance :
         /\ m = [n EXCEPT !.state = "active"]
         /\ m.state = "active" /\ m.version = n.version /\ m.graph = n.graph
         /\ m.path = n.path /\ m.current = n.current /\ m.assignee = n.assignee
  BY <1>1, Known, InState
<1>3. PICK x \in StepExecution(n.graph) :
         /\ x = [Current(i) EXCEPT !.state = "active"]
         /\ x.state = "active" /\ x.step = Current(i).step /\ x.no = Current(i).no
         /\ x.assignee = Current(i).assignee
         /\ x.result = Current(i).result /\ x.checked = Current(i).checked
  BY <1>1, Known, AttemptInState
<1>4. PICK b : b = [attempts[i] EXCEPT ![n.current] = x]
  OBVIOUS
<1>5. Write(i, m, b)
  <2>1. b = [attempts[i] EXCEPT ![n.current].state = "active"]
    BY <1>3, <1>4 DEF Current
  <2> QED
    BY <1>2, <2>1 DEF Open
<1>6. Worked(n, attempts[i], m, b, x)
  <2>1. x.state \in OpenState /\ m.assignee = x.assignee
    BY <1>1, <1>2, <1>3, CurrentIsOpen DEF OpenState, Mutable
  <2> QED
    BY <1>1, <1>2, <1>3, <1>4, <2>1, WorkedBy
<1>7. x.result.revision # 0 =>
          x.result.revision \in DOMAIN card /\ card[x.result.revision] = x.result.value
  BY <1>1, <1>3, CurrentConfirms
<1> QED
  BY <1>1, <1>3, <1>5, <1>6, <1>7, Work DEF Open
LEMMA ChecklistWorks ==
    ASSUME IInv, NEW i \in Instance, NEW checked \in BOOLEAN, Checklist(i, checked)
    PROVE  \E m, b, q : Outcome(i, m, b, q)
<1> DEFINE n == instances[i]
<1>1. /\ Mutable(i) /\ n.state # "none" /\ n.state # "suspended"
      /\ n.state \in {"pending", "active", "suspended"} /\ Current(i).state = "active"
  BY DEF Checklist, Workable, Mutable
<1>2. PICK x \in StepExecution(n.graph) :
         /\ x = [Current(i) EXCEPT !.checked = checked]
         /\ x.state = Current(i).state /\ x.step = Current(i).step /\ x.no = Current(i).no
         /\ x.assignee = Current(i).assignee /\ x.result = Current(i).result
  <2>1. Current(i) \in StepExecution(n.graph)
    BY <1>1, Known
  <2>2. [Current(i) EXCEPT !.checked = checked] \in StepExecution(n.graph)
    BY <2>1 DEF StepExecution
  <2>3. PICK x \in StepExecution(n.graph) : x = [Current(i) EXCEPT !.checked = checked]
    BY <2>2
  <2>4. /\ x.state = Current(i).state /\ x.step = Current(i).step /\ x.no = Current(i).no
        /\ x.assignee = Current(i).assignee /\ x.result = Current(i).result
    BY <2>1, <2>3 DEF StepExecution
  <2> QED
    BY <2>3, <2>4, Zenon
<1>3. PICK b : b = [attempts[i] EXCEPT ![n.current] = x]
  OBVIOUS
<1>4. Write(i, n, b)
  BY <1>2, <1>3 DEF Checklist, WorkOn
<1>5. Worked(n, attempts[i], n, b, x)
  <2>1. n \in ProcessInstance
    BY <1>1, Known
  <2>2. x.state \in OpenState /\ n.assignee = x.assignee
        /\ (n.state = "pending" => x.state = "pending")
    BY <1>1, <1>2, CurrentIsOpen DEF OpenState
  <2> QED
    BY <1>1, <1>2, <1>3, <2>1, <2>2, WorkedBy
<1>6. x.result.revision # 0 =>
          x.result.revision \in DOMAIN card /\ card[x.result.revision] = x.result.value
  BY <1>1, <1>2, CurrentConfirms
<1> QED
  BY <1>1, <1>4, <1>5, <1>6, Work DEF Checklist

LEMMA SaveResultWorks ==
    ASSUME IInv, NEW i \in Instance, NEW r \in Result, SaveResult(i, r)
    PROVE  \E m, b, q : Outcome(i, m, b, q)
<1> DEFINE n == instances[i]
<1>1. /\ Mutable(i) /\ n.state # "none" /\ n.state # "suspended"
      /\ n.state \in {"pending", "active", "suspended"} /\ Current(i).state = "active"
  BY DEF SaveResult, Workable, Mutable
<1>2. PICK x \in StepExecution(n.graph) :
         /\ x = [Current(i) EXCEPT !.result = r] /\ x.result = r
         /\ x.state = Current(i).state /\ x.step = Current(i).step /\ x.no = Current(i).no
         /\ x.assignee = Current(i).assignee
  <2>1. Current(i) \in StepExecution(n.graph)
    BY <1>1, Known
  <2>2. [Current(i) EXCEPT !.result = r] \in StepExecution(n.graph)
    BY <2>1 DEF StepExecution
  <2>3. PICK x \in StepExecution(n.graph) : x = [Current(i) EXCEPT !.result = r]
    BY <2>2
  <2>4. /\ x.state = Current(i).state /\ x.step = Current(i).step /\ x.no = Current(i).no
        /\ x.assignee = Current(i).assignee /\ x.result = r
    BY <2>1, <2>3 DEF StepExecution
  <2> QED
    BY <2>3, <2>4, Zenon
<1>3. PICK b : b = [attempts[i] EXCEPT ![n.current] = x]
  OBVIOUS
<1>4. Write(i, n, b)
  BY <1>2, <1>3 DEF SaveResult, WorkOn
<1>5. Worked(n, attempts[i], n, b, x)
  <2>1. n \in ProcessInstance
    BY <1>1, Known
  <2>2. x.state \in OpenState /\ n.assignee = x.assignee
        /\ (n.state = "pending" => x.state = "pending")
    BY <1>1, <1>2, CurrentIsOpen DEF OpenState
  <2> QED
    BY <1>1, <1>2, <1>3, <2>1, <2>2, WorkedBy
<1>6. r.revision # 0 => r.revision \in DOMAIN card /\ card[r.revision] = r.value
  <2>1. r.revision # 0 => r.revision = Len(card) /\ r.value = Last(card)
    BY DEF SaveResult
  <2>2. card \in Seq(Value) /\ Last(card) = card[Len(card)] /\ r.revision \in Nat
    BY DEF IInv, TypeOK, Last, Result
  <2>3. r.revision # 0 => r.revision \in DOMAIN card
    BY <2>1, <2>2
  <2> QED
    BY <2>1, <2>2, <2>3
<1> QED
  BY <1>1, <1>2, <1>4, <1>5, <1>6, Work DEF SaveResult

LEMMA AssignWorks ==
    ASSUME IInv, NEW i \in Instance, NEW u \in User, Assign(i, u)
    PROVE  \E m, b, q : Outcome(i, m, b, q)
<1> DEFINE n == instances[i]
<1>1. /\ Mutable(i) /\ n.state # "none" /\ n.state \in {"pending", "active", "suspended"}
  BY DEF Assign, Mutable
<1>2. PICK m \in ProcessInstance :
         /\ m = [n EXCEPT !.assignee = u] /\ m.assignee = u
         /\ m.state = n.state /\ m.version = n.version /\ m.graph = n.graph
         /\ m.path = n.path /\ m.current = n.current
  <2>1. n \in ProcessInstance
    BY <1>1, Known
  <2>2. [n EXCEPT !.assignee = u] \in ProcessInstance
    BY <2>1 DEF ProcessInstance
  <2>3. PICK m \in ProcessInstance : m = [n EXCEPT !.assignee = u]
    BY <2>2
  <2>4. /\ m.state = n.state /\ m.version = n.version /\ m.graph = n.graph
        /\ m.path = n.path /\ m.current = n.current /\ m.assignee = u
    BY <2>1, <2>3 DEF ProcessInstance
  <2> QED
    BY <2>3, <2>4, Zenon
<1>3. PICK x \in StepExecution(n.graph) :
         /\ x = [Current(i) EXCEPT !.assignee = u] /\ x.assignee = u
         /\ x.state = Current(i).state /\ x.step = Current(i).step /\ x.no = Current(i).no
         /\ x.result = Current(i).result /\ x.checked = Current(i).checked
  <2>1. Current(i) \in StepExecution(n.graph)
    BY <1>1, Known
  <2>2. [Current(i) EXCEPT !.assignee = u] \in StepExecution(n.graph)
    BY <2>1 DEF StepExecution
  <2>3. PICK x \in StepExecution(n.graph) : x = [Current(i) EXCEPT !.assignee = u]
    BY <2>2
  <2>4. /\ x.state = Current(i).state /\ x.step = Current(i).step /\ x.no = Current(i).no
        /\ x.result = Current(i).result /\ x.checked = Current(i).checked
        /\ x.assignee = u
    BY <2>1, <2>3 DEF StepExecution
  <2> QED
    BY <2>3, <2>4, Zenon
<1>4. PICK b : b = [attempts[i] EXCEPT ![n.current] = x]
  OBVIOUS
<1>5. Write(i, m, b)
  <2>1. b = [attempts[i] EXCEPT ![n.current].assignee = u]
    BY <1>3, <1>4 DEF Current
  <2> QED
    BY <1>2, <2>1 DEF Assign
<1>6. Worked(n, attempts[i], m, b, x)
  <2>1. x.state \in OpenState /\ (m.state = "pending" => x.state = "pending")
    BY <1>1, <1>2, <1>3, CurrentIsOpen
  <2> QED
    BY <1>1, <1>2, <1>3, <1>4, <2>1, WorkedBy
<1>7. x.result.revision # 0 =>
          x.result.revision \in DOMAIN card /\ card[x.result.revision] = x.result.value
  BY <1>1, <1>3, CurrentConfirms
<1> QED
  BY <1>1, <1>3, <1>5, <1>6, <1>7, Work DEF Assign

\* suspend, resume and cancel change the state of the instance only.
LEMMA SetStateWorks ==
    ASSUME IInv, NEW i \in Instance, Mutable(i),
           NEW st \in {"pending", "active", "suspended", "cancelled"}, SetState(i, st),
           st = "pending" => Current(i).state = "pending"
    PROVE  \E m, b, q : Outcome(i, m, b, q)
<1> DEFINE n == instances[i]
<1>1. n.state # "none" /\ n.state \in {"pending", "active", "suspended"}
  BY DEF Mutable
<1>2. PICK m \in ProcessInstance :
         /\ m = [n EXCEPT !.state = st]
         /\ m.state = st /\ m.version = n.version /\ m.graph = n.graph
         /\ m.path = n.path /\ m.current = n.current /\ m.assignee = n.assignee
  <2>1. n \in ProcessInstance /\ st \in {"pending", "active", "suspended", "completed", "cancelled"}
    BY <1>1, Known
  <2> QED
    BY <2>1, InState
<1>3. PICK x \in StepExecution(n.graph) : x = Current(i)
  BY <1>1, Known
<1>4. PICK b : b = [attempts[i] EXCEPT ![n.current] = x]
  OBVIOUS
<1>5. Write(i, m, b)
  <2>1. instances' = [instances EXCEPT ![i] = m]
    BY <1>2 DEF SetState
  <2>2. b = attempts[i]
    BY <1>1, <1>3, <1>4, Known DEF Current
  <2>3. attempts' = [attempts EXCEPT ![i] = b]
    BY <2>2 DEF SetState, IInv, TypeOK
  <2> QED
    BY <2>1, <2>3 DEF Write
<1>6. Worked(n, attempts[i], m, b, x)
  <2>1. x.state \in OpenState /\ m.assignee = x.assignee
    BY <1>1, <1>2, <1>3, CurrentIsOpen
  <2> QED
    BY <1>2, <1>3, <1>4, <2>1, WorkedBy
<1>7. x.result.revision # 0 =>
          x.result.revision \in DOMAIN card /\ card[x.result.revision] = x.result.value
  BY <1>1, <1>3, CurrentConfirms
<1> QED
  BY <1>3, <1>5, <1>6, <1>7, Work DEF SetState

LEMMA SuspendResumeCancelWork ==
    ASSUME IInv, NEW i \in Instance, Suspend(i) \/ Resume(i) \/ Cancel(i)
    PROVE  \E m, b, q : Outcome(i, m, b, q)
<1>1. CASE Suspend(i) \/ Cancel(i)
  BY <1>1, SetStateWorks DEF Suspend, Cancel
<1>2. CASE Resume(i)
  <2>1. Mutable(i) /\ instances[i].state = "suspended"
    BY <1>2 DEF Resume
  <2>2. Current(i).state \in OpenState
    BY <2>1, CurrentIsOpen
  <2>3. CASE Current(i).state = "active"
    <3>1. SetState(i, "active")
      BY <1>2, <2>3 DEF Resume
    <3> QED
      BY <2>1, <3>1, SetStateWorks
  <2>4. CASE Current(i).state = "pending"
    <3>1. SetState(i, "pending")
      BY <1>2, <2>4 DEF Resume
    <3> QED
      BY <2>1, <2>4, <3>1, SetStateWorks
  <2> QED
    BY <2>2, <2>3, <2>4 DEF OpenState
<1> QED
  BY <1>1, <1>2

-----------------------------------------------------------------------------
\* advance.

LEMMA SelectRouteWorks ==
    ASSUME IInv, NEW i \in Instance, SelectRoute(i)
    PROVE  \E m, b, q : Outcome(i, m, b, q)
<1> DEFINE n == instances[i]
           q == Route(n.graph, Current(i).step, Current(i).result.value)
<1>1. /\ n.state # "none" /\ n.state \in {"pending", "active"} /\ routing[i] = NotRouting
      /\ Current(i).state = "active" /\ Current(i).checked
  BY DEF SelectRoute, MayAdvance, Workable, Mutable
<1>2. Tracked(n, attempts[i], NotRouting)
  BY <1>1, Known
<1>3. n.state = "active"
  BY <1>1, <1>2 DEF Tracked, OneOpen, Current
<1>4. Tracked(n, attempts[i], q)
  BY <1>1, <1>2, <1>3 DEF Tracked, Routed, Current
<1>5. q \in n.graph.steps \cup {NoStep, NotRouting}
  BY <1>1, Known, RouteIsAStep
<1>6. /\ instances' = [instances EXCEPT ![i] = n] /\ attempts' = [attempts EXCEPT ![i] = attempts[i]]
      /\ starting' = [starting EXCEPT ![i] = 0] /\ routing' = [routing EXCEPT ![i] = q]
      /\ versions' = versions /\ card' = card
  BY <1>1, Known DEF SelectRoute, IInv, TypeOK
<1> HIDE DEF q
<1>7. Outcome(i, n, attempts[i], q)
  BY <1>1, <1>4, <1>5, <1>6, Known, AcceptsNothing DEF Outcome
<1> QED
  BY <1>7

\* A route is selected for an active instance only.
LEMMA UnderWay ==
    ASSUME IInv, NEW i \in Instance, routing[i] # NotRouting
    PROVE  /\ instances[i].state = "active" /\ Current(i).state = "active" /\ Current(i).checked
           /\ routing[i] = Route(instances[i].graph, Current(i).step, Current(i).result.value)
<1>1. instances[i].state # "none"
  BY DEF IInv
<1>2. Routed(instances[i], attempts[i], routing[i])
  BY <1>1, Known DEF Tracked
<1> QED
  BY <1>2 DEF Routed, Current

LEMMA AbandonAdvanceWorks ==
    ASSUME IInv, NEW i \in Instance, AbandonAdvance(i)
    PROVE  \E m, b, q : Outcome(i, m, b, q)
<1> DEFINE n == instances[i]
<1>1. n.state # "none"
  BY UnderWay DEF AbandonAdvance
<1>2. Tracked(n, attempts[i], NotRouting)
  BY <1>1, Known DEF Tracked, Routed
<1>3. /\ instances' = [instances EXCEPT ![i] = n] /\ attempts' = [attempts EXCEPT ![i] = attempts[i]]
      /\ starting' = [starting EXCEPT ![i] = 0] /\ routing' = [routing EXCEPT ![i] = NotRouting]
      /\ versions' = versions /\ card' = card
  BY <1>1, Known DEF AbandonAdvance, IInv, TypeOK
<1>4. Outcome(i, n, attempts[i], NotRouting)
  BY <1>1, <1>2, <1>3, Known, AcceptsNothing DEF Outcome
<1> QED
  BY <1>4

\* The current attempt is completed and joins the path.
Joined(n, a, m, c) ==
    /\ n.state = "active" /\ a[n.current].checked
    /\ m.graph = n.graph /\ m.path = Append(n.path, n.current)
    /\ c = [a EXCEPT ![n.current].state = "completed"]

LEMMA JoinsTheRoute ==
    ASSUME NEW n \in ProcessInstance, NEW a \in Seq(StepExecution(n.graph)), NEW r,
           Tracked(n, a, r), NEW m, NEW c, Joined(n, a, m, c)
    PROVE  /\ m.path \in Seq(Nat) /\ Walked(m, c)
           /\ Following(m, c, Len(m.path))
                  = Route(n.graph, a[n.current].step, a[n.current].result.value)
<1>1. n.path \in Seq(Nat) /\ n.current \in Nat
  BY InstanceFields
<1>2. n.current \in DOMAIN a /\ OneOpen(n, a) /\ Walked(n, a) /\ Arrived(n, a)
  BY DEF Tracked
<1>3. c = [a EXCEPT ![n.current].state = "completed"]
  BY DEF Joined
<1>4. /\ DOMAIN c = DOMAIN a /\ \A k \in DOMAIN a : k # n.current => c[k] = a[k]
      /\ c[n.current].state = "completed" /\ c[n.current].step = a[n.current].step
      /\ c[n.current].result = a[n.current].result
  <2>1. Closed(n, a, "completed", c)
    BY <1>2, <1>3 DEF Closed
  <2> QED
    BY <2>1, CloseCurrent
<1>a. c[n.current].checked
  <2>1. Closed(n, a, "completed", c)
    BY <1>2, <1>3 DEF Closed
  <2>2. c[n.current].checked = a[n.current].checked
    BY <2>1, CloseCurrent
  <2>3. a[n.current].checked
    BY DEF Joined
  <2> QED
    BY <2>2, <2>3, Zenon
<1>5. m.path = Append(n.path, n.current) /\ m.graph = n.graph
  BY DEF Joined
<1>6. /\ m.path \in Seq(Nat) /\ DOMAIN m.path = DOMAIN n.path \cup {Len(n.path) + 1}
      /\ Len(m.path) = Len(n.path) + 1 /\ m.path[Len(n.path) + 1] = n.current
      /\ \A k \in DOMAIN n.path : m.path[k] = n.path[k]
      /\ Len(n.path) \in Nat /\ DOMAIN n.path = 1 .. Len(n.path)
  BY <1>1, <1>5
<1>7. \A k \in DOMAIN n.path : n.path[k] # n.current /\ n.path[k] \in DOMAIN a
  BY <1>2 DEF Joined, OneOpen, Walked, OpenState
<1>8. ASSUME NEW k \in 0 .. Len(n.path) PROVE Following(m, c, k) = Following(n, a, k)
  <2>1. k = 0 \/ k \in DOMAIN n.path
    BY <1>6
  <2>2. k = 0 \/ (m.path[k] = n.path[k] /\ c[m.path[k]] = a[n.path[k]])
    BY <1>4, <1>6, <1>7, <2>1
  <2> QED
    BY <1>5, <2>2 DEF Following
<1>9. Walked(m, c)
  <2> SUFFICES ASSUME NEW k \in DOMAIN m.path
               PROVE  /\ m.path[k] \in DOMAIN c
                      /\ c[m.path[k]].state = "completed" /\ c[m.path[k]].checked
                      /\ c[m.path[k]].step = Following(m, c, k - 1)
    BY DEF Walked
  <2>1. CASE k \in DOMAIN n.path
    <3>1. m.path[k] = n.path[k] /\ c[n.path[k]] = a[n.path[k]] /\ n.path[k] \in DOMAIN c
      BY <1>4, <1>6, <1>7, <2>1
    <3>2. k - 1 \in 0 .. Len(n.path)
      BY <1>6, <2>1
    <3>3. Following(m, c, k - 1) = Following(n, a, k - 1)
      BY <1>8, <3>2
    <3> QED
      BY <1>2, <2>1, <3>1, <3>3 DEF Walked
  <2>2. CASE k = Len(n.path) + 1
    <3>1. m.path[k] = n.current /\ k - 1 = Len(n.path) /\ Len(n.path) \in 0 .. Len(n.path)
      BY <1>6, <2>2
    <3>2. Following(m, c, k - 1) = a[n.current].step
      BY <1>2, <1>8, <3>1 DEF Arrived, Joined
    <3> QED
      BY <1>2, <1>4, <1>a, <3>1, <3>2
  <2> QED
    BY <1>6, <2>1, <2>2
<1>10. Following(m, c, Len(m.path)) = Route(n.graph, a[n.current].step, a[n.current].result.value)
  <2>1. Len(m.path) # 0 /\ m.path[Len(m.path)] = n.current
    BY <1>6
  <2> QED
    BY <1>4, <1>5, <2>1 DEF Following
<1> QED
  BY <1>6, <1>9, <1>10

\* A new attempt at step s, after the current one of n was closed in state st.
Moved(n, a, n1, st, s, m, b) ==
    /\ n \in ProcessInstance /\ a \in Seq(StepExecution(n.graph))
    /\ Tracked(n, a, NotRouting) /\ Confirms(a) /\ Pinned(n) /\ n.state = "active"
    /\ n1.version = n.version /\ n1.graph = n.graph /\ n1.state = n.state
    /\ st \in {"completed", "returned"}
    /\ Renewed(n1, [a EXCEPT ![n.current].state = st], s, m, b)

LEMMA MovesOn ==
    ASSUME NEW n, NEW a, NEW n1, NEW st, NEW s, NEW m, NEW b, Moved(n, a, n1, st, s, m, b)
    PROVE  /\ m \in ProcessInstance /\ m.state # "none" /\ Pinned(m)
           /\ b \in Seq(StepExecution(m.graph)) /\ Confirms(b)
           /\ Tracked(m, b, NotRouting) /\ Accepts(n, a, m, b)
<1>1. PICK c : c = [a EXCEPT ![n.current].state = st]
  OBVIOUS
<1>2. n.current \in DOMAIN a /\ OneOpen(n, a) /\ a[n.current].state \in OpenState
  BY DEF Moved, Tracked, OneOpen
<1>3. /\ c \in Seq(StepExecution(n.graph)) /\ DOMAIN c = DOMAIN a /\ Len(c) = Len(a)
      /\ \A k \in DOMAIN a : k # n.current => c[k] = a[k]
      /\ c[n.current].step = a[n.current].step /\ c[n.current].no = a[n.current].no
      /\ c[n.current].checked = a[n.current].checked
      /\ c[n.current].result = a[n.current].result
  <2>1. Closed(n, a, st, c)
    BY <1>1, <1>2 DEF Closed, Moved
  <2> QED
    BY <2>1, CloseCurrent
<1>4. Renewed(n1, c, s, m, b)
  BY <1>1 DEF Moved
<1>5. /\ m \in ProcessInstance /\ m.state = n1.state /\ m.graph = n1.graph
      /\ m.version = n1.version
      /\ b \in Seq(StepExecution(m.graph)) /\ Tracked(m, b, NotRouting)
      /\ DOMAIN b = DOMAIN c \cup {m.current} /\ b[m.current].result = NoResult
      /\ \A k \in DOMAIN c : b[k] = c[k]
  <2>1. Extends(n1, c, m, b)
    BY <1>4, NewTracks
  <2> QED
    BY <2>1 DEF Extends
<1>6. m.state = "active" /\ m.version = n.version /\ m.graph = n.graph
  BY <1>5 DEF Moved
<1>7. Pinned(m)
  BY <1>6 DEF Pinned, Moved
<1>8. Confirms(b)
  <2>1. ASSUME NEW k \in DOMAIN b PROVE b[k].result.revision = 0
                    \/ (k \in DOMAIN a /\ b[k].result = a[k].result)
    <3>1. CASE k \in DOMAIN a
      <4>1. b[k] = c[k]
        BY <1>3, <1>5, <3>1
      <4> QED
        BY <1>3, <3>1, <4>1
    <3>2. CASE k = m.current
      <4>1. b[k].result = NoResult
        BY <1>5, <3>2
      <4> QED
        BY <4>1 DEF NoResult
    <3> QED
      BY <1>3, <1>5, <3>1, <3>2
  <2> QED
    BY <2>1 DEF Confirms, Moved
<1>9. Accepts(n, a, m, b)
  <2>1. n.state = "active" /\ n.state \notin Terminal
    BY DEF Moved, Terminal
  <2>2. ASSUME NEW k \in DOMAIN a
        PROVE  /\ b[k] # a[k] => a[k].state \in {"pending", "active"}
               /\ b[k].step = a[k].step /\ b[k].no = a[k].no
               /\ b[k].result = a[k].result /\ b[k].checked = a[k].checked
    <3>1. b[k] = c[k]
      BY <1>3, <1>5
    <3>2. CASE k = n.current
      BY <1>2, <1>3, <3>1, <3>2 DEF OpenState
    <3>3. CASE k # n.current
      BY <1>3, <3>1, <3>3
    <3> QED
      BY <3>2, <3>3
  <2>3. ASSUME NEW k \in DOMAIN b \ DOMAIN a
        PROVE  m.state \in {"pending", "active"} /\ k = m.current
    BY <1>3, <1>5, <1>6
  <2> QED
    BY <1>6, <2>1, <2>2, <2>3 DEF Accepts
<1> QED
  BY <1>5, <1>6, <1>7, <1>8, <1>9

LEMMA AdvanceWorks ==
    ASSUME IInv, NEW i \in Instance, Advance(i)
    PROVE  \E m, b, q : Outcome(i, m, b, q)
<1> DEFINE n == instances[i]
           a == attempts[i]
<1>1. /\ routing[i] # NotRouting /\ n.state = "active" /\ n.state # "none"
      /\ a[n.current].state = "active" /\ a[n.current].checked
      /\ routing[i] = Route(n.graph, a[n.current].step, a[n.current].result.value)
  BY UnderWay DEF Advance, Current
<1>2. /\ n \in ProcessInstance /\ a \in Seq(StepExecution(n.graph))
      /\ n.graph \in Publishable /\ n.current \in DOMAIN a
      /\ Tracked(n, a, routing[i]) /\ Confirms(a) /\ Pinned(n) /\ starting[i] = 0
  BY <1>1, Known
<1>3. Tracked(n, a, NotRouting) /\ OneOpen(n, a) /\ n.assignee \in User
  BY <1>2 DEF Tracked, Routed
<1>4. PICK n1 : n1 = [n EXCEPT !.path = Append(@, n.current)]
  OBVIOUS
<1>5. PICK c : c = [a EXCEPT ![n.current].state = "completed"]
  OBVIOUS
<1>6. /\ n1.path = Append(n.path, n.current) /\ n1.graph = n.graph /\ n1.version = n.version
      /\ n1.state = n.state /\ n1.assignee = n.assignee /\ n1.current = n.current
  BY <1>2, <1>4 DEF ProcessInstance
<1>7. /\ n1.path \in Seq(Nat) /\ Walked(n1, c)
      /\ Following(n1, c, Len(n1.path)) = routing[i]
  <2>1. Joined(n, a, n1, c)
    BY <1>1, <1>5, <1>6 DEF Joined
  <2> QED
    BY <1>1, <1>2, <2>1, JoinsTheRoute
<1>8. n1 \in ProcessInstance
  <2>1. PICK p \in Seq(Nat) : p = n1.path
    BY <1>7
  <2>2. n1 = [n EXCEPT !.path = p]
    BY <1>2, <1>4, <1>6, <2>1 DEF ProcessInstance
  <2> QED
    BY <1>2, <2>2 DEF ProcessInstance
<1>9. /\ c \in Seq(StepExecution(n.graph)) /\ DOMAIN c = DOMAIN a /\ Len(c) = Len(a)
      /\ \A k \in DOMAIN a : k # n.current => c[k] = a[k]
      /\ c[n.current].step = a[n.current].step /\ c[n.current].no = a[n.current].no
      /\ c[n.current].checked = a[n.current].checked
      /\ c[n.current].result = a[n.current].result
      /\ \A k \in DOMAIN c : c[k].state \notin OpenState
  <2>1. Closed(n, a, "completed", c)
    BY <1>2, <1>3, <1>5 DEF Closed
  <2> QED
    BY <2>1, CloseCurrent
<1>10. /\ routing' = [routing EXCEPT ![i] = NotRouting]
       /\ starting' = [starting EXCEPT ![i] = 0] /\ versions' = versions /\ card' = card
  BY <1>2 DEF Advance, IInv, TypeOK
<1>11. CASE routing[i] # NoStep
  <2>1. PICK m, b : Write(i, m, b) /\ Len(c) < MaxAttempt
                    /\ m = [n1 EXCEPT !.current = Len(c) + 1]
                    /\ b = Append(c, NewAttempt(n1, c, routing[i]))
    BY <1>4, <1>5, <1>11 DEF Advance, WriteAttempt
  <2>2. Leads(n1, c, routing[i])
    <3>1. routing[i] \in n.graph.steps
      BY <1>1, <1>2, <1>11, RouteIsAStep
    <3> QED
      BY <1>1, <1>2, <1>3, <1>6, <1>7, <1>8, <1>9, <2>1, <3>1 DEF Leads, OpenState
  <2>3. Renewed(n1, c, routing[i], m, b)
    BY <2>1, <2>2 DEF Renewed
  <2>4. Moved(n, a, n1, "completed", routing[i], m, b)
    BY <1>1, <1>2, <1>3, <1>5, <1>6, <2>3 DEF Moved
  <2>5. Outcome(i, m, b, NotRouting)
    BY <1>10, <2>1, <2>4, MovesOn DEF Outcome, Write
  <2> QED
    BY <2>5
<1>12. CASE routing[i] = NoStep
  <2>1. PICK m \in ProcessInstance :
           /\ m = [n1 EXCEPT !.state = "completed"]
           /\ m.state = "completed" /\ m.version = n1.version /\ m.graph = n1.graph
           /\ m.path = n1.path /\ m.current = n1.current /\ m.assignee = n1.assignee
    BY <1>8, InState
  <2>2. Write(i, m, c)
    <3>1. routing[i] # NoStep \/ Write(i, [n1 EXCEPT !.state = "completed"], c)
      BY <1>4, <1>5 DEF Advance
    <3> QED
      BY <1>12, <2>1, <3>1
  <2>3. Walked(m, c)
    <3>1. \A k : Following(m, c, k) = Following(n1, c, k)
      BY <2>1 DEF Following
    <3> QED
      BY <1>7, <2>1, <3>1 DEF Walked
  <2>4. Arrived(m, c)
    BY <1>6, <1>7, <1>12, <2>1 DEF Arrived, Following
  <2>5. OneOpen(m, c) /\ Routed(m, c, NotRouting) /\ m.current \in DOMAIN c
        /\ m.assignee \in User
    BY <1>2, <1>3, <1>6, <1>9, <2>1 DEF OneOpen, Routed
  <2>6. Tracked(m, c, NotRouting)
    BY <2>3, <2>4, <2>5 DEF Tracked
  <2>7. Accepts(n, a, m, c)
    <3>1. n.state \notin Terminal /\ DOMAIN c \ DOMAIN a = {}
          /\ m.version = n.version /\ m.graph = n.graph
      BY <1>1, <1>6, <1>9, <2>1 DEF Terminal
    <3>2. ASSUME NEW k \in DOMAIN a
          PROVE  /\ c[k] # a[k] => a[k].state \in {"pending", "active"}
                 /\ c[k].step = a[k].step /\ c[k].no = a[k].no
                 /\ c[k].result = a[k].result /\ c[k].checked = a[k].checked
      <4>1. CASE k = n.current
        BY <1>1, <1>9, <4>1
      <4>2. CASE k # n.current
        BY <1>9, <4>2
      <4> QED
        BY <4>1, <4>2
    <3> QED
      BY <3>1, <3>2 DEF Accepts
  <2>8. Confirms(c)
    <3>1. ASSUME NEW k \in DOMAIN a PROVE c[k].result = a[k].result
      BY <1>9
    <3> QED
      BY <1>2, <1>9, <3>1 DEF Confirms
  <2>9. Pinned(m)
    BY <1>2, <1>6, <2>1 DEF Pinned
  <2>10. Outcome(i, m, c, NotRouting)
    BY <1>6, <1>9, <1>10, <2>1, <2>2, <2>6, <2>7, <2>8, <2>9 DEF Outcome, Write
  <2> QED
    BY <2>10
<1> QED
  BY <1>11, <1>12

-----------------------------------------------------------------------------
\* return and start.

LEMMA FrontOfPath ==
    ASSUME NEW p \in Seq(Nat), p # <<>>
    PROVE  /\ Front(p) \in Seq(Nat) /\ Len(Front(p)) = Len(p) - 1
           /\ \A k \in DOMAIN Front(p) : k \in DOMAIN p /\ Front(p)[k] = p[k]
           /\ Last(p) = p[Len(p)] /\ Len(p) \in DOMAIN p
           /\ Len(p) - 1 \in Nat /\ DOMAIN Front(p) = 1 .. (Len(p) - 1)
<1>1. /\ Len(p) \in Nat \ {0} /\ DOMAIN p = 1 .. Len(p) /\ \A k \in DOMAIN p : p[k] \in Nat
      /\ Last(p) = p[Len(p)]
  BY DEF Last
<1>2. PICK l \in Nat : l = Len(p) - 1
  <2>1. Len(p) - 1 \in Nat
    BY <1>1
  <2> QED
    BY <2>1, Zenon
<1>3. 1 \in Int /\ l \in Int /\ \A k \in 1 .. l : p[k] \in Nat
  BY <1>1, <1>2
<1>4. /\ SubSeq(p, 1, l) \in Seq(Nat)
      /\ Len(SubSeq(p, 1, l)) = IF 1 <= l THEN l - 1 + 1 ELSE 0
      /\ \A k \in 1 .. l - 1 + 1 : SubSeq(p, 1, l)[k] = p[1 + k - 1]
  BY <1>3, SubSeqProperties
<1>5. PICK f \in Seq(Nat) : f = Front(p) /\ f = SubSeq(p, 1, l)
  BY <1>2, <1>4 DEF Front
<1>6. Len(f) = l /\ \A k \in 1 .. l : f[k] = p[k]
  BY <1>4, <1>5
<1>7. DOMAIN f = 1 .. l
  BY <1>5, <1>6
<1> QED
  BY <1>1, <1>2, <1>5, <1>6, <1>7

\* The current attempt is returned, and the path goes back to its last attempt.
Back(n, a, m, c) ==
    /\ n \in ProcessInstance /\ a \in Seq(StepExecution(n.graph))
    /\ Tracked(n, a, NotRouting) /\ n.state = "active" /\ n.path # <<>>
    /\ m.graph = n.graph /\ m.path = Front(n.path)
    /\ c = [a EXCEPT ![n.current].state = "returned"]

LEMMA GoesBack ==
    ASSUME NEW n, NEW a, NEW m, NEW c, Back(n, a, m, c)
    PROVE  /\ m.path \in Seq(Nat) /\ Walked(m, c) /\ Last(n.path) \in DOMAIN a
           /\ Following(m, c, Len(m.path)) = a[Last(n.path)].step
<1>1. n.path \in Seq(Nat) /\ n.current \in Nat /\ n.path # <<>>
  BY InstanceFields DEF Back
<1>2. n.current \in DOMAIN a /\ OneOpen(n, a) /\ Walked(n, a) /\ n.state # "completed"
  BY DEF Back, Tracked
<1>3. /\ DOMAIN c = DOMAIN a
      /\ \A k \in DOMAIN a : k # n.current => c[k] = a[k]
  <2>1. Closed(n, a, "returned", c)
    BY <1>2 DEF Closed, Back
  <2> QED
    BY <2>1, CloseCurrent
<1>4. m.path = Front(n.path) /\ m.graph = n.graph
  BY DEF Back
<1>5. /\ m.path \in Seq(Nat) /\ Len(m.path) = Len(n.path) - 1
      /\ \A k \in DOMAIN m.path : k \in DOMAIN n.path /\ m.path[k] = n.path[k]
      /\ Last(n.path) = n.path[Len(n.path)] /\ Len(n.path) \in DOMAIN n.path
      /\ Len(n.path) - 1 \in Nat /\ DOMAIN m.path = 1 .. (Len(n.path) - 1)
  BY <1>1, <1>4, FrontOfPath
<1>6. \A k \in DOMAIN n.path : n.path[k] # n.current /\ n.path[k] \in DOMAIN a
  BY <1>2 DEF OneOpen, Walked, OpenState
<1>7. ASSUME NEW k \in 0 .. (Len(n.path) - 1) PROVE Following(m, c, k) = Following(n, a, k)
  <2>1. k = 0 \/ k \in DOMAIN m.path
    BY <1>5
  <2>2. k = 0 \/ (m.path[k] = n.path[k] /\ c[m.path[k]] = a[n.path[k]])
    BY <1>3, <1>5, <1>6, <2>1
  <2> QED
    BY <1>4, <2>2 DEF Following
<1>8. Walked(m, c)
  <2> SUFFICES ASSUME NEW k \in DOMAIN m.path
               PROVE  /\ m.path[k] \in DOMAIN c
                      /\ c[m.path[k]].state = "completed" /\ c[m.path[k]].checked
                      /\ c[m.path[k]].step = Following(m, c, k - 1)
    BY DEF Walked
  <2>1. k \in DOMAIN n.path /\ m.path[k] = n.path[k] /\ c[n.path[k]] = a[n.path[k]]
    BY <1>3, <1>5, <1>6
  <2>2. k - 1 \in 0 .. (Len(n.path) - 1)
    BY <1>5
  <2>3. Following(m, c, k - 1) = Following(n, a, k - 1)
    BY <1>7, <2>2
  <2> QED
    BY <1>2, <1>3, <1>6, <2>1, <2>3 DEF Walked
<1>9. Following(m, c, Len(m.path)) = a[Last(n.path)].step
  <2>1. Len(n.path) - 1 \in 0 .. (Len(n.path) - 1)
    BY <1>5
  <2>2. Following(m, c, Len(m.path)) = Following(n, a, Len(n.path) - 1)
    BY <1>5, <1>7, <2>1
  <2>3. a[n.path[Len(n.path)]].step = Following(n, a, Len(n.path) - 1)
    BY <1>2, <1>5 DEF Walked
  <2> QED
    BY <1>5, <2>2, <2>3
<1> QED
  BY <1>5, <1>6, <1>8, <1>9

LEMMA ReturnWorks ==
    ASSUME IInv, NEW i \in Instance, Return(i)
    PROVE  \E m, b, q : Outcome(i, m, b, q)
<1> DEFINE n == instances[i]
           a == attempts[i]
           s == a[Last(n.path)].step
<1>1. /\ n.state = "active" /\ n.state # "none" /\ n.path # <<>> /\ routing[i] = NotRouting
  BY DEF Return, Mutable
<1>2. /\ n \in ProcessInstance /\ a \in Seq(StepExecution(n.graph))
      /\ n.graph \in Publishable /\ n.current \in DOMAIN a
      /\ Tracked(n, a, NotRouting) /\ Confirms(a) /\ Pinned(n) /\ starting[i] = 0
  BY <1>1, Known
<1>3. OneOpen(n, a) /\ n.assignee \in User
  BY <1>2 DEF Tracked
<1>4. PICK n1 : n1 = [n EXCEPT !.path = Front(@)]
  OBVIOUS
<1>5. PICK c : c = [a EXCEPT ![n.current].state = "returned"]
  OBVIOUS
<1>6. /\ n1.path = Front(n.path) /\ n1.graph = n.graph /\ n1.version = n.version
      /\ n1.state = n.state /\ n1.assignee = n.assignee /\ n1.current = n.current
  BY <1>2, <1>4 DEF ProcessInstance
<1>7. /\ n1.path \in Seq(Nat) /\ Walked(n1, c) /\ Last(n.path) \in DOMAIN a
      /\ Following(n1, c, Len(n1.path)) = s
  <2>1. Back(n, a, n1, c)
    BY <1>1, <1>2, <1>5, <1>6 DEF Back
  <2> QED
    BY <2>1, GoesBack
<1>8. n1 \in ProcessInstance
  <2>1. PICK p \in Seq(Nat) : p = n1.path
    BY <1>7
  <2>2. n1 = [n EXCEPT !.path = p]
    BY <1>2, <1>4, <1>6, <2>1 DEF ProcessInstance
  <2> QED
    BY <1>2, <2>2 DEF ProcessInstance
<1>9. /\ c \in Seq(StepExecution(n.graph)) /\ Len(c) = Len(a)
      /\ \A k \in DOMAIN c : c[k].state \notin OpenState
  <2>1. Closed(n, a, "returned", c)
    BY <1>2, <1>3, <1>5 DEF Closed
  <2> QED
    BY <2>1, CloseCurrent
<1>10. /\ routing' = [routing EXCEPT ![i] = NotRouting]
       /\ starting' = [starting EXCEPT ![i] = 0] /\ versions' = versions /\ card' = card
  BY <1>1, <1>2 DEF Return, IInv, TypeOK
<1>11. PICK m, b : Write(i, m, b) /\ Len(c) < MaxAttempt
                   /\ m = [n1 EXCEPT !.current = Len(c) + 1]
                   /\ b = Append(c, NewAttempt(n1, c, s))
  BY <1>4, <1>5 DEF Return, WriteAttempt
<1>12. s \in n.graph.steps
  <2>1. a[Last(n.path)] \in StepExecution(n.graph)
    BY <1>2, <1>7
  <2> QED
    BY <2>1, AttemptFields
<1> HIDE DEF s
<1>13. Leads(n1, c, s)
  BY <1>1, <1>2, <1>3, <1>6, <1>7, <1>8, <1>9, <1>11, <1>12 DEF Leads, OpenState
<1>14. Renewed(n1, c, s, m, b)
  BY <1>11, <1>13 DEF Renewed
<1>15. Moved(n, a, n1, "returned", s, m, b)
  BY <1>1, <1>2, <1>5, <1>6, <1>14 DEF Moved
<1>16. Outcome(i, m, b, NotRouting)
  BY <1>10, <1>11, <1>15, MovesOn DEF Outcome, Write
<1> QED
  BY <1>16

LEMMA StartWorks ==
    ASSUME IInv, NEW i \in Instance, NEW u \in User, StartInstance(i, u)
    PROVE  \E m, b, q : Outcome(i, m, b, q)
<1>1. PICK v : v = starting[i]
  OBVIOUS
<1>2. PICK g : g = versions[v].graph
  OBVIOUS
<1>3. /\ v \in DOMAIN versions /\ versions[v].state = "published" /\ g \in Publishable
      /\ versions[v] = [state |-> "published", graph |-> g]
  <2>1. v \in 0 .. Len(versions) /\ v # 0 /\ versions \in Seq(Version)
    BY <1>1 DEF IInv, TypeOK, StartInstance
  <2>2. v \in DOMAIN versions
    BY <2>1
  <2>3. versions[v].state = "published"
    BY <1>1, <2>1 DEF IInv
  <2>4. g \in Publishable
    BY <1>2, <2>2, <2>3 DEF IInv, TypeOK
  <2>5. PICK w : w = versions[v]
    OBVIOUS
  <2>6. w \in Version /\ w.state = "published" /\ w.graph = g
    BY <1>2, <2>1, <2>2, <2>3, <2>5
  <2>7. w = [state |-> "published", graph |-> g]
    BY <2>6 DEF Version
  <2> QED
    BY <2>2, <2>3, <2>4, <2>5, <2>7
<1>4. /\ instances[i].state = "none" /\ attempts[i] = <<>> /\ routing[i] = NotRouting
  BY <1>1, <1>3 DEF IInv, StartInstance
<1>5. PICK n1 : n1 = [NoInstance EXCEPT !.state = "pending", !.version = v,
                                        !.graph = g, !.assignee = u]
  OBVIOUS
<1>6. /\ n1.state = "pending" /\ n1.version = v /\ n1.graph = g /\ n1.assignee = u
      /\ n1.path = <<>> /\ n1 \in ProcessInstance
  <2>1. v \in Nat /\ g \in Graph
    BY <1>3, PublishedGraph DEF IInv, TypeOK
  <2>2. n1 = [state |-> "pending", version |-> v, graph |-> g, assignee |-> u,
              path |-> <<>>, current |-> 0]
    BY <1>5 DEF NoInstance
  <2>3. <<>> \in Seq(Nat) /\ 0 \in Nat
    OBVIOUS
  <2> QED
    BY <2>1, <2>2, <2>3 DEF ProcessInstance
<1>7. PICK s : s = Start(g)
  OBVIOUS
<1>8. PICK m, b : Write(i, m, b) /\ 0 < MaxAttempt
                  /\ m = [n1 EXCEPT !.current = Len(<<>>) + 1]
                  /\ b = Append(<<>>, NewAttempt(n1, <<>>, s))
  BY <1>1, <1>2, <1>5, <1>7 DEF StartInstance, WriteAttempt
<1>9. Leads(n1, <<>>, s)
  <2>1. Following(n1, <<>>, Len(n1.path)) = s
    BY <1>6, <1>7 DEF Following
  <2>2. Walked(n1, <<>>)
    BY <1>6 DEF Walked
  <2>3. s \in g.steps
    BY <1>3, <1>7, PublishedGraph
  <2>4. /\ <<>> \in Seq(StepExecution(n1.graph)) /\ Len(<<>>) < MaxAttempt
        /\ \A k \in DOMAIN <<>> : <<>>[k].state \notin OpenState
    BY <1>8
  <2> QED
    BY <1>3, <1>6, <2>1, <2>2, <2>3, <2>4 DEF Leads, OpenState
<1>10. Extends(n1, <<>>, m, b)
  <2>1. Renewed(n1, <<>>, s, m, b)
    BY <1>8, <1>9 DEF Renewed
  <2> QED
    BY <2>1, NewTracks
<1>11. /\ m \in ProcessInstance /\ m.state = "pending" /\ m.version = v /\ m.graph = g
       /\ b \in Seq(StepExecution(m.graph)) /\ Tracked(m, b, NotRouting)
       /\ DOMAIN b = {m.current} /\ b[m.current].result = NoResult
  BY <1>6, <1>10 DEF Extends
<1>12. Pinned(m)
  BY <1>3, <1>11 DEF Pinned
<1>13. Confirms(b)
  BY <1>11 DEF Confirms, NoResult
<1>14. Accepts(instances[i], attempts[i], m, b)
  <2>1. instances[i].state \notin Terminal /\ DOMAIN attempts[i] = {}
    BY <1>4 DEF Terminal
  <2> QED
    BY <1>4, <1>11, <2>1 DEF Accepts
<1>15. /\ routing' = [routing EXCEPT ![i] = NotRouting]
       /\ starting' = [starting EXCEPT ![i] = 0] /\ versions' = versions /\ card' = card
  BY <1>4 DEF StartInstance, IInv, TypeOK
<1>16. Outcome(i, m, b, NotRouting)
  BY <1>8, <1>11, <1>12, <1>13, <1>14, <1>15 DEF Outcome, Write
<1> QED
  BY <1>16

-----------------------------------------------------------------------------
\* The other steps leave the instances and their attempts alone.

LEMMA StillAccepted ==
    ASSUME IInv, instances' = instances, attempts' = attempts, NEW i \in Instance
    PROVE  TriggerAccepts(i)
<1>1. Accepts(instances[i], attempts[i], instances[i], attempts[i])
  BY AcceptsNothing
<1> QED
  BY <1>1 DEF Accepts, TriggerAccepts

\* What a step may do to the versions, the starts under way and the card.
Around ==
    /\ instances' = instances /\ attempts' = attempts /\ routing' = routing
    /\ versions' \in Seq(Version) /\ versions' # <<>> /\ card' \in Seq(Value)
    /\ \A v \in DOMAIN versions' :
           versions'[v].state = "published" => versions'[v].graph \in Publishable
    /\ \A v \in DOMAIN versions : v \in DOMAIN versions'
    /\ \A v \in DOMAIN versions :
           versions[v].state = "published" => versions'[v] = versions[v]
    /\ \A k \in DOMAIN card : k \in DOMAIN card' /\ card'[k] = card[k]
    /\ starting' = [i \in Instance |-> starting'[i]]
    /\ \A i \in Instance :
           \/ starting'[i] = starting[i]
           \/ /\ instances[i].state = "none" /\ starting'[i] \in DOMAIN versions
              /\ versions[starting'[i]].state = "published"

LEMMA AroundKeeps ==
    ASSUME IInv, Around
    PROVE  /\ IInv' /\ \A i \in Instance : TriggerAccepts(i)
           /\ \A v \in DOMAIN versions :
                 versions[v].state = "published" => versions'[v] = versions[v]
<1>1. /\ versions \in Seq(Version) /\ versions' \in Seq(Version)
      /\ DOMAIN versions = 1 .. Len(versions) /\ DOMAIN versions' = 1 .. Len(versions')
      /\ Len(versions) \in Nat /\ Len(versions') \in Nat
  BY DEF IInv, TypeOK, Around
<1>2. Len(versions) <= Len(versions')
  <2>1. CASE Len(versions) = 0
    BY <1>1, <2>1
  <2>2. CASE Len(versions) # 0
    <3>1. Len(versions) \in DOMAIN versions
      BY <1>1, <2>2
    <3>2. Len(versions) \in DOMAIN versions'
      BY <3>1 DEF Around
    <3> QED
      BY <1>1, <3>2
  <2> QED
    BY <2>1, <2>2
<1>3. ASSUME NEW i \in Instance
      PROVE  /\ starting'[i] \in 0 .. Len(versions')
             /\ starting'[i] # 0 => versions'[starting'[i]].state = "published"
  <2>1. starting[i] \in 0 .. Len(versions)
        /\ (starting[i] # 0 => versions[starting[i]].state = "published")
    BY DEF IInv, TypeOK
  <2>2. PICK v : v = starting'[i]
    OBVIOUS
  <2>3. v = 0 \/ (v \in DOMAIN versions /\ versions[v].state = "published")
    <3>1. CASE v = starting[i]
      BY <1>1, <2>1, <3>1
    <3>2. CASE v # starting[i]
      BY <2>2, <3>2 DEF Around
    <3> QED
      BY <3>1, <3>2
  <2>4. v = 0 \/ (v \in DOMAIN versions' /\ versions'[v].state = "published")
    BY <2>3 DEF Around
  <2> QED
    BY <1>1, <2>2, <2>4
<1>4. starting' \in [Instance -> 0 .. Len(versions')]
  <2>1. PICK f : f = starting'
    OBVIOUS
  <2>2. f = [i \in Instance |-> f[i]] /\ \A i \in Instance : f[i] \in 0 .. Len(versions')
    BY <1>3, <2>1 DEF Around
  <2>3. f \in [Instance -> 0 .. Len(versions')]
    BY <2>2
  <2> QED
    BY <2>1, <2>3
<1>5. TypeOK'
  <2>1. ASSUME NEW i \in Instance
        PROVE  /\ instances[i].version \in 0 .. Len(versions')
               /\ attempts[i] \in Seq(StepExecution(instances[i].graph))
               /\ instances[i].current \in 0 .. Len(attempts[i])
               /\ \A k \in DOMAIN instances[i].path :
                     instances[i].path[k] \in DOMAIN attempts[i]
               /\ routing[i] \in instances[i].graph.steps \cup {NoStep, NotRouting}
    <3>1. instances[i].version \in 0 .. Len(versions)
      BY DEF IInv, TypeOK
    <3>2. instances[i].version \in 0 .. Len(versions')
      BY <1>1, <1>2, <3>1
    <3> QED
      BY <3>2 DEF IInv, TypeOK
  <2>2. instances' = instances /\ attempts' = attempts /\ routing' = routing
    BY DEF Around
  <2>3. /\ instances \in [Instance -> ProcessInstance]
        /\ attempts = [i \in Instance |-> attempts[i]]
        /\ routing = [i \in Instance |-> routing[i]]
    BY DEF IInv, TypeOK
  <2>4. /\ versions' \in Seq(Version) /\ card' \in Seq(Value)
        /\ \A v \in DOMAIN versions' :
              versions'[v].state = "published" => versions'[v].graph \in Publishable
    BY DEF Around
  <2> QED
    BY <1>4, <2>1, <2>2, <2>3, <2>4 DEF TypeOK
<1>6. ASSUME NEW i \in Instance, instances[i].state # "none"
      PROVE  /\ starting'[i] = 0 /\ Tracked(instances[i], attempts[i], routing[i])
             /\ instances[i].version \in DOMAIN versions'
             /\ versions'[instances[i].version]
                    = [state |-> "published", graph |-> instances[i].graph]
             /\ \A k \in DOMAIN attempts[i] :
                   attempts[i][k].result.revision # 0 =>
                      /\ attempts[i][k].result.revision \in DOMAIN card'
                      /\ card'[attempts[i][k].result.revision] = attempts[i][k].result.value
  <2>1. /\ starting[i] = 0 /\ Tracked(instances[i], attempts[i], routing[i])
        /\ Pinned(instances[i]) /\ Confirms(attempts[i])
    BY <1>6, Known
  <2>2. starting'[i] = 0
    BY <1>6, <2>1 DEF Around
  <2>3. PICK w : w = instances[i].version
    OBVIOUS
  <2>4. w \in DOMAIN versions
        /\ versions[w] = [state |-> "published", graph |-> instances[i].graph]
    BY <2>1, <2>3 DEF Pinned
  <2>5. w \in DOMAIN versions' /\ versions'[w] = versions[w]
    BY <2>4 DEF Around
  <2>6. ASSUME NEW k \in DOMAIN attempts[i], attempts[i][k].result.revision # 0
        PROVE  /\ attempts[i][k].result.revision \in DOMAIN card'
               /\ card'[attempts[i][k].result.revision] = attempts[i][k].result.value
    BY <2>1, <2>6 DEF Confirms, Around
  <2> QED
    BY <2>1, <2>2, <2>3, <2>4, <2>5, <2>6
<1>7. IInv'
  <2>1. /\ versions' # <<>>
        /\ instances' = instances /\ attempts' = attempts /\ routing' = routing
    BY DEF Around
  <2>2. \A i \in Instance : instances[i].state = "none" =>
                                attempts[i] = <<>> /\ routing[i] = NotRouting
    BY DEF IInv
  <2> QED
    BY <1>3, <1>5, <1>6, <2>1, <2>2 DEF IInv, Pinned, Confirms
<1>8. \A i \in Instance : TriggerAccepts(i)
  BY StillAccepted DEF Around
<1> QED
  BY <1>7, <1>8 DEF Around

LEMMA ReadVersionAround ==
    ASSUME IInv, NEW i \in Instance, NEW v \in DOMAIN versions, ReadVersion(i, v)
    PROVE  Around
  BY DEF IInv, TypeOK, Around, ReadVersion

LEMMA UpdateCardAround ==
    ASSUME IInv, NEW v \in Value, UpdateCard(v)
    PROVE  Around
<1>1. card \in Seq(Value) /\ card' = Append(card, v)
  BY DEF IInv, TypeOK, UpdateCard
<1>2. card' \in Seq(Value) /\ \A k \in DOMAIN card : k \in DOMAIN card' /\ card'[k] = card[k]
  BY <1>1
<1> QED
  BY <1>2 DEF IInv, TypeOK, Around, UpdateCard

LEMMA VersionsAround ==
    ASSUME IInv, NextVersions, UNCHANGED execVars
    PROVE  Around
<1>1. /\ versions \in Seq(Version) /\ versions # <<>>
      /\ \A v \in DOMAIN versions :
            versions[v].state = "published" => versions[v].graph \in Publishable
  BY DEF IInv, TypeOK
<1>2. /\ versions' \in Seq(Version) /\ versions' # <<>>
      /\ \A v \in DOMAIN versions' :
            versions'[v].state = "published" => versions'[v].graph \in Publishable
      /\ \A v \in DOMAIN versions : v \in DOMAIN versions'
      /\ \A v \in DOMAIN versions :
            versions[v].state = "published" => versions'[v] = versions[v]
  <2>1. CASE CreateVersion
    <3>1. PICK w : w = [state |-> "draft", graph |-> Last(versions).graph]
      OBVIOUS
    <3>2. w \in Version /\ w.state = "draft"
      <4>1. Last(versions) \in Version
        BY <1>1 DEF Last
      <4>2. Last(versions).graph \in Graph \cup {EmptyGraph}
        BY <4>1 DEF Version
      <4> QED
        BY <3>1, <4>2 DEF Version
    <3>3. versions' = Append(versions, w)
      BY <2>1, <3>1 DEF CreateVersion
    <3>4. /\ versions' \in Seq(Version) /\ versions' # <<>>
          /\ \A v \in DOMAIN versions : v \in DOMAIN versions' /\ versions'[v] = versions[v]
          /\ \A v \in DOMAIN versions' : v \in DOMAIN versions \/ versions'[v] = w
      BY <1>1, <3>2, <3>3
    <3> QED
      BY <1>1, <3>2, <3>4
  <2>2. ASSUME NEW v \in DOMAIN versions, NEW w \in Version, versions[v].state = "draft",
               w.state = "published" => w.graph \in Publishable,
               versions' = [versions EXCEPT ![v] = w]
        PROVE  /\ versions' \in Seq(Version) /\ versions' # <<>>
               /\ \A u \in DOMAIN versions' :
                     versions'[u].state = "published" => versions'[u].graph \in Publishable
               /\ \A u \in DOMAIN versions : u \in DOMAIN versions'
               /\ \A u \in DOMAIN versions :
                     versions[u].state = "published" => versions'[u] = versions[u]
    <3>1. /\ DOMAIN versions' = DOMAIN versions /\ versions'[v] = w
          /\ \A u \in DOMAIN versions : u # v => versions'[u] = versions[u]
          /\ versions' \in Seq(Version) /\ versions' # <<>>
      BY <1>1, <2>2
    <3> QED
      BY <1>1, <2>2, <3>1
  <2>3. CASE \E v \in DOMAIN versions : Publish(v)
    <3>1. PICK v \in DOMAIN versions : Publish(v)
      BY <2>3
    <3>2. PICK w : w = [versions[v] EXCEPT !.state = "published"]
      OBVIOUS
    <3>3. w \in Version /\ w.state = "published" /\ w.graph = versions[v].graph
      <4>1. versions[v] \in Version
        BY <1>1
      <4> QED
        BY <3>2, <4>1 DEF Version
    <3>4. versions[v].state = "draft" /\ w.graph \in Publishable
          /\ versions' = [versions EXCEPT ![v] = w]
      BY <3>1, <3>2, <3>3 DEF Publish, Editable
    <3> QED
      BY <2>2, <3>3, <3>4
  <2>4. CASE \E v \in DOMAIN versions : \E g \in Graph : SaveGraph(v, g)
    <3>1. PICK v \in DOMAIN versions, g \in Graph : SaveGraph(v, g)
      BY <2>4
    <3>2. PICK w : w = [versions[v] EXCEPT !.graph = g]
      OBVIOUS
    <3>3. w \in Version /\ w.state = versions[v].state
      <4>1. versions[v] \in Version
        BY <1>1
      <4> QED
        BY <3>2, <4>1 DEF Version
    <3>4. versions[v].state = "draft" /\ versions' = [versions EXCEPT ![v] = w]
      BY <3>1, <3>2 DEF SaveGraph, Editable
    <3>5. w.state # "published"
      BY <3>3, <3>4
    <3> QED
      BY <2>2, <3>3, <3>4, <3>5
  <2> QED
    BY <2>1, <2>3, <2>4 DEF NextVersions
<1> QED
  BY <1>2 DEF IInv, TypeOK, Around, execVars

LEMMA StutterAround ==
    ASSUME IInv, UNCHANGED vars
    PROVE  Around
  BY DEF IInv, TypeOK, Around, vars, execVars

-----------------------------------------------------------------------------
LEMMA Initially ==
    ASSUME Init
    PROVE  IInv
<1>1. /\ versions = <<[state |-> "draft", graph |-> EmptyGraph]>>
      /\ instances = [i \in Instance |-> NoInstance]
      /\ attempts = [i \in Instance |-> <<>>] /\ starting = [i \in Instance |-> 0]
      /\ routing = [i \in Instance |-> NotRouting]
  BY DEF Init, InitVersions
<1>2. card \in Seq(Value)
  <2>1. PICK v \in Value : card = <<v>>
    BY DEF Init
  <2> QED
    BY <2>1
<1>3. [state |-> "draft", graph |-> EmptyGraph] \in Version
  BY DEF Version
<1>4. /\ versions \in Seq(Version) /\ versions # <<>> /\ DOMAIN versions = {1} /\ Len(versions) = 1
      /\ \A v \in DOMAIN versions : versions[v].state = "draft"
  BY <1>1, <1>3
<1>5. NoInstance \in ProcessInstance
  <2>1. <<>> \in Seq(Nat) /\ 0 \in Nat
    OBVIOUS
  <2> QED
    BY <2>1 DEF NoInstance, ProcessInstance
<1>6. /\ NoInstance.state = "none" /\ NoInstance.version = 0 /\ NoInstance.current = 0
      /\ NoInstance.path = <<>>
  BY DEF NoInstance
<1>7. instances \in [Instance -> ProcessInstance] /\ starting \in [Instance -> 0 .. Len(versions)]
  <2>1. 0 \in 0 .. Len(versions)
    BY <1>4
  <2> QED
    BY <1>1, <1>5, <2>1
<1>8. ASSUME NEW i \in Instance
      PROVE  /\ instances[i].version \in 0 .. Len(versions)
             /\ attempts[i] \in Seq(StepExecution(instances[i].graph))
             /\ instances[i].current \in 0 .. Len(attempts[i])
             /\ \A k \in DOMAIN instances[i].path : instances[i].path[k] \in DOMAIN attempts[i]
             /\ routing[i] \in instances[i].graph.steps \cup {NoStep, NotRouting}
  <2>1. instances[i] = NoInstance /\ attempts[i] = <<>> /\ routing[i] = NotRouting
    BY <1>1
  <2>2. 0 \in 0 .. Len(versions) /\ 0 \in 0 .. Len(<<>>)
    BY <1>4
  <2>3. <<>> \in Seq(StepExecution(instances[i].graph))
    OBVIOUS
  <2> QED
    BY <1>6, <2>1, <2>2, <2>3
<1>9. TypeOK
  BY <1>1, <1>2, <1>4, <1>7, <1>8 DEF TypeOK
<1> QED
  BY <1>1, <1>4, <1>6, <1>9 DEF IInv

\* Every step of a handler leaves an outcome, every other one goes around them.
LEMMA HandlersWork ==
    ASSUME IInv, NEW i \in Instance,
           \/ \E u \in User : StartInstance(i, u) \/ Assign(i, u)
           \/ \E checked \in BOOLEAN : Checklist(i, checked)
           \/ \E r \in Result : SaveResult(i, r)
           \/ Open(i) \/ SelectRoute(i) \/ Advance(i) \/ AbandonAdvance(i)
           \/ Suspend(i) \/ Resume(i) \/ Cancel(i) \/ Return(i)
    PROVE  \E m, b, q : Outcome(i, m, b, q)
<1>1. CASE \E u \in User : StartInstance(i, u)
  BY <1>1, StartWorks
<1>2. CASE \E u \in User : Assign(i, u)
  BY <1>2, AssignWorks
<1>3. CASE \E checked \in BOOLEAN : Checklist(i, checked)
  <2>1. PICK checked \in BOOLEAN : Checklist(i, checked)
    BY <1>3, Zenon
  <2> QED
    BY <2>1, ChecklistWorks, Zenon
<1>4. CASE \E r \in Result : SaveResult(i, r)
  BY <1>4, SaveResultWorks
<1>5. CASE Open(i)
  BY <1>5, OpenWorks
<1>6. CASE SelectRoute(i)
  BY <1>6, SelectRouteWorks
<1>7. CASE Advance(i)
  BY <1>7, AdvanceWorks
<1>8. CASE AbandonAdvance(i)
  BY <1>8, AbandonAdvanceWorks
<1>9. CASE Suspend(i) \/ Resume(i) \/ Cancel(i)
  BY <1>9, SuspendResumeCancelWork
<1>10. CASE Return(i)
  BY <1>10, ReturnWorks
<1> QED
  BY <1>1, <1>2, <1>3, <1>4, <1>5, <1>6, <1>7, <1>8, <1>9, <1>10, Zenon

LEMMA Step ==
    ASSUME IInv, [Next]_vars
    PROVE  /\ IInv' /\ \A i \in Instance : TriggerAccepts(i)
           /\ \A v \in DOMAIN versions :
                 versions[v].state = "published" => versions'[v] = versions[v]
<1>1. CASE Around
  BY <1>1, AroundKeeps
<1>2. CASE \E i \in Instance : \E m, b, q : Outcome(i, m, b, q)
  <2>1. PICK i \in Instance : \E m, b, q : Outcome(i, m, b, q)
    BY <1>2
  <2>2. PICK m, b, q : Outcome(i, m, b, q)
    BY <2>1
  <2>3. versions' = versions
    BY <2>2 DEF Outcome
  <2> QED
    BY <2>2, <2>3, OutcomeKeeps
<1>3. Around \/ \E i \in Instance : \E m, b, q : Outcome(i, m, b, q)
  <2>1. CASE NextVersions /\ UNCHANGED execVars
    BY <2>1, VersionsAround
  <2>2. CASE \E i \in Instance : \E v \in DOMAIN versions : ReadVersion(i, v)
    BY <2>2, ReadVersionAround
  <2>3. CASE \E v \in Value : UpdateCard(v)
    BY <2>3, UpdateCardAround
  <2>4. CASE UNCHANGED vars
    BY <2>4, StutterAround
  <2>5. ASSUME NEW i \in Instance,
               \/ \E u \in User : StartInstance(i, u) \/ Assign(i, u)
               \/ \E checked \in BOOLEAN : Checklist(i, checked)
               \/ \E r \in Result : SaveResult(i, r)
               \/ Open(i) \/ SelectRoute(i) \/ Advance(i) \/ AbandonAdvance(i)
               \/ Suspend(i) \/ Resume(i) \/ Cancel(i) \/ Return(i)
        PROVE  \E m, b, q : Outcome(i, m, b, q)
    BY <2>5, HandlersWork, Zenon
  <2> QED
    BY <2>1, <2>2, <2>3, <2>4, <2>5, Zenon DEF Next
<1> QED
  BY <1>1, <1>2, <1>3

\* The inductive invariant holds of every behaviour of the specification.
LEMMA Invariance == Spec => []IInv
<1>1. Init => IInv
  BY Initially
<1>2. IInv /\ [Next]_vars => IInv'
  BY Step
<1> QED
  BY <1>1, <1>2, PTL DEF Spec

\* The versions, instances and their attempts have the types of their tables, and
\* a published version has a graph that validate_graph accepts.
THEOREM TypeCorrect == Spec => []TypeOK
<1>1. IInv => TypeOK
  BY DEF IInv
<1> QED
  BY <1>1, Invariance, PTL

\* advance and return_step keep the path of every instance on the route through its
\* published version that its confirmed results select, whatever is published,
\* edited, suspended or returned meanwhile.
THEOREM PathIsAlwaysTheRoute == Spec => []PathIsTheRoute
<1>1. ASSUME IInv PROVE PathIsTheRoute
  <2> SUFFICES ASSUME NEW i \in Instance, instances[i].state # "none"
               PROVE  /\ \A k \in DOMAIN instances[i].path :
                          /\ attempts[i][instances[i].path[k]].step = StepAfter(i, k - 1)
                          /\ attempts[i][instances[i].path[k]].state = "completed"
                          /\ attempts[i][instances[i].path[k]].checked
                      /\ StepAfter(i, Len(instances[i].path)) =
                             IF instances[i].state = "completed" THEN NoStep
                             ELSE Current(i).step
    BY DEF PathIsTheRoute, Existing
  <2>1. /\ instances[i] \in ProcessInstance /\ Pinned(instances[i]) /\ Confirms(attempts[i])
        /\ Tracked(instances[i], attempts[i], routing[i])
    BY <1>1, Known
  <2>2. Walked(instances[i], attempts[i]) /\ Arrived(instances[i], attempts[i])
    BY <2>1 DEF Tracked
  <2>3. versions[instances[i].version].graph = instances[i].graph
    <3>1. PICK w : w = versions[instances[i].version]
      OBVIOUS
    <3>2. w = [state |-> "published", graph |-> instances[i].graph]
      BY <2>1, <3>1 DEF Pinned
    <3> QED
      BY <3>1, <3>2
  <2>4. ASSUME NEW k \in DOMAIN attempts[i]
        PROVE  Confirmed(attempts[i][k].result) = attempts[i][k].result.value
    BY <2>1 DEF Confirms, Confirmed
  <2>5. ASSUME NEW k \in DOMAIN instances[i].path \cup {0}
        PROVE  StepAfter(i, k) = Following(instances[i], attempts[i], k)
    <3>1. CASE k = 0
      BY <2>3, <3>1 DEF StepAfter, Following
    <3>2. CASE k # 0
      <4>1. instances[i].path[k] \in DOMAIN attempts[i]
        BY <2>2, <3>2 DEF Walked
      <4> QED
        BY <2>3, <2>4, <3>2, <4>1 DEF StepAfter, Following
    <3> QED
      BY <3>1, <3>2
  <2>6. instances[i].path \in Seq(Nat)
    BY <2>1, InstanceFields
  <2>7. ASSUME NEW k \in DOMAIN instances[i].path
        PROVE  /\ attempts[i][instances[i].path[k]].step = StepAfter(i, k - 1)
               /\ attempts[i][instances[i].path[k]].state = "completed"
               /\ attempts[i][instances[i].path[k]].checked
    <3>1. k - 1 \in DOMAIN instances[i].path \cup {0}
      BY <2>6
    <3>2. StepAfter(i, k - 1) = Following(instances[i], attempts[i], k - 1)
      BY <2>5, <3>1
    <3> QED
      BY <2>2, <3>2 DEF Walked
  <2>8. StepAfter(i, Len(instances[i].path)) =
            IF instances[i].state = "completed" THEN NoStep ELSE Current(i).step
    <3>1. Len(instances[i].path) \in DOMAIN instances[i].path \cup {0}
      BY <2>6
    <3>2. StepAfter(i, Len(instances[i].path))
              = Following(instances[i], attempts[i], Len(instances[i].path))
      BY <2>5, <3>1
    <3> QED
      BY <2>2, <3>2 DEF Arrived, Current
  <2> QED
    BY <2>7, <2>8
<1>2. IInv => PathIsTheRoute
  BY <1>1
<1> QED
  BY <1>2, Invariance, PTL

\* The handlers never leave an instance without its one open attempt, or with two,
\* and keep its assignee and state in step with the instance's.
THEOREM AlwaysOneOpenAttempt == Spec => []OneOpenAttempt
<1>1. ASSUME IInv PROVE OneOpenAttempt
  <2> SUFFICES ASSUME NEW i \in Instance, instances[i].state # "none"
               PROVE  LET n == instances[i] IN
                      /\ {k \in DOMAIN attempts[i] :
                              attempts[i][k].state \in {"pending", "active"}}
                             = IF n.state = "completed" THEN {} ELSE {n.current}
                      /\ n.state # "completed" => Current(i).assignee = n.assignee
                      /\ n.state = "pending" => Current(i).state = "pending"
                      /\ routing[i] # NotRouting => n.state = "active"
    BY DEF OneOpenAttempt, Existing
  <2>1. /\ instances[i].current \in DOMAIN attempts[i]
        /\ OneOpen(instances[i], attempts[i])
        /\ Routed(instances[i], attempts[i], routing[i])
    BY <1>1, Known DEF Tracked
  <2> QED
    BY <2>1 DEF OneOpen, OpenState, Routed, Current
<1>2. IInv => OneOpenAttempt
  BY <1>1
<1> QED
  BY <1>2, Invariance, PTL

\* No step of a handler runs into the triggers of migrations 0007 and 0009.
THEOREM TriggersNeverRefuse == Spec => TriggersAccept
<1>1. ASSUME IInv, [Next]_vars
      PROVE  [/\ \A i \in Instance : TriggerAccepts(i)
              /\ \A v \in DOMAIN versions :
                     versions[v].state = "published" => versions'[v] = versions[v]]_vars
  BY <1>1, Step
<1> QED
  BY <1>1, Invariance, PTL DEF Spec, TriggersAccept
=============================================================================
