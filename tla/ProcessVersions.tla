--------------------------- MODULE ProcessVersions --------------------------
(***************************************************************************)
(* The versions of one process (processes/api.py): a configurator edits    *)
(* the newest or an older draft, publishes it once its graph is a          *)
(* well-formed route, and derives new drafts from the latest version.      *)
(* Every handler locks its version, or its process, to the end of its      *)
(* transaction and refuses an old revision, so each is one step; forms,    *)
(* bases and effective dates only decide which requests are refused.       *)
(***************************************************************************)
EXTENDS Naturals, Sequences, SequencesExt, Relation

CONSTANTS
    Graph,        \* the graphs a configurator may write: records
                  \* [steps, starts, ends, tasks, forms, edges]; tasks are the steps
                  \* with a checklist, forms those with a form, and edges a sequence
                  \* of [from, to, on, otherwise], on = Value without a condition
    EmptyGraph,   \* the graph of a version not yet written
    Value,        \* what a condition reads from the form of a result
    NoStep,       \* no transition
    MaxVersion    \* bound on the versions of the process

ASSUME GraphsAreWritten ==
    \A g \in Graph : g.edges \in Seq({g.edges[k] : k \in DOMAIN g.edges})

VARIABLE versions

Version == [state: {"draft", "published"}, graph: Graph \cup {EmptyGraph}]

Exits(g, s) == {k \in DOMAIN g.edges : g.edges[k].from = s}
Conditional(e) == ~e.otherwise /\ e.on # Value

\* A step leads on over one plain transition, or over conditions closed by
\* exactly one "otherwise", which read its form; a terminal step leads nowhere.
ExitsAreComplete(g, s) ==
    LET out == {g.edges[k] : k \in Exits(g, s)} IN
    IF s \in g.ends THEN out = {}
    ELSE \/ \E e \in out : out = {e} /\ ~e.otherwise /\ ~Conditional(e)
         \/ /\ \E e \in out : Conditional(e)
            /\ \E e \in out : e.otherwise /\ \A d \in out \ {e} : Conditional(d)
            /\ s \in g.forms

Onward(g) ==
    TransitiveClosure([p \in g.steps \X g.steps |->
        \E k \in Exits(g, p[1]) : g.edges[k].to = p[2]], g.steps)

\* validate_graph: one start, complete exits, no cycle, every step reachable.
Valid(g) ==
    \E s \in g.steps :
        /\ g.starts = {s}
        /\ \A k \in DOMAIN g.edges : {g.edges[k].from, g.edges[k].to} \subseteq g.steps
        /\ \A t \in g.steps : ExitsAreComplete(g, t)
        /\ \A t \in g.steps : ~Onward(g)[t, t] /\ (t # s => Onward(g)[s, t])

Publishable == {g \in Graph : Valid(g)}

Start(g) == CHOOSE s \in g.steps : s \in g.starts

\* The transition a result selects: the first whose condition it meets, else
\* the "otherwise", else none.
Route(g, s, v) ==
    LET met == SelectInSeq(g.edges, LAMBDA e :
            e.from = s /\ ~e.otherwise /\ (Conditional(e) => v \in e.on))
        other == SelectInSeq(g.edges, LAMBDA e : e.from = s /\ e.otherwise)
    IN  IF met > 0 THEN g.edges[met].to
        ELSE IF other > 0 THEN g.edges[other].to ELSE NoStep

InitVersions == versions = <<[state |-> "draft", graph |-> EmptyGraph]>>

\* create_version, new_version: the next draft carries the latest graph.
CreateVersion ==
    /\ Len(versions) < MaxVersion
    /\ versions' = Append(versions, [state |-> "draft", graph |-> Last(versions).graph])

Editable(v) == versions[v].state = "draft"

SaveGraph(v, g) ==
    /\ Editable(v)
    /\ versions' = [versions EXCEPT ![v].graph = g]

\* Slip: a draft is published as it stands.
PublishUnchecked(v) ==
    /\ Editable(v)
    /\ versions' = [versions EXCEPT ![v].state = "published"]

Publish(v) ==
    /\ Editable(v)
    /\ versions[v].graph \in Publishable
    /\ versions' = [versions EXCEPT ![v].state = "published"]

NextVersions ==
    \/ CreateVersion
    \/ \E v \in DOMAIN versions : Publish(v) \/ \E g \in Graph : SaveGraph(v, g)
=============================================================================
