--------------------------- MODULE MCExecution ---------------------------
(* Execution on a small process; see MCExecution.cfg. *)
EXTENDS Execution, TLC
CONSTANTS first, middle, last, v1, v2, u1, u2
AnyValue == {v1, v2}
Edge(s, t, on) == [from |-> s, to |-> t, on |-> on, otherwise |-> FALSE]
Otherwise(s, t) == [from |-> s, to |-> t, on |-> {}, otherwise |-> TRUE]
NothingWritten == [steps |-> {}, starts |-> {}, ends |-> {}, tasks |-> {}, forms |-> {}, edges |-> <<>>]
\* The "otherwise" is written before the condition.
Branching ==
    [steps |-> {first, middle, last}, starts |-> {first}, ends |-> {last}, tasks |-> {first}, forms |-> {first, middle},
     edges |-> <<Otherwise(first, last), Edge(first, middle, {v1}), Edge(middle, last, AnyValue)>>]
Straight ==
    [steps |-> {middle, last}, starts |-> {middle}, ends |-> {last}, tasks |-> {}, forms |-> {},
     edges |-> <<Edge(middle, last, AnyValue)>>]
Graphs == {Branching, Straight}

\* Drafts validate_graph refuses: a cycle, a step out of reach, a condition without
\* an "otherwise", a second start, an end that leads on, a step that leads nowhere.
Refused ==
    {[Straight EXCEPT !.ends = {}, !.edges = <<Edge(middle, last, AnyValue), Edge(last, middle, AnyValue)>>],
     [Straight EXCEPT !.steps = {first, middle, last}, !.ends = {first, last}],
     [Branching EXCEPT !.edges = Tail(@)], [Branching EXCEPT !.forms = {}],
     [Branching EXCEPT !.starts = {first, middle}],
     [Branching EXCEPT !.ends = {middle, last}],
     [Straight EXCEPT !.ends = {}]}
ASSUME DraftsAreRefused == Publishable = Graphs /\ \A g \in Refused : ~Valid(g)

Symmetric == Permutations({u1, u2})
==========================================================================
