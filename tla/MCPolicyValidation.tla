-------------------------- MODULE MCPolicyValidation --------------------------
(***************************************************************************)
(* The submissions the validation rules are checked on.                    *)
(***************************************************************************)
EXTENDS PolicyValidation, SequencesExt

CONSTANTS m1, m2, a, b, s1

Target1(kind) ==
  [kind |-> kind, secret |-> IF kind = "basicAuth" THEN s1 ELSE Absent]

Sink1(name, kind, endpoint) ==
  [name |-> name, endpoint |-> endpoint, inputs |-> {m1}, target |-> Target1(kind)]

\* All lists of up to two sources, and lists of three with few queries.
SourceLists ==
  BoundedSeq([name: {m1, m2, NoName}, query: Query], 2)
  \cup TupleOf([name: {m1, m2}, query: {"selector", "expression"}], 3)

\* All lists of up to two sinks.  A sink without a target has no endpoint.
SinkLists ==
  BoundedSeq({Sink1(n, k, e) : n \in {a, NoName}, k \in {"open", "emptyAuth"},
                               e \in Endpoint}
             \cup {Sink1(n, "none", "empty") : n \in {a, NoName}}, 2)
  \cup TupleOf({Sink1(n, "basicAuth", "url") : n \in {a, b}}, 3)

SoundSource == [name |-> m1, query |-> "selector"]

MCSubmissions ==
  {[sources |-> l, sinks |-> <<Sink1(a, "basicAuth", "url")>>] : l \in SourceLists}
  \cup {[sources |-> <<SoundSource>>, sinks |-> l] : l \in SinkLists}
=============================================================================
