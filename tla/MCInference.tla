---------------------------- MODULE MCInference ----------------------------
(* Instances of Inference for TLC.                                         *)
EXTENDS Inference

CONSTANTS h1, h2, m1, m2, e1, e2, e3

Task(name, binary, deps, input, output) ==
  [engine |-> [name |-> name, binary |-> binary, deps |-> deps], input |-> input, output |-> output]

\* e1 and e2 were compiled for the id 1; m1 was compiled under another name.
MCSymbol == [b \in {m1, m2, e1, e2, e3} |-> IF b \in {m1, m2} THEN m2 ELSE 1]

\* Two binaries under the one name, one that the storage has not (e3), one
\* without the symbol that is looked up (m1), with a dependency that the
\* storage has (m1) or has not (m2), and the inputs nothing is loaded from.
MCJob == {Task(Anonymous, e1, <<>>, "data", "jxtd"),
          Task(Anonymous, e2, <<>>, "http", "jxtd"),
          Task(Anonymous, e3, <<>>, "data", "none"),
          Task(m1, m1, <<m2>>, "data", "none"),
          Task(m1, m1, <<m1>>, "other", "none"),
          Task(m1, m1, <<m1>>, "jxtd", "none")}
=============================================================================
