-------------------------- MODULE MCKnowledgeWrites --------------------------
EXTENDS KnowledgeWrites, TLC

CONSTANTS t1, t2, p1, n1, n2, n3, a, b, c

Proposal(edit, create, retire, item) ==
  [edit |-> edit, create |-> create, retire |-> retire, item |-> item]

TwoLines == n1 :> a @@ n2 :> b

\* The first relabels a line; the second adds an item to that line, and puts
\* the same label on another, or on a new one.
OneAddsToTheOthers ==
  t1 :> {Proposal(n1 :> c, <<>>, {}, {})} @@
  t2 :> {Proposal(n2 :> c, <<>>, {}, {n1}), Proposal(<<>>, n3 :> c, {}, {n1})}

Together == {t1 :> p1 @@ t2 :> p1}
=============================================================================
