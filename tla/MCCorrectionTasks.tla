-------------------------- MODULE MCCorrectionTasks --------------------------
EXTENDS CorrectionTasks, TLC

CONSTANTS t1, t2, p1, p2, n1, n2, n3, a, b, c, v1

Proposal(edit, create, retire, item) ==
  [edit |-> edit, create |-> create, retire |-> retire, item |-> item]

TwoLines == n1 :> a @@ n2 :> b

\* Both want one label, and both add to a line; or the second puts a line of
\* its own, with the label wanted, in the place of the one the first relabels.
RivalProposals ==
  t1 :> {Proposal(n1 :> c, <<>>, {}, {n1, n2}), Proposal(<<>>, <<>>, {n2}, {n1})} @@
  t2 :> {Proposal(n2 :> c, <<>>, {}, {n1}), Proposal(<<>>, n3 :> c, {n1}, {n3})}

TogetherOrApart == {t1 :> p1 @@ t2 :> p1, t1 :> p1 @@ t2 :> p2}
OnePool   == <<v1>>
TwoSlots  == v1 :> 2
NoChanges == [t \in {t1, t2} |-> {Proposal(<<>>, <<>>, {}, {})}]
AllInOne  == {t1 :> p1 @@ t2 :> p1}
FourSlots == v1 :> 4
FourAndTwo == t1 :> 4 @@ t2 :> 2
TwoAndOne == t1 :> 2 @@ t2 :> 1
=============================================================================
