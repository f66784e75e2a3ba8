---------------------------- MODULE MCPtySession ----------------------------
(* One pane key; the cfg picks how many shells and attachments.             *)
EXTENDS PtySessionProps
CONSTANTS k1, s1, s2, c1, c2, c3
MCKeys == {k1}
MCOneShell == {s1}
MCTwoShells == {s1, s2}
MCTwoTabs == {c1, c2}
MCThreeTabs == {c1, c2, c3}

\* Names are interchangeable: shells are started and attachments are made in
\* the order of their names.  This only leaves out renamed behaviours.
MCTabOrder == <<c1, c2, c3>>
MCInOrder ==
  /\ s2 \in Sessions => (key[s2] # None => key[s1] # None)
  /\ \A j \in 2..3 : MCTabOrder[j] \in Clients =>
       (phase[MCTabOrder[j]] # "new" => phase[MCTabOrder[j - 1]] # "new")
=============================================================================
