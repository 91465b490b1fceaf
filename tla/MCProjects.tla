----------------------------- MODULE MCProjects -----------------------------
(* Instances of ProjectTree and ProjectStats for TLC.                        *)
EXTENDS ProjectStats, TLC
CONSTANTS c1, c2, e1, e2, a, b, u1, u2

\* The first client sends everything, and merges and deletes project 1, which may have come
\* to stand anywhere in the tree; the second one creates projects at the top level.
OneMovesOneCreates ==
  [c \in Clients |->
     IF c = c1 THEN [create |-> {<<a, a, a>>, <<a, Blank, b>>}, under |-> {<<a>>},
                     move |-> {<<>>, <<b>>, <<a, a>>}, rename |-> {<<b>>}, ids |-> {1}]
     ELSE [create |-> {<<a>>}, under |-> {}, move |-> {}, rename |-> {}, ids |-> {}]]

\* One client, with names deep enough for four levels.
FourLevels ==
  [c \in Clients |-> [create |-> {<<a, a, a, a>>, <<b>>}, under |-> {}, move |-> {}, rename |-> {},
                      ids |-> Ids]]

BothTogether == {Entities}
OneInDeepName == {<<b, b>>}

\* One task that ended today after two units of time, one archived one that runs.
TwoFacts ==
  e1 :> [user |-> u1, status |-> "completed", started |-> 3, completed |-> 5] @@
  e2 :> [user |-> u2, status |-> "in_progress", started |-> 4, completed |-> 0]

\* The owners and tags alternate.
Owners == [p \in Ids |-> IF p % 2 = 1 THEN u1 ELSE u2]
SomeDatasets == {p \in Ids : p % 3 # 1}
SomeTags == [p \in Ids |-> {p % 2}]
=============================================================================
