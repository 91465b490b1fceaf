---------------------------- MODULE ExportedTree ----------------------------
(* What an export of projects and tasks takes along, and what it makes of   *)
(* the names and paths of projects whose parents stay behind                *)
(* (mongo/initialize/pre_populate.py).  A name is the sequence of its       *)
(* parts; a project's last part is written as the project itself.           *)
EXTENDS Naturals, FiniteSets, SequencesExt

CONSTANTS
  Folders,  \* projects, numbered
  Pieces    \* tasks

ASSUME ExportedTreeAssumption == Folders \subseteq Nat \ {0}

VARIABLE source \* the database: parent of each project, home of each task (0: none), what is asked

-----------------------------------------------------------------------------
PathTo[p \in Folders] ==
  IF source.parent[p] = 0 THEN <<>> ELSE Append(PathTo[source.parent[p]], source.parent[p])

\* project_ids_with_children
WithSubfolders(S) == {p \in Folders : p \in S \/ ToSet(PathTo[p]) \cap S # {}}

\* _resolve_entities: tasks of the projects asked for and of those below, then single tasks
\* and the projects they are in; root stands for the tasks without a project.
ResolvedPieces ==
  {t \in Pieces : \/ t \in source.tasks
                  \/ /\ source.home[t] \in WithSubfolders(source.projects) \cup (IF source.root THEN {0} ELSE {})
                     /\ t \notin source.archived}
ResolvedFolders ==
  WithSubfolders(source.projects) \cup ({source.home[t] : t \in source.tasks} \ {0})

Exported == [p \in ResolvedFolders |->
               [name |-> Append(PathTo[p], p), path |-> PathTo[p], parent |-> source.parent[p]]]

\* Mutant of LongestFirst: the prefixes are sorted the other way round.
ShortestFirst(P) == SetToSortSeq(P, LAMBDA x, y : Len(x.path) < Len(y.path))

LongestFirst(P) == SetToSortSeq(P, LAMBDA x, y : Len(x.path) > Len(y.path))

\* _check_projects_hierarchy: the longest of the prefixes that orphans have is cut off.
ParentPrefixes(E) ==
  {[path |-> E[p].path, name |-> Front(E[p].name)] :
     p \in {q \in DOMAIN E : E[q].parent # 0 /\ E[q].parent \notin DOMAIN E}}
Cut(seq, prefix) == IF IsPrefix(prefix, seq) THEN SubSeq(seq, Len(prefix) + 1, Len(seq)) ELSE seq

CheckProjectsHierarchy(E) ==
  [p \in DOMAIN E |->
     LET fitting == SelectSeq(LongestFirst(ParentPrefixes(E)), LAMBDA x : IsPrefix(x.path, E[p].path))
         path == Cut(E[p].path, fitting[1].path)
     IN  IF fitting = <<>> THEN E[p]
         ELSE [name |-> Cut(E[p].name, fitting[1].name), path |-> path,
               parent |-> IF path = <<>> THEN 0 ELSE E[p].parent]]

\* In the zip every task is in a project that is there, or in none, and every project has
\* the path and the name that its parents there give it, or is on top: whichever projects
\* and tasks were asked for.
ExportedTreeAgrees ==
  LET E == CheckProjectsHierarchy(Exported)
  IN  /\ \A t \in ResolvedPieces : source.home[t] \in DOMAIN E \cup {0}
      /\ \A p \in DOMAIN E :
           LET up == E[p].parent
           IN  IF up = 0 THEN E[p].path = <<>> /\ E[p].name = <<p>>
               ELSE /\ up \in DOMAIN E
                    /\ E[p].path = Append(E[up].path, up) /\ E[p].name = Append(E[up].name, p)
=============================================================================
