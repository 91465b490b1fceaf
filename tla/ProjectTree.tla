---------------------------- MODULE ProjectTree ----------------------------
(***************************************************************************)
(* The hierarchy of projects (bll/project/project_bll.py, sub_projects.py).*)
(*                                                                         *)
(* A project document repeats what the hierarchy says of it: its parent,   *)
(* the path of all its ancestors and its full name.  A request that moves  *)
(* or renames a project rewrites the documents of the whole subtree, one   *)
(* update for each, so the three agree only between requests.              *)
(*                                                                         *)
(* A name is the sequence of its parts between slashes.  A part that a     *)
(* client sent as a blank is stripped to the empty string.                 *)
(***************************************************************************)
EXTENDS Filtering, Naturals, Sequences, SequencesExt, FiniteSets

CONSTANTS
  Ids, NoProject,      \* ids of projects, and a field that is not set
  Gone,                \* an id that was a project's: no project is given it again
  Clients,             \* requests that may be in progress at the same time
  Entities, Archived,  \* tasks and models, and those with the archived tag
  Batches,             \* the sets of entities that requests move together
  Parts, Blank, Empty, \* parts of names: proper ones, a blank, the empty string
  PublicNames,         \* names of public projects, which belong to no company
  Asks,                \* the names each client sends for each kind of request, and
                       \* the projects it merges or deletes
  MaxDepth             \* services.projects.sub_projects.max_depth

ASSUME ProjectsAssumption ==
  /\ Ids \subseteq Nat /\ {NoProject, Gone} \cap Ids = {}
  /\ Archived \subseteq Entities /\ Batches \subseteq SUBSET Entities
  /\ Blank \notin Parts /\ Empty \notin Parts /\ Blank # Empty
  /\ MaxDepth \in Nat
  /\ LET Raw == SUBSET Seq(Parts \cup {Blank, Empty})
     IN  Asks \in [Clients -> [create: Raw, under: Raw, move: Raw, rename: Raw, ids: SUBSET Ids]]

VARIABLES
  projects,   \* the project documents
  home,       \* the project field of every entity
  call        \* what the handler of each client is doing

vars == <<projects, home, call>>

-----------------------------------------------------------------------------
(* Documents.                                                              *)

NoDoc == [exists |-> FALSE, name |-> <<>>, parent |-> NoProject, path |-> <<>>]

Live == {p \in Ids : projects[p].exists}

Names == {n \in Seq(Parts) : Len(n) \in 0..MaxDepth}

\* A document as a handler holds it in memory.  TopLevel stands for parent=None.
Copy(p) == [id |-> p, name |-> projects[p].name, path |-> projects[p].path]
TopLevel == [id |-> NoProject, name |-> <<>>, path |-> <<>>]
CopyType == [id: Ids \cup {NoProject}, name: Names, path: Seq(Ids)]

\* The projects at any level under p, by their path.
SubProjects(p) == {q \in Live : p \in ToSet(projects[q].path)}

-----------------------------------------------------------------------------
(* Names.                                                                  *)

\* The parts that are not empty.
NonEmpty(raw) == Excluding(raw, {Empty})

ProjectDepth(raw) == Len(NonEmpty(raw))

\* _validate_project_name: only the parts that are already empty are left out.
Validated(raw) ==
  LET parts == NonEmpty(raw)
  IN  [i \in DOMAIN parts |-> IF parts[i] = Blank THEN Empty ELSE parts[i]]

Location(name) == IF name = <<>> THEN <<>> ELSE Front(name)

\* "/".join(parts) is the empty string.
NoName(name) == name \in {<<>>, <<Empty>>}

\* _get_basename_from_name refuses a blank one.
ProperBasename(name) == Last(name) # Empty

ByName(name) == {p \in Live : projects[p].name = name}

\* The unique index on company and name.
NameFree(name, self) == ByName(name) \subseteq {self}

-----------------------------------------------------------------------------
(* Requests.                                                               *)

\* Requests that rewrite documents of a subtree.
Moving == {"move", "merge", "update", "delete"}

Idle == [op |-> "none", pc |-> "idle", want |-> <<>>, new |-> <<>>, parent |-> TopLevel,
         self |-> TopLevel, name |-> <<>>, path |-> <<>>, kids |-> {}, all |-> {},
         heads |-> {}, target |-> NoProject, entities |-> {}]

Settled == \A c \in Clients : call[c].op \notin Moving

\* Two requests that move projects, or one of them and a creation, leave the
\* hierarchy in pieces when they overlap: nothing in the code prevents it.  What
\* the properties say is said of histories in which a move runs alone.
MayStart(c, op) ==
  /\ call[c] = Idle
  /\ IF op \in Moving THEN \A d \in Clients : call[d] = Idle ELSE Settled

Goto(c, m) == call' = [call EXCEPT ![c] = m]
Return(c) == Goto(c, Idle)

\* An id nothing refers to.
Unused(p) ==
  /\ p \notin Live
  /\ \A e \in Entities : home[e] # p
  /\ \A q \in Live : projects[q].parent # p
  /\ \A c \in Clients : call[c].parent.id # p /\ call[c].target # p

\* database.utils.id(): an id that was never used.  Ids are numbers here, and the
\* smallest unused one stands for all of them.
FreshId(p) == Unused(p) /\ \A q \in Ids : Unused(q) => p <= q

\* ProjectBLL.create up to _ensure_project for the location.  "new" is the stack of
\* projects that wait for their parent, the deepest one at the bottom.
BeginCreate(c, op, raw, S) ==
  LET name == Validated(raw)
  IN  /\ ProjectDepth(raw) <= MaxDepth
      /\ name # <<>>
      /\ ByName(name) = {} /\ name \notin PublicNames
      /\ ProperBasename(name)
      /\ Goto(c, [Idle EXCEPT !.op = op, !.pc = "ensure", !.want = Location(name),
                              !.new = <<name>>, !.entities = S])

Create(c, raw) ==
  /\ MayStart(c, "create")
  /\ BeginCreate(c, "create", raw, {})
  /\ UNCHANGED <<projects, home>>

\* move_under_project: find_or_create, then one update of the entities.
MoveUnder(c, raw, S) ==
  /\ MayStart(c, "move_under")
  /\ Validated(raw) # <<>>
  /\ IF ByName(Validated(raw)) = {}
       THEN BeginCreate(c, "move_under", raw, S)
       ELSE \E p \in ByName(Validated(raw)) :
              Goto(c, [Idle EXCEPT !.op = "move_under", !.pc = "assign", !.target = p,
                                   !.entities = S])
  /\ UNCHANGED <<projects, home>>

Assign(c) ==
  /\ call[c].pc = "assign"
  /\ home' = [e \in Entities |-> IF e \in call[c].entities THEN call[c].target ELSE home[e]]
  /\ Return(c)
  /\ UNCHANGED projects

-----------------------------------------------------------------------------
(* _ensure_project: up the location until a project is found, then down,   *)
(* creating what is missing.                                               *)

LookUp(c) ==
  LET m == call[c]
      name == Validated(m.want)
  IN  /\ m.pc = "ensure"
      /\ \/ /\ NoName(name)
            /\ Goto(c, [m EXCEPT !.pc = "save", !.parent = TopLevel])
         \/ \E p \in ByName(name) : Goto(c, [m EXCEPT !.pc = "save", !.parent = Copy(p)])
         \/ /\ ~NoName(name) /\ ByName(name) = {}
            /\ IF name \notin PublicNames /\ ProperBasename(name)
                 THEN Goto(c, [m EXCEPT !.want = Location(name), !.new = <<name>> \o @])
                 ELSE Return(c)
      /\ UNCHANGED <<projects, home>>

\* Mutant of UnderParent: the path of a project at the top level.
UnderParentAlways(name, parent) ==
  [exists |-> TRUE, name |-> name, parent |-> parent.id, path |-> Append(parent.path, parent.id)]

\* _save_under_parent: the location must be the name of the parent as it was read.
UnderParent(name, parent) ==
  [exists |-> TRUE, name |-> name, parent |-> parent.id,
   path |-> IF parent.id = NoProject THEN <<>> ELSE Append(parent.path, parent.id)]

MaySave(name, parent, self) == Front(name) = parent.name /\ NameFree(name, self)

SaveNew(c) ==
  LET m == call[c]
      name == Head(m.new)
      doc == UnderParent(name, m.parent)
  IN  /\ m.pc = "save" /\ m.new # <<>>
      /\ \E p \in Ids :
           /\ FreshId(p)
           /\ MaySave(name, m.parent, p)
           /\ projects' = [projects EXCEPT ![p] = doc]
           /\ IF Len(m.new) > 1 \/ m.op = "move"
                THEN Goto(c, [m EXCEPT !.new = Tail(@), !.target = p,
                                       !.parent = [id |-> p, name |-> name, path |-> doc.path]])
                ELSE IF m.op = "move_under"
                       THEN Goto(c, [m EXCEPT !.pc = "assign", !.target = p])
                       ELSE Return(c)
      /\ UNCHANGED home

\* The save raises: the location does not match, another request created a project
\* of this name first, or the database failed.
SaveNewFails(c) ==
  /\ call[c].pc = "save" /\ call[c].new # <<>>
  /\ Return(c)
  /\ UNCHANGED <<projects, home>>

-----------------------------------------------------------------------------
(* _reposition_project_with_children and _update_subproject_names.         *)

\* Mutant of RenamedKid: the suffix is cut one part too late.
RenamedKidLate(kid, name, old) == name \o SubSeq(kid.name, Len(old) + 2, Len(kid.name))

\* The name of a sub project once its ancestor, which was called old, is called name.
RenamedKid(kid, name, old) == name \o SubSeq(kid.name, Len(old) + 1, Len(kid.name))

RepathedKid(kid, path, old) == path \o SubSeq(kid.path, Len(old) + 1, Len(kid.path))

\* The save of the project itself; its sub projects, as they were read, follow.
Reposition(c, self, kids, parent, next) ==
  LET name == Append(parent.name, Last(self.name))
      doc == UnderParent(name, parent)
  IN  IF MaySave(name, parent, self.id)
        THEN /\ projects' = [projects EXCEPT ![self.id] = doc]
             /\ Goto(c, [next EXCEPT !.pc = "kids", !.self = self, !.kids = kids,
                                     !.name = name, !.path = doc.path])
        ELSE Return(c) /\ UNCHANGED projects

NextKid(c) ==
  LET m == call[c]
  IN  /\ m.pc = "kids"
      /\ \E kid \in m.kids :
           LET name == RenamedKid(kid, m.name, m.self.name)
           IN  IF NameFree(name, kid.id)
                 THEN /\ projects' = [projects EXCEPT
                           ![kid.id].name = name,
                           ![kid.id].path = IF m.op = "update" THEN @
                                            ELSE RepathedKid(kid, m.path, m.self.path)]
                      /\ Goto(c, [m EXCEPT !.kids = @ \ {kid}])
                 ELSE Return(c) /\ UNCHANGED projects
      /\ UNCHANGED home

LastKid(c) ==
  /\ call[c].pc = "kids" /\ call[c].kids = {}
  /\ IF call[c].op = "merge" THEN Goto(c, [call[c] EXCEPT !.pc = "heads"]) ELSE Return(c)
  /\ UNCHANGED <<projects, home>>

-----------------------------------------------------------------------------
(* move_project                                                            *)

\* validate_projects_depth
DepthAllowed(S, old, new) == \A k \in S : Len(k.path) + 1 + new <= MaxDepth + old

Move(c, p, raw) ==
  LET kids == {Copy(q) : q \in SubProjects(p)}
  IN  /\ MayStart(c, "move")
      /\ p \in Live
      /\ DepthAllowed({Copy(p)} \cup kids, Len(projects[p].path), ProjectDepth(raw))
      /\ Goto(c, [Idle EXCEPT !.op = "move", !.pc = "ensure", !.want = raw, !.self = Copy(p),
                              !.all = kids])
      /\ UNCHANGED <<projects, home>>

\* Mutant of UnderItself: only the project itself is refused.
UnderItselfOnly(p, parent) == p = parent.id

UnderItself(p, parent) == p = parent.id \/ p \in ToSet(parent.path)

MoveEnsured(c) ==
  LET m == call[c]
  IN  /\ m.pc = "save" /\ m.op = "move" /\ m.new = <<>>
      /\ IF m.parent.id = projects[m.self.id].parent \/ UnderItself(m.self.id, m.parent)
           THEN Return(c) /\ UNCHANGED projects
           ELSE Reposition(c, m.self, m.all, m.parent, [m EXCEPT !.all = {}])
      /\ UNCHANGED home

-----------------------------------------------------------------------------
(* merge_project: the entities, each child with its sub projects, then the *)
(* source is deleted.  Entities that still name the source then name a     *)
(* project that is gone.                                                   *)

\* The sub projects passed on with a child of the merged project: only those
\* directly under it (project_bll.py:104).
KidsOf(child, all) == {k \in all : projects[k.id].parent = child}

Merge(c, source, destination) ==
  LET kids == {Copy(q) : q \in SubProjects(source)}
  IN  /\ MayStart(c, "merge")
      /\ source # destination
      /\ source \in Live
      /\ destination # NoProject =>
           /\ destination \in Live
           /\ source \notin ToSet(projects[destination].path)
           /\ DepthAllowed(kids, Len(projects[source].path) + 1,
                           Len(projects[destination].path) + 1)
      /\ Goto(c, [Idle EXCEPT !.op = "merge", !.pc = "entities", !.self = Copy(source),
                  !.target = source, !.all = kids,
                  !.parent = IF destination = NoProject THEN TopLevel ELSE Copy(destination)])
      /\ UNCHANGED <<projects, home>>

\* Mutant of Mergeable: archived entities only are left out of the wrong side.
ArchivedOnly(e) == e \in Archived

Mergeable(e) == e \notin Archived

MergeEntities(c) ==
  LET m == call[c]
  IN  /\ m.pc = "entities"
      /\ home' = [e \in Entities |-> IF home[e] = m.target /\ Mergeable(e)
                                       THEN m.parent.id ELSE home[e]]
      /\ Goto(c, [m EXCEPT !.pc = "heads",
                  !.heads = {Copy(q) : q \in {x \in Live : projects[x].parent = m.target}}])
      /\ UNCHANGED projects

MergeChild(c) ==
  LET m == call[c]
  IN  /\ m.pc = "heads"
      /\ \E child \in m.heads :
           Reposition(c, child, KidsOf(child.id, m.all), m.parent,
                      [m EXCEPT !.heads = @ \ {child}])
      /\ UNCHANGED home

MergeDone(c) ==
  /\ call[c].pc = "heads" /\ call[c].heads = {}
  /\ projects' = [projects EXCEPT ![call[c].target] = NoDoc]
  /\ home' = [e \in Entities |-> IF home[e] = call[c].target THEN Gone ELSE home[e]]
  /\ Return(c)

-----------------------------------------------------------------------------
(* update: a new name at the same location; the sub projects are read      *)
(* after the project was renamed.                                          *)

Update(c, p, raw) ==
  LET name == Validated(raw)
  IN  /\ MayStart(c, "update")
      /\ p \in Live
      /\ name # <<>>
      /\ Location(name) = Location(Validated(projects[p].name))
      /\ ProperBasename(name)
      /\ NameFree(name, p)
      /\ projects' = [projects EXCEPT ![p].name = name]
      /\ Goto(c, [Idle EXCEPT !.op = "update", !.pc = "kids", !.self = Copy(p), !.name = name,
                              !.kids = {Copy(q) : q \in SubProjects(p)}])
      /\ UNCHANGED home

-----------------------------------------------------------------------------
(* delete_project, for regular projects (neither pipelines nor datasets) and  *)
(* without delete_contents: the entities stay, in no project.              *)

\* _ids_with_children
WithChildren(p) == {p} \cup SubProjects(p)

DeleteProject(c, p, force) ==
  LET S == WithChildren(p)
  IN  /\ MayStart(c, "delete")
      /\ p \in Live
      /\ force \/ \A e \in Entities \ Archived : home[e] \notin S
      /\ Goto(c, [Idle EXCEPT !.op = "delete", !.pc = "disassociate", !.all = {Copy(q) : q \in S}])
      /\ UNCHANGED <<projects, home>>

Disassociate(c) ==
  /\ call[c].pc = "disassociate"
  /\ home' = [e \in Entities |-> IF \E d \in call[c].all : d.id = home[e] THEN NoProject ELSE home[e]]
  /\ Goto(c, [call[c] EXCEPT !.pc = "delete"])
  /\ UNCHANGED projects

DeleteDocuments(c) ==
  /\ call[c].pc = "delete"
  /\ projects' = [p \in Ids |-> IF \E d \in call[c].all : d.id = p THEN NoDoc ELSE projects[p]]
  /\ Return(c)
  /\ UNCHANGED home

-----------------------------------------------------------------------------
Init ==
  /\ projects = [p \in Ids |-> NoDoc]
  /\ home = [e \in Entities |-> NoProject]
  /\ call = [c \in Clients |-> Idle]

Next ==
  \E c \in Clients :
    \/ \E raw \in Asks[c].create : Create(c, raw)
    \/ \E raw \in Asks[c].under, S \in Batches : MoveUnder(c, raw, S)
    \/ LookUp(c) \/ SaveNew(c) \/ SaveNewFails(c) \/ Assign(c)
    \/ \E raw \in Asks[c].move, p \in Ids : Move(c, p, raw)
    \/ MoveEnsured(c) \/ NextKid(c) \/ LastKid(c)
    \/ \E p \in Asks[c].ids, q \in Ids \cup {NoProject} : Merge(c, p, q)
    \/ MergeEntities(c) \/ MergeChild(c) \/ MergeDone(c)
    \/ \E raw \in Asks[c].rename, p \in Ids : Update(c, p, raw)
    \/ \E p \in Asks[c].ids, force \in BOOLEAN : DeleteProject(c, p, force)
    \/ Disassociate(c) \/ DeleteDocuments(c)

Spec == Init /\ [][Next]_vars

-----------------------------------------------------------------------------
(* Properties.                                                             *)

TypeOK ==
  /\ projects \in [Ids -> [exists: BOOLEAN, name: Names,
                           parent: Ids \cup {NoProject}, path: Seq(Ids)]]
  /\ home \in [Entities -> Ids \cup {NoProject, Gone}]
  /\ \A c \in Clients : /\ call[c].parent \in CopyType /\ call[c].self \in CopyType
                        /\ call[c].kids \subseteq CopyType /\ call[c].all \subseteq CopyType

\* Between the requests that move projects, the parent, the path and the full name of
\* every project tell the same: the path is the parent's path and the parent, the
\* name is the parent's name and one part.  It also holds while projects are being
\* created, by any number of requests, whatever save of theirs fails.
AgreesWithParent(p) ==
  LET d == projects[p]
      parent == IF d.parent = NoProject THEN TopLevel ELSE Copy(d.parent)
  IN  /\ d.parent = NoProject \/ d.parent \in Live
      /\ d.name # <<>> /\ Front(d.name) = parent.name
      /\ d.path = UnderParent(d.name, parent).path

TreeAgrees ==
  /\ Settled => \A p \in Live : AgreesWithParent(p)
  /\ \A p \in Live : Len(projects[p].path) < MaxDepth /\ Len(projects[p].name) <= MaxDepth

\* Merging a project into another leaves no task or model behind in a project that
\* is gone, unless it is archived.
ActiveEntitiesHaveHomes ==
  Settled => \A e \in Entities \ Archived : home[e] = NoProject \/ home[e] \in Live

\* What the documents say when their paths and full names are left out.
hierarchy ==
  [p \in Ids |-> [exists |-> projects[p].exists, parent |-> projects[p].parent,
                  base |-> IF projects[p].exists THEN Last(projects[p].name) ELSE Empty]]

\* The documents implement a forest in which a project is never put under itself,
\* siblings have different names and a project is removed with what is under it.
Forest == INSTANCE ProjectForest WITH NoBase <- Empty, forest <- hierarchy
IsForest == Forest!Spec

\* What the docstring of merge_project says, for sub projects: once the source is gone,
\* every project that was under it is under the destination, with its name.
MergeMovesSubtree ==
  \A c \in Clients : call[c].pc = "heads" /\ call[c].heads = {} =>
     \A k \in call[c].all : AgreesWithParent(k.id)
=============================================================================
