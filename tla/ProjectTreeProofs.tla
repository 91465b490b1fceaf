------------------------- MODULE ProjectTreeProofs -------------------------
(***************************************************************************)
(* Name, parent and path of every project agree whenever no request that   *)
(* moves projects is at work, for any number of projects and clients, any  *)
(* names and any depth, in histories whose merges are shallow.             *)
(*                                                                         *)
(* While the sub projects of a project are being renamed one by one the    *)
(* documents disagree.  What holds then is that the tree would be whole    *)
(* if the documents still to be written were written now: Finished.  Each  *)
(* of these writes leaves Finished as it is, and the step that begins them *)
(* moves a subtree of it (Moved) at once.                                  *)
(***************************************************************************)
EXTENDS ProjectTree, FilteringProofs, SequenceTheorems, TLAPS

-----------------------------------------------------------------------------
(* Trees of documents.                                                     *)

Doc == [exists: BOOLEAN, name: Names, parent: Ids \cup {NoProject}, path: Seq(Ids)]

LiveIn(D) == {p \in Ids : D[p].exists}
CopyOf(D, p) == [id |-> p, name |-> D[p].name, path |-> D[p].path]
UnderIn(D, p) == {q \in LiveIn(D) : p \in ToSet(D[q].path)}

\* s is the first n elements of t.
Begins(s, t, n) == Len(s) = n /\ \A i \in 1..n : s[i] = t[i]

\* What stands above a project in its path is there, and repeats a part of its path and name.
Rooted(D, p) ==
  /\ Len(D[p].name) = Len(D[p].path) + 1
  /\ D[p].parent = IF D[p].path = <<>> THEN NoProject ELSE Last(D[p].path)
  /\ \A i \in 1..Len(D[p].path) :
       /\ D[p].path[i] \in LiveIn(D)
       /\ Begins(D[D[p].path[i]].name, D[p].name, i)
       /\ Begins(D[D[p].path[i]].path, D[p].path, i - 1)

Tree(D) ==
  /\ D \in [Ids -> Doc]
  /\ \A p \in Ids : ~D[p].exists => D[p] = NoDoc
  /\ \A p, q \in LiveIn(D) : D[p].name = D[q].name => p = q
  /\ \A p \in LiveIn(D) : Rooted(D, p)

\* The documents when those that a request has still to rewrite are written.
Finished(m, D) ==
  [x \in Ids |->
     IF CopyOf(D, x) \in m.kids
       THEN [D[x] EXCEPT !.name = RenamedKid(CopyOf(D, x), m.name, m.self.name),
                         !.path = IF m.op = "update" THEN @
                                  ELSE RepathedKid(CopyOf(D, x), m.path, m.self.path)]
       ELSE D[x]]

\* A subtree put under another parent, or renamed.
Moved(D, p, name, parent) ==
  LET doc == UnderParent(name, parent)
  IN  [x \in Ids |->
         IF x = p THEN doc
         ELSE IF x \in UnderIn(D, p)
                THEN [D[x] EXCEPT !.name = RenamedKid(CopyOf(D, x), name, D[p].name),
                                  !.path = RepathedKid(CopyOf(D, x), doc.path, D[p].path)]
                ELSE D[x]]

-----------------------------------------------------------------------------
(* The invariant: what a handler in progress relies on.                    *)

Raw == Seq(Parts \cup {Blank, Empty})
ProperNames == {n \in Seq(Parts \cup {Empty}) : n # <<>> /\ Last(n) # Empty}

Calls == [op: {"none", "create", "move_under", "move", "merge", "update", "delete"},
          pc: {"idle", "ensure", "save", "assign", "kids", "entities", "heads", "disassociate", "delete"},
          want: Raw, new: Seq(ProperNames), parent: CopyType, self: CopyType, name: Names,
          path: Seq(Ids), kids: SUBSET CopyType, all: SUBSET CopyType, heads: SUBSET CopyType,
          target: Ids \cup {NoProject}, entities: SUBSET Entities]

GoodParent(D, k) == k = TopLevel \/ (k.id \in LiveIn(D) /\ k = CopyOf(D, k.id))

\* n is how deep the new projects will reach, with those still to be created.
Fits(m, n) ==
  IF m.op = "move" THEN DepthAllowed({m.self} \cup m.all, Len(m.self.path), n) ELSE n <= MaxDepth

\* A project created since the sub projects were read stands above the new parent.
Ensuring(m, D) ==
  /\ m.pc = "ensure" => m.parent = TopLevel /\ Fits(m, Len(NonEmpty(m.want)) + Len(m.new))
  /\ m.pc = "save" => Fits(m, Len(m.parent.name) + Len(m.new))
  /\ GoodParent(D, m.parent)
  /\ m.op = "move" =>
       /\ m.self.id \in LiveIn(D) /\ m.self = CopyOf(D, m.self.id)
       /\ m.all \subseteq {CopyOf(D, q) : q \in UnderIn(D, m.self.id)}
       /\ \A q \in UnderIn(D, m.self.id) :
            CopyOf(D, q) \in m.all \/ q = m.parent.id \/ q \in ToSet(m.parent.path)

\* No project has the name that another one will be given.
Renaming(m, D) ==
  /\ Tree(Finished(m, D))
  /\ \A k \in m.kids : /\ k.id \in LiveIn(D) /\ k = CopyOf(D, k.id)
                       /\ Len(m.self.name) < Len(k.name) /\ Len(k.path) < MaxDepth
                       /\ m.op # "update" => Len(m.self.path) < Len(k.path)
  /\ \A k \in m.kids : \A x \in LiveIn(D) \ {k.id} : D[x].name # Finished(m, D)[k.id].name

\* D is the tree when the current child has been moved.
Merging(m, D, h) ==
  /\ m.target \in LiveIn(D)
  /\ GoodParent(D, m.parent) /\ m.parent.id # m.target /\ m.target \notin ToSet(m.parent.path)
  /\ \A x \in UnderIn(D, m.target) : CopyOf(D, x) \in m.all
  /\ \A k \in m.all : /\ k.id \in LiveIn(D) /\ Len(k.path) < MaxDepth
                      /\ m.target \in ToSet(D[k.id].path) => k = CopyOf(D, k.id)
                      /\ m.parent.id # NoProject =>
                           Len(k.path) + 1 + Len(m.parent.path) <= MaxDepth + Len(D[m.target].path)
  /\ m.pc = "entities" => m.self = CopyOf(D, m.target)
  /\ m.pc # "entities" =>
       /\ m.heads = {CopyOf(D, x) : x \in {y \in LiveIn(D) : D[y].parent = m.target}}
       /\ \A k \in m.all : Len(k.path) <= Len(D[m.target].path) + 2
       /\ \A e \in Entities \ Archived : h[e] # m.target

Deleting(m, D, h) ==
  /\ \E p \in LiveIn(D) : m.all = {CopyOf(D, q) : q \in {p} \cup UnderIn(D, p)}
  /\ m.pc = "delete" => \A e \in Entities : \A d \in m.all : d.id # h[e]

Phase(m, D, h) ==
  /\ m.pc = "idle" \/ m.op = "none" => m = Idle
  /\ m.pc # "kids" => m.kids = {}
  /\ m.op \in {"create", "move"} => m.pc \in {"ensure", "save", "kids"}
  /\ m.pc \in {"ensure", "save"} => m.op \in {"create", "move_under", "move"} /\ Ensuring(m, D)
  /\ m.pc = "assign" => m.op = "move_under" /\ m.target \in LiveIn(D)
  /\ m.pc = "kids" => m.op \in {"move", "merge", "update"} /\ Renaming(m, D)
  /\ m.pc \in {"entities", "heads"} => m.op = "merge"
  /\ m.op = "merge" => m.pc \in {"entities", "heads", "kids"} /\ Merging(m, Finished(m, D), h)
  /\ m.pc \in {"disassociate", "delete"} => m.op = "delete" /\ Deleting(m, D, h)

\* A request that moves projects is alone.
OneMover == \A c, d \in Clients : call[c].op \in Moving /\ d # c => call[d] = Idle

Whole == (\A c \in Clients : call[c].pc # "kids") => Tree(projects)

HomesKnown ==
  /\ home \in [Entities -> Ids \cup {NoProject, Gone}]
  /\ \A e \in Entities \ Archived : home[e] = NoProject \/ home[e] \in LiveIn(projects)

TreeInv ==
  /\ projects \in [Ids -> Doc] /\ call \in [Clients -> Calls]
  /\ HomesKnown /\ OneMover /\ Whole
  /\ \A c \in Clients : Phase(call[c], projects, home)

-----------------------------------------------------------------------------
(* The histories the theorems are about: those in which a project that is  *)
(* merged has at most grandchildren.  merge_project leaves the projects    *)
(* under those with the name and the path they had.                        *)
Shallow ==
  \A c \in Clients : call[c].pc = "entities" =>
    \A k \in call[c].all : Len(k.path) <= Len(call[c].self.path) + 2

-----------------------------------------------------------------------------
(* Sequences.                                                              *)

LEMMA ToSetIs == ASSUME NEW S, NEW s \in Seq(S) PROVE ToSet(s) = {s[i] : i \in 1..Len(s)}
BY DEF ToSet

LEMMA FrontAndLast ==
  ASSUME NEW S, NEW s \in Seq(S), s # <<>>
  PROVE  /\ Front(s) \in Seq(S) /\ Len(Front(s)) = Len(s) - 1
         /\ \A i \in 1..(Len(s) - 1) : Front(s)[i] = s[i]
         /\ Last(s) = s[Len(s)] /\ Last(s) \in S
<1>1. Len(s) \in Nat \ {0} /\ Len(s) - 1 \in Nat OBVIOUS
<1>2. Front(s) = SubSeq(s, 1, Len(s) - 1) BY DEF Front
<1>3. Front(s) \in Seq(S) /\ Len(Front(s)) = Len(s) - 1 /\ \A i \in 1..(Len(s) - 1) : Front(s)[i] = s[i]
  <2> DEFINE n == Len(s) - 1
  <2>1. n \in Nat /\ n <= Len(s) BY <1>1
  <2>2. \A i \in 1..n : i \in 1..Len(s) /\ 1 + i - 1 = i BY <2>1
  <2> HIDE DEF n
  <2>3. SubSeq(s, 1, n) \in Seq(S) /\ Len(SubSeq(s, 1, n)) = n BY <2>1, <2>2, SubSeqProperties
  <2>4. \A i \in 1..n : SubSeq(s, 1, n)[i] = s[i] BY <2>1, <2>2, SubSeqProperties
  <2>5. QED BY <1>2, <2>3, <2>4 DEF n
<1>4. Last(s) = s[Len(s)] BY DEF Last
<1>5. QED BY <1>1, <1>3, <1>4

\* The first k elements replaced by new: what moving does to the name and the path of a kid.
Graft(new, s, k) == new \o SubSeq(s, k + 1, Len(s))

LEMMA Grafted ==
  ASSUME NEW S, NEW s \in Seq(S), NEW new \in Seq(S), NEW k \in Nat, k <= Len(s)
  PROVE  /\ Graft(new, s, k) \in Seq(S)
         /\ Len(Graft(new, s, k)) \in Nat /\ Len(Graft(new, s, k)) = Len(new) + Len(s) - k
         /\ \A i \in 1..Len(new) : Graft(new, s, k)[i] = new[i]
         /\ \A i \in (Len(new) + 1)..Len(Graft(new, s, k)) : Graft(new, s, k)[i] = s[i - (Len(new) - k)]
<1> DEFINE rest == SubSeq(s, k + 1, Len(s))
           g == Graft(new, s, k)
<1>1. /\ rest \in Seq(S) /\ Len(rest) = Len(s) - k
      /\ \A i \in 1..(Len(s) - k) : rest[i] = s[i + k]
  OBVIOUS
<1>2. g = new \o rest BY DEF Graft
<1> HIDE DEF rest, g
<1>3. /\ g \in Seq(S) /\ Len(g) = Len(new) + Len(s) - k
      /\ \A i \in 1..Len(g) : g[i] = IF i <= Len(new) THEN new[i] ELSE rest[i - Len(new)]
  <2>1. /\ Len(new \o rest) = Len(new) + Len(rest) /\ new \o rest \in Seq(S)
        /\ \A i \in 1..Len(new) + Len(rest) : (new \o rest)[i] = IF i <= Len(new) THEN new[i] ELSE rest[i - Len(new)]
    BY <1>1, ConcatProperties
  <2>2. Len(new) + Len(rest) = Len(new) + Len(s) - k BY <1>1
  <2>3. QED BY <1>2, <2>1, <2>2
<1>4. Len(g) \in Nat /\ Len(new) \in Nat /\ Len(s) \in Nat BY <1>3
<1>5. ASSUME NEW i \in (Len(new) + 1)..Len(g) PROVE g[i] = s[i - (Len(new) - k)]
  <2>1. i - Len(new) \in 1..(Len(s) - k) /\ (i - Len(new)) + k = i - (Len(new) - k) BY <1>3, <1>4
  <2>2. i \in 1..Len(g) /\ ~(i <= Len(new)) BY <1>4
  <2>3. QED BY <1>1, <1>3, <2>1, <2>2
<1>6. \A i \in 1..Len(new) : i \in 1..Len(g) /\ i <= Len(new) BY <1>3, <1>4
<1>7. QED BY <1>3, <1>4, <1>5, <1>6 DEF g

LEMMA SameSeq ==
  ASSUME NEW S, NEW s \in Seq(S), NEW t \in Seq(S), Len(s) = Len(t), \A i \in 1..Len(s) : s[i] = t[i]
  PROVE  s = t
OBVIOUS

-----------------------------------------------------------------------------
(* Trees.                                                                  *)

LEMMA DocFields ==
  ASSUME NEW D, D \in [Ids -> Doc], NEW x \in Ids
  PROVE  /\ D[x].exists \in BOOLEAN /\ D[x].name \in Seq(Parts) /\ D[x].path \in Seq(Ids)
         /\ D[x].name \in Names /\ Len(D[x].name) \in 0..MaxDepth
         /\ D[x].parent \in Ids \cup {NoProject}
         /\ D[x] = [exists |-> D[x].exists, name |-> D[x].name, parent |-> D[x].parent, path |-> D[x].path]
BY DEF Doc, Names

\* What is above a project stands in its path.
LEMMA Above ==
  ASSUME NEW D, Tree(D), NEW x \in LiveIn(D), NEW i \in 1..Len(D[x].path)
  PROVE  /\ D[x].path[i] \in LiveIn(D)
         /\ Len(D[D[x].path[i]].name) = i /\ Len(D[D[x].path[i]].path) = i - 1
         /\ \A j \in 1..i : D[D[x].path[i]].name[j] = D[x].name[j]
         /\ \A j \in 1..(i - 1) : D[D[x].path[i]].path[j] = D[x].path[j]
BY DEF Tree, Rooted, Begins

\* Where a project stands in the paths of what is under it.
LEMMA Position ==
  ASSUME NEW D, Tree(D), NEW p \in LiveIn(D), NEW x \in UnderIn(D, p)
  PROVE  LET n == Len(D[p].path)
         IN  /\ x \in LiveIn(D) /\ x # p /\ n \in Nat
             /\ n + 1 \in 1..Len(D[x].path) /\ D[x].path[n + 1] = p
             /\ \A j \in 1..n : D[x].path[j] = D[p].path[j]
             /\ Len(D[p].name) = n + 1 /\ Len(D[x].name) = Len(D[x].path) + 1
             /\ \A j \in 1..(n + 1) : D[x].name[j] = D[p].name[j]
             /\ \A j \in 1..n : D[x].path[j] \notin UnderIn(D, p) \cup {p}
             /\ \A j \in (n + 2)..Len(D[x].path) : D[x].path[j] \in UnderIn(D, p)
<1> DEFINE n == Len(D[p].path)
<1>1. x \in LiveIn(D) /\ x \in Ids /\ p \in Ids /\ D \in [Ids -> Doc] BY DEF UnderIn, LiveIn, Tree
<1>2. /\ D[x].path \in Seq(Ids) /\ D[p].path \in Seq(Ids)
      /\ D[x].name \in Seq(Parts) /\ D[p].name \in Seq(Parts)
  BY <1>1, DocFields
<1>3. PICK i \in 1..Len(D[x].path) : D[x].path[i] = p BY <1>1, <1>2, ToSetIs DEF UnderIn
<1>4. Len(D[p].name) = i /\ n = i - 1 /\ i \in Nat \ {0} BY <1>1, <1>2, <1>3, Above
<1>5. /\ \A j \in 1..i : D[p].name[j] = D[x].name[j]
      /\ \A j \in 1..(i - 1) : D[p].path[j] = D[x].path[j]
  BY <1>1, <1>3, Above
<1>6. Len(D[x].name) = Len(D[x].path) + 1 BY <1>1 DEF Tree, Rooted
<1>7. x # p
  <2>1. SUFFICES ASSUME x = p PROVE FALSE OBVIOUS
  <2>2. Len(D[x].name) = i /\ i <= Len(D[x].path) /\ Len(D[x].path) \in Nat BY <1>2, <1>3, <1>4, <2>1
  <2>3. QED BY <1>6, <2>2
<1>8. ASSUME NEW j \in 1..n PROVE D[x].path[j] \notin UnderIn(D, p) \cup {p}
  <2> DEFINE y == D[x].path[j]
  <2>1. j \in 1..Len(D[x].path) BY <1>2, <1>3, <1>4
  <2>2. y \in LiveIn(D) /\ y \in Ids /\ Len(D[y].path) = j - 1 /\ D[y].path \in Seq(Ids)
    <3>1. y \in LiveIn(D) /\ Len(D[y].path) = j - 1 BY <1>1, <2>1, Above
    <3>2. y \in Ids BY <3>1 DEF LiveIn
    <3>3. QED BY <1>1, <3>1, <3>2, DocFields
  <2>3. y # p BY <1>4, <2>2
  <2>4. ASSUME y \in UnderIn(D, p) PROVE FALSE
    <3>1. PICK l \in 1..(j - 1) : D[y].path[l] = p BY <2>2, <2>4, ToSetIs DEF UnderIn
    <3>2. l \in 1..Len(D[y].path) /\ l \in Nat BY <2>2, <3>1
    <3>3. Len(D[D[y].path[l]].path) = l - 1
      <4> HIDE DEF y
      <4>1. QED BY <2>2, <3>2, Above
    <3>4. QED BY <1>4, <3>1, <3>3
  <2>5. QED BY <2>3, <2>4
<1>9. ASSUME NEW j \in (n + 2)..Len(D[x].path) PROVE D[x].path[j] \in UnderIn(D, p)
  <2> DEFINE y == D[x].path[j]
  <2>1. j \in 1..Len(D[x].path) /\ i \in 1..(j - 1) BY <1>2, <1>3, <1>4
  <2>2. /\ y \in LiveIn(D) /\ y \in Ids /\ Len(D[y].path) = j - 1 /\ D[y].path \in Seq(Ids)
        /\ D[y].path[i] = D[x].path[i]
    <3>1. y \in LiveIn(D) /\ Len(D[y].path) = j - 1 BY <1>1, <2>1, Above
    <3>4. D[y].path[i] = D[x].path[i] BY <1>1, <2>1, Above
    <3>2. y \in Ids BY <3>1 DEF LiveIn
    <3>3. QED BY <1>1, <3>1, <3>2, <3>4, DocFields
  <2>3. p \in ToSet(D[y].path) BY <1>3, <2>1, <2>2, ToSetIs
  <2>4. QED BY <2>2, <2>3 DEF UnderIn
<1>10. QED BY <1>1, <1>2, <1>3, <1>4, <1>5, <1>6, <1>7, <1>8, <1>9

LEMMA Transitive ==
  ASSUME NEW D, Tree(D), NEW p, NEW y \in UnderIn(D, p), NEW x \in UnderIn(D, y)
  PROVE  x \in UnderIn(D, p)
<1>1. y \in LiveIn(D) /\ x \in LiveIn(D) /\ x \in Ids /\ y \in Ids /\ D \in [Ids -> Doc]
  BY DEF UnderIn, LiveIn, Tree
<1>2. D[x].path \in Seq(Ids) /\ D[y].path \in Seq(Ids) BY <1>1, DocFields
<1>3. PICK i \in 1..Len(D[y].path) : D[y].path[i] = p BY <1>2, ToSetIs DEF UnderIn
<1>4. Len(D[y].path) \in Nat /\ Len(D[y].path) + 1 \in 1..Len(D[x].path) /\ D[x].path[i] = D[y].path[i]
  BY <1>1, <1>3, Position
<1>5. i \in 1..Len(D[x].path) BY <1>2, <1>4
<1>6. QED BY <1>1, <1>2, <1>3, <1>4, <1>5, ToSetIs DEF UnderIn

\* A prefix of the name of a project is the name of one above it.
LEMMA NameAbove ==
  ASSUME NEW D, Tree(D), NEW x \in LiveIn(D), NEW name \in Seq(Parts), name # <<>>, Len(name) < Len(D[x].name),
         \A i \in 1..Len(name) : D[x].name[i] = name[i]
  PROVE  \E z \in LiveIn(D) : D[z].name = name /\ x \in UnderIn(D, z)
<1>1. x \in Ids /\ D \in [Ids -> Doc] /\ Len(D[x].name) = Len(D[x].path) + 1 BY DEF LiveIn, Tree, Rooted
<1>2. D[x].path \in Seq(Ids) BY <1>1, DocFields
<1> DEFINE n == Len(name)
           z == D[x].path[n]
<1>3. n \in 1..Len(D[x].path) /\ Len(name) \in Nat BY <1>1, <1>2
<1>4. z \in LiveIn(D) /\ Len(D[z].name) = n /\ \A j \in 1..n : D[z].name[j] = D[x].name[j] BY <1>3, Above
<1>5. D[z].name \in Seq(Parts) BY <1>1, <1>4, DocFields DEF LiveIn
<1>6. D[z].name = name BY <1>4, <1>5, SameSeq
<1>7. z \in ToSet(D[x].path) BY <1>2, <1>3, ToSetIs
<1>8. QED BY <1>4, <1>6, <1>7 DEF UnderIn

-----------------------------------------------------------------------------
(* Moving a subtree.                                                       *)

\* The path of a document under its parent.
LEMMA PathBelow ==
  ASSUME ProjectsAssumption, NEW D, Tree(D), NEW parent, GoodParent(D, parent),
         NEW name \in Names, name # <<>>, Front(name) = parent.name
  PROVE  LET doc == UnderParent(name, parent)
         IN  /\ doc \in Doc /\ doc.exists /\ doc.name = name /\ Len(name) = Len(doc.path) + 1
             /\ doc.parent = parent.id
             /\ doc.parent = IF doc.path = <<>> THEN NoProject ELSE Last(doc.path)
             /\ doc.path # <<>> => doc.path[Len(doc.path)] = parent.id
             /\ doc.path # <<>> <=> parent # TopLevel
             /\ \A i \in 1..Len(doc.path) :
                  /\ doc.path[i] \in LiveIn(D)
                  /\ doc.path[i] = parent.id \/ (parent.id \in UnderIn(D, doc.path[i]) /\ doc.path[i] \in ToSet(parent.path))
                  /\ Begins(D[doc.path[i]].name, name, i)
                  /\ Begins(D[doc.path[i]].path, doc.path, i - 1)
<1> DEFINE doc == UnderParent(name, parent)
<1>1. /\ name \in Seq(Parts) /\ Len(name) \in Nat \ {0} /\ Len(parent.name) = Len(name) - 1
      /\ \A i \in 1..(Len(name) - 1) : parent.name[i] = name[i]
  <2>1. name \in Seq(Parts) BY DEF Names
  <2>2. Len(name) \in Nat \ {0} BY <2>1
  <2>3. Len(Front(name)) = Len(name) - 1 /\ \A i \in 1..(Len(name) - 1) : Front(name)[i] = name[i]
    BY <2>1, FrontAndLast, Zenon
  <2>4. QED BY <2>1, <2>2, <2>3
<1>2. CASE parent = TopLevel
  <2>1. doc = [exists |-> TRUE, name |-> name, parent |-> NoProject, path |-> <<>>]
    BY <1>2 DEF UnderParent, TopLevel
  <2>2. Len(name) = 1 BY <1>1, <1>2 DEF TopLevel
  <2>3. doc \in Doc BY <2>1 DEF Doc
  <2>4. QED BY <1>2, <2>1, <2>2, <2>3 DEF TopLevel
<1>3. CASE parent # TopLevel
  <2> DEFINE q == parent.id
  <2>1. q \in LiveIn(D) /\ q \in Ids /\ D \in [Ids -> Doc] /\ parent = CopyOf(D, q)
    BY <1>3 DEF GoodParent, LiveIn, Tree
  <2>2. q # NoProject BY <2>1, ProjectsAssumption DEF ProjectsAssumption
  <2>3. parent.name = D[q].name /\ parent.path = D[q].path BY <2>1 DEF CopyOf
  <2>4. D[q].path \in Seq(Ids) /\ D[q].name \in Seq(Parts) BY <2>1, DocFields
  <2>5. Len(D[q].name) = Len(D[q].path) + 1 BY <2>1 DEF Tree, Rooted
  <2> HIDE DEF q
  <2>6. doc = [exists |-> TRUE, name |-> name, parent |-> q, path |-> Append(D[q].path, q)]
    BY <2>2, <2>3 DEF UnderParent, q
  <2> HIDE DEF doc
  <2>7. /\ doc.path \in Seq(Ids) /\ Len(doc.path) = Len(D[q].path) + 1 /\ doc.path # <<>>
        /\ doc.path[Len(doc.path)] = q /\ \A i \in 1..Len(D[q].path) : doc.path[i] = D[q].path[i]
    BY <2>1, <2>4, <2>6
  <2>8. doc \in Doc BY <2>1, <2>6, <2>7 DEF Doc
  <2>9. Last(doc.path) = q BY <2>7 DEF Last
  <2>10. ASSUME NEW i \in 1..Len(doc.path)
         PROVE  /\ doc.path[i] \in LiveIn(D)
                /\ doc.path[i] = q \/ (q \in UnderIn(D, doc.path[i]) /\ doc.path[i] \in ToSet(D[q].path))
                /\ Begins(D[doc.path[i]].name, name, i)
                /\ Begins(D[doc.path[i]].path, doc.path, i - 1)
    <3>1. CASE i = Len(doc.path)
      <4>1. doc.path[i] = q BY <2>7, <3>1
      <4>2. Begins(D[q].name, name, i) BY <1>1, <2>3, <2>4, <2>5, <2>7, <3>1 DEF Begins
      <4>3. Begins(D[q].path, doc.path, i - 1) BY <2>4, <2>7, <3>1 DEF Begins
      <4>4. QED BY <2>1, <4>1, <4>2, <4>3
    <3>2. CASE i # Len(doc.path)
      <4>1. i \in 1..Len(D[q].path) /\ doc.path[i] = D[q].path[i] BY <2>4, <2>7, <3>2
      <4>2. /\ D[q].path[i] \in LiveIn(D)
            /\ Begins(D[D[q].path[i]].name, D[q].name, i) /\ Begins(D[D[q].path[i]].path, D[q].path, i - 1)
        BY <2>1, <4>1 DEF Tree, Rooted
      <4>3. Begins(D[D[q].path[i]].name, name, i)
        <5>1. \A j \in 1..i : D[q].name[j] = name[j] BY <1>1, <2>3, <2>4, <2>5, <4>1
        <5>2. QED BY <4>2, <5>1 DEF Begins
      <4>4. Begins(D[D[q].path[i]].path, doc.path, i - 1)
        <5>1. \A j \in 1..(i - 1) : D[q].path[j] = doc.path[j] BY <2>4, <2>7, <4>1
        <5>2. QED BY <4>2, <5>1 DEF Begins
      <4>5. D[q].path[i] \in ToSet(D[q].path) BY <2>4, <4>1, ToSetIs
      <4>6. q \in UnderIn(D, D[q].path[i]) BY <2>1, <4>5 DEF UnderIn
      <4>7. QED BY <4>1, <4>2, <4>3, <4>4, <4>5, <4>6
    <3>3. QED BY <3>1, <3>2
  <2>11. doc.exists /\ doc.name = name /\ doc.parent = q BY <2>6
  <2>12. Len(name) = Len(doc.path) + 1 BY <1>1, <2>3, <2>5, <2>7
  <2>13. q = parent.id /\ parent.path = D[q].path BY <2>3 DEF q
  <2>14. QED BY <1>3, <2>7, <2>8, <2>9, <2>10, <2>11, <2>12, <2>13, Zenon DEF doc
<1>4. QED BY <1>2, <1>3

MoveAllowed(D, p, name, parent) ==
  /\ Tree(D) /\ p \in LiveIn(D) /\ GoodParent(D, parent)
  /\ parent.id # p /\ p \notin ToSet(parent.path)
  /\ name \in Names /\ name # <<>> /\ Front(name) = parent.name
  /\ \A x \in LiveIn(D) : D[x].name = name => x = p
  /\ \A x \in UnderIn(D, p) : Len(D[x].name) - Len(D[p].name) + Len(name) <= MaxDepth

\* What moving makes of a document under the project that is moved.
MovedDoc(D, p, name, parent, x) ==
  LET M == Moved(D, p, name, parent)
      path == UnderParent(name, parent).path
      shift == Len(path) - Len(D[p].path)
  IN  /\ M[x] \in Doc /\ M[x].exists /\ M[x].parent = D[x].parent
      /\ M[x].name = RenamedKid(CopyOf(D, x), name, D[p].name)
      /\ M[x].path = RepathedKid(CopyOf(D, x), path, D[p].path)
      /\ Len(M[x].path) = Len(D[x].path) + shift /\ Len(M[x].name) = Len(D[x].name) + shift
      /\ \A i \in 1..Len(path) : M[x].path[i] = path[i]
      /\ \A i \in (Len(path) + 1)..Len(M[x].path) : M[x].path[i] = D[x].path[i - shift]
      /\ \A i \in 1..Len(name) : M[x].name[i] = name[i]
      /\ \A i \in (Len(name) + 1)..Len(M[x].name) : M[x].name[i] = D[x].name[i - shift]

LEMMA MovedKid ==
  ASSUME ProjectsAssumption, NEW D, NEW p, NEW name, NEW parent, MoveAllowed(D, p, name, parent),
         NEW x \in UnderIn(D, p)
  PROVE  MovedDoc(D, p, name, parent, x)
<1> DEFINE M == Moved(D, p, name, parent)
           path == UnderParent(name, parent).path
           n == Len(D[p].path)
           newname == Graft(name, D[x].name, Len(D[p].name))
           newpath == Graft(path, D[x].path, n)
<1>1. /\ Tree(D) /\ D \in [Ids -> Doc] /\ p \in LiveIn(D) /\ p \in Ids /\ x \in LiveIn(D) /\ x \in Ids
      /\ name \in Seq(Parts) /\ name \in Names /\ name # <<>> /\ Front(name) = parent.name /\ GoodParent(D, parent)
  BY DEF MoveAllowed, Tree, LiveIn, UnderIn, Names
<1>2. /\ D[p].path \in Seq(Ids) /\ D[x].path \in Seq(Ids) /\ D[p].name \in Seq(Parts) /\ D[x].name \in Seq(Parts)
      /\ D[x].parent \in Ids \cup {NoProject}
      /\ D[x] = [exists |-> D[x].exists, name |-> D[x].name, parent |-> D[x].parent, path |-> D[x].path]
      /\ D[x].exists
  BY <1>1, DocFields DEF LiveIn
<1>3. path \in Seq(Ids) /\ Len(name) = Len(path) + 1
  <2>1. UnderParent(name, parent) \in Doc /\ Len(name) = Len(path) + 1 BY <1>1, PathBelow
  <2>2. QED BY <2>1 DEF Doc
<1>4. /\ x # p /\ n \in Nat /\ n + 1 \in 1..Len(D[x].path) /\ Len(D[p].name) = n + 1
      /\ Len(D[x].name) = Len(D[x].path) + 1
  BY <1>1, Position
<1> DEFINE shift == Len(path) - n
<1>5. /\ newpath \in Seq(Ids) /\ Len(newpath) \in Nat /\ Len(newpath) = Len(path) + Len(D[x].path) - n
      /\ \A i \in 1..Len(path) : newpath[i] = path[i]
      /\ \A i \in (Len(path) + 1)..Len(newpath) : newpath[i] = D[x].path[i - shift]
  <2>1. n <= Len(D[x].path) BY <1>2, <1>4
  <2> DEFINE s == D[x].path
  <2>2. s \in Seq(Ids) /\ path \in Seq(Ids) /\ n \in Nat /\ n <= Len(s) BY <1>2, <1>3, <1>4, <2>1
  <2> HIDE DEF path, n, s
  <2>3. Graft(path, s, n) \in Seq(Ids) BY <2>2, Grafted
  <2>4. Len(Graft(path, s, n)) \in Nat /\ Len(Graft(path, s, n)) = Len(path) + Len(s) - n BY <2>2, Grafted
  <2>5. \A i \in 1..Len(path) : Graft(path, s, n)[i] = path[i] BY <2>2, Grafted
  <2>6. \A i \in (Len(path) + 1)..Len(Graft(path, s, n)) : Graft(path, s, n)[i] = s[i - (Len(path) - n)]
    BY <2>2, Grafted
  <2>7. QED BY <2>3, <2>4, <2>5, <2>6 DEF s
<1>6. /\ newname \in Seq(Parts) /\ Len(newname) \in Nat /\ Len(newname) = Len(name) + Len(D[x].name) - (n + 1)
      /\ \A i \in 1..Len(name) : newname[i] = name[i]
      /\ \A i \in (Len(name) + 1)..Len(newname) : newname[i] = D[x].name[i - (Len(name) - (n + 1))]
  <2> DEFINE k == Len(D[p].name)
             s == D[x].name
  <2>1. k \in Nat /\ k <= Len(s) /\ k = n + 1 /\ s \in Seq(Parts) BY <1>2, <1>4
  <2>0. name \in Seq(Parts) BY <1>1
  <2>2. newname = Graft(name, s, k) OBVIOUS
  <2> HIDE DEF k, s, newname
  <2>8. name \in Seq(Parts) /\ s \in Seq(Parts) /\ k \in Nat /\ k <= Len(s) BY <2>0, <2>1
  <2>3. Graft(name, s, k) \in Seq(Parts) BY <2>8, Grafted
  <2>4. Len(Graft(name, s, k)) \in Nat /\ Len(Graft(name, s, k)) = Len(name) + Len(s) - k
    BY <2>8, Grafted
  <2>5. \A i \in 1..Len(name) : Graft(name, s, k)[i] = name[i] BY <2>8, Grafted
  <2>6. \A i \in (Len(name) + 1)..Len(Graft(name, s, k)) : Graft(name, s, k)[i] = s[i - (Len(name) - k)]
    BY <2>8, Grafted
  <2>7. QED BY <2>1, <2>2, <2>3, <2>4, <2>5, <2>6 DEF s
<1>7. M[x] = [D[x] EXCEPT !.name = newname, !.path = newpath]
  BY <1>1, <1>4 DEF Moved, RenamedKid, RepathedKid, CopyOf, Graft
<1>8. newname = RenamedKid(CopyOf(D, x), name, D[p].name) /\ newpath = RepathedKid(CopyOf(D, x), path, D[p].path)
  BY DEF RenamedKid, RepathedKid, CopyOf, Graft
<1>9. Len(D[x].name) - Len(D[p].name) + Len(name) <= MaxDepth BY DEF MoveAllowed
<1> HIDE DEF M, newname, newpath, path
<1>10. M[x].exists /\ M[x].name = newname /\ M[x].parent = D[x].parent /\ M[x].path = newpath BY <1>2, <1>7
<1>11. newname \in Names
  <2>1. Len(newname) <= MaxDepth
    <3>1. Len(newname) = Len(name) + Len(D[x].name) - (n + 1) /\ Len(D[p].name) = n + 1 BY <1>4, <1>6
    <3>2. Len(name) \in Nat /\ Len(D[x].name) \in Nat /\ MaxDepth \in Nat
      BY <1>1, <1>2, ProjectsAssumption DEF ProjectsAssumption
    <3> HIDE DEF n
    <3>3. QED BY <1>4, <1>9, <3>1, <3>2
  <2>2. newname \in Seq(Parts) /\ Len(newname) \in Nat BY <1>6
  <2>3. QED BY <2>1, <2>2, ProjectsAssumption DEF Names, ProjectsAssumption
<1>12. M[x] \in Doc BY <1>2, <1>5, <1>7, <1>11 DEF Doc
<1>13. /\ Len(path) \in Nat /\ Len(name) - (n + 1) = shift
       /\ Len(D[x].path) \in Nat /\ Len(D[x].name) \in Nat /\ Len(name) \in Nat
  BY <1>1, <1>2, <1>3, <1>4
<1>14. Len(newpath) = Len(D[x].path) + shift /\ Len(newname) = Len(D[x].name) + shift
  <2>1. Len(newpath) = Len(path) + Len(D[x].path) - n BY <1>5
  <2>2. Len(newname) = Len(name) + Len(D[x].name) - (n + 1) BY <1>6
  <2>3. n \in Nat BY <1>4
  <2> HIDE DEF n
  <2>4. QED BY <1>13, <2>1, <2>2, <2>3
<1>15. QED BY <1>5, <1>6, <1>8, <1>10, <1>12, <1>13, <1>14 DEF M, path, MovedDoc

ShiftedBy(D, p, name, parent, shift) ==
  LET M == Moved(D, p, name, parent)
  IN  /\ Len(UnderParent(name, parent).path) = Len(D[p].path) + shift /\ Len(name) = Len(D[p].name) + shift
      /\ \A x \in UnderIn(D, p) :
           /\ Len(M[x].path) = Len(D[x].path) + shift /\ Len(M[x].name) = Len(D[x].name) + shift
           /\ \A i \in (Len(D[p].path) + 1)..Len(D[x].path) : M[x].path[i + shift] = D[x].path[i]
           /\ \A i \in (Len(D[p].name) + 1)..Len(D[x].name) : M[x].name[i + shift] = D[x].name[i]

\* All documents that are moved with a project go up or down by as much.
LEMMA Shifted ==
  ASSUME ProjectsAssumption, NEW D, NEW p, NEW name, NEW parent, MoveAllowed(D, p, name, parent)
  PROVE  \E shift \in Int : ShiftedBy(D, p, name, parent, shift)
<1> DEFINE M == Moved(D, p, name, parent)
           path == UnderParent(name, parent).path
           n == Len(D[p].path)
           shift == Len(path) - n
<1>1. /\ Tree(D) /\ D \in [Ids -> Doc] /\ p \in LiveIn(D) /\ p \in Ids /\ name \in Seq(Parts)
      /\ name \in Names /\ name # <<>> /\ Front(name) = parent.name /\ GoodParent(D, parent)
  BY DEF MoveAllowed, Tree, LiveIn, Names
<1>2. Len(path) \in Nat /\ Len(name) \in Nat /\ Len(name) = Len(path) + 1
  <2>1. UnderParent(name, parent) \in Doc /\ Len(name) = Len(path) + 1 BY <1>1, PathBelow
  <2>2. path \in Seq(Ids) BY <2>1 DEF Doc
  <2> HIDE DEF path
  <2>3. QED BY <1>1, <2>1, <2>2
<1>3. n \in Nat /\ Len(D[p].name) = n + 1
  <2>1. D[p].path \in Seq(Ids) BY <1>1, DocFields
  <2>2. Len(D[p].name) = n + 1 BY <1>1 DEF Tree, Rooted
  <2>3. QED BY <2>1, <2>2
<1>4. ASSUME NEW x \in UnderIn(D, p)
      PROVE  /\ Len(D[x].path) \in Nat /\ Len(D[x].name) \in Nat
             /\ Len(M[x].path) = Len(D[x].path) + (Len(path) - n) /\ Len(M[x].name) = Len(D[x].name) + (Len(path) - n)
             /\ \A i \in (Len(path) + 1)..Len(M[x].path) : M[x].path[i] = D[x].path[i - (Len(path) - n)]
             /\ \A i \in (Len(name) + 1)..Len(M[x].name) : M[x].name[i] = D[x].name[i - (Len(path) - n)]
  <2>1. D[x].name \in Seq(Parts) /\ D[x].path \in Seq(Ids) BY <1>1, DocFields DEF UnderIn, LiveIn
  <2>2. MovedDoc(D, p, name, parent, x) BY MovedKid
  <2> HIDE DEF n
  <2>3. /\ Len(M[x].path) = Len(D[x].path) + (Len(path) - n) /\ Len(M[x].name) = Len(D[x].name) + (Len(path) - n)
        /\ \A i \in (Len(path) + 1)..Len(M[x].path) : M[x].path[i] = D[x].path[i - (Len(path) - n)]
        /\ \A i \in (Len(name) + 1)..Len(M[x].name) : M[x].name[i] = D[x].name[i - (Len(path) - n)]
    BY <2>2, Zenon DEF MovedDoc, n
  <2>4. Len(D[x].path) \in Nat /\ Len(D[x].name) \in Nat BY <2>1
  <2>5. QED BY <2>3, <2>4, Zenon
<1> HIDE DEF path, n, M
<1>5. shift \in Int /\ Len(path) = n + shift /\ Len(name) = (n + 1) + shift BY <1>2, <1>3
<1>6. ASSUME NEW x \in UnderIn(D, p)
      PROVE  /\ Len(M[x].path) = Len(D[x].path) + shift /\ Len(M[x].name) = Len(D[x].name) + shift
             /\ \A i \in (n + 1)..Len(D[x].path) : M[x].path[i + shift] = D[x].path[i]
             /\ \A i \in (n + 2)..Len(D[x].name) : M[x].name[i + shift] = D[x].name[i]
  <2>1. /\ Len(D[x].path) \in Nat /\ Len(D[x].name) \in Nat
        /\ Len(M[x].path) = Len(D[x].path) + shift /\ Len(M[x].name) = Len(D[x].name) + shift
    BY <1>4
  <2>2. /\ \A i \in (Len(path) + 1)..Len(M[x].path) : M[x].path[i] = D[x].path[i - shift]
        /\ \A i \in (Len(name) + 1)..Len(M[x].name) : M[x].name[i] = D[x].name[i - shift]
    BY <1>4
  <2> HIDE DEF shift
  <2>3. ASSUME NEW i \in (n + 1)..Len(D[x].path) PROVE M[x].path[i + shift] = D[x].path[i]
    <3>1. i + shift \in (Len(path) + 1)..Len(M[x].path) /\ (i + shift) - shift = i BY <1>3, <1>5, <2>1
    <3>2. QED BY <2>2, <3>1
  <2>4. ASSUME NEW i \in (n + 2)..Len(D[x].name) PROVE M[x].name[i + shift] = D[x].name[i]
    <3>1. i + shift \in (Len(name) + 1)..Len(M[x].name) /\ (i + shift) - shift = i BY <1>3, <1>5, <2>1
    <3>2. QED BY <2>2, <3>1
  <2>5. QED BY <2>1, <2>3, <2>4
<1> HIDE DEF shift
<1>7. (n + 1) + 1 = n + 2 BY <1>3
<1>8. /\ Len(path) = n + shift /\ Len(name) = Len(D[p].name) + shift
      /\ \A x \in UnderIn(D, p) :
           /\ Len(M[x].path) = Len(D[x].path) + shift /\ Len(M[x].name) = Len(D[x].name) + shift
           /\ \A i \in (n + 1)..Len(D[x].path) : M[x].path[i + shift] = D[x].path[i]
           /\ \A i \in (Len(D[p].name) + 1)..Len(D[x].name) : M[x].name[i + shift] = D[x].name[i]
  <2>1. Len(path) = n + shift /\ Len(name) = Len(D[p].name) + shift BY <1>3, <1>5
  <2>2. Len(D[p].name) + 1 = n + 2 BY <1>3, <1>7
  <2>3. QED BY <1>6, <2>1, <2>2, Zenon
<1>9. ShiftedBy(D, p, name, parent, shift) BY <1>8, Zenon DEF n, path, M, ShiftedBy
<1>10. QED BY <1>5, <1>9

LEMMA MovedOthers ==
  ASSUME ProjectsAssumption, NEW D, NEW p, NEW name, NEW parent, MoveAllowed(D, p, name, parent)
  PROVE  LET M == Moved(D, p, name, parent)
         IN  /\ M \in [Ids -> Doc] /\ LiveIn(M) = LiveIn(D)
             /\ M[p] = UnderParent(name, parent)
             /\ \A x \in Ids : x # p /\ x \notin UnderIn(D, p) => M[x] = D[x]
<1> DEFINE M == Moved(D, p, name, parent)
<1>1. /\ Tree(D) /\ D \in [Ids -> Doc] /\ p \in LiveIn(D) /\ p \in Ids /\ UnderIn(D, p) \subseteq LiveIn(D)
      /\ name \in Names /\ name # <<>> /\ Front(name) = parent.name /\ GoodParent(D, parent)
  BY DEF MoveAllowed, Tree, LiveIn, UnderIn
<1>2. M[p] = UnderParent(name, parent) BY <1>1 DEF Moved
<1>3. \A x \in Ids : x # p /\ x \notin UnderIn(D, p) => M[x] = D[x] BY DEF Moved
<1>4. M = [x \in Ids |-> M[x]] BY DEF Moved
<1> HIDE DEF M
<1>5. UnderParent(name, parent) \in Doc /\ UnderParent(name, parent).exists BY <1>1, PathBelow
<1>6. \A x \in UnderIn(D, p) : M[x] \in Doc /\ M[x].exists
  BY MovedKid DEF M, MovedDoc
<1>7. \A x \in Ids : M[x] \in Doc BY <1>1, <1>2, <1>3, <1>5, <1>6
<1>8. M \in [Ids -> Doc] BY <1>4, <1>7
<1>9. \A x \in Ids : M[x].exists <=> D[x].exists BY <1>1, <1>2, <1>3, <1>5, <1>6 DEF LiveIn
<1>10. LiveIn(M) = LiveIn(D) BY <1>9 DEF LiveIn
<1>11. QED BY <1>2, <1>3, <1>8, <1>10 DEF M

\* The name of a document under the project that is moved, before and after.
NamesMoved(D, p, name, M, shift) ==
  /\ Len(name) = Len(D[p].name) + shift
  /\ \A x \in UnderIn(D, p) :
       /\ Len(D[x].name) \in Nat /\ Len(D[p].name) < Len(D[x].name)
       /\ Len(M[x].name) = Len(D[x].name) + shift
       /\ \A i \in 1..Len(name) : M[x].name[i] = name[i]
       /\ \A i \in 1..Len(D[p].name) : D[x].name[i] = D[p].name[i]
       /\ \A i \in (Len(D[p].name) + 1)..Len(D[x].name) : M[x].name[i + shift] = D[x].name[i]

LEMMA NamesMove ==
  ASSUME ProjectsAssumption, NEW D, NEW p, NEW name, NEW parent, MoveAllowed(D, p, name, parent)
  PROVE  \E shift \in Int : NamesMoved(D, p, name, Moved(D, p, name, parent), shift)
<1> DEFINE M == Moved(D, p, name, parent)
<1>1. PICK shift \in Int : ShiftedBy(D, p, name, parent, shift) BY Shifted
<1>2. Tree(D) /\ D \in [Ids -> Doc] /\ p \in LiveIn(D) /\ p \in Ids BY DEF MoveAllowed, Tree, LiveIn
<1>3. ASSUME NEW x \in UnderIn(D, p)
      PROVE  /\ Len(D[x].name) \in Nat /\ Len(D[p].name) < Len(D[x].name)
             /\ \A i \in 1..Len(name) : M[x].name[i] = name[i]
             /\ \A i \in 1..Len(D[p].name) : D[x].name[i] = D[p].name[i]
  <2>1. x \in Ids /\ D[x].name \in Seq(Parts) /\ D[x].path \in Seq(Ids) /\ D[p].path \in Seq(Ids)
    BY <1>2, DocFields DEF UnderIn, LiveIn
  <2>2. /\ Len(D[p].path) + 1 \in 1..Len(D[x].path) /\ Len(D[p].name) = Len(D[p].path) + 1
        /\ Len(D[x].name) = Len(D[x].path) + 1
        /\ \A j \in 1..(Len(D[p].path) + 1) : D[x].name[j] = D[p].name[j]
    BY <1>2, Position
  <2>3. MovedDoc(D, p, name, parent, x) BY MovedKid
  <2>4. \A i \in 1..Len(name) : M[x].name[i] = name[i] BY <2>3, Zenon DEF MovedDoc
  <2>5. Len(D[x].name) \in Nat /\ Len(D[p].path) \in Nat /\ Len(D[x].path) \in Nat BY <2>1
  <2>6. Len(D[p].name) < Len(D[x].name) BY <2>2, <2>5
  <2>7. \A i \in 1..Len(D[p].name) : D[x].name[i] = D[p].name[i] BY <2>2
  <2>8. QED BY <2>4, <2>5, <2>6, <2>7, Zenon
<1> HIDE DEF M
<1>4. NamesMoved(D, p, name, M, shift)
  <2>1. /\ Len(name) = Len(D[p].name) + shift
        /\ \A x \in UnderIn(D, p) :
             /\ Len(M[x].name) = Len(D[x].name) + shift
             /\ \A i \in (Len(D[p].name) + 1)..Len(D[x].name) : M[x].name[i + shift] = D[x].name[i]
    BY <1>1, Zenon DEF ShiftedBy, M
  <2>2. QED BY <1>3, <2>1, Zenon DEF NamesMoved
<1>5. QED BY <1>1, <1>4 DEF M

\* No project has the name that another one gets.
LEMMA MovedNames ==
  ASSUME ProjectsAssumption, NEW D, NEW p, NEW name, NEW parent, MoveAllowed(D, p, name, parent),
         NEW y \in UnderIn(D, p), NEW x \in LiveIn(D), D[x].name = Moved(D, p, name, parent)[y].name
  PROVE  x = y
<1> DEFINE M == Moved(D, p, name, parent)
<1>1. /\ Tree(D) /\ D \in [Ids -> Doc] /\ p \in LiveIn(D) /\ p \in Ids /\ y \in LiveIn(D) /\ y \in Ids /\ x \in Ids
      /\ name \in Seq(Parts) /\ name # <<>> /\ \A z \in LiveIn(D) : D[z].name = name => z = p
  BY DEF MoveAllowed, Tree, LiveIn, UnderIn, Names
<1>2. PICK shift \in Int : NamesMoved(D, p, name, M, shift) BY NamesMove
<1>3. D[x].name \in Seq(Parts) /\ D[y].name \in Seq(Parts) /\ D[p].name \in Seq(Parts) BY <1>1, DocFields
<1>4. D[x].name = M[y].name OBVIOUS
<1> HIDE DEF M
<1>5. /\ Len(name) = Len(D[p].name) + shift /\ Len(D[p].name) < Len(D[y].name)
      /\ Len(D[x].name) = Len(D[y].name) + shift
      /\ \A i \in 1..Len(name) : D[x].name[i] = name[i]
      /\ \A i \in 1..Len(D[p].name) : D[y].name[i] = D[p].name[i]
      /\ \A i \in (Len(D[p].name) + 1)..Len(D[y].name) : D[x].name[i + shift] = D[y].name[i]
  BY <1>2, <1>4 DEF NamesMoved
<1>6. /\ Len(name) \in Nat /\ Len(D[p].name) \in Nat /\ Len(D[y].name) \in Nat /\ Len(D[x].name) \in Nat
      /\ Len(name) < Len(D[x].name)
  BY <1>1, <1>3, <1>5
<1>7. PICK z \in LiveIn(D) : D[z].name = name /\ x \in UnderIn(D, z)
  <2>1. Len(name) < Len(D[x].name) /\ \A i \in 1..Len(name) : D[x].name[i] = name[i] BY <1>5, <1>6
  <2>2. QED BY <1>1, <2>1, NameAbove, Zenon
<1>8. z = p /\ D[p].name = name BY <1>1, <1>7
<1>9. shift = 0 BY <1>5, <1>6, <1>8
<1>10. ASSUME NEW i \in 1..Len(D[x].name) PROVE D[x].name[i] = D[y].name[i]
  <2>1. CASE i \in 1..Len(name) BY <1>5, <1>8, <2>1
  <2>2. CASE i \notin 1..Len(name)
    <3>1. i \in (Len(D[p].name) + 1)..Len(D[y].name) /\ i + shift = i BY <1>5, <1>6, <1>8, <1>9, <2>2
    <3>2. QED BY <1>5, <3>1
  <2>3. QED BY <2>1, <2>2
<1>11. D[x].name = D[y].name
  <2>1. Len(D[x].name) = Len(D[y].name) BY <1>5, <1>6, <1>9
  <2>2. QED BY <1>3, <1>10, <2>1, SameSeq
<1>12. QED BY <1>1, <1>11 DEF Tree

LEMMA MovedUnique ==
  ASSUME ProjectsAssumption, NEW D, NEW p, NEW name, NEW parent, MoveAllowed(D, p, name, parent),
         NEW a \in LiveIn(D), NEW b \in LiveIn(D),
         Moved(D, p, name, parent)[a].name = Moved(D, p, name, parent)[b].name
  PROVE  a = b
<1> DEFINE M == Moved(D, p, name, parent)
<1>1. /\ Tree(D) /\ D \in [Ids -> Doc] /\ p \in LiveIn(D) /\ p \in Ids /\ a \in Ids /\ b \in Ids
      /\ name \in Seq(Parts) /\ name # <<>> /\ \A z \in LiveIn(D) : D[z].name = name => z = p
  BY DEF MoveAllowed, Tree, LiveIn, Names
<1>2. M[p].name = name
  <2>1. name \in Names /\ Front(name) = parent.name /\ GoodParent(D, parent) BY DEF MoveAllowed
  <2>2. QED BY <1>1, <2>1, PathBelow, MovedOthers
<1>3. \A x \in LiveIn(D) : x # p /\ x \notin UnderIn(D, p) => M[x].name = D[x].name BY MovedOthers DEF LiveIn
<1>4. PICK shift \in Int : NamesMoved(D, p, name, M, shift) BY NamesMove
<1>5. \A x \in UnderIn(D, p) : \A y \in LiveIn(D) : D[y].name = M[x].name => y = x BY MovedNames
<1>6. M[a].name = M[b].name OBVIOUS
<1>7. Len(name) \in Nat /\ D[p].name \in Seq(Parts)
  <2>1. D[p].name \in Seq(Parts) BY <1>1, DocFields
  <2>2. QED BY <1>1, <2>1
<1> HIDE DEF M
<1>8. ASSUME NEW x \in UnderIn(D, p), NEW y \in UnderIn(D, p), M[x].name = M[y].name PROVE x = y
  <2>1. D[x].name \in Seq(Parts) /\ D[y].name \in Seq(Parts) /\ x \in LiveIn(D) /\ y \in LiveIn(D)
    BY <1>1, DocFields DEF UnderIn, LiveIn
  <2>2. /\ Len(M[x].name) = Len(D[x].name) + shift /\ Len(M[y].name) = Len(D[y].name) + shift
        /\ \A i \in 1..Len(D[p].name) : D[x].name[i] = D[p].name[i]
        /\ \A i \in 1..Len(D[p].name) : D[y].name[i] = D[p].name[i]
        /\ \A i \in (Len(D[p].name) + 1)..Len(D[x].name) : M[x].name[i + shift] = D[x].name[i]
        /\ \A i \in (Len(D[p].name) + 1)..Len(D[y].name) : M[y].name[i + shift] = D[y].name[i]
    BY <1>4 DEF NamesMoved
  <2>3. Len(D[x].name) \in Nat /\ Len(D[y].name) \in Nat /\ Len(D[p].name) \in Nat BY <1>7, <2>1
  <2>4. Len(D[x].name) = Len(D[y].name) BY <1>8, <2>2, <2>3
  <2>5. ASSUME NEW i \in 1..Len(D[x].name) PROVE D[x].name[i] = D[y].name[i]
    <3>1. CASE i \in 1..Len(D[p].name) BY <2>2, <3>1
    <3>2. CASE i \notin 1..Len(D[p].name)
      <4>1. i \in (Len(D[p].name) + 1)..Len(D[x].name) BY <2>3, <3>2
      <4>2. QED BY <1>8, <2>2, <2>4, <4>1
    <3>3. QED BY <3>1, <3>2
  <2>6. D[x].name = D[y].name BY <2>1, <2>4, <2>5, SameSeq
  <2>7. QED BY <1>1, <2>1, <2>6 DEF Tree
<1>9. ASSUME NEW x \in UnderIn(D, p) PROVE M[x].name # name
  <2>1. Len(M[x].name) = Len(D[x].name) + shift /\ Len(D[p].name) < Len(D[x].name) /\ Len(D[x].name) \in Nat
    BY <1>4 DEF NamesMoved
  <2>2. Len(name) = Len(D[p].name) + shift /\ Len(D[p].name) \in Nat BY <1>4, <1>7 DEF NamesMoved
  <2>3. Len(M[x].name) # Len(name) BY <2>1, <2>2
  <2>4. QED BY <2>3
<1>10. CASE a \in UnderIn(D, p) /\ b \in UnderIn(D, p) BY <1>6, <1>8, <1>10
<1>11. CASE a \in UnderIn(D, p) /\ b \notin UnderIn(D, p) BY <1>2, <1>3, <1>5, <1>6, <1>9, <1>11
<1>12. CASE a \notin UnderIn(D, p) /\ b \in UnderIn(D, p) BY <1>2, <1>3, <1>5, <1>6, <1>9, <1>12
<1>13. CASE a \notin UnderIn(D, p) /\ b \notin UnderIn(D, p)
  <2>1. CASE a = p \/ b = p BY <1>1, <1>2, <1>3, <1>6, <1>13, <2>1
  <2>2. CASE a # p /\ b # p
    <3>1. D[a].name = D[b].name BY <1>3, <1>6, <1>13, <2>2
    <3>2. QED BY <1>1, <3>1 DEF Tree
  <2>3. QED BY <2>1, <2>2
<1>14. QED BY <1>10, <1>11, <1>12, <1>13

\* The path a project gets: what is above its new parent, which does not move, and the parent.
LEMMA NewPath ==
  ASSUME ProjectsAssumption, NEW D, NEW p, NEW name, NEW parent, MoveAllowed(D, p, name, parent),
         NEW path, path = UnderParent(name, parent).path
  PROVE  /\ path \in Seq(Ids) /\ Len(path) \in Nat /\ Len(name) = Len(path) + 1
         /\ \A i \in 1..Len(path) :
              /\ path[i] \in LiveIn(D) /\ path[i] # p /\ path[i] \notin UnderIn(D, p)
              /\ Begins(D[path[i]].name, name, i)
              /\ Begins(D[path[i]].path, path, i - 1)
<1>1. /\ Tree(D) /\ D \in [Ids -> Doc] /\ p \in LiveIn(D) /\ p \in Ids
      /\ name \in Names /\ name # <<>> /\ Front(name) = parent.name /\ GoodParent(D, parent)
      /\ parent.id # p /\ p \notin ToSet(parent.path)
  BY DEF MoveAllowed, Tree, LiveIn
<1> DEFINE doc == UnderParent(name, parent)
<1>2. /\ doc \in Doc /\ Len(name) = Len(doc.path) + 1
      /\ \A i \in 1..Len(doc.path) :
           /\ doc.path[i] \in LiveIn(D)
           /\ doc.path[i] = parent.id \/ (parent.id \in UnderIn(D, doc.path[i]) /\ doc.path[i] \in ToSet(parent.path))
           /\ Begins(D[doc.path[i]].name, name, i)
           /\ Begins(D[doc.path[i]].path, doc.path, i - 1)
  BY <1>1, PathBelow
<1>3. path \in Seq(Ids) /\ Len(path) \in Nat
  <2>1. doc.path \in Seq(Ids) BY <1>2 DEF Doc
  <2> HIDE DEF doc
  <2>2. QED BY <2>1 DEF doc
<1>4. doc.path = path OBVIOUS
<1> HIDE DEF doc
<1>5. parent.id \notin UnderIn(D, p)
  <2>1. SUFFICES ASSUME parent.id \in UnderIn(D, p) PROVE FALSE OBVIOUS
  <2>2. parent.id \in LiveIn(D) /\ p \in ToSet(D[parent.id].path) BY <2>1 DEF UnderIn
  <2>3. parent.id # NoProject BY <2>2, ProjectsAssumption DEF LiveIn, ProjectsAssumption
  <2>4. parent = CopyOf(D, parent.id) BY <1>1, <2>3 DEF GoodParent, TopLevel
  <2>5. parent.path = D[parent.id].path BY <2>4 DEF CopyOf
  <2>6. QED BY <1>1, <2>2, <2>5
<1>6. ASSUME NEW i \in 1..Len(path) PROVE path[i] # p /\ path[i] \notin UnderIn(D, p)
  <2>1. CASE path[i] = parent.id BY <1>1, <1>5, <2>1
  <2>2. CASE parent.id \in UnderIn(D, path[i]) /\ path[i] \in ToSet(parent.path)
    <3>1. path[i] \notin UnderIn(D, p) BY <1>1, <1>5, <2>2, Transitive
    <3>2. QED BY <1>1, <2>2, <3>1
  <2>3. QED BY <1>2, <1>4, <2>1, <2>2
<1>7. QED BY <1>2, <1>3, <1>4, <1>6

LEMMA MovedRooted ==
  ASSUME ProjectsAssumption, NEW D, NEW p, NEW name, NEW parent, MoveAllowed(D, p, name, parent),
         NEW x \in LiveIn(D)
  PROVE  Rooted(Moved(D, p, name, parent), x)
<1> DEFINE M == Moved(D, p, name, parent)
           path == UnderParent(name, parent).path
<1>1. /\ Tree(D) /\ D \in [Ids -> Doc] /\ p \in LiveIn(D) /\ p \in Ids /\ x \in Ids
      /\ name \in Names /\ name # <<>> /\ Front(name) = parent.name /\ GoodParent(D, parent) /\ name \in Seq(Parts)
  BY DEF MoveAllowed, Tree, LiveIn, Names
<1>2. /\ LiveIn(M) = LiveIn(D) /\ M[p] = UnderParent(name, parent) /\ M \in [Ids -> Doc]
      /\ \A z \in Ids : z # p /\ z \notin UnderIn(D, p) => M[z] = D[z]
  BY MovedOthers
<1>3. /\ path \in Seq(Ids) /\ Len(path) \in Nat /\ Len(name) = Len(path) + 1
      /\ \A i \in 1..Len(path) :
           /\ path[i] \in LiveIn(D) /\ path[i] # p /\ path[i] \notin UnderIn(D, p)
           /\ Begins(D[path[i]].name, name, i)
           /\ Begins(D[path[i]].path, path, i - 1)
  <2> HIDE DEF path
  <2>1. path = UnderParent(name, parent).path BY DEF path
  <2>2. QED BY <2>1, NewPath
<1>4. M[p].path = path /\ M[p].name = name /\ M[p].parent = IF path = <<>> THEN NoProject ELSE Last(path)
  <2>1. UnderParent(name, parent).name = name BY DEF UnderParent
  <2>2. UnderParent(name, parent).parent = IF path = <<>> THEN NoProject ELSE Last(path) BY <1>1, PathBelow
  <2>3. QED BY <1>2, <2>1, <2>2
<1> HIDE DEF M, path
<1>5. \A i \in 1..Len(path) : M[path[i]] = D[path[i]] BY <1>2, <1>3 DEF LiveIn
<1>6. CASE x = p
  <2>1. ASSUME NEW i \in 1..Len(path)
        PROVE  path[i] \in LiveIn(M) /\ Begins(M[path[i]].name, name, i) /\ Begins(M[path[i]].path, path, i - 1)
    BY <1>2, <1>3, <1>5
  <2>2. QED BY <1>3, <1>4, <1>6, <2>1 DEF Rooted, M
<1>7. CASE x # p /\ x \notin UnderIn(D, p)
  <2>1. M[x] = D[x] /\ Rooted(D, x) BY <1>1, <1>2, <1>7 DEF Tree
  <2>2. D[x].path \in Seq(Ids) BY <1>1, DocFields
  <2>3. ASSUME NEW i \in 1..Len(D[x].path) PROVE M[D[x].path[i]] = D[D[x].path[i]]
    <3>1. D[x].path[i] \in LiveIn(D) /\ D[x].path[i] \in ToSet(D[x].path) BY <2>1, <2>2, ToSetIs DEF Rooted
    <3>2. x \in UnderIn(D, D[x].path[i]) BY <3>1 DEF UnderIn
    <3>3. D[x].path[i] # p BY <1>7, <3>2
    <3>4. D[x].path[i] \notin UnderIn(D, p) BY <1>1, <1>7, <3>2, Transitive
    <3>5. QED BY <1>2, <3>1, <3>3, <3>4 DEF LiveIn
  <2>4. QED BY <1>2, <2>1, <2>3 DEF Rooted, M
<1>8. CASE x \in UnderIn(D, p)
  <2> DEFINE n == Len(D[p].path)
             l == Len(D[x].path)
  <2>1. PICK shift \in Int : ShiftedBy(D, p, name, parent, shift) BY Shifted
  <2>2. /\ Len(path) = n + shift /\ Len(name) = Len(D[p].name) + shift
        /\ \A z \in UnderIn(D, p) :
             /\ Len(M[z].path) = Len(D[z].path) + shift /\ Len(M[z].name) = Len(D[z].name) + shift
             /\ \A i \in (n + 1)..Len(D[z].path) : M[z].path[i + shift] = D[z].path[i]
             /\ \A i \in (Len(D[p].name) + 1)..Len(D[z].name) : M[z].name[i + shift] = D[z].name[i]
    BY <2>1, Zenon DEF ShiftedBy, M, path
  <2>3. \A z \in UnderIn(D, p) : /\ M[z].parent = D[z].parent
                                 /\ \A i \in 1..Len(path) : M[z].path[i] = path[i]
                                 /\ \A i \in 1..Len(name) : M[z].name[i] = name[i]
    <3>1. ASSUME NEW z \in UnderIn(D, p) PROVE MovedDoc(D, p, name, parent, z) BY MovedKid
    <3>2. QED BY <3>1, Zenon DEF MovedDoc, M, path
  <2>4. /\ n \in Nat /\ l \in Nat /\ n + 1 \in 1..l /\ D[x].path[n + 1] = p /\ Len(D[p].name) = n + 1
        /\ Len(D[x].name) = l + 1 /\ \A j \in (n + 2)..l : D[x].path[j] \in UnderIn(D, p)
    <3>1. D[x].path \in Seq(Ids) /\ D[p].path \in Seq(Ids) BY <1>1, DocFields
    <3>2. /\ n + 1 \in 1..l /\ D[x].path[n + 1] = p /\ Len(D[p].name) = n + 1
          /\ Len(D[x].name) = l + 1 /\ \A j \in (n + 2)..l : D[x].path[j] \in UnderIn(D, p)
      BY <1>1, <1>8, Position
    <3>3. QED BY <3>1, <3>2
  <2>5. \A i \in 1..l : /\ D[x].path[i] \in LiveIn(D)
                        /\ Begins(D[D[x].path[i]].name, D[x].name, i)
                        /\ Begins(D[D[x].path[i]].path, D[x].path, i - 1)
    BY <1>1 DEF Tree, Rooted
  <2>6. D[x].parent = Last(D[x].path) /\ Last(D[x].path) = D[x].path[l]
    <3>1. D[x].path # <<>> BY <2>4
    <3>2. QED BY <1>1, <3>1 DEF Tree, Rooted, Last
  <2> HIDE DEF n, l
  <2>7. /\ Len(M[x].path) = l + shift /\ Len(M[x].name) = l + 1 + shift
        /\ \A i \in (n + 1)..l : M[x].path[i + shift] = D[x].path[i]
        /\ \A i \in (n + 2)..(l + 1) : M[x].name[i + shift] = D[x].name[i]
        /\ \A i \in 1..Len(path) : M[x].path[i] = path[i]
        /\ \A i \in 1..Len(name) : M[x].name[i] = name[i]
    <3>1. Len(M[x].path) = l + shift /\ Len(M[x].name) = Len(D[x].name) + shift BY <1>8, <2>2 DEF l
    <3>2. \A i \in (n + 1)..l : M[x].path[i + shift] = D[x].path[i] BY <1>8, <2>2 DEF l
    <3>3. \A i \in (n + 2)..(l + 1) : M[x].name[i + shift] = D[x].name[i]
      <4>1. (n + 1) + 1 = n + 2 BY <2>4
      <4>2. QED BY <1>8, <2>2, <2>4, <4>1
    <3>4. QED BY <1>8, <2>3, <2>4, <3>1, <3>2, <3>3
  <2>8. Len(M[x].path) \in Nat /\ Len(M[x].name) = Len(M[x].path) + 1 /\ M[x].path # <<>>
    <3>1. M[x].path \in Seq(Ids) BY <1>1, <1>2, DocFields
    <3>2. Len(M[x].path) > 0 BY <1>3, <2>2, <2>4, <2>7
    <3>3. QED BY <2>4, <2>7, <3>1, <3>2
  <2>9. M[x].parent = Last(M[x].path)
    <3>1. l \in (n + 1)..l BY <2>4
    <3>2. M[x].path[l + shift] = D[x].path[l] BY <2>7, <3>1
    <3>3. QED BY <1>8, <2>3, <2>6, <2>7, <3>2 DEF Last
  <2>10. ASSUME NEW i \in 1..Len(M[x].path)
         PROVE  /\ M[x].path[i] \in LiveIn(M)
                /\ Begins(M[M[x].path[i]].name, M[x].name, i)
                /\ Begins(M[M[x].path[i]].path, M[x].path, i - 1)
    <3>1. CASE i <= Len(path)
      <4>1. i \in 1..Len(path) /\ M[x].path[i] = path[i] BY <1>3, <2>7, <2>8, <3>1
      <4>2. /\ path[i] \in LiveIn(M) /\ Begins(M[path[i]].name, name, i) /\ Begins(M[path[i]].path, path, i - 1)
        BY <1>2, <1>3, <1>5, <4>1
      <4>3. \A j \in 1..i : M[x].name[j] = name[j] BY <1>3, <2>7, <4>1
      <4>4. \A j \in 1..(i - 1) : M[x].path[j] = path[j] BY <1>3, <2>7, <4>1
      <4>5. QED BY <4>1, <4>2, <4>3, <4>4 DEF Begins
    <3>2. CASE i = Len(path) + 1
      <4>1. i = (n + 1) + shift /\ n + 1 \in (n + 1)..l BY <2>2, <2>4, <3>2
      <4>2. M[x].path[i] = p BY <2>4, <2>7, <4>1
      <4>3. Begins(name, M[x].name, i) BY <1>3, <2>7, <3>2 DEF Begins
      <4>4. Begins(path, M[x].path, i - 1) BY <1>3, <2>7, <3>2 DEF Begins
      <4>5. QED BY <1>1, <1>2, <1>4, <4>2, <4>3, <4>4
    <3>3. CASE i > Len(path) + 1
      <4> DEFINE k == i - shift
                 w == D[x].path[k]
      <4>1. k \in (n + 2)..l /\ k \in (n + 1)..l /\ k \in 1..l /\ k + shift = i /\ k \in Nat BY <1>3, <2>2, <2>4, <2>7, <3>3
      <4> HIDE DEF k
      <4>2. M[x].path[i] = w BY <2>7, <4>1
      <4>3. w \in UnderIn(D, p) /\ w \in LiveIn(D) BY <2>4, <2>5, <4>1
      <4>4. Begins(D[w].name, D[x].name, k) /\ Begins(D[w].path, D[x].path, k - 1) BY <2>5, <4>1
      <4> HIDE DEF w
      <4>5. /\ Len(D[w].name) = k /\ Len(D[w].path) = k - 1
            /\ \A j \in 1..k : D[w].name[j] = D[x].name[j]
            /\ \A j \in 1..(k - 1) : D[w].path[j] = D[x].path[j]
        BY <4>4 DEF Begins
      <4>6. /\ Len(M[w].path) = Len(D[w].path) + shift /\ Len(M[w].name) = Len(D[w].name) + shift
            /\ \A j \in (n + 1)..Len(D[w].path) : M[w].path[j + shift] = D[w].path[j]
            /\ \A j \in (Len(D[p].name) + 1)..Len(D[w].name) : M[w].name[j + shift] = D[w].name[j]
        BY <2>2, <4>3
      <4>7. /\ \A j \in 1..Len(path) : M[w].path[j] = path[j]
            /\ \A j \in 1..Len(name) : M[w].name[j] = name[j]
        BY <2>3, <4>3
      <4>8. Len(M[w].name) = i /\ Len(M[w].path) = i - 1 BY <4>1, <4>5, <4>6
      <4>9. ASSUME NEW j \in 1..i PROVE M[w].name[j] = M[x].name[j]
        <5>1. CASE j \in 1..Len(name) BY <2>7, <4>7, <5>1
        <5>2. CASE j \notin 1..Len(name)
          <6> DEFINE h == j - shift
          <6>1. h \in (n + 2)..k /\ h \in (n + 2)..(l + 1) /\ h \in 1..k /\ h + shift = j
            BY <1>3, <2>2, <2>4, <4>1, <5>2
          <6> HIDE DEF h
          <6>2. h \in (Len(D[p].name) + 1)..Len(D[w].name) BY <2>4, <4>5, <6>1
          <6>3. M[w].name[j] = D[w].name[h] BY <4>6, <6>1, <6>2
          <6>4. M[x].name[j] = D[x].name[h] BY <2>7, <6>1
          <6>5. QED BY <4>5, <6>1, <6>3, <6>4
        <5>3. QED BY <5>1, <5>2
      <4>10. ASSUME NEW j \in 1..(i - 1) PROVE M[w].path[j] = M[x].path[j]
        <5>1. CASE j \in 1..Len(path) BY <2>7, <4>7, <5>1
        <5>2. CASE j \notin 1..Len(path)
          <6> DEFINE h == j - shift
          <6>1. h \in (n + 1)..(k - 1) /\ h \in (n + 1)..l /\ h \in 1..(k - 1) /\ h + shift = j
            BY <1>3, <2>2, <2>4, <4>1, <5>2
          <6> HIDE DEF h
          <6>2. h \in (n + 1)..Len(D[w].path) BY <4>5, <6>1
          <6>3. M[w].path[j] = D[w].path[h] BY <4>6, <6>1, <6>2
          <6>4. M[x].path[j] = D[x].path[h] BY <2>7, <6>1
          <6>5. QED BY <4>5, <6>1, <6>3, <6>4
        <5>3. QED BY <5>1, <5>2
      <4>11. Begins(M[w].name, M[x].name, i) BY <4>8, <4>9 DEF Begins
      <4>12. Begins(M[w].path, M[x].path, i - 1) BY <4>8, <4>10 DEF Begins
      <4>13. QED BY <1>2, <4>2, <4>3, <4>11, <4>12
    <3>4. QED BY <1>3, <2>8, <3>1, <3>2, <3>3
  <2>11. QED BY <2>8, <2>9, <2>10 DEF Rooted, M
<1>9. QED BY <1>6, <1>7, <1>8

\* A subtree may be put under another parent, or renamed, at once.
LEMMA MovedTree ==
  ASSUME ProjectsAssumption, NEW D, NEW p, NEW name, NEW parent, MoveAllowed(D, p, name, parent)
  PROVE  Tree(Moved(D, p, name, parent))
<1> DEFINE M == Moved(D, p, name, parent)
<1>1. M \in [Ids -> Doc] /\ LiveIn(M) = LiveIn(D) BY MovedOthers
<1>2. \A a, b \in LiveIn(D) : M[a].name = M[b].name => a = b BY MovedUnique
<1>3. \A x \in LiveIn(D) : Rooted(M, x) BY MovedRooted
<1>4. \A x \in Ids : ~M[x].exists => M[x] = NoDoc
  <2>1. SUFFICES ASSUME NEW x \in Ids, ~M[x].exists PROVE M[x] = NoDoc OBVIOUS
  <2>2. x \notin LiveIn(D) BY <1>1, <2>1 DEF LiveIn
  <2>3. p \in LiveIn(D) /\ Tree(D) BY DEF MoveAllowed
  <2>4. M[x] = D[x] BY <2>2, <2>3, MovedOthers DEF UnderIn
  <2>5. QED BY <2>2, <2>3, <2>4 DEF Tree, LiveIn
<1> HIDE DEF M
<1>5. QED BY <1>1, <1>2, <1>3, <1>4 DEF Tree, M

\* A project may be added under any other or at the top.
LEMMA AddedTree ==
  ASSUME ProjectsAssumption, NEW D, Tree(D), NEW p \in Ids, p \notin LiveIn(D), NEW parent, GoodParent(D, parent),
         NEW name \in Names, name # <<>>, Front(name) = parent.name,
         \A x \in LiveIn(D) : D[x].name # name,
         NEW A, A = [D EXCEPT ![p] = UnderParent(name, parent)]
  PROVE  Tree(A) /\ LiveIn(A) = LiveIn(D) \cup {p} /\ \A x \in LiveIn(D) : A[x] = D[x] /\ p \notin ToSet(D[x].path)
<1> DEFINE doc == UnderParent(name, parent)
<1>1. D \in [Ids -> Doc] /\ \A x \in LiveIn(D) : x \in Ids /\ x # p BY DEF Tree, LiveIn
<1>2. /\ doc \in Doc /\ doc.exists /\ doc.name = name /\ Len(name) = Len(doc.path) + 1
      /\ doc.parent = IF doc.path = <<>> THEN NoProject ELSE Last(doc.path)
      /\ \A i \in 1..Len(doc.path) :
           /\ doc.path[i] \in LiveIn(D)
           /\ Begins(D[doc.path[i]].name, name, i)
           /\ Begins(D[doc.path[i]].path, doc.path, i - 1)
  BY PathBelow
<1> HIDE DEF doc
<1>3. A = [D EXCEPT ![p] = doc] BY DEF doc
<1>4. A \in [Ids -> Doc] /\ A[p] = doc /\ \A x \in Ids : x # p => A[x] = D[x] BY <1>1, <1>2, <1>3
<1>5. LiveIn(A) = LiveIn(D) \cup {p} BY <1>1, <1>2, <1>4 DEF LiveIn
<1>6. \A x \in LiveIn(D) : A[x] = D[x] BY <1>1, <1>4
<1>7. ASSUME NEW x \in LiveIn(D) PROVE Rooted(A, x) /\ p \notin ToSet(D[x].path)
  <2>1. Rooted(D, x) /\ D[x].path \in Seq(Ids) BY <1>1, DocFields DEF Tree
  <2>2. \A i \in 1..Len(D[x].path) : D[x].path[i] \in LiveIn(A) /\ A[D[x].path[i]] = D[D[x].path[i]] /\ D[x].path[i] # p
    BY <1>1, <1>5, <1>6, <2>1 DEF Rooted
  <2>3. p \notin ToSet(D[x].path) BY <2>1, <2>2, ToSetIs
  <2>4. QED BY <1>6, <2>1, <2>2, <2>3 DEF Rooted
<1>8. Rooted(A, p)
  <2>1. \A i \in 1..Len(doc.path) : doc.path[i] \in LiveIn(A) /\ A[doc.path[i]] = D[doc.path[i]] BY <1>2, <1>5, <1>6
  <2>2. \A i \in 1..Len(doc.path) :
           /\ doc.path[i] \in LiveIn(A)
           /\ Begins(A[doc.path[i]].name, doc.name, i)
           /\ Begins(A[doc.path[i]].path, doc.path, i - 1)
    BY <1>2, <2>1
  <2>3. A[p] = doc BY <1>4
  <2>4. QED BY <1>2, <2>2, <2>3, Zenon DEF Rooted
<1>9. \A x \in Ids : ~A[x].exists => A[x] = NoDoc BY <1>2, <1>4 DEF Tree
<1>10. \A a, b \in LiveIn(A) : A[a].name = A[b].name => a = b BY <1>2, <1>4, <1>5, <1>6 DEF Tree
<1>11. QED BY <1>4, <1>5, <1>6, <1>7, <1>8, <1>9, <1>10 DEF Tree

\* A project may be removed with all that is under it.
LEMMA RemovedTree ==
  ASSUME ProjectsAssumption, NEW D, Tree(D), NEW p \in LiveIn(D),
         NEW R, R = [x \in Ids |-> IF x \in {p} \cup UnderIn(D, p) THEN NoDoc ELSE D[x]]
  PROVE  Tree(R) /\ LiveIn(R) = LiveIn(D) \ ({p} \cup UnderIn(D, p))
<1>1. D \in [Ids -> Doc] /\ NoDoc \in Doc /\ ~NoDoc.exists
  <2>1. <<>> \in Names /\ <<>> \in Seq(Ids)
    <3>1. <<>> \in Seq(Parts) /\ Len(<<>>) = 0 /\ <<>> \in Seq(Ids) OBVIOUS
    <3>2. QED BY <3>1, ProjectsAssumption DEF Names, ProjectsAssumption
  <2>2. QED BY <2>1 DEF Tree, NoDoc, Doc
<1>2. R \in [Ids -> Doc] BY <1>1
<1>3. \A x \in Ids : R[x] = IF x \in {p} \cup UnderIn(D, p) THEN NoDoc ELSE D[x] OBVIOUS
<1>4. LiveIn(R) = LiveIn(D) \ ({p} \cup UnderIn(D, p)) BY <1>1, <1>3 DEF LiveIn
<1>5. \A x \in LiveIn(R) : x \in LiveIn(D) /\ R[x] = D[x] BY <1>3, <1>4 DEF LiveIn
<1>6. ASSUME NEW x \in LiveIn(R) PROVE Rooted(R, x)
  <2>1. x \in LiveIn(D) /\ x \in Ids /\ R[x] = D[x] /\ x # p /\ x \notin UnderIn(D, p) BY <1>4, <1>5 DEF LiveIn
  <2>2. D[x].path \in Seq(Ids) /\ Rooted(D, x) BY <1>1, <2>1, DocFields DEF Tree
  <2>3. ASSUME NEW i \in 1..Len(D[x].path)
        PROVE  D[x].path[i] \in LiveIn(R) /\ R[D[x].path[i]] = D[D[x].path[i]]
    <3>1. D[x].path[i] \in LiveIn(D) /\ D[x].path[i] \in ToSet(D[x].path) BY <2>2, ToSetIs DEF Rooted
    <3>2. x \in UnderIn(D, D[x].path[i]) BY <2>1, <3>1 DEF UnderIn
    <3>3. D[x].path[i] # p BY <2>1, <3>2
    <3>4. D[x].path[i] \notin UnderIn(D, p) BY <2>1, <3>2, Transitive
    <3>5. QED BY <1>4, <1>5, <3>1, <3>3, <3>4
  <2>4. QED BY <2>1, <2>2, <2>3 DEF Rooted
<1>7. \A a, b \in LiveIn(R) : R[a].name = R[b].name => a = b BY <1>5 DEF Tree
<1>8. \A x \in Ids : ~R[x].exists => R[x] = NoDoc BY <1>3 DEF Tree
<1>9. QED BY <1>2, <1>4, <1>6, <1>7, <1>8 DEF Tree

-----------------------------------------------------------------------------
(* Names as requests send them.                                            *)

LEMMA NonEmptyIs ==
  ASSUME ProjectsAssumption, NEW raw \in Raw
  PROVE  /\ NonEmpty(raw) \in Seq(Parts \cup {Blank}) /\ Len(NonEmpty(raw)) \in 0..Len(raw)
         /\ raw \in Seq(Parts) => NonEmpty(raw) = raw
<1> DEFINE T == Parts \cup {Blank, Empty}
<1>1. raw \in Seq(T) BY DEF Raw
<1>2. T \ {Empty} = Parts \cup {Blank} BY ProjectsAssumption DEF ProjectsAssumption
<1> HIDE DEF T
<1>3. NonEmpty(raw) \in Seq(T \ {Empty}) /\ Len(NonEmpty(raw)) \in 0..Len(raw) BY <1>1, ExcludingIsFrom DEF NonEmpty
<1>4. ASSUME raw \in Seq(Parts) PROVE NonEmpty(raw) = raw
  <2>1. \A i \in 1..Len(raw) : raw[i] \notin {Empty} BY <1>4, ProjectsAssumption DEF ProjectsAssumption
  <2>2. QED BY <1>1, <2>1, ExcludingIsFrom DEF NonEmpty
<1>5. QED BY <1>2, <1>3, <1>4

LEMMA ValidatedIs ==
  ASSUME ProjectsAssumption, NEW raw \in Raw
  PROVE  /\ Validated(raw) \in Seq(Parts \cup {Empty}) /\ Len(Validated(raw)) = ProjectDepth(raw)
         /\ Validated(raw) \in Raw
         /\ raw \in Seq(Parts) => Validated(raw) = raw
<1> DEFINE parts == NonEmpty(raw)
<1>1. parts \in Seq(Parts \cup {Blank}) /\ (raw \in Seq(Parts) => parts = raw) BY NonEmptyIs
<1> HIDE DEF parts
<1>2. DOMAIN parts = 1..Len(parts) /\ Len(parts) \in Nat /\ \A i \in 1..Len(parts) : parts[i] \in Parts \cup {Blank}
  BY <1>1
<1>3. Validated(raw) = [i \in 1..Len(parts) |-> IF parts[i] = Blank THEN Empty ELSE parts[i]] BY <1>2 DEF Validated, parts
<1>4. \A i \in 1..Len(parts) : (IF parts[i] = Blank THEN Empty ELSE parts[i]) \in Parts \cup {Empty} BY <1>2
<1>5. Validated(raw) \in Seq(Parts \cup {Empty}) /\ Len(Validated(raw)) = Len(parts) BY <1>2, <1>3, <1>4
<1>6. ASSUME raw \in Seq(Parts) PROVE Validated(raw) = raw
  <2>1. parts = raw BY <1>1, <1>6
  <2>2. \A i \in 1..Len(raw) : raw[i] # Blank BY <1>6, ProjectsAssumption DEF ProjectsAssumption
  <2>3. Validated(raw) = [i \in 1..Len(raw) |-> raw[i]] BY <1>3, <2>1, <2>2
  <2>4. QED BY <1>6, <2>3
<1>7. Validated(raw) \in Raw BY <1>5 DEF Raw
<1>8. QED BY <1>5, <1>6, <1>7 DEF ProjectDepth, parts

LEMMA LocationIs ==
  ASSUME ProjectsAssumption, NEW name \in Seq(Parts \cup {Empty}), name # <<>>
  PROVE  /\ Location(name) \in Raw /\ Location(name) = Front(name) /\ Len(Location(name)) = Len(name) - 1
         /\ Len(NonEmpty(Location(name))) \in 0..(Len(name) - 1)
<1>1. Front(name) \in Seq(Parts \cup {Empty}) /\ Len(Front(name)) = Len(name) - 1 BY FrontAndLast
<1>2. Location(name) = Front(name) BY DEF Location
<1>3. Location(name) \in Raw BY <1>1, <1>2 DEF Raw
<1>4. Len(NonEmpty(Location(name))) \in 0..Len(Location(name)) BY <1>3, NonEmptyIs
<1>5. QED BY <1>1, <1>2, <1>3, <1>4

\* The name of a project under a parent, when the parent has the name its location says.
LEMMA SavedName ==
  ASSUME ProjectsAssumption, NEW name \in ProperNames, NEW parent \in CopyType, Front(name) = parent.name,
         Len(name) <= MaxDepth
  PROVE  name \in Names /\ name # <<>> /\ Len(name) = Len(parent.name) + 1
<1>1. name \in Seq(Parts \cup {Empty}) /\ name # <<>> /\ Last(name) # Empty BY DEF ProperNames
<1>2. parent.name \in Seq(Parts) /\ Len(parent.name) \in Nat BY DEF CopyType, Names
<1>3. /\ Len(Front(name)) = Len(name) - 1 /\ \A i \in 1..(Len(name) - 1) : Front(name)[i] = name[i]
      /\ Last(name) = name[Len(name)] /\ Last(name) \in Parts \cup {Empty}
  BY <1>1, FrontAndLast
<1>4. Len(name) \in Nat /\ Len(name) = Len(parent.name) + 1 BY <1>1, <1>2, <1>3
<1>5. \A i \in 1..Len(name) : name[i] \in Parts
  <2>1. ASSUME NEW i \in 1..(Len(name) - 1) PROVE name[i] \in Parts
    <3>1. name[i] = parent.name[i] /\ i \in 1..Len(parent.name) BY <1>3, <1>4
    <3>2. QED BY <1>2, <3>1
  <2>2. name[Len(name)] \in Parts BY <1>1, <1>3
  <2>3. QED BY <1>4, <2>1, <2>2
<1>6. name \in Seq(Parts)
  <2>1. name = [i \in 1..Len(name) |-> name[i]] BY <1>1
  <2>2. QED BY <1>4, <1>5, <2>1
<1>7. QED BY <1>1, <1>4, <1>6, ProjectsAssumption DEF Names, ProjectsAssumption

-----------------------------------------------------------------------------
(* Steps of one client among the others.                                   *)

LEMMA IdleCall == ASSUME ProjectsAssumption PROVE Idle \in Calls /\ TopLevel \in CopyType
<1>1. <<>> \in Seq(Parts) /\ Len(<<>>) = 0 /\ <<>> \in Seq(Ids) /\ <<>> \in Raw /\ <<>> \in Seq(ProperNames) BY DEF Raw
<1>2. <<>> \in Names BY <1>1, ProjectsAssumption DEF Names, ProjectsAssumption
<1>3. TopLevel \in CopyType BY <1>1, <1>2 DEF TopLevel, CopyType
<1>4. QED BY <1>1, <1>2, <1>3 DEF Idle, Calls

LEMMA IdlePhase == ASSUME NEW D, NEW h PROVE Phase(Idle, D, h)
BY DEF Phase, Idle

\* A request that does not move projects relies only on what nobody else changes.
LEMMA CreatorsKeep ==
  ASSUME NEW m, NEW D, NEW h, Phase(m, D, h), m.op \notin Moving, m.pc # "kids",
         NEW A, NEW g, LiveIn(D) \subseteq LiveIn(A), \A x \in LiveIn(D) : A[x] = D[x]
  PROVE  Phase(m, A, g)
<1>1. m.op \notin {"move", "merge", "update", "delete"} BY DEF Moving
<1>2. ASSUME Ensuring(m, D) PROVE Ensuring(m, A)
  <2>1. GoodParent(A, m.parent) BY <1>2 DEF Ensuring, GoodParent, CopyOf
  <2>2. QED BY <1>1, <1>2, <2>1 DEF Ensuring
<1>3. m.pc \notin {"kids", "disassociate", "delete"} BY <1>1 DEF Phase
<1>4. m.target \in LiveIn(D) => m.target \in LiveIn(A) OBVIOUS
<1>5. QED BY <1>1, <1>2, <1>3, <1>4 DEF Phase

LEMMA Started ==
  ASSUME TreeInv, NEW c \in Clients, NEW op, MayStart(c, op)
  PROVE  /\ Tree(projects) /\ call[c] = Idle
         /\ \A d \in Clients : call[d].op \notin Moving /\ call[d].pc # "kids"
         /\ op \in Moving => \A d \in Clients : call[d] = Idle
<1>1. \A d \in Clients : call[d].op \notin Moving
  <2>1. CASE op \in Moving BY <2>1 DEF MayStart, Idle, Moving
  <2>2. CASE op \notin Moving BY <2>2 DEF MayStart, Settled
  <2>3. QED BY <2>1, <2>2
<1>2. \A d \in Clients : call[d].pc # "kids" BY <1>1 DEF TreeInv, Phase, Moving
<1>3. Tree(projects) BY <1>2 DEF TreeInv, Whole
<1>4. QED BY <1>1, <1>2, <1>3 DEF MayStart

LEMMA Alone ==
  ASSUME TreeInv, NEW c \in Clients, call[c].pc # "idle"
  PROVE  /\ call[c] \in Calls /\ Phase(call[c], projects, home)
         /\ \A d \in Clients \ {c} : call[d].op \notin Moving /\ call[d].pc # "kids"
         /\ call[c].op \in Moving => \A d \in Clients \ {c} : call[d] = Idle
         /\ call[c].pc # "kids" => Tree(projects)
<1>1. call[c] \in Calls /\ Phase(call[c], projects, home) BY DEF TreeInv
<1>2. ASSUME NEW d \in Clients \ {c} PROVE call[d].op \notin Moving
  <2>1. ASSUME call[d].op \in Moving PROVE FALSE
    <3>1. call[c] = Idle BY <2>1 DEF TreeInv, OneMover
    <3>2. QED BY <3>1 DEF Idle
  <2>2. QED BY <2>1
<1>3. \A d \in Clients \ {c} : call[d].pc # "kids" BY <1>2 DEF TreeInv, Phase, Moving
<1>4. call[c].op \in Moving => \A d \in Clients \ {c} : call[d] = Idle BY DEF TreeInv, OneMover
<1>5. call[c].pc # "kids" => Tree(projects) BY <1>3 DEF TreeInv, Whole
<1>6. QED BY <1>1, <1>2, <1>3, <1>4, <1>5

\* What a step of client c has to show.
Others(c, m) ==
  /\ \A d \in Clients \ {c} : call[d].op \notin Moving /\ call[d].pc # "kids"
  /\ m.op \in Moving => \A d \in Clients \ {c} : call[d] = Idle

Extends(A, D) == LiveIn(D) \subseteq LiveIn(A) /\ \A x \in LiveIn(D) : A[x] = D[x]

LEMMA StepInv ==
  ASSUME ProjectsAssumption, TreeInv, NEW c \in Clients, NEW m \in Calls, Goto(c, m), Others(c, m),
         projects' \in [Ids -> Doc], m.pc # "kids" => Tree(projects'),
         HomesKnown', Phase(m, projects', home'),
         Extends(projects', projects) \/ \A d \in Clients \ {c} : call[d] = Idle
  PROVE  TreeInv'
<1>1. call \in [Clients -> Calls] /\ \A d \in Clients : Phase(call[d], projects, home) BY DEF TreeInv
<1>2. call' \in [Clients -> Calls] /\ call'[c] = m /\ \A d \in Clients \ {c} : call'[d] = call[d] BY <1>1 DEF Goto
<1>3. OneMover'
  <2>1. ASSUME NEW d \in Clients, NEW e \in Clients, call'[d].op \in Moving, e # d PROVE call'[e] = Idle
    <3>1. d = c BY <1>2, <2>1 DEF Others
    <3>2. QED BY <1>2, <2>1, <3>1 DEF Others
  <2>2. QED BY <2>1 DEF OneMover
<1>4. Whole' BY <1>2 DEF Whole
<1>5. ASSUME NEW d \in Clients PROVE Phase(call'[d], projects', home')
  <2>1. CASE d = c BY <1>2, <2>1
  <2>2. CASE d # c /\ call[d] = Idle BY <1>2, <2>2, IdlePhase
  <2>3. CASE d # c /\ Extends(projects', projects)
    <3>1. call[d].op \notin Moving /\ call[d].pc # "kids" /\ Phase(call[d], projects, home) BY <1>1, <2>3 DEF Others
    <3>2. Phase(call[d], projects', home') BY <2>3, <3>1, CreatorsKeep DEF Extends
    <3>3. QED BY <1>2, <2>3, <3>2
  <2>4. QED BY <2>1, <2>2, <2>3
<1>6. QED BY <1>2, <1>3, <1>4, <1>5 DEF TreeInv

\* A step that writes neither projects nor the homes of entities.
LEMMA QuietStepInv ==
  ASSUME ProjectsAssumption, TreeInv, NEW c \in Clients, NEW m \in Calls, Goto(c, m), Others(c, m),
         m.pc # "kids" => Tree(projects), Phase(m, projects, home), UNCHANGED <<projects, home>>
  PROVE  TreeInv'
<1>1. projects' = projects /\ home' = home /\ projects \in [Ids -> Doc] /\ HomesKnown BY DEF TreeInv
<1>2. HomesKnown' BY <1>1 DEF HomesKnown
<1>3. Extends(projects', projects) BY <1>1 DEF Extends
<1>4. projects' \in [Ids -> Doc] /\ (m.pc # "kids" => Tree(projects')) /\ Phase(m, projects', home') BY <1>1
<1>5. QED BY <1>2, <1>3, <1>4, StepInv

LEMMA ReturnInv ==
  ASSUME ProjectsAssumption, TreeInv, NEW c \in Clients, Return(c), Tree(projects), UNCHANGED <<projects, home>>,
         call[c].pc # "idle"
  PROVE  TreeInv'
<1>1. Idle \in Calls /\ Phase(Idle, projects, home) BY IdleCall, IdlePhase
<1>2. Others(c, Idle) BY Alone DEF Others, Idle, Moving
<1>3. QED BY <1>1, <1>2, QuietStepInv DEF Return

-----------------------------------------------------------------------------
(* Creating projects.                                                      *)

\* What the clients ask for.
LEMMA AskedNames ==
  ASSUME ProjectsAssumption, NEW c \in Clients
  PROVE  /\ Asks[c].create \subseteq Raw /\ Asks[c].under \subseteq Raw
         /\ Asks[c].move \subseteq Raw /\ Asks[c].rename \subseteq Raw /\ Asks[c].ids \subseteq Ids
BY DEF ProjectsAssumption, Raw

LEMMA BeginCreateInv ==
  ASSUME ProjectsAssumption, TreeInv, NEW c \in Clients, NEW raw \in Raw, NEW op \in {"create", "move_under"},
         NEW S \in SUBSET Entities, MayStart(c, op), BeginCreate(c, op, raw, S), UNCHANGED <<projects, home>>
  PROVE  TreeInv'
<1> DEFINE name == Validated(raw)
           m == [Idle EXCEPT !.op = op, !.pc = "ensure", !.want = Location(name), !.new = <<name>>, !.entities = S]
<1>1. /\ name \in Seq(Parts \cup {Empty}) /\ Len(name) = ProjectDepth(raw) BY ValidatedIs
<1>2. name # <<>> /\ Len(name) <= MaxDepth /\ Last(name) # Empty /\ Goto(c, m)
  BY <1>1 DEF BeginCreate, ProperBasename
<1> HIDE DEF name
<1>3. Location(name) \in Raw /\ Len(NonEmpty(Location(name))) \in 0..(Len(name) - 1) BY <1>1, <1>2, LocationIs
<1>4. <<name>> \in Seq(ProperNames) /\ Len(<<name>>) = 1
  <2>1. name \in ProperNames BY <1>1, <1>2 DEF ProperNames
  <2>2. QED BY <2>1
<1>5. m \in Calls BY <1>3, <1>4, IdleCall DEF Idle, Calls
<1>6. Others(c, m) BY Started DEF Others, Idle, Moving
<1>7. Tree(projects) BY Started
<1>8. Ensuring(m, projects)
  <2>1. m.pc = "ensure" /\ m.op = op /\ m.parent = TopLevel /\ m.want = Location(name) /\ m.new = <<name>> BY DEF Idle
  <2> HIDE DEF m
  <2>2. Len(NonEmpty(m.want)) + Len(m.new) <= MaxDepth
    <3>1. Len(name) \in Nat /\ Len(NonEmpty(Location(name))) <= Len(name) - 1 /\ Len(NonEmpty(Location(name))) \in Nat BY <1>1, <1>3
    <3>2. QED BY <1>2, <1>4, <2>1, <3>1, ProjectsAssumption DEF ProjectsAssumption
  <2>3. QED BY <2>1, <2>2 DEF Ensuring, Fits, GoodParent
<1>9. m.op = op /\ m.pc = "ensure" /\ m.kids = {} BY DEF Idle
<1>10. Phase(m, projects, home)
  <2> HIDE DEF m
  <2>1. QED BY <1>8, <1>9 DEF Phase
<1> HIDE DEF m
<1>11. QED BY <1>2, <1>5, <1>6, <1>7, <1>10, QuietStepInv

LEMMA CreateInv == ASSUME ProjectsAssumption, TreeInv, NEW c \in Clients, NEW raw \in Raw, Create(c, raw) PROVE TreeInv'
BY BeginCreateInv DEF Create

LEMMA MoveUnderInv ==
  ASSUME ProjectsAssumption, TreeInv, NEW c \in Clients, NEW raw \in Raw, NEW S \in SUBSET Entities, MoveUnder(c, raw, S)
  PROVE  TreeInv'
<1>1. CASE BeginCreate(c, "move_under", raw, S) BY <1>1, BeginCreateInv DEF MoveUnder
<1>2. ASSUME NEW p \in ByName(Validated(raw)),
             Goto(c, [Idle EXCEPT !.op = "move_under", !.pc = "assign", !.target = p, !.entities = S])
      PROVE  TreeInv'
  <2> DEFINE m == [Idle EXCEPT !.op = "move_under", !.pc = "assign", !.target = p, !.entities = S]
  <2>1. p \in LiveIn(projects) /\ p \in Ids BY DEF ByName, Live, LiveIn
  <2>2. m \in Calls BY <2>1, IdleCall DEF Idle, Calls
  <2>3. Others(c, m) BY Started DEF Others, Idle, Moving, MoveUnder
  <2>4. m.op = "move_under" /\ m.pc = "assign" /\ m.target = p /\ m.kids = {} BY DEF Idle
  <2>5. Tree(projects) /\ Goto(c, m) /\ UNCHANGED <<projects, home>> BY <1>2, Started DEF MoveUnder
  <2> HIDE DEF m
  <2>6. Phase(m, projects, home) BY <2>1, <2>4 DEF Phase
  <2>7. QED BY <2>2, <2>3, <2>5, <2>6, QuietStepInv
<1>3. QED BY <1>1, <1>2 DEF MoveUnder

LEMMA AssignInv == ASSUME ProjectsAssumption, TreeInv, NEW c \in Clients, Assign(c) PROVE TreeInv'
<1>1. call[c].pc = "assign" /\ projects' = projects /\ Goto(c, Idle) BY DEF Assign, Return
<1>2. Tree(projects) /\ Phase(call[c], projects, home) /\ Others(c, Idle) BY <1>1, Alone DEF Others, Idle, Moving
<1>3. call[c].target \in LiveIn(projects) BY <1>1, <1>2 DEF Phase
<1>4. HomesKnown'
  <2>1. call[c].target \in Ids BY <1>3 DEF LiveIn
  <2>2. HomesKnown BY DEF TreeInv
  <2>3. home' = [e \in Entities |-> IF e \in call[c].entities THEN call[c].target ELSE home[e]] BY DEF Assign
  <2>4. home' \in [Entities -> Ids \cup {NoProject, Gone}] BY <2>1, <2>2, <2>3 DEF HomesKnown
  <2>5. QED BY <1>1, <1>3, <2>2, <2>3, <2>4 DEF HomesKnown
<1>5. projects' \in [Ids -> Doc] /\ Extends(projects', projects) BY <1>1 DEF TreeInv, Extends
<1>6. Tree(projects') BY <1>1, <1>2
<1>7. QED BY <1>1, <1>2, <1>4, <1>5, <1>6, IdleCall, IdlePhase, StepInv

LEMMA FitsLess ==
  ASSUME ProjectsAssumption, NEW m \in Calls, NEW n \in Nat, NEW k \in Nat, k <= n, Fits(m, n)
  PROVE  Fits(m, k)
<1>1. MaxDepth \in Nat BY ProjectsAssumption DEF ProjectsAssumption
<1>2. CASE m.op # "move" BY <1>1, <1>2 DEF Fits
<1>3. CASE m.op = "move"
  <2>1. {m.self} \cup m.all \subseteq CopyType /\ Len(m.self.path) \in Nat BY DEF Calls, CopyType
  <2>2. \A x \in CopyType : Len(x.path) \in Nat BY DEF CopyType
  <2>3. \A x \in {m.self} \cup m.all : Len(x.path) + 1 + n <= MaxDepth + Len(m.self.path) BY <1>3 DEF Fits, DepthAllowed
  <2>4. \A x \in {m.self} \cup m.all : Len(x.path) + 1 + k <= MaxDepth + Len(m.self.path) BY <1>1, <2>1, <2>2, <2>3
  <2>5. QED BY <1>3, <2>4 DEF Fits, DepthAllowed
<1>4. QED BY <1>2, <1>3

\* A handler goes on looking for the parent, or has found it.
LEMMA LookingInv ==
  ASSUME ProjectsAssumption, TreeInv, NEW c \in Clients, call[c].pc = "ensure", NEW m \in Calls, Goto(c, m),
         m.pc \in {"ensure", "save"}, GoodParent(projects, m.parent), m.pc = "ensure" => m.parent = TopLevel,
         m.op = call[c].op, m.self = call[c].self, m.all = call[c].all, m.kids = call[c].kids,
         NEW n \in Nat, NEW k \in Nat, k <= n, Fits(call[c], n),
         m.pc = "ensure" => Len(NonEmpty(m.want)) + Len(m.new) = k,
         m.pc = "save" => Len(m.parent.name) + Len(m.new) = k,
         UNCHANGED <<projects, home>>
  PROVE  TreeInv'
<1>1. /\ call[c] \in Calls /\ Phase(call[c], projects, home) /\ Tree(projects) /\ Others(c, m) BY Alone DEF Others
<1>2. call[c].op \in {"create", "move_under", "move"} /\ Ensuring(call[c], projects) BY <1>1 DEF Phase
<1>3. Fits(call[c], k) BY <1>1, FitsLess
<1>4. Fits(m, k) BY <1>3 DEF Fits
<1>5. Ensuring(m, projects)
  <2>1. ASSUME m.op = "move", NEW q \in UnderIn(projects, m.self.id) PROVE CopyOf(projects, q) \in m.all
    <3>1. call[c].parent = TopLevel BY <1>2 DEF Ensuring
    <3>2. q \in Ids /\ q # NoProject BY ProjectsAssumption DEF UnderIn, LiveIn, ProjectsAssumption
    <3>3. ToSet(call[c].parent.path) = {} /\ call[c].parent.id = NoProject BY <3>1 DEF TopLevel, ToSet
    <3>4. QED BY <1>2, <2>1, <3>2, <3>3 DEF Ensuring
  <2>2. m.op = "move" => /\ m.self.id \in LiveIn(projects) /\ m.self = CopyOf(projects, m.self.id)
                         /\ m.all \subseteq {CopyOf(projects, q) : q \in UnderIn(projects, m.self.id)}
    BY <1>2 DEF Ensuring
  <2>3. QED BY <1>4, <2>1, <2>2 DEF Ensuring
<1>6. Phase(m, projects, home)
  <2>1. m.kids = {} BY <1>1 DEF Phase
  <2>2. QED BY <1>2, <1>5, <2>1 DEF Phase
<1>7. QED BY <1>1, <1>6, QuietStepInv

LEMMA LookUpInv == ASSUME ProjectsAssumption, TreeInv, NEW c \in Clients, LookUp(c) PROVE TreeInv'
<1> DEFINE m == call[c]
           name == Validated(m.want)
           n == Len(NonEmpty(m.want)) + Len(m.new)
<1>1. m.pc = "ensure" /\ UNCHANGED <<projects, home>> BY DEF LookUp
<1>2. m \in Calls /\ Phase(m, projects, home) /\ Tree(projects) BY <1>1, Alone
<1>3. Ensuring(m, projects) /\ Fits(m, n) BY <1>1, <1>2 DEF Phase, Ensuring
<1>4. m.want \in Raw /\ m.new \in Seq(ProperNames) /\ Len(m.new) \in Nat BY <1>2 DEF Calls
<1>5. name \in Seq(Parts \cup {Empty}) /\ Len(name) = Len(NonEmpty(m.want)) /\ Len(name) \in Nat
  BY <1>4, ValidatedIs DEF ProjectDepth
<1>11. Len(NonEmpty(m.want)) \in Nat /\ n \in Nat /\ Len(m.new) <= n
  <2> DEFINE u == Len(m.new)
             v == Len(NonEmpty(m.want))
  <2>1. v \in Nat /\ u \in Nat BY <1>4, <1>5
  <2>2. n = v + u OBVIOUS
  <2> HIDE DEF u, v, n
  <2>3. v \in Nat /\ n \in Nat /\ u <= n BY <2>1, <2>2
  <2>4. QED BY <2>3 DEF u, v
<1>6. CASE Return(c) BY <1>1, <1>2, <1>6, ReturnInv
<1>7. CASE Goto(c, [m EXCEPT !.pc = "save", !.parent = TopLevel])
  <2> DEFINE r == [m EXCEPT !.pc = "save", !.parent = TopLevel]
  <2>1. r \in Calls BY <1>2, IdleCall DEF Calls
  <2>2. r.pc = "save" /\ r.op = m.op /\ r.self = m.self /\ r.all = m.all /\ r.kids = m.kids /\ r.new = m.new
        /\ r.parent = TopLevel BY <1>2 DEF Calls
  <2>3. Len(r.parent.name) = 0 BY <2>2 DEF TopLevel
  <2>4. Goto(c, r) BY <1>7
  <2> HIDE DEF r, n
  <2>5. GoodParent(projects, r.parent) BY <2>2 DEF GoodParent
  <2>6. n \in Nat /\ Len(m.new) <= n BY <1>11
  <2>7. Len(r.parent.name) + Len(r.new) = Len(m.new) BY <1>4, <2>2, <2>3
  <2>8. QED BY <1>1, <1>3, <1>4, <2>1, <2>2, <2>4, <2>5, <2>6, <2>7, LookingInv
<1>8. ASSUME NEW p \in ByName(name), Goto(c, [m EXCEPT !.pc = "save", !.parent = Copy(p)]) PROVE TreeInv'
  <2> DEFINE r == [m EXCEPT !.pc = "save", !.parent = Copy(p)]
  <2>1. p \in Ids /\ p \in LiveIn(projects) /\ projects[p].name = name BY DEF ByName, Live, LiveIn
  <2>2. Copy(p) = CopyOf(projects, p) /\ Copy(p).name = name /\ Copy(p).id = p BY <2>1 DEF Copy, CopyOf
  <2>3. Copy(p) \in CopyType
    <3>1. projects[p].name \in Names /\ projects[p].path \in Seq(Ids) BY <1>2, <2>1, DocFields DEF Tree
    <3>2. QED BY <2>1, <3>1 DEF Copy, CopyType
  <2>4. r \in Calls BY <1>2, <2>3 DEF Calls
  <2>5. r.pc = "save" /\ r.op = m.op /\ r.self = m.self /\ r.all = m.all /\ r.kids = m.kids /\ r.new = m.new
        /\ r.parent = Copy(p) BY <1>2 DEF Calls
  <2>6. Goto(c, r) BY <1>8
  <2> HIDE DEF r, n
  <2>7. GoodParent(projects, r.parent) BY <2>1, <2>2, <2>5 DEF GoodParent
  <2>11. Len(r.parent.name) = Len(NonEmpty(m.want)) /\ Len(r.new) = Len(m.new) BY <1>5, <2>2, <2>5
  <2>8. n \in Nat /\ Len(r.parent.name) + Len(r.new) = n BY <1>11, <2>11 DEF n
  <2>9. n <= n BY <2>8
  <2>10. QED BY <1>1, <1>3, <2>4, <2>5, <2>6, <2>7, <2>8, <2>9, LookingInv
<1>9. ASSUME ~NoName(name), ProperBasename(name), Goto(c, [m EXCEPT !.want = Location(name), !.new = <<name>> \o @])
      PROVE  TreeInv'
  <2> DEFINE r == [m EXCEPT !.want = Location(name), !.new = <<name>> \o @]
  <2>1. name # <<>> /\ Last(name) # Empty BY <1>9 DEF NoName, ProperBasename
  <2>2. Location(name) \in Raw /\ Len(NonEmpty(Location(name))) \in 0..(Len(name) - 1) BY <1>5, <2>1, LocationIs
  <2>3. <<name>> \o m.new \in Seq(ProperNames) /\ Len(<<name>> \o m.new) = 1 + Len(m.new)
    <3>1. name \in ProperNames BY <1>5, <2>1 DEF ProperNames
    <3> HIDE DEF m, name
    <3>2. QED BY <1>4, <3>1
  <2>4. r \in Calls BY <1>2, <2>2, <2>3 DEF Calls
  <2>5. r.pc = "ensure" /\ r.op = m.op /\ r.self = m.self /\ r.all = m.all /\ r.kids = m.kids /\ r.new = <<name>> \o m.new
        /\ r.want = Location(name) /\ r.parent = m.parent BY <1>1, <1>2 DEF Calls
  <2>6. Goto(c, r) BY <1>9
  <2> DEFINE k == Len(NonEmpty(r.want)) + Len(r.new)
  <2> HIDE DEF r
  <2>7. k \in Nat /\ k <= n /\ n \in Nat
    <3> DEFINE l == Len(NonEmpty(Location(name)))
               u == Len(m.new)
               v == Len(NonEmpty(m.want))
    <3>1. l \in Nat /\ u \in Nat /\ v \in Nat /\ l <= v - 1 BY <1>4, <1>5, <1>11, <2>2
    <3>2. k = l + (1 + u) /\ n = v + u BY <2>3, <2>5
    <3> HIDE DEF l, u, v, k, n
    <3>3. QED BY <3>1, <3>2
  <2>8. r.parent = TopLevel /\ GoodParent(projects, r.parent) BY <1>1, <1>3, <2>5 DEF Ensuring
  <2> HIDE DEF n
  <2>9. Len(NonEmpty(r.want)) + Len(r.new) = k OBVIOUS
  <2> HIDE DEF k
  <2>10. QED BY <1>1, <1>3, <2>4, <2>5, <2>6, <2>7, <2>8, <2>9, LookingInv
<1>10. QED BY <1>6, <1>7, <1>8, <1>9 DEF LookUp

LEMMA SaveNewFailsInv == ASSUME ProjectsAssumption, TreeInv, NEW c \in Clients, SaveNewFails(c) PROVE TreeInv'
<1>1. call[c].pc = "save" /\ Return(c) /\ UNCHANGED <<projects, home>> BY DEF SaveNewFails
<1>2. Tree(projects) BY <1>1, Alone
<1>3. QED BY <1>1, <1>2, ReturnInv

\* The new projects have room.
LEMMA FitsDepth ==
  ASSUME ProjectsAssumption, NEW m \in Calls, NEW n \in Nat, Fits(m, n)
  PROVE  n <= MaxDepth
<1>1. MaxDepth \in Nat BY ProjectsAssumption DEF ProjectsAssumption
<1>2. CASE m.op # "move" BY <1>2 DEF Fits
<1>3. CASE m.op = "move"
  <2>1. Len(m.self.path) \in Nat BY DEF Calls, CopyType
  <2>2. Len(m.self.path) + 1 + n <= MaxDepth + Len(m.self.path) BY <1>3 DEF Fits, DepthAllowed
  <2>3. QED BY <1>1, <2>1, <2>2
<1>4. QED BY <1>2, <1>3

\* One more project, under the parent that was found or has just been created.
SavesNew(m, D, p, name, doc, A, r) ==
  /\ Tree(D) /\ Ensuring(m, D) /\ m.pc = "save" /\ m.new # <<>>
  /\ p \in Ids /\ p \notin LiveIn(D)
  /\ doc = UnderParent(name, m.parent) /\ doc \in Doc /\ doc.name = name /\ Len(name) = Len(m.parent.name) + 1
  /\ A = [D EXCEPT ![p] = doc] /\ LiveIn(A) = LiveIn(D) \cup {p}
  /\ r.op = m.op /\ r.self = m.self /\ r.all = m.all /\ r.pc = "save" /\ r.new = Tail(m.new)
  /\ r.parent = [id |-> p, name |-> name, path |-> doc.path]

LEMMA SavedEnsuring ==
  ASSUME ProjectsAssumption, NEW m \in Calls, NEW r \in Calls, NEW D, NEW p, NEW name, NEW doc, NEW A,
         SavesNew(m, D, p, name, doc, A, r)
  PROVE  Ensuring(r, A)
<1> USE DEF SavesNew
<1>1. D \in [Ids -> Doc] /\ (\A x \in LiveIn(D) : x \in Ids /\ x # p /\ x # NoProject)
  BY ProjectsAssumption DEF Tree, LiveIn, ProjectsAssumption
<1>2. A[p] = doc /\ \A x \in LiveIn(D) : A[x] = D[x] BY <1>1
<1>3. GoodParent(A, r.parent)
  <2>1. r.parent.id = p /\ r.parent = [id |-> p, name |-> A[p].name, path |-> A[p].path] BY <1>2
  <2>2. p \in LiveIn(A) OBVIOUS
  <2>3. QED BY <2>1, <2>2 DEF GoodParent, CopyOf
<1>4. Len(r.parent.name) + Len(r.new) = Len(m.parent.name) + Len(m.new)
  <2>1. m.new \in Seq(ProperNames) /\ Len(m.parent.name) \in Nat BY DEF Calls, CopyType, Names
  <2>2. Len(Tail(m.new)) = Len(m.new) - 1 /\ Len(m.new) \in Nat BY <2>1
  <2>3. Len(r.new) = Len(m.new) - 1 /\ Len(r.parent.name) = Len(m.parent.name) + 1 BY <2>2
  <2> DEFINE u == Len(m.new)
             v == Len(m.parent.name)
             w == Len(r.new)
             x == Len(r.parent.name)
  <2>4. u \in Nat /\ v \in Nat /\ w = u - 1 /\ x = v + 1 BY <2>1, <2>2, <2>3
  <2>5. x + w = v + u
    <3> HIDE DEF u, v, w, x
    <3>1. QED BY <2>4
  <2>6. QED BY <2>5
<1>5. Fits(r, Len(r.parent.name) + Len(r.new)) BY <1>4 DEF Ensuring, Fits
<1>6. ASSUME m.op = "move"
      PROVE  /\ r.self.id \in LiveIn(A) /\ r.self = CopyOf(A, r.self.id)
             /\ r.all \subseteq {CopyOf(A, q) : q \in UnderIn(A, r.self.id)}
             /\ \A q \in UnderIn(A, r.self.id) : CopyOf(A, q) \in r.all \/ q = r.parent.id \/ q \in ToSet(r.parent.path)
  <2>1. m.self.id \in LiveIn(D) /\ m.self = CopyOf(D, m.self.id) BY <1>6 DEF Ensuring
  <2>2. \A q \in LiveIn(D) : CopyOf(A, q) = CopyOf(D, q) BY <1>2 DEF CopyOf
  <2>3. \A s, q : q \in UnderIn(D, s) => q \in UnderIn(A, s) BY <1>2 DEF UnderIn
  <2>4. \A s, q : q \in UnderIn(A, s) => q = p \/ q \in UnderIn(D, s) BY <1>2 DEF UnderIn
  <2>5. r.all \subseteq {CopyOf(A, q) : q \in UnderIn(A, r.self.id)}
    <3>1. m.all \subseteq {CopyOf(D, q) : q \in UnderIn(D, m.self.id)} BY <1>6 DEF Ensuring
    <3>2. ASSUME NEW k \in m.all PROVE \E q \in UnderIn(A, m.self.id) : k = CopyOf(A, q)
      <4>1. PICK q \in UnderIn(D, m.self.id) : k = CopyOf(D, q) BY <3>1
      <4>2. q \in LiveIn(D) BY DEF UnderIn
      <4>3. QED BY <2>2, <2>3, <4>1, <4>2
    <3>3. r.all = m.all /\ r.self = m.self OBVIOUS
    <3>4. \A k \in m.all : k \in {CopyOf(A, q) : q \in UnderIn(A, m.self.id)} BY <3>2
    <3>5. QED BY <3>3, <3>4, Zenon
  <2>6. ASSUME NEW q \in UnderIn(A, m.self.id), q # p, CopyOf(A, q) \notin m.all PROVE q \in ToSet(doc.path)
    <3>1. q \in UnderIn(D, m.self.id) /\ q \in LiveIn(D) BY <2>4, <2>6 DEF UnderIn
    <3>2. CopyOf(D, q) \notin m.all BY <2>2, <2>6, <3>1
    <3>3. q = m.parent.id \/ q \in ToSet(m.parent.path) BY <1>6, <3>1, <3>2 DEF Ensuring
    <3>4. m.parent \in CopyType /\ m.parent.path \in Seq(Ids) BY DEF Calls, CopyType
    <3>5. m.parent.id # NoProject
      <4>1. CASE q = m.parent.id BY <1>1, <3>1, <4>1
      <4>2. CASE q \in ToSet(m.parent.path)
        <5>1. m.parent # TopLevel BY <4>2 DEF TopLevel, ToSet
        <5>2. QED BY <1>1, <5>1 DEF Ensuring, GoodParent
      <4>3. QED BY <3>3, <4>1, <4>2
    <3>6. doc.path = Append(m.parent.path, m.parent.id) BY <3>5 DEF UnderParent
    <3>7. m.parent.id \in Ids BY <3>4, <3>5 DEF CopyType
    <3> DEFINE s == m.parent.path
               last == m.parent.id
    <3>8. s \in Seq(Ids) /\ last \in Ids BY <3>4, <3>7
    <3>9. Append(s, last) \in Seq(Ids) /\ Len(Append(s, last)) = Len(s) + 1 /\ Len(s) \in Nat
          /\ Append(s, last)[Len(s) + 1] = last /\ \A i \in 1..Len(s) : Append(s, last)[i] = s[i] BY <3>8
    <3>10. q = last \/ \E i \in 1..Len(s) : q = s[i] BY <3>3, <3>8, ToSetIs
    <3>11. \E i \in 1..Len(Append(s, last)) : q = Append(s, last)[i]
      <4> HIDE DEF s, last
      <4>1. CASE q = last BY <3>9, <4>1
      <4>2. CASE \E i \in 1..Len(s) : q = s[i] BY <3>9, <4>2
      <4>3. QED BY <3>10, <4>1, <4>2
    <3>12. q \in ToSet(Append(s, last))
      <4> DEFINE t == Append(s, last)
      <4>1. t \in Seq(Ids) /\ \E i \in 1..Len(t) : q = t[i] BY <3>9, <3>11
      <4> HIDE DEF t
      <4>2. q \in ToSet(t) BY <4>1, ToSetIs
      <4>3. QED BY <4>2 DEF t
    <3>13. QED BY <3>6, <3>12
  <2>7. r.self = m.self /\ r.all = m.all /\ r.parent.id = p /\ r.parent.path = doc.path OBVIOUS
  <2>8. m.self.id \in LiveIn(A) /\ m.self = CopyOf(A, m.self.id) BY <2>1, <2>2
  <2>9. QED BY <2>5, <2>6, <2>7, <2>8
<1>7. r.op = m.op /\ r.pc = "save" OBVIOUS
<1>8. QED BY <1>3, <1>5, <1>6, <1>7 DEF Ensuring

\* A new project: it has a parent, its name is free and it fits.
Adds(D, p, name, parent, A) ==
  /\ Tree(D) /\ GoodParent(D, parent)
  /\ p \in Ids /\ p \notin LiveIn(D)
  /\ name \in Names /\ name # <<>> /\ Front(name) = parent.name
  /\ \A x \in LiveIn(D) : D[x].name # name
  /\ A = [D EXCEPT ![p] = UnderParent(name, parent)]

LEMMA SaveNewAdds ==
  ASSUME ProjectsAssumption, TreeInv, NEW c \in Clients, SaveNew(c)
  PROVE  LET m == call[c]
             name == Head(m.new)
             doc == UnderParent(name, m.parent)
         IN  \E p \in Ids :
               /\ Adds(projects, p, name, m.parent, projects')
               /\ IF Len(m.new) > 1 \/ m.op = "move"
                    THEN Goto(c, [m EXCEPT !.new = Tail(@), !.target = p,
                                           !.parent = [id |-> p, name |-> name, path |-> doc.path]])
                    ELSE IF m.op = "move_under" THEN Goto(c, [m EXCEPT !.pc = "assign", !.target = p]) ELSE Return(c)
<1> DEFINE m == call[c]
           name == Head(m.new)
           doc == UnderParent(name, m.parent)
           After(p) == IF Len(m.new) > 1 \/ m.op = "move"
                        THEN Goto(c, [m EXCEPT !.new = Tail(@), !.target = p,
                                               !.parent = [id |-> p, name |-> name, path |-> doc.path]])
                        ELSE IF m.op = "move_under" THEN Goto(c, [m EXCEPT !.pc = "assign", !.target = p]) ELSE Return(c)
<1>1. m.pc = "save" /\ m.new # <<>> BY DEF SaveNew
<1>2. PICK p \in Ids :
        FreshId(p) /\ MaySave(name, m.parent, p) /\ projects' = [projects EXCEPT ![p] = doc] /\ After(p)
  BY DEF SaveNew
<1>3. m \in Calls /\ Phase(m, projects, home) /\ Tree(projects) BY <1>1, Alone
<1>5. Ensuring(m, projects) BY <1>1, <1>3 DEF Phase
<1>6. /\ m.new \in Seq(ProperNames) /\ Len(m.new) \in Nat /\ Len(m.new) # 0 /\ name \in ProperNames
      /\ m.parent \in CopyType /\ Len(m.parent.name) \in Nat
  BY <1>1, <1>3 DEF Calls, CopyType, Names
<1> HIDE DEF m, name, After
<1>7. GoodParent(projects, m.parent) /\ Front(name) = m.parent.name BY <1>2, <1>5 DEF Ensuring, MaySave
<1>8. p \notin LiveIn(projects) /\ \A x \in LiveIn(projects) : projects[x].name # name
  BY <1>2 DEF FreshId, Unused, MaySave, NameFree, ByName, Live, LiveIn
<1>9. name \in Names /\ name # <<>>
  <2>1. Len(m.parent.name) + Len(m.new) <= MaxDepth
    <3> DEFINE n == Len(m.parent.name) + Len(m.new)
    <3>1. n \in Nat
      <4> DEFINE u == Len(m.new)
                 v == Len(m.parent.name)
      <4>1. u \in Nat /\ v \in Nat /\ n = v + u BY <1>6
      <4> HIDE DEF u, v, n
      <4>2. QED BY <4>1
    <3>2. Fits(m, n) BY <1>1, <1>5 DEF Ensuring
    <3> HIDE DEF n
    <3>3. n <= MaxDepth BY <1>3, <3>1, <3>2, FitsDepth
    <3>4. QED BY <3>3 DEF n
  <2>2. name \in Seq(Parts \cup {Empty}) /\ name # <<>> BY <1>6 DEF ProperNames
  <2>3. Len(Front(name)) = Len(name) - 1 /\ Len(name) \in Nat BY <2>2, FrontAndLast
  <2>4. Len(name) <= MaxDepth BY <1>6, <1>7, <2>1, <2>3, ProjectsAssumption DEF ProjectsAssumption
  <2>5. QED BY <1>6, <1>7, <2>4, SavedName
<1>10. Adds(projects, p, name, m.parent, projects') BY <1>2, <1>3, <1>7, <1>8, <1>9 DEF Adds
<1>11. QED BY <1>2, <1>10 DEF m, name, After

LEMMA SaveNewInv == ASSUME ProjectsAssumption, TreeInv, NEW c \in Clients, SaveNew(c) PROVE TreeInv'
<1> DEFINE m == call[c]
           name == Head(m.new)
           doc == UnderParent(name, m.parent)
<1>1. m.pc = "save" /\ m.new # <<>> /\ home' = home BY DEF SaveNew
<1>2. PICK p \in Ids :
        /\ Adds(projects, p, name, m.parent, projects')
        /\ IF Len(m.new) > 1 \/ m.op = "move"
             THEN Goto(c, [m EXCEPT !.new = Tail(@), !.target = p, !.parent = [id |-> p, name |-> name, path |-> doc.path]])
             ELSE IF m.op = "move_under" THEN Goto(c, [m EXCEPT !.pc = "assign", !.target = p]) ELSE Return(c)
  BY SaveNewAdds
<1>3. m \in Calls /\ Phase(m, projects, home) /\ Tree(projects) BY <1>1, Alone
<1>4. \A r : r.op = m.op => Others(c, r) BY <1>1, Alone DEF Others
<1>5. Ensuring(m, projects) /\ m.op \in {"create", "move_under", "move"} /\ m.kids = {} BY <1>1, <1>3 DEF Phase
<1>6. Tail(m.new) \in Seq(ProperNames) /\ name \in ProperNames /\ m.parent \in CopyType
  BY <1>1, <1>3 DEF Calls
<1> HIDE DEF m, name, doc
<1>7. GoodParent(projects, m.parent) /\ Front(name) = m.parent.name BY <1>2 DEF Adds
<1>8. p \notin LiveIn(projects) /\ \A x \in LiveIn(projects) : projects[x].name # name BY <1>2 DEF Adds
<1>9. name \in Names /\ name # <<>> /\ Len(name) = Len(m.parent.name) + 1
  <2>1. name \in Names /\ name # <<>> BY <1>2 DEF Adds
  <2>2. Len(name) <= MaxDepth BY <2>1, ProjectsAssumption DEF Names, ProjectsAssumption
  <2>3. QED BY <1>6, <1>7, <2>1, <2>2, SavedName
<1>10. doc \in Doc /\ doc.name = name /\ doc = UnderParent(name, m.parent)
  BY <1>3, <1>7, <1>9, PathBelow DEF doc
<1>11. projects' = [projects EXCEPT ![p] = UnderParent(name, m.parent)] BY <1>2 DEF Adds
<1>12. Tree(projects') /\ LiveIn(projects') = LiveIn(projects) \cup {p} /\ Extends(projects', projects)
  <2>1. Tree(projects') BY <1>3, <1>7, <1>8, <1>9, <1>11, AddedTree
  <2>2. LiveIn(projects') = LiveIn(projects) \cup {p}
    <3>1. projects \in [Ids -> Doc] /\ doc.exists BY <1>3, <1>10 DEF Tree, UnderParent
    <3>2. projects' = [projects EXCEPT ![p] = doc] BY <1>10, <1>11
    <3>3. QED BY <3>1, <3>2 DEF LiveIn
  <2>3. \A x \in LiveIn(projects) : projects'[x] = projects[x] BY <1>3, <1>7, <1>8, <1>9, <1>11, AddedTree
  <2>4. QED BY <2>1, <2>2, <2>3 DEF Extends
<1>13. projects' \in [Ids -> Doc] /\ HomesKnown'
  <2>1. HomesKnown BY DEF TreeInv
  <2>2. QED BY <1>1, <1>12, <2>1 DEF HomesKnown, Tree
<1>14. ASSUME NEW r \in Calls, Goto(c, r), r.op = m.op \/ r = Idle, Phase(r, projects', home') PROVE TreeInv'
  <2>1. Others(c, r)
    <3>1. CASE r.op = m.op BY <1>4, <3>1
    <3>2. CASE r = Idle BY <1>4, <3>2 DEF Others, Idle, Moving
    <3>3. QED BY <1>14, <3>1, <3>2
  <2>2. QED BY <1>12, <1>13, <1>14, <2>1, StepInv
<1>15. CASE Len(m.new) > 1 \/ m.op = "move"
  <2> DEFINE r == [m EXCEPT !.new = Tail(@), !.target = p, !.parent = [id |-> p, name |-> name, path |-> doc.path]]
  <2>1. [id |-> p, name |-> name, path |-> doc.path] \in CopyType BY <1>9, <1>10 DEF CopyType, Doc
  <2>2. r \in Calls BY <1>3, <1>6, <2>1 DEF Calls
  <2>3. /\ r.op = m.op /\ r.self = m.self /\ r.all = m.all /\ r.pc = "save" /\ r.new = Tail(m.new) /\ r.kids = m.kids
        /\ r.parent = [id |-> p, name |-> name, path |-> doc.path] BY <1>1, <1>3 DEF Calls
  <2>4. Goto(c, r) BY <1>2, <1>15
  <2> HIDE DEF r
  <2>5. name = Head(m.new) BY DEF name
  <2>6. projects' = [projects EXCEPT ![p] = doc] BY <1>10, <1>11
  <2>7. Ensuring(r, projects')
    <3>1. Tree(projects) /\ Ensuring(m, projects) /\ m.pc = "save" /\ m.new # <<>> /\ m \in Calls
      BY <1>1, <1>3, <1>5
    <3>2. doc.name = name /\ Len(name) = Len(m.parent.name) + 1 BY <1>9, <1>10
    <3>3. doc \in Doc /\ doc = UnderParent(name, m.parent) BY <1>10
    <3>4. p \notin LiveIn(projects) /\ LiveIn(projects') = LiveIn(projects) \cup {p} BY <1>8, <1>12
    <3>5. r.op = m.op /\ r.self = m.self /\ r.all = m.all /\ r.pc = "save" /\ r.new = Tail(m.new) BY <2>3
    <3>6. r.parent = [id |-> p, name |-> name, path |-> doc.path] BY <2>3
    <3>7. SavesNew(m, projects, p, name, doc, projects', r)
      BY <2>5, <2>6, <3>1, <3>2, <3>3, <3>4, <3>5, <3>6 DEF SavesNew
    <3>8. QED BY <2>2, <3>1, <3>7, SavedEnsuring
  <2>8. Phase(r, projects', home') BY <1>5, <2>3, <2>7 DEF Phase
  <2>9. QED BY <1>14, <2>2, <2>3, <2>4, <2>8
<1>16. CASE ~(Len(m.new) > 1 \/ m.op = "move") /\ m.op = "move_under"
  <2> DEFINE r == [m EXCEPT !.pc = "assign", !.target = p]
  <2>1. r \in Calls BY <1>3 DEF Calls
  <2>2. r.op = m.op /\ r.pc = "assign" /\ r.target = p /\ r.kids = m.kids BY <1>3 DEF Calls
  <2>3. Goto(c, r) BY <1>2, <1>16
  <2> HIDE DEF r
  <2>4. Phase(r, projects', home') BY <1>5, <1>12, <1>16, <2>2 DEF Phase
  <2>5. QED BY <1>14, <2>1, <2>2, <2>3, <2>4
<1>17. CASE ~(Len(m.new) > 1 \/ m.op = "move") /\ m.op # "move_under"
  <2>1. Goto(c, Idle) BY <1>2, <1>17 DEF Return
  <2>2. QED BY <1>14, <2>1, IdleCall, IdlePhase
<1>18. QED BY <1>15, <1>16, <1>17

-----------------------------------------------------------------------------
(* Moving and renaming a subtree.                                          *)

LEMMA NothingToRename == ASSUME NEW m, NEW D, D \in [Ids -> Doc], m.kids = {} PROVE Finished(m, D) = D
BY DEF Finished

LEMMA CopyFields ==
  ASSUME NEW D, D \in [Ids -> Doc], NEW x \in Ids
  PROVE  /\ CopyOf(D, x) \in CopyType /\ CopyOf(D, x).id = x
         /\ CopyOf(D, x).name = D[x].name /\ CopyOf(D, x).path = D[x].path
BY DocFields DEF CopyOf, CopyType

LEMMA SameCopies ==
  ASSUME NEW D, NEW A, NEW S, NEW x, CopyOf(A, x) \in {CopyOf(D, q) : q \in S}
  PROVE  x \in S
BY DEF CopyOf

\* A kid keeps its path when the path of its ancestor stays.
LEMMA PathStays ==
  ASSUME NEW D, Tree(D), NEW p \in LiveIn(D), NEW x \in UnderIn(D, p)
  PROVE  RepathedKid(CopyOf(D, x), D[p].path, D[p].path) = D[x].path
<1> DEFINE s == D[p].path
           t == D[x].path
           k == Len(s)
<1>1. x \in Ids /\ p \in Ids /\ D \in [Ids -> Doc] BY DEF Tree, LiveIn, UnderIn
<1>2. s \in Seq(Ids) /\ t \in Seq(Ids) BY <1>1, DocFields
<1>3. k \in Nat /\ k + 1 \in 1..Len(t) /\ \A j \in 1..k : t[j] = s[j] BY Position
<1>4. RepathedKid(CopyOf(D, x), s, s) = Graft(s, t, k) BY DEF RepathedKid, CopyOf, Graft
<1>11. k = Len(s) OBVIOUS
<1> HIDE DEF s, t, k
<1>5. k <= Len(t) /\ Len(t) \in Nat BY <1>2, <1>3
<1>6. /\ Graft(s, t, k) \in Seq(Ids) /\ Len(Graft(s, t, k)) = Len(s) + Len(t) - k
      /\ \A i \in 1..Len(s) : Graft(s, t, k)[i] = s[i]
      /\ \A i \in (Len(s) + 1)..Len(Graft(s, t, k)) : Graft(s, t, k)[i] = t[i - (Len(s) - k)]
  BY <1>2, <1>3, <1>5, Grafted
<1>7. Len(Graft(s, t, k)) = Len(t) BY <1>3, <1>5, <1>6, <1>11
<1>8. \A i \in 1..Len(t) : Graft(s, t, k)[i] = t[i]
  <2>1. ASSUME NEW i \in 1..k PROVE Graft(s, t, k)[i] = t[i] BY <1>3, <1>5, <1>6, <1>11
  <2>2. ASSUME NEW i \in (k + 1)..Len(t) PROVE Graft(s, t, k)[i] = t[i]
    <3>1. i \in (Len(s) + 1)..Len(Graft(s, t, k)) BY <1>7, <1>11
    <3>2. Graft(s, t, k)[i] = t[i - (Len(s) - k)] BY <1>6, <3>1
    <3>3. i - (Len(s) - k) = i BY <1>3, <1>11
    <3>4. QED BY <3>2, <3>3
  <2>3. \A i \in 1..Len(t) : i \in 1..k \/ i \in (k + 1)..Len(t) BY <1>3, <1>5
  <2>4. QED BY <2>1, <2>2, <2>3
<1>9. Graft(s, t, k) = t BY <1>2, <1>6, <1>7, <1>8, SameSeq
<1>10. QED BY <1>4, <1>9 DEF s, t, k

\* The save of the project itself: what is left to write finishes the move.
Repositioned(D, p, name, parent, A, r) ==
  /\ MoveAllowed(D, p, name, parent)
  /\ A = [D EXCEPT ![p] = UnderParent(name, parent)]
  /\ r.kids = {CopyOf(D, q) : q \in UnderIn(D, p)}
  /\ r.self = CopyOf(D, p) /\ r.name = name
  /\ UnderParent(name, parent).path = IF r.op = "update" THEN D[p].path ELSE r.path

LEMMA RepositionedIs ==
  ASSUME ProjectsAssumption, NEW D, NEW p, NEW name, NEW parent, NEW A, NEW r, Repositioned(D, p, name, parent, A, r)
  PROVE  /\ A \in [Ids -> Doc] /\ LiveIn(A) = LiveIn(D) /\ Finished(r, A) = Moved(D, p, name, parent)
         /\ Renaming(r, A)
<1> DEFINE doc == UnderParent(name, parent)
           M == Moved(D, p, name, parent)
<1>1. /\ MoveAllowed(D, p, name, parent) /\ Tree(D) /\ p \in LiveIn(D) /\ p \in Ids /\ D \in [Ids -> Doc]
      /\ GoodParent(D, parent) /\ name \in Names /\ name # <<>> /\ Front(name) = parent.name
  BY DEF Repositioned, MoveAllowed, Tree, LiveIn
<1>2. doc \in Doc /\ doc.exists /\ doc.name = name BY <1>1, PathBelow
<1>3. A = [D EXCEPT ![p] = doc] BY DEF Repositioned
<1>4. A \in [Ids -> Doc] /\ A[p] = doc /\ \A x \in Ids : x # p => A[x] = D[x] BY <1>1, <1>2, <1>3
<1>5. LiveIn(A) = LiveIn(D)
  <2>1. A[p].exists BY <1>2, <1>4
  <2>3. \A x \in Ids : A[x].exists <=> D[x].exists
    <3>1. D[p].exists BY <1>1 DEF LiveIn
    <3>2. QED BY <1>4, <2>1, <3>1
  <2>4. QED BY <2>3 DEF LiveIn
<1>6. ASSUME NEW x \in UnderIn(D, p) PROVE x \in LiveIn(D) /\ x \in Ids /\ x # p /\ A[x] = D[x] /\ CopyOf(A, x) = CopyOf(D, x)
  <2>1. x \in LiveIn(D) /\ x \in Ids /\ x # p BY <1>1, Position DEF LiveIn, UnderIn
  <2>2. QED BY <1>4, <2>1 DEF CopyOf
<1>7. /\ r.kids = {CopyOf(D, q) : q \in UnderIn(D, p)} /\ r.name = name /\ r.self.name = D[p].name
      /\ r.self.path = D[p].path /\ doc.path = IF r.op = "update" THEN D[p].path ELSE r.path
  BY DEF Repositioned, CopyOf
<1>8. \A x \in Ids : CopyOf(A, x) \in r.kids <=> x \in UnderIn(D, p)
  <2>1. ASSUME NEW x \in Ids, CopyOf(A, x) \in r.kids PROVE x \in UnderIn(D, p) BY <1>7, <2>1, SameCopies
  <2>2. ASSUME NEW x \in UnderIn(D, p) PROVE CopyOf(A, x) \in r.kids BY <1>6, <1>7
  <2>3. QED BY <2>1, <2>2
<1> HIDE DEF doc
<1>9. Finished(r, A) = M
  <2> DEFINE New(x) == [A[x] EXCEPT !.name = RenamedKid(CopyOf(A, x), r.name, r.self.name),
                                    !.path = IF r.op = "update" THEN @ ELSE RepathedKid(CopyOf(A, x), r.path, r.self.path)]
             Kid(x) == [D[x] EXCEPT !.name = RenamedKid(CopyOf(D, x), name, D[p].name),
                                    !.path = RepathedKid(CopyOf(D, x), doc.path, D[p].path)]
  <2>1. Finished(r, A) = [x \in Ids |-> IF CopyOf(A, x) \in r.kids THEN New(x) ELSE A[x]] BY DEF Finished
  <2>2. M = [x \in Ids |-> IF x = p THEN doc ELSE IF x \in UnderIn(D, p) THEN Kid(x) ELSE D[x]]
    BY DEF Moved, doc
  <2>3. ASSUME NEW x \in UnderIn(D, p) PROVE New(x) = Kid(x)
    <3>1. A[x] = D[x] /\ CopyOf(A, x) = CopyOf(D, x) /\ x \in Ids BY <1>6
    <3>2. (IF r.op = "update" THEN D[x].path ELSE RepathedKid(CopyOf(A, x), r.path, r.self.path))
            = RepathedKid(CopyOf(D, x), doc.path, D[p].path)
      <4>1. CASE r.op = "update" BY <1>1, <1>7, <4>1, PathStays
      <4>2. CASE r.op # "update" BY <1>7, <3>1, <4>2
      <4>3. QED BY <4>1, <4>2
    <3>3. D[x] = [exists |-> D[x].exists, name |-> D[x].name, parent |-> D[x].parent, path |-> D[x].path]
      BY <1>1, <3>1, DocFields
    <3>4. RenamedKid(CopyOf(A, x), r.name, r.self.name) = RenamedKid(CopyOf(D, x), name, D[p].name) BY <1>7, <3>1
    <3> DEFINE u == IF r.op = "update" THEN D[x].path ELSE RepathedKid(CopyOf(A, x), r.path, r.self.path)
               v == RenamedKid(CopyOf(A, x), r.name, r.self.name)
    <3>5. New(x) = [D[x] EXCEPT !.name = v, !.path = u] BY <3>1, <3>3
    <3>6. QED BY <3>2, <3>4, <3>5
  <2> HIDE DEF New, Kid, M
  <2>4. ASSUME NEW x \in Ids
        PROVE  (IF CopyOf(A, x) \in r.kids THEN New(x) ELSE A[x])
                 = IF x = p THEN doc ELSE IF x \in UnderIn(D, p) THEN Kid(x) ELSE D[x]
    <3>1. CASE x = p
      <4>1. p \notin UnderIn(D, p) BY <1>6
      <4>2. QED BY <1>4, <1>8, <3>1, <4>1
    <3>2. CASE x # p BY <1>4, <1>8, <2>3, <3>2
    <3>3. QED BY <3>1, <3>2
  <2>5. QED BY <2>1, <2>2, <2>4
<1>10. Tree(M) /\ M[p].name = name /\ LiveIn(M) = LiveIn(D)
  <2>1. Tree(M) BY <1>1, MovedTree
  <2>2. M[p] = UnderParent(name, parent) /\ LiveIn(M) = LiveIn(D) BY <1>1, MovedOthers
  <2>3. QED BY <1>2, <2>1, <2>2 DEF doc
<1>11. ASSUME NEW k \in r.kids
       PROVE  /\ k.id \in LiveIn(A) /\ k = CopyOf(A, k.id) /\ Len(r.self.name) < Len(k.name)
              /\ Len(r.self.path) < Len(k.path) /\ Len(k.path) < MaxDepth
  <2>1. PICK x \in UnderIn(D, p) : k = CopyOf(D, x) BY <1>7
  <2>2. x \in LiveIn(D) /\ x \in Ids /\ CopyOf(A, x) = CopyOf(D, x) BY <1>6
  <2>3. k.id = x /\ k.name = D[x].name /\ k.path = D[x].path BY <2>1 DEF CopyOf
  <2>4. /\ Len(D[p].path) + 1 \in 1..Len(D[x].path) /\ Len(D[p].name) = Len(D[p].path) + 1
        /\ Len(D[x].name) = Len(D[x].path) + 1 /\ Len(D[p].path) \in Nat
    BY <1>1, Position
  <2>5. Len(D[x].path) \in Nat BY <1>1, <2>2, DocFields
  <2>6. Len(D[p].path) < Len(D[x].path) /\ Len(D[p].name) < Len(D[x].name) BY <2>4, <2>5
  <2>8. Len(D[x].path) < MaxDepth
    <3>1. Len(D[x].name) \in 0..MaxDepth /\ MaxDepth \in Nat BY <1>1, <2>2, DocFields, ProjectsAssumption DEF ProjectsAssumption
    <3>2. QED BY <2>4, <2>5, <3>1
  <2>7. QED BY <1>5, <1>7, <2>1, <2>2, <2>3, <2>6, <2>8
<1>12. ASSUME NEW k \in r.kids, NEW x \in LiveIn(A) \ {k.id} PROVE A[x].name # M[k.id].name
  <2>1. PICK y \in UnderIn(D, p) : k = CopyOf(D, y) BY <1>7
  <2>2. k.id = y /\ y \in LiveIn(D) /\ y # p /\ x \in LiveIn(D) /\ x # y /\ x \in Ids
    BY <1>5, <1>6, <2>1 DEF CopyOf, LiveIn
  <2>3. CASE x = p
    <3>1. M[p].name # M[y].name BY <1>10, <2>2, <2>3 DEF Tree
    <3>2. QED BY <1>2, <1>4, <1>10, <2>2, <2>3, <3>1
  <2>4. CASE x # p
    <3>1. A[x] = D[x] BY <1>4, <2>2, <2>4
    <3>2. ASSUME D[x].name = M[y].name PROVE FALSE
      <4>1. x = y BY <1>1, <2>1, <2>2, <3>2, MovedNames
      <4>2. QED BY <2>2, <4>1
    <3>3. QED BY <2>2, <3>1, <3>2
  <2>5. QED BY <2>3, <2>4
<1> HIDE DEF M
<1>13. Renaming(r, A) BY <1>9, <1>10, <1>11, <1>12 DEF Renaming
<1>14. QED BY <1>4, <1>5, <1>9, <1>13 DEF M

\* The request goes on to the sub projects.
LEMMA RepositionInv ==
  ASSUME ProjectsAssumption, TreeInv, NEW c \in Clients, \A d \in Clients \ {c} : call[d] = Idle,
         NEW p, NEW name, NEW parent, NEW r \in Calls, r.pc = "kids", r.op \in {"move", "update"},
         Repositioned(projects, p, name, parent, projects', r), Goto(c, r), home' = home
  PROVE  TreeInv'
<1>1. projects' \in [Ids -> Doc] /\ LiveIn(projects') = LiveIn(projects) /\ Renaming(r, projects')
  BY RepositionedIs
<1>2. HomesKnown' BY <1>1 DEF HomesKnown, TreeInv
<1>3. Phase(r, projects', home') BY <1>1 DEF Phase
<1>4. Others(c, r)
  <2>1. Idle.op \notin Moving /\ Idle.pc # "kids" BY DEF Idle, Moving
  <2>2. QED BY <2>1 DEF Others
<1>5. QED BY <1>1, <1>2, <1>3, <1>4, StepInv

LEMMA MoveInv ==
  ASSUME ProjectsAssumption, TreeInv, NEW c \in Clients, NEW p \in Ids, NEW raw \in Raw, Move(c, p, raw)
  PROVE  TreeInv'
<1> DEFINE kids == {Copy(q) : q \in SubProjects(p)}
           m == [Idle EXCEPT !.op = "move", !.pc = "ensure", !.want = raw, !.self = Copy(p), !.all = kids]
<1>1. /\ MayStart(c, "move") /\ p \in LiveIn(projects) /\ Goto(c, m) /\ UNCHANGED <<projects, home>>
      /\ DepthAllowed({Copy(p)} \cup kids, Len(projects[p].path), ProjectDepth(raw))
  BY DEF Move, Live, LiveIn
<1>2. Tree(projects) /\ projects \in [Ids -> Doc] /\ Others(c, m) BY <1>1, Started DEF Others, Idle, Moving, Tree
<1>3. kids = {CopyOf(projects, q) : q \in UnderIn(projects, p)} /\ Copy(p) = CopyOf(projects, p)
  BY DEF Copy, CopyOf, SubProjects, UnderIn, Live, LiveIn
<1>4. kids \subseteq CopyType /\ Copy(p) \in CopyType
  <2>1. \A q \in UnderIn(projects, p) : CopyOf(projects, q) \in CopyType BY <1>2, CopyFields DEF UnderIn, LiveIn
  <2>2. CopyOf(projects, p) \in CopyType BY <1>2, CopyFields
  <2>3. QED BY <1>3, <2>1, <2>2
<1>5. m \in Calls BY <1>4, IdleCall DEF Idle, Calls
<1>6. /\ m.op = "move" /\ m.pc = "ensure" /\ m.want = raw /\ m.self = Copy(p) /\ m.all = kids /\ m.kids = {}
      /\ m.parent = TopLevel /\ m.new = <<>>
  BY DEF Idle
<1> HIDE DEF m, kids
<1>7. Ensuring(m, projects)
  <2>1. Len(NonEmpty(m.want)) + Len(m.new) = ProjectDepth(raw)
    <3>1. Len(NonEmpty(raw)) \in Nat BY NonEmptyIs
    <3>2. Len(m.new) = 0 BY <1>6
    <3>3. Len(NonEmpty(m.want)) = ProjectDepth(raw) BY <1>6 DEF ProjectDepth
    <3>4. ProjectDepth(raw) \in Nat BY <3>1 DEF ProjectDepth
    <3>5. QED BY <3>2, <3>3, <3>4
  <2>2. Copy(p).path = projects[p].path /\ Copy(p).id = p BY DEF Copy
  <2>3. Fits(m, Len(NonEmpty(m.want)) + Len(m.new)) BY <1>1, <1>6, <2>1, <2>2 DEF Fits
  <2>4. \A q \in UnderIn(projects, p) : CopyOf(projects, q) \in m.all BY <1>3, <1>6
  <2>5. GoodParent(projects, m.parent) BY <1>6 DEF GoodParent
  <2>6. m.self.id = p /\ m.self = CopyOf(projects, p) /\ m.all = {CopyOf(projects, q) : q \in UnderIn(projects, p)}
    BY <1>3, <1>6, <2>2
  <2>7. QED BY <1>1, <1>6, <2>3, <2>4, <2>5, <2>6 DEF Ensuring
<1>8. Phase(m, projects, home) BY <1>6, <1>7 DEF Phase
<1>9. QED BY <1>1, <1>2, <1>5, <1>8, QuietStepInv

\* Where there is room for it, a project may be moved under a parent that is not below it.
LEMMA RoomToMove ==
  ASSUME ProjectsAssumption, NEW D, Tree(D), NEW p \in LiveIn(D), NEW parent, GoodParent(D, parent),
         parent.id # p, p \notin ToSet(parent.path),
         NEW name, name = Append(parent.name, Last(D[p].name)), Front(name) = parent.name,
         \A x \in LiveIn(D) : D[x].name = name => x = p,
         \A x \in {p} \cup UnderIn(D, p) : Len(D[x].path) + 1 + Len(parent.name) <= MaxDepth + Len(D[p].path)
  PROVE  MoveAllowed(D, p, name, parent)
<1>1. D \in [Ids -> Doc] /\ p \in Ids /\ MaxDepth \in Nat
  BY ProjectsAssumption DEF Tree, LiveIn, ProjectsAssumption
<1>2. D[p].path \in Seq(Ids) /\ D[p].name \in Seq(Parts) /\ Len(D[p].name) = Len(D[p].path) + 1 /\ Len(D[p].path) \in Nat
  <2>1. D[p].path \in Seq(Ids) /\ D[p].name \in Seq(Parts) BY <1>1, DocFields
  <2>2. Len(D[p].name) = Len(D[p].path) + 1 BY DEF Tree, Rooted
  <2>3. QED BY <2>1, <2>2
<1>3. parent.name \in Seq(Parts) /\ Len(parent.name) \in Nat
  <2>1. CASE parent = TopLevel BY <2>1 DEF TopLevel
  <2>2. CASE parent.id \in LiveIn(D) /\ parent = CopyOf(D, parent.id)
    <3>1. parent.name = D[parent.id].name /\ parent.id \in Ids BY <2>2 DEF CopyOf, LiveIn
    <3>2. D[parent.id].name \in Seq(Parts) BY <1>1, <3>1, DocFields
    <3>3. QED BY <3>1, <3>2
  <2>3. QED BY <2>1, <2>2 DEF GoodParent
<1>4. name \in Seq(Parts) /\ name # <<>> /\ Len(name) = Len(parent.name) + 1
  <2>1. Len(D[p].name) # 0 /\ D[p].name # <<>> BY <1>2
  <2>2. Last(D[p].name) \in Parts BY <1>2, <2>1, FrontAndLast
  <2>3. QED BY <1>3, <2>2
<1>5. name \in Names
  <2>1. Len(D[p].path) + 1 + Len(parent.name) <= MaxDepth + Len(D[p].path) OBVIOUS
  <2>2. Len(name) <= MaxDepth
    <3> DEFINE u == Len(D[p].path)
               v == Len(parent.name)
               w == Len(name)
    <3>1. u \in Nat /\ v \in Nat /\ w = v + 1 /\ u + 1 + v <= MaxDepth + u BY <1>2, <1>3, <1>4, <2>1
    <3> HIDE DEF u, v, w
    <3>2. w <= MaxDepth BY <1>1, <3>1
    <3>3. QED BY <3>2 DEF w
  <2>3. QED BY <1>1, <1>3, <1>4, <2>2 DEF Names
<1>6. ASSUME NEW x \in UnderIn(D, p) PROVE Len(D[x].name) - Len(D[p].name) + Len(name) <= MaxDepth
  <2>1. Len(D[x].path) + 1 + Len(parent.name) <= MaxDepth + Len(D[p].path) OBVIOUS
  <2>2. x \in LiveIn(D) /\ x \in Ids BY DEF UnderIn, LiveIn
  <2>3. Len(D[x].name) = Len(D[x].path) + 1 /\ Len(D[x].path) \in Nat BY <1>1, <2>2, DocFields DEF Tree, Rooted
  <2> DEFINE u == Len(D[p].path)
             v == Len(parent.name)
             w == Len(name)
             x1 == Len(D[x].path)
             x2 == Len(D[x].name)
             u2 == Len(D[p].name)
  <2>4. /\ u \in Nat /\ v \in Nat /\ w = v + 1 /\ x1 \in Nat /\ x2 = x1 + 1 /\ u2 = u + 1
        /\ x1 + 1 + v <= MaxDepth + u
    BY <1>2, <1>3, <1>4, <2>1, <2>3
  <2> HIDE DEF u, v, w, x1, x2, u2
  <2>5. x2 - u2 + w <= MaxDepth BY <1>1, <2>4
  <2>6. QED BY <2>5 DEF x2, u2, w
<1>7. QED BY <1>4, <1>5, <1>6 DEF MoveAllowed

\* The move of the project itself, unless it is refused.
MovesProject(m, D, A, r) ==
  LET p == m.self.id
      name == Append(m.parent.name, Last(D[p].name))
  IN  /\ Repositioned(D, p, name, m.parent, A, r)
      /\ r \in Calls /\ r.op = "move" /\ r.pc = "kids"

LEMMA MoveEnsuredMoves ==
  ASSUME ProjectsAssumption, TreeInv, NEW c \in Clients, MoveEnsured(c)
  PROVE  /\ call[c].pc = "save" /\ home' = home /\ Tree(projects) /\ \A d \in Clients \ {c} : call[d] = Idle
         /\ \/ Return(c) /\ projects' = projects
            \/ \E r \in Calls : MovesProject(call[c], projects, projects', r) /\ Goto(c, r)
<1> DEFINE m == call[c]
           p == m.self.id
           name == Append(m.parent.name, Last(m.self.name))
           doc == UnderParent(name, m.parent)
           next == [m EXCEPT !.all = {}]
           r == [next EXCEPT !.pc = "kids", !.self = m.self, !.kids = m.all, !.name = name, !.path = doc.path]
<1>1. m.pc = "save" /\ m.op = "move" /\ m.new = <<>> /\ home' = home BY DEF MoveEnsured
<1>2. m \in Calls /\ Phase(m, projects, home) /\ Tree(projects) /\ \A d \in Clients \ {c} : call[d] = Idle
  BY <1>1, Alone DEF Moving
<1>3. Ensuring(m, projects) BY <1>1, <1>2 DEF Phase
<1>5. CASE ~UnderItself(p, m.parent) /\ MaySave(name, m.parent, p) /\ projects' = [projects EXCEPT ![p] = doc] /\ Goto(c, r)
  <2> DEFINE D == projects
  <2>1. p \in LiveIn(D) /\ m.self = CopyOf(D, p) /\ m.self.name = D[p].name /\ m.self.path = D[p].path
    BY <1>1, <1>3 DEF Ensuring, CopyOf
  <2>2. GoodParent(D, m.parent) /\ m.parent.id # p /\ p \notin ToSet(m.parent.path) BY <1>3, <1>5 DEF Ensuring, UnderItself
  <2>3. Front(name) = m.parent.name /\ \A x \in LiveIn(D) : D[x].name = name => x = p
    BY <1>5 DEF MaySave, NameFree, ByName, Live, LiveIn
  <2>4. ASSUME NEW x \in UnderIn(D, p) PROVE CopyOf(D, x) \in m.all
    <3>1. x \in Ids /\ x # NoProject /\ x \in LiveIn(D) BY ProjectsAssumption DEF UnderIn, LiveIn, ProjectsAssumption
    <3>2. CASE x = m.parent.id
      <4>1. m.parent = CopyOf(D, x) BY <2>2, <3>1, <3>2 DEF GoodParent, TopLevel
      <4>2. p \in ToSet(m.parent.path) BY <4>1 DEF UnderIn, CopyOf
      <4>3. QED BY <2>2, <4>2
    <3>3. CASE x \in ToSet(m.parent.path)
      <4>1. m.parent # TopLevel BY <3>3 DEF TopLevel, ToSet
      <4>2. m.parent.id \in LiveIn(D) /\ m.parent.path = D[m.parent.id].path BY <2>2, <4>1 DEF GoodParent, CopyOf
      <4>3. m.parent.id \in UnderIn(D, x) BY <3>3, <4>2 DEF UnderIn
      <4>4. m.parent.id \in UnderIn(D, p) BY <1>2, <4>3, Transitive
      <4>5. QED BY <2>2, <4>2, <4>4 DEF UnderIn
    <3>4. QED BY <1>1, <1>3, <3>2, <3>3 DEF Ensuring
  <2>5. m.all = {CopyOf(D, q) : q \in UnderIn(D, p)}
    <3>1. m.all \subseteq {CopyOf(D, q) : q \in UnderIn(D, p)} BY <1>1, <1>3 DEF Ensuring
    <3> HIDE DEF D, m, p
    <3>2. QED BY <2>4, <3>1
  <2>6. \A x \in {p} \cup UnderIn(D, p) : Len(D[x].path) + 1 + Len(m.parent.name) <= MaxDepth + Len(D[p].path)
    <3>1. Fits(m, Len(m.parent.name))
      <4>1. Len(m.new) = 0 BY <1>1
      <4>2. Len(m.parent.name) \in Nat BY <1>2 DEF Calls, CopyType, Names
      <4>3. Fits(m, Len(m.parent.name) + Len(m.new)) BY <1>1, <1>3 DEF Ensuring
      <4>4. Len(m.parent.name) + Len(m.new) = Len(m.parent.name) BY <4>1, <4>2
      <4> HIDE DEF m
      <4>5. QED BY <4>3, <4>4
    <3>2. \A k \in {m.self} \cup m.all : Len(k.path) + 1 + Len(m.parent.name) <= MaxDepth + Len(D[p].path)
      BY <1>1, <2>1, <3>1 DEF Fits, DepthAllowed
    <3>3. \A x : CopyOf(D, x).path = D[x].path BY DEF CopyOf
    <3>4. \A x \in {p} \cup UnderIn(D, p) : CopyOf(D, x) \in {m.self} \cup m.all BY <2>1, <2>4
    <3> HIDE DEF D, m, p
    <3>5. ASSUME NEW x \in {p} \cup UnderIn(D, p)
          PROVE  Len(D[x].path) + 1 + Len(m.parent.name) <= MaxDepth + Len(D[p].path)
      <4>1. Len(CopyOf(D, x).path) + 1 + Len(m.parent.name) <= MaxDepth + Len(D[p].path) BY <3>2, <3>4
      <4>2. QED BY <3>3, <4>1
    <3>6. QED BY <3>5
  <2>7. MoveAllowed(D, p, name, m.parent)
    <3>1. name = Append(m.parent.name, Last(D[p].name)) BY <2>1
    <3> HIDE DEF D, m, p, name
    <3>2. QED BY <1>2, <2>1, <2>2, <2>3, <2>6, <3>1, RoomToMove DEF D
  <2>8. name \in Names /\ doc \in Doc
    <3>1. name \in Names /\ name # <<>> /\ Front(name) = m.parent.name BY <2>7 DEF MoveAllowed
    <3>2. QED BY <1>2, <2>2, <3>1, PathBelow
  <2>9. r \in Calls
    <3>1. doc.path \in Seq(Ids) BY <2>8 DEF Doc
    <3> HIDE DEF doc, name
    <3>2. m.self \in CopyType /\ m.all \in SUBSET CopyType /\ name \in Names BY <1>2, <2>8 DEF Calls
    <3>3. QED BY <1>2, <3>1, <3>2 DEF Calls
  <2>10. r.pc = "kids" /\ r.op = "move" /\ r.self = m.self /\ r.kids = m.all /\ r.name = name /\ r.path = doc.path
    <3> HIDE DEF doc, name
    <3>1. QED BY <1>1, <1>2 DEF Calls
  <2>11. Goto(c, r) BY <1>5
  <2> HIDE DEF r
  <2>12. Repositioned(D, p, name, m.parent, projects', r) BY <1>5, <2>1, <2>5, <2>7, <2>10 DEF Repositioned
  <2>13. name = Append(m.parent.name, Last(D[p].name)) BY <2>1
  <2> HIDE DEF name
  <2>14. MovesProject(m, D, projects', r) BY <2>9, <2>10, <2>12, <2>13 DEF MovesProject
  <2>15. QED BY <1>1, <1>2, <2>9, <2>11, <2>14
<1>6. (Return(c) /\ projects' = projects)
        \/ (~UnderItself(p, m.parent) /\ MaySave(name, m.parent, p) /\ projects' = [projects EXCEPT ![p] = doc] /\ Goto(c, r))
  BY DEF MoveEnsured, Reposition
<1>7. QED BY <1>1, <1>2, <1>5, <1>6

LEMMA MoveEnsuredInv == ASSUME ProjectsAssumption, TreeInv, NEW c \in Clients, MoveEnsured(c) PROVE TreeInv'
<1>1. /\ call[c].pc = "save" /\ home' = home /\ Tree(projects) /\ \A d \in Clients \ {c} : call[d] = Idle
      /\ \/ Return(c) /\ projects' = projects
         \/ \E r \in Calls : MovesProject(call[c], projects, projects', r) /\ Goto(c, r)
  BY MoveEnsuredMoves
<1>2. CASE Return(c) /\ projects' = projects BY <1>1, <1>2, ReturnInv
<1>3. ASSUME NEW r \in Calls, MovesProject(call[c], projects, projects', r), Goto(c, r) PROVE TreeInv'
  BY <1>1, <1>3, RepositionInv DEF MovesProject
<1>4. QED BY <1>1, <1>2, <1>3

-----------------------------------------------------------------------------
(* One sub project after the other.                                        *)

\* The write of one document is a write that Finished foresees.
KidWritten(m, D, kid, A, r) ==
  /\ Renaming(m, D) /\ kid \in m.kids
  /\ A = [D EXCEPT ![kid.id] = Finished(m, D)[kid.id]]
  /\ r = [m EXCEPT !.kids = @ \ {kid}]

\* What becomes of a sub project that is still to be written.
KidForeseen(m, D, kid) ==
  LET name == RenamedKid(kid, m.name, m.self.name)
      F == Finished(m, D)[kid.id]
  IN  /\ kid.id \in LiveIn(D) /\ kid.id \in Ids /\ kid = CopyOf(D, kid.id)
      /\ F \in Doc /\ F.exists /\ F.name = name /\ F.parent = D[kid.id].parent
      /\ F = [D[kid.id] EXCEPT !.name = name,
                               !.path = IF m.op = "update" THEN @ ELSE RepathedKid(kid, m.path, m.self.path)]
      /\ \A x \in LiveIn(D) \ {kid.id} : D[x].name # name

LEMMA KidFinished ==
  ASSUME NEW m \in Calls, NEW D, D \in [Ids -> Doc], NEW kid \in m.kids, Renaming(m, D)
  PROVE  KidForeseen(m, D, kid)
<1>1. kid.id \in LiveIn(D) /\ kid.id \in Ids /\ kid = CopyOf(D, kid.id) BY DEF Renaming, LiveIn
<1>2. Finished(m, D)[kid.id] =
        [D[kid.id] EXCEPT !.name = RenamedKid(kid, m.name, m.self.name),
                          !.path = IF m.op = "update" THEN @ ELSE RepathedKid(kid, m.path, m.self.path)]
  BY <1>1 DEF Finished
<1>3. Finished(m, D)[kid.id] \in Doc BY <1>1 DEF Renaming, Tree
<1>4. D[kid.id] = [exists |-> D[kid.id].exists, name |-> D[kid.id].name, parent |-> D[kid.id].parent, path |-> D[kid.id].path]
      /\ D[kid.id].exists
  BY <1>1, DocFields DEF LiveIn
<1>5. /\ Finished(m, D)[kid.id].exists /\ Finished(m, D)[kid.id].name = RenamedKid(kid, m.name, m.self.name)
      /\ Finished(m, D)[kid.id].parent = D[kid.id].parent
  BY <1>2, <1>4
<1>6. \A x \in LiveIn(D) \ {kid.id} : D[x].name # Finished(m, D)[kid.id].name BY DEF Renaming
<1>7. QED BY <1>1, <1>2, <1>3, <1>5, <1>6 DEF KidForeseen

LEMMA KidWrittenIs ==
  ASSUME NEW m \in Calls, NEW D, D \in [Ids -> Doc], NEW kid, NEW A, NEW r, KidWritten(m, D, kid, A, r)
  PROVE  /\ A \in [Ids -> Doc] /\ LiveIn(A) = LiveIn(D) /\ Finished(r, A) = Finished(m, D)
         /\ Renaming(r, A)
<1> DEFINE F == Finished(m, D)
           p == kid.id
<1>1. Renaming(m, D) /\ kid \in m.kids /\ A = [D EXCEPT ![p] = F[p]] /\ r = [m EXCEPT !.kids = @ \ {kid}]
  BY DEF KidWritten
<1>2. p \in LiveIn(D) /\ p \in Ids /\ kid = CopyOf(D, p) /\ F[p] \in Doc /\ F[p].exists
  <2>1. KidForeseen(m, D, kid) BY <1>1, KidFinished
  <2>2. QED BY <2>1 DEF KidForeseen
<1>3. r.kids = m.kids \ {kid} /\ r.op = m.op /\ r.name = m.name /\ r.path = m.path /\ r.self = m.self BY <1>1 DEF Calls
<1> HIDE DEF F, p
<1>4. A \in [Ids -> Doc] /\ A[p] = F[p] /\ \A x \in Ids : x # p => A[x] = D[x] BY <1>1, <1>2
<1>5. LiveIn(A) = LiveIn(D)
  <2>1. A[p].exists /\ D[p].exists BY <1>2, <1>4 DEF LiveIn
  <2>2. \A x \in Ids : A[x].exists <=> D[x].exists BY <1>4, <2>1
  <2>3. QED BY <2>2 DEF LiveIn
<1>6. \A k \in m.kids : k = CopyOf(D, k.id) /\ k.id \in Ids /\ k.id \in LiveIn(D) BY <1>1 DEF Renaming, LiveIn
<1>7. \A k \in r.kids : k \in m.kids /\ k.id # p BY <1>2, <1>3, <1>6
<1>8. \A x \in Ids : x # p => CopyOf(A, x) = CopyOf(D, x) /\ (CopyOf(A, x) \in r.kids <=> CopyOf(D, x) \in m.kids)
  <2>1. ASSUME NEW x \in Ids, x # p PROVE CopyOf(A, x) = CopyOf(D, x) /\ CopyOf(D, x) # kid
    <3>1. CopyOf(D, x).id = x /\ kid.id = p BY DEF CopyOf, p
    <3>2. QED BY <1>4, <2>1, <3>1 DEF CopyOf
  <2>2. QED BY <1>3, <2>1
<1>9. CopyOf(A, p) \notin r.kids
  <2>1. CopyOf(A, p).id = p BY DEF CopyOf
  <2>2. QED BY <1>7, <2>1
<1>10. Finished(r, A) = F
  <2> DEFINE New(x) == [A[x] EXCEPT !.name = RenamedKid(CopyOf(A, x), r.name, r.self.name),
                                    !.path = IF r.op = "update" THEN @ ELSE RepathedKid(CopyOf(A, x), r.path, r.self.path)]
             Old(x) == [D[x] EXCEPT !.name = RenamedKid(CopyOf(D, x), m.name, m.self.name),
                                    !.path = IF m.op = "update" THEN @ ELSE RepathedKid(CopyOf(D, x), m.path, m.self.path)]
  <2>1. Finished(r, A) = [x \in Ids |-> IF CopyOf(A, x) \in r.kids THEN New(x) ELSE A[x]] BY DEF Finished
  <2>2. F = [x \in Ids |-> IF CopyOf(D, x) \in m.kids THEN Old(x) ELSE D[x]] BY DEF Finished, F
  <2>3. ASSUME NEW x \in Ids, x # p PROVE New(x) = Old(x)
    <3>1. A[x] = D[x] /\ CopyOf(A, x) = CopyOf(D, x) BY <1>4, <1>8, <2>3
    <3>2. QED BY <1>3, <3>1
  <2> HIDE DEF New, Old
  <2>4. ASSUME NEW x \in Ids
        PROVE  (IF CopyOf(A, x) \in r.kids THEN New(x) ELSE A[x]) = F[x]
    <3>1. CASE x = p BY <1>4, <1>9, <3>1
    <3>2. CASE x # p BY <1>4, <1>8, <2>2, <2>3, <3>2
    <3>3. QED BY <3>1, <3>2
  <2>5. F = [x \in Ids |-> F[x]] BY <2>2
  <2>6. QED BY <2>1, <2>4, <2>5
<1>11. Tree(F) /\ LiveIn(F) = LiveIn(D)
  <2>1. Tree(F) BY <1>1 DEF Renaming, F
  <2>2. ASSUME NEW x \in Ids PROVE F[x].exists <=> D[x].exists
    <3>1. CASE CopyOf(D, x) \in m.kids
      <4>1. CopyOf(D, x).id = x BY DEF CopyOf
      <4>2. F[x].exists /\ x \in LiveIn(D)
        <5>1. CopyOf(D, x) \in m.kids BY <3>1
        <5> DEFINE k == CopyOf(D, x)
        <5>2. k \in m.kids /\ k.id = x BY <5>1, <4>1
        <5> HIDE DEF k
        <5>5. KidForeseen(m, D, k) BY <1>1, <5>2, KidFinished
        <5>3. Finished(m, D)[k.id].exists /\ k.id \in LiveIn(D) BY <5>5 DEF KidForeseen
        <5>4. QED BY <5>2, <5>3 DEF F
      <4>3. QED BY <4>2 DEF LiveIn
    <3>2. CASE CopyOf(D, x) \notin m.kids BY <3>2 DEF F, Finished
    <3>3. QED BY <3>1, <3>2
  <2>3. QED BY <2>1, <2>2 DEF LiveIn
<1>12. ASSUME NEW k \in r.kids
       PROVE  /\ k.id \in LiveIn(A) /\ k = CopyOf(A, k.id) /\ Len(r.self.name) < Len(k.name)
              /\ Len(k.path) < MaxDepth
              /\ r.op # "update" => Len(r.self.path) < Len(k.path)
  <2>1. k \in m.kids /\ k.id # p BY <1>7
  <2>2. k.id \in Ids /\ k.id \in LiveIn(D) /\ k = CopyOf(D, k.id) BY <1>6, <2>1
  <2>3. /\ Len(m.self.name) < Len(k.name) /\ Len(k.path) < MaxDepth
        /\ m.op # "update" => Len(m.self.path) < Len(k.path)
    BY <1>1, <2>1 DEF Renaming
  <2>4. QED BY <1>3, <1>5, <1>8, <2>1, <2>2, <2>3
<1>13. ASSUME NEW k \in r.kids, NEW x \in LiveIn(A) \ {k.id} PROVE A[x].name # F[k.id].name
  <2>1. k \in m.kids /\ k.id # p /\ k.id \in LiveIn(D) /\ x \in LiveIn(D) /\ x # k.id /\ x \in Ids
    BY <1>5, <1>6, <1>7 DEF LiveIn
  <2>2. CASE x = p
    <3>1. F[p].name # F[k.id].name BY <1>11, <2>1, <2>2 DEF Tree
    <3>2. QED BY <1>4, <2>2, <3>1
  <2>3. CASE x # p
    <3>1. D[x].name # F[k.id].name BY <1>1, <2>1 DEF Renaming, F
    <3>2. QED BY <1>4, <2>1, <2>3, <3>1
  <2>4. QED BY <2>2, <2>3
<1>14. Renaming(r, A) BY <1>10, <1>11, <1>12, <1>13 DEF Renaming
<1>15. QED BY <1>4, <1>5, <1>10, <1>14 DEF F

\* No name is taken when a sub project gets it: NextKid always writes.
LEMMA NextKidWrites ==
  ASSUME ProjectsAssumption, TreeInv, NEW c \in Clients, NextKid(c)
  PROVE  LET m == call[c]
         IN  /\ m.pc = "kids" /\ m \in Calls /\ Renaming(m, projects) /\ projects \in [Ids -> Doc] /\ home' = home
             /\ \E kid \in m.kids : LET r == [m EXCEPT !.kids = @ \ {kid}]
                                    IN  KidWritten(m, projects, kid, projects', r) /\ Goto(c, r)
<1> DEFINE m == call[c]
<1>1. m.pc = "kids" /\ home' = home BY DEF NextKid
<1>2. m \in Calls /\ Phase(m, projects, home) /\ projects \in [Ids -> Doc] BY <1>1 DEF TreeInv
<1>3. Renaming(m, projects) BY <1>1, <1>2 DEF Phase
<1>4. PICK kid \in m.kids :
        LET name == RenamedKid(kid, m.name, m.self.name)
        IN  IF NameFree(name, kid.id)
              THEN /\ projects' = [projects EXCEPT ![kid.id].name = name,
                                                   ![kid.id].path = IF m.op = "update" THEN @
                                                                    ELSE RepathedKid(kid, m.path, m.self.path)]
                   /\ Goto(c, [m EXCEPT !.kids = @ \ {kid}])
              ELSE Return(c) /\ UNCHANGED projects
  BY DEF NextKid
<1> DEFINE name == RenamedKid(kid, m.name, m.self.name)
           F == Finished(m, projects)[kid.id]
           path == IF m.op = "update" THEN projects[kid.id].path ELSE RepathedKid(kid, m.path, m.self.path)
<1>13. KidForeseen(m, projects, kid) BY <1>2, <1>3, KidFinished
<1>5. NameFree(name, kid.id)
  <2>1. \A x \in LiveIn(projects) \ {kid.id} : projects[x].name # name BY <1>13 DEF KidForeseen
  <2>2. QED BY <2>1 DEF NameFree, ByName, Live, LiveIn
<1>6. kid.id \in Ids /\ F = [projects[kid.id] EXCEPT !.name = name, !.path = path] BY <1>13 DEF KidForeseen
<1>7. projects' = [projects EXCEPT ![kid.id].name = name, ![kid.id].path = IF m.op = "update" THEN @ ELSE RepathedKid(kid, m.path, m.self.path)]
  BY <1>4, <1>5
<1>8. projects[kid.id] = [exists |-> projects[kid.id].exists, name |-> projects[kid.id].name,
                          parent |-> projects[kid.id].parent, path |-> projects[kid.id].path]
  BY <1>2, <1>6, DocFields
<1> HIDE DEF m, name, F
<1>9. projects' = [projects EXCEPT ![kid.id] = F] BY <1>2, <1>6, <1>7, <1>8
<1>10. Goto(c, [m EXCEPT !.kids = @ \ {kid}]) BY <1>4, <1>5 DEF name
<1>11. KidWritten(m, projects, kid, projects', [m EXCEPT !.kids = @ \ {kid}]) BY <1>3, <1>9 DEF KidWritten, F
<1>12. QED BY <1>1, <1>2, <1>3, <1>10, <1>11 DEF m

LEMMA NextKidInv == ASSUME ProjectsAssumption, TreeInv, NEW c \in Clients, NextKid(c) PROVE TreeInv'
<1> DEFINE m == call[c]
           D == projects
<1>1. m.pc = "kids" /\ m \in Calls /\ Renaming(m, D) /\ D \in [Ids -> Doc] /\ home' = home BY NextKidWrites
<1>2. PICK kid \in m.kids : LET r == [m EXCEPT !.kids = @ \ {kid}] IN KidWritten(m, D, kid, projects', r) /\ Goto(c, r)
  BY NextKidWrites
<1> DEFINE r == [m EXCEPT !.kids = @ \ {kid}]
<1>3. KidWritten(m, D, kid, projects', r) /\ Goto(c, r) BY <1>2
<1>4. /\ r \in Calls /\ r.op = m.op /\ r.pc = m.pc /\ r.target = m.target /\ r.parent = m.parent /\ r.all = m.all
      /\ r.heads = m.heads /\ r.self = m.self
  BY <1>1 DEF Calls
<1>5. Phase(m, D, home) /\ m.op \in {"move", "merge", "update"} BY <1>1 DEF TreeInv, Phase
<1>6. \A d \in Clients \ {c} : call[d] = Idle BY <1>1, <1>5, Alone DEF Moving
<1> HIDE DEF m, D, r
<1>7. projects' \in [Ids -> Doc] /\ LiveIn(projects') = LiveIn(D) /\ Finished(r, projects') = Finished(m, D)
      /\ Renaming(r, projects')
  BY <1>1, <1>3, KidWrittenIs
<1>8. HomesKnown' BY <1>1, <1>7 DEF HomesKnown, TreeInv, D
<1>9. Others(c, r)
  <2>1. Idle.op \notin Moving /\ Idle.pc # "kids" BY DEF Idle, Moving
  <2>2. QED BY <1>6, <2>1 DEF Others
<1>10. Phase(r, projects', home')
  <2>1. ASSUME Merging(m, Finished(m, D), home) PROVE Merging(r, Finished(r, projects'), home')
    <3> DEFINE F == Finished(m, D)
    <3>1. F = Finished(r, projects') /\ home' = home BY <1>1, <1>7
    <3> HIDE DEF F
    <3>2. Merging(r, F, home) BY <1>1, <1>4, <2>1 DEF Merging, F
    <3>3. QED BY <3>1, <3>2
  <2>2. QED BY <1>1, <1>4, <1>5, <1>7, <2>1 DEF Phase
<1>11. QED BY <1>1, <1>3, <1>4, <1>6, <1>7, <1>8, <1>9, <1>10, StepInv

LEMMA LastKidInv == ASSUME ProjectsAssumption, TreeInv, NEW c \in Clients, LastKid(c) PROVE TreeInv'
<1> DEFINE m == call[c]
           D == projects
           r == [m EXCEPT !.pc = "heads"]
<1>1. /\ m.pc = "kids" /\ m.kids = {} /\ UNCHANGED <<projects, home>>
      /\ IF m.op = "merge" THEN Goto(c, r) ELSE Return(c)
  BY DEF LastKid
<1>2. m \in Calls /\ Phase(m, D, home) /\ D \in [Ids -> Doc] /\ Renaming(m, D) BY <1>1 DEF TreeInv, Phase
<1>3. Finished(m, D) = D BY <1>1, <1>2, NothingToRename
<1>4. Tree(D) BY <1>2, <1>3 DEF Renaming
<1>5. CASE m.op # "merge"
  <2>1. m.pc # "idle" BY <1>1
  <2>2. QED BY <1>1, <1>4, <1>5, <2>1, ReturnInv
<1>6. CASE m.op = "merge"
  <2>1. /\ r \in Calls /\ r.op = "merge" /\ r.pc = "heads" /\ r.target = m.target /\ r.parent = m.parent
        /\ r.all = m.all /\ r.heads = m.heads /\ r.self = m.self /\ r.kids = {}
    BY <1>1, <1>2, <1>6 DEF Calls
  <2>2. Goto(c, r) BY <1>1, <1>6
  <2>3. Others(c, r) BY <1>1, <1>6, <2>1, Alone DEF Others, Moving
  <2>4. Merging(m, D, home) BY <1>2, <1>3, <1>6 DEF Phase
  <2> HIDE DEF r, D
  <2>5. Merging(r, D, home) BY <1>1, <2>1, <2>4 DEF Merging
  <2>6. Finished(r, D) = D BY <1>2, <2>1, NothingToRename
  <2>7. Phase(r, D, home) BY <2>1, <2>5, <2>6 DEF Phase
  <2>8. QED BY <1>1, <1>4, <2>1, <2>2, <2>3, <2>7, QuietStepInv DEF D
<1>7. QED BY <1>5, <1>6

-----------------------------------------------------------------------------
(* The parent of a project.                                                *)

ParentIn(D, p) == IF D[p].parent = NoProject THEN TopLevel ELSE CopyOf(D, D[p].parent)

LEMMA ParentIs ==
  ASSUME ProjectsAssumption, NEW D, Tree(D), NEW p \in LiveIn(D)
  PROVE  LET parent == ParentIn(D, p)
         IN  /\ GoodParent(D, parent) /\ parent.id = D[p].parent /\ parent \in CopyType
             /\ D[p].parent = NoProject \/ D[p].parent \in LiveIn(D)
             /\ D[p].name # <<>> /\ Front(D[p].name) = parent.name
             /\ D[p].path = UnderParent(D[p].name, parent).path
             /\ parent.id # p /\ p \notin ToSet(parent.path)
<1> DEFINE s == D[p].path
           n == D[p].name
           i == Len(s)
<1>1. p \in Ids /\ D \in [Ids -> Doc] /\ Rooted(D, p) BY DEF Tree, LiveIn
<1>2. s \in Seq(Ids) /\ n \in Seq(Parts) /\ i \in Nat /\ Len(n) = i + 1 /\ n # <<>>
  <2>1. s \in Seq(Ids) /\ n \in Seq(Parts) BY <1>1, DocFields
  <2>2. Len(n) = i + 1 /\ i \in Nat BY <1>1, <2>1 DEF Rooted
  <2>3. QED BY <2>1, <2>2
<1>3. Front(n) \in Seq(Parts) /\ Len(Front(n)) = Len(n) - 1 /\ \A j \in 1..(Len(n) - 1) : Front(n)[j] = n[j]
  BY <1>2, FrontAndLast
<1>4. CASE s = <<>>
  <2>1. D[p].parent = NoProject /\ ParentIn(D, p) = TopLevel BY <1>1, <1>4 DEF Rooted, ParentIn
  <2>2. Front(n) = <<>>
    <3>1. Len(s) = 0 BY <1>4
    <3> HIDE DEF n, s
    <3>2. Len(Front(n)) = 0 BY <1>2, <1>3, <3>1
    <3>3. QED BY <1>3, <3>2
  <2>3. TopLevel.id = NoProject /\ TopLevel.name = <<>> /\ TopLevel.path = <<>> BY DEF TopLevel
  <2>4. UnderParent(n, TopLevel).path = <<>> BY <2>3 DEF UnderParent
  <2>5. GoodParent(D, TopLevel) /\ TopLevel \in CopyType BY IdleCall DEF GoodParent
  <2>6. NoProject # p /\ p \notin ToSet(<<>>) BY <1>1, ProjectsAssumption DEF ProjectsAssumption, ToSet
  <2> HIDE DEF n
  <2>7. n # <<>> BY <1>2
  <2>8. QED BY <1>4, <2>1, <2>2, <2>3, <2>4, <2>5, <2>6, <2>7 DEF n
<1>5. CASE s # <<>>
  <2> DEFINE q == s[i]
  <2>1. i \in 1..Len(s) /\ i # 0 BY <1>2, <1>5
  <2>2. D[p].parent = q /\ q \in LiveIn(D) /\ q \in Ids /\ q # NoProject
    <3>1. Last(s) = q BY <1>2, <1>5, FrontAndLast
    <3>2. D[p].parent = q BY <1>1, <1>5, <3>1 DEF Rooted
    <3>3. q \in LiveIn(D) BY <1>1, <2>1 DEF Rooted
    <3>4. QED BY <3>2, <3>3, ProjectsAssumption DEF LiveIn, ProjectsAssumption
  <2>3. /\ Len(D[q].name) = i /\ Len(D[q].path) = i - 1
        /\ \A j \in 1..i : D[q].name[j] = n[j]
        /\ \A j \in 1..(i - 1) : D[q].path[j] = s[j]
    <3>1. Begins(D[q].name, n, i) /\ Begins(D[q].path, s, i - 1) BY <1>1, <2>1 DEF Rooted
    <3>2. QED BY <3>1 DEF Begins
  <2>4. D[q].name \in Seq(Parts) /\ D[q].path \in Seq(Ids) BY <1>1, <2>2, DocFields
  <2>5. ParentIn(D, p) = CopyOf(D, q) BY <2>2 DEF ParentIn
  <2> DEFINE parent == CopyOf(D, q)
  <2>6. parent.id = q /\ parent.name = D[q].name /\ parent.path = D[q].path /\ parent \in CopyType
    BY <1>1, <2>2, CopyFields
  <2>7. Front(n) = D[q].name
    <3> DEFINE u == D[q].name
               f == Front(n)
    <3>1. u \in Seq(Parts) /\ f \in Seq(Parts) /\ Len(f) = Len(u) /\ \A j \in 1..Len(f) : f[j] = u[j]
      <4>1. Len(n) - 1 = i BY <1>2
      <4>2. Len(f) = i /\ Len(u) = i /\ \A j \in 1..i : f[j] = n[j] /\ u[j] = n[j] BY <1>3, <2>3, <4>1
      <4>3. QED BY <1>3, <2>4, <4>2
    <3> HIDE DEF u, f
    <3>2. f = u BY <3>1, SameSeq
    <3>3. QED BY <3>2 DEF f, u
  <2>8. s = Append(D[q].path, q)
    <3> DEFINE u == D[q].path
    <3>1. u \in Seq(Ids) /\ q \in Ids /\ Len(u) = i - 1 /\ \A j \in 1..(i - 1) : u[j] = s[j] BY <2>2, <2>3, <2>4
    <3> DEFINE t == Append(u, q)
    <3>2. t \in Seq(Ids) /\ Len(t) = i /\ t[i] = s[i] /\ \A j \in 1..(i - 1) : t[j] = s[j]
      <4> HIDE DEF u
      <4>1. QED BY <1>2, <2>1, <3>1
    <3>3. \A j \in 1..i : j = i \/ j \in 1..(i - 1) BY <1>2
    <3>4. Len(t) = Len(s) /\ \A j \in 1..Len(t) : t[j] = s[j] BY <3>2, <3>3
    <3> HIDE DEF t, s
    <3>5. t = s BY <1>2, <3>2, <3>4, SameSeq
    <3>6. QED BY <3>5 DEF t
  <2>9. UnderParent(n, parent).path = Append(D[q].path, q) BY <2>2, <2>6 DEF UnderParent
  <2>10. GoodParent(D, parent) BY <2>2, <2>6 DEF GoodParent
  <2>11. q # p
    <3>1. Len(D[q].path) # Len(D[p].path) BY <1>2, <2>3
    <3>2. QED BY <3>1
  <2>12. p \notin ToSet(D[q].path)
    <3>1. ASSUME p \in ToSet(D[q].path) PROVE FALSE
      <4>1. q \in UnderIn(D, p) BY <2>2, <3>1 DEF UnderIn
      <4>2. Len(D[p].path) + 1 \in 1..Len(D[q].path) BY <4>1, Position
      <4>3. QED BY <1>2, <2>3, <4>2
    <3>2. QED BY <3>1
  <2> HIDE DEF parent, n, q, s
  <2>13. n # <<>> BY <1>2
  <2>14. QED BY <2>2, <2>5, <2>6, <2>7, <2>8, <2>9, <2>10, <2>11, <2>12, <2>13 DEF parent, n, s
<1>6. QED BY <1>4, <1>5

-----------------------------------------------------------------------------
(* Renaming a project.                                                     *)

LEMMA UpdateMoves ==
  ASSUME ProjectsAssumption, TreeInv, NEW c \in Clients, NEW p \in Ids, NEW raw \in Raw, Update(c, p, raw)
  PROVE  /\ \A d \in Clients : call[d] = Idle
         /\ home' = home
         /\ \E name : \E r \in Calls :
              /\ Repositioned(projects, p, name, ParentIn(projects, p), projects', r)
              /\ r.op = "update" /\ r.pc = "kids" /\ Goto(c, r)
<1> DEFINE D == projects
           name == Validated(raw)
           old == D[p].name
           parent == ParentIn(D, p)
           r == [Idle EXCEPT !.op = "update", !.pc = "kids", !.self = Copy(p), !.name = name,
                             !.kids = {Copy(q) : q \in SubProjects(p)}]
<1>1. /\ MayStart(c, "update") /\ p \in LiveIn(D) /\ name # <<>> /\ Location(name) = Location(Validated(old))
      /\ ProperBasename(name) /\ NameFree(name, p)
      /\ projects' = [D EXCEPT ![p].name = name] /\ Goto(c, r) /\ home' = home
  BY DEF Update, Live, LiveIn
<1>2. Tree(D) /\ \A d \in Clients : call[d] = Idle BY <1>1, Started DEF Moving
<1>3. /\ GoodParent(D, parent) /\ parent.id = D[p].parent /\ parent \in CopyType /\ old # <<>> /\ Front(old) = parent.name
      /\ D[p].path = UnderParent(old, parent).path /\ parent.id # p /\ p \notin ToSet(parent.path)
  BY <1>1, <1>2, ParentIs
<1>4. /\ D \in [Ids -> Doc] /\ D[p].exists /\ old \in Seq(Parts) /\ Len(old) \in Nat /\ Len(old) <= MaxDepth
      /\ D[p] = [exists |-> D[p].exists, name |-> old, parent |-> D[p].parent, path |-> D[p].path]
  <2>1. D \in [Ids -> Doc] /\ D[p].exists BY <1>1, <1>2 DEF Tree, LiveIn
  <2>2. old \in Seq(Parts) /\ Len(old) \in 0..MaxDepth BY <2>1, DocFields
  <2>3. D[p] = [exists |-> D[p].exists, name |-> old, parent |-> D[p].parent, path |-> D[p].path] BY <2>1, DocFields
  <2> HIDE DEF old
  <2>4. Len(old) \in Nat /\ Len(old) <= MaxDepth BY <2>2, ProjectsAssumption DEF ProjectsAssumption
  <2>5. QED BY <2>1, <2>2, <2>3, <2>4
<1>5. name \in Seq(Parts \cup {Empty}) BY ValidatedIs
<1> HIDE DEF name
<1>6. Front(name) = Front(old)
  <2>1. old \in Raw
    <3> HIDE DEF old
    <3>1. old \in Seq(Parts \cup {Blank, Empty}) BY <1>4
    <3>2. QED BY <3>1 DEF Raw
  <2>2. Validated(old) = old
    <3> HIDE DEF old
    <3>1. QED BY <1>4, <2>1, ValidatedIs
  <2>3. QED BY <1>1, <1>3, <2>2 DEF Location
<1>7. name \in Names /\ Len(name) = Len(old)
  <2>1. name \in ProperNames BY <1>1, <1>5 DEF ProperNames, ProperBasename
  <2>2. Len(Front(name)) = Len(name) - 1 /\ Len(Front(old)) = Len(old) - 1 /\ Len(name) \in Nat
    <3>1. Len(Front(name)) = Len(name) - 1 /\ Len(name) \in Nat BY <1>1, <1>5, FrontAndLast
    <3>2. Len(Front(old)) = Len(old) - 1 BY <1>3, <1>4, FrontAndLast
    <3>3. QED BY <3>1, <3>2
  <2> HIDE DEF old
  <2>3. Len(name) = Len(old) BY <1>4, <1>6, <2>2
  <2>4. Front(name) = parent.name BY <1>3, <1>6
  <2>5. Len(name) <= MaxDepth BY <1>4, <2>3
  <2> HIDE DEF parent
  <2>6. name \in Names BY <1>3, <2>1, <2>4, <2>5, SavedName
  <2>7. QED BY <2>3, <2>6
<1>8. MoveAllowed(D, p, name, parent)
  <2>1. \A x \in LiveIn(D) : D[x].name = name => x = p BY <1>1 DEF NameFree, ByName, Live, LiveIn
  <2>2. ASSUME NEW x \in UnderIn(D, p) PROVE Len(D[x].name) - Len(D[p].name) + Len(name) <= MaxDepth
    <3>1. x \in Ids BY DEF UnderIn, LiveIn
    <3>2. Len(D[x].name) \in 0..MaxDepth /\ MaxDepth \in Nat BY <1>4, <3>1, DocFields, ProjectsAssumption DEF ProjectsAssumption
    <3> DEFINE u == Len(D[x].name)
               v == Len(D[p].name)
               w == Len(name)
    <3>3. u \in Nat /\ u <= MaxDepth /\ v \in Nat /\ w = v BY <1>4, <1>7, <3>2
    <3> HIDE DEF u, v, w
    <3>4. u - v + w <= MaxDepth BY <3>2, <3>3
    <3>5. QED BY <3>4 DEF u, v, w
  <2> HIDE DEF D, parent, old
  <2>3. Front(name) = parent.name BY <1>3, <1>6
  <2>4. QED BY <1>1, <1>2, <1>3, <1>7, <2>1, <2>2, <2>3 DEF MoveAllowed
<1>9. UnderParent(name, parent).path = D[p].path BY <1>3 DEF UnderParent
<1>10. projects' = [D EXCEPT ![p] = UnderParent(name, parent)]
  <2>1. UnderParent(name, parent) = [exists |-> TRUE, name |-> name, parent |-> D[p].parent, path |-> D[p].path]
    BY <1>3, <1>9 DEF UnderParent
  <2>2. [D[p] EXCEPT !.name = name] = [exists |-> D[p].exists, name |-> name, parent |-> D[p].parent, path |-> D[p].path]
    <3> DEFINE d == D[p]
               u == [d EXCEPT !.name = name]
    <3>1. d \in Doc BY <1>4
    <3> HIDE DEF d
    <3>2. u \in Doc /\ u.exists = d.exists /\ u.name = name /\ u.parent = d.parent /\ u.path = d.path
      BY <1>7, <3>1 DEF Doc
    <3> HIDE DEF u
    <3>3. u = [exists |-> u.exists, name |-> u.name, parent |-> u.parent, path |-> u.path] BY <3>2 DEF Doc
    <3>4. u = [exists |-> d.exists, name |-> name, parent |-> d.parent, path |-> d.path] BY <3>2, <3>3
    <3>5. QED BY <3>4 DEF u, d
  <2>3. D[p].exists = TRUE BY <1>4 DEF Doc
  <2> HIDE DEF parent, D
  <2>4. QED BY <1>1, <2>1, <2>2, <2>3
<1>11. Copy(p) = CopyOf(D, p) /\ {Copy(q) : q \in SubProjects(p)} = {CopyOf(D, q) : q \in UnderIn(D, p)}
  BY DEF Copy, CopyOf, SubProjects, UnderIn, Live, LiveIn
<1>12. Copy(p) \in CopyType /\ {Copy(q) : q \in SubProjects(p)} \subseteq CopyType
  <2>1. \A q \in UnderIn(D, p) : CopyOf(D, q) \in CopyType BY <1>4, CopyFields DEF UnderIn, LiveIn
  <2>2. CopyOf(D, p) \in CopyType BY <1>4, CopyFields
  <2>3. QED BY <1>11, <2>1, <2>2
<1>13. r \in Calls BY <1>7, <1>12, IdleCall DEF Idle, Calls
<1>14. /\ r.op = "update" /\ r.pc = "kids" /\ r.self = Copy(p) /\ r.name = name
       /\ r.kids = {Copy(q) : q \in SubProjects(p)}
  BY DEF Idle
<1> HIDE DEF r, D, parent, old
<1>15. Repositioned(D, p, name, parent, projects', r) BY <1>8, <1>9, <1>10, <1>11, <1>14 DEF Repositioned
<1>16. QED BY <1>1, <1>2, <1>13, <1>14, <1>15 DEF D, parent

LEMMA UpdateInv ==
  ASSUME ProjectsAssumption, TreeInv, NEW c \in Clients, NEW p \in Ids, NEW raw \in Raw, Update(c, p, raw)
  PROVE  TreeInv'
<1>1. (\A d \in Clients : call[d] = Idle) /\ home' = home BY UpdateMoves
<1>2. PICK name, r :
        /\ r \in Calls
        /\ Repositioned(projects, p, name, ParentIn(projects, p), projects', r)
        /\ r.op = "update" /\ r.pc = "kids" /\ Goto(c, r)
  BY UpdateMoves
<1>3. QED BY <1>1, <1>2, RepositionInv

-----------------------------------------------------------------------------
(* Deleting.                                                               *)

LEMMA DeleteProjectInv ==
  ASSUME ProjectsAssumption, TreeInv, NEW c \in Clients, NEW p \in Ids, NEW force \in BOOLEAN, DeleteProject(c, p, force)
  PROVE  TreeInv'
<1> DEFINE D == projects
           S == {p} \cup UnderIn(D, p)
           r == [Idle EXCEPT !.op = "delete", !.pc = "disassociate", !.all = {CopyOf(D, q) : q \in S}]
<1>1. /\ MayStart(c, "delete") /\ p \in LiveIn(D) /\ UNCHANGED <<projects, home>>
      /\ Goto(c, [Idle EXCEPT !.op = "delete", !.pc = "disassociate", !.all = {Copy(q) : q \in WithChildren(p)}])
  BY DEF DeleteProject, Live, LiveIn
<1>2. {Copy(q) : q \in WithChildren(p)} = {CopyOf(D, q) : q \in S}
  BY DEF WithChildren, Copy, CopyOf, SubProjects, UnderIn, Live, LiveIn
<1>3. Tree(D) /\ D \in [Ids -> Doc] /\ \A d \in Clients : call[d] = Idle BY <1>1, Started DEF Moving, Tree
<1>4. {CopyOf(D, q) : q \in S} \subseteq CopyType
  <2>1. \A q \in S : q \in Ids BY DEF UnderIn, LiveIn
  <2>2. QED BY <1>3, <2>1, CopyFields
<1>5. r \in Calls BY <1>4, IdleCall DEF Idle, Calls
<1>6. r.op = "delete" /\ r.pc = "disassociate" /\ r.kids = {} /\ r.all = {CopyOf(D, q) : q \in S} BY DEF Idle
<1>7. Goto(c, r) BY <1>1, <1>2
<1>8. Others(c, r)
  <2>1. Idle.op \notin Moving /\ Idle.pc # "kids" BY DEF Idle, Moving
  <2>2. QED BY <1>3, <2>1 DEF Others
<1> HIDE DEF r
<1>9. Phase(r, D, home)
  <2>1. Deleting(r, D, home) BY <1>1, <1>6 DEF Deleting
  <2>2. QED BY <1>6, <2>1 DEF Phase
<1> HIDE DEF D
<1>10. QED BY <1>1, <1>3, <1>5, <1>7, <1>8, <1>9, QuietStepInv DEF D

LEMMA DisassociateInv == ASSUME ProjectsAssumption, TreeInv, NEW c \in Clients, Disassociate(c) PROVE TreeInv'
<1> DEFINE m == call[c]
           r == [m EXCEPT !.pc = "delete"]
<1>1. /\ m.pc = "disassociate" /\ Goto(c, r) /\ projects' = projects
      /\ home' = [e \in Entities |-> IF \E d \in m.all : d.id = home[e] THEN NoProject ELSE home[e]]
  BY DEF Disassociate
<1>2. m \in Calls /\ Phase(m, projects, home) /\ Tree(projects) BY <1>1, Alone
<1>3. m.op = "delete" /\ Deleting(m, projects, home) /\ m.kids = {} BY <1>1, <1>2 DEF Phase
<1>4. \A d \in Clients \ {c} : call[d] = Idle BY <1>1, <1>3, Alone DEF Moving
<1>5. r \in Calls /\ r.op = m.op /\ r.pc = "delete" /\ r.all = m.all /\ r.kids = {} BY <1>2, <1>3 DEF Calls
<1>6. \A d \in m.all : d.id # NoProject
  <2>1. PICK p \in LiveIn(projects) : m.all = {CopyOf(projects, q) : q \in {p} \cup UnderIn(projects, p)} BY <1>3 DEF Deleting
  <2>2. ASSUME NEW d \in m.all PROVE d.id # NoProject
    <3>1. PICK q \in {p} \cup UnderIn(projects, p) : d = CopyOf(projects, q) BY <2>1
    <3>2. d.id = q /\ q \in Ids BY <3>1 DEF CopyOf, UnderIn, LiveIn
    <3>3. QED BY <3>2, ProjectsAssumption DEF ProjectsAssumption
  <2>3. QED BY <2>2
<1>7. HomesKnown'
  <2>1. HomesKnown BY DEF TreeInv
  <2>2. QED BY <1>1, <2>1 DEF HomesKnown
<1>8. Others(c, r)
  <2>1. Idle.op \notin Moving /\ Idle.pc # "kids" BY DEF Idle, Moving
  <2>2. QED BY <1>4, <2>1 DEF Others
<1>9. projects' \in [Ids -> Doc] /\ Tree(projects') BY <1>1, <1>2 DEF Tree
<1> HIDE DEF m, r
<1>10. Deleting(r, projects', home')
  <2>1. \A e \in Entities : \A d \in m.all : d.id # home'[e]
    <3>1. SUFFICES ASSUME NEW e \in Entities, NEW d \in m.all PROVE d.id # home'[e] OBVIOUS
    <3>2. CASE \E k \in m.all : k.id = home[e] BY <1>1, <1>6, <3>2
    <3>3. CASE ~(\E k \in m.all : k.id = home[e]) BY <1>1, <3>3
    <3>4. QED BY <3>2, <3>3
  <2>2. QED BY <1>1, <1>3, <1>5, <2>1 DEF Deleting
<1>11. Phase(r, projects', home') BY <1>3, <1>5, <1>10 DEF Phase
<1>12. QED BY <1>1, <1>4, <1>5, <1>7, <1>8, <1>9, <1>11, StepInv

\* The documents of the projects, when nothing is left in them.
LEMMA Removing ==
  ASSUME TreeInv, NEW c \in Clients, DeleteDocuments(c)
  PROVE  /\ Tree(projects) /\ \A d \in Clients \ {c} : call[d] = Idle
         /\ \E p \in LiveIn(projects) :
              LET S == {p} \cup UnderIn(projects, p)
              IN  /\ projects' = [x \in Ids |-> IF x \in S THEN NoDoc ELSE projects[x]]
                  /\ \A e \in Entities : home[e] \notin S
<1> DEFINE m == call[c]
<1>1. /\ m.pc = "delete" /\ projects' = [p \in Ids |-> IF \E d \in m.all : d.id = p THEN NoDoc ELSE projects[p]]
  BY DEF DeleteDocuments
<1>2. m \in Calls /\ Phase(m, projects, home) /\ Tree(projects) BY <1>1, Alone
<1>3. m.op = "delete" /\ Deleting(m, projects, home) /\ m.kids = {} BY <1>1, <1>2 DEF Phase
<1>4. \A d \in Clients \ {c} : call[d] = Idle BY <1>1, <1>3, Alone DEF Moving
<1>5. PICK p \in LiveIn(projects) : m.all = {CopyOf(projects, q) : q \in {p} \cup UnderIn(projects, p)} BY <1>3 DEF Deleting
<1> DEFINE S == {p} \cup UnderIn(projects, p)
<1>6. \A x : (\E d \in m.all : d.id = x) <=> x \in S
  <2>1. \A q : CopyOf(projects, q).id = q BY DEF CopyOf
  <2> HIDE DEF S, m
  <2>2. m.all = {CopyOf(projects, q) : q \in S} BY <1>5 DEF S
  <2>3. QED BY <2>1, <2>2
<1> HIDE DEF S, m
<1>7. projects' = [x \in Ids |-> IF x \in S THEN NoDoc ELSE projects[x]] BY <1>1, <1>6
<1>8. \A e \in Entities : home[e] \notin S
  <2>1. \A e \in Entities : \A d \in m.all : d.id # home[e] BY <1>1, <1>3 DEF Deleting
  <2>2. QED BY <1>6, <2>1
<1>9. QED BY <1>2, <1>4, <1>7, <1>8 DEF S

LEMMA DeleteDocumentsInv == ASSUME ProjectsAssumption, TreeInv, NEW c \in Clients, DeleteDocuments(c) PROVE TreeInv'
<1>1. Tree(projects) /\ \A d \in Clients \ {c} : call[d] = Idle BY Removing
<1>2. PICK p \in LiveIn(projects) :
        LET S == {p} \cup UnderIn(projects, p)
        IN  /\ projects' = [x \in Ids |-> IF x \in S THEN NoDoc ELSE projects[x]]
            /\ \A e \in Entities : home[e] \notin S
  BY Removing
<1>3. home' = home /\ Goto(c, Idle) BY DEF DeleteDocuments, Return
<1>4. projects' = [x \in Ids |-> IF x \in {p} \cup UnderIn(projects, p) THEN NoDoc ELSE projects[x]] BY <1>2
<1>5. Tree(projects') /\ LiveIn(projects') = LiveIn(projects) \ ({p} \cup UnderIn(projects, p)) BY <1>1, <1>4, RemovedTree
<1>6. HomesKnown'
  <2>1. HomesKnown BY DEF TreeInv
  <2>2. \A e \in Entities : home[e] \notin {p} \cup UnderIn(projects, p) BY <1>2
  <2>3. QED BY <1>3, <1>5, <2>1, <2>2 DEF HomesKnown
<1>7. Others(c, Idle)
  <2>1. Idle.op \notin Moving /\ Idle.pc # "kids" BY DEF Idle, Moving
  <2>2. QED BY <1>1, <2>1 DEF Others
<1>8. projects' \in [Ids -> Doc] BY <1>5 DEF Tree
<1>9. QED BY <1>1, <1>3, <1>5, <1>6, <1>7, <1>8, IdleCall, IdlePhase, StepInv

-----------------------------------------------------------------------------
(* Merging: the entities, then one child of the merged project after the   *)
(* other with what is under it.                                            *)

LEMMA PathIs ==
  ASSUME NEW D, D \in [Ids -> Doc], NEW x \in Ids
  PROVE  D[x].path \in Seq(Ids) /\ Len(D[x].path) \in Nat
<1>1. D[x].path \in Seq(Ids) BY DocFields
<1>2. QED BY <1>1

LEMMA NotUnderItself == ASSUME NEW D, Tree(D), NEW p \in LiveIn(D) PROVE p \notin UnderIn(D, p)
<1>1. \A x \in UnderIn(D, p) : x # p BY Position
<1>2. QED BY <1>1

LEMMA ParentAbove ==
  ASSUME NEW D, Tree(D), NEW p \in LiveIn(D), D[p].parent # NoProject
  PROVE  /\ D[p].parent \in LiveIn(D) /\ p \in UnderIn(D, D[p].parent)
         /\ D[p].path # <<>> /\ D[p].path[Len(D[p].path)] = D[p].parent
         /\ Len(D[p].path) = Len(D[D[p].parent].path) + 1 /\ Len(D[D[p].parent].path) \in Nat
<1> DEFINE s == D[p].path
           i == Len(s)
           q == D[p].parent
<1>1. p \in Ids /\ D \in [Ids -> Doc] /\ Rooted(D, p) BY DEF Tree, LiveIn
<1>2. s \in Seq(Ids) /\ i \in Nat BY <1>1, PathIs
<1>3. s # <<>> BY <1>1 DEF Rooted
<1>4. q = Last(s) /\ Last(s) = s[i] BY <1>1, <1>2, <1>3, FrontAndLast DEF Rooted
<1>5. i \in 1..Len(s) BY <1>2, <1>3
<1>6. q \in LiveIn(D) /\ Begins(D[q].path, s, i - 1) BY <1>1, <1>4, <1>5 DEF Rooted
<1>7. q \in ToSet(s) BY <1>2, <1>4, <1>5, ToSetIs
<1>8. Len(D[q].path) = i - 1 BY <1>6 DEF Begins
<1>9. p \in UnderIn(D, q) BY <1>7 DEF UnderIn
<1> HIDE DEF s, q
<1>10. Len(s) = Len(D[q].path) + 1 /\ Len(D[q].path) \in Nat BY <1>2, <1>5, <1>8
<1>11. QED BY <1>3, <1>4, <1>6, <1>9, <1>10 DEF s, q

\* What is under a project is under it or under one of its children.
LEMMA SomeChild ==
  ASSUME NEW D, Tree(D), NEW p \in LiveIn(D), NEW y \in UnderIn(D, p)
  PROVE  \E z \in LiveIn(D) : D[z].parent = p
<1> DEFINE s == D[y].path
           n == Len(D[p].path)
<1>1. y \in LiveIn(D) /\ n \in Nat /\ n + 1 \in 1..Len(s) /\ s[n + 1] = p BY Position
<1>2. y \in Ids /\ D \in [Ids -> Doc] /\ s \in Seq(Ids) /\ Len(s) \in Nat
  <2>1. y \in Ids /\ D \in [Ids -> Doc] BY <1>1 DEF Tree, LiveIn
  <2>2. QED BY <2>1, PathIs
<1>3. CASE Len(s) = n + 1
  <2>1. s # <<>> /\ Last(s) = p
    <3> HIDE DEF s, n
    <3>1. s # <<>> BY <1>1, <1>3
    <3>2. Last(s) = s[Len(s)] BY <1>2, <3>1, FrontAndLast
    <3>3. QED BY <1>1, <1>3, <3>1, <3>2
  <2>2. D[y].parent = p BY <1>1, <2>1 DEF Tree, Rooted
  <2>3. QED BY <1>1, <2>2
<1>4. CASE Len(s) # n + 1
  <2> DEFINE z == s[n + 2]
  <2>1. n + 2 \in 1..Len(s) BY <1>1, <1>2, <1>4
  <2>2. z \in LiveIn(D) /\ Begins(D[z].path, s, n + 1)
    <3>1. Rooted(D, y) BY <1>1 DEF Tree
    <3>2. z \in LiveIn(D) /\ Begins(D[z].path, s, (n + 2) - 1) BY <2>1, <3>1 DEF Rooted
    <3>3. (n + 2) - 1 = n + 1 BY <1>1
    <3>4. QED BY <3>2, <3>3
  <2>3. Len(D[z].path) = n + 1 /\ D[z].path[n + 1] = p
    <3>1. n + 1 \in 1..(n + 1) BY <1>1
    <3>2. QED BY <1>1, <2>2, <3>1 DEF Begins
  <2>4. D[z].path \in Seq(Ids) /\ D[z].path # <<>> /\ Last(D[z].path) = p
    <3> DEFINE u == D[z].path
    <3>1. z \in Ids BY <2>2 DEF LiveIn
    <3>2. u \in Seq(Ids) /\ Len(u) = n + 1 /\ u[n + 1] = p BY <1>2, <2>3, <3>1, PathIs
    <3> HIDE DEF u, n
    <3>3. u # <<>> BY <1>1, <3>2
    <3>4. Last(u) = u[Len(u)] BY <3>2, <3>3, FrontAndLast
    <3>5. QED BY <3>2, <3>3, <3>4 DEF u
  <2>5. Last(D[z].path) = p BY <2>4
  <2>6. D[z].parent = p BY <2>2, <2>4, <2>5 DEF Tree, Rooted
  <2>7. QED BY <2>2, <2>6
<1>5. QED BY <1>3, <1>4

\* A child that is moved from t to another parent leaves t with all that is under it.
LeavesBehind(D, M, t, x) ==
  /\ t # x /\ t \notin UnderIn(D, x) /\ t \in LiveIn(D) /\ x \in UnderIn(D, t)
  /\ M[x].parent # t
  /\ \A y \in UnderIn(D, x) : M[y].parent = D[y].parent /\ D[y].parent # t
  /\ \A y \in {x} \cup UnderIn(D, x) : t \notin ToSet(M[y].path)

LEMMA MovedAway ==
  ASSUME ProjectsAssumption, NEW D, NEW x, NEW name, NEW parent, MoveAllowed(D, x, name, parent),
         NEW t \in Ids, D[x].parent = t, parent.id # t, t \notin ToSet(parent.path)
  PROVE  LeavesBehind(D, Moved(D, x, name, parent), t, x)
<1> DEFINE M == Moved(D, x, name, parent)
           path == UnderParent(name, parent).path
           n == Len(D[x].path)
<1>1. Tree(D) /\ x \in LiveIn(D) /\ x \in Ids /\ D \in [Ids -> Doc] /\ t # NoProject
  BY ProjectsAssumption DEF MoveAllowed, Tree, LiveIn, ProjectsAssumption
<1>2. t \in LiveIn(D) /\ x \in UnderIn(D, t) BY <1>1, ParentAbove
<1>3. t # x BY <1>1, <1>2, Position
<1>4. t \notin UnderIn(D, x)
  <2>1. ASSUME t \in UnderIn(D, x) PROVE FALSE
    <3>1. t \in UnderIn(D, t) BY <1>1, <1>2, <2>1, Transitive
    <3>2. QED BY <1>1, <1>2, <3>1, NotUnderItself
  <2>2. QED BY <2>1
<1>5. M[x] = UnderParent(name, parent) /\ M[x].parent = parent.id /\ M[x].path = path
  <2>1. M[x] = UnderParent(name, parent) BY MovedOthers
  <2>2. UnderParent(name, parent).parent = parent.id BY DEF UnderParent
  <2> HIDE DEF M
  <2>3. QED BY <2>1, <2>2
<1>6. path \in Seq(Ids) /\ Len(path) \in Nat /\ \A i \in 1..Len(path) : path[i] # t
  <2>1. path \in Seq(Ids) /\ Len(path) \in Nat BY NewPath
  <2>2. CASE parent.id = NoProject
    <3>1. path = <<>> BY <2>2 DEF UnderParent
    <3>2. Len(path) = 0 BY <3>1
    <3> HIDE DEF path
    <3>3. QED BY <2>1, <3>2
  <2>3. CASE parent.id # NoProject
    <3> DEFINE u == parent.path
               q == parent.id
    <3>1. path = Append(u, q) BY <2>3 DEF UnderParent
    <3>2. q \in LiveIn(D) /\ parent = CopyOf(D, q) BY <2>3 DEF MoveAllowed, GoodParent, TopLevel
    <3>3. u = D[q].path /\ q \in Ids BY <3>2 DEF CopyOf, LiveIn
    <3>4. u \in Seq(Ids) BY <1>1, <3>3, DocFields
    <3>5. \A i \in 1..Len(u) : u[i] # t BY <3>4, ToSetIs
    <3>6. q # t OBVIOUS
    <3> HIDE DEF path, u, q
    <3>7. Len(path) = Len(u) + 1 /\ path[Len(u) + 1] = q /\ \A i \in 1..Len(u) : path[i] = u[i] BY <3>1, <3>4
    <3>8. Len(u) \in Nat /\ \A i \in 1..Len(path) : i = Len(u) + 1 \/ i \in 1..Len(u) BY <3>4, <3>7
    <3>9. QED BY <2>1, <3>5, <3>6, <3>7, <3>8
  <2>4. QED BY <2>2, <2>3
<1>7. ASSUME NEW y \in UnderIn(D, x) PROVE t \notin ToSet(M[y].path) /\ M[y].parent = D[y].parent /\ D[y].parent # t
  <2> DEFINE s == D[y].path
             z == M[y].path
             shift == Len(path) - n
  <2>1. MovedDoc(D, x, name, parent, y) BY MovedKid
  <2>2. /\ M[y] \in Doc /\ M[y].parent = D[y].parent /\ Len(z) = Len(s) + shift
        /\ \A i \in 1..Len(path) : z[i] = path[i]
        /\ \A i \in (Len(path) + 1)..Len(z) : z[i] = s[i - shift]
    BY <2>1, Zenon DEF MovedDoc
  <2>3. y \in LiveIn(D) /\ n \in Nat /\ n + 1 \in 1..Len(s) /\ s[n + 1] = x BY <1>1, Position
  <2>4. \A j \in (n + 2)..Len(s) : s[j] \in UnderIn(D, x) BY <1>1, Position
  <2>5. y \in Ids /\ s \in Seq(Ids) /\ Len(s) \in Nat
    <3>1. y \in Ids BY <2>3 DEF LiveIn
    <3>2. QED BY <1>1, <3>1, PathIs
  <2>6. z \in Seq(Ids) /\ Len(z) \in Nat
    <3>1. z \in Seq(Ids) BY <2>2 DEF Doc
    <3> HIDE DEF z
    <3>2. QED BY <3>1
  <2> HIDE DEF s, z, path, n, M
  <2>7. \A j \in (n + 1)..Len(s) : s[j] # t
    <3>1. ASSUME NEW j \in (n + 1)..Len(s) PROVE s[j] # t
      <4>1. CASE j = n + 1 BY <1>3, <2>3, <4>1
      <4>2. CASE j # n + 1
        <5>1. j \in (n + 2)..Len(s) BY <2>3, <2>5, <4>2
        <5>2. s[j] \in UnderIn(D, x) BY <2>4, <5>1
        <5>3. QED BY <1>4, <5>2
      <4>3. QED BY <4>1, <4>2
    <3>2. QED BY <3>1
  <2>8. \A i \in 1..Len(z) : z[i] # t
    <3>1. ASSUME NEW i \in 1..Len(z) PROVE z[i] # t
      <4>1. CASE i \in 1..Len(path) BY <1>6, <2>2, <4>1
      <4>2. CASE i \notin 1..Len(path)
        <5>1. i \in (Len(path) + 1)..Len(z) BY <1>6, <2>6, <4>2
        <5>2. z[i] = s[i - shift] BY <2>2, <5>1
        <5>3. i - shift \in (n + 1)..Len(s) BY <1>6, <2>2, <2>3, <2>5, <2>6, <5>1
        <5>4. QED BY <2>7, <5>2, <5>3
      <4>3. QED BY <4>1, <4>2
    <3>2. QED BY <3>1
  <2>9. t \notin ToSet(z) BY <2>6, <2>8, ToSetIs
  <2>10. D[y].parent # t
    <3>1. ASSUME D[y].parent = t PROVE FALSE
      <4>1. s[Len(s)] = t BY <1>1, <2>3, <3>1, ParentAbove DEF s
      <4>2. Len(s) \in (n + 1)..Len(s) BY <2>3, <2>5
      <4>3. QED BY <2>7, <4>1, <4>2
    <3>2. QED BY <3>1
  <2>11. QED BY <2>2, <2>9, <2>10 DEF z
<1>8. t \notin ToSet(M[x].path) BY <1>5, <1>6, ToSetIs
<1> HIDE DEF M
<1>9. QED BY <1>2, <1>3, <1>4, <1>5, <1>7, <1>8 DEF LeavesBehind, M

LEMMA PathFits ==
  ASSUME ProjectsAssumption, NEW D, Tree(D), NEW x \in LiveIn(D)
  PROVE  Len(D[x].path) < MaxDepth
<1>1. x \in Ids /\ D \in [Ids -> Doc] /\ Len(D[x].name) = Len(D[x].path) + 1 BY DEF Tree, LiveIn, Rooted
<1>2. Len(D[x].name) \in 0..MaxDepth /\ D[x].path \in Seq(Ids) BY <1>1, DocFields
<1>4. Len(D[x].path) \in Nat
  <2> DEFINE s == D[x].path
  <2>1. s \in Seq(Ids) BY <1>2
  <2> HIDE DEF s
  <2>2. Len(s) \in Nat BY <2>1
  <2>3. QED BY <2>2 DEF s
<1>3. QED BY <1>1, <1>2, <1>4, ProjectsAssumption DEF ProjectsAssumption

LEMMA MergeInv ==
  ASSUME ProjectsAssumption, TreeInv, NEW c \in Clients, NEW source \in Ids, NEW destination \in Ids \cup {NoProject},
         Merge(c, source, destination)
  PROVE  TreeInv'
<1> DEFINE D == projects
           kids == {CopyOf(D, q) : q \in UnderIn(D, source)}
           parent == IF destination = NoProject THEN TopLevel ELSE CopyOf(D, destination)
           r == [Idle EXCEPT !.op = "merge", !.pc = "entities", !.self = CopyOf(D, source), !.target = source,
                             !.all = kids, !.parent = parent]
<1>1. \A q : Copy(q) = CopyOf(D, q) BY DEF Copy, CopyOf
<1>2. {Copy(q) : q \in SubProjects(source)} = kids BY <1>1 DEF SubProjects, UnderIn, Live, LiveIn
<1>3. /\ MayStart(c, "merge") /\ source # destination /\ source \in LiveIn(D) /\ UNCHANGED <<projects, home>>
      /\ destination # NoProject => /\ destination \in LiveIn(D) /\ source \notin ToSet(D[destination].path)
                                    /\ DepthAllowed(kids, Len(D[source].path) + 1, Len(D[destination].path) + 1)
      /\ Goto(c, r)
  BY <1>1, <1>2 DEF Merge, Live, LiveIn
<1>4. Tree(D) /\ D \in [Ids -> Doc] /\ \A d \in Clients : call[d] = Idle BY <1>3, Started DEF Moving, Tree
<1>5. kids \subseteq CopyType /\ CopyOf(D, source) \in CopyType /\ parent \in CopyType
  <2>1. \A q \in UnderIn(D, source) : q \in Ids BY DEF UnderIn, LiveIn
  <2>2. kids \subseteq CopyType
    <3>1. \A q \in UnderIn(D, source) : CopyOf(D, q) \in CopyType BY <1>4, <2>1, CopyFields
    <3>2. QED BY <3>1
  <2>3. CopyOf(D, source) \in CopyType BY <1>4, CopyFields
  <2>4. parent \in CopyType BY <1>4, IdleCall, CopyFields
  <2>5. QED BY <2>2, <2>3, <2>4
<1>6. r \in Calls
  <2> HIDE DEF kids, parent, D
  <2>1. QED BY <1>5, IdleCall DEF Idle, Calls
<1>7. /\ r.op = "merge" /\ r.pc = "entities" /\ r.self = CopyOf(D, source) /\ r.target = source /\ r.all = kids
      /\ r.parent = parent /\ r.kids = {}
  BY DEF Idle
<1>8. Others(c, r)
  <2>1. Idle.op \notin Moving /\ Idle.pc # "kids" BY DEF Idle, Moving
  <2>2. QED BY <1>4, <2>1 DEF Others
<1>9. GoodParent(D, parent) /\ parent.id = destination /\ source \notin ToSet(parent.path)
      /\ (destination # NoProject => parent.path = D[destination].path)
  <2>1. CASE destination = NoProject
    <3>1. parent = TopLevel /\ TopLevel.id = NoProject /\ TopLevel.path = <<>> BY <2>1 DEF TopLevel
    <3>2. source \notin ToSet(<<>>) BY DEF ToSet
    <3> HIDE DEF parent
    <3>3. QED BY <2>1, <3>1, <3>2 DEF GoodParent
  <2>2. CASE destination # NoProject
    <3>1. parent = CopyOf(D, destination) BY <2>2
    <3>2. parent.id = destination /\ parent.path = D[destination].path BY <3>1 DEF CopyOf
    <3> HIDE DEF parent
    <3>3. QED BY <1>3, <2>2, <3>1, <3>2 DEF GoodParent
  <2>3. QED BY <2>1, <2>2
<1>10. ASSUME NEW k \in kids
       PROVE  /\ k.id \in LiveIn(D) /\ k = CopyOf(D, k.id) /\ Len(k.path) < MaxDepth
              /\ parent.id # NoProject => Len(k.path) + 1 + Len(parent.path) <= MaxDepth + Len(D[source].path)
  <2>1. PICK q \in UnderIn(D, source) : k = CopyOf(D, q) BY <1>10
  <2>2. k.id = q /\ k.path = D[q].path /\ q \in LiveIn(D) /\ q \in Ids BY <2>1 DEF CopyOf, UnderIn, LiveIn
  <2>3. ASSUME parent.id # NoProject PROVE Len(k.path) + 1 + Len(parent.path) <= MaxDepth + Len(D[source].path)
    <3>1. destination # NoProject /\ destination \in Ids /\ parent.path = D[destination].path BY <1>9, <2>3
    <3>2. Len(k.path) + 1 + (Len(D[destination].path) + 1) <= MaxDepth + (Len(D[source].path) + 1)
      BY <1>3, <3>1 DEF DepthAllowed
    <3> DEFINE u == Len(k.path)
               v == Len(D[destination].path)
               w == Len(D[source].path)
    <3>3. u \in Nat /\ v \in Nat /\ w \in Nat
      <4>1. Len(D[q].path) \in Nat BY <1>4, <2>2, PathIs
      <4>2. v \in Nat BY <1>4, <3>1, PathIs
      <4>3. w \in Nat BY <1>4, PathIs
      <4>4. QED BY <2>2, <4>1, <4>2, <4>3
    <3>4. u + 1 + (v + 1) <= MaxDepth + (w + 1) BY <3>2
    <3> HIDE DEF u, v, w
    <3>5. u + 1 + v <= MaxDepth + w BY <3>3, <3>4, ProjectsAssumption DEF ProjectsAssumption
    <3> HIDE DEF parent
    <3>6. QED BY <3>1, <3>5 DEF u, v, w
  <2>4. Len(k.path) < MaxDepth BY <1>4, <2>2, PathFits
  <2>5. QED BY <2>1, <2>2, <2>3, <2>4
<1> HIDE DEF r, D, kids, parent
<1>11. Merging(r, D, home)
  <2>1. \A x \in UnderIn(D, source) : CopyOf(D, x) \in kids BY DEF kids
  <2>2. QED BY <1>3, <1>7, <1>9, <1>10, <2>1 DEF Merging
<1>12. Finished(r, D) = D BY <1>4, <1>7, NothingToRename
<1>13. Phase(r, D, home) BY <1>7, <1>11, <1>12 DEF Phase
<1>14. QED BY <1>3, <1>4, <1>6, <1>8, <1>13, QuietStepInv DEF D

\* What a request that merges knows between two children.
LEMMA MergeState ==
  ASSUME TreeInv, NEW c \in Clients, call[c].pc \in {"entities", "heads"}
  PROVE  /\ call[c] \in Calls /\ call[c].op = "merge" /\ call[c].kids = {} /\ Tree(projects) /\ projects \in [Ids -> Doc]
         /\ Merging(call[c], projects, home)
         /\ \A d \in Clients \ {c} : call[d] = Idle
<1> DEFINE m == call[c]
<1>1. m.pc # "idle" /\ m.pc # "kids" OBVIOUS
<1>2. m \in Calls /\ Phase(m, projects, home) /\ Tree(projects) BY <1>1, Alone
<1>3. m.op = "merge" /\ m.kids = {} BY <1>1, <1>2 DEF Phase
<1>4. projects \in [Ids -> Doc] BY <1>2 DEF Tree
<1>5. Finished(m, projects) = projects BY <1>3, <1>4, NothingToRename
<1>6. Merging(m, projects, home) BY <1>2, <1>3, <1>5 DEF Phase
<1>7. \A d \in Clients \ {c} : call[d] = Idle BY <1>1, <1>3, Alone DEF Moving
<1>8. QED BY <1>2, <1>3, <1>4, <1>6, <1>7

LEMMA MergeEntitiesInv ==
  ASSUME ProjectsAssumption, TreeInv, Shallow, NEW c \in Clients, MergeEntities(c)
  PROVE  TreeInv'
<1> DEFINE m == call[c]
           D == projects
           heads == {CopyOf(D, x) : x \in {y \in LiveIn(D) : D[y].parent = m.target}}
           r == [m EXCEPT !.pc = "heads", !.heads = heads]
<1>1. /\ m.pc = "entities" /\ projects' = projects
      /\ home' = [e \in Entities |-> IF home[e] = m.target /\ Mergeable(e) THEN m.parent.id ELSE home[e]]
      /\ Goto(c, [m EXCEPT !.pc = "heads", !.heads = {Copy(q) : q \in {x \in Live : projects[x].parent = m.target}}])
  BY DEF MergeEntities
<1>2. {Copy(q) : q \in {x \in Live : projects[x].parent = m.target}} = heads BY DEF Copy, CopyOf, Live, LiveIn
<1>3. Goto(c, r) BY <1>1, <1>2
<1>4. /\ m \in Calls /\ m.op = "merge" /\ m.kids = {} /\ Tree(D) /\ D \in [Ids -> Doc] /\ Merging(m, D, home)
      /\ \A d \in Clients \ {c} : call[d] = Idle
  BY <1>1, MergeState
<1>5. heads \subseteq CopyType
  <2>1. \A x \in {y \in LiveIn(D) : D[y].parent = m.target} : x \in Ids BY DEF LiveIn
  <2>2. \A x \in {y \in LiveIn(D) : D[y].parent = m.target} : CopyOf(D, x) \in CopyType BY <1>4, <2>1, CopyFields
  <2> HIDE DEF D, m
  <2>3. QED BY <2>2
<1> HIDE DEF heads
<1>6. /\ r \in Calls /\ r.op = "merge" /\ r.pc = "heads" /\ r.kids = {} /\ r.heads = heads /\ r.target = m.target
      /\ r.parent = m.parent /\ r.all = m.all
  BY <1>4, <1>5 DEF Calls
<1>7. m.target \in LiveIn(D) /\ GoodParent(D, m.parent) /\ m.parent.id # m.target /\ m.self = CopyOf(D, m.target)
  BY <1>1, <1>4 DEF Merging
<1>8. m.parent.id = NoProject \/ m.parent.id \in LiveIn(D) BY <1>7 DEF GoodParent, TopLevel
<1>9. HomesKnown'
  <2>1. HomesKnown BY DEF TreeInv
  <2>2. m.parent.id \in Ids \cup {NoProject} BY <1>8 DEF LiveIn
  <2>3. home' \in [Entities -> Ids \cup {NoProject, Gone}] BY <1>1, <2>1, <2>2 DEF HomesKnown
  <2>4. \A e \in Entities \ Archived : home'[e] = NoProject \/ home'[e] \in LiveIn(projects') BY <1>1, <1>8, <2>1 DEF HomesKnown
  <2>5. QED BY <2>3, <2>4 DEF HomesKnown
<1>10. \A e \in Entities \ Archived : home'[e] # m.target BY <1>1, <1>7 DEF Mergeable
<1>11. \A k \in m.all : Len(k.path) <= Len(D[m.target].path) + 2
  <2>1. \A k \in m.all : Len(k.path) <= Len(m.self.path) + 2 BY <1>1 DEF Shallow
  <2>2. m.self.path = D[m.target].path BY <1>7 DEF CopyOf
  <2>3. QED BY <2>1, <2>2
<1>12. Others(c, r)
  <2>1. Idle.op \notin Moving /\ Idle.pc # "kids" BY DEF Idle, Moving
  <2>2. QED BY <1>4, <2>1 DEF Others
<1>13. projects' \in [Ids -> Doc] /\ Tree(projects') BY <1>1, <1>4
<1> HIDE DEF r
<1>14. Merging(r, D, home') BY <1>4, <1>6, <1>10, <1>11 DEF Merging, heads
<1>15. Finished(r, D) = D BY <1>4, <1>6, NothingToRename
<1>16. Phase(r, projects', home') BY <1>1, <1>6, <1>14, <1>15 DEF Phase
<1>17. QED BY <1>3, <1>4, <1>6, <1>9, <1>12, <1>13, <1>16, StepInv

\* All children of the merged project have been moved: nothing is under it.
LEMMA MergeEmptied ==
  ASSUME ProjectsAssumption, TreeInv, NEW c \in Clients, MergeDone(c)
  PROVE  LET t == call[c].target
         IN  /\ Tree(projects) /\ t \in LiveIn(projects) /\ UnderIn(projects, t) = {}
             /\ projects' = [x \in Ids |-> IF x \in {t} \cup UnderIn(projects, t) THEN NoDoc ELSE projects[x]]
             /\ \A e \in Entities \ Archived : home[e] # t
             /\ \A d \in Clients \ {c} : call[d] = Idle
<1> DEFINE m == call[c]
           t == m.target
<1>1. m.pc = "heads" /\ m.heads = {} /\ projects' = [projects EXCEPT ![t] = NoDoc] BY DEF MergeDone
<1>2. /\ Tree(projects) /\ projects \in [Ids -> Doc] /\ Merging(m, projects, home)
      /\ \A d \in Clients \ {c} : call[d] = Idle
  BY <1>1, MergeState
<1>3. /\ t \in LiveIn(projects) /\ m.heads = {CopyOf(projects, x) : x \in {y \in LiveIn(projects) : projects[y].parent = t}}
      /\ \A e \in Entities \ Archived : home[e] # t
  BY <1>1, <1>2 DEF Merging
<1>4. UnderIn(projects, t) = {}
  <2>1. ASSUME NEW y \in UnderIn(projects, t) PROVE FALSE
    <3>1. PICK z \in LiveIn(projects) : projects[z].parent = t BY <1>2, <1>3, SomeChild
    <3>2. CopyOf(projects, z) \in m.heads BY <1>3, <3>1
    <3>3. QED BY <1>1, <3>2
  <2>2. QED BY <2>1
<1>5. projects' = [x \in Ids |-> IF x \in {t} \cup UnderIn(projects, t) THEN NoDoc ELSE projects[x]]
  <2> HIDE DEF t
  <2>1. QED BY <1>1, <1>2, <1>4
<1>6. QED BY <1>2, <1>3, <1>4, <1>5

LEMMA MergeDoneInv == ASSUME ProjectsAssumption, TreeInv, NEW c \in Clients, MergeDone(c) PROVE TreeInv'
<1> DEFINE t == call[c].target
<1>1. /\ Tree(projects) /\ t \in LiveIn(projects) /\ UnderIn(projects, t) = {}
      /\ projects' = [x \in Ids |-> IF x \in {t} \cup UnderIn(projects, t) THEN NoDoc ELSE projects[x]]
      /\ \A e \in Entities \ Archived : home[e] # t
      /\ \A d \in Clients \ {c} : call[d] = Idle
  BY MergeEmptied
<1>2. home' = [e \in Entities |-> IF home[e] = t THEN Gone ELSE home[e]] /\ Goto(c, Idle) BY DEF MergeDone, Return
<1> HIDE DEF t
<1>3. Tree(projects') /\ LiveIn(projects') = LiveIn(projects) \ ({t} \cup UnderIn(projects, t)) BY <1>1, RemovedTree
<1>4. HomesKnown'
  <2>1. HomesKnown BY DEF TreeInv
  <2>2. home' \in [Entities -> Ids \cup {NoProject, Gone}] BY <1>2, <2>1 DEF HomesKnown
  <2>3. \A e \in Entities \ Archived : home'[e] = home[e] BY <1>1, <1>2
  <2>4. \A e \in Entities \ Archived : home[e] = NoProject \/ home[e] \in LiveIn(projects') BY <1>1, <1>3, <2>1 DEF HomesKnown
  <2>5. QED BY <2>2, <2>3, <2>4 DEF HomesKnown
<1>5. Others(c, Idle)
  <2>1. Idle.op \notin Moving /\ Idle.pc # "kids" BY DEF Idle, Moving
  <2>2. QED BY <1>1, <2>1 DEF Others
<1>6. projects' \in [Ids -> Doc] BY <1>3 DEF Tree
<1>7. QED BY <1>1, <1>2, <1>3, <1>4, <1>5, <1>6, IdleCall, IdlePhase, StepInv

\* The move of one child: its kids are all the projects under it, because the merge is shallow.
MovesChild(m, D, x, A, r) ==
  LET name == Append(m.parent.name, Last(D[x].name))
  IN  /\ x \in LiveIn(D) /\ D[x].parent = m.target
      /\ MoveAllowed(D, x, name, m.parent)
      /\ Repositioned(D, x, name, m.parent, A, r)
      /\ A = [D EXCEPT ![x] = UnderParent(name, m.parent)]
      /\ r \in Calls /\ r.op = "merge" /\ r.pc = "kids" /\ r.target = m.target /\ r.parent = m.parent /\ r.all = m.all
      /\ r.heads = m.heads \ {CopyOf(D, x)}

LEMMA ChildApart ==
  ASSUME ProjectsAssumption, NEW D, Tree(D), NEW t \in LiveIn(D), NEW parent, GoodParent(D, parent),
         parent.id # t, t \notin ToSet(parent.path), NEW x \in LiveIn(D), D[x].parent = t
  PROVE  parent.id # x /\ x \notin ToSet(parent.path)
<1>1. t # NoProject BY ProjectsAssumption DEF LiveIn, ProjectsAssumption
<1>2. x \in UnderIn(D, t) BY <1>1, ParentAbove
<1>3. CASE parent = TopLevel
  <2>1. x # NoProject BY ProjectsAssumption DEF LiveIn, ProjectsAssumption
  <2>2. QED BY <1>3, <2>1 DEF TopLevel, ToSet
<1>4. CASE parent.id \in LiveIn(D) /\ parent = CopyOf(D, parent.id)
  <2>1. parent.path = D[parent.id].path BY <1>4 DEF CopyOf
  <2>2. parent.id \notin UnderIn(D, t) BY <2>1 DEF UnderIn
  <2>3. parent.id # x BY <1>2, <2>2
  <2>4. ASSUME x \in ToSet(parent.path) PROVE FALSE
    <3>1. parent.id \in UnderIn(D, x) BY <1>4, <2>1, <2>4 DEF UnderIn
    <3>2. parent.id \in UnderIn(D, t) BY <1>2, <3>1, Transitive
    <3>3. QED BY <2>2, <3>2
  <2>5. QED BY <2>3, <2>4
<1>5. QED BY <1>3, <1>4 DEF GoodParent

LEMMA ParentDepth ==
  ASSUME NEW D, Tree(D), NEW parent, GoodParent(D, parent)
  PROVE  /\ Len(parent.name) \in Nat /\ Len(parent.path) \in Nat
         /\ parent.id # NoProject => Len(parent.name) = Len(parent.path) + 1
         /\ parent.id = NoProject => parent = TopLevel \/ NoProject \in LiveIn(D)
         /\ parent = TopLevel => Len(parent.name) = 0
<1>1. CASE parent = TopLevel
  <2>1. Len(<<>>) = 0 OBVIOUS
  <2>2. QED BY <1>1, <2>1 DEF TopLevel
<1>2. CASE parent.id \in LiveIn(D) /\ parent = CopyOf(D, parent.id) /\ parent # TopLevel
  <2> DEFINE q == parent.id
  <2>1. parent.name = D[q].name /\ parent.path = D[q].path BY <1>2 DEF CopyOf
  <2>2. q \in Ids /\ D \in [Ids -> Doc] /\ Len(D[q].name) = Len(D[q].path) + 1 BY <1>2 DEF Tree, Rooted, LiveIn
  <2>3. Len(D[q].path) \in Nat BY <2>2, PathIs
  <2> HIDE DEF q
  <2>4. Len(D[q].name) \in Nat BY <2>2, <2>3
  <2>5. QED BY <1>2, <2>1, <2>2, <2>3, <2>4 DEF q
<1>3. QED BY <1>1, <1>2 DEF GoodParent

\* A child of the merged project may be moved to the destination.
LEMMA ChildMayMove ==
  ASSUME ProjectsAssumption, NEW m \in Calls, NEW D, NEW h, Tree(D), Merging(m, D, h), NEW x \in LiveIn(D), D[x].parent = m.target,
         NEW name, name = Append(m.parent.name, Last(D[x].name)), MaySave(name, m.parent, x), projects = D
  PROVE  MoveAllowed(D, x, name, m.parent)
<1> DEFINE t == m.target
           parent == m.parent
<1>1. /\ t \in LiveIn(D) /\ GoodParent(D, parent) /\ parent.id # t /\ t \notin ToSet(parent.path) BY DEF Merging
<1>2. parent.id # x /\ x \notin ToSet(parent.path) BY <1>1, ChildApart
<1>3. Front(name) = parent.name /\ \A y \in LiveIn(D) : D[y].name = name => y = x
  BY DEF MaySave, NameFree, ByName, Live, LiveIn
<1>4. t # NoProject /\ D \in [Ids -> Doc] /\ MaxDepth \in Nat BY <1>1, ProjectsAssumption DEF Tree, LiveIn, ProjectsAssumption
<1>5. x \in UnderIn(D, t) /\ Len(D[x].path) = Len(D[t].path) + 1 /\ Len(D[t].path) \in Nat BY <1>4, ParentAbove
<1>6. ASSUME NEW y \in {x} \cup UnderIn(D, x)
      PROVE  Len(D[y].path) + 1 + Len(parent.name) <= MaxDepth + Len(D[x].path)
  <2>1. y \in UnderIn(D, t) /\ y \in LiveIn(D) /\ y \in Ids
    <3>1. y \in UnderIn(D, t) BY <1>5, Transitive
    <3>2. QED BY <3>1 DEF UnderIn, LiveIn
  <2>2. Len(D[y].path) \in Nat BY <1>4, <2>1, PathIs
  <2> DEFINE u == Len(D[y].path)
             v == Len(parent.name)
             w == Len(parent.path)
             a == Len(D[x].path)
             b == Len(D[t].path)
  <2>3. u \in Nat /\ v \in Nat /\ w \in Nat /\ a = b + 1 /\ b \in Nat BY <1>1, <1>5, <2>2, ParentDepth
  <2>4. CASE parent.id # NoProject
    <3>1. v = w + 1 BY <1>1, <2>4, ParentDepth
    <3>2. CopyOf(D, y) \in m.all BY <2>1 DEF Merging
    <3>3. Len(CopyOf(D, y).path) + 1 + w <= MaxDepth + b BY <2>4, <3>2 DEF Merging
    <3>4. u + 1 + w <= MaxDepth + b BY <3>3 DEF CopyOf
    <3> HIDE DEF u, v, w, a, b
    <3>5. u + 1 + v <= MaxDepth + a BY <1>4, <2>3, <3>1, <3>4
    <3>6. QED BY <3>5 DEF u, v, a
  <2>5. CASE parent.id = NoProject
    <3>1. NoProject \notin LiveIn(D) BY ProjectsAssumption DEF LiveIn, ProjectsAssumption
    <3>2. v = 0 BY <1>1, <2>5, <3>1, ParentDepth
    <3>3. u + 1 <= MaxDepth
      <4>1. Len(D[y].name) \in 0..MaxDepth BY <1>4, <2>1, DocFields
      <4>2. Len(D[y].name) = u + 1 BY <2>1 DEF Tree, Rooted
      <4> HIDE DEF u
      <4>3. QED BY <1>4, <4>1, <4>2
    <3> HIDE DEF u, v, w, a, b
    <3>4. u + 1 + v <= MaxDepth + a BY <1>4, <2>3, <3>2, <3>3
    <3>5. QED BY <3>4 DEF u, v, a
  <2>6. QED BY <2>4, <2>5
<1> HIDE DEF t, parent
<1>7. name = Append(parent.name, Last(D[x].name)) BY DEF parent
<1>8. MoveAllowed(D, x, name, parent) BY <1>1, <1>2, <1>3, <1>6, <1>7, RoomToMove
<1>9. QED BY <1>8 DEF parent

\* The kids that go with a child.
LEMMA KidsAre ==
  ASSUME ProjectsAssumption, NEW m \in Calls, NEW D, NEW h, Tree(D), Merging(m, D, h), m.pc = "heads",
         NEW x \in LiveIn(D), D[x].parent = m.target
  PROVE  {k \in m.all : D[k.id].parent = x} = {CopyOf(D, y) : y \in UnderIn(D, x)}
<1> DEFINE t == m.target
<1>1. t \in LiveIn(D) /\ D \in [Ids -> Doc] /\ x \in Ids BY DEF Merging, Tree, LiveIn
<1>2. t # NoProject /\ x # NoProject BY <1>1, ProjectsAssumption DEF LiveIn, ProjectsAssumption
<1>3. x \in UnderIn(D, t) /\ Len(D[x].path) = Len(D[t].path) + 1 /\ Len(D[t].path) \in Nat BY <1>2, ParentAbove
<1>4. ASSUME NEW y \in UnderIn(D, x) PROVE CopyOf(D, y) \in m.all /\ D[y].parent = x
  <2>1. y \in UnderIn(D, t) /\ y \in LiveIn(D) /\ y \in Ids
    <3>1. y \in UnderIn(D, t) BY <1>3, Transitive
    <3>2. QED BY <3>1 DEF UnderIn, LiveIn
  <2>2. CopyOf(D, y) \in m.all BY <2>1 DEF Merging
  <2>3. Len(CopyOf(D, y).path) <= Len(D[t].path) + 2 BY <2>2 DEF Merging
  <2> DEFINE s == D[y].path
             n == Len(D[x].path)
             b == Len(D[t].path)
  <2>4. Len(s) <= b + 2 BY <2>3 DEF CopyOf
  <2>5. n + 1 \in 1..Len(s) /\ s[n + 1] = x BY Position
  <2>6. s \in Seq(Ids) /\ Len(s) \in Nat BY <1>1, <2>1, PathIs
  <2>7. n = b + 1 /\ b \in Nat BY <1>3
  <2> HIDE DEF s, n, b
  <2>8. Len(s) = n + 1 /\ s # <<>> BY <2>4, <2>5, <2>6, <2>7
  <2>9. Last(s) = x BY <2>5, <2>6, <2>8, FrontAndLast
  <2>10. D[y].parent = x BY <2>1, <2>8, <2>9 DEF Tree, Rooted, s
  <2>11. QED BY <2>2, <2>10
<1>5. ASSUME NEW k \in m.all, D[k.id].parent = x PROVE k \in {CopyOf(D, y) : y \in UnderIn(D, x)}
  <2>1. k.id \in LiveIn(D) BY DEF Merging
  <2>2. k.id \in UnderIn(D, x) BY <1>2, <1>5, <2>1, ParentAbove
  <2>3. k.id \in UnderIn(D, t) BY <1>3, <2>2, Transitive
  <2>4. k = CopyOf(D, k.id) BY <2>3 DEF Merging, UnderIn
  <2>5. QED BY <2>2, <2>4
<1>6. \A y : CopyOf(D, y).id = y BY DEF CopyOf
<1> HIDE DEF t
<1>7. \A y \in UnderIn(D, x) : CopyOf(D, y) \in {k \in m.all : D[k.id].parent = x} BY <1>4, <1>6
<1>8. QED BY <1>5, <1>7

LEMMA MergeChildMoves ==
  ASSUME ProjectsAssumption, TreeInv, NEW c \in Clients, MergeChild(c)
  PROVE  \/ Return(c) /\ projects' = projects
         \/ \E x \in LiveIn(projects), r \in Calls : MovesChild(call[c], projects, x, projects', r) /\ Goto(c, r)
<1> DEFINE m == call[c]
           D == projects
<1>1. m.pc = "heads" BY DEF MergeChild
<1>2. m \in Calls /\ m.op = "merge" /\ m.kids = {} /\ Tree(D) /\ D \in [Ids -> Doc] /\ Merging(m, D, home)
  BY <1>1, MergeState
<1>3. m.heads = {CopyOf(D, x) : x \in {y \in LiveIn(D) : D[y].parent = m.target}} BY <1>1, <1>2 DEF Merging
<1>4. PICK child \in m.heads : Reposition(c, child, KidsOf(child.id, m.all), m.parent, [m EXCEPT !.heads = @ \ {child}])
  BY DEF MergeChild
<1>5. PICK x \in {y \in LiveIn(D) : D[y].parent = m.target} : child = CopyOf(D, x) BY <1>3
<1>6. child.id = x /\ child.name = D[x].name /\ x \in LiveIn(D) /\ D[x].parent = m.target /\ x \in Ids
  BY <1>5 DEF CopyOf, LiveIn
<1> DEFINE name == Append(m.parent.name, Last(D[x].name))
           doc == UnderParent(name, m.parent)
           next == [m EXCEPT !.heads = @ \ {child}]
           kids == {k \in m.all : D[k.id].parent = x}
           r == [next EXCEPT !.pc = "kids", !.self = child, !.kids = kids, !.name = name, !.path = doc.path]
<1>7. KidsOf(child.id, m.all) = kids BY <1>6 DEF KidsOf
<1>8. CASE ~MaySave(name, m.parent, x) BY <1>4, <1>6, <1>8 DEF Reposition
<1>9. CASE MaySave(name, m.parent, x)
  <2>1. projects' = [D EXCEPT ![x] = doc] /\ Goto(c, r) BY <1>4, <1>6, <1>7, <1>9 DEF Reposition
  <2>2. MoveAllowed(D, x, name, m.parent)
    <3>1. projects = D /\ name = Append(m.parent.name, Last(D[x].name)) OBVIOUS
    <3> HIDE DEF name, D, m
    <3>2. QED BY <1>2, <1>6, <1>9, <3>1, ChildMayMove
  <2>3. kids = {CopyOf(D, y) : y \in UnderIn(D, x)} BY <1>1, <1>2, <1>6, KidsAre
  <2>4. name \in Names /\ doc \in Doc
    <3>1. name \in Names /\ name # <<>> /\ Front(name) = m.parent.name /\ GoodParent(D, m.parent) BY <2>2 DEF MoveAllowed
    <3>2. QED BY <1>2, <3>1, PathBelow
  <2>5. kids \in SUBSET CopyType /\ child \in CopyType
    <3>1. m.all \subseteq CopyType /\ m.heads \subseteq CopyType BY <1>2 DEF Calls
    <3>2. QED BY <3>1
  <2>6. next \in Calls /\ next.op = "merge" /\ next.target = m.target /\ next.parent = m.parent /\ next.all = m.all
        /\ next.heads = m.heads \ {child}
    BY <1>2 DEF Calls
  <2>7. doc.path \in Seq(Ids) BY <2>4 DEF Doc
  <2> HIDE DEF next, kids, name, doc
  <2>8. /\ r \in Calls /\ r.op = "merge" /\ r.pc = "kids" /\ r.target = m.target /\ r.parent = m.parent /\ r.all = m.all
        /\ r.heads = m.heads \ {child} /\ r.self = child /\ r.kids = kids /\ r.name = name /\ r.path = doc.path
    BY <2>4, <2>5, <2>6, <2>7 DEF Calls
  <2> HIDE DEF r, m, D
  <2>9. Repositioned(D, x, name, m.parent, projects', r)
    BY <1>5, <2>1, <2>2, <2>3, <2>8 DEF Repositioned, doc
  <2>10. MovesChild(m, D, x, projects', r)
    BY <1>5, <1>6, <2>1, <2>2, <2>8, <2>9 DEF MovesChild, name, doc
  <2>11. QED BY <1>6, <2>1, <2>8, <2>10 DEF m, D
<1>10. QED BY <1>8, <1>9

\* The request stays what it was, for the tree without the child and what is under it.
LEMMA MergingMoved ==
  ASSUME ProjectsAssumption, NEW m \in Calls, NEW D, NEW h, Tree(D), Merging(m, D, h), m.pc = "heads",
         NEW x, NEW A, NEW r, MovesChild(m, D, x, A, r),
         NEW M, M = Moved(D, x, Append(m.parent.name, Last(D[x].name)), m.parent)
  PROVE  Merging(r, M, h)
<1> DEFINE t == m.target
           S == {x} \cup UnderIn(D, x)
           name == Append(m.parent.name, Last(D[x].name))
<1>1. /\ x \in LiveIn(D) /\ D[x].parent = t /\ MoveAllowed(D, x, name, m.parent)
      /\ r.pc = "kids" /\ r.target = t /\ r.parent = m.parent /\ r.all = m.all /\ r.heads = m.heads \ {CopyOf(D, x)}
  BY DEF MovesChild
<1>2. /\ t \in LiveIn(D) /\ t \in Ids /\ GoodParent(D, m.parent) /\ m.parent.id # t /\ t \notin ToSet(m.parent.path)
      /\ \A y \in UnderIn(D, t) : CopyOf(D, y) \in m.all
      /\ m.heads = {CopyOf(D, y) : y \in {z \in LiveIn(D) : D[z].parent = t}}
      /\ \A k \in m.all : Len(k.path) <= Len(D[t].path) + 2
      /\ \A e \in Entities \ Archived : h[e] # t
      /\ D \in [Ids -> Doc]
  BY DEF Merging, LiveIn, Tree
<1>3. LeavesBehind(D, M, t, x) BY <1>1, <1>2, MovedAway
<1>4. LiveIn(M) = LiveIn(D) /\ M \in [Ids -> Doc] /\ \A y \in Ids \ S : M[y] = D[y]
  <2>1. LiveIn(M) = LiveIn(D) /\ M \in [Ids -> Doc] BY <1>1, MovedOthers
  <2>2. \A y \in Ids : y # x /\ y \notin UnderIn(D, x) => M[y] = D[y] BY <1>1, MovedOthers
  <2>3. QED BY <2>1, <2>2
<1> HIDE DEF name
<1>5. /\ t \notin S /\ x \in UnderIn(D, t)
      /\ \A y \in S : t \notin ToSet(M[y].path) /\ M[y].parent # t
      /\ \A y \in UnderIn(D, x) : D[y].parent # t
  BY <1>3 DEF LeavesBehind
<1>6. \A y \in Ids : x \in Ids /\ CopyOf(D, y).id = y /\ CopyOf(M, y).id = y BY <1>1 DEF CopyOf, LiveIn
<1> HIDE DEF S, t
<1>7. M[t] = D[t] BY <1>2, <1>4, <1>5
<1>8. \A y \in LiveIn(D) : t \in ToSet(M[y].path) => y \in UnderIn(D, t) /\ CopyOf(M, y) = CopyOf(D, y)
  <2>1. ASSUME NEW y \in LiveIn(D), t \in ToSet(M[y].path) PROVE y \in UnderIn(D, t) /\ CopyOf(M, y) = CopyOf(D, y)
    <3>1. y \in Ids \ S BY <1>5, <2>1 DEF LiveIn
    <3>2. M[y] = D[y] BY <1>4, <3>1
    <3>3. QED BY <2>1, <3>2 DEF UnderIn, CopyOf
  <2>2. QED BY <2>1
<1>9. GoodParent(M, m.parent)
  <2>1. CASE m.parent = TopLevel BY <2>1 DEF GoodParent
  <2>2. CASE m.parent.id \in LiveIn(D) /\ m.parent = CopyOf(D, m.parent.id)
    <3>1. m.parent.path = D[m.parent.id].path BY <2>2 DEF CopyOf
    <3>2. m.parent.id # x /\ x \notin ToSet(m.parent.path) BY <1>1 DEF MoveAllowed
    <3>3. m.parent.id \notin S BY <3>1, <3>2 DEF S, UnderIn
    <3>4. M[m.parent.id] = D[m.parent.id] BY <1>4, <2>2, <3>3 DEF LiveIn
    <3>5. CopyOf(M, m.parent.id) = CopyOf(D, m.parent.id) BY <3>4 DEF CopyOf
    <3>6. QED BY <1>4, <2>2, <3>5 DEF GoodParent
  <2>3. QED BY <1>2, <2>1, <2>2 DEF GoodParent
<1>10. \A y \in UnderIn(M, t) : CopyOf(M, y) \in m.all BY <1>2, <1>4, <1>8 DEF UnderIn
<1>11. ASSUME NEW k \in m.all
       PROVE  /\ k.id \in LiveIn(M) /\ Len(k.path) < MaxDepth
              /\ t \in ToSet(M[k.id].path) => k = CopyOf(M, k.id)
              /\ m.parent.id # NoProject => Len(k.path) + 1 + Len(m.parent.path) <= MaxDepth + Len(M[t].path)
  <2>1. /\ k.id \in LiveIn(D) /\ Len(k.path) < MaxDepth /\ (t \in ToSet(D[k.id].path) => k = CopyOf(D, k.id))
        /\ (m.parent.id # NoProject => Len(k.path) + 1 + Len(m.parent.path) <= MaxDepth + Len(D[t].path))
    BY DEF Merging, t
  <2>2. t \in ToSet(M[k.id].path) => k = CopyOf(M, k.id) BY <1>8, <2>1 DEF UnderIn
  <2>3. QED BY <1>4, <1>7, <2>1, <2>2
<1>12. m.heads \ {CopyOf(D, x)} = {CopyOf(M, y) : y \in {z \in LiveIn(M) : M[z].parent = t}}
  <2>1. ASSUME NEW y \in LiveIn(D) PROVE (M[y].parent = t) <=> (D[y].parent = t /\ y # x)
    <3>1. CASE y \in S
      <4>1. M[y].parent # t BY <1>5, <3>1
      <4>2. y = x \/ D[y].parent # t BY <1>5, <3>1 DEF S
      <4>3. QED BY <4>1, <4>2
    <3>2. CASE y \notin S
      <4>1. M[y] = D[y] /\ y # x BY <1>4, <3>2 DEF LiveIn, S
      <4>2. QED BY <4>1
    <3>3. QED BY <3>1, <3>2
  <2>2. ASSUME NEW y \in LiveIn(D), M[y].parent = t PROVE CopyOf(M, y) = CopyOf(D, y)
    <3>1. y \notin S /\ y \in Ids BY <1>5, <2>2 DEF LiveIn
    <3>2. M[y] = D[y] BY <1>4, <3>1
    <3>3. QED BY <3>2 DEF CopyOf
  <2>3. \A y \in LiveIn(D) : CopyOf(D, y) = CopyOf(D, x) => y = x BY <1>1, <1>6 DEF LiveIn
  <2>4. ASSUME NEW k \in m.heads \ {CopyOf(D, x)} PROVE k \in {CopyOf(M, y) : y \in {z \in LiveIn(M) : M[z].parent = t}}
    <3>1. PICK y \in {z \in LiveIn(D) : D[z].parent = t} : k = CopyOf(D, y) BY <1>2
    <3>2. y # x BY <2>4, <3>1
    <3>3. M[y].parent = t /\ CopyOf(M, y) = CopyOf(D, y) /\ y \in LiveIn(M) BY <1>4, <2>1, <2>2, <3>1, <3>2
    <3>4. QED BY <3>1, <3>3
  <2>5. ASSUME NEW y \in LiveIn(M), M[y].parent = t PROVE CopyOf(M, y) \in m.heads \ {CopyOf(D, x)}
    <3>1. y \in LiveIn(D) /\ D[y].parent = t /\ y # x /\ CopyOf(M, y) = CopyOf(D, y) BY <1>4, <2>1, <2>2, <2>5
    <3>2. CopyOf(D, y) \in m.heads BY <1>2, <3>1
    <3>3. CopyOf(D, y) # CopyOf(D, x) BY <2>3, <3>1
    <3>4. QED BY <3>1, <3>2, <3>3
  <2>6. QED BY <2>4, <2>5
<1>13. \A k \in m.all : Len(k.path) <= Len(M[t].path) + 2 BY <1>2, <1>7
<1>14. r.pc = "kids" /\ r.target = t /\ r.parent = m.parent /\ r.all = m.all /\ r.heads = m.heads \ {CopyOf(D, x)}
  BY <1>1 DEF t
<1>15. QED BY <1>2, <1>4, <1>9, <1>10, <1>11, <1>12, <1>13, <1>14 DEF Merging

LEMMA MergeChildInv == ASSUME ProjectsAssumption, TreeInv, NEW c \in Clients, MergeChild(c) PROVE TreeInv'
<1> DEFINE m == call[c]
           D == projects
<1>1. m.pc = "heads" /\ home' = home BY DEF MergeChild
<1>2. /\ m \in Calls /\ Tree(D) /\ D \in [Ids -> Doc] /\ Merging(m, D, home)
      /\ \A d \in Clients \ {c} : call[d] = Idle
  BY <1>1, MergeState
<1>3. CASE Return(c) /\ projects' = projects
  <2>1. m.pc # "idle" BY <1>1
  <2>2. QED BY <1>1, <1>2, <1>3, <2>1, ReturnInv
<1>4. ASSUME NEW x \in LiveIn(D), NEW r \in Calls, MovesChild(m, D, x, projects', r), Goto(c, r) PROVE TreeInv'
  <2> DEFINE name == Append(m.parent.name, Last(D[x].name))
             M == Moved(D, x, name, m.parent)
  <2>1. Repositioned(D, x, name, m.parent, projects', r) /\ r.op = "merge" /\ r.pc = "kids" BY <1>4 DEF MovesChild
  <2> HIDE DEF m, D
  <2>2. M = Moved(D, x, Append(m.parent.name, Last(D[x].name)), m.parent) OBVIOUS
  <2> HIDE DEF M
  <2>3. Merging(r, M, home) BY <1>1, <1>2, <1>4, <2>2, MergingMoved
  <2> HIDE DEF name
  <2>4. projects' \in [Ids -> Doc] /\ LiveIn(projects') = LiveIn(D) /\ Finished(r, projects') = M /\ Renaming(r, projects')
    BY <2>1, RepositionedIs DEF M
  <2>5. HomesKnown' BY <1>1, <2>4 DEF HomesKnown, TreeInv, D
  <2>6. Phase(r, projects', home') BY <1>1, <2>1, <2>3, <2>4 DEF Phase
  <2>7. Others(c, r)
    <3>1. Idle.op \notin Moving /\ Idle.pc # "kids" BY DEF Idle, Moving
    <3>2. QED BY <1>2, <3>1 DEF Others
  <2>8. QED BY <1>2, <1>4, <2>1, <2>4, <2>5, <2>6, <2>7, StepInv
<1>5. QED BY <1>3, <1>4, MergeChildMoves

-----------------------------------------------------------------------------
(* The invariant always holds.                                             *)

LEMMA TreeInvInit == ASSUME ProjectsAssumption, Init PROVE TreeInv
<1>1. Idle \in Calls BY IdleCall
<1>2. <<>> \in Names /\ <<>> \in Seq(Ids)
  <2>1. TopLevel \in CopyType BY IdleCall
  <2>2. QED BY <2>1 DEF TopLevel, CopyType
<1>3. NoDoc \in Doc BY <1>2 DEF NoDoc, Doc
<1>4. projects \in [Ids -> Doc] /\ (\A p \in Ids : projects[p] = NoDoc) BY <1>3 DEF Init
<1>5. LiveIn(projects) = {}
  <2>1. ~NoDoc.exists BY DEF NoDoc
  <2>2. QED BY <1>4, <2>1 DEF LiveIn
<1>6. call \in [Clients -> Calls] /\ \A c \in Clients : call[c] = Idle BY <1>1 DEF Init
<1>7. Tree(projects) BY <1>4, <1>5 DEF Tree
<1>8. HomesKnown BY DEF Init, HomesKnown
<1>9. OneMover BY <1>6 DEF OneMover
<1>10. \A c \in Clients : Phase(call[c], projects, home) BY <1>6, IdlePhase
<1>11. QED BY <1>4, <1>6, <1>7, <1>8, <1>9, <1>10 DEF TreeInv, Whole

LEMMA TreeInvStep == ASSUME ProjectsAssumption, TreeInv, Shallow, [Next]_vars PROVE TreeInv'
<1>1. CASE UNCHANGED vars
  BY <1>1 DEF vars, TreeInv, HomesKnown, OneMover, Whole
<1>2. ASSUME NEW c \in Clients PROVE
        /\ \A raw \in Asks[c].create : Create(c, raw) => TreeInv'
        /\ \A raw \in Asks[c].under, S \in Batches : MoveUnder(c, raw, S) => TreeInv'
        /\ \A raw \in Asks[c].move, p \in Ids : Move(c, p, raw) => TreeInv'
        /\ \A p \in Asks[c].ids, q \in Ids \cup {NoProject} : Merge(c, p, q) => TreeInv'
        /\ \A raw \in Asks[c].rename, p \in Ids : Update(c, p, raw) => TreeInv'
        /\ \A p \in Asks[c].ids, force \in BOOLEAN : DeleteProject(c, p, force) => TreeInv'
  <2>1. /\ Asks[c].create \subseteq Raw /\ Asks[c].under \subseteq Raw
        /\ Asks[c].move \subseteq Raw /\ Asks[c].rename \subseteq Raw /\ Asks[c].ids \subseteq Ids
    BY AskedNames
  <2>2. Batches \subseteq SUBSET Entities BY ProjectsAssumption DEF ProjectsAssumption
  <2>3. \A raw \in Asks[c].create : Create(c, raw) => TreeInv' BY <2>1, CreateInv
  <2>4. \A raw \in Asks[c].under, S \in Batches : MoveUnder(c, raw, S) => TreeInv' BY <2>1, <2>2, MoveUnderInv
  <2>5. \A raw \in Asks[c].move, p \in Ids : Move(c, p, raw) => TreeInv' BY <2>1, MoveInv
  <2>6. \A p \in Asks[c].ids, q \in Ids \cup {NoProject} : Merge(c, p, q) => TreeInv' BY <2>1, MergeInv
  <2>7. \A raw \in Asks[c].rename, p \in Ids : Update(c, p, raw) => TreeInv' BY <2>1, UpdateInv
  <2>8. \A p \in Asks[c].ids, force \in BOOLEAN : DeleteProject(c, p, force) => TreeInv' BY <2>1, DeleteProjectInv
  <2>9. QED BY <2>3, <2>4, <2>5, <2>6, <2>7, <2>8
<1>3. ASSUME NEW c \in Clients PROVE
        /\ LookUp(c) \/ SaveNew(c) \/ SaveNewFails(c) \/ Assign(c) => TreeInv'
        /\ MoveEnsured(c) \/ NextKid(c) \/ LastKid(c) => TreeInv'
        /\ MergeEntities(c) \/ MergeChild(c) \/ MergeDone(c) => TreeInv'
        /\ Disassociate(c) \/ DeleteDocuments(c) => TreeInv'
  <2>1. LookUp(c) \/ SaveNew(c) \/ SaveNewFails(c) \/ Assign(c) => TreeInv'
    BY LookUpInv, SaveNewInv, SaveNewFailsInv, AssignInv
  <2>2. MoveEnsured(c) \/ NextKid(c) \/ LastKid(c) => TreeInv' BY MoveEnsuredInv, NextKidInv, LastKidInv
  <2>3. MergeEntities(c) \/ MergeChild(c) \/ MergeDone(c) => TreeInv' BY MergeEntitiesInv, MergeChildInv, MergeDoneInv
  <2>4. Disassociate(c) \/ DeleteDocuments(c) => TreeInv' BY DisassociateInv, DeleteDocumentsInv
  <2>5. QED BY <2>1, <2>2, <2>3, <2>4
<1>4. CASE Next
  <2>1. PICK c \in Clients :
          \/ \E raw \in Asks[c].create : Create(c, raw)
          \/ \E raw \in Asks[c].under, S \in Batches : MoveUnder(c, raw, S)
          \/ LookUp(c) \/ SaveNew(c) \/ SaveNewFails(c) \/ Assign(c)
          \/ \E raw \in Asks[c].move, p \in Ids : Move(c, p, raw)
          \/ MoveEnsured(c) \/ NextKid(c) \/ LastKid(c)
          \/ \E p \in Asks[c].ids, q \in Ids \cup {NoProject} : Merge(c, p, q)
          \/ MergeEntities(c) \/ MergeChild(c) \/ MergeDone(c)
          \/ \E raw \in Asks[c].rename, p \in Ids : Update(c, p, raw)
          \/ \E p \in Asks[c].ids, force \in BOOLEAN : DeleteProject(c, p, force)
          \/ Disassociate(c) \/ DeleteDocuments(c)
    BY <1>4 DEF Next
  <2>2. QED BY <1>2, <1>3, <2>1
<1>5. QED BY <1>1, <1>4

LEMMA TreeInvAlways == ASSUME ProjectsAssumption PROVE Spec /\ []Shallow => []TreeInv
<1>1. Init => TreeInv BY TreeInvInit
<1>2. TreeInv /\ Shallow /\ [Next]_vars => TreeInv' BY TreeInvStep
<1>3. QED BY <1>1, <1>2, PTL DEF Spec

-----------------------------------------------------------------------------
(* What the invariant says of the properties.                              *)

LEMMA LiveIs == Live = LiveIn(projects)
BY DEF Live, LiveIn

\* Every project has room below the limit, written or not.
LEMMA WithinDepth ==
  ASSUME ProjectsAssumption, TreeInv, NEW p \in Live
  PROVE  Len(projects[p].path) < MaxDepth /\ Len(projects[p].name) <= MaxDepth
<1>1. p \in Ids /\ p \in LiveIn(projects) /\ projects \in [Ids -> Doc] BY LiveIs DEF Live, TreeInv
<1>2. MaxDepth \in Nat BY ProjectsAssumption DEF ProjectsAssumption
<1>3. Len(projects[p].name) <= MaxDepth /\ Len(projects[p].name) \in Nat /\ Len(projects[p].path) \in Nat
  <2>1. Len(projects[p].name) \in 0..MaxDepth /\ projects[p].path \in Seq(Ids) BY <1>1, DocFields
  <2>2. Len(projects[p].path) \in Nat BY <2>1
  <2>3. QED BY <1>2, <2>1, <2>2
<1>4. ASSUME NEW D, Tree(D), p \in LiveIn(D), D[p] = projects[p] PROVE Len(projects[p].path) < MaxDepth
  <2>1. Len(D[p].name) = Len(D[p].path) + 1 BY <1>4 DEF Tree, Rooted
  <2>2. QED BY <1>2, <1>3, <1>4, <2>1
<1>5. CASE \A c \in Clients : call[c].pc # "kids"
  <2>1. Tree(projects) BY <1>5 DEF TreeInv, Whole
  <2>2. QED BY <1>1, <1>3, <1>4, <2>1
<1>6. ASSUME NEW c \in Clients, call[c].pc = "kids" PROVE Len(projects[p].path) < MaxDepth
  <2>1. Renaming(call[c], projects) BY <1>6 DEF TreeInv, Phase
  <2>2. CASE CopyOf(projects, p) \in call[c].kids
    <3>1. Len(CopyOf(projects, p).path) < MaxDepth BY <2>1, <2>2 DEF Renaming
    <3>2. QED BY <3>1 DEF CopyOf
  <2>3. CASE CopyOf(projects, p) \notin call[c].kids
    <3>1. Finished(call[c], projects)[p] = projects[p] BY <1>1, <2>3 DEF Finished
    <3>2. p \in LiveIn(Finished(call[c], projects)) BY <1>1, <3>1 DEF LiveIn
    <3>3. QED BY <1>4, <2>1, <3>1, <3>2 DEF Renaming
  <2>4. QED BY <2>2, <2>3
<1>7. QED BY <1>3, <1>5, <1>6

\* Between the requests that move projects no document is still to be written.
LEMMA SettledTree == ASSUME TreeInv, Settled PROVE Tree(projects)
<1>1. \A c \in Clients : call[c].pc # "kids"
  <2>1. ASSUME NEW c \in Clients, call[c].pc = "kids" PROVE FALSE
    <3>1. call[c].op \in {"move", "merge", "update"} BY <2>1 DEF TreeInv, Phase
    <3>2. QED BY <3>1 DEF Settled, Moving
  <2>2. QED BY <2>1
<1>2. QED BY <1>1 DEF TreeInv, Whole

LEMMA TreeTypes == ASSUME ProjectsAssumption, TreeInv PROVE TypeOK
<1>1. projects \in [Ids -> [exists: BOOLEAN, name: Names, parent: Ids \cup {NoProject}, path: Seq(Ids)]]
  BY DEF TreeInv, Doc
<1>2. home \in [Entities -> Ids \cup {NoProject, Gone}] BY DEF TreeInv, HomesKnown
<1>3. \A c \in Clients : /\ call[c].parent \in CopyType /\ call[c].self \in CopyType
                         /\ call[c].kids \subseteq CopyType /\ call[c].all \subseteq CopyType
  BY DEF TreeInv, Calls
<1>4. QED BY <1>1, <1>2, <1>3 DEF TypeOK

LEMMA TreeAgreement == ASSUME ProjectsAssumption, TreeInv PROVE TreeAgrees
<1>1. ASSUME Settled, NEW p \in Live PROVE AgreesWithParent(p)
  <2>1. Tree(projects) /\ p \in LiveIn(projects) BY <1>1, SettledTree, LiveIs
  <2> DEFINE parent == ParentIn(projects, p)
  <2>2. /\ projects[p].parent = NoProject \/ projects[p].parent \in Live
        /\ projects[p].name # <<>> /\ Front(projects[p].name) = parent.name
        /\ projects[p].path = UnderParent(projects[p].name, parent).path
    BY <2>1, ParentIs, LiveIs
  <2>3. parent = IF projects[p].parent = NoProject THEN TopLevel ELSE Copy(projects[p].parent)
    BY DEF ParentIn, Copy, CopyOf
  <2> HIDE DEF parent
  <2>4. QED BY <2>2, <2>3 DEF AgreesWithParent
<1>2. QED BY <1>1, WithinDepth DEF TreeAgrees

LEMMA HomesOfEntities == ASSUME TreeInv PROVE ActiveEntitiesHaveHomes
BY LiveIs DEF ActiveEntitiesHaveHomes, TreeInv, HomesKnown

LEMMA ThreeLevels == ASSUME ProjectsAssumption, TreeInv, MaxDepth <= 3 PROVE Shallow
<1>1. SUFFICES ASSUME NEW c \in Clients, call[c].pc = "entities", NEW k \in call[c].all
               PROVE  Len(k.path) <= Len(call[c].self.path) + 2
  BY DEF Shallow
<1> DEFINE m == call[c]
<1>2. m \in Calls /\ m.op = "merge" /\ Merging(m, Finished(m, projects), home) BY <1>1 DEF TreeInv, Phase
<1>3. Len(k.path) < MaxDepth BY <1>1, <1>2 DEF Merging
<1>4. Len(k.path) \in Nat /\ Len(m.self.path) \in Nat BY <1>1, <1>2 DEF Calls, CopyType
<1>5. QED BY <1>3, <1>4, ProjectsAssumption DEF ProjectsAssumption

\* Where services.projects.sub_projects.max_depth is three at most, every merge is shallow:
\* the theorems below then hold of every history.
THEOREM ThreeLevelsAreShallow == ASSUME ProjectsAssumption, MaxDepth <= 3 PROVE Spec => []Shallow
<1>1. Init => TreeInv /\ Shallow BY TreeInvInit, ThreeLevels
<1>2. TreeInv /\ Shallow /\ [Next]_vars => TreeInv' /\ Shallow'
  <2>1. TreeInv' => Shallow' BY ThreeLevels, PTL
  <2>2. QED BY <2>1, TreeInvStep
<1>3. QED BY <1>1, <1>2, PTL DEF Spec

\* The documents, the homes of the entities and what requests hold are what they are taken for.
THEOREM ProjectsTypeCorrect == ASSUME ProjectsAssumption PROVE Spec /\ []Shallow => []TypeOK
<1>1. TreeInv => TypeOK BY TreeTypes
<1>2. QED BY <1>1, TreeInvAlways, PTL

\* The parent, the path and the name of every project agree between requests that move
\* projects, whatever was created, moved, renamed, merged or deleted before, and no project
\* is ever deeper than the limit: not even between two writes of one request.
THEOREM TreeStaysWhole == ASSUME ProjectsAssumption PROVE Spec /\ []Shallow => []TreeAgrees
<1>1. TreeInv => TreeAgrees BY TreeAgreement
<1>2. QED BY <1>1, TreeInvAlways, PTL

\* No task or model is left behind in a project that is gone, unless it is archived.
THEOREM ActiveEntitiesStayHome ==
  ASSUME ProjectsAssumption PROVE Spec /\ []Shallow => []ActiveEntitiesHaveHomes
<1>1. TreeInv => ActiveEntitiesHaveHomes BY HomesOfEntities
<1>2. QED BY <1>1, TreeInvAlways, PTL

-----------------------------------------------------------------------------
(* The documents implement the forest.                                     *)

Node(d) == [exists |-> d.exists, parent |-> d.parent, base |-> IF d.exists THEN Last(d.name) ELSE Empty]
ForestOf(D) == [p \in Ids |-> Node(D[p])]

\* ProjectForest's Below, of the documents.
BelowIn(D, p) ==
  LET Closed(S) == p \in S /\ \A x \in LiveIn(D) : D[x].parent \in S => x \in S
  IN  {x \in LiveIn(D) : \A S \in SUBSET LiveIn(D) : Closed(S) => x \in S}

FreeIn(D, q, b, self) == \A x \in LiveIn(D) \ {self} : ~(D[x].parent = q /\ Last(D[x].name) = b)

\* A project is under its parent, and its parent under what is above it.
LEMMA UnderParentIn ==
  ASSUME ProjectsAssumption, NEW D, Tree(D), NEW x \in LiveIn(D), D[x].parent # NoProject
  PROVE  x \in UnderIn(D, D[x].parent)
BY ParentAbove

LEMMA BelowIsUnder ==
  ASSUME ProjectsAssumption, NEW D, Tree(D), NEW p \in LiveIn(D)
  PROVE  BelowIn(D, p) = {p} \cup UnderIn(D, p)
<1> DEFINE Closed(S) == p \in S /\ \A x \in LiveIn(D) : D[x].parent \in S => x \in S
           B == {p} \cup UnderIn(D, p)
<1>1. BelowIn(D, p) = {x \in LiveIn(D) : \A S \in SUBSET LiveIn(D) : Closed(S) => x \in S} BY DEF BelowIn
<1>2. B \in SUBSET LiveIn(D) /\ Closed(B)
  <2>1. B \in SUBSET LiveIn(D) BY DEF UnderIn
  <2>2. ASSUME NEW x \in LiveIn(D), D[x].parent \in B PROVE x \in B
    <3>1. D[x].parent # NoProject BY <2>1, <2>2, ProjectsAssumption DEF LiveIn, ProjectsAssumption
    <3>2. x \in UnderIn(D, D[x].parent) BY <3>1, UnderParentIn
    <3>3. CASE D[x].parent = p BY <3>2, <3>3
    <3>4. CASE D[x].parent \in UnderIn(D, p) BY <3>2, <3>4, Transitive
    <3>5. QED BY <2>2, <3>3, <3>4
  <2>3. QED BY <2>1, <2>2
<1>3. ASSUME NEW x \in UnderIn(D, p), NEW S \in SUBSET LiveIn(D), Closed(S) PROVE x \in S
  <2> DEFINE s == D[x].path
             n == Len(D[p].path)
             N == {k \in Nat : n + 1 + k <= Len(s) => s[n + 1 + k] \in S}
             room == Len(s) - (n + 1)
  <2>1. x \in LiveIn(D) /\ x \in Ids /\ D \in [Ids -> Doc] /\ n \in Nat /\ n + 1 \in 1..Len(s) /\ s[n + 1] = p
    <3>1. x \in LiveIn(D) /\ n \in Nat /\ n + 1 \in 1..Len(s) /\ s[n + 1] = p BY Position
    <3>2. D \in [Ids -> Doc] /\ x \in Ids BY <3>1 DEF Tree, LiveIn
    <3>3. QED BY <3>1, <3>2
  <2>2. s \in Seq(Ids) /\ Len(s) \in Nat
    <3>1. s \in Seq(Ids) BY <2>1, DocFields
    <3> HIDE DEF s
    <3>2. QED BY <3>1
  <2> HIDE DEF n
  <2>3. 0 \in N BY <1>3, <2>1, <2>2
  <2>4. room \in Nat BY <2>1, <2>2
  <2>5. ASSUME NEW k \in 1..room, k - 1 \in N PROVE k \in N
    <3> DEFINE i == n + k
               y == s[i + 1]
    <3>1. i \in 1..Len(s) /\ i + 1 \in 1..Len(s) /\ n + 1 + k = i + 1 /\ n + 1 + (k - 1) = i /\ k \in Nat /\ i \in Nat
      BY <2>1, <2>2, <2>4
    <3>2. s[i] \in S BY <2>5, <3>1
    <3>3. y \in LiveIn(D) /\ Len(D[y].path) = i /\ \A j \in 1..i : D[y].path[j] = s[j]
      <4> DEFINE l == i + 1
      <4>1. l \in 1..Len(D[x].path) BY <3>1
      <4>2. l - 1 = i
        <5> HIDE DEF i
        <5>1. QED BY <3>1
      <4>3. y = D[x].path[l] OBVIOUS
      <4> HIDE DEF l
      <4> HIDE DEF s, N, room, B, Closed, i, y
      <4>6. x \in LiveIn(D) BY <2>1
      <4>7. D[x].path[l] \in LiveIn(D) BY <4>1, <4>6, Above
      <4>8. Len(D[D[x].path[l]].path) = l - 1 BY <4>1, <4>6, Above
      <4>9. \A j \in 1..(l - 1) : D[D[x].path[l]].path[j] = D[x].path[j] BY <4>1, <4>6, Above
      <4>4. /\ D[x].path[l] \in LiveIn(D) /\ Len(D[D[x].path[l]].path) = l - 1
            /\ \A j \in 1..(l - 1) : D[D[x].path[l]].path[j] = D[x].path[j]
        BY <4>7, <4>8, <4>9
      <4>10. D[x].path = s BY DEF s
      <4> HIDE DEF y, i
      <4>5. QED BY <4>2, <4>3, <4>4, <4>10
    <3> HIDE DEF i, y
    <3>4. D[y].parent = s[i]
      <4>1. y \in Ids /\ D[y].path \in Seq(Ids) BY <2>1, <3>3, DocFields DEF LiveIn
      <4>2. D[y].path # <<>> BY <3>1, <3>3, <4>1
      <4>3. Last(D[y].path) = D[y].path[i] BY <3>3, <4>1, <4>2, FrontAndLast
      <4>4. D[y].parent = Last(D[y].path) BY <3>3, <4>2 DEF Tree, Rooted
      <4>5. QED BY <3>1, <3>3, <4>3, <4>4
    <3>5. y \in S BY <1>3, <3>2, <3>3, <3>4
    <3>6. QED BY <3>1, <3>5 DEF y
  <2> HIDE DEF room
  <2>6. 0..room \subseteq N
    <3> HIDE DEF N
    <3>1. QED BY <2>3, <2>4, <2>5, UpTo
  <2>7. s[Len(s)] \in S
    <3>1. room \in N BY <2>4, <2>6
    <3>2. n + 1 + room = Len(s) BY <2>1, <2>2 DEF room
    <3>3. QED BY <2>2, <3>1, <3>2
  <2>8. D[x].parent = s[Len(s)]
    <3>1. s # <<>> BY <2>1, <2>2
    <3>2. Last(s) = s[Len(s)] BY <2>2, <3>1, FrontAndLast
    <3>3. D[x].parent = Last(s) BY <2>1, <3>1 DEF Tree, Rooted
    <3>4. QED BY <3>2, <3>3
  <2>9. QED BY <1>3, <2>1, <2>7, <2>8
<1>4. B \subseteq BelowIn(D, p) BY <1>1, <1>2, <1>3
<1>5. BelowIn(D, p) \subseteq B BY <1>1, <1>2
<1>6. QED BY <1>4, <1>5

\* Parents are told by their id.
LEMMA SameParent ==
  ASSUME ProjectsAssumption, NEW D, NEW k, NEW l, GoodParent(D, k), GoodParent(D, l), k.id = l.id
  PROVE  k = l
BY DEF GoodParent, LiveIn, TopLevel, ProjectsAssumption

\* A free name is a free base under its parent.
LEMMA FreeBase ==
  ASSUME ProjectsAssumption, NEW D, Tree(D), NEW parent, GoodParent(D, parent), NEW p,
         NEW name \in Names, name # <<>>, Front(name) = parent.name,
         \A x \in LiveIn(D) : D[x].name = name => x = p
  PROVE  FreeIn(D, parent.id, Last(name), p)
<1>1. ASSUME NEW x \in LiveIn(D) \ {p}, D[x].parent = parent.id, Last(D[x].name) = Last(name) PROVE FALSE
  <2>1. /\ GoodParent(D, ParentIn(D, x)) /\ ParentIn(D, x).id = parent.id
        /\ D[x].name # <<>> /\ Front(D[x].name) = ParentIn(D, x).name
    BY <1>1, ParentIs
  <2>2. Front(D[x].name) = parent.name BY <2>1, SameParent
  <2>3. x \in Ids /\ D \in [Ids -> Doc] BY DEF Tree, LiveIn
  <2>4. D[x].name \in Seq(Parts) /\ name \in Seq(Parts) BY <2>3, DocFields DEF Names
  <2> DEFINE t == D[x].name
  <2>5. t = name
    <3>1. t \in Seq(Parts) /\ t # <<>> /\ Front(t) = Front(name) /\ Last(t) = Last(name) BY <1>1, <2>1, <2>2, <2>4
    <3> HIDE DEF t
    <3> DEFINE Split(u) == /\ Len(Front(u)) = Len(u) - 1 /\ Last(u) = u[Len(u)] /\ Len(u) \in Nat
                           /\ \A i \in 1..(Len(u) - 1) : Front(u)[i] = u[i]
    <3>7. ASSUME NEW u \in Seq(Parts), u # <<>> PROVE Split(u)
      <4>1. /\ Len(Front(u)) = Len(u) - 1 /\ \A i \in 1..(Len(u) - 1) : Front(u)[i] = u[i]
        BY <3>7, FrontAndLast
      <4>2. Last(u) = u[Len(u)] BY <3>7, FrontAndLast
      <4>3. QED BY <3>7, <4>1, <4>2
    <3>2. Split(t) BY <3>1, <3>7
    <3>3. Split(name) BY <2>4, <3>7
    <3>4. Len(t) = Len(name) BY <3>1, <3>2, <3>3
    <3>5. \A i \in 1..Len(t) : t[i] = name[i]
      <4>1. \A i \in 1..Len(t) : i \in 1..(Len(t) - 1) \/ i = Len(t) BY <3>2
      <4>2. QED BY <3>1, <3>2, <3>3, <3>4, <4>1
    <3>6. QED BY <2>4, <3>1, <3>4, <3>5, SameSeq
  <2>6. QED BY <1>1, <2>5
<1>2. QED BY <1>1 DEF FreeIn

LEMMA HierarchyIs ==
  /\ hierarchy = ForestOf(projects)
  /\ hierarchy' = ForestOf(projects')
BY DEF hierarchy, ForestOf, Node

LEMMA ForestLive ==
  /\ Forest!Live = LiveIn(projects)
  /\ \A x \in Ids : hierarchy[x] = Node(projects[x]) /\ hierarchy'[x] = Node(projects'[x])
BY HierarchyIs DEF Forest!Live, LiveIn, ForestOf, Node

\* A node with another base or parent.
LEMMA NodeRenamed ==
  ASSUME NEW u, NEW v, NEW w, NEW b
  PROVE  [[exists |-> u, parent |-> v, base |-> w] EXCEPT !.base = b] = [exists |-> u, parent |-> v, base |-> b]
BY Z3

LEMMA NodeMoved ==
  ASSUME NEW u, NEW v, NEW w, NEW q
  PROVE  [[exists |-> u, parent |-> v, base |-> w] EXCEPT !.parent = q] = [exists |-> u, parent |-> q, base |-> w]
BY Z3

LEMMA LiveNode ==
  ASSUME NEW x \in LiveIn(projects)
  PROVE  /\ hierarchy[x] = [exists |-> projects[x].exists, parent |-> projects[x].parent, base |-> Last(projects[x].name)]
         /\ hierarchy[x].parent = projects[x].parent /\ hierarchy[x].base = Last(projects[x].name)
<1>1. x \in Ids /\ projects[x].exists BY DEF LiveIn
<1>2. hierarchy[x] = Node(projects[x]) BY <1>1, ForestLive
<1>3. QED BY <1>1, <1>2 DEF Node

LEMMA ForestBelow == ASSUME NEW p PROVE Forest!Below(p) = BelowIn(projects, p)
<1>1. Forest!Live = LiveIn(projects) BY ForestLive
<1>2. \A x \in LiveIn(projects) : hierarchy[x].parent = projects[x].parent BY LiveNode
<1>3. QED BY <1>1, <1>2 DEF Forest!Below, BelowIn

LEMMA ForestFree ==
  ASSUME NEW q, NEW b, NEW p, FreeIn(projects, q, b, p)
  PROVE  Forest!FreeUnder(q, b, p)
<1>1. Forest!Live = LiveIn(projects) BY ForestLive
<1>2. \A x \in LiveIn(projects) : hierarchy[x].parent = projects[x].parent /\ hierarchy[x].base = Last(projects[x].name)
  BY LiveNode
<1>3. QED BY <1>1, <1>2 DEF Forest!FreeUnder, FreeIn

LEMMA ForestPlace ==
  ASSUME NEW parent, GoodParent(projects, parent)
  PROVE  Forest!Place(parent.id)
BY ForestLive DEF Forest!Place, GoodParent, TopLevel

\* Where documents are written, nodes change.
LEMMA NodeWritten ==
  ASSUME NEW p \in Ids, NEW doc, projects \in [Ids -> Doc], projects' = [projects EXCEPT ![p] = doc]
  PROVE  hierarchy' = [hierarchy EXCEPT ![p] = Node(doc)]
BY HierarchyIs DEF ForestOf

LEMMA AddedForest ==
  ASSUME ProjectsAssumption, NEW p, NEW name, NEW parent, Adds(projects, p, name, parent, projects')
  PROVE  Forest!Next
<1> DEFINE doc == UnderParent(name, parent)
           b == Last(name)
           node == [exists |-> TRUE, parent |-> parent.id, base |-> b]
<1>1. /\ Tree(projects) /\ projects \in [Ids -> Doc] /\ GoodParent(projects, parent) /\ p \in Ids /\ p \notin LiveIn(projects)
      /\ projects' = [projects EXCEPT ![p] = doc]
  BY DEF Adds, Tree
<1>2. Node(doc) = node BY DEF Node, UnderParent
<1>3. hierarchy' = [hierarchy EXCEPT ![p] = node] BY <1>1, <1>2, NodeWritten
<1>4. hierarchy[p].exists = FALSE
  <2>1. projects[p].exists = FALSE BY <1>1, DocFields DEF LiveIn
  <2>2. hierarchy[p] = Node(projects[p]) BY <1>1, ForestLive
  <2>3. QED BY <2>1, <2>2 DEF Node
<1>5. hierarchy'[p] = node BY <1>1, <1>3, HierarchyIs DEF ForestOf
<1>6. FreeIn(projects, parent.id, b, p) BY FreeBase DEF Adds
<1>7. Forest!Place(parent.id) /\ Forest!FreeUnder(parent.id, b, p) /\ p \notin Forest!Live
  BY <1>1, <1>6, ForestPlace, ForestFree, ForestLive
<1> HIDE DEF doc, b
<1>8. Forest!Add(p, parent.id, b) BY <1>3, <1>7 DEF Forest!Add
<1>9. hierarchy'[p] # hierarchy[p] /\ hierarchy'[p].parent = parent.id /\ hierarchy'[p].base = b BY <1>4, <1>5
<1>10. QED BY <1>1, <1>8, <1>9 DEF Forest!Next

\* A project that is moved is put under a project that is not under it.
LEMMA MovedForest ==
  ASSUME ProjectsAssumption, NEW p, NEW name, NEW parent, MoveAllowed(projects, p, name, parent),
         projects' = [projects EXCEPT ![p] = UnderParent(name, parent)],
         Last(name) = Last(projects[p].name) \/ parent.id = projects[p].parent
  PROVE  [Forest!Next]_hierarchy
<1> DEFINE D == projects
           doc == UnderParent(name, parent)
           q == parent.id
           b == Last(name)
<1>1. /\ Tree(D) /\ D \in [Ids -> Doc] /\ p \in LiveIn(D) /\ p \in Ids /\ GoodParent(D, parent)
      /\ q # p /\ p \notin ToSet(parent.path)
      /\ name \in Names /\ name # <<>> /\ Front(name) = parent.name
      /\ \A x \in LiveIn(D) : D[x].name = name => x = p
  BY DEF MoveAllowed, Tree, LiveIn
<1>2. Node(doc) = [exists |-> TRUE, parent |-> q, base |-> b] BY DEF Node, UnderParent
<1>3. hierarchy' = [hierarchy EXCEPT ![p] = [exists |-> TRUE, parent |-> q, base |-> b]] BY <1>1, <1>2, NodeWritten
<1>4. hierarchy[p] = [exists |-> TRUE, parent |-> D[p].parent, base |-> Last(D[p].name)]
  <2>1. D[p].exists = TRUE BY <1>1, DocFields DEF LiveIn
  <2>2. QED BY <1>1, <2>1, LiveNode
<1>5. hierarchy \in [Ids -> {hierarchy[x] : x \in Ids}] BY HierarchyIs DEF ForestOf
<1>6. hierarchy'[p] = [exists |-> TRUE, parent |-> q, base |-> b] BY <1>1, <1>3, <1>5
<1>7. Forest!Place(q) /\ Forest!FreeUnder(q, b, p) /\ p \in Forest!Live
  <2>1. FreeIn(D, q, b, p) BY <1>1, FreeBase
  <2>2. QED BY <1>1, <2>1, ForestPlace, ForestFree, ForestLive
<1>8. q \notin Forest!Below(p)
  <2>1. Forest!Below(p) = {p} \cup UnderIn(D, p) BY <1>1, ForestBelow, BelowIsUnder
  <2>2. q \notin UnderIn(D, p)
    <3>1. CASE parent = TopLevel
      <4>1. q \notin Ids BY <3>1, ProjectsAssumption DEF TopLevel, ProjectsAssumption
      <4>2. QED BY <4>1 DEF UnderIn, LiveIn
    <3>2. CASE parent = CopyOf(D, q) BY <1>1, <3>2 DEF UnderIn, CopyOf
    <3>3. QED BY <1>1, <3>1, <3>2 DEF GoodParent
  <2>3. QED BY <1>1, <2>1, <2>2
<1> HIDE DEF D, doc, q, b
<1>9. CASE hierarchy'[p] = hierarchy[p]
  <2>1. hierarchy' = hierarchy BY <1>1, <1>3, <1>5, <1>6, <1>9
  <2>2. QED BY <2>1
<1>10. CASE hierarchy'[p] # hierarchy[p] /\ b = Last(D[p].name)
  <2>1. [hierarchy[p] EXCEPT !.parent = q] = [exists |-> TRUE, parent |-> q, base |-> b]
    <3>1. hierarchy[p] = [exists |-> TRUE, parent |-> D[p].parent, base |-> b] BY <1>4, <1>10
    <3> DEFINE yes == TRUE
    <3>2. hierarchy[p] = [exists |-> yes, parent |-> D[p].parent, base |-> b] BY <3>1
    <3> HIDE DEF yes
    <3>3. [hierarchy[p] EXCEPT !.parent = q] = [exists |-> yes, parent |-> q, base |-> b] BY <3>2, NodeMoved
    <3>4. QED BY <3>3 DEF yes
  <2>2. hierarchy' = [hierarchy EXCEPT ![p].parent = q] BY <1>3, <2>1
  <2>3. hierarchy[p].base = b BY <1>4, <1>10
  <2>4. Forest!Reparent(p, q) BY <1>7, <1>8, <2>2, <2>3 DEF Forest!Reparent
  <2>5. hierarchy'[p].parent = q BY <1>6
  <2>6. QED BY <1>1, <1>10, <2>4, <2>5 DEF Forest!Next
<1>11. CASE hierarchy'[p] # hierarchy[p] /\ q = D[p].parent
  <2>1. [hierarchy[p] EXCEPT !.base = b] = [exists |-> TRUE, parent |-> q, base |-> b]
    <3>1. hierarchy[p] = [exists |-> TRUE, parent |-> q, base |-> Last(D[p].name)] BY <1>4, <1>11
    <3> DEFINE yes == TRUE
    <3>2. hierarchy[p] = [exists |-> yes, parent |-> q, base |-> Last(D[p].name)] BY <3>1
    <3> HIDE DEF yes
    <3>3. [hierarchy[p] EXCEPT !.base = b] = [exists |-> yes, parent |-> q, base |-> b] BY <3>2, NodeRenamed
    <3>4. QED BY <3>3 DEF yes
  <2>2. hierarchy' = [hierarchy EXCEPT ![p].base = b] BY <1>3, <2>1
  <2>3. hierarchy[p].parent = q BY <1>4, <1>11
  <2>4. Forest!Rename(p, b) BY <1>7, <2>2, <2>3 DEF Forest!Rename
  <2>5. hierarchy'[p].base = b BY <1>6
  <2>6. QED BY <1>1, <1>11, <2>4, <2>5 DEF Forest!Next
<1>12. QED BY <1>9, <1>10, <1>11 DEF D, q, b

LEMMA RemovedForest ==
  ASSUME ProjectsAssumption, Tree(projects), NEW p \in LiveIn(projects),
         projects' = [x \in Ids |-> IF x \in {p} \cup UnderIn(projects, p) THEN NoDoc ELSE projects[x]]
  PROVE  Forest!Next
<1> DEFINE B == {p} \cup UnderIn(projects, p)
<1>1. Forest!Below(p) = B BY ForestBelow, BelowIsUnder
<1>2. p \in Ids /\ p \in Forest!Live BY ForestLive DEF LiveIn
<1>3. Node(NoDoc) = Forest!NoNode BY DEF Node, NoDoc, Forest!NoNode
<1>4. \A x \in Ids : hierarchy'[x] = IF x \in B THEN Forest!NoNode ELSE hierarchy[x]
  BY <1>3, ForestLive
<1>5. hierarchy' = [x \in Ids |-> IF x \in B THEN Forest!NoNode ELSE hierarchy[x]] BY <1>4, HierarchyIs DEF ForestOf
<1>6. hierarchy'[p].exists = FALSE /\ hierarchy'[p] # hierarchy[p]
  <2>1. hierarchy[p].exists BY <1>2 DEF Forest!Live
  <2>2. hierarchy'[p] = Forest!NoNode BY <1>2, <1>4
  <2>3. QED BY <2>1, <2>2 DEF Forest!NoNode
<1>7. Forest!Remove(p) BY <1>1, <1>2, <1>5, <1>6 DEF Forest!Remove
<1>8. QED BY <1>2, <1>6, <1>7 DEF Forest!Next

\* A sub project keeps its parent and its own name when it is written.
LEMMA KidForest ==
  ASSUME ProjectsAssumption, TreeInv, NEW c \in Clients, NextKid(c)
  PROVE  UNCHANGED hierarchy
<1> DEFINE m == call[c]
           D == projects
<1>1. /\ m \in Calls /\ Renaming(m, D) /\ D \in [Ids -> Doc]
      /\ \E kid \in m.kids : KidWritten(m, D, kid, projects', [m EXCEPT !.kids = @ \ {kid}])
  BY NextKidWrites
<1>2. PICK kid \in m.kids : KidWritten(m, D, kid, projects', [m EXCEPT !.kids = @ \ {kid}]) BY <1>1
<1> DEFINE F == Finished(m, D)[kid.id]
           d == D[kid.id]
           s == d.name
           k == Len(m.self.name)
<1>3. KidForeseen(m, D, kid) BY <1>1, KidFinished
<1>4. /\ kid.id \in LiveIn(D) /\ kid.id \in Ids /\ kid = CopyOf(D, kid.id)
      /\ F.exists /\ F.name = RenamedKid(kid, m.name, m.self.name) /\ F.parent = d.parent
      /\ F \in Doc
  BY <1>3 DEF KidForeseen
<1>5. kid.name = s /\ d.exists BY <1>4 DEF CopyOf, LiveIn
<1>6. Last(F.name) = Last(s)
  <2>1. s \in Seq(Parts) /\ m.name \in Seq(Parts) /\ k \in Nat
    <3>1. s \in Seq(Parts) BY <1>1, <1>4, DocFields
    <3>2. m.name \in Seq(Parts) /\ m.self.name \in Seq(Parts) BY <1>1 DEF Calls, CopyType, Names
    <3>3. QED BY <3>1, <3>2
  <2>2. k < Len(s) BY <1>1, <1>5 DEF Renaming
  <2>3. F.name = Graft(m.name, s, k) BY <1>4, <1>5 DEF RenamedKid, Graft
  <2> DEFINE g == Graft(m.name, s, k)
             n == Len(m.name)
  <2> HIDE DEF s, k, F
  <2>4. n \in Nat /\ Len(s) \in Nat /\ k <= Len(s) BY <2>1, <2>2
  <2>5. /\ g \in Seq(Parts) /\ Len(g) \in Nat /\ Len(g) = n + Len(s) - k
        /\ \A i \in (n + 1)..Len(g) : g[i] = s[i - (n - k)]
    <3> DEFINE new == m.name
    <3>1. s \in Seq(Parts) /\ new \in Seq(Parts) /\ k \in Nat /\ k <= Len(s) BY <2>1, <2>4
    <3> HIDE DEF new
    <3>2. Graft(new, s, k) \in Seq(Parts) BY <3>1, Grafted
    <3>3. Len(Graft(new, s, k)) \in Nat /\ Len(Graft(new, s, k)) = Len(new) + Len(s) - k BY <3>1, Grafted
    <3>4. \A i \in (Len(new) + 1)..Len(Graft(new, s, k)) : Graft(new, s, k)[i] = s[i - (Len(new) - k)] BY <3>1, Grafted
    <3>5. QED BY <3>2, <3>3, <3>4 DEF new
  <2> HIDE DEF g, n
  <2>6. Len(g) \in (n + 1)..Len(g) /\ Len(g) - (n - k) = Len(s) /\ Len(g) # 0 /\ Len(s) # 0 BY <2>1, <2>2, <2>4, <2>5
  <2>7. g[Len(g)] = s[Len(s)] BY <2>5, <2>6
  <2>8. Last(g) = g[Len(g)] /\ Last(s) = s[Len(s)]
    <3>1. g # <<>> /\ s # <<>> BY <2>6
    <3>2. QED BY <2>1, <2>5, <3>1, FrontAndLast
  <2>9. QED BY <2>3, <2>7, <2>8 DEF g
<1>7. projects' = [D EXCEPT ![kid.id] = F] BY <1>2 DEF KidWritten
<1>8. Node(F) = Node(d)
  <2> HIDE DEF F, d
  <2>1. F.exists /\ d.exists /\ F.exists \in BOOLEAN /\ d.exists \in BOOLEAN
    <3>1. d \in Doc BY <1>1, <1>4 DEF d
    <3>2. QED BY <1>4, <1>5, <3>1 DEF Doc
  <2>2. F.exists = d.exists BY <2>1
  <2>3. QED BY <1>4, <1>6, <2>2 DEF Node
<1> HIDE DEF F, m
<1>9. hierarchy' = [hierarchy EXCEPT ![kid.id] = Node(F)] BY <1>1, <1>4, <1>7, NodeWritten
<1>10. hierarchy[kid.id] = Node(F) BY <1>4, <1>8, ForestLive
<1>11. \A x \in Ids : hierarchy'[x] = hierarchy[x] BY <1>9, <1>10, HierarchyIs DEF ForestOf
<1>12. QED BY <1>11, HierarchyIs DEF ForestOf

LEMMA ForestInit == ASSUME ProjectsAssumption, Init PROVE Forest!Init
BY HierarchyIs DEF Init, Forest!Init, Forest!NoNode, ForestOf, Node, NoDoc

LEMMA ForestStep == ASSUME ProjectsAssumption, TreeInv, [Next]_vars PROVE [Forest!Next]_hierarchy
<1>1. CASE projects' = projects BY <1>1, HierarchyIs DEF ForestOf
<1>2. ASSUME NEW p, NEW name, NEW parent, NEW r, Repositioned(projects, p, name, parent, projects', r),
             Last(name) = Last(projects[p].name) \/ parent.id = projects[p].parent
      PROVE  [Forest!Next]_hierarchy
  BY <1>2, MovedForest DEF Repositioned
<1>3. ASSUME NEW parent, NEW b PROVE Last(Append(parent.name, b)) = b
  BY DEF Last
<1>4. ASSUME NEW c \in Clients PROVE
        /\ SaveNew(c) => [Forest!Next]_hierarchy
        /\ MoveEnsured(c) => [Forest!Next]_hierarchy
        /\ NextKid(c) => [Forest!Next]_hierarchy
        /\ MergeChild(c) => [Forest!Next]_hierarchy
        /\ MergeDone(c) => [Forest!Next]_hierarchy
        /\ DeleteDocuments(c) => [Forest!Next]_hierarchy
        /\ \A raw \in Asks[c].rename, p \in Ids : Update(c, p, raw) => [Forest!Next]_hierarchy
  <2>1. CASE SaveNew(c) BY <2>1, SaveNewAdds, AddedForest
  <2>2. CASE MoveEnsured(c)
    <3>1. CASE \E r \in Calls : MovesProject(call[c], projects, projects', r)
      BY <1>2, <1>3, <3>1 DEF MovesProject
    <3>2. QED BY <1>1, <2>2, <3>1, MoveEnsuredMoves
  <2>3. CASE NextKid(c) BY <2>3, KidForest
  <2>4. CASE MergeChild(c)
    <3>1. CASE \E x \in LiveIn(projects), r \in Calls : MovesChild(call[c], projects, x, projects', r)
      BY <1>2, <1>3, <3>1 DEF MovesChild
    <3>2. QED BY <1>1, <2>4, <3>1, MergeChildMoves
  <2>5. CASE MergeDone(c) BY <2>5, MergeEmptied, RemovedForest
  <2>6. CASE DeleteDocuments(c) BY <2>6, Removing, RemovedForest
  <2>7. ASSUME NEW raw \in Asks[c].rename, NEW p \in Ids, Update(c, p, raw) PROVE [Forest!Next]_hierarchy
    <3>1. raw \in Raw BY AskedNames
    <3>2. PICK name, r : Repositioned(projects, p, name, ParentIn(projects, p), projects', r) BY <2>7, <3>1, UpdateMoves
    <3>3. ParentIn(projects, p).id = projects[p].parent
      <4>1. Tree(projects) /\ p \in LiveIn(projects) BY <3>2 DEF Repositioned, MoveAllowed
      <4>2. QED BY <4>1, ParentIs
    <3>4. QED BY <1>2, <3>2, <3>3
  <2>8. QED BY <2>1, <2>2, <2>3, <2>4, <2>5, <2>6, <2>7
<1>5. CASE UNCHANGED vars BY <1>1, <1>5 DEF vars
<1>6. ASSUME NEW c \in Clients PROVE
        /\ \A raw \in Asks[c].create : Create(c, raw) => projects' = projects
        /\ \A raw \in Asks[c].under, S \in Batches : MoveUnder(c, raw, S) => projects' = projects
        /\ LookUp(c) \/ SaveNewFails(c) \/ Assign(c) \/ LastKid(c) => projects' = projects
        /\ \A raw \in Asks[c].move, p \in Ids : Move(c, p, raw) => projects' = projects
        /\ \A p \in Asks[c].ids, q \in Ids \cup {NoProject} : Merge(c, p, q) => projects' = projects
        /\ MergeEntities(c) \/ Disassociate(c) => projects' = projects
        /\ \A p \in Asks[c].ids, force \in BOOLEAN : DeleteProject(c, p, force) => projects' = projects
  BY DEF Create, MoveUnder, LookUp, SaveNewFails, Assign, LastKid, Move, Merge, MergeEntities, Disassociate, DeleteProject
<1>7. CASE Next
  <2>1. PICK c \in Clients :
          \/ \E raw \in Asks[c].create : Create(c, raw)
          \/ \E raw \in Asks[c].under, S \in Batches : MoveUnder(c, raw, S)
          \/ LookUp(c) \/ SaveNew(c) \/ SaveNewFails(c) \/ Assign(c)
          \/ \E raw \in Asks[c].move, p \in Ids : Move(c, p, raw)
          \/ MoveEnsured(c) \/ NextKid(c) \/ LastKid(c)
          \/ \E p \in Asks[c].ids, q \in Ids \cup {NoProject} : Merge(c, p, q)
          \/ MergeEntities(c) \/ MergeChild(c) \/ MergeDone(c)
          \/ \E raw \in Asks[c].rename, p \in Ids : Update(c, p, raw)
          \/ \E p \in Asks[c].ids, force \in BOOLEAN : DeleteProject(c, p, force)
          \/ Disassociate(c) \/ DeleteDocuments(c)
    BY <1>7 DEF Next
  <2>2. QED BY <1>1, <1>4, <1>6, <2>1
<1>8. QED BY <1>5, <1>7

\* The documents never say anything but a forest, whatever the requests in progress have still
\* to write: a project is created under one that is there, moved under one that is not below it,
\* renamed to a name its siblings do not bear, and goes away only with all that is below it.
THEOREM ImplementsForest == ASSUME ProjectsAssumption PROVE Spec /\ []Shallow => IsForest
<1>1. Init => Forest!Init BY ForestInit
<1>2. TreeInv /\ [Next]_vars => [Forest!Next]_hierarchy BY ForestStep
<1>3. QED BY <1>1, <1>2, TreeInvAlways, PTL DEF Spec, IsForest, Forest!Spec
=============================================================================
