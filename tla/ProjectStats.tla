---------------------------- MODULE ProjectStats ----------------------------
(***************************************************************************)
(* What projects.get_all_ex says about projects and all that is under them *)
(* (bll/project/project_bll.py).  The code finds what is under a project   *)
(* by the path that every document repeats; each answer is compared here   *)
(* with one that goes down the tree from parent to child.                  *)
(*                                                                         *)
(* The facts about an entity or a project that no request of ProjectTree   *)
(* changes are constants.  The statistics are those of the search for all  *)
(* projects, hidden ones too.                                              *)
(***************************************************************************)
EXTENDS ProjectTree, FiniteSetsExt

CONSTANTS
  Facts,       \* of each entity: user, status, started, completed (0: not set)
  Owner,       \* the user who created each project
  DatasetTag,  \* the projects with the system tag "dataset"
  Tags,        \* the tags of each project
  DayAgo       \* the time 24 hours before the request

StatusesOf == {Facts[e].status : e \in Entities}
Users == {Facts[e].user : e \in Entities} \cup {Owner[p] : p \in Ids}

\* get_match_conditions on the user: an empty list selects nobody in particular.
OfUser(user, users) == users = {} \/ user \in users

-----------------------------------------------------------------------------
(* Runtime statistics: make_projects_get_all_pipeline groups the tasks that *)
(* are not archived by project.                                            *)

SumOf(f(_), S) == MapThenSumSet(f, S)

LatestOf(S) == IF S = {} THEN 0 ELSE Max(S)

RuntimeOf(S) ==
  [ total_runtime      |-> SumOf(LAMBDA e : IF /\ Facts[e].started # 0
                                               /\ Facts[e].completed > Facts[e].started
                                            THEN Facts[e].completed - Facts[e].started ELSE 0, S),
    recently_completed |-> Cardinality({e \in S :
                             /\ Facts[e].completed > DayAgo
                             /\ Facts[e].status \notin {"queued", "in_progress", "failed"}}),
    max_task_started   |-> LatestOf({Facts[e].started : e \in S}),
    status_count       |-> [s \in StatusesOf |-> Cardinality({e \in S : Facts[e].status = s})] ]

Runtime(S, users) ==
  LET of(p) == {e \in Entities : home[e] = p /\ Mergeable(e) /\ OfUser(Facts[e].user, users)}
  IN  [p \in {q \in S : of(q) # {}} |-> RuntimeOf(of(p))]

SumRuntime(a, b) ==
  [ total_runtime      |-> a.total_runtime + b.total_runtime,
    recently_completed |-> a.recently_completed + b.recently_completed,
    max_task_started   |-> LatestOf({a.max_task_started, b.max_task_started}),
    status_count       |-> [s \in StatusesOf |-> a.status_count[s] + b.status_count[s]] ]

\* Mutant of Relevant: the project itself is left out of its own statistics.
ChildrenOnly(p, children, data) == children \cap DOMAIN data

Relevant(p, children, data) == (children \cup {p}) \cap DOMAIN data

\* aggregate_project_data, with what a project without any data is given.
Aggregate(func(_, _), empty, p, children, data) ==
  FoldSet(LAMBDA q, total : func(data[q], total), empty, Relevant(p, children, data))

\* get_project_stats for one of the projects: the sub projects are restricted to the
\* selected ones.
GetProjectStats(p, users, selected) ==
  LET children == SubProjects(p) \cap selected
  IN  Aggregate(SumRuntime, RuntimeOf({}), p, children, Runtime({p} \cup children, users))

-----------------------------------------------------------------------------
(* Datasets: projects with the tag, counted under their parents.           *)

Datasets(S, users) ==
  LET of(p) == {q \in Live \cap DatasetTag : projects[q].parent = p /\ OfUser(Owner[q], users)}
  IN  [p \in {q \in S : of(q) # {}} |->
         [count |-> Cardinality(of(p)), tags |-> UNION {Tags[q] : q \in of(p)}]]

ConcatDatasets(a, b) == [count |-> a.count + b.count, tags |-> a.tags \cup b.tags]

GetProjectDatasetStats(p, users, selected) ==
  LET children == SubProjects(p) \cap selected
  IN  Aggregate(ConcatDatasets, [count |-> 0, tags |-> {}], p, children,
                Datasets({p} \cup children, users))

-----------------------------------------------------------------------------
(* Selection of projects by their users or the users of their contents.    *)

\* _ids_with_parents
WithParents(S) == (S \cap Live) \cup UNION {ToSet(projects[p].path) : p \in S \cap Live}

IdsWithChildren(S) == S \cup UNION {SubProjects(p) : p \in S}

\* get_active_users
ActiveUsers(S) ==
  LET within == IdsWithChildren(S)
  IN  {Owner[p] : p \in within \cap Live} \cup {Facts[e].user : e \in {x \in Entities : home[x] \in within}}

\* get_projects_with_selected_children: the projects selected, for users and without a
\* type of children; "asked" are the ids the client gave, if any.
SelectedProjects(users, asked) ==
  LET within == IF asked = {} THEN Live ELSE IdsWithChildren(asked)
      own    == {p \in Live \cap within : Owner[p] \in users}
      held   == {home[e] : e \in {x \in Entities : Facts[x].user \in users}} \cap
                (IF asked = {} THEN Ids ELSE within)
  IN  WithParents(own \cup held)

FilteredIds(users, asked) ==
  IF asked = {} THEN SelectedProjects(users, asked) ELSE SelectedProjects(users, asked) \cap asked

-----------------------------------------------------------------------------
(* Reference: down the tree by the parents.                                *)

Beneath(p) ==
  LET level[n \in 0..MaxDepth] ==
        IF n = 0 THEN {p} ELSE {q \in Live : projects[q].parent \in level[n - 1]}
  IN  UNION {level[n] : n \in 0..MaxDepth}

\* Nothing is in progress.  What a half-made creation leaves is among these states
\* too, since its next save may fail.
Quiet == \A c \in Clients : call[c] = Idle

\* Between moves, the statistics of a project count every task that is not archived
\* and every dataset in the tree under it exactly once, also when only the projects
\* selected for some users are looked at; these are exactly those that have one of the
\* users in the tree under them, as the active users of a project are those of its tree.
StatsCountTree ==
  Quiet => \A p \in Live :
    /\ \A users \in SUBSET Users :
         LET selected == IF users = {} THEN Live ELSE SelectedProjects(users, {})
             tasks == {e \in Entities \ Archived : home[e] \in Beneath(p) /\ OfUser(Facts[e].user, users)}
             sets == {q \in Beneath(p) \ {p} : q \in DatasetTag /\ OfUser(Owner[q], users)}
         IN  /\ GetProjectStats(p, users, selected) = RuntimeOf(tasks)
             /\ GetProjectDatasetStats(p, users, selected) =
                  [count |-> Cardinality(sets), tags |-> UNION {Tags[q] : q \in sets}]
    /\ LET users == ActiveUsers({p})
       IN  /\ users = {Owner[q] : q \in Beneath(p)} \cup
                      {Facts[e].user : e \in {x \in Entities : home[x] \in Beneath(p)}}
           /\ \A u \in Users : /\ p \in FilteredIds({u}, {}) <=> u \in users
                               /\ p \in FilteredIds({u}, {p}) <=> u \in users
=============================================================================
