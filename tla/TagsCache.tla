----------------------------- MODULE TagsCache -----------------------------
(***************************************************************************)
(* The cache of tags in Redis (bll/organization/tags_cache.py), filled by  *)
(* those who ask for the tags of a project or of the company, emptied by   *)
(* those who edit the tags of a task (bll/organization/__init__.py).        *)
(*                                                                         *)
(* A list in the cache begins with a dummy, so that it exists when there are*)
(* no tags.  A reader who finds no list queries the database, appends the  *)
(* dummy and the tags, and sets the expiration, in three calls; an editor  *)
(* writes the database first, then looks for the lists to delete.           *)
(***************************************************************************)
EXTENDS Naturals

CONSTANTS
  Entities,  \* tasks, or models
  Tags,
  Dummy,     \* _dummy_tag
  Company,   \* the list of the whole company, project None
  Projects,
  HomeOf,    \* the project of an entity
  Within,    \* a project and those below it: project_ids_with_children
  Readers, Editors

TagLists == Projects \cup {Company}

ASSUME TagsAssumption ==
  /\ Dummy \notin Tags /\ Company \notin Projects /\ Entities # {}
  /\ HomeOf \in [Entities -> Projects] /\ Within \in [Projects -> SUBSET Projects]

VARIABLES
  tagsOf, \* the database
  cache,  \* the lists: how often one was filled, with what, and whether it will expire
  asks,   \* handlers of get_tags
  edits,  \* handlers of edit_entity_tags
  raced   \* history: lists filled with what was no longer there, or filled twice

tagsVars == <<tagsOf, cache, asks, edits, raced>>

NoList == [fills |-> 0, tags |-> {}, expires |-> FALSE]
NoAsk == [pc |-> "none", list |-> Company, got |-> {}]
NoEdit == [pc |-> "none", entity |-> CHOOSE e \in Entities : TRUE, remove |-> {}, lists |-> {}]

-----------------------------------------------------------------------------
\* _get_tags_from_db
TagsFromDb(l) ==
  UNION {tagsOf[e] : e \in {x \in Entities : l = Company \/ HomeOf[x] \in Within[l]}}

Cached(l) == cache[l].fills > 0

\* What a reader makes of the list: all of it but the first element.
Answer(l) == cache[l].tags \cup (IF cache[l].fills > 1 THEN {Dummy} ELSE {})

\* get_tags: whoever finds the list answers at once.
AskTags(r, l) ==
  /\ asks[r].pc = "none" /\ ~Cached(l)
  /\ asks' = [asks EXCEPT ![r] = [NoAsk EXCEPT !.pc = "query", !.list = l]]
  /\ UNCHANGED <<tagsOf, cache, edits, raced>>

QueryTags(r) ==
  /\ asks[r].pc = "query"
  /\ asks' = [asks EXCEPT ![r].pc = "push", ![r].got = TagsFromDb(asks[r].list)]
  /\ UNCHANGED <<tagsOf, cache, edits, raced>>

\* rpush appends to a list that somebody has filled meanwhile.
PushTags(r) ==
  /\ asks[r].pc = "push"
  /\ LET l == asks[r].list
     IN  /\ cache' = [cache EXCEPT ![l].fills = IF @ < 2 THEN @ + 1 ELSE @,
                                   ![l].tags = @ \cup asks[r].got]
         /\ raced' = IF Cached(l) \/ asks[r].got # TagsFromDb(l) THEN raced \cup {l} ELSE raced
  /\ asks' = [asks EXCEPT ![r].pc = "expire", ![r].got = {}]
  /\ UNCHANGED <<tagsOf, edits>>

\* Mutant of WillExpire: a list that two readers have filled gets none.
OnlyFirst(l) == cache[l].fills = 1

\* expire does nothing when the list has been deleted.
WillExpire(l) == Cached(l)

ExpireTags(r) ==
  /\ asks[r].pc = "expire"
  /\ cache' = [cache EXCEPT ![asks[r].list].expires = @ \/ WillExpire(asks[r].list)]
  /\ asks' = [asks EXCEPT ![r] = NoAsk]
  /\ UNCHANGED <<tagsOf, edits, raced>>

-----------------------------------------------------------------------------
\* edit_entity_tags: the update that adds, then the update that removes.
AddTags(e, entity) ==
  /\ edits[e].pc = "none"
  /\ \E add, remove \in SUBSET Tags :
       /\ add \cup remove # {}
       /\ tagsOf' = [tagsOf EXCEPT ![entity] = @ \cup add]
       /\ edits' = [edits EXCEPT ![e] = [NoEdit EXCEPT !.pc = IF remove = {} THEN "scan" ELSE "remove",
                                                       !.entity = entity, !.remove = remove]]
  /\ UNCHANGED <<cache, asks, raced>>

RemoveTags(e) ==
  /\ edits[e].pc = "remove"
  /\ tagsOf' = [tagsOf EXCEPT ![edits[e].entity] = @ \ edits[e].remove]
  /\ edits' = [edits EXCEPT ![e].pc = "scan"]
  /\ UNCHANGED <<cache, asks, raced>>

\* Mutant of Affected: the list of the company is left alone.
ProjectsOnly(e) == {HomeOf[edits[e].entity]}

\* The projects of the entities and None; not the projects above them.
Affected(e) == {HomeOf[edits[e].entity], Company}

\* _delete_redis_keys: the keys that are there, then delete for each of them.
ScanKeys(e) ==
  /\ edits[e].pc = "scan"
  /\ LET found == {l \in Affected(e) : Cached(l)}
     IN  edits' = [edits EXCEPT ![e] = IF found = {} THEN NoEdit
                                       ELSE [NoEdit EXCEPT !.pc = "delete", !.lists = found]]
  /\ UNCHANGED <<tagsOf, cache, asks, raced>>

DeleteKey(e, l) ==
  /\ edits[e].pc = "delete" /\ l \in edits[e].lists
  /\ cache' = [cache EXCEPT ![l] = NoList]
  /\ raced' = raced \ {l}
  /\ edits' = [edits EXCEPT ![e] = IF edits[e].lists = {l} THEN NoEdit
                                   ELSE [NoEdit EXCEPT !.pc = "delete", !.lists = edits[e].lists \ {l}]]
  /\ UNCHANGED <<tagsOf, asks>>

ListExpires(l) ==
  /\ cache[l].expires
  /\ cache' = [cache EXCEPT ![l] = NoList]
  /\ raced' = raced \ {l}
  /\ UNCHANGED <<tagsOf, asks, edits>>

-----------------------------------------------------------------------------
TagsInit ==
  /\ tagsOf = [e \in Entities |-> {}]
  /\ cache = [l \in TagLists |-> NoList]
  /\ asks = [r \in Readers |-> NoAsk]
  /\ edits = [e \in Editors |-> NoEdit]
  /\ raced = {}

Answering(r) == QueryTags(r) \/ PushTags(r) \/ ExpireTags(r)

TagsNext ==
  \/ \E r \in Readers : Answering(r) \/ \E l \in TagLists : AskTags(r, l)
  \/ \E e \in Editors : \/ RemoveTags(e) \/ ScanKeys(e)
                        \/ \E entity \in Entities : AddTags(e, entity)
                        \/ \E l \in TagLists : DeleteKey(e, l)
  \/ \E l \in TagLists : ListExpires(l)

\* A handler that has begun goes on; an expiration that is set is reached.
TagsFairness ==
  /\ \A r \in Readers : WF_tagsVars(Answering(r))
  /\ \A l \in TagLists : WF_tagsVars(ListExpires(l))

TagsTypeOK ==
  /\ tagsOf \in [Entities -> SUBSET Tags]
  /\ cache \in [TagLists -> [fills: 0..2, tags: SUBSET Tags, expires: BOOLEAN]]
  /\ asks \in [Readers -> [pc: {"none", "query", "push", "expire"}, list: TagLists, got: SUBSET Tags]]
  /\ edits \in [Editors -> [pc: {"none", "remove", "scan", "delete"}, entity: Entities,
                            remove: SUBSET Tags, lists: SUBSET TagLists]]
  /\ raced \subseteq TagLists

\* When no edit is under way, the list of the company, and of a project without projects
\* below it, answers with the tags of the database: every edit, whatever it interleaves
\* with, has deleted it.  (Except a list that was filled with an answer older than the
\* edit, or by two readers at once; a list of a project above is not deleted at all.)
CachedTagsCurrent ==
  \A l \in TagLists \ raced :
    Cached(l) /\ (l = Company \/ Within[l] = {l}) /\ (\A e \in Editors : edits[e].pc = "none")
      => Answer(l) = TagsFromDb(l)

\* A list that answers with anything else, for whatever reason, does so for a time only.
TagsSettle ==
  \A l \in TagLists : Cached(l) /\ Answer(l) # TagsFromDb(l)
                      ~> ~Cached(l) \/ Answer(l) = TagsFromDb(l)
=============================================================================
