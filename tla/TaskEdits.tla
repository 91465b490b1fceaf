----------------------------- MODULE TaskEdits -----------------------------
(***************************************************************************)
(* Editing of a task: hyper parameters (bll/task/hyperparams.py), artifacts*)
(* (bll/task/artifacts.py), the list of its output models and fields       *)
(* (services/tasks.py, services/models.py), by several clients, while the  *)
(* task goes through its life.  Every request reads the task, tests its    *)
(* status, and then sends one update, or two for a model.  Most updates    *)
(* name the keys they set; tasks.edit writes back a whole section of the   *)
(* document as it was read.  Configurations are edited as the parameters   *)
(* of one more section are.  Clients before 2.9 see their parameters, and  *)
(* only these, in execution.parameters (bll/task/param_utils.py).          *)
(***************************************************************************)
EXTENDS TaskStatus, Filtering, Integers, FiniteSets, Functions, Sequences, SequencesExt

CONSTANTS
  Clients,    \* clients
  Legacy,     \* pairs of a section and a name: the parameters that an old client can name
  Properties, \* those of the section properties
  Artifacts,  \* ids of artifacts: a hash of the key, and the mode
  AskedEdits, \* the requests that may be sent
  Lives,      \* statuses the task goes through
  MaxEdits    \* bound: requests


VARIABLES
  doc,    \* the task; exists, status, params: who wrote a parameter, and whether an old
          \* client did; artifacts and framework: the section execution; tags
  editing,  \* what each client has asked for, and the task as its request read it, or as
            \* its first update found it without the model
  sent    \* how many requests there were

editVars == <<doc, editing, sent>>

Parameters == Legacy \cup Properties
NoWish == [kind |-> "none"]
NotEditing == [pc |-> "none", asked |-> NoWish, seen |-> 0]

Value(e, old) == [by |-> e, legacy |-> old]
OfSection(keys) == {p \in Parameters : \E k \in keys : k[1] = p[1]}

\* What requests carry.
Requests ==
  [kind: {"parameters"}, keys: SUBSET Parameters, replace: {"all", "section", "none"}, force: BOOLEAN]
    \cup [kind: {"delete"}, keys: SUBSET Parameters, sections: BOOLEAN, force: BOOLEAN]
    \cup [kind: {"legacy"}, keys: SUBSET Legacy, force: BOOLEAN]
    \cup [kind: {"artifacts", "forget"}, keys: SUBSET Artifacts, force: BOOLEAN]
    \cup [kind: {"framework"}, force: BOOLEAN] \cup [kind: {"update"}]
    \cup [kind: {"model", "unlist"}, name: STRING, force: BOOLEAN]
    \cup [kind: {"old_model"}, name: STRING, override: BOOLEAN]

\* Properties are sections of their own.
ASSUME TaskEditsAssumption ==
  /\ \A p \in Legacy, k \in Properties : p[1] # k[1]
  /\ Lives \subseteq Statuses /\ AskedEdits \subseteq Requests

-----------------------------------------------------------------------------
(* What a request may do.                                                  *)

\* Mutant of PropertiesOnly: one property among the parameters is enough.
AnyProperty(keys) == keys \cap Properties # {}

\* _normalize_params
PropertiesOnly(keys) == keys \subseteq Properties

\* get_task_for_update, and the test of tasks.edit, where force opens every status.
AllowedStatuses(r) ==
  CASE r.kind = "update" -> Statuses
    [] r.kind = "old_model" -> {created, in_progress}
    [] r.kind \in {"parameters", "delete"} /\ PropertiesOnly(r.keys) -> Statuses
    [] r.kind \in {"legacy", "framework"} /\ r.force -> Statuses
    [] OTHER -> {created} \cup (IF r.force THEN RunningStatuses ELSE {})

-----------------------------------------------------------------------------
(* Updates of parameters.                                                  *)

Dropping(params, keys) == Restrict(params, DOMAIN params \ keys)
Setting(params, keys, value) == [p \in DOMAIN params \cup keys |-> IF p \in keys THEN value ELSE params[p]]

\* edit_params: all of them, their sections, or only those that the request names.
ReplacedParameters(r) ==
  CASE r.replace = "all" -> Parameters [] r.replace = "section" -> OfSection(r.keys) [] OTHER -> r.keys
EditParams(params, e, r) == Setting(Dropping(params, ReplacedParameters(r)), r.keys, Value(e, FALSE))

\* delete_params: single parameters, or sections.
DeleteParams(params, r) == Dropping(params, IF r.sections THEN OfSection(r.keys) ELSE r.keys)

OldParams(params) == {p \in DOMAIN params : params[p].legacy}

\* params_prepare_for_save: the new ones take the place of those that old clients wrote.
LegacyParams(seen, e, keys) == Setting(Dropping(seen, OldParams(seen)), keys, Value(e, TRUE))

-----------------------------------------------------------------------------
(* Updates of the list of models.                                          *)

Item(e, r) == [name |-> r.name, by |-> e]
ModelsNamed(models, name) == {k \in DOMAIN models : models[k].name = name}
Others(models, name) == Excluding(models, {m \in ToSet(models) : m.name = name})

\* add_or_update_model: its first update replaces the first model of that name.
SetFirst(models, item) ==
  LET at == ModelsNamed(models, item.name)
  IN  IF at = {} THEN models ELSE [models EXCEPT ![CHOOSE k \in at : \A j \in at : k <= j] = item]

\* update_for_task, of clients before 2.13: a given model, or a new one if the task had none.
OldModel(models, e, r, seen) == IF r.override \/ seen = <<>> THEN <<Item(e, r)>> ELSE models

\* The update of a request; what tasks.edit writes comes from the document it read.
Edited(d, e, r, seen) ==
  CASE r.kind = "parameters" -> [d EXCEPT !.params = EditParams(@, e, r)]
    [] r.kind = "delete"     -> [d EXCEPT !.params = DeleteParams(@, r)]
    [] r.kind = "artifacts"  -> [d EXCEPT !.artifacts = Setting(@, r.keys, e)]
    [] r.kind = "forget"     -> [d EXCEPT !.artifacts = Dropping(@, r.keys)]
    [] r.kind = "update"     -> [d EXCEPT !.tags = e]
    [] r.kind = "model"      -> [d EXCEPT !.models = SetFirst(@, Item(e, r))]
    [] r.kind = "unlist"     -> [d EXCEPT !.models = Others(@, r.name)]
    [] r.kind = "old_model"  -> [d EXCEPT !.models = OldModel(@, e, r, seen.models)]
    [] r.kind = "framework"  -> [d EXCEPT !.framework = e, !.artifacts = seen.artifacts]
    [] r.kind = "legacy" ->
         IF r.keys = {} /\ OldParams(seen.params) = {}
         THEN [d EXCEPT !.framework = seen.framework, !.artifacts = seen.artifacts]
         ELSE [d EXCEPT !.params = LegacyParams(seen.params, e, r.keys),
                        !.framework = seen.framework, !.artifacts = seen.artifacts]

-----------------------------------------------------------------------------
(* Requests.                                                               *)

\* The request reads the task and is refused, or goes on.
AskEdit(e, r) ==
  /\ sent < MaxEdits /\ sent' = sent + 1
  /\ editing[e].pc = "none" /\ doc.exists /\ doc.status \in AllowedStatuses(r)
  /\ editing' = [editing EXCEPT ![e] = [pc |-> "update", asked |-> r, seen |-> doc]]
  /\ UNCHANGED doc

\* update_task, task.update, safe_update: nothing is changed in a task that is gone.
WriteEdit(e) ==
  /\ editing[e].pc = "update"
  /\ doc' = IF doc.exists THEN Edited(doc, e, editing[e].asked, editing[e].seen) ELSE doc
  /\ editing' = [editing EXCEPT ![e] =
       IF @.asked.kind = "model" /\ (~doc.exists \/ ModelsNamed(doc.models, @.asked.name) = {})
       THEN [@ EXCEPT !.pc = "push", !.seen = doc] ELSE NotEditing]
  /\ UNCHANGED sent

\* add_or_update_model: its second update, of the statistics, adds the model.
PushModel(e) ==
  /\ editing[e].pc = "push"
  /\ doc' = IF doc.exists THEN [doc EXCEPT !.models = Append(@, Item(e, editing[e].asked))] ELSE doc
  /\ editing' = [editing EXCEPT ![e] = NotEditing]
  /\ UNCHANGED sent

\* Other requests change the status of the task, or delete it.
MoveTask ==
  /\ doc.exists
  /\ \E s \in Lives \cap state_machine[doc.status] : doc' = [doc EXCEPT !.status = s]
  /\ UNCHANGED <<editing, sent>>
RemoveTask ==
  /\ doc.exists /\ doc' = [doc EXCEPT !.exists = FALSE] /\ UNCHANGED <<editing, sent>>

EditNext ==
  \/ \E e \in Clients : WriteEdit(e) \/ PushModel(e) \/ \E r \in AskedEdits : AskEdit(e, r)
  \/ MoveTask \/ RemoveTask

\* A task as it was created, with and without parameters, by a client old or new.
NewTask(params) ==
  [exists |-> TRUE, status |-> created, params |-> params, artifacts |-> [a \in {} |-> 0],
   framework |-> "creator", tags |-> "creator", models |-> <<>>]
EditInit ==
  /\ \E P \in {{}, Parameters}, old \in BOOLEAN :
       doc = NewTask([p \in P |-> Value("creator", old /\ p \in Legacy)])
  /\ editing = [e \in Clients |-> NotEditing] /\ sent = 0

EditTypeOK ==
  /\ DOMAIN doc.params \subseteq Parameters /\ DOMAIN doc.artifacts \subseteq Artifacts
  /\ \A p \in DOMAIN doc.params : doc.params[p] \in [by: Clients \cup {"creator"}, legacy: BOOLEAN]
  /\ \A e \in Clients : editing[e].pc \in {"none", "update", "push"} /\ editing[e].asked \in AskedEdits \cup {NoWish}

-----------------------------------------------------------------------------
(* Properties.                                                             *)

Differing(f, g) == {k \in DOMAIN f \cup DOMAIN g : k \notin DOMAIN f \cap DOMAIN g \/ f[k] # g[k]}
EditedParameters(r) ==
  CASE r.kind = "parameters" -> ReplacedParameters(r)
    [] r.kind = "delete" -> IF r.sections THEN OfSection(r.keys) ELSE r.keys
    [] OTHER -> {}

Twice(models, name) == \E i, j \in ModelsNamed(models, name) : i # j
ModelsKeepToTheirNames(e) ==
  LET r    == editing[e].asked
      seen == editing[e].seen.models
  IN  editing[e].pc # "none" /\ editing'[e] # editing[e] /\ doc.models # doc'.models =>
        CASE r.kind \in {"model", "unlist"} ->
               /\ Others(doc'.models, r.name) = Others(doc.models, r.name)
               /\ IF r.kind = "unlist" THEN ModelsNamed(doc'.models, r.name) = {}
                  ELSE Item(e, r) \in ToSet(doc'.models)
               /\ Twice(doc'.models, r.name) /\ ~Twice(doc.models, r.name) =>
                    ModelsNamed(seen, r.name) = {} /\ ModelsNamed(doc.models, r.name) # {}
          [] r.kind = "old_model" -> doc'.models = <<Item(e, r)>> /\ (r.override \/ seen = <<>>)
          [] OTHER -> FALSE

FieldsKeepToTheirKeys(e) ==
  editing[e].pc = "update" /\ editing'[e].pc # "update" /\ doc.exists =>
    LET r       == editing[e].asked
        seen    == editing[e].seen
        params  == Differing(doc.params, doc'.params)
        results == Differing(doc.artifacts, doc'.artifacts)
    IN  /\ r.kind \notin {"legacy", "framework"} =>
             /\ params \subseteq EditedParameters(r) /\ doc.framework = doc'.framework
             /\ results \subseteq (IF r.kind \in {"artifacts", "forget"} THEN r.keys ELSE {})
        /\ r.kind = "framework" => params = {}
        /\ r.kind = "legacy" /\ params # {} =>
             /\ OldParams(doc'.params) = r.keys
             /\ \A p \in Parameters \ r.keys :
                  IF p \in DOMAIN seen.params /\ ~seen.params[p].legacy
                  THEN p \in DOMAIN doc'.params /\ doc'.params[p] = seen.params[p]
                  ELSE p \notin DOMAIN doc'.params
        /\ params \ Properties # {} \/ results # {} =>
             \/ seen.status = created \/ (seen.status \in RunningStatuses /\ r.force)
             \/ r.kind \in {"legacy", "framework"} /\ r.force
             \/ r.kind = "parameters" /\ r.replace = "all" /\ PropertiesOnly(r.keys)

\* Whatever other requests write between the steps of one: a request that names parameters or
\* artifacts changes these and nothing else.  One of an old client leaves it with the
\* parameters it has sent, and every other parameter as the request has read it.  Other
\* parameters than properties, and artifacts, are changed only on behalf of a request that
\* has found the task new, or that was forced and found it queued or running (tasks.edit:
\* in any status).  There is one way round that: a request that names properties only, and
\* replaces all parameters, removes the others from a task in any status.  A request that
\* names a model leaves the models of other names as they are and in their order; it makes
\* no name appear twice, unless somebody has added that name since it has found none.
EditsKeepToTheirKeys ==
  [][\A e \in Clients : ModelsKeepToTheirNames(e) /\ FieldsKeepToTheirKeys(e)]_editVars
=============================================================================
