---------------------------- MODULE PrePopulate ----------------------------
(***************************************************************************)
(* Example data (mongo/initialize/pre_populate.py): the export of projects *)
(* and tasks into zip files, which is repeated only when something has     *)
(* changed, and the import of a zip into another server.                   *)
(*                                                                         *)
(* An export reads the documents once and the events of each task later,   *)
(* while tasks report; it removes the files of the previous export, writes *)
(* new ones, and at last the map file that names them with the times of    *)
(* the entities.  It may be killed anywhere, and run again.  An import     *)
(* saves the tasks and then adds their events in chunks; it may be killed  *)
(* and run again as well.  Elasticsearch and the file system are external. *)
(***************************************************************************)
EXTENDS Integers, FiniteSets, SequencesExt

CONSTANTS
  Samples,   \* tasks that are exported
  Packed,    \* tasks in the zip that is imported
  Metadata,  \* what an export is given to put into the zip
  MaxChanges, \* bound: reports of a task
  MaxKills    \* bound: how often an export or an import is killed

ASSUME PrePopulateAssumption == IsFiniteSet(Samples) /\ IsFiniteSet(Packed) /\ MaxChanges \in Nat /\ MaxKills \in Nat

VARIABLES
  chosen,   \* the tasks that the query of the export finds at present
  updated,  \* last_update of each task
  events,   \* how many events it has; reported before last_update is set
  disk,     \* files: what each of them holds, its name being a hash of that
  mapFile,  \* the map file: files, entities and metadata, or none
  exporter, \* the export that runs, or has answered
  kills,
  target,   \* the server that imports: task and chunks of events, counted
  importer

exportVars == <<chosen, updated, events, disk, mapFile, exporter>>
importVars == <<target, importer>>
populateVars == <<exportVars, importVars, kills>>

NoMap == [files |-> {}, entities |-> <<>>, metadata |-> "", readable |-> FALSE]
NoExport == [pc |-> "none", metadata |-> "", entities |-> <<>>, old |-> {}, written |-> <<>>, files |-> {}]

-----------------------------------------------------------------------------
(* Export.                                                                 *)

ZipOf(x) == [kind |-> "zip", entities |-> x.entities, events |-> x.written, metadata |-> x.metadata]
ArtifactsOf(x) == [ZipOf(x) EXCEPT !.kind = "artifacts"]

\* Mutant of Outdated: the files are not looked for.
OutdatedMap(x) == ~mapFile.readable \/ mapFile.entities # x.entities \/ mapFile.metadata # x.metadata

\* _check_for_update: a file is missing, an entity came, went or changed, or the metadata did.
Outdated(x) ==
  \/ ~mapFile.readable
  \/ ~(mapFile.files \subseteq disk)
  \/ mapFile.entities # x.entities
  \/ mapFile.metadata # x.metadata

\* export_to_zip: the entities are read, and the map file with the files it names.
StartExport(metadata) ==
  /\ exporter.pc \in {"none", "answered"}
  /\ LET x == [NoExport EXCEPT !.entities = [t \in chosen |-> updated[t]], !.metadata = metadata]
     IN  exporter' = IF Outdated(x) THEN [x EXCEPT !.pc = "remove", !.old = mapFile.files]
                     ELSE [x EXCEPT !.pc = "answered", !.files = mapFile.files]
  /\ UNCHANGED <<chosen, updated, events, disk, mapFile, kills>>

RemoveOld ==
  /\ exporter.pc = "remove"
  /\ IF exporter.old = {} THEN exporter' = [exporter EXCEPT !.pc = "events"] /\ UNCHANGED disk
     ELSE \E f \in exporter.old : disk' = disk \ {f} /\ exporter' = [exporter EXCEPT !.old = @ \ {f}]
  /\ UNCHANGED <<chosen, updated, events, mapFile, kills>>

\* _export, _export_task_events: into a temporary file, task by task.
ExportEvents(t) ==
  /\ exporter.pc = "events" /\ t \in DOMAIN exporter.entities \ DOMAIN exporter.written
  /\ exporter' = [exporter EXCEPT !.written = [u \in DOMAIN @ \cup {t} |-> IF u = t THEN events[t] ELSE @[u]]]
  /\ UNCHANGED <<chosen, updated, events, disk, mapFile, kills>>

\* The temporary file gets its name; the artifacts go to a file of their own, if there are any.
ReplaceFile ==
  /\ exporter.pc = "events" /\ DOMAIN exporter.written = DOMAIN exporter.entities
  /\ disk' = disk \cup {ZipOf(exporter)}
  /\ exporter' = [exporter EXCEPT !.pc = "artifacts", !.files = {ZipOf(exporter)}]
  /\ UNCHANGED <<chosen, updated, events, mapFile, kills>>

ExportArtifacts ==
  /\ exporter.pc = "artifacts"
  /\ \/ disk' = disk \cup {ArtifactsOf(exporter)}
        /\ exporter' = [exporter EXCEPT !.pc = "map", !.files = @ \cup {ArtifactsOf(exporter)}]
     \/ UNCHANGED disk /\ exporter' = [exporter EXCEPT !.pc = "map"]
  /\ UNCHANGED <<chosen, updated, events, mapFile, kills>>

\* _write_update_file
WriteMap ==
  /\ exporter.pc = "map"
  /\ mapFile' = [files |-> exporter.files, entities |-> exporter.entities, metadata |-> exporter.metadata,
                 readable |-> TRUE]
  /\ exporter' = [exporter EXCEPT !.pc = "answered"]
  /\ UNCHANGED <<chosen, updated, events, disk, kills>>

\* The process is killed; while it writes the map file, this may be left cut off.
ExportDies ==
  /\ exporter.pc \notin {"none", "answered"} /\ kills < MaxKills /\ kills' = kills + 1
  /\ exporter' = NoExport
  /\ mapFile' \in {mapFile} \cup (IF exporter.pc = "map" THEN {NoMap} ELSE {})
  /\ UNCHANGED <<chosen, updated, events, disk>>

\* A task reports: its events are stored, and then its last_update is set.
StoreEvents(t) ==
  /\ events[t] < MaxChanges /\ events' = [events EXCEPT ![t] = @ + 1]
  /\ UNCHANGED <<chosen, updated, disk, mapFile, exporter, kills>>
SetLastUpdate(t) ==
  /\ updated[t] < events[t] /\ updated' = [updated EXCEPT ![t] = events[t]]
  /\ UNCHANGED <<chosen, events, disk, mapFile, exporter, kills>>
Archive(t) ==
  /\ chosen' = IF t \in chosen THEN chosen \ {t} ELSE chosen \cup {t}
  /\ UNCHANGED <<updated, events, disk, mapFile, exporter, kills>>

ExportNext ==
  /\ \/ \E m \in Metadata : StartExport(m)
     \/ RemoveOld \/ ReplaceFile \/ ExportArtifacts \/ WriteMap \/ ExportDies
     \/ \E t \in Samples : ExportEvents(t) \/ StoreEvents(t) \/ SetLastUpdate(t) \/ Archive(t)
  /\ UNCHANGED importVars

ExportInit ==
  /\ chosen = Samples /\ updated = [t \in Samples |-> 0] /\ events = [t \in Samples |-> 0]
  /\ disk = {} /\ mapFile = NoMap /\ exporter = NoExport

ExportTypeOK ==
  /\ chosen \subseteq Samples /\ updated \in [Samples -> 0..MaxChanges] /\ events \in [Samples -> 0..MaxChanges]
  /\ exporter.pc \in {"none", "remove", "events", "artifacts", "map", "answered"}
  /\ \A f \in disk : f.kind \in {"zip", "artifacts"}

-----------------------------------------------------------------------------
(* Import.                                                                 *)

Chunks == 1..2 \* bound: chunks of 1000 events of each task in the zip

NoTaskYet == [exists |-> FALSE, events |-> [c \in Chunks |-> 0]]
Importing(pc) == [pc |-> pc, saved |-> {}, deleted |-> {}, added |-> {}]

\* delete_task_events, which waits until they are gone.
Cleared(task) == [task EXCEPT !.events = [c \in Chunks |-> 0]]

StartImport ==
  /\ importer.pc \in {"none", "done"}
  /\ importer' = Importing("entities")
  /\ UNCHANGED <<target, kills>>

\* _import_entity: the document replaces one that is there; then its events are deleted.
ImportEntity(t) ==
  /\ importer.pc = "entities" /\ t \notin importer.saved /\ importer.saved = importer.deleted
  /\ target' = [target EXCEPT ![t].exists = TRUE]
  /\ importer' = [importer EXCEPT !.saved = @ \cup {t}]
  /\ UNCHANGED kills
DeleteEvents(t) ==
  /\ importer.pc = "entities" /\ t \in importer.saved \ importer.deleted
  /\ target' = [target EXCEPT ![t] = Cleared(@)]
  /\ importer' = [importer EXCEPT !.deleted = @ \cup {t}]
  /\ UNCHANGED kills

\* _import: the events after all the tasks, because they need them; _import_events
ImportEvents(t, c) ==
  /\ importer.pc = "entities" /\ importer.deleted = Packed
  /\ <<t, c>> \notin importer.added /\ \A b \in Chunks : b < c => <<t, b>> \in importer.added
  /\ \A u \in Packed \ {t} : (\E b \in Chunks : <<u, b>> \in importer.added) => {u} \X Chunks \subseteq importer.added
  /\ target' = [target EXCEPT ![t].events[c] = @ + 1]
  /\ importer' = [importer EXCEPT !.added = @ \cup {<<t, c>>}]
  /\ UNCHANGED kills
FinishImport ==
  /\ importer.pc = "entities" /\ importer.added = Packed \X Chunks
  /\ importer' = [importer EXCEPT !.pc = "done"]
  /\ UNCHANGED <<target, kills>>

ImportDies ==
  /\ importer.pc = "entities" /\ kills < MaxKills /\ kills' = kills + 1
  /\ importer' = Importing("none")
  /\ UNCHANGED target

ImportNext ==
  /\ \/ StartImport \/ FinishImport \/ ImportDies
     \/ \E t \in Packed : ImportEntity(t) \/ DeleteEvents(t) \/ \E c \in Chunks : ImportEvents(t, c)
  /\ UNCHANGED exportVars

ImportInit ==
  /\ target = [t \in Packed |-> NoTaskYet]
  /\ importer = Importing("none") /\ kills = 0

-----------------------------------------------------------------------------
(* Properties.                                                             *)

\* Whenever an export answers, and above all that there was nothing to do, the files it
\* names exist, and the zip among them has the tasks as they were when it began, with every
\* event that their last_update told of, and its metadata; whatever was killed before.
ExportsAreCurrent ==
  exporter.pc = "answered" =>
    /\ exporter.files \subseteq disk
    /\ \E f \in exporter.files :
         /\ f.kind = "zip" /\ f.entities = exporter.entities /\ f.metadata = exporter.metadata
         /\ \A t \in DOMAIN f.entities : f.events[t] >= f.entities[t]

\* When an import is done, each task of the zip is there with its events, each of them once,
\* even if an earlier import of it was killed after it had added some.
ImportsRestore ==
  importer.pc = "done" =>
    \A t \in Packed : target[t] = [exists |-> TRUE, events |-> [c \in Chunks |-> 1]]

\* Both: what is exported is what there was, and what is imported is what was packed.
ExamplesAreWhole == ExportsAreCurrent /\ ImportsRestore
=============================================================================
