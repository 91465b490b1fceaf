----------------------------- MODULE MCOutputs -----------------------------
(* Instances of Outputs for TLC: a controller with one step and two models. *)
EXTENDS Outputs
CONSTANTS t1, t2, m1, m2, file1, file2, artifact, folder

\* The folder holds the file of the model and the artifact that are in the project.
MCUrls == {file1, file2, artifact, folder}
MCCovers == [u \in MCUrls |-> IF u = folder THEN {file1, artifact} ELSE {u}]
MCFolder == [u \in MCUrls |-> IF u = file2 THEN file2 ELSE folder]
OneStorage == [u \in MCUrls |-> "fileserver"]

MCUri == m1 :> file1 @@ m2 :> file2

\* t1 has made both models and names one of them; t2 is a child of it.
TwoModels ==
  {[tasks |-> t1 :> [exists |-> TRUE, status |-> completed, parent |-> NoTask, inputs |-> {},
                     outputs |-> <<m1>>, artifacts |-> {artifact}] @@
              t2 :> [exists |-> TRUE, status |-> created, parent |-> t1, inputs |-> {},
                     outputs |-> <<>>, artifacts |-> {}],
    models |-> [m \in {m1, m2} |-> [exists |-> TRUE, ready |-> FALSE, task |-> t1]]]}

\* Whoever keeps the models keeps the files.
Careful == {[external |-> TRUE, output_models |-> TRUE], [external |-> FALSE, output_models |-> FALSE]}
\* The models are kept, and the files go.
Defaults == {[external |-> TRUE, output_models |-> FALSE]}
=============================================================================
