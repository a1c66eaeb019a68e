------------------------------ MODULE MCReplay ------------------------------
(* The captures model-checked, and the narrower ones of the findings.      *)
EXTENDS Replay

CONSTANTS a, b

Live == [requested |-> {}, logs |-> TRUE, import |-> FALSE, unpulled |-> {},
         definitions |-> TRUE,
         varied |-> {"namespaces", "services", "deployments", "workload_histories", "metrics"}]
Named == [Live EXCEPT !.requested = {a}, !.varied = {"namespaces", "nodes", "configmaps", "pods"}]
Customs == [Live EXCEPT !.varied = {"namespaces", "custom_resources"}]
CustomsNamed == [Live EXCEPT !.requested = {a, b}, !.varied = {"custom_resources"}]
Imported == [Live EXCEPT !.import = TRUE, !.unpulled = {"replicasets", "services"},
                         !.varied = {"namespaces", "deployments", "replicasets", "statefulsets",
                                     "pods"}]
ImportedCustoms == [Imported EXCEPT !.varied = {"custom_resources"}]
ImportedPlain == [ImportedCustoms EXCEPT !.definitions = FALSE]

MCOptions == {Live, Named, Customs, CustomsNamed, Imported, ImportedCustoms, ImportedPlain}

OneNamespaceNamed == {[Named EXCEPT !.varied = {"nodes"}]}
OneConfigMap == {[Named EXCEPT !.varied = {"configmaps"}]}
OneCutType == {[Customs EXCEPT !.varied = {"custom_resources"}]}
OnePod == {[Named EXCEPT !.varied = {"pods"}]}
=============================================================================
