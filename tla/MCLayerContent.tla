-------------------------- MODULE MCLayerContent --------------------------
EXTENDS LayerContent

InsertIndices == {-1, 0, 9}

\* The last call is not part of the state the calls depend on: properties of a
\* step are checked of every step, whatever the view.
View == <<data, enabled, tracked, owed, call.status>>

EditOps == {"CreatePrim", "SetInfo", "SetNameChildren", "Insert", "SetName"}
CleanupOps == {"CreatePrim", "CreateProperty", "CreateVariantSet", "CreateVariant", "SetInfo",
               "ClearInfo", "RemoveSpec", "Insert", "SetName", "RemoveInert", "RemovePrim",
               "RemoveInertSceneDescription", "Enable"}
VariantOps == {"CreatePrim", "CreateVariantSet", "CreateVariant", "SetInfo", "RemoveSpec",
               "RemovePrim"}
=============================================================================
