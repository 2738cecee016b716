------------------------------ MODULE MCIndex -------------------------------
(* Small instances of ssd-index: a store with one prefix for each chunk's     *)
(* file, or a directory walk over files that are empty or that the windows in *)
(* the bound cut into two to five chunks.  Each behaviour runs one of them.   *)
EXTENDS FileStore, IndexDirectory

MCPrefixes == {{id} : id \in Ids}
MCTexts == {0, 5}

VARIABLE part
directoryVars == <<walkVars, vars>>
MCInit == /\ part \in {"store", "walk"} /\ StoreInit /\ WalkInit
          /\ part = "store" => window = 1 /\ tree = [f \in Files |-> Binary]
StorePart == part = "store" /\ StoreNext /\ UNCHANGED <<directoryVars, part>>
WalkPart  == part = "walk" /\ WalkNext /\ UNCHANGED <<storeVars, part>>
MCSpec == /\ MCInit /\ [][StorePart \/ WalkPart]_<<storeVars, directoryVars, part>>
          /\ WF_directoryVars(part = "walk" /\ Walk)

=============================================================================
