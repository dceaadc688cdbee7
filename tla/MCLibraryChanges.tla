-------------------------- MODULE MCLibraryChanges --------------------------
(* LibraryChanges for TLC, with the mount in use and a hook worker at once.*)
EXTENDS LibraryChanges
MCScopes == {[keys |-> Torrents, mount |-> TRUE, files |-> FALSE, hooks |-> TRUE, events |-> 1]}
MCSelections == {<< 1 >>}
=============================================================================
