----------------------------- MODULE MCProcess -----------------------------
(***************************************************************************)
(* Three parts of the process for TLC: the token pool and its callers      *)
(* (TokenPool), reads of the mount (FuseRead), and library changes on      *)
(* their way to inode maps and hooks (LibraryChanges).  They share no      *)
(* state, so that one part moves in each behaviour; `part` says which.     *)
(***************************************************************************)
EXTENDS TokenPool, FuseRead, LibraryChanges

CONSTANTS tokA, tokB,  \* the two accounts
          k1           \* a torrent
VARIABLE part

(* A configuration loses its primary token, or gets one.                   *)
MCConfigs == {<< tokA, tokB >>, << tokB >>}

(* Reads of all parts of a file of three blocks, one of them longer than   *)
(* what is left in the buffer and one at the end of the file; reads of one *)
(* block that are interrupted, and whose handle is released.               *)
Reading == [asks |-> {<< 0, 1 >>, << 1, 1 >>, << 1, 2 >>, << 3, 1 >>},
            interrupts |-> 0, releases |-> FALSE]
Interrupting == [asks |-> {<< 0, 1 >>}, interrupts |-> 1, releases |-> FALSE]
Releasing == [asks |-> {<< 0, 1 >>}, interrupts |-> 0, releases |-> TRUE]
MCKernels == {Reading, Interrupting, Releasing}

(* The library with a mount in use, with its files, and with a hook        *)
(* worker.                                                                 *)
MCScopes ==
  {[keys |-> Torrents, mount |-> TRUE, files |-> FALSE, hooks |-> FALSE, events |-> 1],
   [keys |-> {k1}, mount |-> TRUE, files |-> TRUE, hooks |-> FALSE, events |-> 2],
   [keys |-> Torrents, mount |-> FALSE, files |-> FALSE, hooks |-> TRUE, events |-> 2]}

(* Another selection changes what a position means, and has a file more    *)
(* than there are numbers for a torrent.                                   *)
MCSelections == {<< 1 >>, << 2, 1, 3 >>}

processVars == << part, tokenVars, fuseVars, libraryVars >>

(* A part that does not move has one initial state, and nothing to do.     *)
ProcessInit ==
  /\ part \in {"tokens", "reads", "library"}
  /\ TokensInit /\ FuseInit /\ LibraryInit
  /\ part # "tokens" => config = << tokA, tokB >>
  /\ part # "reads" => kernel = Reading
  /\ part # "library" => /\ torrents = {} /\ onRd = {} /\ scope.mount /\ ~scope.files
                          /\ selection = [k \in Torrents |-> << 1 >>]
  /\ scope.mount => command = "each"
  /\ ~scope.files => selection = [k \in Torrents |-> << 1 >>]

ProcessNext ==
  \/ part = "tokens" /\ TokensNext /\ UNCHANGED << part, fuseVars, libraryVars >>
  \/ part = "reads" /\ FuseNext /\ UNCHANGED << part, tokenVars, libraryVars >>
  \/ part = "library" /\ LibraryNext /\ UNCHANGED << part, tokenVars, fuseVars >>

ProcessSpec ==
  /\ ProcessInit /\ [][ProcessNext]_processVars
  /\ TokensFairness /\ FuseFairness /\ LibraryFairness
=============================================================================
