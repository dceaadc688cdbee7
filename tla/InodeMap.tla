------------------------------ MODULE InodeMap ------------------------------
(***************************************************************************)
(* The directories of the mount (fuse/fs_lookup.rs, fuse/fs_readdir.rs,    *)
(* fuse/fs_readdirplus.rs, fuse/fs_helpers.rs): the two inode maps, the    *)
(* cached listing of __all__, and the task of fuse/fs.rs that purges the   *)
(* maps when the refresh loop has removed a torrent.                       *)
(*                                                                         *)
(* Torrents are their access keys.  A torrent directory has the inode      *)
(* INODE_TORRENT_BASE + i, here i; the inode of a file is a number made of *)
(* i and the position of the file among the selected ones, and is resolved *)
(* by the position in the selection of that moment.  Names, sizes and      *)
(* times of entries are left out; the kernel may ask for any key, and      *)
(* get_sorted_keys takes its snapshot in one step, because every key of it *)
(* is looked up again in `torrents`.                                       *)
(***************************************************************************)
EXTENDS Integers, Sequences, FiniteSets

CONSTANTS
  Torrents,        \* access keys
  NoTorrent,
  MaxInodes,       \* bound: inodes that are handed out
  Capacity,        \* of the broadcast channel (256)
  Selections,      \* what selected_files may be: lists of files
  Stride           \* file numbers per torrent (10_000)

ASSUME InodeConstants ==
  /\ NoTorrent \notin Torrents
  /\ MaxInodes \in Nat /\ Capacity \in Nat \ {0}
  /\ Selections \subseteq Seq(Nat \ {0}) /\ Stride \in Nat \ {0}

Inodes == 1..MaxInodes
NoFile == 0

VARIABLES
  torrents,    \* TorrentManager.torrents: the keys in the map
  listing,     \* cached_all_dir: [keys, fresh]
  keyToInode,  \* key_to_inode: 0 is no entry
  inodeToKey,  \* inode_to_key
  given,       \* history: the keys that inodes 1, 2, ... were made for
  reading,     \* the key a readdir has found alive, or NoTorrent
  removed,     \* torrent_removed_tx: events not yet received
  lag,         \* events the receiver has lost and not yet been told of
  purge,       \* the cleanup task: [pc, inode]
  leaked,      \* history: keys whose removal the cleanup task cannot see
  selection,   \* [Torrents -> selected_files of the entry, once its info is loaded]
  dirRead,     \* a request in a torrent directory that has its key: [inode, key]
  filesGiven   \* history: [Inodes -> the files whose numbers were handed out under it]

entryVars == << listing, keyToInode, inodeToKey, given, reading, removed, lag, purge, leaked >>
fileVars == << selection, dirRead, filesGiven >>
inodeVars == << entryVars, fileVars >>

NoDirRead == [inode |-> 0, key |-> NoTorrent]

InodesInit ==
  /\ listing = [keys |-> {}, fresh |-> FALSE]
  /\ keyToInode = [k \in Torrents |-> 0] /\ inodeToKey = [i \in Inodes |-> NoTorrent]
  /\ given = << >> /\ reading = NoTorrent
  /\ removed = << >> /\ lag = 0 /\ purge = [pc |-> "recv", inode |-> 0]
  /\ leaked = {}
  /\ selection \in [Torrents -> Selections] /\ dirRead = NoDirRead
  /\ filesGiven = [i \in Inodes |-> << >>]

-----------------------------------------------------------------------------
(* get_sorted_keys: the listing is kept for fifteen seconds.               *)
GetSortedKeys == IF listing.fresh THEN listing ELSE [keys |-> torrents, fresh |-> TRUE]

ListingExpires ==
  /\ listing.fresh
  /\ listing' = [listing EXCEPT !.fresh = FALSE]
  /\ UNCHANGED << keyToInode, inodeToKey, given, reading, removed, lag, purge, leaked, fileVars >>

NextInodeFirstFree == CHOOSE i \in Inodes : /\ inodeToKey[i] = NoTorrent
                                            /\ \A j \in 1..(i - 1) : inodeToKey[j] # NoTorrent

(* next_torrent_inode only counts up.                                      *)
NextInode == Len(given) + 1

(* get_or_assign_torrent_inode, under the entry lock of key_to_inode.      *)
GetOrAssign(k) ==
  IF keyToInode[k] # 0
    THEN UNCHANGED << keyToInode, inodeToKey, given >>
    ELSE /\ Len(given) < MaxInodes
         /\ keyToInode' = [keyToInode EXCEPT ![k] = NextInode]
         /\ inodeToKey' = [inodeToKey EXCEPT ![NextInode] = k]
         /\ given' = Append(given, k)

(* lookup holds the entry of `torrents` over the assignment.               *)
Lookup(k) ==
  /\ listing' = GetSortedKeys
  /\ IF k \in listing'.keys \cap torrents
       THEN GetOrAssign(k) ELSE UNCHANGED << keyToInode, inodeToKey, given >>
  /\ UNCHANGED << reading, removed, lag, purge, leaked, fileVars >>

(* So does readdirplus, for one key after the other.                       *)
Readdirplus(k) == Lookup(k)

(* readdir only tests whether the key is there ...                         *)
Readdir(k) ==
  /\ reading = NoTorrent
  /\ listing' = GetSortedKeys
  /\ k \in listing'.keys \cap torrents
  /\ reading' = k
  /\ UNCHANGED << keyToInode, inodeToKey, given, removed, lag, purge, leaked, fileVars >>

(* The removal of k is still to be handled by the cleanup task.            *)
Queued(k) == \E i \in DOMAIN removed : removed[i] = k

(* ... and assigns the inode when the torrent may be gone.                 *)
ReaddirAssign ==
  /\ reading # NoTorrent
  /\ GetOrAssign(reading)
  /\ reading' = NoTorrent
  /\ leaked' = IF reading \notin torrents THEN leaked \cup {reading} ELSE leaked
  /\ UNCHANGED << listing, removed, lag, purge, fileVars >>

-----------------------------------------------------------------------------
(* notify_torrent_removed: a full channel overwrites the oldest event.     *)
NotifyTorrentRemoved(k) ==
  /\ removed' = Append(IF Len(removed) = Capacity THEN Tail(removed) ELSE removed, k)
  /\ lag' = IF Len(removed) = Capacity THEN 1 ELSE lag
  /\ leaked' = (IF Len(removed) = Capacity THEN leaked \cup {Head(removed)} ELSE leaked)

(* The receiver is first told that it has lost events, and does nothing.   *)
CleanupLagged ==
  /\ purge.pc = "recv" /\ lag > 0
  /\ lag' = 0
  /\ UNCHANGED << listing, keyToInode, inodeToKey, given, reading, removed, purge, leaked, fileVars >>

CleanupInodeFirst ==
  /\ purge.pc = "recv" /\ lag = 0 /\ removed # << >>
  /\ removed' = Tail(removed)
  /\ LET i == keyToInode[Head(removed)]
     IN  /\ inodeToKey' = IF i = 0 THEN inodeToKey ELSE [inodeToKey EXCEPT ![i] = NoTorrent]
         /\ purge' = IF i = 0 THEN purge ELSE [pc |-> "inode", inode |-> i]
  /\ leaked' = leaked \ {Head(removed)}
  /\ UNCHANGED << listing, keyToInode, given, reading, lag, fileVars >>

(* A removal: key_to_inode first ...                                       *)
CleanupKey ==
  /\ purge.pc = "recv" /\ lag = 0 /\ removed # << >>
  /\ removed' = Tail(removed)
  /\ keyToInode' = [keyToInode EXCEPT ![Head(removed)] = 0]
  /\ purge' = IF keyToInode[Head(removed)] = 0 THEN purge
              ELSE [pc |-> "inode", inode |-> keyToInode[Head(removed)]]
  /\ leaked' = leaked \ {Head(removed)}
  /\ UNCHANGED << listing, inodeToKey, given, reading, lag, fileVars >>

(* ... then inode_to_key.                                                  *)
CleanupInode ==
  /\ purge.pc = "inode"
  /\ inodeToKey' = [inodeToKey EXCEPT ![purge.inode] = NoTorrent]
  /\ purge' = [pc |-> "recv", inode |-> 0]
  /\ UNCHANGED << listing, keyToInode, given, reading, removed, lag, leaked, fileVars >>

DirectoryStep ==
  \/ ListingExpires \/ ReaddirAssign
  \/ \E k \in Torrents : Lookup(k) \/ Readdirplus(k) \/ Readdir(k)

-----------------------------------------------------------------------------
(* file_inode, and how getattr and read take it apart.  Nothing keeps pos  *)
(* below Stride.                                                           *)
FileInode(i, pos) == i * Stride + pos
TorrentOf(n) == n \div Stride
PosOf(n) == n % Stride

(* What getattr, access, lookup and read find for an inode: the key, and   *)
(* the file that the selection now has at the position.                    *)
Resolve(i) == IF i \in Inodes THEN inodeToKey[i] ELSE NoTorrent

ResolveFile(n) ==
  LET k == Resolve(TorrentOf(n))
  IN  IF k \in torrents /\ PosOf(n) < Len(selection[k]) THEN selection[k][PosOf(n) + 1] ELSE NoFile

(* lookup, readdir and readdirplus in a torrent directory take its key ... *)
OpenDir(i) ==
  /\ dirRead = NoDirRead /\ Resolve(i) # NoTorrent
  /\ dirRead' = [inode |-> i, key |-> Resolve(i)]
  /\ UNCHANGED << entryVars, selection, filesGiven >>

(* ... and, when ensure_torrent_info has returned, hand out the numbers of *)
(* the selected files.                                                     *)
ListFiles ==
  /\ dirRead # NoDirRead
  /\ dirRead' = NoDirRead
  /\ filesGiven' = IF dirRead.key \in torrents
                     THEN [filesGiven EXCEPT ![dirRead.inode] = selection[dirRead.key]]
                     ELSE filesGiven
  /\ UNCHANGED << entryVars, selection >>

(* The info of a torrent is loaded again, from another record: history     *)
(* forgets the numbers that were handed out for another selection.         *)
Reload(k, new) ==
  /\ selection' = [selection EXCEPT ![k] = new]
  /\ filesGiven' = [i \in Inodes |-> IF i \in DOMAIN given /\ given[i] = k /\ new # selection[k]
                                      THEN << >> ELSE filesGiven[i]]
  /\ UNCHANGED dirRead

FileStep == ListFiles \/ \E i \in Inodes : OpenDir(i)

-----------------------------------------------------------------------------
(* The kernel keeps inodes of torrents and files for as long as it likes.  *)
(* Whatever was removed, added again and purged since, the inode of a      *)
(* torrent leads to the torrent it was handed out for, or to nothing.  A   *)
(* number handed out for a file leads to that file or to nothing, while    *)
(* the torrent keeps the selection it was handed out for and the position  *)
(* is below Stride.                                                        *)
InodeNeverMoves ==
  \A i \in DOMAIN given :
    /\ Resolve(i) \in {given[i], NoTorrent}
    /\ \A pos \in 0..(Stride - 1) : pos < Len(filesGiven[i]) =>
         ResolveFile(FileInode(i, pos)) \in {filesGiven[i][pos + 1], NoFile}

(* The inode that a lookup would return resolves to the key it was looked  *)
(* up by, also while the cleanup task is between its two maps and the same *)
(* torrent has been added again; an inode that resolves and is not the one *)
(* of its key is about to be purged.                                       *)
MapsAgree ==
  /\ \A k \in Torrents : keyToInode[k] # 0 => inodeToKey[keyToInode[k]] = k
  /\ \A i \in Inodes : inodeToKey[i] # NoTorrent /\ keyToInode[inodeToKey[i]] # i
                         => purge.inode = i
=============================================================================
