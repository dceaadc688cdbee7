--------------------------- MODULE ProcessProofs ---------------------------
(***************************************************************************)
(* Theorems about three parts of the process: library changes and the      *)
(* inode maps (LibraryChanges), reads of the mount (FuseRead) and the      *)
(* download tokens (TokenPool).  The parts share no state; each has its    *)
(* own inductive invariant.                                                *)
(***************************************************************************)
EXTENDS TokenPool, FuseRead, LibraryChanges, FiniteSetTheorems, WellFoundedInduction,
        NaturalsInduction, TLAPS

----------------------------------------------------------------------------
(* Library changes.  The types, with what the cleanup task and the refresh *)
(* round know between their steps: a task that waits has no inode in hand, *)
(* and only a round about to notify has a key.                             *)
Rounds == [pc : {"idle", "apply", "notify"}, add : SUBSET Torrents, chg : SUBSET Torrents,
           del : SUBSET Torrents, paths : SUBSET Torrents, store : BOOLEAN,
           key : Torrents \cup {NoTorrent}]

InodeTypes ==
  /\ given \in Seq(Torrents) /\ Len(given) <= MaxInodes
  /\ keyToInode \in [Torrents -> 0..Len(given)]
  /\ inodeToKey \in [Inodes -> Torrents \cup {NoTorrent}]
  /\ purge \in [pc : {"recv", "inode"}, inode : 0..Len(given)]
  /\ purge.pc = "recv" <=> purge.inode = 0
  /\ reading \in Torrents \cup {NoTorrent}

(* An inode leads to the key it was made for; the inode being purged is no *)
(* longer anybody's.                                                       *)
InodeInv ==
  /\ \A i \in Inodes : inodeToKey[i] # NoTorrent => i <= Len(given) /\ inodeToKey[i] = given[i]
  /\ \A k \in Torrents : keyToInode[k] # 0 => keyToInode[k] # purge.inode

(* What was handed out under an inode is the selection of its torrent; the *)
(* key that a request has taken is the one of its inode.                   *)
FileTypes ==
  /\ selection \in [Torrents -> Selections]
  /\ filesGiven \in [Inodes -> Selections \cup {<< >>}]
  /\ dirRead # NoDirRead => dirRead.inode \in 1..Len(given) /\ dirRead.key = given[dirRead.inode]

FilesKept ==
  \A i \in Inodes : filesGiven[i] # << >> => i <= Len(given) /\ filesGiven[i] = selection[given[i]]

QueueTypes == removed \in Seq(Torrents)

RoundInv ==
  /\ torrents \subseteq Torrents /\ onRd \subseteq Torrents /\ touched \subseteq Torrents
  /\ round \in Rounds
  /\ round.pc = "notify" <=> round.key # NoTorrent

DirInv == InodeTypes /\ InodeInv /\ MapsAgree
LibraryInv == QueueTypes /\ RoundInv /\ DirInv /\ FileTypes /\ FilesKept /\ DeadInodesPurged

(* What one step may do to the maps: nothing, assign a new inode, or one   *)
(* of the two halves of a purge.                                           *)
mapVars == << keyToInode, inodeToKey, given, purge >>

(* get_or_assign_torrent_inode keeps the maps in agreement.                *)
LEMMA AssignKeeps ==
  ASSUME NEW k \in Torrents, InodeTypes, InodeInv, MapsAgree, GetOrAssign(k),
         purge' = purge, reading' \in Torrents \cup {NoTorrent}
  PROVE  InodeTypes' /\ InodeInv' /\ MapsAgree'
<1> USE InodeConstants
<1>1. CASE keyToInode[k] # 0
  <2>1. mapVars' = mapVars
    BY <1>1 DEF GetOrAssign, mapVars
  <2> QED BY <2>1 DEF InodeTypes, InodeInv, MapsAgree, mapVars
<1>2. CASE keyToInode[k] = 0
  <2> DEFINE n == Len(given) + 1
  <2>0. /\ Len(given) < MaxInodes
        /\ keyToInode' = [keyToInode EXCEPT ![k] = n]
        /\ inodeToKey' = [inodeToKey EXCEPT ![n] = k]
        /\ given' = Append(given, k)
    BY <1>2 DEF GetOrAssign, NextInode
  <2>1. /\ Len(given) \in Nat /\ n \in Inodes /\ n # 0 /\ n = Len(given')
        /\ \A i \in 1..Len(given) : given'[i] = given[i]
        /\ given'[n] = k /\ given' \in Seq(Torrents)
    BY <2>0 DEF InodeTypes, Inodes
  <2>2. purge.inode \in 0..Len(given) /\ purge.inode # n
    BY <2>1 DEF InodeTypes
  <2>3. InodeTypes'
    <3>1. keyToInode' \in [Torrents -> 0..Len(given')]
      BY <2>0, <2>1 DEF InodeTypes
    <3>2. inodeToKey' \in [Inodes -> Torrents \cup {NoTorrent}]
      BY <2>0, <2>1 DEF InodeTypes
    <3>3. purge' \in [pc : {"recv", "inode"}, inode : 0..Len(given')]
      BY <2>1 DEF InodeTypes
    <3>4. Len(given') <= MaxInodes
      BY <2>0, <2>1 DEF InodeTypes
    <3> QED BY <2>1, <3>1, <3>2, <3>3, <3>4 DEF InodeTypes
  <2>4. ASSUME NEW i \in Inodes, inodeToKey'[i] # NoTorrent
        PROVE  i <= Len(given') /\ inodeToKey'[i] = given'[i]
    <3>1. CASE i = n
      BY <3>1, <2>0, <2>1 DEF InodeTypes
    <3>2. CASE i # n
      <4>1. inodeToKey'[i] = inodeToKey[i]
        BY <3>2, <2>0 DEF InodeTypes
      <4>2. i \in 1..Len(given) /\ inodeToKey[i] = given[i]
        BY <4>1, <2>4, <2>1 DEF InodeInv, Inodes
      <4> QED BY <4>1, <4>2, <2>1
    <3> QED BY <3>1, <3>2
  <2>5. ASSUME NEW j \in Torrents, keyToInode'[j] # 0
        PROVE  keyToInode'[j] # purge'.inode /\ inodeToKey'[keyToInode'[j]] = j
    <3>1. CASE j = k
      BY <3>1, <2>0, <2>1, <2>2 DEF InodeTypes
    <3>2. CASE j # k
      <4>1. keyToInode'[j] = keyToInode[j] /\ keyToInode[j] \in Inodes /\ keyToInode[j] # n
        BY <3>2, <2>5, <2>0, <2>1 DEF InodeTypes, Inodes
      <4> QED BY <4>1, <2>5, <2>0 DEF InodeTypes, InodeInv, MapsAgree
    <3> QED BY <3>1, <3>2
  <2>6. ASSUME NEW i \in Inodes, inodeToKey'[i] # NoTorrent, keyToInode'[inodeToKey'[i]] # i
        PROVE  purge'.inode = i
    <3>1. i # n
      BY <2>6, <2>0, <2>1 DEF InodeTypes
    <3>2. inodeToKey'[i] = inodeToKey[i] /\ inodeToKey[i] \in Torrents
      BY <3>1, <2>6, <2>0 DEF InodeTypes
    <3>3. keyToInode[inodeToKey[i]] # i
      BY <3>2, <3>1, <2>6, <2>0, <1>2 DEF InodeTypes, Inodes
    <3> QED BY <3>2, <3>3, <2>6 DEF MapsAgree
  <2> QED BY <2>3, <2>4, <2>5, <2>6 DEF InodeInv, MapsAgree
<1> QED BY <1>1, <1>2

(* The first half of a purge takes the inode in hand before it forgets it. *)
LEMMA CleanupKeyKeeps ==
  ASSUME QueueTypes, InodeTypes, InodeInv, MapsAgree, CleanupKey
  PROVE  InodeTypes' /\ InodeInv' /\ MapsAgree'
<1> USE InodeConstants
<1> DEFINE k == Head(removed)
<1>0. /\ k \in Torrents /\ purge.pc = "recv" /\ purge.inode = 0
      /\ keyToInode' = [keyToInode EXCEPT ![k] = 0]
      /\ purge' = IF keyToInode[k] = 0 THEN purge
                  ELSE [pc |-> "inode", inode |-> keyToInode[k]]
      /\ inodeToKey' = inodeToKey /\ given' = given /\ reading' = reading
  BY DEF CleanupKey, QueueTypes, InodeTypes
<1> HIDE DEF k
<1>1. purge'.inode = keyToInode[k] /\ purge' \in [pc : {"recv", "inode"}, inode : 0..Len(given)]
      /\ (purge'.pc = "recv" <=> purge'.inode = 0)
  BY <1>0 DEF InodeTypes
<1>2. InodeTypes'
  BY <1>0, <1>1 DEF InodeTypes
<1>3. ASSUME NEW j \in Torrents, keyToInode'[j] # 0
      PROVE  keyToInode'[j] # purge'.inode /\ inodeToKey'[keyToInode'[j]] = j
  <2>1. j # k /\ keyToInode'[j] = keyToInode[j] /\ keyToInode[j] # 0
    BY <1>3, <1>0 DEF InodeTypes
  <2>2. inodeToKey[keyToInode[j]] = j
    BY <2>1 DEF MapsAgree
  <2>3. keyToInode[j] # keyToInode[k]
    BY <2>1, <2>2, <1>0 DEF MapsAgree
  <2> QED BY <2>1, <2>2, <2>3, <1>0, <1>1
<1>4. ASSUME NEW i \in Inodes, inodeToKey'[i] # NoTorrent, keyToInode'[inodeToKey'[i]] # i
      PROVE  purge'.inode = i
  <2>1. inodeToKey[i] \in Torrents /\ inodeToKey[i] # NoTorrent
    BY <1>4, <1>0 DEF InodeTypes
  <2>2. keyToInode[inodeToKey[i]] = i
    BY <2>1, <1>0 DEF MapsAgree, Inodes
  <2>3. inodeToKey[i] = k
    BY <2>1, <2>2, <1>4, <1>0 DEF InodeTypes
  <2> QED BY <2>2, <2>3, <1>1
<1>5. \A i \in Inodes : inodeToKey'[i] # NoTorrent => i <= Len(given') /\ inodeToKey'[i] = given'[i]
  BY <1>0 DEF InodeInv
<1> QED BY <1>2, <1>3, <1>4, <1>5 DEF InodeInv, MapsAgree

(* The second half removes the inode in hand, which no key has.            *)
LEMMA CleanupInodeKeeps ==
  ASSUME InodeTypes, InodeInv, MapsAgree, CleanupInode
  PROVE  InodeTypes' /\ InodeInv' /\ MapsAgree'
<1> USE InodeConstants
<1> DEFINE n == purge.inode
<1>0. /\ n \in Inodes /\ n # 0
      /\ inodeToKey' = [inodeToKey EXCEPT ![n] = NoTorrent]
      /\ purge' = [pc |-> "recv", inode |-> 0]
      /\ keyToInode' = keyToInode /\ given' = given /\ reading' = reading
  BY DEF CleanupInode, InodeTypes, Inodes
<1>1. InodeTypes'
  BY <1>0 DEF InodeTypes
<1>2. ASSUME NEW j \in Torrents, keyToInode'[j] # 0
      PROVE  keyToInode'[j] # purge'.inode /\ inodeToKey'[keyToInode'[j]] = j
  <2>1. keyToInode[j] \in Inodes /\ keyToInode[j] # n /\ inodeToKey[keyToInode[j]] = j
    BY <1>2, <1>0 DEF InodeTypes, InodeInv, MapsAgree, Inodes
  <2> QED BY <2>1, <1>0, <1>2 DEF InodeTypes
<1>3. ASSUME NEW i \in Inodes, inodeToKey'[i] # NoTorrent
      PROVE  /\ i <= Len(given') /\ inodeToKey'[i] = given'[i]
             /\ keyToInode'[inodeToKey'[i]] = i
  <2>1. i # n /\ inodeToKey'[i] = inodeToKey[i]
    BY <1>3, <1>0 DEF InodeTypes
  <2>2. i <= Len(given) /\ inodeToKey[i] = given[i]
    BY <2>1, <1>3 DEF InodeInv
  <2>3. keyToInode[inodeToKey[i]] = i
    BY <2>1, <1>3 DEF MapsAgree
  <2> QED BY <2>1, <2>2, <2>3, <1>0
<1> QED BY <1>1, <1>2, <1>3 DEF InodeInv, MapsAgree

LEMMA DirSame ==
  ASSUME InodeTypes, InodeInv, MapsAgree, mapVars' = mapVars,
         reading' \in Torrents \cup {NoTorrent}
  PROVE  InodeTypes' /\ InodeInv' /\ MapsAgree'
BY DEF InodeTypes, InodeInv, MapsAgree, mapVars

(* Every step of the library does one of five things to the maps.          *)
LEMMA MapStep ==
  ASSUME InodeTypes, LibraryNext
  PROVE  \/ /\ mapVars' = mapVars
            /\ reading' \in Torrents \cup {NoTorrent}
         \/ /\ purge' = purge
            /\ reading' \in Torrents \cup {NoTorrent}
            /\ \E k \in Torrents : GetOrAssign(k)
         \/ CleanupKey
         \/ CleanupInode
<1>0. reading \in Torrents \cup {NoTorrent}
  BY DEF InodeTypes
<1>1. CASE RefreshStep \/ StoreFails \/ HookStep \/ BatchStep \/ RdStep \/ ProcessStep
  <2>1. mapVars' = mapVars /\ reading' = reading
    BY <1>1 DEF RefreshStep, StoreFails, HookStep, BatchStep, RdStep, ProcessStep, RefreshRound,
       RefreshNotify, RefreshTrigger, RefreshAdd, RefreshChange, RefreshRemove, HookSkips,
       HookCommand, RdAddsOrDrops, RdTouches, RdReselects, inodeVars, entryVars, mapVars
  <2> QED BY <2>1, <1>0
<1>2. CASE CleanerStep
  BY <1>2, <1>0 DEF CleanerStep, CleanupLagged, mapVars
<1>3. CASE MountStep
  <2>0. CASE FileStep
    BY <2>0, <1>0 DEF FileStep, OpenDir, ListFiles, mapVars, entryVars
  <2>1. CASE ListingExpires
    BY <2>1, <1>0 DEF ListingExpires, mapVars
  <2>2. CASE ReaddirAssign
    BY <2>2, <1>0 DEF ReaddirAssign
  <2>3. ASSUME NEW k \in Torrents, Lookup(k) \/ Readdirplus(k)
        PROVE  \/ mapVars' = mapVars /\ reading' = reading
               \/ GetOrAssign(k) /\ purge' = purge /\ reading' = reading
    BY <2>3 DEF Lookup, Readdirplus, mapVars
  <2>4. ASSUME NEW k \in Torrents, Readdir(k)
        PROVE  mapVars' = mapVars /\ reading' = k
    BY <2>4 DEF Readdir, mapVars
  <2> QED BY <1>3, <1>0, <2>0, <2>1, <2>2, <2>3, <2>4 DEF MountStep, DirectoryStep
<1> QED BY <1>1, <1>2, <1>3 DEF LibraryNext

LEMMA DirStep ==
  ASSUME QueueTypes, DirInv, [LibraryNext]_libraryVars
  PROVE  DirInv'
<1>0. InodeTypes /\ InodeInv /\ MapsAgree
  BY DEF DirInv
<1>1. CASE UNCHANGED libraryVars
  BY <1>0, <1>1, DirSame DEF DirInv, libraryVars, inodeVars, entryVars, mapVars, InodeTypes
<1>2. CASE LibraryNext
  BY <1>0, <1>2, MapStep, DirSame, AssignKeeps, CleanupKeyKeeps, CleanupInodeKeeps DEF DirInv
<1> QED BY <1>1, <1>2

(* Inodes are only ever added to those handed out.                         *)
LEMMA GivenGrows ==
  ASSUME InodeTypes, LibraryNext
  PROVE  /\ Len(given) \in Nat /\ Len(given') \in Nat /\ Len(given) <= Len(given')
         /\ \A i \in 1..Len(given) : given'[i] = given[i]
<1>0. given \in Seq(Torrents)
  BY DEF InodeTypes
<1>1. given' = given \/ \E k \in Torrents : given' = Append(given, k)
  BY MapStep DEF mapVars, GetOrAssign, CleanupKey, CleanupInode
<1> QED BY <1>0, <1>1

(* The selections and the numbers of files change in three ways.           *)
LEMMA FileMoves ==
  ASSUME FileTypes, LibraryNext
  PROVE  \/ fileVars' = fileVars
         \/ given' = given /\ \E i \in Inodes : OpenDir(i)
         \/ given' = given /\ ListFiles
         \/ given' = given /\ \E k \in Torrents, new \in Selections : Reload(k, new)
<1>1. ASSUME NEW k \in Torrents, RefreshAdd(k)
      PROVE  given' = given /\ \E new \in Selections : Reload(k, new)
  <2>1. LoadedFiles(k) \subseteq Selections
    BY DEF LoadedFiles, FileTypes
  <2> QED BY <1>1, <2>1 DEF RefreshAdd, entryVars
<1>2. ASSUME NEW k \in Torrents, RdReselects(k)
      PROVE  given' = given /\ \E new \in Selections : Reload(k, new)
  BY <1>2 DEF RdReselects, entryVars
<1>3. ASSUME NEW k \in Torrents, \/ RefreshChange(k) \/ RefreshRemove(k)
                                 \/ RdAddsOrDrops(k) \/ RdTouches(k)
      PROVE  fileVars' = fileVars
  BY <1>3 DEF RefreshChange, RefreshRemove, RdAddsOrDrops, RdTouches, inodeVars
<1>4. CASE RefreshRound \/ RefreshNotify \/ RefreshTrigger \/ StoreFails
  BY <1>4 DEF RefreshRound, RefreshNotify, RefreshTrigger, StoreFails, inodeVars
<1>5. CASE HookStep \/ BatchStep \/ ProcessStep
  BY <1>5 DEF HookStep, BatchStep, ProcessStep, HookSkips, HookCommand, inodeVars
<1>6. CASE CleanerStep
  BY <1>6 DEF CleanerStep, CleanupLagged, CleanupKey, CleanupInode
<1>7. CASE MountStep
  <2>1. CASE DirectoryStep
    BY <2>1 DEF DirectoryStep, ListingExpires, ReaddirAssign, Lookup, Readdirplus, Readdir
  <2>2. CASE FileStep
    BY <2>2 DEF FileStep, OpenDir, ListFiles, entryVars
  <2> QED BY <1>7, <2>1, <2>2 DEF MountStep
<1> QED BY <1>1, <1>2, <1>3, <1>4, <1>5, <1>6, <1>7 DEF LibraryNext, RefreshStep, RdStep

LEMMA FilesStep ==
  ASSUME RoundInv, InodeTypes, InodeInv, FileTypes, FilesKept, [LibraryNext]_libraryVars
  PROVE  FileTypes' /\ FilesKept'
<1> USE InodeConstants
<1>1. CASE UNCHANGED libraryVars
  BY <1>1 DEF libraryVars, inodeVars, entryVars, fileVars, FileTypes, FilesKept
<1>2. CASE LibraryNext
  <2>0. /\ Len(given) \in Nat /\ Len(given') \in Nat /\ Len(given) <= Len(given')
        /\ \A i \in 1..Len(given) : given'[i] = given[i]
    BY <1>2, GivenGrows
  <2>1. CASE fileVars' = fileVars
    <3>1. selection' = selection /\ filesGiven' = filesGiven /\ dirRead' = dirRead
      BY <2>1 DEF fileVars
    <3>2. FileTypes'
      BY <2>0, <3>1 DEF FileTypes
    <3>3. ASSUME NEW i \in Inodes, filesGiven'[i] # << >>
          PROVE  i <= Len(given') /\ filesGiven'[i] = selection'[given'[i]]
      <4>1. i \in 1..Len(given) /\ filesGiven[i] = selection[given[i]]
        BY <3>1, <3>3, <2>0 DEF FilesKept, Inodes
      <4> QED BY <4>1, <3>1, <2>0
    <3> QED BY <3>2, <3>3 DEF FilesKept
  <2>2. ASSUME NEW i \in Inodes, OpenDir(i), given' = given
        PROVE  FileTypes' /\ FilesKept'
    <3>1. /\ selection' = selection /\ filesGiven' = filesGiven
          /\ dirRead' = [inode |-> i, key |-> inodeToKey[i]] /\ inodeToKey[i] # NoTorrent
      BY <2>2 DEF OpenDir, Resolve
    <3>2. i \in 1..Len(given) /\ inodeToKey[i] = given[i]
      BY <3>1, <2>0 DEF InodeInv, Inodes
    <3>3. dirRead'.inode = i /\ dirRead'.key = given[i]
      BY <3>1, <3>2
    <3> QED BY <3>1, <3>2, <3>3, <2>2 DEF FileTypes, FilesKept
  <2>3. ASSUME ListFiles, given' = given
        PROVE  FileTypes' /\ FilesKept'
    <3> DEFINE i == dirRead.inode
               k == dirRead.key
    <3>1. /\ selection' = selection /\ dirRead' = NoDirRead
          /\ i \in 1..Len(given) /\ k = given[i] /\ k \in Torrents /\ i \in Inodes
      BY <2>3, <2>0 DEF ListFiles, FileTypes, InodeTypes, Inodes
    <3>2. \/ filesGiven' = filesGiven
          \/ filesGiven' = [filesGiven EXCEPT ![i] = selection[k]]
      BY <2>3 DEF ListFiles
    <3> HIDE DEF i, k
    <3>3. FileTypes'
      BY <3>1, <3>2 DEF FileTypes
    <3>4. ASSUME NEW j \in Inodes, filesGiven'[j] # << >>
          PROVE  j <= Len(given') /\ filesGiven'[j] = selection'[given'[j]]
      <4>1. CASE filesGiven'[j] = filesGiven[j]
        BY <4>1, <3>1, <3>4, <2>3 DEF FilesKept
      <4>2. CASE filesGiven'[j] # filesGiven[j]
        <5>1. j = i /\ filesGiven'[j] = selection[k]
          BY <4>2, <3>1, <3>2 DEF FileTypes
        <5> QED BY <5>1, <3>1, <2>3, <2>0
      <4> QED BY <4>1, <4>2
    <3> QED BY <3>3, <3>4 DEF FilesKept
  <2>4. ASSUME NEW k \in Torrents, NEW new \in Selections, Reload(k, new), given' = given
        PROVE  FileTypes' /\ FilesKept'
    <3>1. /\ selection' = [selection EXCEPT ![k] = new] /\ dirRead' = dirRead
          /\ filesGiven' = [i \in Inodes |-> IF i \in DOMAIN given /\ given[i] = k /\ new # selection[k]
                                             THEN << >> ELSE filesGiven[i]]
      BY <2>4 DEF Reload
    <3>2. FileTypes'
      BY <3>1, <2>4 DEF FileTypes
    <3>3. ASSUME NEW j \in Inodes, filesGiven'[j] # << >>
          PROVE  j <= Len(given') /\ filesGiven'[j] = selection'[given'[j]]
      <4>1. filesGiven'[j] = filesGiven[j]
        BY <3>1, <3>3
      <4>2. j \in 1..Len(given) /\ filesGiven[j] = selection[given[j]] /\ given[j] \in Torrents
        BY <4>1, <3>3, <2>0 DEF FilesKept, Inodes, InodeTypes
      <4>3. given[j] = k => new = selection[k]
        BY <4>2, <3>1, <3>3 DEF InodeTypes
      <4>4. selection'[given[j]] = selection[given[j]]
        BY <4>2, <4>3, <3>1 DEF FileTypes
      <4> QED BY <4>1, <4>2, <4>4, <2>4
    <3> QED BY <3>2, <3>3 DEF FilesKept
  <2> QED BY <1>2, <2>1, <2>2, <2>3, <2>4, FileMoves
<1> QED BY <1>1, <1>2

----------------------------------------------------------------------------
(* The queue of removals and the round that fills it.                      *)
LEMMA RoundIdle == NoRound \in Rounds /\ NoRound.pc = "idle" /\ NoRound.key = NoTorrent
BY DEF Rounds, NoRound

(* A key that is added or changed leaves the place of the round as it is.  *)
LEMMA RoundGoesOn ==
  ASSUME round \in Rounds, NEW k \in Torrents, RefreshAdd(k) \/ RefreshChange(k)
  PROVE  round' \in Rounds /\ round'.pc = round.pc /\ round'.key = round.key
<1> DEFINE A == round.add \ {k}
           G == round.chg \ {k}
           S == round.paths \cup {k}
<1>0. A \in SUBSET Torrents /\ G \in SUBSET Torrents /\ S \in SUBSET Torrents
  BY DEF Rounds
<1>1. \/ round' = [round EXCEPT !.add = A, !.paths = S]
      \/ round' = [round EXCEPT !.chg = G, !.paths = S]
  BY DEF RefreshAdd, RefreshChange
<1> HIDE DEF A, G, S
<1>2. CASE round' = [round EXCEPT !.add = A, !.paths = S]
  BY <1>0, <1>2 DEF Rounds
<1>3. CASE round' = [round EXCEPT !.chg = G, !.paths = S]
  BY <1>0, <1>3 DEF Rounds
<1> QED BY <1>1, <1>2, <1>3

LEMMA QueueStep ==
  ASSUME QueueTypes, RoundInv, [LibraryNext]_libraryVars
  PROVE  QueueTypes' /\ RoundInv'
<1> USE InodeConstants
<1>1. CASE UNCHANGED libraryVars
  BY <1>1 DEF libraryVars, inodeVars, entryVars, refreshVars, QueueTypes, RoundInv
<1>2. ASSUME NEW k \in Torrents, RefreshAdd(k) \/ RefreshChange(k)
      PROVE  QueueTypes' /\ RoundInv'
  <2>0. round \in Rounds
    BY DEF RoundInv
  <2>1. round' \in Rounds /\ round'.pc = round.pc /\ round'.key = round.key
    BY <1>2, <2>0, RoundGoesOn
  <2>3. /\ removed' = removed /\ onRd' = onRd
        /\ torrents' \subseteq torrents \cup {k} /\ touched' \subseteq touched
    BY <1>2 DEF RefreshAdd, RefreshChange, inodeVars, entryVars
  <2> QED BY <2>1, <2>3 DEF QueueTypes, RoundInv
<1>3. ASSUME NEW k \in Torrents, RefreshRemove(k)
      PROVE  QueueTypes' /\ RoundInv'
  BY <1>3 DEF RefreshRemove, inodeVars, entryVars, QueueTypes, RoundInv, Rounds
<1>4. CASE RefreshRound
  <2> DEFINE A == onRd \ torrents
             D == torrents \ onRd
             G == touched \cap torrents \cap onRd
             s == onRd \ torrents # {} \/ touched \cap torrents \cap onRd # {}
  <2>1. round' = [NoRound EXCEPT !.pc = "apply", !.add = A, !.del = D, !.chg = G, !.store = s]
    BY <1>4 DEF RefreshRound, Diff
  <2>2. A \in SUBSET Torrents /\ D \in SUBSET Torrents /\ G \in SUBSET Torrents /\ s \in BOOLEAN
    BY DEF RoundInv
  <2> HIDE DEF A, D, G, s
  <2>3. round' \in Rounds /\ round'.pc = "apply" /\ round'.key = NoTorrent
    BY <2>1, <2>2 DEF NoRound, Rounds
  <2> QED BY <2>3, <1>4 DEF RefreshRound, inodeVars, entryVars, QueueTypes, RoundInv
<1>5. CASE RefreshNotify
  <2>1. round.key \in Torrents /\ removed \in Seq(Torrents) /\ Capacity \in Nat \ {0}
    BY <1>5 DEF RefreshNotify, QueueTypes, RoundInv, Rounds
  <2>2. removed' \in Seq(Torrents)
    BY <2>1, <1>5 DEF RefreshNotify, NotifyTorrentRemoved
  <2> QED BY <2>2, <1>5 DEF RefreshNotify, QueueTypes, RoundInv, Rounds
<1>6. CASE RefreshTrigger
  BY <1>6, RoundIdle DEF RefreshTrigger, inodeVars, entryVars, QueueTypes, RoundInv
<1>7. CASE StoreFails
  BY <1>7, RoundIdle DEF StoreFails, inodeVars, entryVars, QueueTypes, RoundInv
<1>8. CASE HookStep \/ BatchStep \/ ProcessStep
  BY <1>8 DEF HookStep, BatchStep, ProcessStep, HookSkips, HookCommand,
     inodeVars, entryVars, refreshVars, QueueTypes, RoundInv
<1>9. CASE RdStep
  BY <1>9 DEF RdStep, RdAddsOrDrops, RdTouches, RdReselects, inodeVars, entryVars, QueueTypes, RoundInv
<1>10. CASE CleanerStep
  <2>1. torrents' = torrents /\ onRd' = onRd /\ touched' = touched /\ round' = round
    BY <1>10 DEF CleanerStep, refreshVars
  <2>2. removed' = removed \/ (removed # << >> /\ removed' = Tail(removed))
    BY <1>10 DEF CleanerStep, CleanupLagged, CleanupKey, CleanupInode
  <2> QED BY <2>1, <2>2 DEF QueueTypes, RoundInv
<1>11. CASE MountStep
  BY <1>11 DEF MountStep, DirectoryStep, ListingExpires, ReaddirAssign, Lookup, Readdirplus, Readdir,
     FileStep, OpenDir, ListFiles, entryVars, refreshVars, QueueTypes, RoundInv
<1> QED BY <1>1, <1>2, <1>3, <1>4, <1>5, <1>6, <1>7, <1>8, <1>9, <1>10, <1>11
        DEF LibraryNext, RefreshStep

(* Every removal that is not handled yet stays in the queue, or is leaked. *)
Waits(k) == Queued(k) \/ round.key = k \/ k \in leaked \/ down

LEMMA NotifyKeeps ==
  ASSUME QueueTypes, RoundInv, RefreshNotify, NEW k \in Torrents, Waits(k)
  PROVE  Waits(k)'
<1> USE InodeConstants
<1> DEFINE j == round.key
           full == Len(removed) = Capacity
           rest == IF full THEN Tail(removed) ELSE removed
<1>0. /\ j \in Torrents /\ removed \in Seq(Torrents) /\ Capacity \in Nat \ {0}
      /\ removed' = Append(rest, j)
      /\ leaked' = IF full THEN leaked \cup {Head(removed)} ELSE leaked
      /\ down' = down
  BY DEF RefreshNotify, NotifyTorrentRemoved, QueueTypes, RoundInv, Rounds, hookVars
<1>1. rest \in Seq(Torrents)
  BY <1>0
<1>2. CASE k = j
  <2>1. Len(rest) + 1 \in DOMAIN removed' /\ removed'[Len(rest) + 1] = k
    <3> HIDE DEF rest, j
    <3> QED BY <1>0, <1>1, <1>2
  <2> QED BY <2>1 DEF Waits, Queued
<1>3. CASE Queued(k)
  <2>1. PICK i \in DOMAIN removed : removed[i] = k
    BY <1>3 DEF Queued
  <2>2. CASE full /\ i = 1
    BY <2>1, <2>2, <1>0 DEF Waits
  <2>3. CASE full /\ i # 1
    <3>1. i - 1 \in 1..Len(rest) /\ rest[i - 1] = k
      BY <2>1, <2>3, <1>0
    <3>2. i - 1 \in DOMAIN removed' /\ removed'[i - 1] = k
      <4> HIDE DEF rest, j
      <4> QED BY <3>1, <1>0, <1>1
    <3> QED BY <3>2 DEF Waits, Queued
  <2>4. CASE ~full
    <3>1. i \in DOMAIN removed' /\ removed'[i] = k
      BY <2>1, <2>4, <1>0
    <3> QED BY <3>1 DEF Waits, Queued
  <2> QED BY <2>2, <2>3, <2>4
<1>4. CASE k \in leaked \/ down
  BY <1>4, <1>0 DEF Waits
<1> QED BY <1>2, <1>3, <1>4 DEF Waits

LEMMA TailKeeps ==
  ASSUME QueueTypes, removed # << >>, removed' = Tail(removed), NEW k, k # Head(removed), Queued(k)
  PROVE  Queued(k)'
<1>1. PICK i \in DOMAIN removed : removed[i] = k
  BY DEF Queued
<1>2. i - 1 \in DOMAIN removed' /\ removed'[i - 1] = k
  BY <1>1 DEF QueueTypes
<1> QED BY <1>2 DEF Queued

(* An entry of a key outside the library stays about to be purged: a step  *)
(* that makes the entry has the key in the library or records a leak, and  *)
(* one that takes the key out has the round in hand to notify.             *)
LEMMA PurgeStep ==
  ASSUME QueueTypes, RoundInv, InodeTypes, DeadInodesPurged, [LibraryNext]_libraryVars
  PROVE  DeadInodesPurged'
<1> SUFFICES ASSUME NEW k \in Torrents, k \notin torrents', keyToInode'[k] # 0
             PROVE  Waits(k)'
  BY DEF DeadInodesPurged, Waits
<1>0. k \notin torrents /\ keyToInode[k] # 0 => Waits(k)
  BY DEF DeadInodesPurged, Waits
<1> USE DEF Waits
<1>1. CASE UNCHANGED libraryVars
  BY <1>0, <1>1 DEF libraryVars, inodeVars, entryVars, refreshVars, hookVars, Queued
<1>2. ASSUME NEW j \in Torrents, RefreshAdd(j) \/ RefreshChange(j)
      PROVE  Waits(k)'
  <2>0. round \in Rounds
    BY DEF RoundInv
  <2>1. round'.key = round.key
    BY <1>2, <2>0, RoundGoesOn
  <2>2. /\ keyToInode' = keyToInode /\ removed' = removed /\ leaked' = leaked /\ down' = down
        /\ torrents \subseteq torrents'
    BY <1>2 DEF RefreshAdd, RefreshChange, inodeVars, entryVars, hookVars
  <2> QED BY <1>0, <2>1, <2>2 DEF Queued
<1>3. ASSUME NEW j \in Torrents, RefreshRemove(j)
      PROVE  Waits(k)'
  <2>1. round'.key = j /\ round.key = NoTorrent /\ torrents' = torrents \ {j}
    BY <1>3 DEF RefreshRemove, RoundInv, Rounds
  <2>2. /\ keyToInode' = keyToInode /\ removed' = removed /\ leaked' = leaked /\ down' = down
    BY <1>3 DEF RefreshRemove, inodeVars, entryVars, hookVars
  <2> QED BY <1>0, <2>1, <2>2, InodeConstants DEF Queued
<1>4. CASE RefreshRound \/ RefreshTrigger \/ StoreFails
  <2>1. round.key = NoTorrent
    BY <1>4 DEF RefreshRound, RefreshTrigger, StoreFails, Applied, RoundInv
  <2>2. /\ keyToInode' = keyToInode /\ removed' = removed /\ leaked' = leaked /\ down' = down
        /\ torrents' = torrents
    BY <1>4 DEF RefreshRound, RefreshTrigger, StoreFails, inodeVars, entryVars, hookVars
  <2> QED BY <1>0, <2>1, <2>2, InodeConstants DEF Queued
<1>5. CASE RefreshNotify
  <2>1. keyToInode' = keyToInode /\ torrents' = torrents
    BY <1>5 DEF RefreshNotify
  <2> QED BY <1>0, <1>5, <2>1, NotifyKeeps
<1>6. CASE HookStep \/ BatchStep \/ RdStep
  <2>1. /\ keyToInode' = keyToInode /\ removed' = removed /\ leaked' = leaked
        /\ torrents' = torrents /\ round' = round
    BY <1>6 DEF HookStep, BatchStep, RdStep, HookSkips, HookCommand, RdAddsOrDrops, RdTouches, RdReselects,
       inodeVars, entryVars, refreshVars
  <2>2. down' = down
    BY <1>6 DEF HookStep, BatchStep, RdStep, HookSkips, HookEmpty, HookCommand, HookRuns, RdAddsOrDrops,
       RdTouches, RdReselects, WorkerStep, HookRecv, HookFlush, HookStop, HookAcquire, hookVars
  <2> QED BY <1>0, <2>1, <2>2 DEF Queued
<1>7. CASE ProcessStep
  <2>1. /\ keyToInode' = keyToInode /\ removed' = removed /\ leaked' = leaked
        /\ torrents' = torrents /\ round' = round
    BY <1>7 DEF ProcessStep, inodeVars, entryVars
  <2>2. down => down'
    BY <1>7 DEF ProcessStep, Shutdown, HookReload
  <2> QED BY <1>0, <2>1, <2>2 DEF Queued
<1>8. CASE CleanerStep
  <2>0. torrents' = torrents /\ round' = round /\ down' = down
    BY <1>8 DEF CleanerStep, refreshVars, hookVars
  <2>1. CASE CleanupLagged \/ CleanupInode
    BY <1>0, <2>0, <2>1 DEF CleanupLagged, CleanupInode, Queued
  <2>2. CASE CleanupKey
    <3>1. /\ removed # << >> /\ removed' = Tail(removed) /\ leaked' = leaked \ {Head(removed)}
          /\ keyToInode' = [keyToInode EXCEPT ![Head(removed)] = 0]
      BY <2>2 DEF CleanupKey
    <3>2. k # Head(removed) /\ keyToInode'[k] = keyToInode[k]
      BY <3>1 DEF InodeTypes
    <3>3. Queued(k) => Queued(k)'
      BY <3>1, <3>2, TailKeeps
    <3> QED BY <1>0, <2>0, <3>1, <3>2, <3>3
  <2> QED BY <1>8, <2>1, <2>2 DEF CleanerStep
<1>9. CASE MountStep
  <2>0. torrents' = torrents /\ round' = round /\ down' = down
    BY <1>9 DEF MountStep, refreshVars, hookVars
  <2>1. CASE ReaddirAssign
    <3>1. /\ reading # NoTorrent /\ GetOrAssign(reading) /\ removed' = removed
          /\ leaked' = IF reading \notin torrents THEN leaked \cup {reading} ELSE leaked
      BY <2>1 DEF ReaddirAssign
    <3>2. k # reading => keyToInode'[k] = keyToInode[k]
      BY <3>1 DEF GetOrAssign, InodeTypes
    <3> QED BY <1>0, <2>0, <3>1, <3>2 DEF Queued
  <2>2. ASSUME NEW j \in Torrents, Lookup(j) \/ Readdirplus(j)
        PROVE  Waits(k)'
    <3>1. /\ removed' = removed /\ leaked' = leaked
          /\ keyToInode' = keyToInode \/ (j \in torrents /\ GetOrAssign(j))
      BY <2>2 DEF Lookup, Readdirplus
    <3>2. keyToInode'[k] = keyToInode[k]
      BY <2>0, <3>1 DEF GetOrAssign, InodeTypes
    <3> QED BY <1>0, <2>0, <3>1, <3>2 DEF Queued
  <2>3. ASSUME NEW j \in Torrents, ListingExpires \/ Readdir(j)
        PROVE  Waits(k)'
    BY <1>0, <2>0, <2>3 DEF ListingExpires, Readdir, Queued
  <2>4. CASE FileStep
    BY <1>0, <2>0, <2>4 DEF FileStep, OpenDir, ListFiles, entryVars, Queued
  <2> QED BY <1>9, <2>1, <2>2, <2>3, <2>4 DEF MountStep, DirectoryStep
<1> QED BY <1>1, <1>2, <1>3, <1>4, <1>5, <1>6, <1>7, <1>8, <1>9 DEF LibraryNext, RefreshStep

LEMMA LibraryStarts == LibraryInit => LibraryInv
<1> SUFFICES ASSUME LibraryInit PROVE LibraryInv
  OBVIOUS
<1> USE InodeConstants
<1>1. QueueTypes
  BY DEF LibraryInit, InodesInit, QueueTypes
<1>4. RoundInv
  <2>1. round = NoRound /\ torrents \subseteq Torrents /\ onRd \subseteq Torrents /\ touched = {}
    BY LibraryConstants DEF LibraryInit
  <2> QED BY <2>1, RoundIdle DEF RoundInv
<1>2. InodeTypes
  BY DEF LibraryInit, InodesInit, InodeTypes
<1>3. InodeInv /\ MapsAgree /\ DeadInodesPurged
  BY DEF LibraryInit, InodesInit, InodeInv, MapsAgree, DeadInodesPurged
<1>5. FileTypes /\ FilesKept
  BY DEF LibraryInit, InodesInit, FileTypes, FilesKept
<1> QED BY <1>1, <1>2, <1>3, <1>4, <1>5 DEF LibraryInv, DirInv

LEMMA LibraryStep == LibraryInv /\ [LibraryNext]_libraryVars => LibraryInv'
BY QueueStep, DirStep, FilesStep, PurgeStep DEF LibraryInv, DirInv

LEMMA LibraryInvariant == LibrarySpec => []LibraryInv
BY LibraryStarts, LibraryStep, PTL DEF LibrarySpec

LEMMA Remainder ==
  ASSUME NEW s \in Nat, NEW a \in Nat, NEW b \in Nat, b < s
  PROVE  (a * s + b) % s = b /\ (a * s + b) \div s = a
OBVIOUS

(* The parts of a number i * Stride + pos can be told again while pos is   *)
(* below Stride.                                                           *)
LEMMA FileNumbers ==
  ASSUME NEW i \in Nat, NEW pos \in 0..(Stride - 1)
  PROVE  TorrentOf(FileInode(i, pos)) = i /\ PosOf(FileInode(i, pos)) = pos
<1>1. pos \in Nat /\ Stride \in Nat /\ pos < Stride
  BY InodeConstants
<1> QED BY <1>1, Remainder DEF TorrentOf, PosOf, FileInode

LEMMA InodesResolve == LibraryInv => InodeNeverMoves
<1> SUFFICES ASSUME LibraryInv, NEW i \in DOMAIN given
             PROVE  /\ Resolve(i) \in {given[i], NoTorrent}
                    /\ \A pos \in 0..(Stride - 1) : pos < Len(filesGiven[i]) =>
                         ResolveFile(FileInode(i, pos)) \in {filesGiven[i][pos + 1], NoFile}
  BY DEF InodeNeverMoves
<1>1. i \in Nat /\ i \in Inodes
  BY InodeConstants DEF LibraryInv, DirInv, InodeTypes, Inodes
<1>2. Resolve(i) \in {given[i], NoTorrent}
  BY DEF LibraryInv, DirInv, InodeInv, Resolve
<1>3. ASSUME NEW pos \in 0..(Stride - 1), pos < Len(filesGiven[i])
      PROVE  ResolveFile(FileInode(i, pos)) \in {filesGiven[i][pos + 1], NoFile}
  <2>1. TorrentOf(FileInode(i, pos)) = i /\ PosOf(FileInode(i, pos)) = pos
    BY <1>1, FileNumbers
  <2>2. filesGiven[i] # << >>
    BY <1>3, InodeConstants
  <2>3. filesGiven[i] = selection[given[i]]
    BY <1>1, <2>2 DEF LibraryInv, FilesKept
  <2>4. Resolve(i) \in torrents => Resolve(i) = given[i]
    BY <1>2, InodeConstants DEF LibraryInv, RoundInv
  <2>5. CASE Resolve(i) \in torrents
    BY <2>1, <2>3, <2>4, <2>5 DEF ResolveFile
  <2>6. CASE Resolve(i) \notin torrents
    BY <2>1, <2>6 DEF ResolveFile
  <2> QED BY <2>5, <2>6
<1> QED BY <1>2, <1>3

(* fs_lookup.rs, fs_readdir.rs, read.rs: whatever rounds, lookups,         *)
(* listings, reloads and the cleanup task interleave, an inode leads to    *)
(* the torrent it was handed out for or to nothing; and a number handed    *)
(* out for a file leads to that file or to nothing, while the torrent      *)
(* keeps its selection and the position is below Stride.                   *)
THEOREM InodesNeverReused == LibrarySpec => []InodeNeverMoves
BY LibraryInvariant, InodesResolve, PTL

(* fs_helpers.rs, fs.rs: the two maps agree, except for the inode that the *)
(* cleanup task has in hand between its two removals.                      *)
THEOREM InodeMapsAgree == LibrarySpec => []MapsAgree
BY LibraryInvariant, PTL DEF LibraryInv, DirInv

(* fs.rs: the entry of a removed torrent is about to be purged, unless its *)
(* event was lost, a readdir made it too late or the process shuts down.   *)
THEOREM RemovedTorrentsPurged == LibrarySpec => []DeadInodesPurged
BY LibraryInvariant, PTL DEF LibraryInv

----------------------------------------------------------------------------
(* Reads of the mount.                                                     *)
ReadPcs == {"info", "repair", "link", "fetch"}

Requests == [pc : {"idle", "sent", "drop", "reply"} \cup ReadPcs, unique : Uniques \cup {0},
             fh : Handles \cup {0}, offset : Nat, size : Nat, linked : BOOLEAN,
             cancelled : BOOLEAN, asked : BOOLEAN, early : BOOLEAN, waited : BOOLEAN, attempt : Nat,
             fill : Nat, take : Nat, res : {"none", "ok", "ENOENT", "EIO", "EINTR"},
             data : Seq(Nat)]

ReadBuffers == [start : Nat, data : Seq(Nat)]

(* The types; only an idle read has no handle and no number.               *)
FuseTypes ==
  /\ kernel \in Kernels /\ nextFh \in Nat
  /\ buffers \in [Handles -> ReadBuffers]
  /\ kernelPending \in [Uniques -> FuseReads \cup {NoFuseRead}]
  /\ interrupting \subseteq Uniques
  /\ reads \in [FuseReads -> Requests]
  /\ \A r \in InFlight : reads[r].fh \in Handles /\ reads[r].unique \in Uniques

(* The kernel does not use a number twice at a time.                       *)
OneNumberEach ==
  \A q, r \in FuseReads :
    reads[q].pc # "idle" /\ reads[r].pc # "idle" /\ reads[q].unique = reads[r].unique => q = r

(* The number of an interrupt on its way is that of the read it is for, if *)
(* any read has it.                                                        *)
InterruptsAsked ==
  \A u \in interrupting, r \in FuseReads :
    reads[r].pc # "idle" /\ reads[r].unique = u => reads[r].asked

(* A window holds the blocks from its start on.                            *)
Holds(buf) == buf.data = Blocks(buf.start, Len(buf.data))

(* What a read may fetch: all it asked for, without a buffer; else enough  *)
(* for the reply, up to the end of the file.                               *)
Fetches(p) ==
  \/ p.take = 0 /\ p.fill = p.size
  \/ /\ p.take = NeedLen(p.offset, p.size) /\ p.take > 0
     /\ p.fill = FillLen(p.offset, p.take)

Served(p) ==
  /\ p.res = "ok" => p.pc \in {"drop", "reply"}
                     /\ p.data = Blocks(p.offset, NeedLen(p.offset, p.size))
  /\ p.pc \in {"link", "fetch"} => Fetches(p)

ReplyInv ==
  /\ \A h \in Handles : Holds(buffers[h])
  /\ \A r \in FuseReads : Served(reads[r])

FuseInv == FuseTypes /\ OneNumberEach /\ InterruptsAsked /\ InterruptsHit /\ ReplyInv

----------------------------------------------------------------------------
(* Blocks, and what is cut from them.                                      *)
LEMMA BlocksType ==
  ASSUME NEW b \in Nat, NEW n \in Nat
  PROVE  Blocks(b, n) \in Seq(Nat) /\ Len(Blocks(b, n)) = n
BY DEF Blocks

LEMMA BlocksCut ==
  ASSUME NEW b \in Nat, NEW n \in Nat, NEW m \in 0..n
  PROVE  /\ SubSeq(Blocks(b, n), 1, m) = Blocks(b, m)
         /\ SubSeq(Blocks(b, n), m + 1, n) = Blocks(b + m, n - m)
BY DEF Blocks

LEMMA Lengths ==
  ASSUME NEW offset \in Nat, NEW size \in Nat
  PROVE  NeedLen(offset, size) \in Nat
BY FuseReadConstants DEF NeedLen, LeastOf, GreatestOf

(* FillLen stays within the file and is long enough for the reply.         *)
LEMMA FillLengths ==
  ASSUME NEW offset \in Nat, NEW size \in Nat, NEW need,
         need = NeedLen(offset, size), need > 0
  PROVE  /\ FillLen(offset, need) \in Nat /\ need <= FillLen(offset, need)
         /\ NeedLen(offset, FillLen(offset, need)) = FillLen(offset, need)
BY FuseReadConstants DEF NeedLen, FillLen, LeastOf, GreatestOf

(* What is left of a window holds the blocks from its new start on.        *)
LEMMA ConsumeHolds ==
  ASSUME NEW buf \in ReadBuffers, Holds(buf), NEW need \in Nat, need <= Len(buf.data)
  PROVE  /\ Consume(buf, need) \in ReadBuffers /\ Holds(Consume(buf, need))
         /\ SubSeq(buf.data, 1, need) = Blocks(buf.start, need)
<1> DEFINE n == Len(buf.data)
           b == buf.start
<1>1. n \in Nat /\ b \in Nat /\ need \in 0..n
  BY DEF ReadBuffers
<1>2. buf.data = Blocks(b, n)
  BY DEF Holds
<1> HIDE DEF n, b
<1>3. SubSeq(buf.data, need + 1, n) = Blocks(b + need, n - need)
  BY <1>1, <1>2, BlocksCut
<1>4. SubSeq(buf.data, 1, need) = Blocks(b, need)
  BY <1>1, <1>2, BlocksCut
<1>5. Consume(buf, need) = [start |-> b + need, data |-> Blocks(b + need, n - need)]
  BY <1>3 DEF Consume, n, b
<1>6. b + need \in Nat /\ n - need \in Nat
  BY <1>1
<1>7. Blocks(b + need, n - need) \in Seq(Nat) /\ Len(Blocks(b + need, n - need)) = n - need
  BY <1>6, BlocksType
<1>8. Consume(buf, need) \in ReadBuffers /\ Holds(Consume(buf, need))
  BY <1>5, <1>6, <1>7 DEF ReadBuffers, Holds
<1> QED BY <1>8, <1>4 DEF b

LEMMA EmptyHolds == NoBuffer \in ReadBuffers /\ Holds(NoBuffer)
<1>1. << >> = Blocks(0, 0)
  BY DEF Blocks
<1> QED BY <1>1 DEF NoBuffer, ReadBuffers, Holds

(* What a fetch returns: the reply, and the rest as the new window.        *)
LEMMA FetchHolds ==
  ASSUME NEW p \in Requests, Fetches(p),
         NEW filled, filled = Blocks(p.offset, NeedLen(p.offset, p.fill))
  PROVE  /\ filled \in Seq(Nat)
         /\ p.take = 0 => filled = Blocks(p.offset, NeedLen(p.offset, p.size))
         /\ p.take # 0 => /\ SubSeq(filled, 1, p.take) = Blocks(p.offset, NeedLen(p.offset, p.size))
                          /\ AfterFetch(filled, p.offset, p.take) \in ReadBuffers
                          /\ Holds(AfterFetch(filled, p.offset, p.take))
<1> DEFINE off == p.offset
           t == p.take
           n == NeedLen(p.offset, p.fill)
<1>1. off \in Nat /\ t \in Nat /\ p.fill \in Nat /\ p.size \in Nat
  BY DEF Requests
<1>2. n \in Nat /\ filled = Blocks(off, n)
  BY <1>1, Lengths
<1>3. t = 0 => filled = Blocks(off, NeedLen(off, p.size))
  BY DEF Fetches
<1>4. ASSUME t # 0
      PROVE  t = NeedLen(off, p.size) /\ t \in 0..n
  <2>1. t = NeedLen(off, p.size) /\ t > 0 /\ p.fill = FillLen(off, t)
    BY <1>4 DEF Fetches
  <2>2. NeedLen(off, FillLen(off, t)) = FillLen(off, t) /\ t <= FillLen(off, t)
    BY <2>1, <1>1, FillLengths
  <2> QED BY <1>1, <1>2, <2>1, <2>2
<1> HIDE DEF off, t, n
<1>5. filled \in Seq(Nat) /\ Len(filled) = n
  BY <1>1, <1>2, BlocksType
<1>6. ASSUME t # 0
      PROVE  /\ SubSeq(filled, 1, t) = Blocks(off, t)
             /\ AfterFetch(filled, off, t) = [start |-> off + t, data |-> Blocks(off + t, n - t)]
             /\ off + t \in Nat /\ n - t \in Nat
  <2>0. t \in 0..n
    BY <1>4, <1>6
  <2>1. /\ SubSeq(Blocks(off, n), 1, t) = Blocks(off, t)
        /\ SubSeq(Blocks(off, n), t + 1, n) = Blocks(off + t, n - t)
    BY <2>0, <1>1, <1>2, BlocksCut
  <2>2. /\ SubSeq(filled, 1, t) = Blocks(off, t)
        /\ SubSeq(filled, t + 1, n) = Blocks(off + t, n - t)
    BY <2>1, <1>2
  <2>3. off + t \in Nat /\ n - t \in Nat
    BY <2>0, <1>1, <1>2
  <2>4. AfterFetch(filled, off, t) = [start |-> off + t, data |-> Blocks(off + t, n - t)]
    BY <2>2, <1>5 DEF AfterFetch
  <2> QED BY <2>2, <2>3, <2>4
<1>7. ASSUME t # 0
      PROVE  AfterFetch(filled, off, t) \in ReadBuffers /\ Holds(AfterFetch(filled, off, t))
  <2>1. Blocks(off + t, n - t) \in Seq(Nat) /\ Len(Blocks(off + t, n - t)) = n - t
    BY <1>6, <1>7, BlocksType
  <2> QED BY <2>1, <1>6, <1>7 DEF ReadBuffers, Holds
<1> QED BY <1>3, <1>4, <1>5, <1>6, <1>7 DEF off, t

----------------------------------------------------------------------------
(* A read that goes on: it stays the same request, and what it has to      *)
(* fetch or to answer is right.                                            *)
SameRequest(p, x) ==
  /\ x.unique = p.unique /\ x.fh = p.fh /\ x.offset = p.offset /\ x.size = p.size
  /\ x.cancelled = p.cancelled /\ x.asked = p.asked /\ x.early = p.early

Advances(p, x) ==
  /\ x \in Requests /\ SameRequest(p, x) /\ Served(x)
  /\ x.pc \in ReadPcs \cup {"drop"}

LEMMA AnswerAdvances ==
  ASSUME NEW p \in Requests, NEW res \in {"ok", "ENOENT", "EIO", "EINTR"}, NEW data \in Seq(Nat),
         res = "ok" => data = Blocks(p.offset, NeedLen(p.offset, p.size))
  PROVE  Advances(p, Answer(p, res, data))
<1> DEFINE x == Answer(p, res, data)
<1>1. x \in Requests
  BY DEF Answer, Requests, ReadPcs
<1>2. SameRequest(p, x)
  BY DEF Answer, Requests, SameRequest
<1>3. x.pc = "drop" /\ x.res = res /\ x.data = data
  BY DEF Answer, Requests
<1>4. Served(x)
  BY <1>2, <1>3 DEF Served, SameRequest
<1> QED BY <1>1, <1>2, <1>3, <1>4 DEF Advances

(* The forms in which a read goes on without an answer.                    *)
LEMMA GoesOn ==
  ASSUME NEW p \in Requests, p.pc \in ReadPcs, Served(p)
  PROVE  /\ Advances(p, [p EXCEPT !.pc = "info"])
         /\ Advances(p, [p EXCEPT !.pc = "repair", !.waited = TRUE, !.attempt = 0,
                                  !.fill = 0, !.take = 0])
<1>0. p.res # "ok"
  BY DEF Served, ReadPcs
<1>1. ASSUME NEW x, x = [p EXCEPT !.pc = "info"]
      PROVE  Advances(p, x)
  <2>1. x \in Requests /\ x.pc = "info" /\ x.res = p.res
    BY <1>1 DEF Requests, ReadPcs
  <2>2. SameRequest(p, x)
    BY <1>1 DEF Requests, SameRequest
  <2> QED BY <1>0, <2>1, <2>2 DEF Advances, Served, ReadPcs
<1>2. ASSUME NEW x, x = [p EXCEPT !.pc = "repair", !.waited = TRUE, !.attempt = 0,
                                  !.fill = 0, !.take = 0]
      PROVE  Advances(p, x)
  <2>1. x \in Requests /\ x.pc = "repair" /\ x.res = p.res
    BY <1>2 DEF Requests, ReadPcs
  <2>2. SameRequest(p, x)
    BY <1>2 DEF Requests, SameRequest
  <2> QED BY <1>0, <2>1, <2>2 DEF Advances, Served, ReadPcs
<1> QED BY <1>1, <1>2

LEMMA Fetching ==
  ASSUME NEW p \in Requests, p.pc \in {"link", "fetch"}, Served(p)
  PROVE  /\ Advances(p, [p EXCEPT !.pc = "fetch"])
         /\ Advances(p, [p EXCEPT !.pc = "link", !.attempt = @ + 1])
<1>0. p.res # "ok" /\ Fetches(p)
  BY DEF Served
<1>1. ASSUME NEW x, x = [p EXCEPT !.pc = "fetch"] \/ x = [p EXCEPT !.pc = "link", !.attempt = @ + 1]
      PROVE  Advances(p, x)
  <2>1. x \in Requests /\ x.pc \in {"link", "fetch"} /\ x.res = p.res
    <3>1. CASE x = [p EXCEPT !.pc = "fetch"]
      BY <3>1 DEF Requests, ReadPcs
    <3>2. CASE x = [p EXCEPT !.pc = "link", !.attempt = @ + 1]
      <4>1. \A n \in Nat : LET y == [p EXCEPT !.pc = "link", !.attempt = n]
                           IN  y \in Requests /\ y.pc = "link" /\ y.res = p.res
        BY DEF Requests, ReadPcs
      <4>2. p.attempt + 1 \in Nat
        BY DEF Requests
      <4> QED BY <3>2, <4>1, <4>2
    <3> QED BY <1>1, <3>1, <3>2
  <2>2. SameRequest(p, x)
    BY <1>1 DEF Requests, SameRequest
  <2>3. x.fill = p.fill /\ x.take = p.take
    BY <1>1 DEF Requests
  <2>4. Fetches(x)
    BY <1>0, <2>2, <2>3 DEF Fetches, SameRequest
  <2> QED BY <1>0, <2>1, <2>2, <2>4 DEF Advances, Served, ReadPcs
<1> QED BY <1>1

LEMMA Prepared ==
  ASSUME NEW p \in Requests, p.pc = "info", Served(p), NEW f \in Nat, NEW t \in Nat,
         \/ t = 0 /\ f = p.size
         \/ t = NeedLen(p.offset, p.size) /\ t > 0 /\ f = FillLen(p.offset, t),
         NEW x, \/ x = [p EXCEPT !.pc = "link", !.attempt = 0, !.fill = f, !.take = t]
                \/ x = [p EXCEPT !.pc = "link", !.attempt = 0, !.take = t, !.fill = f]
  PROVE  Advances(p, x)
<1>0. p.res # "ok"
  BY DEF Served
<1>1. x \in Requests /\ x.pc = "link" /\ x.res = p.res
  <2>1. CASE x = [p EXCEPT !.pc = "link", !.attempt = 0, !.fill = f, !.take = t]
    BY <2>1 DEF Requests, ReadPcs
  <2>2. CASE x = [p EXCEPT !.pc = "link", !.attempt = 0, !.take = t, !.fill = f]
    BY <2>2 DEF Requests, ReadPcs
  <2> QED BY <2>1, <2>2
<1>2. SameRequest(p, x)
  BY DEF Requests, SameRequest
<1>3. x.fill = f /\ x.take = t
  BY DEF Requests
<1>4. Fetches(x)
  BY <1>2, <1>3 DEF Fetches, SameRequest
<1> QED BY <1>0, <1>1, <1>2, <1>4 DEF Advances, Served, ReadPcs

(* The steps of `read` between its start and its end.                      *)
Working(r) ==
  \/ ReadRefused(r) \/ FileBroken(r) \/ RepairEnds(r) \/ ReadPrepares(r)
  \/ Unrestricts(r) \/ FetchOk(r) \/ FetchFails(r)

BuffersHold ==
  /\ buffers \in [Handles -> ReadBuffers]
  /\ \A h \in Handles : Holds(buffers[h])

Moves(r) ==
  /\ reads[r].pc \in ReadPcs
  /\ \E x : Advances(reads[r], x) /\ reads' = [reads EXCEPT ![r] = x]

LEMMA AttemptMoves ==
  ASSUME NEW r \in FuseReads, reads[r] \in Requests, reads[r].pc \in {"link", "fetch"},
         Served(reads[r]), Attempt(r)
  PROVE  Moves(r)
<1> DEFINE p == reads[r]
<1>1. << >> \in Seq(Nat)
  OBVIOUS
<1>2. Advances(p, Answer(p, "EIO", << >>))
  BY <1>1, AnswerAdvances
<1>3. Advances(p, [p EXCEPT !.pc = "link", !.attempt = @ + 1])
  BY Fetching
<1>4. p.pc \in ReadPcs
  BY DEF ReadPcs
<1>5. CASE p.attempt < ReadRetries
  <2>1. reads' = [reads EXCEPT ![r] = [p EXCEPT !.pc = "link", !.attempt = @ + 1]]
    BY <1>5 DEF Attempt, SetRead
  <2> QED BY <1>3, <1>4, <2>1 DEF Moves
<1>6. CASE ~(p.attempt < ReadRetries)
  <2>1. reads' = [reads EXCEPT ![r] = Answer(p, "EIO", << >>)]
    BY <1>6 DEF Attempt, SetRead
  <2> QED BY <1>2, <1>4, <2>1 DEF Moves
<1> QED BY <1>5, <1>6

LEMMA FinishMoves ==
  ASSUME NEW r \in FuseReads, reads[r] \in Requests, reads[r].pc \in ReadPcs,
         NEW res \in {"ENOENT", "EIO", "EINTR"}, Finish(r, res)
  PROVE  Moves(r)
<1>1. << >> \in Seq(Nat) /\ res # "ok"
  OBVIOUS
<1>2. Advances(reads[r], Answer(reads[r], res, << >>))
  BY <1>1, AnswerAdvances
<1> QED BY <1>2 DEF Moves, Finish, SetRead

LEMMA RepairMoves ==
  ASSUME NEW r \in FuseReads, reads[r] \in Requests, reads[r].pc \in ReadPcs,
         Served(reads[r]), AwaitRepair(r)
  PROVE  Moves(r)
<1> DEFINE p == reads[r]
<1>1. CASE p.waited
  <2>1. Finish(r, "ENOENT")
    BY <1>1 DEF AwaitRepair, Finish
  <2> QED BY <2>1, FinishMoves
<1>2. CASE ~p.waited
  <2>1. reads' = [reads EXCEPT ![r] = [p EXCEPT !.pc = "repair", !.waited = TRUE, !.attempt = 0,
                                                !.fill = 0, !.take = 0]]
    BY <1>2 DEF AwaitRepair, SetRead
  <2> QED BY <2>1, GoesOn DEF Moves
<1> QED BY <1>1, <1>2

LEMMA WorkingMoves ==
  ASSUME FuseTypes, ReplyInv, NEW r \in FuseReads, Working(r)
  PROVE  Moves(r) /\ BuffersHold'
<1> DEFINE p == reads[r]
<1>0. p \in Requests /\ Served(p)
  BY DEF FuseTypes, ReplyInv
<1>b. BuffersHold
  BY DEF FuseTypes, ReplyInv, BuffersHold
<1>s. buffers' = buffers => BuffersHold'
  BY <1>b DEF BuffersHold
<1>1. CASE ReadRefused(r)
  <2>1. p.pc \in ReadPcs /\ buffers' = buffers
    BY <1>1 DEF ReadRefused, ReadUnchanged, ReadPcs
  <2>2. Finish(r, "ENOENT") \/ Finish(r, "EIO")
    BY <1>1 DEF ReadRefused
  <2> QED BY <1>0, <1>s, <2>1, <2>2, FinishMoves
<1>2. CASE FileBroken(r)
  <2>1. p.pc \in ReadPcs /\ buffers' = buffers /\ AwaitRepair(r)
    BY <1>2 DEF FileBroken, ReadUnchanged, ReadPcs
  <2> QED BY <1>0, <1>s, <2>1, RepairMoves
<1>3. CASE RepairEnds(r)
  <2>1. p.pc \in ReadPcs /\ buffers' = buffers
    BY <1>3 DEF RepairEnds, ReadUnchanged, ReadPcs
  <2>2. reads' = [reads EXCEPT ![r] = [p EXCEPT !.pc = "info"]] \/ Finish(r, "ENOENT")
    BY <1>3 DEF RepairEnds, SetRead
  <2>3. Advances(p, [p EXCEPT !.pc = "info"])
    BY <1>0, <2>1, GoesOn
  <2>4. CASE Finish(r, "ENOENT")
    BY <1>0, <1>s, <2>1, <2>4, FinishMoves
  <2>5. CASE reads' = [reads EXCEPT ![r] = [p EXCEPT !.pc = "info"]]
    BY <1>s, <2>1, <2>3, <2>5 DEF Moves
  <2> QED BY <2>2, <2>4, <2>5
<1>4. CASE ReadPrepares(r)
  <2> DEFINE need == NeedLen(p.offset, p.size)
             buf == buffers[p.fh]
  <2>0. /\ p.pc = "info" /\ p.pc \in ReadPcs /\ p.offset \in Nat /\ p.size \in Nat
        /\ need \in Nat /\ r \in InFlight
    BY <1>0, <1>4, Lengths DEF ReadPrepares, ReadPcs, Requests, InFlight
  <2>h. p.fh \in Handles /\ buf \in ReadBuffers /\ Holds(buf)
    BY <2>0, <1>b DEF FuseTypes, BuffersHold
  <2>1. CASE p.fh \notin openFiles
    <3>1. /\ reads' = [reads EXCEPT ![r] = [p EXCEPT !.pc = "link", !.attempt = 0,
                                                      !.fill = p.size, !.take = 0]]
          /\ buffers' = buffers
      BY <1>4, <2>1 DEF ReadPrepares, SetRead
    <3>2. Advances(p, [p EXCEPT !.pc = "link", !.attempt = 0, !.fill = p.size, !.take = 0])
      BY <1>0, <2>0, Prepared
    <3> QED BY <3>1, <3>2, <1>s, <2>0 DEF Moves
  <2>2. CASE p.fh \in openFiles /\ need = 0
    <3>1. Finish(r, "ok") /\ buffers' = buffers
      BY <1>4, <2>2 DEF ReadPrepares
    <3>2. << >> \in Seq(Nat) /\ << >> = Blocks(p.offset, 0)
      BY DEF Blocks
    <3>3. Advances(p, Answer(p, "ok", << >>))
      BY <1>0, <2>2, <3>2, AnswerAdvances
    <3> QED BY <3>1, <3>3, <1>s, <2>0 DEF Finish, SetRead, Moves
  <2>3. CASE p.fh \in openFiles /\ need > 0 /\ Serves(buf, p.offset, need)
    <3>1. /\ reads' = [reads EXCEPT ![r] = Answer(p, "ok", SubSeq(buf.data, 1, need))]
          /\ buffers' = [buffers EXCEPT ![p.fh] = Consume(buf, need)]
      BY <1>4, <2>3, <2>0 DEF ReadPrepares, SetRead
    <3>2. buf.start = p.offset /\ need <= Len(buf.data)
      BY <2>3, <2>0, <2>h DEF Serves, ReadBuffers
    <3>3. /\ Consume(buf, need) \in ReadBuffers /\ Holds(Consume(buf, need))
          /\ SubSeq(buf.data, 1, need) = Blocks(p.offset, need)
      BY <3>2, <2>0, <2>h, ConsumeHolds
    <3>4. Blocks(p.offset, need) \in Seq(Nat)
      BY <2>0, BlocksType
    <3>5. Advances(p, Answer(p, "ok", SubSeq(buf.data, 1, need)))
      BY <1>0, <3>3, <3>4, AnswerAdvances
    <3>6. BuffersHold'
      <4> HIDE DEF need, buf
      <4> QED BY <3>1, <3>3, <1>b DEF BuffersHold
    <3> QED BY <3>1, <3>5, <3>6, <2>0 DEF Moves
  <2>4. CASE p.fh \in openFiles /\ need # 0 /\ ~Serves(buf, p.offset, need)
    <3>0. need > 0
      BY <2>0, <2>4
    <3>1. /\ reads' = [reads EXCEPT ![r] = [p EXCEPT !.pc = "link", !.attempt = 0, !.take = need,
                                                      !.fill = FillLen(p.offset, need)]]
          /\ buffers' = [buffers EXCEPT ![p.fh] = NoBuffer]
      BY <1>4, <2>4, <3>0 DEF ReadPrepares, SetRead
    <3>2. FillLen(p.offset, need) \in Nat
      BY <2>0, <3>0, FillLengths
    <3>3. Advances(p, [p EXCEPT !.pc = "link", !.attempt = 0, !.take = need,
                                !.fill = FillLen(p.offset, need)])
      BY <1>0, <2>0, <3>0, <3>2, Prepared
    <3>4. BuffersHold'
      BY <3>1, <1>b, EmptyHolds DEF BuffersHold
    <3> QED BY <3>1, <3>3, <3>4, <2>0 DEF Moves
  <2> QED BY <2>0, <2>1, <2>2, <2>3, <2>4
<1>5. CASE Unrestricts(r)
  <2>1. p.pc = "link" /\ p.pc \in ReadPcs /\ buffers' = buffers
    BY <1>5 DEF Unrestricts, ReadUnchanged, ReadPcs
  <2>2. \/ reads' = [reads EXCEPT ![r] = [p EXCEPT !.pc = "fetch"]]
        \/ Attempt(r) \/ AwaitRepair(r)
    BY <1>5 DEF Unrestricts, SetRead
  <2>3. CASE reads' = [reads EXCEPT ![r] = [p EXCEPT !.pc = "fetch"]]
    <3>1. Advances(p, [p EXCEPT !.pc = "fetch"])
      BY <1>0, <2>1, Fetching
    <3> QED BY <3>1, <2>1, <2>3, <1>s DEF Moves
  <2>4. CASE Attempt(r)
    BY <1>0, <1>s, <2>1, <2>4, AttemptMoves
  <2>5. CASE AwaitRepair(r)
    BY <1>0, <1>s, <2>1, <2>5, RepairMoves
  <2> QED BY <2>2, <2>3, <2>4, <2>5
<1>6. CASE FetchOk(r)
  <2> DEFINE filled == Blocks(p.offset, NeedLen(p.offset, p.fill))
  <2>0. /\ p.pc = "fetch" /\ p.pc \in ReadPcs /\ Fetches(p) /\ r \in InFlight
        /\ p.offset \in Nat /\ p.size \in Nat
    BY <1>0, <1>6 DEF FetchOk, ReadPcs, Served, InFlight, Requests
  <2>1. /\ filled \in Seq(Nat)
        /\ p.take = 0 => filled = Blocks(p.offset, NeedLen(p.offset, p.size))
        /\ p.take # 0 => /\ SubSeq(filled, 1, p.take) = Blocks(p.offset, NeedLen(p.offset, p.size))
                         /\ AfterFetch(filled, p.offset, p.take) \in ReadBuffers
                         /\ Holds(AfterFetch(filled, p.offset, p.take))
    BY <1>0, <2>0, FetchHolds
  <2>2. Blocks(p.offset, NeedLen(p.offset, p.size)) \in Seq(Nat)
    BY <2>0, Lengths, BlocksType
  <2>3. CASE p.take = 0
    <3>1. reads' = [reads EXCEPT ![r] = Answer(p, "ok", filled)] /\ buffers' = buffers
      BY <1>6, <2>3 DEF FetchOk, SetRead
    <3>2. Advances(p, Answer(p, "ok", filled))
      BY <1>0, <2>1, <2>3, AnswerAdvances
    <3> QED BY <3>1, <3>2, <1>s, <2>0 DEF Moves
  <2>4. CASE p.take # 0
    <3>1. /\ reads' = [reads EXCEPT ![r] = Answer(p, "ok", SubSeq(filled, 1, p.take))]
          /\ buffers' = [buffers EXCEPT ![p.fh] = AfterFetch(filled, p.offset, p.take)]
      BY <1>6, <2>4 DEF FetchOk, SetRead
    <3> HIDE DEF filled
    <3>2. Advances(p, Answer(p, "ok", SubSeq(filled, 1, p.take)))
      BY <1>0, <2>1, <2>2, <2>4, AnswerAdvances
    <3>3. p.fh \in Handles
      BY <2>0 DEF FuseTypes
    <3>4. BuffersHold'
      BY <3>1, <3>3, <2>1, <2>4, <1>b DEF BuffersHold
    <3> QED BY <3>1, <3>2, <3>4, <2>0 DEF Moves
  <2> QED BY <2>3, <2>4
<1>7. CASE FetchFails(r)
  <2>1. p.pc = "fetch" /\ p.pc \in ReadPcs /\ buffers' = buffers
    BY <1>7 DEF FetchFails, ReadUnchanged, ReadPcs
  <2>2. Attempt(r) \/ Finish(r, "EIO") \/ Finish(r, "EINTR")
    BY <1>7 DEF FetchFails
  <2> QED BY <1>0, <1>s, <2>1, <2>2, AttemptMoves, FinishMoves
<1> QED BY <1>1, <1>2, <1>3, <1>4, <1>5, <1>6, <1>7 DEF Working

----------------------------------------------------------------------------
(* The request numbers and the interrupts.  A read that goes on keeps its  *)
(* number, its registration and its reasons for being cancelled.           *)
Registered ==
  \A u \in Uniques :
    kernelPending[u] # NoFuseRead =>
      /\ reads[kernelPending[u]].pc \notin {"idle", "sent", "reply"}
      /\ reads[kernelPending[u]].unique = u

Findable(p, r) ==
  p.pc \in {"sent", "reply"} \/ kernelPending[p.unique] = r \/ (p.asked /\ p.cancelled)
CancelledForCause(p) == p.cancelled => p.asked \/ p.fh \in released
AskedIsCancelled(p) ==
  p.asked /\ p.pc # "reply" => p.cancelled \/ p.unique \in interrupting \/ p.early

LEMMA InterruptsHitParts ==
  InterruptsHit <=>
    /\ Registered
    /\ \A r \in FuseReads : reads[r].pc # "idle" =>
         Findable(reads[r], r) /\ CancelledForCause(reads[r]) /\ AskedIsCancelled(reads[r])
BY DEF InterruptsHit, Registered, Findable, CancelledForCause, AskedIsCancelled, InFlight

LEMMA InterruptsHitPartsNext ==
  InterruptsHit' <=>
    /\ Registered'
    /\ \A r \in FuseReads : reads'[r].pc # "idle" =>
         Findable(reads[r], r)' /\ CancelledForCause(reads[r])' /\ AskedIsCancelled(reads[r])'
BY DEF InterruptsHit, Registered, Findable, CancelledForCause, AskedIsCancelled, InFlight

(* A step of one read that changes neither its number nor its flags.       *)
LEMMA MovesKeeps ==
  ASSUME FuseInv, NEW r \in FuseReads, Moves(r), BuffersHold',
         UNCHANGED << kernel, nextFh, released, kernelPending, interrupting >>
  PROVE  FuseInv'
<1>1. PICK x : Advances(reads[r], x) /\ reads' = [reads EXCEPT ![r] = x]
  BY DEF Moves
<1>2. /\ x \in Requests /\ Served(x) /\ x.pc \notin {"idle", "sent", "reply"}
      /\ x.unique = reads[r].unique /\ x.fh = reads[r].fh
      /\ x.cancelled = reads[r].cancelled /\ x.asked = reads[r].asked /\ x.early = reads[r].early
  BY <1>1 DEF Advances, SameRequest, ReadPcs
<1>3. reads[r].pc \notin {"idle", "sent", "reply"} /\ reads \in [FuseReads -> Requests]
  BY DEF Moves, ReadPcs, FuseInv, FuseTypes
<1>4. reads'[r] = x /\ \A q \in FuseReads : q # r => reads'[q] = reads[q]
  BY <1>1, <1>3
<1>t. FuseTypes'
  <2>1. reads' \in [FuseReads -> Requests]
    BY <1>1, <1>2, <1>3
  <2>2. \A q \in FuseReads : reads'[q].pc # "idle" => reads'[q].fh \in Handles /\ reads'[q].unique \in Uniques
    BY <1>2, <1>3, <1>4 DEF FuseInv, FuseTypes, InFlight
  <2> QED BY <2>1, <2>2 DEF FuseInv, FuseTypes, InFlight, BuffersHold
<1>5. OneNumberEach' /\ InterruptsAsked'
  BY <1>2, <1>3, <1>4 DEF FuseInv, OneNumberEach, InterruptsAsked
<1>6. InterruptsHit'
  <2>1. Registered'
    BY <1>2, <1>3, <1>4, InterruptsHitParts DEF FuseInv, Registered, FuseTypes
  <2>2. ASSUME NEW q \in FuseReads, reads'[q].pc # "idle"
        PROVE  Findable(reads[q], q)' /\ CancelledForCause(reads[q])' /\ AskedIsCancelled(reads[q])'
    <3>1. Findable(reads[q], q) /\ CancelledForCause(reads[q]) /\ AskedIsCancelled(reads[q])
      BY <2>2, <1>3, <1>4, InterruptsHitParts DEF FuseInv
    <3>2. CASE q = r
      BY <3>1, <3>2, <1>2, <1>3, <1>4 DEF Findable, CancelledForCause, AskedIsCancelled
    <3>3. CASE q # r
      BY <3>1, <3>3, <1>4 DEF Findable, CancelledForCause, AskedIsCancelled
    <3> QED BY <3>2, <3>3
  <2> QED BY <2>1, <2>2, InterruptsHitPartsNext
<1>7. ReplyInv'
  BY <1>2, <1>4 DEF FuseInv, ReplyInv, BuffersHold
<1> QED BY <1>t, <1>5, <1>6, <1>7 DEF FuseInv

(* `open` and `release`: the handles are nobody's number.                  *)
LEMMA HandleKeeps ==
  ASSUME FuseInv, UNCHANGED << kernel, buffers, kernelPending, reads, interrupting >>,
         nextFh' \in Nat, released \subseteq released'
  PROVE  FuseInv'
<1>1. FuseTypes' /\ OneNumberEach' /\ InterruptsAsked' /\ ReplyInv'
  BY DEF FuseInv, FuseTypes, OneNumberEach, InterruptsAsked, ReplyInv, InFlight
<1>2. InterruptsHit'
  <2>1. Registered'
    BY InterruptsHitParts DEF FuseInv, Registered
  <2>2. ASSUME NEW q \in FuseReads, reads'[q].pc # "idle"
        PROVE  Findable(reads[q], q)' /\ CancelledForCause(reads[q])' /\ AskedIsCancelled(reads[q])'
    <3>1. Findable(reads[q], q) /\ CancelledForCause(reads[q]) /\ AskedIsCancelled(reads[q])
      BY <2>2, InterruptsHitParts DEF FuseInv
    <3> QED BY <3>1 DEF Findable, CancelledForCause, AskedIsCancelled
  <2> QED BY <2>1, <2>2, InterruptsHitPartsNext
<1> QED BY <1>1, <1>2 DEF FuseInv

(* A new request takes a number that no request in flight and no interrupt *)
(* on its way has.                                                         *)
LEMMA RequestKeeps ==
  ASSUME FuseInv, NEW r \in FuseReads, NEW u \in Uniques, NEW h \in Handles,
         NEW ask \in kernel.asks, ReadRequested(r, u, h, ask[1], ask[2]), kernel' = kernel
  PROVE  FuseInv'
<1> DEFINE x == [IdleRead EXCEPT !.pc = "sent", !.unique = u, !.fh = h, !.offset = ask[1],
                                 !.size = ask[2]]
<1>1. /\ reads' = [reads EXCEPT ![r] = x] /\ kernelPending' = kernelPending
      /\ buffers' = buffers /\ released' = released /\ nextFh' = nextFh
      /\ interrupting' = interrupting
  BY DEF ReadRequested, SetRead
<1>2. ask[1] \in Nat /\ ask[2] \in Nat
  BY FuseReadConstants DEF FuseInv, FuseTypes
<1>3. x \in Requests
  <2>1. IdleRead \in Requests
    BY DEF IdleRead, Requests
  <2> QED BY <1>2, <2>1 DEF Requests
<1>4. x.pc = "sent" /\ x.unique = u /\ x.fh = h /\ x.res = "none"
  BY DEF IdleRead
<1>5. ~x.cancelled /\ ~x.asked
  BY DEF IdleRead
<1>6. Served(x)
  BY <1>4 DEF Served
<1> HIDE DEF x
<1>7. /\ reads[r].pc = "idle" /\ reads \in [FuseReads -> Requests] /\ u \notin interrupting
      /\ kernelPending \in [Uniques -> FuseReads \cup {NoFuseRead}]
      /\ \A q \in FuseReads : reads[q].pc # "idle" => reads[q].unique # u
  BY DEF ReadRequested, FreeUniques, InFlight, FuseInv, FuseTypes
<1>8. reads'[r] = x /\ \A q \in FuseReads : q # r => reads'[q] = reads[q]
  BY <1>1, <1>7
<1>t. FuseTypes'
  <2>1. reads' \in [FuseReads -> Requests]
    BY <1>1, <1>3, <1>7
  <2>2. \A q \in FuseReads : reads'[q].pc # "idle" => reads'[q].fh \in Handles /\ reads'[q].unique \in Uniques
    BY <1>4, <1>7, <1>8 DEF FuseInv, FuseTypes, InFlight
  <2> QED BY <1>1, <1>7, <2>1, <2>2 DEF FuseInv, FuseTypes, InFlight
<1>9. OneNumberEach' /\ InterruptsAsked'
  BY <1>1, <1>4, <1>7, <1>8 DEF FuseInv, OneNumberEach, InterruptsAsked
<1>10. InterruptsHit'
  <2>1. Registered'
    <3> SUFFICES ASSUME NEW v \in Uniques, kernelPending'[v] # NoFuseRead
                 PROVE  /\ reads'[kernelPending'[v]].pc \notin {"idle", "sent", "reply"}
                        /\ reads'[kernelPending'[v]].unique = v
      BY DEF Registered
    <3>1. kernelPending'[v] = kernelPending[v] /\ kernelPending[v] \in FuseReads
      BY <1>1, <1>7
    <3>2. /\ reads[kernelPending[v]].pc \notin {"idle", "sent", "reply"}
          /\ reads[kernelPending[v]].unique = v
      BY <3>1, InterruptsHitParts DEF FuseInv, Registered
    <3> QED BY <3>1, <3>2, <1>7, <1>8
  <2>2. ASSUME NEW q \in FuseReads, reads'[q].pc # "idle"
        PROVE  Findable(reads[q], q)' /\ CancelledForCause(reads[q])' /\ AskedIsCancelled(reads[q])'
    <3>1. CASE q = r
      BY <3>1, <1>4, <1>5, <1>8 DEF Findable, CancelledForCause, AskedIsCancelled
    <3>2. CASE q # r
      <4>1. reads'[q] = reads[q]
        BY <3>2, <1>8
      <4>2. Findable(reads[q], q) /\ CancelledForCause(reads[q]) /\ AskedIsCancelled(reads[q])
        BY <4>1, <2>2, InterruptsHitParts DEF FuseInv
      <4> QED BY <4>1, <4>2, <1>1 DEF Findable, CancelledForCause, AskedIsCancelled
    <3> QED BY <3>1, <3>2
  <2> QED BY <2>1, <2>2, InterruptsHitPartsNext
<1>11. ReplyInv'
  BY <1>1, <1>6, <1>8 DEF FuseInv, ReplyInv
<1> QED BY <1>t, <1>9, <1>10, <1>11 DEF FuseInv

(* `read` registers itself under a number that no other read has, so the   *)
(* entry it overwrites is nobody's.                                        *)
LEMMA BeginKeeps ==
  ASSUME FuseInv, NEW r \in FuseReads, ReadBegins(r), kernel' = kernel
  PROVE  FuseInv'
<1> DEFINE p == reads[r]
           x == [p EXCEPT !.pc = "info", !.linked = p.fh \in openFiles]
<1>0. /\ p \in Requests /\ reads \in [FuseReads -> Requests] /\ Served(p)
      /\ kernelPending \in [Uniques -> FuseReads \cup {NoFuseRead}]
      /\ p.pc = "sent" /\ p.unique \in Uniques /\ p.fh \in Handles
  BY DEF FuseInv, FuseTypes, ReplyInv, ReadBegins, InFlight
<1>1. /\ reads' = [reads EXCEPT ![r] = x] /\ kernelPending' = [kernelPending EXCEPT ![p.unique] = r]
      /\ buffers' = buffers /\ released' = released /\ nextFh' = nextFh
      /\ interrupting' = interrupting
  BY DEF ReadBegins, SetRead
<1>l. (p.fh \in openFiles) \in BOOLEAN
  OBVIOUS
<1>2. PICK l \in BOOLEAN : x = [p EXCEPT !.pc = "info", !.linked = l]
  BY <1>l, Zenon
<1>3. x \in Requests
  BY <1>0, <1>2 DEF Requests, ReadPcs
<1>4. /\ x.pc = "info" /\ x.unique = p.unique /\ x.fh = p.fh /\ x.res = p.res
      /\ x.asked = p.asked /\ x.cancelled = p.cancelled /\ x.early = p.early
  BY <1>0, <1>2 DEF Requests
<1>6. Served(x)
  BY <1>0, <1>4 DEF Served
<1> HIDE DEF x
<1>7. \A q \in FuseReads : q # r /\ reads[q].pc # "idle" => reads[q].unique # p.unique
  BY <1>0 DEF FuseInv, OneNumberEach
<1>8. reads'[r] = x /\ \A q \in FuseReads : q # r => reads'[q] = reads[q]
  BY <1>0, <1>1
<1>t. FuseTypes'
  <2>1. reads' \in [FuseReads -> Requests]
    BY <1>0, <1>1, <1>3
  <2>2. \A q \in FuseReads : reads'[q].pc # "idle" => reads'[q].fh \in Handles /\ reads'[q].unique \in Uniques
    BY <1>0, <1>4, <1>8 DEF FuseInv, FuseTypes, InFlight
  <2>3. kernelPending' \in [Uniques -> FuseReads \cup {NoFuseRead}]
    BY <1>0, <1>1
  <2> QED BY <1>1, <2>1, <2>2, <2>3 DEF FuseInv, FuseTypes, InFlight
<1>9. OneNumberEach' /\ InterruptsAsked'
  BY <1>0, <1>1, <1>4, <1>8 DEF FuseInv, OneNumberEach, InterruptsAsked
<1>10. InterruptsHit'
  <2>1. Registered'
    <3> SUFFICES ASSUME NEW v \in Uniques, kernelPending'[v] # NoFuseRead
                 PROVE  /\ reads'[kernelPending'[v]].pc \notin {"idle", "sent", "reply"}
                        /\ reads'[kernelPending'[v]].unique = v
      BY DEF Registered
    <3>1. CASE v = p.unique
      BY <3>1, <1>0, <1>1, <1>4, <1>8
    <3>2. CASE v # p.unique
      <4>1. kernelPending'[v] = kernelPending[v] /\ kernelPending[v] \in FuseReads
        BY <3>2, <1>0, <1>1
      <4>2. /\ reads[kernelPending[v]].pc \notin {"idle", "sent", "reply"}
            /\ reads[kernelPending[v]].unique = v
        BY <4>1, InterruptsHitParts DEF FuseInv, Registered
      <4> QED BY <4>1, <4>2, <1>0, <1>8
    <3> QED BY <3>1, <3>2
  <2>2. ASSUME NEW q \in FuseReads, reads'[q].pc # "idle"
        PROVE  Findable(reads[q], q)' /\ CancelledForCause(reads[q])' /\ AskedIsCancelled(reads[q])'
    <3>0. reads[q].pc # "idle" /\ reads[q].unique \in Uniques
      BY <2>2, <1>0, <1>8 DEF FuseInv, FuseTypes, InFlight
    <3>1. Findable(reads[q], q) /\ CancelledForCause(reads[q]) /\ AskedIsCancelled(reads[q])
      BY <3>0, InterruptsHitParts DEF FuseInv
    <3>2. CASE q = r
      BY <3>1, <3>2, <1>0, <1>1, <1>4, <1>8 DEF Findable, CancelledForCause, AskedIsCancelled
    <3>3. CASE q # r
      <4>1. reads[q].unique # p.unique
        BY <3>0, <3>3, <1>7
      <4>2. kernelPending'[reads[q].unique] = kernelPending[reads[q].unique]
        BY <3>0, <4>1, <1>0, <1>1
      <4> QED BY <3>1, <3>3, <4>2, <1>1, <1>8 DEF Findable, CancelledForCause, AskedIsCancelled
    <3> QED BY <3>2, <3>3
  <2> QED BY <2>1, <2>2, InterruptsHitPartsNext
<1>11. ReplyInv'
  BY <1>1, <1>6, <1>8 DEF FuseInv, ReplyInv
<1> QED BY <1>t, <1>9, <1>10, <1>11 DEF FuseInv

(* The bridge of a released handle cancels a read for a reason.            *)
LEMMA BridgeKeeps ==
  ASSUME FuseInv, NEW r \in FuseReads, BridgeCancels(r), kernel' = kernel
  PROVE  FuseInv'
<1> DEFINE p == reads[r]
           x == [p EXCEPT !.cancelled = TRUE]
<1>0. p \in Requests /\ reads \in [FuseReads -> Requests] /\ Served(p)
  BY DEF FuseInv, FuseTypes, ReplyInv
<1>1. /\ reads' = [reads EXCEPT ![r] = x] /\ kernelPending' = kernelPending
      /\ buffers' = buffers /\ released' = released /\ nextFh' = nextFh
      /\ interrupting' = interrupting /\ p.fh \in released /\ p.pc # "idle"
  BY DEF BridgeCancels, SetRead
<1>2. x \in Requests
  BY <1>0 DEF Requests
<1>3. /\ x.pc = p.pc /\ x.unique = p.unique /\ x.fh = p.fh /\ x.res = p.res /\ x.data = p.data
      /\ x.offset = p.offset /\ x.size = p.size /\ x.fill = p.fill /\ x.take = p.take
      /\ x.asked = p.asked /\ x.early = p.early
  BY <1>0 DEF Requests
<1>4. x.cancelled
  BY <1>0 DEF Requests
<1>5. Served(x)
  BY <1>0, <1>3 DEF Served, Fetches
<1> HIDE DEF x
<1>8. reads'[r] = x /\ \A q \in FuseReads : q # r => reads'[q] = reads[q]
  BY <1>0, <1>1
<1>t. FuseTypes'
  <2>1. reads' \in [FuseReads -> Requests]
    BY <1>0, <1>1, <1>2
  <2>2. \A q \in FuseReads : reads'[q].pc # "idle" => reads'[q].fh \in Handles /\ reads'[q].unique \in Uniques
    BY <1>3, <1>8 DEF FuseInv, FuseTypes, InFlight
  <2> QED BY <1>1, <2>1, <2>2 DEF FuseInv, FuseTypes, InFlight
<1>9. OneNumberEach' /\ InterruptsAsked'
  BY <1>1, <1>3, <1>8 DEF FuseInv, OneNumberEach, InterruptsAsked
<1>10. InterruptsHit'
  <2>1. Registered'
    BY <1>1, <1>3, <1>8, InterruptsHitParts DEF FuseInv, Registered, FuseTypes
  <2>2. ASSUME NEW q \in FuseReads, reads'[q].pc # "idle"
        PROVE  Findable(reads[q], q)' /\ CancelledForCause(reads[q])' /\ AskedIsCancelled(reads[q])'
    <3>1. Findable(reads[q], q) /\ CancelledForCause(reads[q]) /\ AskedIsCancelled(reads[q])
      BY <2>2, <1>3, <1>8, InterruptsHitParts DEF FuseInv
    <3>2. CASE q = r
      BY <3>1, <3>2, <1>1, <1>3, <1>4, <1>8 DEF Findable, CancelledForCause, AskedIsCancelled
    <3>3. CASE q # r
      BY <3>1, <3>3, <1>1, <1>8 DEF Findable, CancelledForCause, AskedIsCancelled
    <3> QED BY <3>2, <3>3
  <2> QED BY <2>1, <2>2, InterruptsHitPartsNext
<1>11. ReplyInv'
  BY <1>1, <1>5, <1>8 DEF FuseInv, ReplyInv
<1> QED BY <1>t, <1>9, <1>10, <1>11 DEF FuseInv

(* The kernel's interrupt: the read it is for is asked, and its number is  *)
(* on its way.                                                             *)
LEMMA InterruptKeeps ==
  ASSUME FuseInv, NEW r \in FuseReads, Interrupt(r), kernel' = kernel
  PROVE  FuseInv'
<1> DEFINE p == reads[r]
           x == [p EXCEPT !.asked = TRUE]
<1>0. p \in Requests /\ reads \in [FuseReads -> Requests] /\ Served(p)
  BY DEF FuseInv, FuseTypes, ReplyInv
<1>1. /\ reads' = [reads EXCEPT ![r] = x] /\ kernelPending' = kernelPending
      /\ buffers' = buffers /\ released' = released /\ nextFh' = nextFh
      /\ interrupting' = interrupting \cup {p.unique} /\ p.pc # "idle"
      /\ p.unique \in Uniques
  BY DEF Interrupt, SetRead, InFlight, FuseInv, FuseTypes
<1>2. x \in Requests
  BY <1>0 DEF Requests
<1>3. /\ x.pc = p.pc /\ x.unique = p.unique /\ x.fh = p.fh /\ x.res = p.res /\ x.data = p.data
      /\ x.offset = p.offset /\ x.size = p.size /\ x.fill = p.fill /\ x.take = p.take
      /\ x.cancelled = p.cancelled /\ x.early = p.early
  BY <1>0 DEF Requests
<1>4. x.asked
  BY <1>0 DEF Requests
<1>5. Served(x)
  BY <1>0, <1>3 DEF Served, Fetches
<1> HIDE DEF x
<1>8. reads'[r] = x /\ \A q \in FuseReads : q # r => reads'[q] = reads[q]
  BY <1>0, <1>1
<1>t. FuseTypes'
  <2>1. reads' \in [FuseReads -> Requests]
    BY <1>0, <1>1, <1>2
  <2>2. \A q \in FuseReads : reads'[q].pc # "idle" => reads'[q].fh \in Handles /\ reads'[q].unique \in Uniques
    BY <1>3, <1>8 DEF FuseInv, FuseTypes, InFlight
  <2> QED BY <1>1, <2>1, <2>2 DEF FuseInv, FuseTypes, InFlight
<1>9. OneNumberEach' /\ InterruptsAsked'
  BY <1>1, <1>3, <1>4, <1>8 DEF FuseInv, OneNumberEach, InterruptsAsked
<1>10. InterruptsHit'
  <2>1. Registered'
    BY <1>1, <1>3, <1>8, InterruptsHitParts DEF FuseInv, Registered, FuseTypes
  <2>2. ASSUME NEW q \in FuseReads, reads'[q].pc # "idle"
        PROVE  Findable(reads[q], q)' /\ CancelledForCause(reads[q])' /\ AskedIsCancelled(reads[q])'
    <3>1. Findable(reads[q], q) /\ CancelledForCause(reads[q]) /\ AskedIsCancelled(reads[q])
      BY <2>2, <1>3, <1>8, InterruptsHitParts DEF FuseInv
    <3>2. CASE q = r
      BY <3>1, <3>2, <1>1, <1>3, <1>4, <1>8 DEF Findable, CancelledForCause, AskedIsCancelled
    <3>3. CASE q # r
      BY <3>1, <3>3, <1>1, <1>8 DEF Findable, CancelledForCause, AskedIsCancelled
    <3> QED BY <3>2, <3>3
  <2> QED BY <2>1, <2>2, InterruptsHitPartsNext
<1>11. ReplyInv'
  BY <1>1, <1>5, <1>8 DEF FuseInv, ReplyInv
<1> QED BY <1>t, <1>9, <1>10, <1>11 DEF FuseInv

(* `interrupt` finds the read under its number or, if that is not or no    *)
(* longer registered, nobody: no other read has this number.               *)
LEMMA InterruptRunsKeeps ==
  ASSUME FuseInv, NEW u \in Uniques, InterruptRuns(u), kernel' = kernel
  PROVE  FuseInv'
<1> DEFINE hit == kernelPending[u]
           x(q) == [reads[q] EXCEPT !.cancelled = @ \/ q = hit,
                                    !.early = @ \/ (reads[q].pc = "sent" /\ reads[q].unique = u)]
<1>0. /\ reads \in [FuseReads -> Requests] /\ u \in interrupting
      /\ kernelPending \in [Uniques -> FuseReads \cup {NoFuseRead}]
  BY DEF FuseInv, FuseTypes, InterruptRuns
<1>1. /\ reads' = [q \in FuseReads |-> x(q)]
      /\ kernelPending' = [kernelPending EXCEPT ![u] = NoFuseRead]
      /\ buffers' = buffers /\ released' = released /\ nextFh' = nextFh
      /\ interrupting' = interrupting \ {u}
  BY DEF InterruptRuns
<1>2. hit # NoFuseRead => /\ hit \in FuseReads /\ reads[hit].pc \notin {"idle", "sent", "reply"}
                          /\ reads[hit].unique = u
  BY <1>0, InterruptsHitParts DEF FuseInv, Registered
<1>3. ASSUME NEW q \in FuseReads
      PROVE  /\ reads'[q] = x(q) /\ reads'[q] \in Requests
             /\ reads'[q].pc = reads[q].pc /\ reads'[q].unique = reads[q].unique
             /\ reads'[q].fh = reads[q].fh /\ reads'[q].asked = reads[q].asked /\ Served(reads'[q])
  <2>1. reads'[q] = x(q)
    BY <1>1
  <2>2. reads[q] \in Requests
    BY <1>0
  <2>3. reads[q].early \in BOOLEAN /\ reads[q].cancelled \in BOOLEAN
    BY <2>2 DEF Requests
  <2>4. PICK a \in BOOLEAN, b \in BOOLEAN : reads'[q] = [reads[q] EXCEPT !.cancelled = a, !.early = b]
    BY <2>1, Zenon
  <2>5. reads'[q] \in Requests
    BY <2>2, <2>4 DEF Requests
  <2>6. /\ reads'[q].pc = reads[q].pc /\ reads'[q].unique = reads[q].unique
        /\ reads'[q].fh = reads[q].fh /\ reads'[q].offset = reads[q].offset
        /\ reads'[q].size = reads[q].size /\ reads'[q].fill = reads[q].fill
        /\ reads'[q].take = reads[q].take /\ reads'[q].res = reads[q].res
        /\ reads'[q].data = reads[q].data /\ reads'[q].asked = reads[q].asked
    BY <2>2, <2>4 DEF Requests
  <2>7. Served(reads[q])
    BY DEF FuseInv, ReplyInv
  <2>8. Served(reads'[q])
    BY <2>6, <2>7 DEF Served, Fetches
  <2> QED BY <2>1, <2>5, <2>6, <2>8
<1>4. ASSUME NEW q \in FuseReads
      PROVE  /\ reads'[q].cancelled <=> reads[q].cancelled \/ q = hit
             /\ reads'[q].early <=> reads[q].early \/ (reads[q].pc = "sent" /\ reads[q].unique = u)
  <2>1. reads'[q] = x(q) /\ reads[q] \in Requests
    BY <1>3, <1>0
  <2> HIDE DEF hit
  <2> QED BY <2>1 DEF Requests
<1>5. \A q \in FuseReads :
         /\ reads'[q].pc = reads[q].pc /\ reads'[q].unique = reads[q].unique
         /\ reads'[q].fh = reads[q].fh /\ reads'[q].asked = reads[q].asked /\ Served(reads'[q])
  BY <1>3
<1>t. FuseTypes'
  <2>1. reads' \in [FuseReads -> Requests]
    BY <1>1, <1>3
  <2>2. \A q \in FuseReads : reads'[q].pc # "idle" => reads'[q].fh \in Handles /\ reads'[q].unique \in Uniques
    BY <1>5 DEF FuseInv, FuseTypes, InFlight
  <2>3. kernelPending' \in [Uniques -> FuseReads \cup {NoFuseRead}]
    BY <1>0, <1>1
  <2> QED BY <1>1, <2>1, <2>2, <2>3 DEF FuseInv, FuseTypes, InFlight
<1>9. OneNumberEach' /\ InterruptsAsked'
  <2>1. OneNumberEach'
    BY <1>5 DEF FuseInv, OneNumberEach
  <2>2. ASSUME NEW v \in interrupting', NEW q \in FuseReads,
               reads'[q].pc # "idle", reads'[q].unique = v
        PROVE  reads'[q].asked
    <3>0. v \in interrupting
      BY <1>1
    <3>1. v \in interrupting /\ reads[q].pc # "idle" /\ reads[q].unique = v
      BY <3>0, <2>2, <1>5
    <3>2. reads[q].asked
      BY <3>1 DEF FuseInv, InterruptsAsked
    <3> QED BY <3>2, <1>5
  <2> QED BY <2>1, <2>2 DEF InterruptsAsked
<1>10. InterruptsHit'
  <2>1. Registered'
    <3> SUFFICES ASSUME NEW v \in Uniques, kernelPending'[v] # NoFuseRead
                 PROVE  /\ reads'[kernelPending'[v]].pc \notin {"idle", "sent", "reply"}
                        /\ reads'[kernelPending'[v]].unique = v
      BY DEF Registered
    <3>1. kernelPending'[v] = kernelPending[v] /\ kernelPending[v] \in FuseReads
      BY <1>0, <1>1
    <3>2. /\ reads[kernelPending[v]].pc \notin {"idle", "sent", "reply"}
          /\ reads[kernelPending[v]].unique = v
      BY <3>1, InterruptsHitParts DEF FuseInv, Registered
    <3> QED BY <3>1, <3>2, <1>5
  <2>2. ASSUME NEW q \in FuseReads, reads'[q].pc # "idle"
        PROVE  Findable(reads[q], q)' /\ CancelledForCause(reads[q])' /\ AskedIsCancelled(reads[q])'
    <3>0. reads[q].pc # "idle" /\ reads[q].unique \in Uniques
      BY <2>2, <1>5 DEF FuseInv, FuseTypes, InFlight
    <3>1. Findable(reads[q], q) /\ CancelledForCause(reads[q]) /\ AskedIsCancelled(reads[q])
      BY <3>0, InterruptsHitParts DEF FuseInv
    <3>2. CASE reads[q].unique = u
      <4>1. reads[q].asked /\ reads'[q].asked
        BY <3>0, <3>2, <1>0, <1>5 DEF FuseInv, InterruptsAsked
      <4>2. hit = q => reads'[q].cancelled
        BY <1>4
      <4>3. reads[q].pc \in {"sent", "reply"} \/ reads'[q].cancelled
        BY <3>1, <3>2, <4>2, <1>4 DEF Findable
      <4>4. reads[q].pc = "sent" => reads'[q].early
        BY <3>2, <1>4
      <4> QED BY <4>1, <4>3, <4>4, <1>5 DEF Findable, CancelledForCause, AskedIsCancelled
    <3>3. CASE reads[q].unique # u
      <4>0. q # hit
        BY <3>3, <1>2, FuseReadConstants
      <4>1. /\ reads'[q].early <=> reads[q].early
            /\ reads'[q].cancelled <=> reads[q].cancelled
        BY <3>3, <4>0, <1>4
      <4>3. kernelPending'[reads[q].unique] = kernelPending[reads[q].unique]
        BY <3>0, <3>3, <1>0, <1>1
      <4>4. Findable(reads[q], q)'
        BY <3>1, <4>1, <4>3, <1>5 DEF Findable
      <4>5. CancelledForCause(reads[q])'
        <5>1. released' = released /\ reads'[q].fh = reads[q].fh
          BY <1>1, <1>5
        <5> QED BY <3>1, <4>1, <5>1, <1>5 DEF CancelledForCause
      <4>6. AskedIsCancelled(reads[q])'
        <5>1. /\ reads'[q].pc = reads[q].pc /\ reads'[q].unique = reads[q].unique
              /\ reads'[q].asked = reads[q].asked
          BY <1>5
        <5>2. reads[q].unique \in interrupting => reads[q].unique \in interrupting'
          BY <3>3, <1>1
        <5> QED BY <3>1, <4>1, <5>1, <5>2, Zenon DEF AskedIsCancelled
      <4> QED BY <4>4, <4>5, <4>6
    <3> QED BY <3>2, <3>3
  <2> QED BY <2>1, <2>2, InterruptsHitPartsNext
<1>11. ReplyInv'
  BY <1>1, <1>5 DEF FuseInv, ReplyInv
<1> QED BY <1>t, <1>9, <1>10, <1>11 DEF FuseInv

(* The registration is dropped: the entry under the number of a read that  *)
(* has ended is its own, so no other read becomes unreachable.             *)
LEMMA DropKeeps ==
  ASSUME FuseInv, NEW r \in FuseReads, DropRegistration(r), kernel' = kernel
  PROVE  FuseInv'
<1> DEFINE p == reads[r]
           x == [p EXCEPT !.pc = "reply"]
<1>0. /\ p \in Requests /\ reads \in [FuseReads -> Requests] /\ Served(p)
      /\ kernelPending \in [Uniques -> FuseReads \cup {NoFuseRead}]
      /\ p.pc = "drop" /\ p.unique \in Uniques /\ p.fh \in Handles
  BY DEF FuseInv, FuseTypes, ReplyInv, DropRegistration, InFlight
<1>1. /\ reads' = [reads EXCEPT ![r] = x]
      /\ kernelPending' = [kernelPending EXCEPT ![p.unique] = NoFuseRead]
      /\ buffers' = buffers /\ released' = released /\ nextFh' = nextFh
      /\ interrupting' = interrupting
  BY DEF DropRegistration, SetRead
<1>2. x \in Requests
  BY <1>0 DEF Requests
<1>3. /\ x.pc = "reply" /\ x.unique = p.unique /\ x.fh = p.fh /\ x.res = p.res /\ x.data = p.data
      /\ x.offset = p.offset /\ x.size = p.size
      /\ x.asked = p.asked /\ x.cancelled = p.cancelled /\ x.early = p.early
  BY <1>0 DEF Requests
<1>5. Served(x)
  BY <1>0, <1>3 DEF Served
<1> HIDE DEF x
<1>8. reads'[r] = x /\ \A q \in FuseReads : q # r => reads'[q] = reads[q]
  BY <1>0, <1>1
<1>t. FuseTypes'
  <2>1. reads' \in [FuseReads -> Requests]
    BY <1>0, <1>1, <1>2
  <2>2. \A q \in FuseReads : reads'[q].pc # "idle" => reads'[q].fh \in Handles /\ reads'[q].unique \in Uniques
    BY <1>0, <1>3, <1>8 DEF FuseInv, FuseTypes, InFlight
  <2>3. kernelPending' \in [Uniques -> FuseReads \cup {NoFuseRead}]
    BY <1>0, <1>1
  <2> QED BY <1>1, <2>1, <2>2, <2>3 DEF FuseInv, FuseTypes, InFlight
<1>9. OneNumberEach' /\ InterruptsAsked'
  BY <1>0, <1>1, <1>3, <1>8 DEF FuseInv, OneNumberEach, InterruptsAsked
<1>10. InterruptsHit'
  <2>1. Registered'
    <3> SUFFICES ASSUME NEW v \in Uniques, kernelPending'[v] # NoFuseRead
                 PROVE  /\ reads'[kernelPending'[v]].pc \notin {"idle", "sent", "reply"}
                        /\ reads'[kernelPending'[v]].unique = v
      BY DEF Registered
    <3>1. v # p.unique /\ kernelPending'[v] = kernelPending[v] /\ kernelPending[v] \in FuseReads
      BY <1>0, <1>1
    <3>2. /\ reads[kernelPending[v]].pc \notin {"idle", "sent", "reply"}
          /\ reads[kernelPending[v]].unique = v
      BY <3>1, InterruptsHitParts DEF FuseInv, Registered
    <3>3. kernelPending[v] # r
      BY <3>1, <3>2
    <3> QED BY <3>1, <3>2, <3>3, <1>8
  <2>2. ASSUME NEW q \in FuseReads, reads'[q].pc # "idle"
        PROVE  Findable(reads[q], q)' /\ CancelledForCause(reads[q])' /\ AskedIsCancelled(reads[q])'
    <3>0. reads[q].pc # "idle" /\ reads[q].unique \in Uniques
      BY <2>2, <1>0, <1>8 DEF FuseInv, FuseTypes, InFlight
    <3>1. Findable(reads[q], q) /\ CancelledForCause(reads[q]) /\ AskedIsCancelled(reads[q])
      BY <3>0, InterruptsHitParts DEF FuseInv
    <3>2. CASE q = r
      BY <3>1, <3>2, <1>1, <1>3, <1>8 DEF Findable, CancelledForCause, AskedIsCancelled
    <3>3. CASE q # r
      <4>1. reads[q].unique # p.unique
        BY <3>0, <3>3, <1>0 DEF FuseInv, OneNumberEach
      <4>2. kernelPending'[reads[q].unique] = kernelPending[reads[q].unique]
        BY <3>0, <4>1, <1>0, <1>1
      <4> QED BY <3>1, <3>3, <4>2, <1>1, <1>8 DEF Findable, CancelledForCause, AskedIsCancelled
    <3> QED BY <3>2, <3>3
  <2> QED BY <2>1, <2>2, InterruptsHitPartsNext
<1>11. ReplyInv'
  BY <1>1, <1>5, <1>8 DEF FuseInv, ReplyInv
<1> QED BY <1>t, <1>9, <1>10, <1>11 DEF FuseInv

(* The reply: nobody is registered under the number that becomes free.     *)
LEMMA ReplyKeeps ==
  ASSUME FuseInv, NEW r \in FuseReads, Reply(r), kernel' = kernel
  PROVE  FuseInv'
<1>0. /\ reads \in [FuseReads -> Requests] /\ reads[r].pc = "reply"
      /\ kernelPending \in [Uniques -> FuseReads \cup {NoFuseRead}]
  BY DEF FuseInv, FuseTypes, Reply
<1>1. /\ reads' = [reads EXCEPT ![r] = IdleRead] /\ kernelPending' = kernelPending
      /\ buffers' = buffers /\ released' = released /\ nextFh' = nextFh
      /\ interrupting' = interrupting
  BY DEF Reply, SetRead, ReadUnchanged
<1>2. IdleRead \in Requests /\ IdleRead.pc = "idle" /\ IdleRead.res = "none"
  BY DEF IdleRead, Requests
<1>3. Served(IdleRead)
  BY <1>2 DEF Served
<1>8. reads'[r] = IdleRead /\ \A q \in FuseReads : q # r => reads'[q] = reads[q]
  BY <1>0, <1>1
<1>t. FuseTypes'
  <2>1. reads' \in [FuseReads -> Requests]
    BY <1>0, <1>1, <1>2
  <2>2. \A q \in FuseReads : reads'[q].pc # "idle" => reads'[q].fh \in Handles /\ reads'[q].unique \in Uniques
    BY <1>2, <1>8 DEF FuseInv, FuseTypes, InFlight
  <2> QED BY <1>1, <2>1, <2>2 DEF FuseInv, FuseTypes, InFlight
<1>9. OneNumberEach' /\ InterruptsAsked'
  BY <1>1, <1>2, <1>8 DEF FuseInv, OneNumberEach, InterruptsAsked
<1>10. InterruptsHit'
  <2>1. Registered'
    BY <1>0, <1>1, <1>8, InterruptsHitParts DEF FuseInv, Registered
  <2>2. ASSUME NEW q \in FuseReads, reads'[q].pc # "idle"
        PROVE  Findable(reads[q], q)' /\ CancelledForCause(reads[q])' /\ AskedIsCancelled(reads[q])'
    <3>1. q # r /\ reads'[q] = reads[q]
      BY <2>2, <1>2, <1>8
    <3>2. Findable(reads[q], q) /\ CancelledForCause(reads[q]) /\ AskedIsCancelled(reads[q])
      BY <2>2, <3>1, InterruptsHitParts DEF FuseInv
    <3> QED BY <3>1, <3>2, <1>1 DEF Findable, CancelledForCause, AskedIsCancelled
  <2> QED BY <2>1, <2>2, InterruptsHitPartsNext
<1>11. ReplyInv'
  BY <1>1, <1>3, <1>8 DEF FuseInv, ReplyInv
<1> QED BY <1>t, <1>9, <1>10, <1>11 DEF FuseInv

LEMMA FuseStarts == FuseInit => FuseInv
<1> SUFFICES ASSUME FuseInit PROVE FuseInv
  OBVIOUS
<1>0. IdleRead \in Requests /\ IdleRead.pc = "idle" /\ IdleRead.res = "none"
  BY DEF IdleRead, Requests
<1>1. Served(IdleRead)
  BY <1>0 DEF Served
<1>2. reads = [r \in FuseReads |-> IdleRead]
  BY DEF FuseInit
<1>3. FuseTypes /\ OneNumberEach /\ InterruptsAsked
  BY <1>0, <1>2, EmptyHolds DEF FuseInit, FuseTypes, OneNumberEach, InterruptsAsked, InFlight
<1>4. InterruptsHit
  BY <1>0, <1>2 DEF FuseInit, InterruptsHit, InFlight
<1>5. ReplyInv
  BY <1>1, <1>2, EmptyHolds DEF FuseInit, ReplyInv
<1> QED BY <1>3, <1>4, <1>5 DEF FuseInv

LEMMA FuseStep == FuseInv /\ [FuseNext]_fuseVars => FuseInv'
<1> SUFFICES ASSUME FuseInv, [FuseNext]_fuseVars PROVE FuseInv'
  OBVIOUS
<1>0. nextFh \in Nat
  BY DEF FuseInv, FuseTypes
<1>1. CASE UNCHANGED fuseVars
  BY <1>0, <1>1, HandleKeeps DEF fuseVars
<1>2. CASE FuseNext
  <2>0. kernel' = kernel
    BY <1>2 DEF FuseNext
  <2>1. CASE OpenHandle
    BY <1>0, <2>0, <2>1, HandleKeeps DEF OpenHandle
  <2>2. ASSUME NEW h \in Handles, ReleaseHandle(h)
        PROVE  FuseInv'
    BY <1>0, <2>0, <2>2, HandleKeeps DEF ReleaseHandle
  <2>3. ASSUME NEW r \in FuseReads,
               \/ ReadBegins(r) \/ Interrupt(r) \/ BridgeCancels(r)
               \/ DropRegistration(r) \/ Reply(r)
        PROVE  FuseInv'
    BY <2>0, <2>3, BeginKeeps, InterruptKeeps, BridgeKeeps, DropKeeps, ReplyKeeps
  <2>4. ASSUME NEW r \in FuseReads, NEW u \in Uniques, NEW h \in Handles, NEW ask \in kernel.asks,
               ReadRequested(r, u, h, ask[1], ask[2])
        PROVE  FuseInv'
    BY <2>0, <2>4, RequestKeeps
  <2>5. ASSUME NEW r \in FuseReads, Working(r)
        PROVE  FuseInv'
    <3>1. Moves(r) /\ BuffersHold'
      BY <2>5, WorkingMoves DEF FuseInv
    <3>2. UNCHANGED << nextFh, released, kernelPending, interrupting >>
      BY <2>5 DEF Working, ReadRefused, FileBroken, RepairEnds, ReadPrepares, Unrestricts, FetchOk,
         FetchFails, ReadUnchanged
    <3> QED BY <2>0, <3>1, <3>2, MovesKeeps
  <2>6. ASSUME NEW u \in Uniques, InterruptRuns(u)
        PROVE  FuseInv'
    BY <2>0, <2>6, InterruptRunsKeeps
  <2> QED BY <1>2, <2>1, <2>2, <2>3, <2>4, <2>5, <2>6 DEF FuseNext, KernelStep, ReadStep, Working
<1> QED BY <1>1, <1>2

LEMMA FuseInvariant == FuseSpec => []FuseInv
BY FuseStarts, FuseStep, PTL DEF FuseSpec

(* read.rs: for every file, buffer and read size and any number of reads   *)
(* and handles, a read that succeeds returns the bytes at its own offset.  *)
THEOREM RepliesExact == FuseSpec => []RepliesAreTheFile
<1>1. FuseInv => RepliesAreTheFile
  BY DEF FuseInv, ReplyInv, Served, RepliesAreTheFile
<1> QED BY <1>1, FuseInvariant, PTL

(* read_cancel_bridge.rs, fs.rs: for any number of reads, releases and     *)
(* interrupts whose tasks run in any order, an interrupt cancels the read  *)
(* it is for and no other, and misses it only if it runs before the read   *)
(* is registered.                                                          *)
THEOREM InterruptsFindTheirRead == FuseSpec => []InterruptsHit
<1>1. FuseInv => InterruptsHit
  BY DEF FuseInv
<1> QED BY <1>1, FuseInvariant, PTL

----------------------------------------------------------------------------
(* The download tokens.  The invariant of a call is stated of a call p of  *)
(* caller c, a pool P and the refused tokens R, since marks of other calls *)
(* change P and R while p stays as it is.                                  *)
PostPcs == {"idle", "pick", "lookup", "wait", "insert", "mark", "flag", "done"}
GetPcs == {"idle", "bearer", "store", "wait", "mark", "flag", "rotate", "done"}
Sent == {"store", "wait", "mark", "flag"}

CallRecords ==
  [pc : PostPcs \cup GetPcs, token : Tokens \cup {NoToken}, slot : Nat, gen : Nat,
   attempt : Nat, tries : Nat, max : Nat, fallback : BOOLEAN, ranges : Nat, sends : Nat,
   calm : BOOLEAN, res : {"none", "ok", "error", "fatal", "bandwidth"}]

Pools == [tokens : Configs, flags : SUBSET Nat, gen : Nat]
GoodPool(P) == P \in Pools /\ P.flags \subseteq Slots(P)

(* Flags of other tokens than t; all are flagged.                          *)
Others(P, t) == {i \in P.flags : P.tokens[i] # t}
AllFlagged(P) == Slots(P) \subseteq P.flags

CallShape(c, p) ==
  /\ p \in CallRecords
  /\ c \in Unrestricters => p.pc \in PostPcs
  /\ c \in Fetchers => p.pc \in GetPcs
  /\ p.res # "none" <=> p.pc = "done"
  /\ p.pc = "store" => p.slot > 0

(* The token of a mark under way is in R, and the slot that mark_exhausted *)
(* found holds this token for as long as the list is the same.             *)
MarkInv(p, P, R) ==
  /\ p.pc \in {"mark", "flag"} => p.token \in R
  /\ p.pc = "flag" =>
       /\ p.gen <= P.gen
       /\ p.slot # 0 /\ p.gen = P.gen => p.slot \in Slots(P) /\ P.tokens[p.slot] = p.token

(* As many tokens as an undisturbed call has tried are flagged, and the    *)
(* one it uses now is not among them, unless all are flagged.              *)
TryInv(p, P) ==
  /\ p.pc \in Sent \cup {"bearer", "rotate"} => p.max = Len(P.tokens)
  /\ p.pc \in {"bearer", "rotate"} => AllFlagged(P) \/ p.tries <= Cardinality(P.flags)
  /\ p.pc \in Sent => /\ p.token \in ListSet(P.tokens)
                      /\ AllFlagged(P) \/ p.tries <= Cardinality(Others(P, p.token))
  /\ p.pc = "flag" => p.gen = P.gen /\ p.slot # 0

(* What a call has sent: at most one request to the original host, all     *)
(* retries for the tokens before, and the attempts with this one.          *)
Extra(p) == IF p.fallback THEN 1 ELSE 0
SendInv(p) ==
  /\ p.pc \in {"idle", "done"} => p.sends = 0
  /\ p.pc \in Sent \cup {"bearer"} => p.tries < p.max /\ p.attempt <= MaxRetries
  /\ p.pc = "bearer" => p.sends <= Extra(p) + p.tries * (MaxRetries + 1) + p.attempt
  /\ p.pc \in Sent => p.sends <= Extra(p) + p.tries * (MaxRetries + 1) + p.attempt + 1
  /\ p.pc = "rotate" => p.tries <= p.max /\ p.sends <= Extra(p) + p.tries * (MaxRetries + 1)

GaveUpInv(p, P, R) == p.res = "bandwidth" /\ p.calm => ListSet(P.tokens) \subseteq R

CallInv(c, p, P, R) ==
  /\ CallShape(c, p) /\ MarkInv(p, P, R) /\ GaveUpInv(p, P, R)
  /\ c \in Fetchers => SendInv(p) /\ (p.calm => TryInv(p, P))

CauseInv(P, R) == \A i \in P.flags : P.tokens[i] \in R

TokenInv ==
  /\ GoodPool(pool) /\ CauseInv(pool, refused) /\ current \in Nat
  /\ calls \in [Callers -> CallRecords]
  /\ \A c \in Callers : CallInv(c, calls[c], pool, refused)

----------------------------------------------------------------------------
(* Numbers and slots.                                                      *)
LEMMA LeastNumber ==
  ASSUME NEW S \in SUBSET Nat, S # {}
  PROVE  \E n \in S : \A m \in S : n <= m
<1>1. IsWellFoundedOn(OpToRel(<, Nat), Nat)
  BY NatLessThanWellFounded
<1>2. PICK n \in S : \A m \in S : ~(<< m, n >> \in OpToRel(<, Nat))
  BY <1>1, WFMin
<1>3. ASSUME NEW m \in S PROVE n <= m
  <2>1. n \in Nat /\ m \in Nat
    OBVIOUS
  <2>2. ~(m < n)
    BY <1>2, <2>1 DEF OpToRel
  <2> QED BY <2>1, <2>2
<1> QED BY <1>3

(* The token list of a pool: not empty, no token twice.                    *)
LEMMA PoolShape ==
  ASSUME NEW P, GoodPool(P)
  PROVE  /\ P.tokens \in Configs /\ P.tokens \in Seq(Tokens) /\ P.gen \in Nat
         /\ Len(P.tokens) \in Nat \ {0} /\ Slots(P) = 1..Len(P.tokens)
         /\ P.flags \subseteq Slots(P)
         /\ \A i, j \in Slots(P) : P.tokens[i] = P.tokens[j] => i = j
         /\ \A i \in Slots(P) : P.tokens[i] \in ListSet(P.tokens) /\ P.tokens[i] \in Tokens
<1>1. P.tokens \in Configs /\ P.gen \in Nat
  BY DEF GoodPool, Pools
<1>2. /\ P.tokens \in Seq(Tokens) /\ P.tokens # << >>
      /\ \A i, j \in DOMAIN P.tokens : P.tokens[i] = P.tokens[j] => i = j
  BY <1>1, PoolConstants
<1>3. Len(P.tokens) \in Nat \ {0} /\ Slots(P) = 1..Len(P.tokens)
  BY <1>2 DEF Slots
<1>4. \A i \in Slots(P) : P.tokens[i] \in ListSet(P.tokens) /\ P.tokens[i] \in Tokens
  BY <1>2 DEF Slots, ListSet
<1> QED BY <1>1, <1>2, <1>3, <1>4 DEF GoodPool, Slots

LEMMA PoolFinite ==
  ASSUME NEW P, GoodPool(P), NEW S, S \subseteq P.flags
  PROVE  /\ IsFiniteSet(S) /\ Cardinality(S) \in Nat
         /\ Cardinality(S) <= Cardinality(P.flags) /\ Cardinality(P.flags) \in Nat
<1>1. IsFiniteSet(1..Len(P.tokens))
  BY PoolShape, FS_Interval
<1>2. P.flags \in SUBSET (1..Len(P.tokens))
  BY PoolShape
<1>3. IsFiniteSet(P.flags)
  BY <1>1, <1>2, FS_Subset
<1>4. S \in SUBSET P.flags
  OBVIOUS
<1>5. IsFiniteSet(S) /\ Cardinality(S) <= Cardinality(P.flags)
  BY <1>3, <1>4, FS_Subset
<1> QED BY <1>3, <1>5, FS_CardinalityType

(* As many flags as slots are all of them.                                 *)
LEMMA EnoughFlags ==
  ASSUME NEW P, GoodPool(P), Len(P.tokens) <= Cardinality(P.flags)
  PROVE  AllFlagged(P)
<1> DEFINE L == 1..Len(P.tokens)
<1>1. IsFiniteSet(L) /\ Cardinality(L) = Len(P.tokens) /\ Len(P.tokens) \in Nat
  BY PoolShape, FS_Interval
<1>2. P.flags \in SUBSET L /\ Slots(P) = L
  BY PoolShape
<1>3. Cardinality(P.flags) \in Nat
  BY PoolFinite
<1> HIDE DEF L
<1>4. Cardinality(P.flags) <= Cardinality(L) /\ (Cardinality(L) = Cardinality(P.flags) => L = P.flags)
  BY <1>1, <1>2, FS_Subset
<1> QED BY <1>1, <1>2, <1>3, <1>4 DEF AllFlagged

(* Marks only add flags to the same list.                                  *)
Grows(P, Q) ==
  /\ GoodPool(P) /\ GoodPool(Q)
  /\ Q.tokens = P.tokens /\ Q.gen = P.gen /\ P.flags \subseteq Q.flags

LEMMA FlagsGrow ==
  ASSUME NEW P, NEW Q, Grows(P, Q), NEW t
  PROVE  /\ AllFlagged(P) => AllFlagged(Q)
         /\ Cardinality(P.flags) \in Nat /\ Cardinality(Q.flags) \in Nat
         /\ Cardinality(P.flags) <= Cardinality(Q.flags)
         /\ Cardinality(Others(P, t)) \in Nat /\ Cardinality(Others(Q, t)) \in Nat
         /\ Cardinality(Others(P, t)) <= Cardinality(Others(Q, t))
<1>1. Others(P, t) \subseteq Others(Q, t) /\ Others(P, t) \subseteq P.flags /\ Others(Q, t) \subseteq Q.flags
  BY DEF Grows, Others
<1>2. GoodPool(P) /\ GoodPool(Q) /\ P.flags \subseteq Q.flags
  BY DEF Grows
<1>3. Cardinality(P.flags) <= Cardinality(Q.flags) /\ Cardinality(P.flags) \in Nat
      /\ Cardinality(Q.flags) \in Nat
  BY <1>2, PoolFinite
<1>4. IsFiniteSet(Others(Q, t)) /\ Cardinality(Others(Q, t)) \in Nat
  BY <1>1, <1>2, PoolFinite
<1>5. Cardinality(Others(P, t)) \in Nat
  BY <1>1, <1>2, PoolFinite
<1>6. Cardinality(Others(P, t)) <= Cardinality(Others(Q, t))
  BY <1>1, <1>4, FS_Subset
<1>7. AllFlagged(P) => AllFlagged(Q)
  BY DEF AllFlagged, Grows, Slots
<1> QED BY <1>3, <1>4, <1>5, <1>6, <1>7

(* A call keeps its invariant while others mark tokens.                    *)
LEMMA CallStays ==
  ASSUME NEW c, NEW p, NEW P, NEW Q, NEW R, NEW S,
         CallInv(c, p, P, R), Grows(P, Q), R \subseteq S
  PROVE  CallInv(c, p, Q, S)
<1>0. /\ Q.tokens = P.tokens /\ Q.gen = P.gen /\ Slots(P) = Slots(Q)
      /\ CallShape(c, p) /\ p \in CallRecords
  BY DEF Grows, Slots, CallInv, CallShape
<1>1. MarkInv(p, Q, S)
  BY <1>0 DEF CallInv, MarkInv
<1>2. GaveUpInv(p, Q, S)
  BY <1>0 DEF CallInv, GaveUpInv
<1>3. ASSUME TryInv(p, P) PROVE TryInv(p, Q)
  <2>0. p.tries \in Nat
    BY <1>0 DEF CallRecords
  <2>1. p.pc \in {"bearer", "rotate"} => AllFlagged(Q) \/ p.tries <= Cardinality(Q.flags)
    BY <1>3, <2>0, FlagsGrow DEF TryInv
  <2>2. p.pc \in Sent => AllFlagged(Q) \/ p.tries <= Cardinality(Others(Q, p.token))
    BY <1>3, <2>0, FlagsGrow DEF TryInv
  <2> QED BY <1>0, <1>3, <2>1, <2>2 DEF TryInv
<1> QED BY <1>0, <1>1, <1>2, <1>3 DEF CallInv

(* Every slot comes up within one round from any index.                    *)
LEMMA SlotsComeUp ==
  ASSUME NEW P, GoodPool(P), NEW n \in Nat
  PROVE  /\ SlotAt(P, n) \in Slots(P)
         /\ \A i \in Slots(P) : \E m \in n..(n + Len(P.tokens) - 1) : SlotAt(P, m) = i
<1> DEFINE L == Len(P.tokens)
<1>0. L \in Nat \ {0} /\ Slots(P) = 1..L
  BY PoolShape
<1>a. \A m : SlotAt(P, m) = (m % L) + 1
  BY DEF SlotAt
<1> HIDE DEF L
<1>2. n % L \in 0..(L - 1) /\ n \div L \in Nat /\ n = (n \div L) * L + (n % L)
  BY <1>0
<1>3. ASSUME NEW i \in 1..L
      PROVE  \E m \in n..(n + L - 1) : SlotAt(P, m) = i
  <2> DEFINE d == n \div L
             q == n % L
  <2>0. d \in Nat /\ q \in 0..(L - 1) /\ n = d * L + q /\ d * L \in Nat
    BY <1>0, <1>2
  <2> HIDE DEF d, q
  <2>j. PICK j \in Nat : j = i - 1 /\ j < L
    BY <1>0
  <2>1. CASE j >= q
    <3>1. (d * L + j) % L = j
      BY <1>0, <2>0, <2>j, Remainder
    <3>2. d * L + j \in n..(n + L - 1)
      BY <1>0, <2>0, <2>1, <2>j
    <3>3. SlotAt(P, d * L + j) = i
      BY <1>a, <2>j, <3>1
    <3> QED BY <3>2, <3>3
  <2>2. CASE j < q
    <3>0. d + 1 \in Nat /\ L \in Nat
      BY <1>0, <2>0
    <3>1. ((d + 1) * L + j) % L = j
      BY <3>0, <2>j, Remainder
    <3>2. (d + 1) * L = d * L + L
      BY <1>0, <2>0
    <3>3. (d + 1) * L + j \in n..(n + L - 1)
      BY <1>0, <2>0, <2>2, <2>j, <3>2
    <3>4. SlotAt(P, (d + 1) * L + j) = i
      BY <1>a, <2>j, <3>1
    <3> QED BY <3>3, <3>4
  <2> QED BY <2>0, <2>1, <2>2, <2>j, <1>0
<1>4. SlotAt(P, n) \in Slots(P)
  BY <1>0, <1>2, <1>a
<1> QED BY <1>0, <1>3, <1>4 DEF L

(* download_bearer returns a slot of the list, and one without a flag if   *)
(* there is one.                                                           *)
LEMMA BearerFact ==
  ASSUME NEW P, GoodPool(P), NEW cur \in Nat
  PROVE  /\ BearerSlot(P, cur) \in Slots(P)
         /\ AllFlagged(P) \/ BearerSlot(P, cur) \notin P.flags
<1> DEFINE usable == {n \in cur..(cur + Len(P.tokens) - 1) : SlotAt(P, n) \notin P.flags}
<1>0. Len(P.tokens) \in Nat \ {0} /\ usable \in SUBSET Nat
  BY PoolShape
<1>1. BearerSlot(P, cur) = IF usable = {} THEN SlotAt(P, cur)
                           ELSE SlotAt(P, CHOOSE n \in usable : \A m \in usable : n <= m)
  BY DEF BearerSlot
<1>2. CASE usable = {}
  <2>1. ASSUME NEW i \in Slots(P) PROVE i \in P.flags
    <3>1. PICK m \in cur..(cur + Len(P.tokens) - 1) : SlotAt(P, m) = i
      BY SlotsComeUp
    <3> QED BY <1>2, <3>1
  <2> QED BY <1>1, <1>2, <2>1, SlotsComeUp DEF AllFlagged
<1>3. CASE usable # {}
  <2> DEFINE n == CHOOSE n \in usable : \A m \in usable : n <= m
  <2>1. \E k \in usable : \A m \in usable : k <= m
    BY <1>0, <1>3, LeastNumber
  <2>2. n \in usable
    BY <2>1
  <2>3. n \in Nat /\ SlotAt(P, n) \notin P.flags
    BY <1>0, <2>2
  <2> HIDE DEF n
  <2>4. SlotAt(P, n) \in Slots(P)
    BY <2>3, SlotsComeUp
  <2> QED BY <1>1, <1>3, <2>3, <2>4 DEF n
<1> QED BY <1>2, <1>3

LEMMA EligibleFact ==
  ASSUME NEW P, GoodPool(P), AnyNonExhausted(P)
  PROVE  FirstEligible(P) \in Slots(P)
<1> DEFINE S == Slots(P) \ P.flags
<1>1. S \in SUBSET Nat /\ S # {}
  BY PoolShape DEF AnyNonExhausted
<1>2. \E i \in S : \A j \in S : i <= j
  BY <1>1, LeastNumber
<1> QED BY <1>2 DEF FirstEligible

(* mark_exhausted finds the slot of the token, if it is in the list.       *)
LEMMA SlotOfFact ==
  ASSUME NEW P, GoodPool(P), NEW t
  PROVE  /\ SlotOf(P, t) \in Nat
         /\ SlotOf(P, t) # 0 => SlotOf(P, t) \in Slots(P) /\ P.tokens[SlotOf(P, t)] = t
         /\ t \in ListSet(P.tokens) => SlotOf(P, t) # 0
<1>0. Slots(P) \subseteq Nat \ {0}
  BY PoolShape
<1>1. CASE t \in ListSet(P.tokens)
  <2>1. \E i \in Slots(P) : P.tokens[i] = t
    BY <1>1 DEF ListSet, Slots
  <2>2. SlotOf(P, t) \in Slots(P) /\ P.tokens[SlotOf(P, t)] = t
    BY <1>1, <2>1 DEF SlotOf
  <2> QED BY <1>0, <2>2
<1>2. CASE t \notin ListSet(P.tokens)
  BY <1>2 DEF SlotOf
<1> QED BY <1>1, <1>2

----------------------------------------------------------------------------
(* The steps of the calls.                                                 *)
LEMMA CallMoves ==
  ASSUME TokenInv, NEW c \in Callers, NEW x, calls' = [calls EXCEPT ![c] = x],
         Grows(pool, pool'), refused \subseteq refused', CauseInv(pool', refused'),
         current' \in Nat, CallInv(c, x, pool', refused')
  PROVE  TokenInv'
<1>1. calls \in [Callers -> CallRecords] /\ x \in CallRecords
  BY DEF TokenInv, CallInv, CallShape
<1>2. calls' \in [Callers -> CallRecords]
  BY <1>1
<1>3. ASSUME NEW d \in Callers PROVE CallInv(d, calls'[d], pool', refused')
  <2>1. CASE d = c
    BY <2>1, <1>1
  <2>2. CASE d # c
    <3>1. calls'[d] = calls[d] /\ CallInv(d, calls[d], pool, refused)
      BY <2>2, <1>1 DEF TokenInv
    <3>2. CallInv(d, calls[d], pool', refused')
      BY <3>1, CallStays
    <3> QED BY <3>1, <3>2
  <2> QED BY <2>1, <2>2
<1>4. GoodPool(pool')
  BY DEF Grows
<1> QED BY <1>2, <1>3, <1>4 DEF TokenInv

(* The same for a step that leaves the pool alone.                         *)
LEMMA CallMovesAlone ==
  ASSUME TokenInv, NEW c \in Callers, NEW x, calls' = [calls EXCEPT ![c] = x],
         pool' = pool, refused' = refused, current' \in Nat, CallInv(c, x, pool, refused)
  PROVE  TokenInv'
<1>1. Grows(pool, pool') /\ CauseInv(pool', refused')
  BY DEF TokenInv, Grows
<1> QED BY <1>1, CallMoves

(* A call that has not begun, or has begun as unrestrict_link.             *)
LEMMA IdleCall ==
  ASSUME NEW c \in Callers, NEW P, NEW R
  PROVE  CallInv(c, NoCall, P, R) /\ NoCall \in CallRecords
<1>1. NoCall \in CallRecords
  BY DEF NoCall, CallRecords, PostPcs
<1>2. NoCall.pc = "idle" /\ NoCall.res = "none" /\ NoCall.sends = 0
  BY DEF NoCall
<1>3. CallShape(c, NoCall)
  BY <1>1, <1>2 DEF CallShape, PostPcs, GetPcs
<1>4. MarkInv(NoCall, P, R) /\ GaveUpInv(NoCall, P, R) /\ SendInv(NoCall) /\ TryInv(NoCall, P)
  BY <1>2 DEF MarkInv, GaveUpInv, SendInv, TryInv, Sent
<1> QED BY <1>1, <1>3, <1>4 DEF CallInv

LEMMA PostCall ==
  ASSUME NEW c \in Unrestricters, NEW x \in CallRecords, NEW P, NEW R,
         x.pc \in {"pick", "lookup", "wait", "insert"}, x.res = "none"
  PROVE  CallInv(c, x, P, R)
<1>1. CallShape(c, x)
  BY PoolConstants DEF CallShape, PostPcs
<1>2. MarkInv(x, P, R) /\ GaveUpInv(x, P, R)
  BY DEF MarkInv, GaveUpInv
<1>3. c \notin Fetchers
  BY PoolConstants
<1> QED BY <1>1, <1>2, <1>3 DEF CallInv

(* A call that ends; for want of bandwidth only when all was refused.      *)
LEMMA EndedCall ==
  ASSUME TokenInv, NEW c \in Callers, NEW res \in {"ok", "error", "fatal", "bandwidth"},
         res = "bandwidth" /\ calls[c].calm => ListSet(pool.tokens) \subseteq refused
  PROVE  CallInv(c, Ended(c, res), pool, refused)
<1> DEFINE x == Ended(c, res)
           k == calls[c].calm \/ res # "bandwidth"
<1>0. k \in BOOLEAN /\ x = [NoCall EXCEPT !.pc = "done", !.res = res, !.calm = k]
  BY DEF Ended
<1>1. k /\ res = "bandwidth" => ListSet(pool.tokens) \subseteq refused
  OBVIOUS
<1> HIDE DEF k, x
<1>2. x \in CallRecords
  BY <1>0 DEF NoCall, CallRecords, PostPcs
<1>3. x.pc = "done" /\ x.res = res /\ x.sends = 0
  BY <1>0 DEF NoCall
<1>4. x.calm <=> k
  BY <1>0 DEF NoCall
<1>5. CallShape(c, x)
  BY <1>2, <1>3 DEF CallShape, PostPcs, GetPcs
<1>6. MarkInv(x, pool, refused) /\ SendInv(x) /\ TryInv(x, pool)
  BY <1>3 DEF MarkInv, SendInv, TryInv, Sent
<1>7. GaveUpInv(x, pool, refused)
  BY <1>1, <1>3, <1>4 DEF GaveUpInv
<1>8. CallInv(c, x, pool, refused)
  BY <1>5, <1>6, <1>7 DEF CallInv
<1> QED BY <1>8 DEF x

LEMMA EndsWell ==
  ASSUME TokenInv, NEW c \in Callers, NEW res \in {"ok", "error", "fatal"},
         Set(c, Ended(c, res)), pool' = pool, refused' = refused, current' = current
  PROVE  TokenInv'
<1>1. CallInv(c, Ended(c, res), pool, refused)
  BY EndedCall
<1>2. calls' = [calls EXCEPT ![c] = Ended(c, res)] /\ current' \in Nat
  BY DEF Set, TokenInv
<1> QED BY <1>1, <1>2, CallMovesAlone

LEMMA EndsRefused ==
  ASSUME TokenInv, NEW c \in Callers, calls[c].calm => AllFlagged(pool),
         Set(c, Ended(c, "bandwidth")), pool' = pool, refused' = refused, current' = current
  PROVE  TokenInv'
<1>1. AllFlagged(pool) => ListSet(pool.tokens) \subseteq refused
  BY DEF TokenInv, CauseInv, AllFlagged, ListSet, Slots
<1>2. CallInv(c, Ended(c, "bandwidth"), pool, refused)
  BY <1>1, EndedCall
<1>3. calls' = [calls EXCEPT ![c] = Ended(c, "bandwidth")] /\ current' \in Nat
  BY DEF Set, TokenInv
<1> QED BY <1>2, <1>3, CallMovesAlone

(* What is known of a call before its step.                                *)
LEMMA CallKnown ==
  ASSUME TokenInv, NEW c \in Callers
  PROVE  /\ calls[c] \in CallRecords /\ CallInv(c, calls[c], pool, refused)
         /\ GoodPool(pool) /\ current \in Nat
         /\ calls[c].pc # "done" => calls[c].res = "none"
         /\ calls[c].pc \in {"pick", "lookup", "insert"} => c \in Unrestricters
         /\ calls[c].pc \in {"bearer", "store", "rotate"} => c \in Fetchers
BY DEF TokenInv, CallInv, CallShape, Callers, PostPcs, GetPcs

(* unrestrict_link.                                                        *)
LEMMA PostKeeps ==
  ASSUME TokenInv, NEW c \in Callers,
         \/ c \in Unrestricters /\ UnrestrictLink(c)
         \/ Pick(c) \/ CacheLookup(c) \/ CacheInsert(c) \/ PostOk(c) \/ PostFails(c) \/ PostBusy(c)
  PROVE  TokenInv'
<1> DEFINE p == calls[c]
<1>0. /\ p \in CallRecords /\ GoodPool(pool) /\ current \in Nat
      /\ p.pc # "done" => p.res = "none"
      /\ p.pc \in {"pick", "lookup", "insert"} => c \in Unrestricters
  BY CallKnown
<1>1. pool' = pool /\ refused' = refused /\ current' = current
  BY DEF UnrestrictLink, Pick, CacheLookup, CacheInsert, PostOk, PostFails, PostBusy, poolVars
<1>2. ASSUME NEW x \in CallRecords, x.pc \in {"pick", "lookup", "wait", "insert"}, x.res = "none",
             c \in Unrestricters, Set(c, x)
      PROVE  TokenInv'
  <2>1. CallInv(c, x, pool, refused)
    BY <1>2, PostCall
  <2>2. calls' = [calls EXCEPT ![c] = x] /\ current' \in Nat
    BY <1>0, <1>1, <1>2 DEF Set
  <2> QED BY <1>1, <2>1, <2>2, CallMovesAlone
<1>3. CASE c \in Unrestricters /\ UnrestrictLink(c)
  <2> DEFINE x == [NoCall EXCEPT !.pc = "pick"]
  <2>1. x \in CallRecords /\ x.pc = "pick" /\ x.res = "none"
    BY DEF NoCall, CallRecords, PostPcs
  <2>2. Set(c, x)
    BY <1>3 DEF UnrestrictLink
  <2> QED BY <1>2, <1>3, <2>1, <2>2
<1>4. CASE Pick(c)
  <2>0. p.pc = "pick" /\ c \in Unrestricters /\ p.res = "none"
    BY <1>0, <1>4 DEF Pick
  <2>1. CASE AnyNonExhausted(pool)
    <3> DEFINE t == pool.tokens[FirstEligible(pool)]
               x == [p EXCEPT !.pc = "lookup", !.token = t]
    <3>1. t \in Tokens
      BY <1>0, <2>1, EligibleFact, PoolShape
    <3>2. Set(c, x)
      BY <1>4, <2>1 DEF Pick
    <3> HIDE DEF t
    <3>3. x \in CallRecords /\ x.pc = "lookup" /\ x.res = "none"
      BY <1>0, <2>0, <3>1 DEF CallRecords, PostPcs
    <3> HIDE DEF x
    <3> QED BY <1>2, <2>0, <3>2, <3>3
  <2>2. CASE ~AnyNonExhausted(pool)
    <3>1. Set(c, Ended(c, "bandwidth"))
      BY <1>4, <2>2 DEF Pick
    <3>2. AllFlagged(pool)
      BY <2>2 DEF AnyNonExhausted, AllFlagged
    <3> QED BY <1>1, <3>1, <3>2, EndsRefused
  <2> QED BY <2>1, <2>2
<1>5. CASE CacheLookup(c)
  <2>0. p.pc = "lookup" /\ c \in Unrestricters /\ p.res = "none"
    BY <1>0, <1>5 DEF CacheLookup
  <2>1. CASE p.token \in ucache
    BY <1>1, <1>5, <2>1, EndsWell DEF CacheLookup
  <2>2. CASE p.token \notin ucache
    <3> DEFINE x == [p EXCEPT !.pc = "wait", !.attempt = 0]
    <3>1. x \in CallRecords /\ x.pc = "wait" /\ x.res = "none"
      BY <1>0, <2>0 DEF CallRecords, PostPcs
    <3>2. Set(c, x)
      BY <1>5, <2>2 DEF CacheLookup
    <3> HIDE DEF x
    <3> QED BY <1>2, <2>0, <3>1, <3>2
  <2> QED BY <2>1, <2>2
<1>6. CASE CacheInsert(c)
  BY <1>1, <1>6, EndsWell DEF CacheInsert
<1>7. CASE PostOk(c)
  <2> DEFINE x == [p EXCEPT !.pc = "insert"]
  <2>1. x \in CallRecords /\ x.pc = "insert" /\ x.res = "none" /\ c \in Unrestricters /\ Set(c, x)
    BY <1>0, <1>7 DEF PostOk, CallRecords, PostPcs
  <2> HIDE DEF x
  <2> QED BY <1>2, <2>1
<1>8. ASSUME NEW n \in Nat, c \in Unrestricters, p.pc = "wait", Set(c, [p EXCEPT !.attempt = n])
      PROVE  TokenInv'
  <2> DEFINE x == [p EXCEPT !.attempt = n]
  <2>1. x \in CallRecords /\ x.pc = "wait" /\ x.res = "none" /\ Set(c, x)
    BY <1>0, <1>8 DEF CallRecords
  <2> HIDE DEF x
  <2> QED BY <1>2, <1>8, <2>1
<1>9. p.attempt \in Nat /\ p.attempt + 1 \in Nat
  BY <1>0 DEF CallRecords
<1>10. CASE PostFails(c)
  <2>0. c \in Unrestricters /\ p.pc = "wait"
    BY <1>10 DEF PostFails
  <2>1. \/ Set(c, [p EXCEPT !.attempt = p.attempt + 1])
        \/ Set(c, Ended(c, "error")) \/ Set(c, Ended(c, "fatal"))
    BY <1>10 DEF PostFails
  <2> QED BY <1>1, <1>8, <1>9, <2>0, <2>1, EndsWell
<1>11. CASE PostBusy(c)
  <2>0. c \in Unrestricters /\ p.pc = "wait"
    BY <1>11 DEF PostBusy
  <2> DEFINE n == IF p.attempt < MaxRetries THEN p.attempt + 1 ELSE p.attempt
  <2>1. Set(c, [p EXCEPT !.attempt = n]) /\ n \in Nat
    BY <1>9, <1>11 DEF PostBusy
  <2> HIDE DEF n
  <2> QED BY <1>8, <2>0, <2>1
<1> QED BY <1>3, <1>4, <1>5, <1>6, <1>7, <1>10, <1>11

(* A call of http_range_get, put together from its parts.                  *)
LEMMA GetCall ==
  ASSUME NEW c \in Fetchers, NEW x \in CallRecords, NEW P, NEW R,
         x.pc \in GetPcs, x.pc \notin {"idle", "done"}, x.res = "none",
         x.pc = "store" => x.slot > 0,
         MarkInv(x, P, R), SendInv(x), x.calm => TryInv(x, P)
  PROVE  CallInv(c, x, P, R)
<1>1. CallShape(c, x)
  BY PoolConstants DEF CallShape
<1>2. GaveUpInv(x, P, R)
  BY DEF GaveUpInv
<1> QED BY <1>1, <1>2 DEF CallInv

(* `execute` begins, with the number of tokens the pool has now.           *)
LEMMA ExecuteRecord ==
  ASSUME GoodPool(pool), NEW p \in CallRecords, p.res = "none"
  PROVE  LET y == Execute(p)
         IN  /\ y \in CallRecords /\ y.pc = "bearer" /\ y.max = Len(pool.tokens)
             /\ y.attempt = 0 /\ y.tries = 0 /\ y.sends = 0 /\ y.res = "none"
             /\ ~y.fallback
<1> DEFINE L == Len(pool.tokens)
           y == Execute(p)
           z == [p EXCEPT !.pc = "bearer", !.max = L, !.attempt = 0, !.tries = 0]
<1>0. L \in Nat
  BY PoolShape
<1>1. y = [p EXCEPT !.pc = "bearer", !.max = L, !.attempt = 0, !.tries = 0,
                    !.fallback = FALSE, !.sends = 0]
  BY DEF Execute
<1> HIDE DEF L, y
<1>2. z \in CallRecords
  BY <1>0 DEF CallRecords, GetPcs
<1>3. y = [z EXCEPT !.fallback = FALSE, !.sends = 0]
  BY <1>1 DEF CallRecords
<1>4. y \in CallRecords
  <2> HIDE DEF z
  <2> QED BY <1>2, <1>3 DEF CallRecords
<1>5. /\ y.pc = "bearer" /\ y.max = L /\ y.attempt = 0 /\ y.tries = 0 /\ y.sends = 0
      /\ y.res = "none"
  BY <1>1 DEF CallRecords
<1>6. ~y.fallback
  BY <1>1 DEF CallRecords
<1> QED BY <1>4, <1>5, <1>6 DEF L, y

LEMMA ExecuteBegins ==
  ASSUME GoodPool(pool), NEW c \in Fetchers, NEW x \in CallRecords,
         x.pc = "bearer", x.max = Len(pool.tokens), x.attempt = 0, x.tries = 0, x.sends = 0,
         x.res = "none", ~x.fallback
  PROVE  CallInv(c, x, pool, refused)
<1>0. Len(pool.tokens) \in Nat \ {0}
  BY PoolShape
<1>1. MarkInv(x, pool, refused)
  BY DEF MarkInv
<1>2. SendInv(x)
  BY <1>0, PoolConstants DEF SendInv, Extra, Sent
<1>3. Cardinality(pool.flags) \in Nat
  BY PoolFinite
<1>4. TryInv(x, pool)
  BY <1>3 DEF TryInv, Sent
<1>5. x.pc \in GetPcs /\ x.pc \notin {"idle", "done"} /\ x.pc # "store"
  BY DEF GetPcs
<1> QED BY <1>1, <1>2, <1>4, <1>5, GetCall

(* The invariant parts of a call that fetches.                             *)
LEMMA GetKnown ==
  ASSUME TokenInv, NEW c \in Fetchers
  PROVE  /\ calls[c] \in CallRecords /\ GoodPool(pool) /\ current \in Nat
         /\ MarkInv(calls[c], pool, refused) /\ SendInv(calls[c])
         /\ calls[c].calm => TryInv(calls[c], pool)
         /\ calls[c].pc = "store" => calls[c].slot > 0
         /\ calls[c].pc # "done" => calls[c].res = "none"
BY DEF TokenInv, CallInv, CallShape, Callers

(* The fields that a step of a fetch mostly leaves alone.                  *)
Keeps(p, x) ==
  /\ x.tries = p.tries /\ x.max = p.max /\ x.res = p.res
  /\ x.calm = p.calm

(* download_bearer: the slot it returns is not one the call has used, if   *)
(* there is another.                                                       *)
LEMMA BearerKeeps ==
  ASSUME TokenInv, NEW c \in Callers, DownloadBearer(c)
  PROVE  TokenInv'
<1> DEFINE p == calls[c]
           slot == BearerSlot(pool, current)
           same == slot = SlotAt(pool, current)
           s == IF same THEN 0 ELSE slot
           pc == IF same THEN "wait" ELSE "store"
           t == pool.tokens[slot]
           x == [p EXCEPT !.pc = pc, !.token = t, !.slot = s, !.sends = @ + 1]
<1>0. c \in Fetchers /\ p.pc = "bearer"
  BY CallKnown DEF DownloadBearer
<1>1. /\ p \in CallRecords /\ GoodPool(pool) /\ current \in Nat /\ SendInv(p)
      /\ p.calm => TryInv(p, pool)
      /\ p.res = "none"
  BY <1>0, GetKnown
<1>2. slot \in Slots(pool) /\ (AllFlagged(pool) \/ slot \notin pool.flags)
  BY <1>1, BearerFact
<1>3. /\ calls' = [calls EXCEPT ![c] = x] /\ pool' = pool /\ refused' = refused
      /\ current' \in Nat
  BY <1>1 DEF DownloadBearer, Set, poolVars
<1>4. t \in ListSet(pool.tokens) /\ t \in Tokens /\ slot \in Nat \ {0}
  BY <1>1, <1>2, PoolShape
<1>5. s \in Nat /\ pc \in {"wait", "store"} /\ (pc = "store" => s > 0)
  BY <1>4
<1>6. AllFlagged(pool) \/ Others(pool, t) = pool.flags
  BY <1>1, <1>2, PoolShape DEF Others
<1> HIDE DEF s, pc, t, slot, same
<1>7. x \in CallRecords
  <2>1. p.sends + 1 \in Nat
    BY <1>1 DEF CallRecords
  <2>2. \A n \in Nat : [p EXCEPT !.pc = pc, !.token = t, !.slot = s, !.sends = n] \in CallRecords
    BY <1>1, <1>4, <1>5 DEF CallRecords, GetPcs
  <2> QED BY <2>1, <2>2
<1>8. /\ x.pc = pc /\ x.token = t /\ x.slot = s /\ x.sends = p.sends + 1 /\ x.attempt = p.attempt
      /\ Keeps(p, x)
  BY <1>1 DEF CallRecords, Keeps
<1>9. x.fallback = p.fallback
  BY <1>1 DEF CallRecords
<1> HIDE DEF x
<1>10. MarkInv(x, pool, refused)
  BY <1>5, <1>8 DEF MarkInv
<1>11. SendInv(x)
  <2>1. p.tries * (MaxRetries + 1) \in Nat /\ p.sends \in Nat /\ p.attempt \in Nat /\ Extra(p) \in Nat
    BY <1>1, PoolConstants DEF CallRecords, Extra
  <2>2. Extra(x) = Extra(p)
    BY <1>9 DEF Extra
  <2> QED BY <1>0, <1>1, <1>5, <1>8, <2>1, <2>2 DEF SendInv, Sent, Keeps
<1>12. ASSUME x.calm PROVE TryInv(x, pool)
  <2>1. TryInv(p, pool)
    BY <1>1, <1>8, <1>12 DEF Keeps
  <2>2. x.max = Len(pool.tokens) /\ (AllFlagged(pool) \/ x.tries <= Cardinality(pool.flags))
    BY <1>0, <1>8, <2>1 DEF TryInv, Keeps
  <2>3. AllFlagged(pool) \/ x.tries <= Cardinality(Others(pool, t))
    BY <1>6, <2>2
  <2> QED BY <1>4, <1>5, <1>8, <2>2, <2>3 DEF TryInv
<1>13. CallInv(c, x, pool, refused)
  BY <1>0, <1>1, <1>5, <1>7, <1>8, <1>10, <1>11, <1>12, GetCall DEF GetPcs, Keeps
<1> QED BY <1>3, <1>13, CallMovesAlone

(* A step of a fetch that keeps what was sent and what was tried.          *)
LEMMA SentKeeps ==
  ASSUME TokenInv, NEW c \in Fetchers, calls[c].pc \in {"store", "wait"},
         NEW x \in CallRecords, x.pc = "wait", Keeps(calls[c], x), x.token = calls[c].token,
         x.sends = calls[c].sends, x.attempt = calls[c].attempt, x.fallback = calls[c].fallback,
         calls' = [calls EXCEPT ![c] = x], pool' = pool, refused' = refused, current' \in Nat
  PROVE  TokenInv'
<1> DEFINE p == calls[c]
<1>1. /\ p \in CallRecords /\ GoodPool(pool) /\ SendInv(p)
      /\ p.calm => TryInv(p, pool)
      /\ p.res = "none"
  BY GetKnown
<1>2. MarkInv(x, pool, refused)
  BY DEF MarkInv
<1>3. SendInv(x)
  BY <1>1 DEF SendInv, Sent, Keeps, Extra
<1>4. x.calm => TryInv(x, pool)
  BY <1>1 DEF TryInv, Sent, Keeps
<1>5. CallInv(c, x, pool, refused)
  BY <1>1, <1>2, <1>3, <1>4, GetCall DEF GetPcs, Keeps
<1> QED BY <1>5, CallMovesAlone DEF Callers

LEMMA StoreKeeps ==
  ASSUME TokenInv, NEW c \in Callers, StoreCurrent(c)
  PROVE  TokenInv'
<1> DEFINE p == calls[c]
           x == [p EXCEPT !.pc = "wait", !.slot = 0]
<1>0. c \in Fetchers /\ p.pc = "store"
  BY CallKnown DEF StoreCurrent
<1>1. p \in CallRecords /\ p.slot \in Nat /\ p.slot > 0
  BY <1>0, GetKnown DEF CallRecords
<1>2. /\ calls' = [calls EXCEPT ![c] = x] /\ pool' = pool /\ refused' = refused
      /\ current' = p.slot - 1
  BY DEF StoreCurrent, Set
<1>3. x \in CallRecords /\ x.pc = "wait"
  BY <1>1 DEF CallRecords, GetPcs
<1>4. x.token = p.token /\ x.sends = p.sends /\ x.attempt = p.attempt /\ Keeps(p, x)
  BY <1>1 DEF CallRecords, Keeps
<1>5. x.fallback = p.fallback
  BY <1>1 DEF CallRecords
<1>6. current' \in Nat
  BY <1>1, <1>2
<1> HIDE DEF x
<1> QED BY <1>0, <1>2, <1>3, <1>4, <1>5, <1>6, SentKeeps

(* Another request with the bearer of the moment.                          *)
LEMMA BearerAgain ==
  ASSUME TokenInv, NEW c \in Fetchers, NEW x \in CallRecords, x.pc = "bearer",
         Keeps(calls[c], x), calls[c].res = "none", SendInv(x),
         calls[c].pc \in {"wait", "rotate"},
         calls' = [calls EXCEPT ![c] = x], pool' = pool, refused' = refused, current' \in Nat
  PROVE  TokenInv'
<1> DEFINE p == calls[c]
<1>1. GoodPool(pool) /\ p \in CallRecords /\ (p.calm => TryInv(p, pool))
  BY GetKnown
<1>2. MarkInv(x, pool, refused)
  BY DEF MarkInv
<1>3. ASSUME x.calm PROVE TryInv(x, pool)
  <2>1. TryInv(p, pool) /\ p.tries \in Nat
    BY <1>1, <1>3 DEF Keeps, CallRecords
  <2>2. Others(pool, p.token) \subseteq pool.flags
    BY DEF Others
  <2>3. /\ Cardinality(Others(pool, p.token)) <= Cardinality(pool.flags)
        /\ Cardinality(Others(pool, p.token)) \in Nat /\ Cardinality(pool.flags) \in Nat
    BY <1>1, <2>2, PoolFinite
  <2>4. AllFlagged(pool) \/ p.tries <= Cardinality(pool.flags)
    BY <2>1, <2>3 DEF TryInv, Sent
  <2> QED BY <2>1, <2>4 DEF TryInv, Sent, Keeps
<1>4. CallInv(c, x, pool, refused)
  BY <1>1, <1>2, <1>3, GetCall DEF GetPcs, Keeps
<1> QED BY <1>4, CallMovesAlone DEF Callers

LEMMA NetworkErrorKeeps ==
  ASSUME TokenInv, NEW c \in Callers, GetNetworkError(c)
  PROVE  TokenInv'
<1> DEFINE p == calls[c]
<1>0. c \in Fetchers /\ p.pc = "wait"
  BY DEF GetNetworkError
<1>1. p \in CallRecords /\ SendInv(p) /\ p.res = "none" /\ current \in Nat
  BY <1>0, GetKnown
<1>2. pool' = pool /\ refused' = refused /\ current' = current
  BY DEF GetNetworkError, poolVars
<1>3. /\ p.tries < p.max /\ p.attempt <= MaxRetries
      /\ p.sends <= Extra(p) + p.tries * (MaxRetries + 1) + p.attempt + 1
  BY <1>0, <1>1 DEF SendInv, Sent
<1>4. /\ p.tries * (MaxRetries + 1) \in Nat /\ p.sends \in Nat /\ p.attempt \in Nat
      /\ p.tries \in Nat /\ p.max \in Nat /\ MaxRetries \in Nat
  BY <1>1, PoolConstants DEF CallRecords
<1>5. CASE MayFallBack(p)
  <2> DEFINE x == [p EXCEPT !.pc = "bearer", !.fallback = TRUE]
  <2>1. calls' = [calls EXCEPT ![c] = x]
    BY <1>5 DEF GetNetworkError, Set
  <2>2. x \in CallRecords /\ x.pc = "bearer"
    BY <1>1 DEF CallRecords, GetPcs
  <2>3. x.sends = p.sends /\ x.attempt = p.attempt /\ Keeps(p, x)
    BY <1>1 DEF CallRecords, Keeps
  <2>4. x.fallback
    BY <1>1 DEF CallRecords
  <2>5. Extra(x) = 1 /\ Extra(p) = 0 /\ p.attempt = 0
    BY <1>5, <2>4 DEF Extra, MayFallBack
  <2> HIDE DEF x
  <2>6. SendInv(x)
    BY <1>3, <1>4, <2>2, <2>3, <2>5 DEF SendInv, Sent, Keeps
  <2> QED BY <1>0, <1>1, <1>2, <2>1, <2>2, <2>3, <2>6, BearerAgain
<1>6. CASE ~MayFallBack(p) /\ p.attempt < MaxRetries
  <2> DEFINE n == p.attempt + 1
             x == [p EXCEPT !.pc = "bearer", !.attempt = n]
  <2>1. calls' = [calls EXCEPT ![c] = x]
    BY <1>6 DEF GetNetworkError, Set
  <2>2. n \in Nat /\ n <= MaxRetries
    BY <1>4, <1>6
  <2> HIDE DEF n
  <2>3. x \in CallRecords /\ x.pc = "bearer"
    BY <1>1, <2>2 DEF CallRecords, GetPcs
  <2>4. x.sends = p.sends /\ x.attempt = n /\ Keeps(p, x)
    BY <1>1 DEF CallRecords, Keeps
  <2>5. x.fallback = p.fallback
    BY <1>1 DEF CallRecords
  <2> HIDE DEF x
  <2>6. Extra(x) = Extra(p) /\ Extra(p) \in Nat
    BY <2>5 DEF Extra
  <2>7. SendInv(x)
    BY <1>3, <1>4, <2>2, <2>3, <2>4, <2>6 DEF SendInv, Sent, Keeps, n
  <2> QED BY <1>0, <1>1, <1>2, <2>1, <2>3, <2>4, <2>7, BearerAgain
<1>7. CASE ~MayFallBack(p) /\ ~(p.attempt < MaxRetries)
  <2>1. Set(c, Ended(c, "error"))
    BY <1>7 DEF GetNetworkError
  <2> QED BY <1>2, <2>1, EndsWell
<1> QED BY <1>5, <1>6, <1>7

(* After a refusal: on with the next token, or the end.                    *)
LEMMA RotateKeeps ==
  ASSUME TokenInv, NEW c \in Callers, Rotate(c)
  PROVE  TokenInv'
<1> DEFINE p == calls[c]
<1>0. c \in Fetchers /\ p.pc = "rotate"
  BY CallKnown DEF Rotate
<1>1. /\ p \in CallRecords /\ SendInv(p) /\ p.res = "none" /\ current \in Nat /\ GoodPool(pool)
      /\ p.calm => TryInv(p, pool)
  BY <1>0, GetKnown
<1>2. pool' = pool /\ refused' = refused /\ current' = current
  BY DEF Rotate, poolVars
<1>3. CASE MayRotate(p) /\ AnyNonExhausted(pool)
  <2> DEFINE x == [p EXCEPT !.pc = "bearer", !.attempt = 0]
  <2>1. calls' = [calls EXCEPT ![c] = x]
    BY <1>3 DEF Rotate, Set
  <2>3. x \in CallRecords /\ x.pc = "bearer"
    BY <1>1 DEF CallRecords, GetPcs
  <2>4. x.sends = p.sends /\ x.attempt = 0 /\ Keeps(p, x)
    BY <1>1 DEF CallRecords, Keeps
  <2>5. x.fallback = p.fallback
    BY <1>1 DEF CallRecords
  <2> HIDE DEF x
  <2>6. Extra(x) = Extra(p) /\ Extra(p) \in Nat
    BY <2>5 DEF Extra
  <2>7. p.tries < p.max /\ p.sends <= Extra(p) + p.tries * (MaxRetries + 1)
    BY <1>0, <1>1, <1>3 DEF SendInv, MayRotate
  <2>8. p.tries * (MaxRetries + 1) \in Nat /\ p.sends \in Nat /\ MaxRetries \in Nat
    BY <1>1, PoolConstants DEF CallRecords
  <2>9. SendInv(x)
    BY <2>3, <2>4, <2>6, <2>7, <2>8 DEF SendInv, Sent, Keeps
  <2> QED BY <1>0, <1>1, <1>2, <2>1, <2>3, <2>4, <2>9, BearerAgain
<1>4. CASE ~(MayRotate(p) /\ AnyNonExhausted(pool))
  <2>1. Set(c, Ended(c, "bandwidth"))
    BY <1>4 DEF Rotate
  <2>2. CASE ~AnyNonExhausted(pool)
    BY <1>2, <2>1, <2>2, EndsRefused DEF AnyNonExhausted, AllFlagged
  <2>3. CASE ~MayRotate(p)
    <3>1. ASSUME p.calm PROVE AllFlagged(pool)
      <4>1. /\ p.max = Len(pool.tokens)
            /\ AllFlagged(pool) \/ p.tries <= Cardinality(pool.flags)
        BY <1>0, <1>1, <3>1 DEF TryInv
      <4>2. p.tries \in Nat /\ p.max \in Nat /\ ~(p.tries < p.max)
        BY <1>1, <2>3 DEF CallRecords, MayRotate
      <4>3. Cardinality(pool.flags) \in Nat
        BY <1>1, PoolFinite
      <4> QED BY <1>1, <4>1, <4>2, <4>3, EnoughFlags
    <3> QED BY <1>2, <2>1, <3>1, EndsRefused
  <2> QED BY <1>4, <2>2, <2>3
<1> QED BY <1>3, <1>4

(* http_range_get begins, or ends, or begins `execute` again.              *)
LEMMA GetKeeps ==
  ASSUME TokenInv, NEW c \in Callers,
         \/ c \in Fetchers /\ HttpRangeGet(c)
         \/ GetOk(c) \/ GetFails(c) \/ GetNoContentRange(c)
  PROVE  TokenInv'
<1> DEFINE p == calls[c]
<1>0. /\ pool' = pool /\ refused' = refused /\ current' = current /\ current' \in Nat
      /\ c \in Fetchers
  BY DEF HttpRangeGet, GetOk, GetFails, GetNoContentRange, poolVars, TokenInv
<1>1. p \in CallRecords /\ GoodPool(pool) /\ (p.pc # "done" => p.res = "none")
  BY <1>0, GetKnown
<1>2. CASE HttpRangeGet(c)
  <2>1. NoCall \in CallRecords /\ NoCall.res = "none"
    BY IdleCall DEF NoCall
  <2>3. CallInv(c, Execute(NoCall), pool, refused)
    BY <1>0, <1>1, <2>1, ExecuteRecord, ExecuteBegins
  <2>4. calls' = [calls EXCEPT ![c] = Execute(NoCall)]
    BY <1>2 DEF HttpRangeGet, Set
  <2> QED BY <1>0, <2>3, <2>4, CallMovesAlone
<1>3. CASE GetOk(c) \/ GetFails(c)
  BY <1>0, <1>3, EndsWell DEF GetOk, GetFails
<1>4. CASE GetNoContentRange(c)
  <2>1. CASE p.ranges < MaxRetries
    <3> DEFINE y == Execute(p)
               n == y.ranges + 1
               x == [y EXCEPT !.ranges = n]
    <3>1. calls' = [calls EXCEPT ![c] = x] /\ p.res = "none"
      BY <1>1, <1>4, <2>1 DEF GetNoContentRange, Set
    <3>2. /\ y \in CallRecords /\ y.pc = "bearer" /\ y.max = Len(pool.tokens)
          /\ y.attempt = 0 /\ y.tries = 0 /\ y.sends = 0 /\ y.res = "none"
          /\ ~y.fallback
      BY <1>1, <3>1, ExecuteRecord
    <3> HIDE DEF y
    <3>4. n \in Nat
      BY <3>2 DEF CallRecords
    <3> HIDE DEF n
    <3>5. x \in CallRecords /\ x.pc = y.pc /\ x.max = y.max /\ x.attempt = y.attempt
          /\ x.tries = y.tries /\ x.sends = y.sends /\ x.res = y.res /\ x.fallback = y.fallback
      BY <3>2, <3>4 DEF CallRecords
    <3> HIDE DEF x
    <3>3. CallInv(c, x, pool, refused)
      BY <1>0, <1>1, <3>2, <3>5, ExecuteBegins
    <3> QED BY <1>0, <3>1, <3>3, CallMovesAlone
  <2>2. CASE ~(p.ranges < MaxRetries)
    BY <1>0, <1>4, <2>2, EndsWell DEF GetNoContentRange
  <2> QED BY <2>1, <2>2
<1> QED BY <1>2, <1>3, <1>4

(* A refusal: the token counts as refused before it is marked.             *)
LEMMA RefuseKeeps ==
  ASSUME TokenInv, NEW c \in Callers, Refuse(c)
  PROVE  TokenInv'
<1> DEFINE p == calls[c]
           x == [p EXCEPT !.pc = "mark"]
<1>0. /\ p.pc = "wait" /\ pool' = pool /\ refused' = refused \cup {p.token} /\ current' = current
      /\ calls' = [calls EXCEPT ![c] = x]
  BY DEF Refuse, Set, poolVars
<1>1. /\ p \in CallRecords /\ GoodPool(pool) /\ p.res = "none" /\ current' \in Nat
      /\ CallInv(c, p, pool, refused)
  BY <1>0, CallKnown
<1>2. x \in CallRecords /\ x.pc = "mark" /\ x.token = p.token /\ Keeps(p, x)
  BY <1>1 DEF CallRecords, PostPcs, Keeps
<1>3. x.sends = p.sends /\ x.attempt = p.attempt
  BY <1>1 DEF CallRecords
<1>4. x.fallback = p.fallback
  BY <1>1 DEF CallRecords
<1> HIDE DEF x
<1>5. MarkInv(x, pool, refused')
  BY <1>0, <1>2 DEF MarkInv
<1>6. CallShape(c, x) /\ GaveUpInv(x, pool, refused')
  BY <1>1, <1>2 DEF CallShape, GaveUpInv, Keeps, PostPcs, GetPcs
<1>7. ASSUME c \in Fetchers PROVE SendInv(x) /\ (x.calm => TryInv(x, pool))
  <2>1. SendInv(p) /\ (p.calm => TryInv(p, pool))
    BY <1>1, <1>7 DEF CallInv
  <2>2. SendInv(x)
    BY <1>0, <1>2, <1>3, <1>4, <2>1 DEF SendInv, Sent, Keeps, Extra
  <2>3. x.calm => TryInv(x, pool)
    BY <1>0, <1>2, <2>1 DEF TryInv, Sent, Keeps
  <2> QED BY <2>2, <2>3
<1>8. CallInv(c, x, pool', refused')
  BY <1>0, <1>5, <1>6, <1>7 DEF CallInv
<1>9. Grows(pool, pool') /\ CauseInv(pool', refused') /\ refused \subseteq refused'
  BY <1>0 DEF TokenInv, Grows, CauseInv
<1> QED BY <1>0, <1>1, <1>8, <1>9, CallMoves

(* mark_exhausted looks the token up in the list of the moment.            *)
LEMMA MarkLoadKeeps ==
  ASSUME TokenInv, NEW c \in Callers, MarkLoad(c)
  PROVE  TokenInv'
<1> DEFINE p == calls[c]
           s == SlotOf(pool, p.token)
           g == pool.gen
           x == [p EXCEPT !.pc = "flag", !.slot = s, !.gen = g]
<1>0. /\ p.pc = "mark" /\ pool' = pool /\ refused' = refused /\ current' = current
      /\ calls' = [calls EXCEPT ![c] = x]
  BY DEF MarkLoad, Set, poolVars
<1>1. /\ p \in CallRecords /\ GoodPool(pool) /\ p.res = "none" /\ current' \in Nat
      /\ CallInv(c, p, pool, refused)
  BY <1>0, CallKnown
<1>2. /\ s \in Nat /\ g \in Nat
      /\ s # 0 => s \in Slots(pool) /\ pool.tokens[s] = p.token
      /\ p.token \in ListSet(pool.tokens) => s # 0
  BY <1>1, SlotOfFact, PoolShape
<1> HIDE DEF s
<1>3. x \in CallRecords /\ x.pc = "flag" /\ x.token = p.token /\ x.slot = s /\ x.gen = pool.gen
  BY <1>1, <1>2 DEF CallRecords, PostPcs
<1>4. x.sends = p.sends /\ x.attempt = p.attempt /\ Keeps(p, x)
  BY <1>1 DEF CallRecords, Keeps
<1>5. x.fallback = p.fallback
  BY <1>1 DEF CallRecords
<1> HIDE DEF x
<1>6. MarkInv(x, pool, refused)
  <2>1. p.token \in refused
    BY <1>0, <1>1 DEF CallInv, MarkInv
  <2> QED BY <1>2, <1>3, <2>1 DEF MarkInv
<1>7. CallShape(c, x) /\ GaveUpInv(x, pool, refused)
  BY <1>1, <1>3, <1>4 DEF CallShape, GaveUpInv, Keeps, PostPcs, GetPcs
<1>8. ASSUME c \in Fetchers PROVE SendInv(x) /\ (x.calm => TryInv(x, pool))
  <2>1. SendInv(p) /\ (p.calm => TryInv(p, pool))
    BY <1>1, <1>8 DEF CallInv
  <2>2. SendInv(x)
    BY <1>0, <1>3, <1>4, <1>5, <2>1 DEF SendInv, Sent, Keeps, Extra
  <2>3. x.calm => TryInv(x, pool)
    BY <1>0, <1>2, <1>3, <1>4, <2>1 DEF TryInv, Sent, Keeps
  <2> QED BY <2>2, <2>3
<1>9. CallInv(c, x, pool, refused)
  BY <1>6, <1>7, <1>8 DEF CallInv
<1> QED BY <1>0, <1>1, <1>9, CallMovesAlone

(* The flag that a mark sets is the one of its token, or it hits a list    *)
(* that is gone.                                                           *)
LEMMA FlagSet ==
  ASSUME GoodPool(pool), CauseInv(pool, refused), NEW p \in CallRecords, p.pc = "flag",
         MarkInv(p, pool, refused),
         pool' = IF p.slot # 0 /\ p.gen = pool.gen
                 THEN [pool EXCEPT !.flags = @ \cup {p.slot}] ELSE pool
  PROVE  /\ Grows(pool, pool') /\ CauseInv(pool', refused)
         /\ p.slot # 0 /\ p.gen = pool.gen => p.slot \in pool'.flags
<1>1. CASE ~(p.slot # 0 /\ p.gen = pool.gen)
  BY <1>1 DEF Grows
<1>2. CASE p.slot # 0 /\ p.gen = pool.gen
  <2> DEFINE F == pool.flags \cup {p.slot}
  <2>1. /\ p.slot \in Slots(pool) /\ pool.tokens[p.slot] \in refused /\ p.slot \in Nat
    BY <1>2 DEF MarkInv, CallRecords
  <2>2. F \in SUBSET Nat /\ F \subseteq Slots(pool) /\ pool \in Pools
    BY <2>1, PoolShape DEF GoodPool, Pools
  <2>3. pool' = [pool EXCEPT !.flags = F]
    BY <1>2
  <2> HIDE DEF F
  <2>4. pool' \in Pools /\ pool'.tokens = pool.tokens /\ pool'.gen = pool.gen /\ pool'.flags = F
    BY <2>2, <2>3 DEF Pools
  <2>5. GoodPool(pool')
    BY <2>2, <2>4 DEF GoodPool, Slots
  <2> QED BY <2>1, <2>4, <2>5 DEF Grows, CauseInv, F
<1> QED BY <1>1, <1>2

(* A mark of an undisturbed call flags one more token than it had tried.   *)
LEMMA OneMoreFlag ==
  ASSUME Grows(pool, pool'), NEW p \in CallRecords, p.pc = "flag", MarkInv(p, pool, refused),
         TryInv(p, pool), p.slot # 0 /\ p.gen = pool.gen => p.slot \in pool'.flags
  PROVE  AllFlagged(pool') \/ p.tries + 1 <= Cardinality(pool'.flags)
<1> DEFINE O == Others(pool, p.token)
<1>0. /\ p.slot \in pool'.flags /\ p.slot \in Slots(pool) /\ pool.tokens[p.slot] = p.token
      /\ AllFlagged(pool) \/ p.tries <= Cardinality(O)
  BY DEF TryInv, MarkInv, Sent
<1>1. /\ GoodPool(pool) /\ GoodPool(pool') /\ O \subseteq pool.flags /\ pool.flags \subseteq pool'.flags
      /\ p.slot \notin O
  BY <1>0 DEF Grows, Others
<1>2. IsFiniteSet(O) /\ Cardinality(O) \in Nat
  BY <1>1, PoolFinite
<1> HIDE DEF O
<1>3. Cardinality(O \cup {p.slot}) = Cardinality(O) + 1
  BY <1>1, <1>2, FS_AddElement
<1>4. O \cup {p.slot} \subseteq pool'.flags
  BY <1>0, <1>1
<1>5. Cardinality(O \cup {p.slot}) <= Cardinality(pool'.flags) /\ Cardinality(pool'.flags) \in Nat
  BY <1>1, <1>4, PoolFinite
<1>6. AllFlagged(pool) => AllFlagged(pool')
  BY FlagsGrow
<1>7. p.tries \in Nat
  BY DEF CallRecords
<1> QED BY <1>0, <1>2, <1>3, <1>5, <1>6, <1>7

LEMMA MarkStoreKeeps ==
  ASSUME TokenInv, NEW c \in Callers, MarkStore(c)
  PROVE  TokenInv'
<1> DEFINE p == calls[c]
<1>0. /\ p.pc = "flag" /\ refused' = refused /\ current' = current
      /\ pool' = IF p.slot # 0 /\ p.gen = pool.gen
                 THEN [pool EXCEPT !.flags = @ \cup {p.slot}] ELSE pool
  BY DEF MarkStore
<1>1. /\ p \in CallRecords /\ GoodPool(pool) /\ p.res = "none" /\ current' \in Nat
      /\ CallInv(c, p, pool, refused) /\ MarkInv(p, pool, refused) /\ CauseInv(pool, refused)
  BY <1>0, CallKnown DEF CallInv, TokenInv
<1>2. /\ Grows(pool, pool') /\ CauseInv(pool', refused)
      /\ p.slot # 0 /\ p.gen = pool.gen => p.slot \in pool'.flags
  BY <1>0, <1>1, FlagSet
<1>3. CASE c \in Unrestricters
  <2> DEFINE x == Forget([p EXCEPT !.pc = "pick"])
  <2>1. calls' = [calls EXCEPT ![c] = x]
    BY <1>3 DEF MarkStore, Set
  <2>2. x \in CallRecords /\ x.pc = "pick" /\ x.res = "none"
    BY <1>1 DEF Forget, CallRecords, PostPcs
  <2> HIDE DEF x
  <2>3. CallInv(c, x, pool', refused')
    BY <1>3, <2>2, PostCall
  <2> QED BY <1>0, <1>1, <1>2, <2>1, <2>3, CallMoves
<1>4. CASE c \notin Unrestricters
  <2> DEFINE n == p.tries + 1
             x == Forget([p EXCEPT !.pc = "rotate", !.tries = n])
  <2>0. c \in Fetchers
    BY <1>4 DEF Callers
  <2>1. calls' = [calls EXCEPT ![c] = x]
    BY <1>4 DEF MarkStore, Set
  <2>2. n \in Nat
    BY <1>1 DEF CallRecords
  <2>3. SendInv(p) /\ (p.calm => TryInv(p, pool))
    BY <1>1, <2>0 DEF CallInv
  <2> HIDE DEF n
  <2>4. x \in CallRecords /\ x.pc = "rotate" /\ x.res = "none" /\ x.tries = n /\ x.max = p.max
        /\ x.sends = p.sends
    BY <1>1, <2>2 DEF Forget, CallRecords, GetPcs
  <2>5. x.calm = p.calm /\ x.fallback = p.fallback
    BY <1>1 DEF Forget, CallRecords
  <2> HIDE DEF x
  <2>6. MarkInv(x, pool', refused')
    BY <2>4 DEF MarkInv
  <2>7. SendInv(x)
    <3>1. /\ p.tries < p.max /\ p.attempt <= MaxRetries
          /\ p.sends <= Extra(p) + p.tries * (MaxRetries + 1) + p.attempt + 1
      BY <1>0, <2>3 DEF SendInv, Sent
    <3>2. /\ p.tries \in Nat /\ p.max \in Nat /\ p.sends \in Nat /\ p.attempt \in Nat
          /\ MaxRetries \in Nat /\ Extra(p) \in Nat /\ p.tries * (MaxRetries + 1) \in Nat
      BY <1>1, PoolConstants DEF CallRecords, Extra
    <3>3. n * (MaxRetries + 1) = p.tries * (MaxRetries + 1) + MaxRetries + 1 /\ n <= p.max
      BY <3>1, <3>2 DEF n
    <3>4. Extra(x) = Extra(p)
      BY <2>5 DEF Extra
    <3> QED BY <2>4, <3>1, <3>2, <3>3, <3>4 DEF SendInv, Sent
  <2>8. ASSUME x.calm PROVE TryInv(x, pool')
    <3>1. TryInv(p, pool)
      BY <2>3, <2>5, <2>8
    <3>2. AllFlagged(pool') \/ n <= Cardinality(pool'.flags)
      BY <1>0, <1>1, <1>2, <3>1, OneMoreFlag DEF n
    <3>3. p.max = Len(pool'.tokens)
      BY <1>0, <1>2, <3>1 DEF TryInv, Sent, Grows
    <3> QED BY <2>4, <3>2, <3>3 DEF TryInv, Sent
  <2>9. x.pc \in GetPcs /\ x.pc \notin {"idle", "done"} /\ x.pc # "store"
    BY <2>4 DEF GetPcs
  <2>10. CallInv(c, x, pool', refused')
    BY <2>0, <2>4, <2>6, <2>7, <2>8, <2>9, GetCall
  <2> QED BY <1>0, <1>1, <1>2, <2>1, <2>10, CallMoves
<1> QED BY <1>3, <1>4

LEMMA ReturnKeeps ==
  ASSUME TokenInv, NEW c \in Callers, Return(c)
  PROVE  TokenInv'
<1>1. /\ calls' = [calls EXCEPT ![c] = NoCall] /\ pool' = pool /\ refused' = refused
      /\ current' \in Nat
  BY DEF Return, Set, poolVars, TokenInv
<1>2. CallInv(c, NoCall, pool, refused)
  BY IdleCall
<1> QED BY <1>1, <1>2, CallMovesAlone

----------------------------------------------------------------------------
(* The reset and the reload.  Marks under way stay refused, calls under    *)
(* way are no longer undisturbed, and a list that is gone gets no flag.    *)
LEMMA ClearedKeeps ==
  ASSUME TokenInv, FlagsCleared, GoodPool(pool'), pool'.flags = {}, current' \in Nat,
         pool'.gen > pool.gen \/ (pool'.gen = pool.gen /\ pool'.tokens = pool.tokens)
  PROVE  TokenInv'
<1>1. CauseInv(pool', refused')
  BY DEF CauseInv
<1>2. ASSUME NEW c \in Callers
      PROVE  calls'[c] \in CallRecords /\ CallInv(c, calls'[c], pool', refused')
  <2> DEFINE p == calls[c]
             k == StaysCalm(c)
             x == [p EXCEPT !.calm = k]
  <2>1. calls'[c] = x /\ k \in BOOLEAN
    BY DEF FlagsCleared, StaysCalm
  <2>2. p \in CallRecords /\ CallInv(c, p, pool, refused)
    BY CallKnown
  <2>3. k => p.pc = "idle" \/ p.res \in {"ok", "error", "fatal"}
    BY DEF StaysCalm
  <2>4. p.pc \in {"mark", "flag"} => p.token \in refused'
    BY DEF FlagsCleared, Marking
  <2> HIDE DEF k
  <2>5. x \in CallRecords
    BY <2>1, <2>2 DEF CallRecords
  <2>6. /\ x.pc = p.pc /\ x.token = p.token /\ x.slot = p.slot /\ x.gen = p.gen
        /\ x.attempt = p.attempt /\ x.tries = p.tries /\ x.max = p.max /\ x.sends = p.sends
        /\ x.res = p.res
    BY <2>2 DEF CallRecords
  <2>7. x.fallback = p.fallback /\ (x.calm <=> k)
    BY <2>1, <2>2 DEF CallRecords
  <2> HIDE DEF x
  <2>8. CallShape(c, p) /\ MarkInv(p, pool, refused)
    BY <2>2 DEF CallInv
  <2>9. CallShape(c, x)
    BY <2>5, <2>6, <2>8 DEF CallShape
  <2>10. MarkInv(x, pool', refused')
    <3>1. p.gen \in Nat /\ pool.gen \in Nat /\ pool'.gen \in Nat
      BY <2>2, PoolShape DEF TokenInv, CallRecords
    <3> QED BY <3>1, <2>4, <2>6, <2>8 DEF MarkInv, Slots
  <2>11. GaveUpInv(x, pool', refused')
    BY <2>3, <2>6, <2>7, <2>8 DEF GaveUpInv, CallShape
  <2>12. c \in Fetchers => SendInv(x)
    BY <2>2, <2>6, <2>7 DEF CallInv, SendInv, Extra
  <2>13. x.calm => TryInv(x, pool')
    BY <2>3, <2>6, <2>7, <2>8 DEF TryInv, CallShape, Sent
  <2> QED BY <2>1, <2>5, <2>9, <2>10, <2>11, <2>12, <2>13 DEF CallInv
<1>3. calls' \in [Callers -> CallRecords]
  BY <1>2 DEF FlagsCleared
<1> QED BY <1>1, <1>2, <1>3 DEF TokenInv

LEMMA EnvironmentKeeps ==
  ASSUME TokenInv, PoolEnvironment \/ ReloadStep
  PROVE  TokenInv'
<1>0. GoodPool(pool) /\ current \in Nat
  BY DEF TokenInv
<1>1. CASE DailyReset
  <2>1. pool' = [pool EXCEPT !.flags = {}] /\ FlagsCleared /\ current' = current
    BY <1>1 DEF DailyReset
  <2>2. pool' \in Pools /\ pool'.flags = {} /\ pool'.tokens = pool.tokens /\ pool'.gen = pool.gen
    BY <1>0, <2>1 DEF GoodPool, Pools
  <2>3. GoodPool(pool')
    BY <2>2 DEF GoodPool
  <2> QED BY <1>0, <2>1, <2>2, <2>3, ClearedKeeps
<1>2. ASSUME NEW list \in Configs, ReloadTokens(list)
      PROVE  TokenInv'
  <2>0. pool.gen \in Nat
    BY <1>0, PoolShape
  <2>1. pool' = [tokens |-> list, flags |-> {}, gen |-> pool.gen + 1] /\ FlagsCleared
        /\ current' = current
    BY <1>2 DEF ReloadTokens, NewPool
  <2>2. pool' \in Pools /\ pool'.flags = {} /\ pool'.gen > pool.gen
    BY <2>0, <2>1 DEF Pools
  <2>3. GoodPool(pool')
    BY <2>2 DEF GoodPool
  <2> QED BY <1>0, <2>1, <2>2, <2>3, ClearedKeeps
<1>3. ASSUME pool' = pool, calls' = calls, refused' = refused, current' \in Nat
      PROVE  TokenInv'
  BY <1>3 DEF TokenInv
<1>4. CASE ReloadStep
  BY <1>0, <1>3, <1>4 DEF ReloadStep, ReloadCurrent, ReloadConfig
<1>5. CASE NewDay \/ \E t \in Tokens : Exhaust(t) \/ RowExpires(t)
  BY <1>0, <1>3, <1>5 DEF NewDay, Exhaust, RowExpires, poolVars
<1> QED BY <1>1, <1>2, <1>4, <1>5 DEF PoolEnvironment

LEMMA TokensStart == TokensInit => TokenInv
<1> SUFFICES ASSUME TokensInit PROVE TokenInv
  OBVIOUS
<1>1. pool = [tokens |-> config, flags |-> {}, gen |-> 0] /\ config \in Configs
  BY DEF TokensInit, NewPool
<1>2. GoodPool(pool) /\ CauseInv(pool, refused)
  BY <1>1 DEF GoodPool, Pools, CauseInv
<1>3. calls = [c \in Callers |-> NoCall] /\ current = 0
  BY DEF TokensInit
<1> QED BY <1>2, <1>3, IdleCall DEF TokenInv

LEMMA TokensStep == TokenInv /\ [TokensNext]_tokenVars => TokenInv'
<1> SUFFICES ASSUME TokenInv, [TokensNext]_tokenVars PROVE TokenInv'
  OBVIOUS
<1>1. CASE UNCHANGED tokenVars
  BY <1>1 DEF tokenVars, poolVars, TokenInv
<1>2. ASSUME NEW c \in Callers, CallStep(c) \/ Return(c)
      PROVE  TokenInv'
  BY <1>2, RefuseKeeps, MarkLoadKeeps, MarkStoreKeeps, ReturnKeeps, PostKeeps, BearerKeeps,
     StoreKeeps, RotateKeeps, NetworkErrorKeeps, GetKeeps DEF CallStep
<1>3. ASSUME NEW c \in Unrestricters, UnrestrictLink(c)
      PROVE  TokenInv'
  BY <1>3, PostKeeps DEF Callers
<1>4. ASSUME NEW c \in Fetchers, HttpRangeGet(c)
      PROVE  TokenInv'
  BY <1>4, GetKeeps DEF Callers
<1>5. CASE PoolEnvironment \/ ReloadStep
  BY <1>5, EnvironmentKeeps
<1> QED BY <1>1, <1>2, <1>3, <1>4, <1>5 DEF TokensNext

LEMMA TokensInvariant == TokensSpec => []TokenInv
BY TokensStart, TokensStep, PTL DEF TokensSpec

(* token_pool.rs: for any token lists, callers, resets and reloads, a flag *)
(* is set only on a token that Real-Debrid refused.                        *)
THEOREM MarksHitTheirToken == TokensSpec => []FlagsHaveCause
<1>1. TokenInv => FlagsHaveCause
  BY DEF TokenInv, CauseInv, FlagsHaveCause
<1> QED BY <1>1, TokensInvariant, PTL

(* exec.rs, methods2.rs: for any number of tokens and of callers, a call   *)
(* that no reset or reload disturbed gives up for want of bandwidth only   *)
(* after every token of the pool has been refused.                         *)
THEOREM NoTokenSkipped == TokensSpec => []RotatesThroughPool
<1>1. TokenInv => RotatesThroughPool
  BY DEF TokenInv, CallInv, GaveUpInv, RotatesThroughPool
<1> QED BY <1>1, TokensInvariant, PTL

(* exec.rs: for any number of tokens and retries, the requests of one      *)
(* `execute` are bounded, whatever reloads do to the list.                 *)
THEOREM RequestsBounded == TokensSpec => []SendsBounded
<1>1. ASSUME NEW p \in CallRecords, p.pc \in GetPcs, SendInv(p)
      PROVE  p.sends <= 1 + p.max * (MaxRetries + 1)
  <2> DEFINE M == MaxRetries + 1
  <2>1. /\ p.tries \in Nat /\ p.max \in Nat /\ p.sends \in Nat /\ p.attempt \in Nat
        /\ MaxRetries \in Nat /\ Extra(p) \in 0..1 /\ M \in Nat
    BY PoolConstants DEF CallRecords, Extra
  <2>2. CASE p.pc \in {"idle", "done"}
    BY <1>1, <2>1, <2>2 DEF SendInv
  <2>3. CASE p.pc \in Sent \cup {"bearer"}
    <3>1. p.tries + 1 <= p.max /\ p.sends <= 1 + p.tries * M + M
      BY <1>1, <2>1, <2>3 DEF SendInv, Sent
    <3>2. p.tries * M + M <= p.max * M
      <4>1. \A a, b, m \in Nat : a + 1 <= b => a * m + m <= b * m
        OBVIOUS
      <4> HIDE DEF M
      <4> QED BY <2>1, <3>1, <4>1
    <3> QED BY <2>1, <3>1, <3>2
  <2>4. CASE p.pc = "rotate"
    <3>1. p.tries <= p.max /\ p.sends <= 1 + p.tries * M
      BY <1>1, <2>1, <2>4 DEF SendInv
    <3>2. p.tries * M <= p.max * M
      <4>1. \A a, b, m \in Nat : a <= b => a * m <= b * m
        OBVIOUS
      <4> HIDE DEF M
      <4> QED BY <2>1, <3>1, <4>1
    <3> QED BY <2>1, <3>1, <3>2
  <2> QED BY <1>1, <2>2, <2>3, <2>4 DEF GetPcs, Sent
<1>2. TokenInv => SendsBounded
  BY <1>1, GetKnown DEF TokenInv, CallInv, CallShape, Callers, SendsBounded
<1> QED BY <1>2, TokensInvariant, PTL

=============================================================================
