-------------------------------- MODULE Vfs ---------------------------------
(***************************************************************************)
(* The virtual file system over one mounted Ext2 disk: vfs/core (start-up, *)
(* path walk, directory-entry cache), vfs/inode (inode cache) and the Ext2 *)
(* operations behind them.  The kernel is the only caller and a call runs  *)
(* to its end, so a call is a step.  A path is the sequence of the names   *)
(* between its slashes: "/" is <<>>, "/a/" is <<"a", "">>.  The caches are *)
(* flat hash maps; the callers insert a key only after a failed lookup,    *)
(* the discipline under which FlatHashmap implements Dictionary, so they   *)
(* are functions here.  Objects are indices into the sequence of what was  *)
(* created.  Nothing registers a mount, so vfs_mount_resolve finds none.   *)
(***************************************************************************)
EXTENDS Ext2

CONSTANTS
    Disks,                \* the disks the kernel may find
    Names,                \* names that paths are made of, "" included
    NameLength,           \* their lengths
    MAX_NODE_NAME_LENGTH,
    MaxDepth,             \* names in a path
    Reads                 \* pairs of length and offset that callers ask for

ASSUME VfsAssumption ==
    NameLength \in [Names -> Nat] /\ MAX_NODE_NAME_LENGTH \in Nat /\ MaxDepth \in Nat

VARIABLES
    disk,     \* rigid: the disk, and with it the instance ext2_mount makes
    status,   \* "off", "on", or why the kernel stopped
    inodes,   \* the inodes that were made: number and copy of the disk's inode
    icache,   \* superblock inode cache: number -> inode
    dentries, \* the directory entries that were made: parent, name, inode
    dcache,   \* <<parent, name>> -> directory entry
    ret       \* the last call and what it returned

vars == <<disk, status, inodes, icache, dentries, dcache, ret>>

NULL  == 0
Paths == UNION {[1 .. n -> Names] : n \in 0 .. MaxDepth}
With1(f, k, v) == [x \in DOMAIN f \cup {k} |-> IF x = k THEN v ELSE f[x]]

Init ==
    /\ disk \in Disks
    /\ status = "off"
    /\ inodes = <<>> /\ icache = <<>> /\ dentries = <<>> /\ dcache = <<>>
    /\ ret = [op |-> "none"]

-----------------------------------------------------------------------------
(* The state that calls pass on.                                           *)
Caches == [inodes |-> inodes, icache |-> icache, dentries |-> dentries, dcache |-> dcache]

inode_cache_fetch(s, num) == IF num \in DOMAIN s.icache THEN s.icache[num] ELSE NULL
inode_cache_insert(s, num, inode) == [s EXCEPT !.icache = With1(@, num, inode)]

(* The inode with number num: [res, s, inode].                             *)
(* Variant: a new inode is not put into the cache.                         *)
ext2_fetch_inode_uncached(f, s, num) ==
    LET cached == inode_cache_fetch(s, num)
        made   == make_init_inode(f, num)
    IN  IF cached # NULL THEN [res |-> "ok", s |-> s, inode |-> cached]
        ELSE IF made.res # "ok" THEN [res |-> made.res, s |-> s, inode |-> NULL]
        ELSE [res |-> "ok", inode |-> Len(s.inodes) + 1,
              s |-> [s EXCEPT !.inodes = Append(@, [num |-> num, inode |-> made.inode])]]
ext2_fetch_inode(f, s, num) ==
    LET cached == inode_cache_fetch(s, num)
        made   == make_init_inode(f, num)
    IN  IF cached # NULL THEN [res |-> "ok", s |-> s, inode |-> cached]
        ELSE IF made.res # "ok" THEN [res |-> made.res, s |-> s, inode |-> NULL]
        ELSE [res |-> "ok", inode |-> Len(s.inodes) + 1,
              s |-> inode_cache_insert([s EXCEPT !.inodes = Append(@, [num |-> num, inode |-> made.inode])],
                                       num, Len(s.inodes) + 1)]

dir_entry_create(s, parent, name, inode) ==
    [s EXCEPT !.dentries = Append(@, [parent |-> parent, name |-> name, inode |-> inode])]

(* Variant: the parent is left out of the key.                             *)
dir_entry_cache_lookup_by_name(s, parent, name) ==
    IF \E k \in DOMAIN s.dcache : k[2] = name /\ parent # NULL
    THEN s.dcache[CHOOSE k \in DOMAIN s.dcache : k[2] = name]
    ELSE NULL
dir_entry_cache_lookup(s, parent, name) ==
    IF <<parent, name>> \in DOMAIN s.dcache THEN s.dcache[<<parent, name>>] ELSE NULL

dir_entry_cache_insert(s, d) ==
    [s EXCEPT !.dcache = With1(@, <<s.dentries[d].parent, s.dentries[d].name>>, d)]

(* The name is copied into an array of MAX_NODE_NAME_LENGTH + 1 bytes; one *)
(* that fills it is let through with its end one byte past the array.      *)
fetch_path_section(name) == NameLength[name] <= MAX_NODE_NAME_LENGTH + 1

(* One name of the path: [res, s, child].                                  *)
path_lookup_step(f, s, parent, name) ==
    LET entry   == dir_entry_cache_lookup(s, parent, name)
        found   == ext2_vfs_lookup(f, s.inodes[s.dentries[parent].inode].inode, name)
        fetched == ext2_fetch_inode(f, s, found.num)
        stop(r) == [res |-> r, s |-> s, child |-> NULL]
    IN  IF ~fetch_path_section(name) THEN stop("NAMETOOLONG")
        ELSE IF NameLength[name] > MAX_NODE_NAME_LENGTH THEN stop("abort")
        ELSE IF entry # NULL THEN [res |-> "ok", s |-> s, child |-> entry]
        ELSE IF found.res # "ok" THEN stop(found.res)
        ELSE IF fetched.res # "ok" THEN stop(fetched.res)
        ELSE LET made  == dir_entry_create(fetched.s, parent, name, fetched.inode)
                 child == Len(made.dentries)
             IN  [res |-> "ok", s |-> dir_entry_cache_insert(made, child), child |-> child]

RECURSIVE WalkFrom(_, _, _, _)
WalkFrom(f, s, cur, names) ==
    IF names = <<>> THEN [res |-> "ok", s |-> s, child |-> cur]
    ELSE LET step == path_lookup_step(f, s, cur, Head(names))
         IN  IF step.res # "ok" THEN step ELSE WalkFrom(f, step.s, step.child, Tail(names))

root == dcache[<<NULL, "">>]

-----------------------------------------------------------------------------
SetCaches(s) ==
    /\ inodes' = s.inodes /\ icache' = s.icache
    /\ dentries' = s.dentries /\ dcache' = s.dcache

(* Errors are returned; the others stop the kernel.                        *)
Errors == {"NOENT", "NOTDIR", "ISDIR", "INVAL", "NAMETOOLONG"}
StatusAfter(res) == IF res \in Errors \cup {"ok"} THEN "on" ELSE res

(* init_vfs: the first driver that matches is mounted and its root inode   *)
(* becomes the root entry; without one the assertion fails.                *)
init_vfs ==
    /\ status = "off"
    /\ \E f \in {ext2_mount(disk)} : \E r \in {ext2_fetch_inode(f, Caches, EXT2_ROOT_INODE)} :
          IF ~ext2_match(disk)
          THEN /\ status' = "no_driver"
               /\ UNCHANGED <<inodes, icache, dentries, dcache>>
          ELSE /\ status' = StatusAfter(r.res)
               /\ SetCaches(dir_entry_cache_insert(dir_entry_create(r.s, NULL, "", r.inode), 1))
    /\ ret' = [op |-> "init"]
    /\ UNCHANGED disk

vfs_lookup_path(path) ==
    /\ status = "on" /\ ret.op = "none"
    /\ \E f \in {ext2_mount(disk)} : \E w \in {WalkFrom(f, Caches, root, path)} :
          /\ SetCaches(w.s)
          /\ status' = StatusAfter(w.res)
          /\ ret' = [op |-> "lookup", path |-> path, res |-> w.res, entry |-> w.child]
    /\ UNCHANGED disk

(* inode->ops->read of an entry that a lookup returned.                    *)
vfs_read(d, length, offset) ==
    /\ status = "on" /\ ret.op = "none"
    /\ \E f \in {ext2_mount(disk)} : \E r \in {ext2_vfs_read(f, inodes[dentries[d].inode].inode, length, offset)} :
          /\ status' = StatusAfter(r.res)
          /\ ret' = [op |-> "read", entry |-> d, res |-> r.res, length |-> length,
                     offset |-> offset, n |-> r.n, data |-> r.data]
    /\ UNCHANGED <<disk, inodes, icache, dentries, dcache>>

(* The caller has its result and goes on.                                  *)
Return ==
    /\ status = "on" /\ ret.op # "none"
    /\ ret' = [op |-> "none"]
    /\ UNCHANGED <<disk, status, inodes, icache, dentries, dcache>>

Next ==
    \/ init_vfs
    \/ Return
    \/ \E path \in Paths : vfs_lookup_path(path)
    \/ \E d \in DOMAIN dentries, r \in Reads : vfs_read(d, r[1], r[2])

Spec == Init /\ [][Next]_vars

-----------------------------------------------------------------------------
(* What the disk holds, by the format and not by the code: the blocks of a *)
(* file in order, its cells, the names in a directory, and the inode that  *)
(* a path leads to.                                                        *)
SB    == Cell(disk, EXT2_SB_OFFSET)
Block == EXT2_BLOCK_SIZE(SB.log_block_size)

RECURSIVE Leaves(_, _)
Leaves(block, depth) ==
    IF depth = 0 THEN <<block>>
    ELSE LET below(j) == IF block = 0 THEN 0
                         ELSE LET c == Cell(disk, block * Block + j)
                              IN  IF c.kind = "pointer" THEN c.block ELSE 0
             join[j \in 0 .. Block] == IF j = 0 THEN <<>> ELSE join[j - 1] \o Leaves(below(j - 1), depth - 1)
         IN  join[Block]

Direct == EXT2_INODE_INDIRECT_BLOCKS
FileBlocks(inode) ==
    [i \in 1 .. Direct |-> inode.block[i - 1]]
    \o Leaves(inode.block[Direct], 1) \o Leaves(inode.block[Direct + 1], 2) \o Leaves(inode.block[Direct + 2], 3)

FileCell(inode, a) ==
    LET block == FileBlocks(inode)[a \div Block + 1]
    IN  IF block = 0 THEN Zero ELSE Cell(disk, block * Block + (a % Block))

(* The inode number num, wherever its group's table lies.                  *)
GroupTable == (EXT2_SB_OFFSET \div Block + 1) * Block
TrueOffset(num) ==
    Cell(disk, GroupTable + (num - 1) \div SB.inodes_per_group).inode_table * Block
    + SB.inode_size * ((num - 1) % SB.inodes_per_group)
TrueInode(num) == Cell(disk, TrueOffset(num))

(* The entries of a directory that are in use, with their places.          *)
EntriesOf(inode) ==
    {a \in 0 .. inode.size - 1 :
        /\ FileCell(inode, a).kind = "entry"
        /\ FileCell(inode, a).inode # 0}
PlacesOf(inode, name) == {a \in EntriesOf(inode) : FileCell(inode, a).name = name}

(* What walking the names from inode num should come to, or the reason     *)
(* that the code cannot say.                                               *)
RECURSIVE TrueWalk(_, _)
TrueWalk(num, names) ==
    LET inode   == TrueInode(num)
        name    == Head(names)
        places  == PlacesOf(inode, name)
        place   == CHOOSE a \in places : TRUE
        next    == FileCell(inode, place).inode
        deleted == \E a \in 0 .. inode.size - 1 :
                      /\ a < Block
                      /\ FileCell(inode, a).kind = "entry"
                      /\ FileCell(inode, a).inode = 0
                      /\ FileCell(inode, a).name = name
                      /\ \A b \in places : a < b
    IN  IF names = <<>> THEN [res |-> "ok", num |-> num]
        ELSE IF NameLength[name] > MAX_NODE_NAME_LENGTH + 1 THEN [res |-> "NAMETOOLONG"]
        ELSE IF NameLength[name] = MAX_NODE_NAME_LENGTH + 1 THEN [res |-> "abort"]
        ELSE IF inode.type # "DIR" THEN [res |-> "NOTDIR"]
        ELSE IF deleted THEN [res |-> "wild"]
        ELSE IF inode.size > Block /\ \A a \in places : a >= Block THEN [res |-> "garbage"]
        ELSE IF places = {} THEN [res |-> "NOENT"]
        ELSE IF TrueOffset(next) >= U32 THEN [res |-> "wild"]
        ELSE TrueWalk(next, Tail(names))

NumOf(d) == inodes[dentries[d].inode].num

(* A lookup finds what the disk holds under the path, whatever was looked  *)
(* up before and is in the caches: the right inode, NOENT when there is    *)
(* none, NOTDIR when a name on the way is no directory, NAMETOOLONG.  The  *)
(* exceptions are exactly these: a name one byte over the maximum fails an *)
(* assertion; the name of a deleted entry (inode 0), and an inode whose    *)
(* table lies beyond 4 GiB, read at a wrong place; and in a directory of   *)
(* several blocks all but the names of the first block are looked for in   *)
(* memory that was not read.                                               *)
PathLookupsExact ==
    ret.op = "lookup" =>
        LET t == TrueWalk(EXT2_ROOT_INODE, ret.path)
        IN  /\ ret.res = t.res
            /\ ret.res = "ok" => NumOf(ret.entry) = t.num

(* The caches never disagree with the disk or with each other: there is    *)
(* one inode object for a number and it equals the disk's inode, entries   *)
(* are cached under their own parent and name, no two entries are made for *)
(* one name, and the entry of a name holds the inode that its parent's     *)
(* directory gives the name.                                               *)
CachesExact ==
    /\ status = "on" => \E d \in DOMAIN dentries : d = root /\ NumOf(d) = EXT2_ROOT_INODE
    /\ \A i \in DOMAIN inodes :
          /\ inodes[i].inode = TrueInode(inodes[i].num)
          /\ inodes[i].num \in DOMAIN icache /\ icache[inodes[i].num] = i
    /\ \A d \in DOMAIN dentries :
          LET e == dentries[d]
          IN  /\ <<e.parent, e.name>> \in DOMAIN dcache /\ dcache[<<e.parent, e.name>>] = d
              /\ e.parent < d
              /\ e.parent # NULL =>
                    LET dir == TrueInode(NumOf(e.parent))
                    IN  \E a \in PlacesOf(dir, e.name) : FileCell(dir, a).inode = NumOf(d)

(* A read fails exactly beyond the end of the file.  Otherwise it reports  *)
(* the whole length, and gives the caller the file's cells up to the end   *)
(* of the block it starts in, and no more; nothing when that block is a    *)
(* hole.  Only a hole whose pointer block is missing, too, can make it     *)
(* read elsewhere: the pointer is then taken from block 0, where a disk of *)
(* larger blocks keeps its superblock.                                     *)
ReadsExact ==
    ret.op = "read" =>
        LET inode == TrueInode(NumOf(ret.entry))
            first == ret.offset \div Block
            block == FileBlocks(inode)[first + 1]
            here  == Block - (ret.offset % Block)
            count == IF here < ret.length THEN here ELSE ret.length
        IN  IF inode.type = "DIR" THEN ret.res = "ISDIR"
            ELSE IF ret.length + ret.offset > inode.size THEN ret.res = "INVAL"
            ELSE IF ret.res = "wild" THEN block = 0 /\ first >= Direct /\ Block > KiB
            ELSE /\ ret.res = "ok" /\ ret.n = ret.length
                 /\ ret.data = IF ret.length = 0 \/ block = 0 THEN <<>>
                               ELSE [i \in 1 .. count |-> FileCell(inode, ret.offset + i - 1)]

=============================================================================
