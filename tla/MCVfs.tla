------------------------------- MODULE MCVfs --------------------------------
(* Small Ext2 disks.  Inodes 1 and 2 are in group 0, 3 and 4 in group 1,   *)
(* 5 and 6 in group 2; 2 is the root directory, 3 a directory and 4 a file *)
(* that uses all its indirect blocks.                                      *)
EXTENDS Vfs, TLC

MCNames      == {"", "d", "f", "g", "long", "longer"}
MCNameLength == [n \in MCNames |->
                    CASE n = "" -> 0 [] n = "long" -> 3 [] n = "longer" -> 4 [] OTHER -> 1]

Pointer(b) == [kind |-> "pointer", block |-> b]
Data(b, j) == [kind |-> "data", value |-> <<b, j>>]
Entry(name, inode, rec_len) == [kind |-> "entry", name |-> name, inode |-> inode, rec_len |-> rec_len]

(* The blocks of a tree lie in pre-order: the root at b, then its subtrees. *)
RECURSIVE TreeSize(_, _)
TreeSize(ptrs, depth) == IF depth = 0 THEN 1 ELSE 1 + ptrs * TreeSize(ptrs, depth - 1)

RECURSIVE TreeCells(_, _, _, _)
TreeCells(ptrs, holes, b, depth) ==
    LET child(j) == b + 1 + j * TreeSize(ptrs, depth - 1)
    IN  IF b \in holes THEN {}
        ELSE IF depth = 0 THEN {<<b * ptrs + j, Data(b, j)>> : j \in 0 .. ptrs - 1}
        ELSE {<<b * ptrs + j, Pointer(child(j))>> : j \in {i \in 0 .. ptrs - 1 : child(i) \notin holes}}
             \cup UNION {TreeCells(ptrs, holes, child(j), depth - 1) : j \in 0 .. ptrs - 1}

(* The set is evaluated once.                                              *)
AsFunction(pairs) ==
    CHOOSE f \in {[a \in {c[1] : c \in p} |-> (CHOOSE c \in p : c[1] = a)[2]] : p \in {pairs}} : TRUE

(* A disk with log_block_size log; root and sub are the directories' cells, *)
(* size the cells of the file, holes the blocks it does not have, far the  *)
(* block of the last group's inode table.                                  *)
FileBase == 20
Disk(log, root_dir, sub_dir, size, holes, far) ==
    LET block   == KiB * 2 ^ log
        single  == FileBase + 2
        double  == single + TreeSize(block, 1)
        triple  == double + TreeSize(block, 2)
        ptr(b)  == IF b \in holes THEN 0 ELSE b
        table   == <<3, 4, far>>
        none    == [i \in 0 .. 4 |-> 0]
        inode   == [kind |-> "inode", type |-> "FILE", size |-> 0, block |-> none]
        dir(n, b) == [inode EXCEPT !.type = "DIR", !.size = n, !.block = [i \in 0 .. 4 |-> IF i * block < n THEN b + i ELSE 0]]
        at(n)   == table[(n - 1) \div 2 + 1] * block + ((n - 1) % 2)
        gdt     == IF log = 0 THEN 2 ELSE 1
        file    == [inode EXCEPT !.size = size,
                       !.block = [i \in 0 .. 4 |-> ptr(<<FileBase, FileBase + 1, single, double, triple>>[i + 1])]]
        cells   ==
            {<<KiB, [kind |-> "superblock", log_block_size |-> log, inodes_count |-> 6, inodes_per_group |-> 2,
                     blocks_count |-> 30, blocks_per_group |-> 10, inode_size |-> 1]>>}
            \cup {<<gdt * block + g - 1, [kind |-> "group", inode_table |-> table[g]]>> : g \in 1 .. 3}
            \cup {<<at(2), dir(Len(root_dir), 6)>>, <<at(3), dir(Len(sub_dir), 10)>>, <<at(4), file>>,
                  <<at(5), [inode EXCEPT !.size = 1]>>}
            \cup {<<6 * block + i - 1, root_dir[i]>> : i \in 1 .. Len(root_dir)}
            \cup {<<10 * block + i - 1, sub_dir[i]>> : i \in 1 .. Len(sub_dir)}
            \cup TreeCells(block, holes, FileBase, 0) \cup TreeCells(block, holes, FileBase + 1, 0)
            \cup TreeCells(block, holes, single, 1) \cup TreeCells(block, holes, double, 2)
            \cup TreeCells(block, holes, triple, 3)
    IN  AsFunction(cells)

Two(a, b)   == <<a, b>>
Wide(a)     == <<a, Zero>>
RootDF      == Two(Entry("d", 3, 1), Entry("f", 4, 1))
SubFG       == Two(Entry("f", 5, 1), Entry("g", 4, 1))
RootBlocks  == RootDF \o Two(Entry("g", 5, 1), Entry("", 0, 1))
SubDeleted  == Two(Entry("f", 0, 1), Entry("f", 5, 1))
SubEmpty    == Wide(Entry("", 0, 2))
Root4       == <<Entry("d", 3, 2), Zero, Entry("f", 4, 1), Entry("g", 5, 1)>>
Sub4        == <<Entry("g", 0, 1), Entry("f", 4, 3), Zero, Zero>>

MCDisks ==
    { Disk(0, RootDF, SubFG, 32, {}, 5),               \* everything present
      Disk(0, RootBlocks, SubDeleted, 31, {21, 24, 26, 33}, 5), \* two blocks, deleted names, holes
      Disk(0, RootDF, SubEmpty, 9, {20, 22}, 5),       \* no single indirect block
      Disk(0, RootBlocks, SubFG, 3, {}, 201),          \* group 2 has its inodes beyond 4 GiB
      Disk(1, Root4, Sub4, 24, {22, 26}, 5),           \* larger blocks, no single indirect block
      Disk(1, Root4, Sub4, 40, {27}, 5),               \* larger blocks, no double indirect block
      [a \in {KiB} |-> [kind |-> "superblock", log_block_size |-> 0, inodes_count |-> 6, inodes_per_group |-> 2,
                        blocks_count |-> 40, blocks_per_group |-> 10, inode_size |-> 1]] }

MCReads == {<<1, a>> : a \in 0 .. 41} \cup {<<0, 3>>, <<2, 1>>, <<2, 4>>, <<3, 6>>, <<8, 3>>, <<1, 100>>, <<31, 0>>}
=============================================================================
