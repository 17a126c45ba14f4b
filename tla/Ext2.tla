-------------------------------- MODULE Ext2 --------------------------------
(***************************************************************************)
(* filesystem/Ext2: how superblock, group descriptors, inodes, directory   *)
(* entries and file blocks are found on the disk.  A disk is a partial     *)
(* function from addresses to cells; what is not in it is zero.  A cell is *)
(* four bytes of data or a block pointer, or stands for a whole structure  *)
(* of the disk (superblock, group descriptor, inode, directory entry).     *)
(* Sizes and offsets count cells.  Reading a structure where a pointer is  *)
(* expected gives an undefined number, GARBAGE.                            *)
(***************************************************************************)
EXTENDS Integers, Sequences, FiniteSets

CONSTANTS
    KiB,                        \* cells in 1024 bytes
    EXT2_INODE_INDIRECT_BLOCKS, \* direct blocks of an inode
    U32                         \* cells in 4 GiB: u32 offsets wrap here

ASSUME Ext2Assumption ==
    KiB \in Nat \ {0} /\ EXT2_INODE_INDIRECT_BLOCKS \in Nat \ {0} /\ U32 \in Nat \ {0}

EXT2_SB_OFFSET  == KiB
EXT2_ROOT_INODE == 2
GARBAGE == -1
DivUp(a, b) == (a + b - 1) \div b

Zero == [kind |-> "zero"]
Cell(disk, a) == IF a \in DOMAIN disk THEN disk[a] ELSE Zero

fs_read_bytes(disk, length, offset) == [i \in 1 .. length |-> Cell(disk, offset + i - 1)]

EXT2_BLOCK_SIZE(base) == KiB * 2 ^ base

ext2_match(disk) ==
    LET sb == Cell(disk, EXT2_SB_OFFSET)
    IN  /\ sb.kind = "superblock"
        /\ DivUp(sb.inodes_count, sb.inodes_per_group) = DivUp(sb.blocks_count, sb.blocks_per_group)

(* What ext2_mount keeps: the superblock, the block size and the group     *)
(* descriptors.                                                            *)
fetch_bgdt(disk, sb, block_size) ==
    fs_read_bytes(disk, DivUp(sb.inodes_count, sb.inodes_per_group),
                  IF block_size = KiB THEN 2 * block_size ELSE block_size)

ext2_mount(disk) ==
    LET sb         == Cell(disk, EXT2_SB_OFFSET)
        block_size == EXT2_BLOCK_SIZE(sb.log_block_size)
    IN  [disk |-> disk, disk_sb |-> sb, block_size |-> block_size,
         bgd_descs |-> fetch_bgdt(disk, sb, block_size)]

-----------------------------------------------------------------------------
(* The inode num.  res is "abort" when the assertion fails and "wild" when *)
(* the descriptor array is left (num - 1 wraps for 0) or no inode lies at  *)
(* the offset, which is computed in 32 bits.                               *)
ext2_get_block_group(fs, num) == (num - 1) \div fs.disk_sb.inodes_per_group

inode_offset(fs, num) ==
    (fs.bgd_descs[ext2_get_block_group(fs, num) + 1].inode_table * fs.block_size
     + fs.disk_sb.inode_size * ((num - 1) % fs.disk_sb.inodes_per_group)) % U32

make_init_inode(fs, num) ==
    IF num > fs.disk_sb.inodes_count THEN [res |-> "abort"]
    ELSE IF num = 0 \/ fs.bgd_descs[ext2_get_block_group(fs, num) + 1].kind # "group"
    THEN [res |-> "wild"]
    ELSE LET found == Cell(fs.disk, inode_offset(fs, num))
         IN  IF found.kind = "inode" THEN [res |-> "ok", num |-> num, inode |-> found]
             ELSE [res |-> "wild"]

(* A number that was read from a wrong place is not followed further.      *)
ext2_read_u32(fs, block, index) ==
    LET c == Cell(fs.disk, block * fs.block_size + index)
    IN  CASE block = GARBAGE   -> GARBAGE
          [] c.kind = "pointer" -> c.block
          [] c.kind = "zero"    -> 0
          [] OTHER              -> GARBAGE

(* The block of the file's index-th block; 0 for none.                     *)
(* Variant: the rest of a double index is taken by the wrong divisor.      *)
ext2_get_inode_block_index_swapped(fs, inode, index) ==
    LET direct == EXT2_INODE_INDIRECT_BLOCKS
        ptrs   == fs.block_size
        i1     == index - direct
        i2     == i1 - ptrs
        U(block, i) == ext2_read_u32(fs, block, i)
    IN  CASE index < direct   -> inode.block[index]
          [] i1 \in 0 .. ptrs - 1 -> U(inode.block[direct], i1)
          [] OTHER -> U(U(inode.block[direct + 1], i2 % ptrs), i2 \div ptrs)
ext2_get_inode_block_index(fs, inode, index) ==
    LET direct == EXT2_INODE_INDIRECT_BLOCKS
        ptrs   == fs.block_size
        i1     == index - direct
        i2     == i1 - ptrs
        i3     == i2 - ptrs * ptrs
        rest   == i3 % (ptrs * ptrs)
        U(block, i) == ext2_read_u32(fs, block, i)
    IN  IF index < direct THEN inode.block[index]
        ELSE IF i1 < ptrs THEN U(inode.block[direct], i1)
        ELSE IF i2 < ptrs * ptrs THEN U(U(inode.block[direct + 1], i2 \div ptrs), i2 % ptrs)
        ELSE U(U(U(inode.block[direct + 2], i3 \div (ptrs * ptrs)), rest \div ptrs), rest % ptrs)

(* The loop subtracts the whole length after its first chunk and ends; a   *)
(* block that is missing ends it at once.  data is what the caller's       *)
(* buffer is given; the rest of it keeps what was there.                   *)
(* wild marks a read from an undefined block.                              *)
ext2_read_inode(fs, inode, length, file_offset) ==
    LET off   == file_offset % fs.block_size
        chunk == IF fs.block_size - off < length THEN fs.block_size - off ELSE length
        block == ext2_get_inode_block_index(fs, inode, file_offset \div fs.block_size)
        read  == [res |-> "ok", n |-> length, data |-> <<>>]
    IN  IF length + file_offset > inode.size THEN [read EXCEPT !.res = "INVAL"]
        ELSE IF length = 0 \/ block = 0 THEN read
        ELSE IF block = GARBAGE THEN [read EXCEPT !.res = "wild"]
        ELSE [read EXCEPT !.data = fs_read_bytes(fs.disk, chunk, block * fs.block_size + off)]

ext2_vfs_read(fs, inode, size, offset) ==
    IF inode.type = "DIR" THEN [res |-> "ISDIR", n |-> size, data |-> <<>>]
    ELSE ext2_read_inode(fs, inode, size, offset)

(* The scan of a directory's data from cur: the number in the first entry  *)
(* that has the name, "NOENT", or "garbage" once it leaves what was read.  *)
RECURSIVE ScanFrom(_, _, _, _)
ScanFrom(data, size, name, cur) ==
    IF cur >= size THEN [res |-> "NOENT"]
    ELSE IF cur >= Len(data) THEN [res |-> "garbage"]
    ELSE IF data[cur + 1].name = name THEN [res |-> "ok", num |-> data[cur + 1].inode]
    ELSE ScanFrom(data, size, name, cur + data[cur + 1].rec_len)

ext2_vfs_lookup(fs, inode, name) ==
    IF inode.type # "DIR" THEN [res |-> "NOTDIR"]
    ELSE ScanFrom(ext2_read_inode(fs, inode, inode.size, 0).data, inode.size, name, 0)

=============================================================================
