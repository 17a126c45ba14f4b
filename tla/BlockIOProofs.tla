---------------------------- MODULE BlockIOProofs ----------------------------
(***************************************************************************)
(* Proofs about block I/O, for every set of drives and partition counts,   *)
(* every choice of blocks and any number of reads.  The safety properties  *)
(* of BlockIO follow from one inductive invariant: only a machine whose    *)
(* single drive is the primary master gets past start-up, and on it at     *)
(* most one request is outstanding.                                        *)
(***************************************************************************)
EXTENDS BlockIO, TLAPS

(* Places in the main thread: before irq_enable, before the root device is *)
(* known, with the disk's lock held, with a request under way, after it.   *)
Early   == {"fetch_storage", "irq_enable"}
Booting == Early \cup {"get_device"}
Holding == {"check_unlock", "submit_unlock"}
Submits == {"check_lock", "check_unlock", "check_clear", "make_stor_request",
            "submit_lock", "submit_unlock"}
Waiting == {"submit_clear", "wait"}
Copying == {"memcpy", "kvfree_pages"}

(* The only two requests that are ever on a queue, and what they need.     *)
MbrRead  == Request(MbrId(0), 0, 0)
FileRead == Request(ReadId, 0, 20 + block)
Vbuffer  == <<"vbuffer", ReadId>>
User     == <<"user_request", ReadId>>
OfDisk   == <<"disk_request", ReadId>>

LockInv ==
    /\ status # "deadlock"
    /\ irq_on <=> pc \notin Early \cup Holding
    /\ \A d \in Drives : locked[d] <=> (d = 0 /\ pc \in Holding)
    /\ pc \in Holding => irq_data[0] = TRUE

(* The second channel is idle, and the first has at most one request: the  *)
(* controller executes it or has requested its interrupt.                  *)
ChannelInv ==
    /\ queue[1] = <<>> /\ hw[1] = <<>> /\ irr[1] = FALSE
    /\ \/ queue[0] = <<>> /\ irr[0] = FALSE
       \/ queue[0] = <<MbrRead>> /\ pc \in Booting \cup {"vfs"}
       \/ queue[0] = <<FileRead>> /\ pc \in Waiting
    /\ hw[0] = IF irr[0] THEN <<>> ELSE queue[0]

(* Where the kernel can stop, and the devices it has found until then.     *)
DeviceInv ==
    /\ status # "run" => pc \in {"fetch_storage", "get_device", "vfs"} \cup Waiting
    /\ pc = "fetch_storage" /\ status = "run" =>
         \/ block_devs = <<>> /\ queue[0] = <<>>
         \/ block_devs = <<Disk(0)>> /\ queue[0] = <<MbrRead>>
    /\ pc # "fetch_storage" =>
         /\ present = {0}
         /\ \/ block_devs = <<Disk(0)>>
            \/ block_devs = <<Disk(0)>> \o Partitions(0) /\ queue[0] # <<MbrRead>>
    /\ pc \notin Booting /\ status = "run" =>
         queue[0] # <<MbrRead>> /\ Len(block_devs) >= RootIndex

ReadInv ==
    /\ pc \notin Booting \cup {"vfs"} => reads > 0
    /\ pc \in Waiting /\ status = "run" => (done <=> queue[0] = <<>>)
    /\ pc \in (HeapPcs \ Copying) \cup Submits => ~ done
    /\ pc \in Copying => done

LiveNow ==
    IF pc \in Booting THEN IF queue[0] = <<>> THEN {} ELSE Objects(MbrId(0))
    ELSE IF pc \in {"vfs", "kvalloc_pages"} THEN {}
    ELSE IF pc = "block_req_generate_disk" THEN {Vbuffer, User}
    ELSE IF pc \in Submits THEN {Vbuffer, User, OfDisk}
    ELSE IF pc \in Waiting /\ ~ done THEN {Vbuffer} \cup Objects(ReadId)
    ELSE {Vbuffer}

LiveInv ==
    /\ queue[0] = <<MbrRead>> => Objects(MbrId(0)) \subseteq live
    /\ queue[0] = <<FileRead>> => {Vbuffer} \cup Objects(ReadId) \subseteq live
    /\ status = "run" => live = LiveNow

(* The buffer of the current read holds its block once the transfer has    *)
(* ended, unless it failed.                                                *)
MemInv ==
    /\ \A n \in 1 .. MaxReads : n > reads => mem[<<"fs", n>>] = Garbage
    /\ pc \notin Booting \cup {"vfs"} =>
         /\ pc \notin Waiting \cup Copying => mem[ReadId] = Garbage
         /\ pc \in Waiting /\ queue[0] # <<>> =>
              mem[ReadId] = IF irr[0] /\ drive[0] = "ok" THEN 20 + block ELSE Garbage
         /\ done /\ status = "run" => mem[ReadId] = 20 + block \/ (mem[ReadId] = Garbage /\ drive[0] = "bus_err")
    /\ pc = "kvfree_pages" => got = mem[ReadId]

IInv == TypeOK /\ LockInv /\ ChannelInv /\ DeviceInv /\ ReadInv /\ LiveInv /\ MemInv

-----------------------------------------------------------------------------
(* What the requests' names and objects are.                               *)
LEMMA MbrFacts ==
  /\ MbrId(0) \in Ids /\ MbrId(0)[1] = "mbr" /\ MbrRead \in Requests
  /\ Objects(MbrId(0)) \subseteq Kinds \X Ids
  /\ Objects(MbrId(0)) = {<<"page_data", MbrId(0)>>, <<"disk_request", MbrId(0)>>, <<"item", MbrId(0)>>}
  /\ Buffer(MbrId(0)) \in Objects(MbrId(0))
<1>1. MbrId(0) \in Ids /\ MbrId(0)[1] = "mbr"
  BY DEF MbrId, Ids, Drives
<1>2. MbrRead \in Requests
  BY <1>1 DEF MbrRead, Request, Requests, Drives
<1>3. Objects(MbrId(0)) = {<<"page_data", MbrId(0)>>, <<"disk_request", MbrId(0)>>, <<"item", MbrId(0)>>}
  BY <1>1 DEF Objects
<1> QED BY <1>1, <1>2, <1>3 DEF Kinds, Buffer

LEMMA ReadFacts ==
  ASSUME TypeOK, reads > 0
  PROVE  /\ ReadId \in Ids /\ ReadId[1] = "fs" /\ ReadId # MbrId(0)
         /\ Objects(ReadId) = {User, OfDisk, <<"item", ReadId>>}
         /\ {Vbuffer, User, OfDisk, <<"item", ReadId>>} \subseteq Kinds \X Ids
         /\ FileRead \in Requests
         /\ Buffer(ReadId) = Vbuffer
<1>1. reads \in 1 .. MaxReads
  BY MaxReadsAssumption DEF TypeOK
<1>2. ReadId \in Ids /\ ReadId[1] = "fs" /\ ReadId # MbrId(0)
  BY <1>1 DEF ReadId, Ids, MbrId
<1>3. Objects(ReadId) = {User, OfDisk, <<"item", ReadId>>}
  BY <1>2 DEF Objects, User, OfDisk
<1>4. {Vbuffer, User, OfDisk, <<"item", ReadId>>} \subseteq Kinds \X Ids
  BY <1>2 DEF Kinds, Vbuffer, User, OfDisk
<1>5. FileRead \in Requests
  <2>1. block \in Nat
    BY BlocksAssumption DEF TypeOK
  <2> QED BY <1>2, <2>1 DEF FileRead, Request, Requests, Drives
<1>6. Buffer(ReadId) = Vbuffer
  BY <1>2 DEF Buffer, Vbuffer
<1> QED BY <1>2, <1>3, <1>4, <1>5, <1>6

(* A sequence that starts with one known element.                          *)
LEMMA SeqFacts ==
  ASSUME NEW S, NEW d \in S, NEW s \in Seq(S)
  PROVE  /\ Len(<<d>>) = 1
         /\ Len(<<d>> \o s) = Len(s) + 1
         /\ Len(s) >= 2 => (<<d>> \o s)[3] = s[2]
  OBVIOUS

Devs == [type : {"disk", "partition"}, disk : Drives, offset : Nat]

LEMMA PartFacts ==
  ASSUME TypeOK, 0 \in present
  PROVE  /\ parts[0] \in 0 .. 4
         /\ Disk(0) \in Devs
         /\ Partitions(0) \in Seq(Devs)
         /\ Len(Partitions(0)) = parts[0]
         /\ parts[0] >= 2 => Partitions(0)[2] = Partition(0, 2)
<1>1. parts[0] \in PartCounts
  BY DEF TypeOK
<1>2. parts[0] \in 0 .. 4
  BY <1>1, PartCountsAssumption
<1>3. \A p \in 1 .. parts[0] : Partition(0, p) \in Devs
  BY <1>2 DEF Partition, Devs, Drives
<1>4. Disk(0) \in Devs
  BY DEF Disk, Devs, Drives
<1> QED BY <1>2, <1>3, <1>4 DEF Partitions

(* Past start-up the root device is the second partition of drive 0.       *)
LEMMA RootFacts ==
  ASSUME IInv, status = "run", pc \notin Booting
  PROVE  /\ RootDevice = Partition(0, 2) /\ RootLock = 0 /\ RootDevice.offset = 20
         /\ RootDevice.type = "partition" /\ present = {0}
<1>1. present = {0}
  BY DEF IInv, DeviceInv, Booting, Early
<1>2. Len(block_devs) >= 3 /\ (block_devs = <<Disk(0)>> \/ block_devs = <<Disk(0)>> \o Partitions(0))
  BY DEF IInv, DeviceInv, Booting, Early, RootIndex
<1>3. /\ parts[0] \in 0 .. 4 /\ Disk(0) \in Devs /\ Partitions(0) \in Seq(Devs)
      /\ Len(Partitions(0)) = parts[0]
      /\ parts[0] >= 2 => Partitions(0)[2] = Partition(0, 2)
  BY <1>1, PartFacts DEF IInv
<1>4. /\ Len(<<Disk(0)>>) = 1
      /\ Len(<<Disk(0)>> \o Partitions(0)) = parts[0] + 1
      /\ parts[0] >= 2 => (<<Disk(0)>> \o Partitions(0))[3] = Partitions(0)[2]
  BY <1>3, SeqFacts
<1>5. block_devs[3] = Partition(0, 2)
  BY <1>2, <1>3, <1>4
<1>6. RootDevice = Partition(0, 2)
  BY <1>5 DEF RootDevice, RootIndex
<1> QED BY <1>1, <1>6 DEF RootLock, Partition

-----------------------------------------------------------------------------
(* The state fetch_storage starts in.                                      *)
LEMMA InitInv == Init => IInv
<1> SUFFICES ASSUME Init PROVE IInv
  OBVIOUS
<1>1. TypeOK
  <2>1. present \in Layouts /\ parts \in [present -> PartCounts] /\ pc \in Pcs /\ irq_on \in BOOLEAN
    BY DEF Init, Pcs
  <2>2. /\ locked \in [Drives -> BOOLEAN] /\ irq_data \in [Drives -> BOOLEAN]
        /\ queue \in [Channels -> Seq(Requests)] /\ hw \in [Channels -> Seq(Requests)]
        /\ drive \in [Channels -> Outcomes] /\ irr \in [Channels -> BOOLEAN]
    BY DEF Init, Outcomes
  <2>3. mem \in [Ids -> Nat \cup {Garbage}] /\ live \subseteq Kinds \X Ids /\ Len(block_devs) <= 128
    BY DEF Init
  <2>4. reads \in 0 .. MaxReads /\ block \in Blocks \cup {0} /\ got \in Nat \cup {Garbage, None}
    BY MaxReadsAssumption DEF Init
  <2>5. done \in BOOLEAN /\ status \in Statuses
    BY DEF Init, Statuses
  <2> QED BY <2>1, <2>2, <2>3, <2>4, <2>5 DEF TypeOK
<1>2. LockInv
  BY DEF Init, LockInv, Early, Holding
<1>3. ChannelInv /\ queue[0] = <<>>
  BY DEF Init, ChannelInv, Channels
<1>4. DeviceInv
  BY <1>3 DEF Init, DeviceInv, Booting, Early
<1>a. ReadInv
  BY DEF Init, ReadInv, Booting, Early, Waiting, Copying, Submits, HeapPcs
<1>5. LiveInv
  <2>1. queue[0] # <<MbrRead>> /\ queue[0] # <<FileRead>>
    BY <1>3
  <2>2. pc \in Booting /\ live = {}
    BY DEF Init, Booting, Early
  <2>3. LiveNow = {}
    BY <1>3, <2>2 DEF LiveNow
  <2> QED BY <2>1, <2>2, <2>3 DEF LiveInv
<1>6. MemInv
  BY DEF Init, MemInv, Booting, Early, Copying, Waiting, Ids
<1> QED BY <1>1, <1>2, <1>3, <1>4, <1>a, <1>5, <1>6 DEF IInv

(* A step of fs_read_bytes that leaves devices and controller alone.       *)
LEMMA QuietInv ==
  ASSUME IInv, status = "run", pc \notin Booting, pc' \notin Booting,
         UNCHANGED <<cfg_vars, dev_vars, block_devs, status>>,
         queue[0] = <<>> \/ (UNCHANGED <<reads, block>> /\ pc' \in Waiting)
  PROVE  ChannelInv' /\ DeviceInv'
<1> USE DEF cfg_vars, dev_vars, ChannelInv, DeviceInv, MbrRead, FileRead, ReadId, Partitions
<1>1. ChannelInv'
  <2>1. CASE queue[0] = <<>>
    BY <2>1 DEF IInv
  <2>2. CASE queue[0] # <<>>
    <3>1. queue[0] = <<FileRead>> /\ pc' \in Waiting /\ UNCHANGED <<reads, block>>
      BY <2>2 DEF IInv
    <3>2. FileRead' = FileRead
      BY <3>1
    <3> QED BY <3>1, <3>2 DEF IInv
  <2> QED BY <2>1, <2>2
<1>2. DeviceInv'
  BY DEF IInv, Booting, Early
<1> QED BY <1>1, <1>2

(* The buffer of a read.                                                   *)
LEMMA KvallocInv == IInv /\ kvalloc_pages => IInv'
<1> SUFFICES ASSUME IInv, kvalloc_pages PROVE IInv'
  OBVIOUS
<1> USE DEF kvalloc_pages, Goto, Main, cfg_vars, lock_vars, dev_vars, read_vars
<1>0. /\ TypeOK /\ reads > 0 /\ status = "run" /\ pc \notin Booting /\ pc' \notin Booting
      /\ queue[0] = <<>>
  BY DEF IInv, ReadInv, DeviceInv, ChannelInv, Booting, Early, Waiting
<1>1. TypeOK'
  BY <1>0, ReadFacts DEF TypeOK, Pcs, HeapPcs, Vbuffer
<1>2. LockInv'
  BY <1>0 DEF IInv, LockInv, Early, Holding
<1>3. ChannelInv' /\ DeviceInv'
  BY <1>0, QuietInv
<1>4. ReadInv'
  BY <1>0 DEF IInv, ReadInv, Booting, Early, Waiting, Copying, Submits, HeapPcs
<1>5. LiveInv'
  BY <1>0 DEF IInv, LiveInv, LiveNow, Booting, Early, Waiting, Submits, Vbuffer, User, OfDisk, ReadId, MbrRead, FileRead
<1>6. MemInv'
  BY <1>0 DEF IInv, MemInv, Booting, Early, Copying, Waiting, ReadId
<1> QED BY <1>1, <1>2, <1>3, <1>4, <1>5, <1>6 DEF IInv

(* The request for the partition.                                          *)
LEMMA GenerateInv == IInv /\ block_req_generate => IInv'
<1> SUFFICES ASSUME IInv, block_req_generate PROVE IInv'
  OBVIOUS
<1> USE DEF block_req_generate, Goto, Main, cfg_vars, lock_vars, dev_vars, read_vars
<1>0. /\ TypeOK /\ reads > 0 /\ status = "run" /\ pc \notin Booting /\ pc' \notin Booting
      /\ queue[0] = <<>>
  BY DEF IInv, ReadInv, DeviceInv, ChannelInv, Booting, Early, Waiting, HeapPcs
<1>1. TypeOK'
  BY <1>0, ReadFacts, RootFacts DEF TypeOK, Pcs, HeapPcs, User
<1>2. LockInv'
  BY <1>0, RootFacts DEF IInv, LockInv, Early, Holding
<1>3. ChannelInv' /\ DeviceInv'
  BY <1>0, RootFacts, QuietInv
<1>4. ReadInv'
  BY <1>0, RootFacts DEF IInv, ReadInv, Booting, Early, Waiting, Copying, Submits, HeapPcs
<1>5. LiveInv'
  BY <1>0, RootFacts DEF IInv, LiveInv, LiveNow, Booting, Early, Waiting, Submits, Vbuffer, User, OfDisk, ReadId, MbrRead, FileRead
<1>6. MemInv'
  BY <1>0, RootFacts DEF IInv, MemInv, Booting, Early, Copying, Waiting, ReadId
<1> QED BY <1>1, <1>2, <1>3, <1>4, <1>5, <1>6 DEF IInv

(* The request for its disk.                                               *)
LEMMA PartitionInv == IInv /\ block_submit_partition => IInv'
<1> SUFFICES ASSUME IInv, block_submit_partition PROVE IInv'
  OBVIOUS
<1> USE DEF block_submit_partition, Goto, Main, cfg_vars, lock_vars, dev_vars, read_vars
<1>0. /\ TypeOK /\ reads > 0 /\ status = "run" /\ pc \notin Booting /\ pc' \notin Booting
      /\ queue[0] = <<>>
  BY DEF IInv, ReadInv, DeviceInv, ChannelInv, Booting, Early, Waiting
<1>1. TypeOK'
  BY <1>0, ReadFacts DEF TypeOK, Pcs, HeapPcs, OfDisk
<1>2. LockInv'
  BY <1>0 DEF IInv, LockInv, Early, Holding
<1>3. ChannelInv' /\ DeviceInv'
  BY <1>0, QuietInv
<1>4. ReadInv'
  BY <1>0 DEF IInv, ReadInv, Booting, Early, Waiting, Copying, Submits, HeapPcs
<1>5. LiveInv'
  BY <1>0 DEF IInv, LiveInv, LiveNow, Booting, Early, Waiting, Submits, Vbuffer, User, OfDisk, ReadId, MbrRead, FileRead
<1>6. MemInv'
  BY <1>0 DEF IInv, MemInv, Booting, Early, Copying, Waiting, ReadId
<1> QED BY <1>1, <1>2, <1>3, <1>4, <1>5, <1>6 DEF IInv

(* The first lock of a submission.                                         *)
LEMMA CheckLockInv == IInv /\ check_lock => IInv'
<1> SUFFICES ASSUME IInv, check_lock PROVE IInv'
  OBVIOUS
<1> USE DEF check_lock, Goto, Main, cfg_vars, lock_vars, dev_vars, read_vars, spinlock_lock
<1>0. /\ TypeOK /\ reads > 0 /\ status = "run" /\ pc \notin Booting /\ pc' \notin Booting
      /\ queue[0] = <<>>
  BY DEF IInv, ReadInv, DeviceInv, ChannelInv, Booting, Early, Waiting
<1>a. /\ status' = "run" /\ irq_on' = FALSE
      /\ locked' = [locked EXCEPT ![0] = TRUE] /\ irq_data' = [irq_data EXCEPT ![0] = TRUE]
  <2>1. RootLock = 0 /\ irq_on = TRUE /\ locked[0] = FALSE
    BY <1>0, RootFacts DEF IInv, TypeOK, LockInv, Early, Holding, Drives
  <2> QED BY <1>0, <2>1
<1>1. TypeOK'
  BY <1>0, <1>a DEF TypeOK, Pcs, HeapPcs
<1>2. LockInv'
  <2>1. pc' \in Holding /\ pc' \notin Early /\ pc \notin Early \cup Holding
    BY DEF Early, Holding
  <2>2. \A d \in Drives : locked'[d] <=> (d = 0 /\ pc' \in Holding)
    BY <1>0, <1>a, <2>1 DEF IInv, TypeOK, LockInv, Drives
  <2> QED BY <1>0, <1>a, <2>1, <2>2 DEF IInv, TypeOK, LockInv, Drives
<1>3. ChannelInv' /\ DeviceInv'
  BY <1>0, <1>a, QuietInv
<1>4. ReadInv'
  BY <1>0, <1>a DEF IInv, ReadInv, Booting, Early, Waiting, Copying, Submits, HeapPcs
<1>5. LiveInv'
  BY <1>0, <1>a DEF IInv, LiveInv, LiveNow, Booting, Early, Waiting, Submits, Vbuffer, User, OfDisk, ReadId, MbrRead, FileRead
<1>6. MemInv'
  BY <1>0, <1>a DEF IInv, MemInv, Booting, Early, Copying, Waiting, ReadId
<1> QED BY <1>1, <1>2, <1>3, <1>4, <1>5, <1>6 DEF IInv

(* Its release.                                                            *)
LEMMA CheckUnlockInv == IInv /\ check_unlock => IInv'
<1> SUFFICES ASSUME IInv, check_unlock PROVE IInv'
  OBVIOUS
<1> USE DEF check_unlock, Goto, Main, cfg_vars, lock_vars, dev_vars, read_vars, spinlock_unlock
<1>0. /\ TypeOK /\ reads > 0 /\ status = "run" /\ pc \notin Booting /\ pc' \notin Booting
      /\ queue[0] = <<>>
  BY DEF IInv, ReadInv, DeviceInv, ChannelInv, Booting, Early, Waiting
<1>a. irq_on' = TRUE /\ locked' = [locked EXCEPT ![0] = FALSE] /\ UNCHANGED irq_data
  <2>1. RootLock = 0 /\ irq_data[0] = TRUE
    BY <1>0, RootFacts DEF IInv, LockInv, Holding
  <2> QED BY <1>0, <2>1
<1>1. TypeOK'
  BY <1>0, <1>a DEF TypeOK, Pcs, HeapPcs
<1>2. LockInv'
  <2>1. pc' \notin Holding /\ pc' \notin Early /\ pc \in Holding
    BY DEF Early, Holding
  <2>2. \A d \in Drives : locked'[d] <=> (d = 0 /\ pc' \in Holding)
    BY <1>0, <1>a, <2>1 DEF IInv, TypeOK, LockInv, Drives
  <2> QED BY <1>0, <1>a, <2>1, <2>2 DEF IInv, TypeOK, LockInv, Drives
<1>3. ChannelInv' /\ DeviceInv'
  BY <1>0, QuietInv
<1>4. ReadInv'
  BY <1>0 DEF IInv, ReadInv, Booting, Early, Waiting, Copying, Submits, HeapPcs
<1>5. LiveInv'
  BY <1>0 DEF IInv, LiveInv, LiveNow, Booting, Early, Waiting, Submits, Vbuffer, User, OfDisk, ReadId, MbrRead, FileRead
<1>6. MemInv'
  BY <1>0 DEF IInv, MemInv, Booting, Early, Copying, Waiting, ReadId
<1> QED BY <1>1, <1>2, <1>3, <1>4, <1>5, <1>6 DEF IInv

(* The saved flag is cleared after the release.                            *)
LEMMA CheckClearInv == IInv /\ check_clear => IInv'
<1> SUFFICES ASSUME IInv, check_clear PROVE IInv'
  OBVIOUS
<1> USE DEF check_clear, Goto, Main, cfg_vars, lock_vars, dev_vars, read_vars, spinlock_clear
<1>0. /\ TypeOK /\ reads > 0 /\ status = "run" /\ pc \notin Booting /\ pc' \notin Booting
      /\ queue[0] = <<>>
  BY DEF IInv, ReadInv, DeviceInv, ChannelInv, Booting, Early, Waiting
<1>1. TypeOK'
  BY <1>0, RootFacts DEF TypeOK, Pcs, HeapPcs
<1>2. LockInv'
  BY <1>0, RootFacts DEF IInv, LockInv, Early, Holding
<1>3. ChannelInv' /\ DeviceInv'
  BY <1>0, QuietInv
<1>4. ReadInv'
  BY <1>0 DEF IInv, ReadInv, Booting, Early, Waiting, Copying, Submits, HeapPcs
<1>5. LiveInv'
  BY <1>0 DEF IInv, LiveInv, LiveNow, Booting, Early, Waiting, Submits, Vbuffer, User, OfDisk, ReadId, MbrRead, FileRead
<1>6. MemInv'
  BY <1>0 DEF IInv, MemInv, Booting, Early, Copying, Waiting, ReadId
<1> QED BY <1>1, <1>2, <1>3, <1>4, <1>5, <1>6 DEF IInv

(* The request for the storage layer.                                      *)
LEMMA MakeInv == IInv /\ block_disk_make_stor_request => IInv'
<1> SUFFICES ASSUME IInv, block_disk_make_stor_request PROVE IInv'
  OBVIOUS
<1> USE DEF block_disk_make_stor_request, Goto, Main, cfg_vars, lock_vars, dev_vars, read_vars
<1>0. /\ TypeOK /\ reads > 0 /\ status = "run" /\ pc \notin Booting /\ pc' \notin Booting
      /\ queue[0] = <<>>
  BY DEF IInv, ReadInv, DeviceInv, ChannelInv, Booting, Early, Waiting
<1>1. TypeOK'
  BY <1>0 DEF TypeOK, Pcs, HeapPcs
<1>2. LockInv'
  BY <1>0 DEF IInv, LockInv, Early, Holding
<1>3. ChannelInv' /\ DeviceInv'
  BY <1>0, QuietInv
<1>4. ReadInv'
  BY <1>0 DEF IInv, ReadInv, Booting, Early, Waiting, Copying, Submits, HeapPcs
<1>5. LiveInv'
  BY <1>0 DEF IInv, LiveInv, LiveNow, Booting, Early, Waiting, Submits, Vbuffer, User, OfDisk, ReadId, MbrRead, FileRead
<1>6. MemInv'
  BY <1>0 DEF IInv, MemInv, Booting, Early, Copying, Waiting, ReadId
<1> QED BY <1>1, <1>2, <1>3, <1>4, <1>5, <1>6 DEF IInv

(* The second lock of a submission.                                        *)
LEMMA SubmitLockInv == IInv /\ submit_lock => IInv'
<1> SUFFICES ASSUME IInv, submit_lock PROVE IInv'
  OBVIOUS
<1> USE DEF submit_lock, Goto, Main, cfg_vars, lock_vars, dev_vars, read_vars, spinlock_lock
<1>0. /\ TypeOK /\ reads > 0 /\ status = "run" /\ pc \notin Booting /\ pc' \notin Booting
      /\ queue[0] = <<>>
  BY DEF IInv, ReadInv, DeviceInv, ChannelInv, Booting, Early, Waiting
<1>a. /\ status' = "run" /\ irq_on' = FALSE
      /\ locked' = [locked EXCEPT ![0] = TRUE] /\ irq_data' = [irq_data EXCEPT ![0] = TRUE]
  <2>1. RootLock = 0 /\ irq_on = TRUE /\ locked[0] = FALSE
    BY <1>0, RootFacts DEF IInv, TypeOK, LockInv, Early, Holding, Drives
  <2> QED BY <1>0, <2>1
<1>1. TypeOK'
  BY <1>0, <1>a DEF TypeOK, Pcs, HeapPcs
<1>2. LockInv'
  <2>1. pc' \in Holding /\ pc' \notin Early /\ pc \notin Early \cup Holding
    BY DEF Early, Holding
  <2>2. \A d \in Drives : locked'[d] <=> (d = 0 /\ pc' \in Holding)
    BY <1>0, <1>a, <2>1 DEF IInv, TypeOK, LockInv, Drives
  <2> QED BY <1>0, <1>a, <2>1, <2>2 DEF IInv, TypeOK, LockInv, Drives
<1>3. ChannelInv' /\ DeviceInv'
  BY <1>0, <1>a, QuietInv
<1>4. ReadInv'
  BY <1>0, <1>a DEF IInv, ReadInv, Booting, Early, Waiting, Copying, Submits, HeapPcs
<1>5. LiveInv'
  BY <1>0, <1>a DEF IInv, LiveInv, LiveNow, Booting, Early, Waiting, Submits, Vbuffer, User, OfDisk, ReadId, MbrRead, FileRead
<1>6. MemInv'
  BY <1>0, <1>a DEF IInv, MemInv, Booting, Early, Copying, Waiting, ReadId
<1> QED BY <1>1, <1>2, <1>3, <1>4, <1>5, <1>6 DEF IInv

(* Its saved flag is cleared while the request is under way.               *)
LEMMA SubmitClearInv == IInv /\ submit_clear => IInv'
<1> SUFFICES ASSUME IInv, submit_clear PROVE IInv'
  OBVIOUS
<1> USE DEF submit_clear, Goto, Main, cfg_vars, lock_vars, dev_vars, read_vars, spinlock_clear
<1>0. /\ TypeOK /\ reads > 0 /\ status = "run" /\ pc \notin Booting /\ pc' \notin Booting
      /\ (queue[0] = <<>> \/ (UNCHANGED <<reads, block>> /\ pc' \in Waiting))
  BY DEF IInv, ReadInv, DeviceInv, ChannelInv, Booting, Early, Waiting
<1>1. TypeOK'
  BY <1>0, RootFacts DEF TypeOK, Pcs, HeapPcs
<1>2. LockInv'
  BY <1>0, RootFacts DEF IInv, LockInv, Early, Holding
<1>3. ChannelInv' /\ DeviceInv'
  BY <1>0, QuietInv
<1>4. ReadInv'
  BY <1>0 DEF IInv, ReadInv, Booting, Early, Waiting, Copying, Submits, HeapPcs
<1>5. LiveInv'
  BY <1>0 DEF IInv, LiveInv, LiveNow, Booting, Early, Waiting, Submits, Vbuffer, User, OfDisk, ReadId, MbrRead, FileRead
<1>6. MemInv'
  BY <1>0 DEF IInv, MemInv, Booting, Early, Copying, Waiting, ReadId
<1> QED BY <1>1, <1>2, <1>3, <1>4, <1>5, <1>6 DEF IInv

(* The wait ends when the flag is set.                                     *)
LEMMA WaitInv == IInv /\ wait_done => IInv'
<1> SUFFICES ASSUME IInv, wait_done PROVE IInv'
  OBVIOUS
<1> USE DEF wait_done, Goto, Main, cfg_vars, lock_vars, dev_vars, read_vars
<1>0. /\ TypeOK /\ reads > 0 /\ status = "run" /\ pc \notin Booting /\ pc' \notin Booting
      /\ queue[0] = <<>>
  BY DEF IInv, ReadInv, DeviceInv, ChannelInv, Booting, Early, Waiting
<1>1. TypeOK'
  BY <1>0 DEF TypeOK, Pcs, HeapPcs
<1>2. LockInv'
  BY <1>0 DEF IInv, LockInv, Early, Holding
<1>3. ChannelInv' /\ DeviceInv'
  BY <1>0, QuietInv
<1>4. ReadInv'
  BY <1>0 DEF IInv, ReadInv, Booting, Early, Waiting, Copying, Submits, HeapPcs
<1>5. LiveInv'
  BY <1>0 DEF IInv, LiveInv, LiveNow, Booting, Early, Waiting, Submits, Vbuffer, User, OfDisk, ReadId, MbrRead, FileRead
<1>6. MemInv'
  BY <1>0 DEF IInv, MemInv, Booting, Early, Copying, Waiting, ReadId
<1> QED BY <1>1, <1>2, <1>3, <1>4, <1>5, <1>6 DEF IInv

(* The copy.                                                               *)
LEMMA MemcpyInv == IInv /\ memcpy_buffer => IInv'
<1> SUFFICES ASSUME IInv, memcpy_buffer PROVE IInv'
  OBVIOUS
<1> USE DEF memcpy_buffer, Goto, Main, cfg_vars, lock_vars, dev_vars, read_vars
<1>0. /\ TypeOK /\ reads > 0 /\ status = "run" /\ pc \notin Booting /\ pc' \notin Booting
      /\ queue[0] = <<>>
  BY DEF IInv, ReadInv, DeviceInv, ChannelInv, Booting, Early, Waiting
<1>1. TypeOK'
  BY <1>0, ReadFacts DEF TypeOK, Pcs, HeapPcs
<1>2. LockInv'
  BY <1>0 DEF IInv, LockInv, Early, Holding
<1>3. ChannelInv' /\ DeviceInv'
  BY <1>0, QuietInv
<1>4. ReadInv'
  BY <1>0 DEF IInv, ReadInv, Booting, Early, Waiting, Copying, Submits, HeapPcs
<1>5. LiveInv'
  BY <1>0 DEF IInv, LiveInv, LiveNow, Booting, Early, Waiting, Submits, Vbuffer, User, OfDisk, ReadId, MbrRead, FileRead
<1>6. MemInv'
  BY <1>0 DEF IInv, MemInv, Booting, Early, Copying, Waiting, ReadId
<1> QED BY <1>1, <1>2, <1>3, <1>4, <1>5, <1>6 DEF IInv

(* The buffer is released.                                                 *)
LEMMA KvfreeInv == IInv /\ kvfree_pages => IInv'
<1> SUFFICES ASSUME IInv, kvfree_pages PROVE IInv'
  OBVIOUS
<1> USE DEF kvfree_pages, Goto, Main, cfg_vars, lock_vars, dev_vars, read_vars
<1>0. /\ TypeOK /\ reads > 0 /\ status = "run" /\ pc \notin Booting /\ pc' \notin Booting
      /\ queue[0] = <<>>
  BY DEF IInv, ReadInv, DeviceInv, ChannelInv, Booting, Early, Waiting
<1>1. TypeOK'
  BY <1>0 DEF TypeOK, Pcs, HeapPcs
<1>2. LockInv'
  BY <1>0 DEF IInv, LockInv, Early, Holding
<1>3. ChannelInv' /\ DeviceInv'
  BY <1>0, QuietInv
<1>4. ReadInv'
  BY <1>0 DEF IInv, ReadInv, Booting, Early, Waiting, Copying, Submits, HeapPcs
<1>5. LiveInv'
  BY <1>0 DEF IInv, LiveInv, LiveNow, Booting, Early, Waiting, Submits, Vbuffer, User, OfDisk, ReadId, MbrRead, FileRead
<1>6. MemInv'
  BY <1>0 DEF IInv, MemInv, Booting, Early, Copying, Waiting, ReadId
<1> QED BY <1>1, <1>2, <1>3, <1>4, <1>5, <1>6 DEF IInv

(* kernel_main calls fs_read_bytes again.                                  *)
LEMMA FsReadInv == ASSUME NEW b \in Blocks PROVE IInv /\ fs_read_bytes(b) => IInv'
<1> SUFFICES ASSUME IInv, fs_read_bytes(b) PROVE IInv'
  OBVIOUS
<1> USE DEF fs_read_bytes, Goto, Main, cfg_vars, lock_vars, dev_vars
<1>0. /\ TypeOK /\ status = "run" /\ pc \notin Booting /\ pc' \notin Booting
      /\ queue[0] = <<>> /\ reads' = reads + 1 /\ reads' \in 1 .. MaxReads
  <2>1. TypeOK /\ status = "run" /\ pc \notin Booting /\ pc' \notin Booting
    BY DEF IInv, Booting, Early
  <2>2. queue[0] = <<>>
    BY <2>1 DEF IInv, ChannelInv, DeviceInv, Waiting
  <2> QED BY <2>1, <2>2, MaxReadsAssumption DEF TypeOK
<1>1. TypeOK'
  <2>1. block' \in Blocks \cup {0} /\ got' \in Nat \cup {Garbage, None} /\ reads' \in 0 .. MaxReads
    BY <1>0
  <2>2. done' \in BOOLEAN /\ pc' \in Pcs
    BY DEF Pcs, HeapPcs
  <2> QED BY <1>0, <2>1, <2>2 DEF TypeOK
<1>2. LockInv'
  BY <1>0 DEF IInv, LockInv, Early, Holding
<1>3. ChannelInv' /\ DeviceInv'
  BY <1>0, QuietInv
<1>4. ReadInv'
  BY <1>0 DEF ReadInv, Booting, Early, Waiting, Copying, Submits, HeapPcs
<1>5. LiveInv'
  <2>1. queue'[0] # <<MbrRead>>' /\ queue'[0] # <<FileRead>>'
    BY <1>0
  <2>2. live' = {} /\ LiveNow' = {}
    BY <1>0 DEF IInv, LiveInv, LiveNow, Booting, Early
  <2> QED BY <2>1, <2>2 DEF LiveInv
<1>6. MemInv'
  <2>1. \A n \in 1 .. MaxReads : n > reads => mem[<<"fs", n>>] = Garbage
    BY DEF IInv, MemInv
  <2>2. mem[<<"fs", reads'>>] = Garbage
    BY <1>0, <2>1 DEF TypeOK
  <2>3. \A n \in 1 .. MaxReads : n > reads' => mem[<<"fs", n>>] = Garbage
    BY <1>0, <2>1 DEF TypeOK
  <2> QED BY <1>0, <2>2, <2>3 DEF MemInv, Waiting, Copying, ReadId
<1> QED BY <1>1, <1>2, <1>3, <1>4, <1>5, <1>6 DEF IInv

(* On the idle first channel ide_submit passes its assertion.              *)
LEMMA SubmitFacts ==
  ASSUME 0 \in present, queue[0] = <<>>, NEW r, r.disk = 0, ide_submit(r)
  PROVE  /\ queue' = [queue EXCEPT ![0] = <<r>>]
         /\ hw' = [hw EXCEPT ![0] = <<r>>]
         /\ status' = status
<1>1. Channel(0) = 0
  BY DEF Channel
<1>2. DeviceChannel(Channel(0)) = 0
  BY <1>1 DEF DeviceChannel
<1>3. Append(queue[0], r) = <<r>>
  OBVIOUS
<1> QED BY <1>1, <1>2, <1>3 DEF ide_submit, make_request_ok, make_request

(* The request is started, and the lock released.                          *)
LEMMA StorSubmitInv == IInv /\ stor_submit => IInv'
<1> SUFFICES ASSUME IInv, stor_submit PROVE IInv'
  OBVIOUS
<1> USE DEF stor_submit, Goto, Main, cfg_vars, read_vars
<1>0. /\ TypeOK /\ status = "run" /\ pc = "submit_unlock" /\ pc' = "submit_clear" /\ pc \notin Booting
      /\ reads > 0 /\ queue[0] = <<>> /\ irr[0] = FALSE /\ ~ done
  <2>1. TypeOK /\ status = "run" /\ pc = "submit_unlock" /\ pc' = "submit_clear" /\ pc \notin Booting
    BY DEF IInv, Booting, Early
  <2>2. reads > 0 /\ ~ done
    BY <2>1 DEF IInv, ReadInv, Submits, Booting, Early
  <2>3. queue[0] = <<>> /\ irr[0] = FALSE
    BY <2>1 DEF IInv, ChannelInv, Waiting, Booting, Early
  <2> QED BY <2>1, <2>2, <2>3
<1>a. RootLock = 0 /\ disk_block = 20 + block /\ present = {0}
  BY <1>0, RootFacts DEF disk_block
<1>b. /\ queue' = [queue EXCEPT ![0] = <<FileRead>>]
      /\ hw' = [hw EXCEPT ![0] = <<FileRead>>]
      /\ status' = "run"
  <2>1. ide_submit(FileRead) /\ FileRead.disk = 0
    BY <1>a DEF FileRead, Request
  <2> QED BY <1>0, <1>a, <2>1, SubmitFacts
<1>c. FileRead' = FileRead /\ FileRead \in Requests /\ ReadId' = ReadId
  BY <1>0, ReadFacts DEF FileRead, ReadId
<1>d. irq_on' = TRUE /\ locked' = [locked EXCEPT ![0] = FALSE] /\ UNCHANGED irq_data
  <2>1. irq_data[0] = TRUE
    BY <1>0 DEF IInv, LockInv, Holding
  <2> QED BY <1>a, <2>1 DEF spinlock_unlock
<1>e. queue'[0] = <<FileRead>> /\ hw'[0] = <<FileRead>> /\ queue'[1] = queue[1] /\ hw'[1] = hw[1]
  BY <1>0, <1>b DEF TypeOK, Channels
<1>f. <<FileRead>> # <<MbrRead>> /\ <<FileRead>> # <<>>
  <2>1. FileRead.id # MbrRead.id
    BY <1>0, ReadFacts DEF FileRead, MbrRead, Request
  <2> QED BY <2>1
<1>1. TypeOK'
  <2>1. queue' \in [Channels -> Seq(Requests)] /\ hw' \in [Channels -> Seq(Requests)]
    BY <1>0, <1>b, <1>c DEF TypeOK, Channels
  <2>2. irq_on' \in BOOLEAN /\ locked' \in [Drives -> BOOLEAN] /\ irq_data' \in [Drives -> BOOLEAN]
    BY <1>0, <1>d DEF TypeOK
  <2>3. pc' \in Pcs /\ live' \subseteq Kinds \X Ids
    BY <1>0, ReadFacts DEF TypeOK, Pcs
  <2> QED BY <1>0, <1>b, <2>1, <2>2, <2>3 DEF TypeOK
<1>2. LockInv'
  <2>1. \A d \in Drives : locked'[d] <=> (d = 0 /\ pc' \in Holding)
    BY <1>0, <1>d DEF IInv, TypeOK, LockInv, Drives, Holding
  <2> QED BY <1>0, <1>b, <1>d, <2>1 DEF LockInv, Early, Holding
<1>3. ChannelInv'
  BY <1>0, <1>c, <1>e DEF IInv, ChannelInv, Waiting
<1>4. DeviceInv'
  BY <1>0, <1>b, <1>e, <1>f DEF IInv, DeviceInv, Booting, Early, Waiting, Partitions, MbrRead
<1>5. ReadInv'
  BY <1>0, <1>e, <1>f DEF ReadInv, Waiting, Copying, Submits, HeapPcs
<1>6. LiveInv'
  <2>1. live = {Vbuffer, User, OfDisk}
    BY <1>0 DEF IInv, LiveInv, LiveNow, Submits
  <2>2. live' = {Vbuffer} \cup Objects(ReadId)
    BY <1>0, <2>1, ReadFacts
  <2>3. Vbuffer' = Vbuffer /\ Objects(ReadId)' = Objects(ReadId) /\ MbrRead' = MbrRead
    BY <1>c DEF Vbuffer, MbrRead
  <2>4. LiveNow' = {Vbuffer} \cup Objects(ReadId)
    BY <1>0, <2>3 DEF LiveNow, Booting, Early, Submits, Waiting
  <2> QED BY <1>c, <1>e, <1>f, <2>2, <2>3, <2>4 DEF LiveInv
<1>7. MemInv'
  <2>1. mem[ReadId] = Garbage
    BY <1>0 DEF IInv, MemInv, Booting, Early, Waiting, Copying
  <2> QED BY <1>0, <1>c, <2>1 DEF IInv, MemInv, Booting, Early, Waiting, Copying
<1> QED BY <1>1, <1>2, <1>3, <1>4, <1>5, <1>6, <1>7 DEF IInv

(* The names of the two requests differ, and so do their queues.           *)
LEMMA QueueFacts ==
  /\ <<MbrRead>> # <<>> /\ <<FileRead>> # <<>> /\ <<FileRead>> # <<MbrRead>>
  /\ MbrRead.id = MbrId(0) /\ MbrRead.disk = 0 /\ MbrRead.lba = 0
  /\ FileRead.id = ReadId /\ FileRead.disk = 0 /\ FileRead.lba = 20 + block
<1>1. /\ MbrRead.id = MbrId(0) /\ MbrRead.disk = 0 /\ MbrRead.lba = 0
      /\ FileRead.id = ReadId /\ FileRead.disk = 0 /\ FileRead.lba = 20 + block
  BY DEF MbrRead, FileRead, Request
<1>2. ReadId # MbrId(0)
  BY DEF ReadId, MbrId
<1> QED BY <1>1, <1>2

LEMMA OneElement == \A x : Head(<<x>>) = x /\ Tail(<<x>>) = <<>> /\ <<x>> \o <<>> = <<x>>
  OBVIOUS

(* The controller ends a command: the one at the head of the first         *)
(* channel's queue.                                                        *)
LEMMA ControllerInv ==
  ASSUME NEW c \in Channels, NEW o \in Outcomes
  PROVE  IInv /\ controller_complete(c, o) => IInv'
<1> SUFFICES ASSUME IInv, controller_complete(c, o) PROVE IInv'
  OBVIOUS
<1> USE DEF controller_complete, cfg_vars, lock_vars, read_vars
<1>0. c = 0 /\ queue[0] # <<>> /\ hw[0] = queue[0] /\ irr[0] = FALSE /\ TypeOK
  <2>1. c = 0
    BY DEF IInv, ChannelInv, Channels
  <2> QED BY <2>1 DEF IInv, TypeOK, ChannelInv, Channels
<1>a. UNCHANGED <<MbrRead, FileRead, ReadId, Vbuffer, User, OfDisk, LiveNow, Partitions(0)>>
  BY DEF MbrRead, FileRead, ReadId, Vbuffer, User, OfDisk, LiveNow, Partitions
<1>b. hw' = [hw EXCEPT ![0] = <<>>] /\ irr' = [irr EXCEPT ![0] = TRUE] /\ drive' = [drive EXCEPT ![0] = o]
  BY <1>0
<1>c. hw'[0] = <<>> /\ hw'[1] = hw[1] /\ irr'[0] = TRUE /\ irr'[1] = irr[1] /\ drive'[0] = o
  BY <1>0, <1>b DEF TypeOK, Channels
<1>d. mem' \in [Ids -> Nat \cup {Garbage}]
  <2>1. queue[0][1] \in Requests
    BY <1>0 DEF TypeOK, Channels
  <2>2. hw[c][1].id \in Ids /\ hw[c][1].lba \in Nat
    BY <1>0, <2>1 DEF Requests
  <2> QED BY <1>0, <2>2 DEF TypeOK
<1>1. TypeOK'
  <2>1. hw' \in [Channels -> Seq(Requests)] /\ irr' \in [Channels -> BOOLEAN] /\ drive' \in [Channels -> Outcomes]
    BY <1>0, <1>b DEF TypeOK
  <2> QED BY <1>0, <1>d, <2>1 DEF TypeOK
<1>2. LockInv'
  BY DEF IInv, LockInv
<1>3. ChannelInv'
  BY <1>0, <1>a, <1>c DEF IInv, ChannelInv
<1>4. DeviceInv'
  BY <1>a DEF IInv, DeviceInv
<1>5. ReadInv'
  BY <1>a DEF IInv, ReadInv
<1>6. LiveInv'
  BY <1>a DEF IInv, LiveInv
<1>7. MemInv'
  <2>1. CASE queue[0] = <<MbrRead>>
    <3>1. hw[c][1].id = MbrId(0) /\ pc \in Booting \cup {"vfs"}
      <4>1. hw[c][1] = MbrRead
        BY <1>0, <2>1
      <4>2. pc \in Booting \cup {"vfs"}
        BY <2>1, QueueFacts DEF IInv, ChannelInv
      <4> QED BY <4>1, <4>2, QueueFacts
    <3>2. \A n \in 1 .. MaxReads : mem'[<<"fs", n>>] = mem[<<"fs", n>>]
      <4>1. \A n \in 1 .. MaxReads : <<"fs", n>> \in Ids /\ <<"fs", n>> # MbrId(0)
        BY DEF Ids, MbrId
      <4> QED BY <1>0, <3>1, <4>1 DEF TypeOK
    <3> QED BY <3>1, <3>2 DEF IInv, MemInv, Booting, Early
  <2>2. CASE queue[0] = <<FileRead>>
    <3>1. hw[c][1].id = ReadId /\ hw[c][1].lba = 20 + block /\ pc \in Waiting
      <4>1. hw[c][1] = FileRead
        BY <1>0, <2>2
      <4>2. pc \in Waiting
        BY <2>2, QueueFacts DEF IInv, ChannelInv
      <4> QED BY <4>1, <4>2, QueueFacts
    <3>2. reads > 0 /\ ReadId \in Ids
      BY <1>0, <3>1, ReadFacts DEF IInv, ReadInv, Waiting, Booting, Early
    <3>3. \A n \in 1 .. MaxReads : n > reads => mem'[<<"fs", n>>] = mem[<<"fs", n>>]
      BY <1>0, <3>1 DEF TypeOK, ReadId
    <3>4. mem[ReadId] = Garbage /\ (status = "run" => ~ done)
      BY <1>0, <3>1 DEF IInv, MemInv, ReadInv, Booting, Early, Waiting
    <3>5. mem'[ReadId] = IF o = "ok" THEN 20 + block ELSE Garbage
      BY <1>0, <3>1, <3>2, <3>4 DEF TypeOK
    <3> QED BY <1>0, <1>a, <1>c, <3>1, <3>3, <3>4, <3>5 DEF IInv, MemInv, Booting, Early, Waiting, Copying
  <2> QED BY <1>0, <2>1, <2>2 DEF IInv, ChannelInv
<1> QED BY <1>1, <1>2, <1>3, <1>4, <1>5, <1>6, <1>7 DEF IInv

(* The handler takes the only request off the first channel's queue.       *)
LEMMA IrqFacts ==
  ASSUME NEW c \in Channels, IInv, ide_irq(c)
  PROVE  /\ c = 0 /\ status = "run" /\ queue[0] # <<>> /\ queue[0] = <<Head(queue[0])>>
         /\ queue' = [queue EXCEPT ![0] = <<>>] /\ irr' = [irr EXCEPT ![0] = FALSE]
         /\ UNCHANGED <<hw, cfg_vars, pc, irq_on, locked, drive, mem, reads, block, got>>
         /\ irq_data' = [irq_data EXCEPT ![0] = FALSE]
         /\ request_callback(Head(queue[0]))
         /\ status' = IF drive[0] = "drive_err" THEN "aborted" ELSE "run"
         /\ pc \notin Early \cup Holding
<1> USE DEF cfg_vars
<1>1. c = 0 /\ status = "run" /\ irq_on /\ irr[0]
  BY DEF ide_irq, IInv, ChannelInv, Channels
<1>2. queue[0] # <<>> /\ (queue[0] = <<MbrRead>> \/ queue[0] = <<FileRead>>)
  BY <1>1 DEF IInv, ChannelInv
<1>3. pc \notin Early \cup Holding
  BY <1>1 DEF IInv, LockInv
<1>4. Head(queue[0]).disk = 0 /\ Tail(queue[0]) = <<>> /\ queue[0] = <<Head(queue[0])>>
  <2>1. Head(queue[0]) = MbrRead \/ Head(queue[0]) = FileRead
    BY <1>2, OneElement
  <2> QED BY <1>2, <2>1, OneElement, QueueFacts
<1>5. locked[0] = FALSE
  BY <1>3 DEF IInv, TypeOK, LockInv, Drives
<1>6. restart(<<>>, hw) = hw
  BY DEF restart
<1> QED BY <1>1, <1>2, <1>3, <1>4, <1>5, <1>6 DEF ide_irq, result_error

LEMMA IrqInv ==
  ASSUME NEW c \in Channels
  PROVE  IInv /\ ide_irq(c) => IInv'
<1> SUFFICES ASSUME IInv, ide_irq(c) PROVE IInv'
  OBVIOUS
<1> USE DEF cfg_vars
<1>0. /\ TypeOK /\ status = "run" /\ queue[0] # <<>> /\ queue[0] = <<Head(queue[0])>>
      /\ queue' = [queue EXCEPT ![0] = <<>>] /\ irr' = [irr EXCEPT ![0] = FALSE]
      /\ UNCHANGED <<hw, present, parts, pc, irq_on, locked, drive, mem, reads, block, got>>
      /\ irq_data' = [irq_data EXCEPT ![0] = FALSE]
      /\ request_callback(Head(queue[0]))
      /\ status' = IF drive[0] = "drive_err" THEN "aborted" ELSE "run"
      /\ pc \notin Early \cup Holding
  BY IrqFacts DEF IInv
<1>a. UNCHANGED <<MbrRead, FileRead, ReadId, Vbuffer, User, OfDisk, Partitions(0)>>
  BY <1>0 DEF MbrRead, FileRead, ReadId, Vbuffer, User, OfDisk, Partitions
<1>b. queue'[0] = <<>> /\ queue'[1] = queue[1] /\ irr'[0] = FALSE /\ irr'[1] = irr[1]
  BY <1>0 DEF TypeOK, Channels
<1>c. irr[0] = TRUE /\ hw[0] = <<>>
  <2>1. irr[0] = TRUE
    BY IrqFacts DEF ide_irq, TypeOK, IInv, Channels
  <2> QED BY <2>1 DEF IInv, ChannelInv
<1>d. queue' \in [Channels -> Seq(Requests)] /\ irr' \in [Channels -> BOOLEAN] /\ irq_data' \in [Drives -> BOOLEAN]
  <2>1. queue' \in [Channels -> Seq(Requests)]
    <3>1. queue \in [Channels -> Seq(Requests)] /\ queue' = [queue EXCEPT ![0] = <<>>]
      BY <1>0 DEF TypeOK
    <3>2. <<>> \in Seq(Requests)
      OBVIOUS
    <3> QED BY <3>1, <3>2
  <2>2. irr' \in [Channels -> BOOLEAN]
    BY <1>0 DEF TypeOK
  <2>3. irq_data' \in [Drives -> BOOLEAN]
    BY <1>0 DEF TypeOK
  <2> QED BY <2>1, <2>2, <2>3
<1>1. LockInv'
  BY <1>0 DEF IInv, LockInv, Early, Holding
<1>2. ChannelInv'
  BY <1>0, <1>a, <1>b, <1>c DEF IInv, ChannelInv
<1>3. CASE queue[0] = <<MbrRead>>
  <2>1. Head(queue[0]) = MbrRead /\ pc = "get_device"
    <3>1. Head(queue[0]) = MbrRead
      BY <1>3, OneElement
    <3>2. pc = "get_device"
      BY <1>0, <1>3, QueueFacts DEF IInv, ChannelInv, DeviceInv, Booting, Early
    <3> QED BY <3>1, <3>2
  <2>2. present = {0} /\ block_devs = <<Disk(0)>> /\ live = Objects(MbrId(0))
    <3>1. present = {0} /\ block_devs = <<Disk(0)>>
      BY <1>3, <2>1 DEF IInv, DeviceInv
    <3>2. LiveNow = Objects(MbrId(0))
      BY <1>3, <2>1, QueueFacts DEF LiveNow, Booting
    <3> QED BY <1>0, <3>1, <3>2 DEF IInv, LiveInv
  <2>3. live' = {} /\ done' = done /\ block_devs' = block_devs \o parse_mbr(MbrRead)
    BY <1>0, <2>1, <2>2, MbrFacts, QueueFacts DEF request_callback, TypeOK
  <2>4. block_devs' = <<Disk(0)>> \/ block_devs' = <<Disk(0)>> \o Partitions(0)
    BY <2>2, <2>3, OneElement, QueueFacts DEF parse_mbr
  <2>5. Len(block_devs') <= 128
    <3>1. parts[0] \in 0 .. 4 /\ Disk(0) \in Devs /\ Partitions(0) \in Seq(Devs) /\ Len(Partitions(0)) = parts[0]
      BY <1>0, <2>2, PartFacts
    <3>2. Len(<<Disk(0)>>) = 1 /\ Len(<<Disk(0)>> \o Partitions(0)) = parts[0] + 1
      BY <3>1, SeqFacts
    <3>3. Len(block_devs') = Len(<<Disk(0)>>) \/ Len(block_devs') = Len(<<Disk(0)>> \o Partitions(0))
      BY <2>4, Zenon
    <3>4. Len(block_devs') = 1 \/ Len(block_devs') = parts[0] + 1
      BY <3>2, <3>3, Zenon
    <3>5. \A m : (m = 1 \/ m = parts[0] + 1) => m <= 128
      BY <3>1
    <3> QED BY <3>4, <3>5, Zenon
  <2>6. TypeOK'
    <3>1. queue' \in [Channels -> Seq(Requests)] /\ irr' \in [Channels -> BOOLEAN] /\ irq_data' \in [Drives -> BOOLEAN]
      BY <1>d
    <3>2. status' \in Statuses /\ live' \subseteq Kinds \X Ids
      BY <1>0, <2>3 DEF Statuses
    <3> QED BY <1>0, <2>3, <2>5, <3>1, <3>2 DEF TypeOK
  <2>7. DeviceInv'
    BY <1>0, <1>a, <1>b, <2>1, <2>2, <2>4 DEF DeviceInv, Booting, Early
  <2>8. ReadInv'
    BY <1>0, <2>1 DEF ReadInv, Booting, Early, Waiting, Copying, Submits, HeapPcs
  <2>9. LiveInv'
    <3>1. queue'[0] # <<MbrRead>>' /\ queue'[0] # <<FileRead>>'
      BY <1>b, QueueFacts
    <3>2. LiveNow' = {}
      BY <1>0, <1>b, <2>1 DEF LiveNow, Booting, Early
    <3> QED BY <2>3, <3>1, <3>2 DEF LiveInv
  <2>10. MemInv'
    BY <1>0, <2>1 DEF IInv, MemInv, Booting, Early
  <2> QED BY <1>1, <1>2, <2>6, <2>7, <2>8, <2>9, <2>10 DEF IInv
<1>4. CASE queue[0] = <<FileRead>>
  <2>1. Head(queue[0]) = FileRead /\ pc \in Waiting
    <3>1. Head(queue[0]) = FileRead
      BY <1>4, OneElement
    <3>2. pc \in Waiting
      BY <1>4, QueueFacts DEF IInv, ChannelInv
    <3> QED BY <3>1, <3>2
  <2>2. reads > 0 /\ ~ done
    BY <1>0, <2>1 DEF IInv, ReadInv, Booting, Early, Waiting
  <2>3. live = {Vbuffer} \cup Objects(ReadId)
    BY <1>0, <2>1, <2>2 DEF IInv, LiveInv, LiveNow, Booting, Early, Submits, Waiting
  <2>4. Vbuffer \notin Objects(ReadId)
    BY <1>0, <2>2, ReadFacts DEF Vbuffer, User, OfDisk
  <2>5. live' = {Vbuffer} /\ done' = TRUE /\ block_devs' = block_devs
    BY <1>0, <2>1, <2>2, <2>3, <2>4, ReadFacts, QueueFacts DEF request_callback
  <2>6. TypeOK'
    <3>1. queue' \in [Channels -> Seq(Requests)] /\ irr' \in [Channels -> BOOLEAN] /\ irq_data' \in [Drives -> BOOLEAN]
      BY <1>d
    <3>2. status' \in Statuses /\ live' \subseteq Kinds \X Ids
      BY <1>0, <2>2, <2>5, ReadFacts DEF Statuses
    <3>3. done' \in BOOLEAN
      BY <2>5
    <3> QED BY <1>0, <2>5, <3>1, <3>2, <3>3 DEF TypeOK
  <2>7. DeviceInv'
    <3>1. queue'[0] # <<MbrRead>>'
      BY <1>b
    <3> QED BY <1>0, <1>a, <2>1, <2>5, <3>1 DEF IInv, DeviceInv, Booting, Early, Waiting
  <2>8. ReadInv'
    BY <1>0, <1>b, <2>1, <2>2, <2>5 DEF ReadInv, Booting, Early, Waiting, Copying, Submits, HeapPcs
  <2>9. LiveInv'
    <3>1. queue'[0] # <<MbrRead>>' /\ queue'[0] # <<FileRead>>'
      BY <1>b
    <3>2. LiveNow' = {Vbuffer}'
      BY <1>0, <2>1, <2>5 DEF LiveNow, Booting, Early, Submits, Waiting
    <3> QED BY <1>a, <2>5, <3>1, <3>2 DEF LiveInv
  <2>10. MemInv'
    <3>1. drive[0] \in {"ok", "drive_err", "bus_err"}
      BY <1>0 DEF TypeOK, Outcomes, Channels
    <3>2. mem[ReadId] = IF drive[0] = "ok" THEN 20 + block ELSE Garbage
      BY <1>0, <1>c, <2>1 DEF IInv, MemInv, Booting, Early, Waiting
    <3> QED BY <1>0, <1>a, <1>b, <2>1, <3>1, <3>2 DEF IInv, MemInv, Booting, Early, Waiting, Copying
  <2> QED BY <1>1, <1>2, <2>6, <2>7, <2>8, <2>9, <2>10 DEF IInv
<1> QED BY <1>0, <1>3, <1>4 DEF IInv, ChannelInv

(* The drives fetch_storage has been to.                                   *)
LEMMA FetchedFacts ==
  /\ block_devs = <<>> => Fetched = {}
  /\ block_devs = <<Disk(0)>> => Fetched = {0}
<1>1. ASSUME block_devs = <<>> PROVE Fetched = {}
  BY <1>1 DEF Fetched
<1>2. ASSUME block_devs = <<Disk(0)>> PROVE Fetched = {0}
  <2>1. Len(block_devs) = 1 /\ block_devs[1] = Disk(0)
    BY <1>2
  <2>2. Disk(0).disk = 0
    BY DEF Disk
  <2> QED BY <2>1, <2>2 DEF Fetched
<1> QED BY <1>1, <1>2

(* Only the master of the first channel gets its request through           *)
(* ide_submit; any other drive aborts the kernel.                          *)
LEMMA FetchFacts ==
  ASSUME IInv, fetch_storage
  PROVE  \E d \in Drives :
           /\ block_devs' = Append(block_devs, Disk(d))
           /\ live' = live \cup Objects(MbrId(d))
           /\ \/ /\ d = 0 /\ block_devs = <<>> /\ queue[0] = <<>> /\ status' = "run"
                 /\ queue' = [queue EXCEPT ![0] = Append(@, MbrRead)]
                 /\ hw' = [hw EXCEPT ![0] = <<MbrRead>>]
              \/ status' = "aborted" /\ UNCHANGED <<queue, hw>>
<1> USE DEF fetch_storage, Main
<1>0. /\ TypeOK /\ status = "run"
      /\ \/ block_devs = <<>> /\ queue[0] = <<>>
         \/ block_devs = <<Disk(0)>> /\ queue[0] = <<MbrRead>>
  BY DEF IInv, DeviceInv
<1>1. present \subseteq 0 .. 3
  BY <1>0, LayoutsAssumption DEF TypeOK
<1>2. PICK d \in present \ Fetched :
        /\ \A e \in present \ Fetched : d <= e
        /\ block_devs' = Append(block_devs, Disk(d))
        /\ live' = live \cup Objects(MbrId(d))
        /\ ide_submit(Request(MbrId(d), d, 0))
  OBVIOUS
<1>3. d \in 0 .. 3 /\ d \in Drives
  BY <1>1, <1>2 DEF Drives
<1>4. Channel(d) = (IF d \in {0, 1} THEN 0 ELSE 1) /\ Channel(0) = 0
  BY <1>3 DEF Channel
<1>5. Request(MbrId(d), d, 0).disk = d
  BY DEF Request
<1>6. CASE block_devs = <<>>
  <2>1. Fetched = {} /\ queue[0] = <<>>
    BY <1>0, <1>6, FetchedFacts
  <2>2. CASE d = 0
    <3>1. 0 \in present /\ DeviceChannel(0) = 0 /\ Request(MbrId(d), d, 0) = MbrRead
      BY <1>2, <1>4, <2>2 DEF DeviceChannel, MbrRead
    <3>2. ide_submit(MbrRead) /\ MbrRead.disk = 0
      BY <1>2, <1>5, <2>2, <3>1
    <3>3. /\ queue' = [queue EXCEPT ![0] = Append(@, MbrRead)]
          /\ hw' = [hw EXCEPT ![0] = <<MbrRead>>] /\ status' = status
      BY <1>4, <2>1, <3>1, <3>2 DEF ide_submit, make_request, make_request_ok
    <3> QED BY <1>0, <1>2, <1>3, <1>6, <2>1, <2>2, <3>3
  <2>3. CASE d # 0
    <3>1. 0 \notin present /\ (d # 1 => 1 \notin present)
      BY <1>2, <1>3, <2>1, <2>3
    <3>2. Channel(d) \notin present
      BY <1>3, <1>4, <2>3, <3>1
    <3> QED BY <1>2, <1>3, <1>5, <3>2 DEF ide_submit, make_request_ok
  <2> QED BY <2>2, <2>3
<1>7. CASE block_devs = <<Disk(0)>> /\ queue[0] = <<MbrRead>>
  <2>1. Fetched = {0}
    BY <1>7, FetchedFacts
  <2>2. d # 0 /\ (d # 1 => 1 \notin present)
    BY <1>2, <1>3, <2>1
  <2>3. queue[Channel(d)] # <<>> \/ Channel(d) \notin present
    BY <1>3, <1>4, <1>7, <2>2
  <2> QED BY <1>2, <1>3, <1>5, <2>3 DEF ide_submit, make_request_ok
<1> QED BY <1>0, <1>6, <1>7

LEMMA FetchInv == IInv /\ fetch_storage => IInv'
<1> SUFFICES ASSUME IInv, fetch_storage PROVE IInv'
  OBVIOUS
<1> USE DEF cfg_vars, lock_vars, read_vars
<1>0. /\ TypeOK /\ pc = "fetch_storage" /\ status = "run"
      /\ UNCHANGED <<cfg_vars, pc, lock_vars, drive, irr, mem, read_vars>>
      /\ \/ block_devs = <<>> /\ queue[0] = <<>>
         \/ block_devs = <<Disk(0)>> /\ queue[0] = <<MbrRead>>
  BY DEF IInv, DeviceInv, fetch_storage, Main
<1>1. PICK d \in Drives :
           /\ block_devs' = Append(block_devs, Disk(d))
           /\ live' = live \cup Objects(MbrId(d))
           /\ \/ /\ d = 0 /\ block_devs = <<>> /\ queue[0] = <<>> /\ status' = "run"
                 /\ queue' = [queue EXCEPT ![0] = Append(@, MbrRead)]
                 /\ hw' = [hw EXCEPT ![0] = <<MbrRead>>]
              \/ status' = "aborted" /\ UNCHANGED <<queue, hw>>
  BY FetchFacts
<1>a. UNCHANGED <<MbrRead, FileRead, ReadId>>
  BY <1>0 DEF MbrRead, FileRead, ReadId
<1>b. live' \subseteq Kinds \X Ids
  <2>1. MbrId(d) \in Ids /\ MbrId(d)[1] = "mbr"
    BY DEF MbrId, Ids
  <2> QED BY <1>0, <1>1, <2>1 DEF TypeOK, Objects, Kinds
<1>c. Len(block_devs') <= 128
  <2>1. Len(Append(<<>>, Disk(d))) = 1 /\ Len(Append(<<Disk(0)>>, Disk(d))) = 2
    OBVIOUS
  <2>2. Len(block_devs') = 1 \/ Len(block_devs') = 2
    BY <1>0, <1>1, <2>1, Zenon
  <2>3. \A m : m = 1 \/ m = 2 => m <= 128
    OBVIOUS
  <2> QED BY <2>2, <2>3, Zenon
<1>2. LockInv'
  <2>1. status' # "deadlock"
    BY <1>1
  <2> QED BY <1>0, <2>1 DEF IInv, LockInv
<1>3. ReadInv'
  BY <1>0 DEF IInv, ReadInv, Booting, Early, Waiting, Copying, Submits, HeapPcs
<1>4. MemInv'
  BY <1>0 DEF IInv, MemInv, Booting, Early, Copying, Waiting
<1>5. CASE status' = "aborted" /\ UNCHANGED <<queue, hw>>
  <2>1. TypeOK'
    BY <1>0, <1>5, <1>b, <1>c DEF TypeOK, Statuses
  <2>2. ChannelInv'
    BY <1>0, <1>5, <1>a DEF IInv, ChannelInv
  <2>3. DeviceInv'
    BY <1>0, <1>5 DEF DeviceInv, Booting, Early
  <2>4. LiveInv'
    <3>1. queue[0] # <<FileRead>>
      BY <1>0, QueueFacts
    <3> QED BY <1>0, <1>1, <1>5, <1>a, <3>1 DEF IInv, LiveInv
  <2> QED BY <1>2, <1>3, <1>4, <2>1, <2>2, <2>3, <2>4 DEF IInv
<1>6. CASE d = 0 /\ block_devs = <<>> /\ queue[0] = <<>> /\ status' = "run"
           /\ queue' = [queue EXCEPT ![0] = Append(@, MbrRead)]
           /\ hw' = [hw EXCEPT ![0] = <<MbrRead>>]
  <2>1. queue' \in [Channels -> Seq(Requests)] /\ hw' \in [Channels -> Seq(Requests)]
    <3>1. queue \in [Channels -> Seq(Requests)] /\ hw \in [Channels -> Seq(Requests)]
      BY <1>0 DEF TypeOK
    <3>2. <<MbrRead>> \in Seq(Requests) /\ Append(<<>>, MbrRead) \in Seq(Requests)
      BY MbrFacts
    <3> QED BY <1>6, <3>1, <3>2
  <2>2. queue'[0] = <<MbrRead>> /\ queue'[1] = queue[1] /\ hw'[0] = <<MbrRead>> /\ hw'[1] = hw[1]
    <3>1. Append(<<>>, MbrRead) = <<MbrRead>>
      OBVIOUS
    <3> QED BY <1>0, <1>6, <3>1 DEF TypeOK, Channels
  <2>3. block_devs' = <<Disk(0)>>
    BY <1>1, <1>6
  <2>4. TypeOK'
    BY <1>0, <1>6, <1>b, <1>c, <2>1 DEF TypeOK, Statuses
  <2>5. ChannelInv'
    <3>1. irr[0] = FALSE /\ irr'[0] = FALSE
      BY <1>0, <1>6, QueueFacts DEF IInv, ChannelInv
    <3> QED BY <1>0, <1>a, <2>2, <3>1 DEF IInv, ChannelInv, Booting, Early
  <2>6. DeviceInv'
    BY <1>0, <1>6, <1>a, <2>2, <2>3 DEF DeviceInv, Booting, Early
  <2>7. LiveInv'
    <3>1. live = {}
      BY <1>0, <1>6 DEF IInv, LiveInv, LiveNow, Booting, Early
    <3>2. live' = Objects(MbrId(0))
      BY <1>1, <1>6, <3>1
    <3>3. LiveNow' = Objects(MbrId(0))
      BY <1>0, <2>2, QueueFacts DEF LiveNow, Booting, Early
    <3>4. queue'[0] # <<FileRead>>'
      BY <1>a, <2>2, QueueFacts
    <3> QED BY <3>2, <3>3, <3>4 DEF LiveInv
  <2> QED BY <1>2, <1>3, <1>4, <2>4, <2>5, <2>6, <2>7 DEF IInv
<1> QED BY <1>1, <1>5, <1>6

(* The rest of start-up, which leaves requests and controller alone.       *)
LEMMA BootInv == IInv /\ (fetch_storage_return \/ irq_enable \/ get_device) => IInv'
<1> SUFFICES ASSUME IInv, fetch_storage_return \/ irq_enable \/ get_device PROVE IInv'
  OBVIOUS
<1> USE DEF cfg_vars, lock_vars, dev_vars, read_vars
<1>0. /\ TypeOK /\ status = "run" /\ pc \in Booting /\ pc' \in {"irq_enable", "get_device", "vfs"}
      /\ UNCHANGED <<cfg_vars, locked, irq_data, dev_vars, live, block_devs, read_vars>>
  BY DEF IInv, fetch_storage_return, irq_enable, get_device, Main, Booting, Early
<1>a. UNCHANGED <<MbrRead, FileRead, ReadId, Partitions(0)>>
  BY <1>0 DEF MbrRead, FileRead, ReadId, Partitions
<1>b. /\ status' \in {"run", "null_device"}
      /\ pc' # "vfs" => status' = "run"
      /\ pc' = "vfs" => status' = IF Len(block_devs) >= RootIndex THEN "run" ELSE "null_device"
      /\ irq_on' = (pc' # "irq_enable")
  <2>1. pc = "fetch_storage" => irq_on = FALSE
    BY DEF IInv, LockInv, Early, TypeOK
  <2>2. pc = "get_device" => irq_on = TRUE
    BY DEF IInv, LockInv, Early, Holding, TypeOK
  <2> QED BY <1>0, <2>1, <2>2 DEF fetch_storage_return, irq_enable, get_device, Main
<1>c. /\ present = {0}
      /\ \/ block_devs = <<Disk(0)>>
         \/ block_devs = <<Disk(0)>> \o Partitions(0) /\ queue[0] # <<MbrRead>>
  <2>1. CASE pc = "fetch_storage"
    <3>1. present \subseteq Fetched /\ present # {}
      BY <1>0, <2>1, LayoutsAssumption DEF fetch_storage_return, irq_enable, get_device, Main, TypeOK
    <3> QED BY <1>0, <2>1, <3>1, FetchedFacts DEF IInv, DeviceInv
  <2>2. CASE pc # "fetch_storage"
    BY <2>2 DEF IInv, DeviceInv
  <2> QED BY <2>1, <2>2
<1>d. queue[0] # <<FileRead>> /\ (queue[0] = <<>> \/ queue[0] = <<MbrRead>>)
  BY <1>0, QueueFacts DEF IInv, ChannelInv, Booting, Early, Waiting
<1>1. TypeOK'
  BY <1>0, <1>b DEF TypeOK, Statuses, Pcs
<1>2. LockInv'
  BY <1>0, <1>b DEF IInv, LockInv, Booting, Early, Holding
<1>3. ChannelInv'
  BY <1>0, <1>a, <1>d DEF IInv, ChannelInv, Booting, Early
<1>4. DeviceInv'
  <2>1. Len(block_devs) >= RootIndex => queue[0] # <<MbrRead>>
    <3>1. block_devs = <<Disk(0)>> => Len(block_devs) = 1
      OBVIOUS
    <3>2. ~ (1 >= RootIndex)
      BY DEF RootIndex
    <3> QED BY <1>c, <3>1, <3>2, Zenon
  <2> QED BY <1>0, <1>a, <1>b, <1>c, <2>1 DEF DeviceInv, Booting, Early
<1>5. ReadInv'
  BY <1>0 DEF ReadInv, Booting, Early, Waiting, Copying, Submits, HeapPcs
<1>6. LiveInv'
  <2>1. live = IF queue[0] = <<>> THEN {} ELSE Objects(MbrId(0))
    BY <1>0 DEF IInv, LiveInv, LiveNow
  <2>2. status' = "run" /\ pc' = "vfs" => queue[0] = <<>>
    BY <1>0, <1>b, <1>d, <1>4 DEF DeviceInv, Booting, Early
  <2>3. status' = "run" => live' = LiveNow'
    BY <1>0, <2>1, <2>2 DEF LiveNow, Booting, Early
  <2> QED BY <1>0, <1>a, <1>d, <2>1, <2>3 DEF IInv, LiveInv
<1>7. MemInv'
  BY <1>0 DEF IInv, MemInv, Booting, Early
<1> QED BY <1>1, <1>2, <1>3, <1>4, <1>5, <1>6, <1>7 DEF IInv

LEMMA StutterInv == IInv /\ UNCHANGED vars => IInv'
<1> SUFFICES ASSUME IInv, UNCHANGED vars PROVE IInv'
  OBVIOUS
<1> USE DEF vars, cfg_vars, lock_vars, dev_vars, read_vars
<1>a. UNCHANGED <<MbrRead, FileRead, ReadId, Vbuffer, User, OfDisk, Partitions(0), LiveNow>>
  BY DEF MbrRead, FileRead, ReadId, Vbuffer, User, OfDisk, Partitions, LiveNow
<1>1. TypeOK' /\ LockInv'
  BY DEF IInv, TypeOK, LockInv
<1>2. ChannelInv'
  BY <1>a DEF IInv, ChannelInv
<1>3. DeviceInv'
  BY <1>a DEF IInv, DeviceInv
<1>4. ReadInv' /\ LiveInv' /\ MemInv'
  BY <1>a DEF IInv, ReadInv, LiveInv, MemInv
<1> QED BY <1>1, <1>2, <1>3, <1>4 DEF IInv

(* Every step of the kernel, of its interrupt handler and of the           *)
(* controller.                                                             *)
LEMMA NextInv == IInv /\ [Next]_vars => IInv'
<1> SUFFICES ASSUME IInv, [Next]_vars PROVE IInv'
  OBVIOUS
<1>1. CASE fs_read_step
  BY <1>1, FsReadInv, KvallocInv, GenerateInv, PartitionInv, CheckLockInv, CheckUnlockInv,
     CheckClearInv, MakeInv, SubmitLockInv, StorSubmitInv, SubmitClearInv, WaitInv,
     MemcpyInv, KvfreeInv DEF fs_read_step
<1>2. CASE fetch_storage \/ fetch_storage_return \/ irq_enable \/ get_device
  BY <1>2, FetchInv, BootInv
<1>3. CASE interrupt
  BY <1>3, IrqInv DEF interrupt
<1>4. CASE controller
  BY <1>4, ControllerInv DEF controller
<1>5. CASE cpu_halt \/ stopped \/ UNCHANGED vars
  BY <1>5, StutterInv DEF cpu_halt, stopped
<1> QED BY <1>1, <1>2, <1>3, <1>4, <1>5 DEF Next, kernel_main

-----------------------------------------------------------------------------
(* The inductive invariant: it holds in every state of start-up, of any    *)
(* number of reads and of the completion handler.                          *)
THEOREM Invariance == Spec => []IInv
<1>1. Init => IInv
  BY InitInv
<1>2. IInv /\ [Next]_vars => IInv'
  BY NextInv
<1> QED BY <1>1, <1>2, PTL DEF Spec

(* spinlock_lock and spinlock_unlock: once interrupts have been enabled    *)
(* they are off exactly while the main thread holds a storage lock, and    *)
(* the handler never spins on a lock held by what it interrupted.          *)
THEOREM InterruptsFollow == Spec => []InterruptsFollowLocks
<1>1. ASSUME IInv PROVE InterruptsFollowLocks
  <2>1. ASSUME pc \notin Early PROVE irq_on <=> \A d \in Drives : ~ locked[d]
    <3>1. irq_on <=> pc \notin Holding
      BY <1>1, <2>1 DEF IInv, LockInv
    <3>2. (\A d \in Drives : ~ locked[d]) <=> pc \notin Holding
      BY <1>1 DEF IInv, LockInv, Drives
    <3> QED BY <3>1, <3>2
  <2> QED BY <1>1, <2>1 DEF IInv, LockInv, InterruptsFollowLocks, Early
<1> QED BY <1>1, Invariance, PTL

(* ide_submit and ide_irq: types, and the controller only ever works on    *)
(* the head of its channel's queue, into a buffer that is still allocated. *)
THEOREM ServesHead == Spec => []ControllerServesHead
<1>1. ASSUME IInv PROVE ControllerServesHead
  <2>1. SUFFICES ASSUME NEW c \in Channels, hw[c] # <<>>
                 PROVE  /\ queue[c] # <<>> /\ Head(hw[c]) = Head(queue[c])
                        /\ Buffer(Head(hw[c]).id) \in live
    BY <1>1 DEF ControllerServesHead, IInv
  <2>2. c = 0 /\ hw[0] = queue[0]
    BY <1>1, <2>1 DEF IInv, ChannelInv, Channels
  <2>3. CASE queue[0] = <<MbrRead>>
    <3>1. Head(queue[0]).id = MbrId(0) /\ Objects(MbrId(0)) \subseteq live
      BY <1>1, <2>3, OneElement, QueueFacts DEF IInv, LiveInv
    <3> QED BY <2>1, <2>2, <3>1, MbrFacts
  <2>4. CASE queue[0] = <<FileRead>>
    <3>1. Head(queue[0]).id = ReadId /\ Vbuffer \in live
      BY <1>1, <2>4, OneElement, QueueFacts DEF IInv, LiveInv
    <3>2. TypeOK /\ reads > 0
      BY <1>1, <2>4, QueueFacts DEF IInv, ChannelInv, ReadInv, Booting, Early, Waiting
    <3> QED BY <2>1, <2>2, <3>1, <3>2, ReadFacts
  <2> QED BY <1>1, <2>1, <2>2, <2>3, <2>4 DEF IInv, ChannelInv
<1> QED BY <1>1, Invariance, PTL

(* The names on the queues when there is at most one.                      *)
LEMMA QueuedFacts ==
  ASSUME queue[1] = <<>>
  PROVE  /\ queue[0] = <<>> => Queued = {}
         /\ \A r : queue[0] = <<r>> /\ r.id \in Ids => Queued = {r.id}
<1>1. ASSUME NEW q, queue[0] = <<q>>, q.id \in Ids PROVE Queued = {q.id}
  <2>1. DOMAIN queue[0] = {1} /\ queue[0][1] = q /\ DOMAIN queue[1] = {}
    BY <1>1
  <2> QED BY <1>1, <2>1 DEF Queued, Channels
<1>2. ASSUME queue[0] = <<>> PROVE Queued = {}
  BY <1>2 DEF Queued, Channels
<1> QED BY <1>1, <1>2

(* block_req_generate, block_req_cleanup and the completion callbacks:     *)
(* a queued request is alive, and a live one is queued or being submitted. *)
THEOREM FreedOnce == Spec => []RequestsFreedOnce
<1>1. ASSUME IInv PROVE RequestsFreedOnce
  <2>1. SUFFICES ASSUME status = "run"
                 PROVE  /\ \A i \in Queued : Objects(i) \subseteq live
                        /\ \A o \in live : o[1] # "vbuffer" => o[2] \in Queued \cup Submitting
    BY DEF RequestsFreedOnce
  <2>2. queue[1] = <<>> /\ live = LiveNow /\ TypeOK
    BY <1>1, <2>1 DEF IInv, ChannelInv, LiveInv
  <2>3. CASE queue[0] = <<MbrRead>>
    <3>1. Queued = {MbrId(0)}
      BY <2>2, <2>3, QueuedFacts, QueueFacts, MbrFacts
    <3>2. pc \in Booting
      BY <1>1, <2>1, <2>3 DEF IInv, DeviceInv
    <3>3. live = Objects(MbrId(0))
      BY <2>2, <2>3, <3>2, QueueFacts DEF LiveNow
    <3> QED BY <3>1, <3>3, MbrFacts
  <2>4. CASE queue[0] = <<FileRead>>
    <3>1. pc \in Waiting /\ reads > 0 /\ ~ done
      <4>1. pc \in Waiting
        BY <1>1, <2>4, QueueFacts DEF IInv, ChannelInv
      <4> QED BY <1>1, <2>1, <2>4, <4>1 DEF IInv, ReadInv, Booting, Early, Waiting
    <3>2. Queued = {ReadId}
      BY <2>2, <2>4, <3>1, QueuedFacts, QueueFacts, ReadFacts
    <3>3. live = {Vbuffer} \cup Objects(ReadId)
      BY <2>2, <3>1 DEF LiveNow, Booting, Early, Waiting, Submits
    <3>4. Vbuffer[1] = "vbuffer" /\ User[2] = ReadId /\ OfDisk[2] = ReadId /\ <<"item", ReadId>>[2] = ReadId
      BY DEF Vbuffer, User, OfDisk
    <3> QED BY <2>2, <3>1, <3>2, <3>3, <3>4, ReadFacts
  <2>5. CASE queue[0] = <<>>
    <3>1. Queued = {}
      BY <2>2, <2>5, QueuedFacts
    <3>2. pc \in Waiting => done
      BY <1>1, <2>1, <2>5 DEF IInv, ReadInv
    <3>3. live \subseteq {Vbuffer} \/ (live \subseteq {Vbuffer, User, OfDisk} /\ Submitting = {ReadId})
      BY <2>2, <2>5, <3>2 DEF LiveNow, Submitting, Submits
    <3>4. Vbuffer[1] = "vbuffer" /\ User[2] = ReadId /\ OfDisk[2] = ReadId
      BY DEF Vbuffer, User, OfDisk
    <3> QED BY <3>1, <3>3, <3>4
  <2> QED BY <1>1, <2>3, <2>4, <2>5 DEF IInv, ChannelInv
<1> QED BY <1>1, Invariance, PTL

(* kmalloc, kfree and the page allocator are never entered by a completion *)
(* handler while the main thread is inside them.                           *)
THEOREM NotReentered == Spec => []HeapNotReentered
<1>1. ASSUME IInv PROVE HeapNotReentered
  <2>1. SUFFICES ASSUME status = "run", pc \in HeapPcs PROVE \A c \in Channels : queue[c] = <<>>
    BY DEF HeapNotReentered
  <2>2. queue[0] = <<>> /\ queue[1] = <<>>
    BY <1>1, <2>1 DEF IInv, ChannelInv, HeapPcs, Booting, Early, Waiting
  <2> QED BY <2>2 DEF Channels
<1> QED BY <1>1, Invariance, PTL

(* fs_read_bytes copies out the block it was asked for, counted from the   *)
(* start of the partition, unless the bus master failed.                   *)
THEOREM CopiesBlock == Spec => []CopiesRequestedBlock
<1>1. ASSUME IInv PROVE CopiesRequestedBlock
  <2>1. SUFFICES ASSUME pc = "kvfree_pages"
                 PROVE  \/ got = RootDevice.offset + block
                        \/ got = Garbage /\ drive[Channel(RootLock)] = "bus_err"
    BY DEF CopiesRequestedBlock
  <2>2. status = "run" /\ done /\ pc \notin Booting
    BY <1>1, <2>1 DEF IInv, DeviceInv, ReadInv, Booting, Early, Waiting, Copying
  <2>3. RootDevice.offset = 20 /\ RootLock = 0
    BY <1>1, <2>2, RootFacts
  <2>4. Channel(0) = 0
    BY DEF Channel
  <2>5. got = mem[ReadId] /\ (mem[ReadId] = 20 + block \/ (mem[ReadId] = Garbage /\ drive[0] = "bus_err"))
    BY <1>1, <2>1, <2>2 DEF IInv, MemInv, Booting, Early
  <2> QED BY <2>3, <2>4, <2>5
<1> QED BY <1>1, Invariance, PTL

==============================================================================
