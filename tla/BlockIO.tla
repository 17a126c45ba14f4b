------------------------------ MODULE BlockIO -------------------------------
(***************************************************************************)
(* Block I/O from boot to file reads: the main thread (kernel_main,        *)
(* fetch_storage, fs_read_bytes and the submit path down to ide_submit),   *)
(* the IDE interrupt handlers with their callbacks, and the controller.    *)
(*                                                                         *)
(* One processor: the main thread and the handlers interleave only where   *)
(* interrupts are enabled.  A stretch of the main thread with interrupts   *)
(* disabled, and a whole handler, is one step; the controller completes a  *)
(* command at any time.  A value of pc names the code being executed.      *)
(*                                                                         *)
(* stor_device_t.active_requests is never changed after add_stor_device    *)
(* set it to 0, so block_submit_disk always finds room and the ring queue  *)
(* of a disk stays empty: neither is part of the state.                    *)
(***************************************************************************)
EXTENDS Integers, Sequences

CONSTANTS
    Layouts,   \* sets of IDE drives (0..3) that may answer IDENTIFY
    PartCounts,\* numbers of MBR partitions a disk may have
    Blocks,    \* partition-relative blocks a file read may ask for
    MaxReads   \* bound: number of calls of fs_read_bytes

ASSUME LayoutsAssumption == Layouts \subseteq SUBSET (0 .. 3) /\ {} \notin Layouts
ASSUME PartCountsAssumption == PartCounts \subseteq 0 .. 4
ASSUME BlocksAssumption == Blocks \subseteq Nat
ASSUME MaxReadsAssumption == MaxReads \in Nat

VARIABLES
    present,    \* drives that answered IDENTIFY (fixed at boot)
    parts,      \* partitions in each disk's MBR (fixed)
    pc,         \* where the main thread is
    irq_on,     \* EFLAGS.IF
    locked,     \* stor_device_t.lock.locked, by drive
    irq_data,   \* stor_device_t.lock.irq_data: the saved IF, by drive
    queue,      \* ide.queue[channel], head first
    hw,         \* the commands the controller executes on each channel
    drive,      \* outcome of the last command: "ok", "drive_err", "bus_err"
    irr,        \* interrupt requested by the channel and not yet served
    mem,        \* what each request's buffer holds: an lba, or Garbage
    live,       \* heap objects allocated and not yet freed
    block_devs, \* block_devs[0 .. block_dev_count-1]
    reads,      \* calls of fs_read_bytes so far
    block,      \* the block the current call asks for
    done,       \* its done flag
    got,        \* what its memcpy copied: an lba, Garbage, or None
    status      \* "run", or how the kernel stopped

cfg_vars  == <<present, parts>>
lock_vars == <<irq_on, locked, irq_data>>
dev_vars  == <<queue, hw, drive, irr, mem>>
read_vars == <<reads, block, done, got>>
vars == <<cfg_vars, pc, lock_vars, dev_vars, live, block_devs, read_vars, status>>

Drives   == 0 .. 3
Channels == 0 .. 1
Garbage  == -1
None     == -2

(* Where the main thread is inside the (unlocked) heap or page allocator.  *)
HeapPcs == {"kvalloc_pages", "block_req_generate", "block_req_generate_disk",
            "make_stor_request", "kvfree_pages"}
Pcs == HeapPcs \cup
       {"fetch_storage", "irq_enable", "get_device", "vfs",
        "check_lock", "check_unlock", "check_clear",
        "submit_lock", "submit_unlock", "submit_clear", "wait", "memcpy"}

Channel(d) == d \div 2

(* Requests: the MBR read of drive d, or the n-th file read.  A file read  *)
(* has a request for the partition and one for the disk.                   *)
MbrId(d) == <<"mbr", d>>
ReadId   == <<"fs", reads>>
Ids      == {MbrId(d) : d \in Drives} \cup {<<"fs", n>> : n \in 1 .. MaxReads}
Request(i, d, a) == [id |-> i, disk |-> d, lba |-> a]

Objects(i) == IF i[1] = "mbr" THEN {<<"page_data", i>>, <<"disk_request", i>>, <<"item", i>>}
              ELSE {<<"user_request", i>>, <<"disk_request", i>>, <<"item", i>>}

(* Block devices.  Partition p of a disk starts at block 10 * p.           *)
Disk(d)         == [type |-> "disk", disk |-> d, offset |-> 0]
Partition(d, p) == [type |-> "partition", disk |-> d, offset |-> 10 * p]
Partitions(d)   == [p \in 1 .. parts[d] |-> Partition(d, p)]

Main(p) == status = "run" /\ pc = p

-----------------------------------------------------------------------------
Init ==
    /\ present \in Layouts
    /\ parts \in [present -> PartCounts]
    /\ pc = "fetch_storage"
    /\ irq_on = FALSE
    /\ locked = [d \in Drives |-> FALSE]
    /\ irq_data = [d \in Drives |-> FALSE]
    /\ queue = [c \in Channels |-> <<>>]
    /\ hw = [c \in Channels |-> <<>>]
    /\ drive = [c \in Channels |-> "ok"]
    /\ irr = [c \in Channels |-> FALSE]
    /\ mem = [i \in Ids |-> Garbage]
    /\ live = {}
    /\ block_devs = <<>>
    /\ reads = 0
    /\ block = 0
    /\ done = FALSE
    /\ got = None
    /\ status = "run"

(* The channel of ide.devices[i]: zero until IDENTIFY has succeeded.       *)
DeviceChannel(i) == IF i \in present THEN Channel(i) ELSE 0

(* make_request passes the channel number where a device index is wanted;  *)
(* a device that is not present has size_type IDE_SIZE_CHS, which aborts.  *)
make_request_ok(r) == Channel(r.disk) \in present
make_request(r, h)  == [h EXCEPT ![DeviceChannel(Channel(r.disk))] = <<r>>]

(* Variant: ide_submit without its assertion.                              *)
ide_submit_unchecked(r) ==
    /\ queue' = [queue EXCEPT ![Channel(r.disk)] = Append(@, r)]
    /\ hw' = make_request(r, hw)
    /\ UNCHANGED status

(* ide_submit asserts that no request is outstanding on the channel.       *)
ide_submit(r) ==
    LET c == Channel(r.disk)
    IN  IF queue[c] = <<>> /\ make_request_ok(r)
        THEN /\ queue' = [queue EXCEPT ![c] = Append(@, r)]
             /\ hw' = make_request(r, hw)
             /\ UNCHANGED status
        ELSE /\ status' = "aborted"
             /\ UNCHANGED <<queue, hw>>

(* One iteration of fetch_storage, interrupts still disabled: add the disk *)
(* and submit the read of its MBR.                                         *)
Fetched == {block_devs[k].disk : k \in 1 .. Len(block_devs)}

fetch_storage ==
    /\ Main("fetch_storage")
    /\ \E d \in present \ Fetched :
         /\ \A e \in present \ Fetched : d <= e
         /\ block_devs' = Append(block_devs, Disk(d))
         /\ live' = live \cup Objects(MbrId(d))
         /\ ide_submit(Request(MbrId(d), d, 0))
    /\ UNCHANGED <<cfg_vars, pc, lock_vars, drive, irr, mem, read_vars>>

fetch_storage_return ==
    /\ Main("fetch_storage") /\ present \subseteq Fetched
    /\ pc' = "irq_enable"
    /\ UNCHANGED <<cfg_vars, lock_vars, dev_vars, live, block_devs, read_vars, status>>

irq_enable ==
    /\ Main("irq_enable")
    /\ irq_on' = TRUE
    /\ pc' = "get_device"
    /\ UNCHANGED <<cfg_vars, locked, irq_data, dev_vars, live, block_devs, read_vars, status>>

(* block_manager_get_device(2), and init_vfs on what it returned: NULL     *)
(* while the MBR has not been parsed.                                      *)
RootIndex == 3

get_device ==
    /\ Main("get_device")
    /\ pc' = "vfs"
    /\ status' = IF Len(block_devs) >= RootIndex THEN "run" ELSE "null_device"
    /\ UNCHANGED <<cfg_vars, lock_vars, dev_vars, live, block_devs, read_vars>>

RootDevice == block_devs[RootIndex]
RootLock   == RootDevice.disk

-----------------------------------------------------------------------------
(* fs_read_bytes.  Each step ends the code its pc names.                   *)
Goto(p, q) == Main(p) /\ pc' = q

fs_read_bytes(b) ==
    /\ Goto("vfs", "kvalloc_pages")
    /\ reads < MaxReads
    /\ reads' = reads + 1
    /\ block' = b
    /\ done' = FALSE
    /\ got' = None
    /\ UNCHANGED <<cfg_vars, lock_vars, dev_vars, live, block_devs, status>>

kvalloc_pages ==
    /\ Goto("kvalloc_pages", "block_req_generate")
    /\ live' = live \cup {<<"vbuffer", ReadId>>}
    /\ UNCHANGED <<cfg_vars, lock_vars, dev_vars, block_devs, read_vars, status>>

(* block_submit on the root device; a partition submits a second request   *)
(* to its disk (block_submit_partition), a disk goes on directly.          *)
block_req_generate ==
    /\ Goto("block_req_generate",
            IF RootDevice.type = "partition" THEN "block_req_generate_disk" ELSE "check_lock")
    /\ live' = live \cup {IF RootDevice.type = "partition" THEN <<"user_request", ReadId>>
                          ELSE <<"disk_request", ReadId>>}
    /\ UNCHANGED <<cfg_vars, lock_vars, dev_vars, block_devs, read_vars, status>>

block_submit_partition ==
    /\ Goto("block_req_generate_disk", "check_lock")
    /\ live' = live \cup {<<"disk_request", ReadId>>}
    /\ UNCHANGED <<cfg_vars, lock_vars, dev_vars, block_devs, read_vars, status>>

(* spinlock_lock: interrupts off, then exchange.  Nobody can release a     *)
(* lock that is found held, so the spin never ends.                        *)
spinlock_lock(d) ==
    /\ irq_on' = FALSE
    /\ IF locked[d]
       THEN /\ status' = "deadlock"
            /\ UNCHANGED <<locked, irq_data>>
       ELSE /\ locked' = [locked EXCEPT ![d] = TRUE]
            /\ irq_data' = [irq_data EXCEPT ![d] = irq_on]
            /\ UNCHANGED status

(* Variant: the saved flags are not restored.                              *)
spinlock_unlock_no_restore(d) ==
    /\ locked' = [locked EXCEPT ![d] = FALSE]
    /\ UNCHANGED <<irq_on, irq_data>>

(* spinlock_unlock: release and restore; irq_data is cleared afterwards,   *)
(* when an interrupt may already have come in.                             *)
spinlock_unlock(d) ==
    /\ locked' = [locked EXCEPT ![d] = FALSE]
    /\ irq_on' = irq_data[d]
    /\ UNCHANGED irq_data

spinlock_clear(d) ==
    /\ irq_data' = [irq_data EXCEPT ![d] = FALSE]
    /\ UNCHANGED <<irq_on, locked>>

check_lock ==
    /\ Goto("check_lock", "check_unlock")
    /\ spinlock_lock(RootLock)
    /\ UNCHANGED <<cfg_vars, dev_vars, live, block_devs, read_vars>>

check_unlock ==
    /\ Goto("check_unlock", "check_clear")
    /\ spinlock_unlock(RootLock)
    /\ UNCHANGED <<cfg_vars, dev_vars, live, block_devs, read_vars, status>>

check_clear ==
    /\ Goto("check_clear", "make_stor_request")
    /\ spinlock_clear(RootLock)
    /\ UNCHANGED <<cfg_vars, dev_vars, live, block_devs, read_vars, status>>

block_disk_make_stor_request ==
    /\ Goto("make_stor_request", "submit_lock")
    /\ UNCHANGED <<cfg_vars, lock_vars, dev_vars, live, block_devs, read_vars, status>>

submit_lock ==
    /\ Goto("submit_lock", "submit_unlock")
    /\ spinlock_lock(RootLock)
    /\ UNCHANGED <<cfg_vars, dev_vars, live, block_devs, read_vars>>

(* The disk block of a request on the root device; and a variant that      *)
(* forgets where the partition starts.                                     *)
disk_block_unshifted == block
disk_block == RootDevice.offset + block

(* The rest of stor_submit: dev->submit under the lock, then the unlock.   *)
stor_submit ==
    /\ Goto("submit_unlock", "submit_clear")
    /\ live' = live \cup {<<"item", ReadId>>}
    /\ ide_submit(Request(ReadId, RootLock, disk_block))
    /\ spinlock_unlock(RootLock)
    /\ UNCHANGED <<cfg_vars, drive, irr, mem, block_devs, read_vars>>

submit_clear ==
    /\ Goto("submit_clear", "wait")
    /\ spinlock_clear(RootLock)
    /\ UNCHANGED <<cfg_vars, dev_vars, live, block_devs, read_vars, status>>

(* Variant: fs_read_bytes does not wait.                                   *)
wait_not ==
    /\ Goto("wait", "memcpy")
    /\ UNCHANGED <<cfg_vars, lock_vars, dev_vars, live, block_devs, read_vars, status>>

wait_done ==
    /\ Goto("wait", "memcpy") /\ done
    /\ UNCHANGED <<cfg_vars, lock_vars, dev_vars, live, block_devs, read_vars, status>>

memcpy_buffer ==
    /\ Goto("memcpy", "kvfree_pages")
    /\ got' = mem[ReadId]
    /\ UNCHANGED <<cfg_vars, lock_vars, dev_vars, live, block_devs, reads, block, done, status>>

kvfree_pages ==
    /\ Goto("kvfree_pages", "vfs")
    /\ live' = live \ {<<"vbuffer", ReadId>>}
    /\ UNCHANGED <<cfg_vars, lock_vars, dev_vars, block_devs, read_vars, status>>

(* The read loop of kernel_main is over: while(1) cpu_halt().              *)
cpu_halt ==
    /\ Main("vfs") /\ reads = MaxReads
    /\ UNCHANGED vars

-----------------------------------------------------------------------------
(* The controller finishes a command, and requests an interrupt.  Data are *)
(* in the buffer unless the drive or the bus master failed.                *)
Outcomes == {"ok", "drive_err", "bus_err"}

controller_complete(c, o) ==
    /\ hw[c] # <<>>
    /\ drive' = [drive EXCEPT ![c] = o]
    /\ mem' = IF o = "ok" THEN [mem EXCEPT ![hw[c][1].id] = hw[c][1].lba] ELSE mem
    /\ hw' = [hw EXCEPT ![c] = <<>>]
    /\ irr' = [irr EXCEPT ![c] = TRUE]
    /\ UNCHANGED <<cfg_vars, pc, lock_vars, queue, live, block_devs, read_vars, status>>

(* parse_mbr finds the signature only if the sector has been transferred.  *)
parse_mbr(r) == IF mem[r.id] = 0 THEN Partitions(r.disk) ELSE <<>>

(* Variants: the callbacks keep the disk's request, or never reach         *)
(* ext2_read_cb.                                                           *)
request_callback_no_cleanup(r) ==
    /\ live' = live \ {<<"user_request", r.id>>, <<"page_data", r.id>>, <<"item", r.id>>}
    /\ block_devs' = IF r.id[1] = "mbr" THEN block_devs \o parse_mbr(r) ELSE block_devs
    /\ done' = (done \/ r.id[1] # "mbr")

request_callback_no_done(r) ==
    /\ live' = live \ Objects(r.id)
    /\ block_devs' = IF r.id[1] = "mbr" THEN block_devs \o parse_mbr(r) ELSE block_devs
    /\ UNCHANGED done

(* block_request->cb and the block_req_cleanup calls of the callbacks:     *)
(* partitions_cb for an MBR, block_partition_cb and ext2_read_cb for a     *)
(* file read; then the item.                                               *)
request_callback(r) ==
    /\ live' = live \ Objects(r.id)
    /\ block_devs' = IF r.id[1] = "mbr" THEN block_devs \o parse_mbr(r) ELSE block_devs
    /\ done' = (done \/ r.id[1] # "mbr")

(* What makes result -1: the bus master's error bit has just been cleared, *)
(* so only the drive's own status can still show an error.                 *)
result_error(c) == drive[c] = "drive_err"

(* What is left of the channel's queue is started again by the handler.    *)
restart(q, h) == IF q = <<>> THEN h ELSE make_request(Head(q), h)

ide_irq(c) ==
    /\ status = "run" /\ irq_on /\ irr[c]
    /\ irr' = [irr EXCEPT ![c] = FALSE]
    /\ IF queue[c] = <<>>
       THEN UNCHANGED <<queue, live, block_devs, done, irq_data, hw, status>>
       ELSE LET r == Head(queue[c])
                q == Tail(queue[c])
            IN  /\ queue' = [queue EXCEPT ![c] = q]
                /\ request_callback(r)
                /\ irq_data' = [irq_data EXCEPT ![r.disk] = FALSE]
                /\ hw' = restart(q, hw)
                /\ status' = IF result_error(c) THEN "aborted"
                             ELSE IF locked[r.disk] THEN "deadlock" ELSE "run"
    /\ UNCHANGED <<cfg_vars, pc, irq_on, locked, drive, mem, reads, block, got>>

(* assert -> abort -> interrupts off, hlt; likewise a fault and a spin.    *)
stopped == status # "run" /\ UNCHANGED vars

-----------------------------------------------------------------------------
fs_read_step ==
    \/ \E b \in Blocks : fs_read_bytes(b)
    \/ kvalloc_pages \/ block_req_generate \/ block_submit_partition
    \/ check_lock \/ check_unlock \/ check_clear
    \/ block_disk_make_stor_request
    \/ submit_lock \/ stor_submit \/ submit_clear
    \/ wait_done \/ memcpy_buffer \/ kvfree_pages

kernel_main ==
    \/ fetch_storage \/ fetch_storage_return \/ irq_enable \/ get_device
    \/ fs_read_step \/ cpu_halt

controller == \E c \in Channels, o \in Outcomes : controller_complete(c, o)

interrupt == \E c \in Channels : ide_irq(c)

Next == kernel_main \/ interrupt \/ controller \/ stopped

Spec == Init /\ [][Next]_vars

(* The processor runs, a pending interrupt is delivered once interrupts    *)
(* stay enabled, and a drive answers every command.                        *)
LiveSpec == Spec /\ WF_vars(kernel_main) /\ WF_vars(interrupt) /\ WF_vars(controller)

-----------------------------------------------------------------------------
Requests == [id : Ids, disk : Drives, lba : Nat]
Kinds    == {"page_data", "vbuffer", "user_request", "disk_request", "item"}
Statuses == {"run", "aborted", "deadlock", "null_device"}

(* Every variable has its type; block_devs stays within MAX_DEVS.          *)
TypeOK ==
    /\ present \in Layouts /\ parts \in [present -> PartCounts]
    /\ pc \in Pcs
    /\ irq_on \in BOOLEAN
    /\ locked \in [Drives -> BOOLEAN] /\ irq_data \in [Drives -> BOOLEAN]
    /\ queue \in [Channels -> Seq(Requests)] /\ hw \in [Channels -> Seq(Requests)]
    /\ drive \in [Channels -> Outcomes] /\ irr \in [Channels -> BOOLEAN]
    /\ mem \in [Ids -> Nat \cup {Garbage}]
    /\ live \subseteq Kinds \X Ids
    /\ Len(block_devs) <= 128
    /\ reads \in 0 .. MaxReads /\ block \in Blocks \cup {0}
    /\ done \in BOOLEAN /\ got \in Nat \cup {Garbage, None}
    /\ status \in Statuses

(* Once the kernel has enabled interrupts they are off exactly while the   *)
(* main thread holds a storage lock.  So spinlock_unlock always gives back *)
(* the flags of the matching spinlock_lock, and the spinlock_lock of       *)
(* stor_disk_cb, in the handler, never finds the lock held by the thread   *)
(* it interrupted (which would spin for ever).                             *)
InterruptsFollowLocks ==
    /\ pc \notin {"fetch_storage", "irq_enable"} => (irq_on <=> \A d \in Drives : ~ locked[d])
    /\ status # "deadlock"

Buffer(i) == <<IF i[1] = "mbr" THEN "page_data" ELSE "vbuffer", i>>

(* Types, and: the controller works on the request at the head of its      *)
(* channel's queue and on nothing else, and the buffer it writes to has    *)
(* not been freed.                                                         *)
ControllerServesHead ==
    /\ TypeOK
    /\ \A c \in Channels : hw[c] # <<>> =>
        /\ queue[c] # <<>> /\ Head(hw[c]) = Head(queue[c])
        /\ Buffer(Head(hw[c]).id) \in live

(* Requests are freed once and only once: those on the queues are alive,   *)
(* so that no callback touches a freed request, and a live request is on a *)
(* queue or still being submitted, so that completion leaks none.          *)
Queued     == {i \in Ids : \E c \in Channels : \E k \in DOMAIN queue[c] : queue[c][k].id = i}
Submitting == IF pc \in {"block_req_generate_disk", "check_lock", "check_unlock", "check_clear",
                         "make_stor_request", "submit_lock", "submit_unlock"}
              THEN {ReadId} ELSE {}

RequestsFreedOnce ==
    status = "run" =>
        /\ \A i \in Queued : Objects(i) \subseteq live
        /\ \A o \in live : o[1] # "vbuffer" => o[2] \in Queued \cup Submitting

(* kmalloc, kfree and the page allocator have no lock, and the completion  *)
(* handlers call them: no request is outstanding while the main thread is  *)
(* inside them.                                                            *)
HeapNotReentered ==
    status = "run" /\ pc \in HeapPcs => \A c \in Channels : queue[c] = <<>>

(* What fs_read_bytes copies out is the block it was asked for, counted    *)
(* from the start of the partition; the only exception is a bus master     *)
(* error, whose bit the handler clears before it reads it.                 *)
CopiesRequestedBlock ==
    pc = "kvfree_pages" =>
        \/ got = RootDevice.offset + block
        \/ got = Garbage /\ drive[Channel(RootLock)] = "bus_err"

(* A read that waits for its done flag gets it, or a failed assertion has  *)
(* stopped the kernel.                                                     *)
ReadCompletes == pc = "wait" ~> (done \/ status # "run")

(* The assertion of ide_submit, "1 request at a time", and the assertions  *)
(* and aborts behind it never fail while the drives report no error.       *)
OneRequestAtATime ==
    status = "aborted" => \E c \in Channels : drive[c] = "drive_err"

(* init_vfs finds a root device: its assertion that the root mounts holds  *)
(* when the root disk has a partition table and no transfer fails.         *)
RootDeviceFound ==
    status = "null_device" =>
        \/ \A d \in present : parts[d] < RootIndex - 1
        \/ \E c \in Channels : drive[c] # "ok"

=============================================================================
