-------------------------------- MODULE Disk ---------------------------------
(***************************************************************************)
(* The disks of Pintos (Lab 3, the same in Labs 1 and 2): one channel of   *)
(* the ATA driver ide.c with its two devices, the block device layer       *)
(* block.c and the partitions of partition.c.                              *)
(*                                                                         *)
(* Threads read and write sectors through a block device, a whole disk or  *)
(* a partition of it; each request goes through the commands of the driver *)
(* under the channel's lock, and waits for the disk's interrupt.  The      *)
(* device is external: it works on one command at a time, fails, hangs and *)
(* raises interrupts, also ones that nobody asked for.                     *)
(***************************************************************************)
EXTENDS Integers, Sequences

CONSTANTS
    IoThread,      \* the threads that use the disks
    DiskSize,      \* the sectors of a disk
    SectorModulus, \* block_sector_t wraps around here (2^32)
    Drives,        \* what may be attached to the channel
    Tables,        \* the partition tables each disk may have
    IoSectors,     \* the sectors that threads ask for
    MaxIo,         \* bound: requests
    MaxSpurious,   \* bound: interrupts that no command caused
    NoThread       \* nobody

ASSUME DiskAssumption ==
    /\ DiskSize \in Nat \ {0} /\ SectorModulus \in Nat /\ DiskSize < SectorModulus
    /\ MaxIo \in Nat /\ MaxSpurious \in Nat
    /\ IoThread # {} /\ NoThread \notin IoThread
    /\ IoSectors \subseteq 0 .. SectorModulus - 1
    /\ \A d \in {0, 1} : \A table \in Tables[d] : \A i \in DOMAIN table :
          /\ table[i].offset \in 0 .. SectorModulus - 1
          /\ table[i].size \in 0 .. SectorModulus - 1

Dev == {0, 1}

VARIABLES
    drive,                \* external: what is attached: "ata", "huge" (1 GB or
                          \* more), "other", "none" or "failed" (error 0x81)
    media,                \* external: the contents of the sectors
    command, stage,       \* external: the command at work and how far it is
    irq, spurious,        \* external: a pending interrupt; uncaused ones so far
    expecting_interrupt, completion_wait,   \* the channel
    io_lock, io_queue,    \* its lock: the holder and the waiting threads
    is_ata,               \* the devices the driver takes for disks
    probed, boot,         \* ide_init(): have the devices been looked for, and
                          \* the disks still to identify
    all_blocks,           \* block.c: the block devices
    io,                   \* each thread's request
    ios,                  \* how many requests there were
    late,                 \* a wait for the controller to be idle timed out
    stored,               \* observation: what was last sent to each sector
    disk_end              \* "no", or why the kernel stopped

diskVars == <<drive, media, command, stage, irq, spurious, expecting_interrupt,
              completion_wait, io_lock, io_queue, is_ata, probed, boot, all_blocks, io, ios,
              late, stored, disk_end>>

deviceVars == <<drive, media, command, stage, irq, spurious>>

NoRequest == [op |-> "none", at |-> 0, dev |-> 0, sec |-> 0, val |-> 0]

(* the steps of ide_read(), ide_write() and identify_ata_device() *)
Steps == [none |-> <<"idle">>,
          read |-> <<"acquire", "select", "issue", "down", "check", "data", "release">>,
          write |-> <<"acquire", "select", "issue", "check", "data", "down", "release">>,
          identify |-> <<"select", "issue", "down", "check", "data", "register">>]

At(t, step) == io[t].at > 0 /\ Steps[io[t].op][io[t].at] = step

Advance(t) == io' = [io EXCEPT ![t].at = @ + 1]

Booting == ~probed \/ boot # <<>>
Boot == CHOOSE t \in IoThread : TRUE       \* the thread that runs ide_init()

DiskInit ==
    /\ drive \in Drives
    /\ media = [d \in Dev |-> [s \in 0 .. DiskSize - 1 |-> 0]]
    /\ command = NoRequest /\ stage = "idle" /\ irq = FALSE /\ spurious = 0
    /\ expecting_interrupt = FALSE /\ completion_wait = 0
    /\ io_lock = NoThread /\ io_queue = <<>>
    /\ is_ata = {} /\ probed = FALSE /\ boot = <<>> /\ all_blocks = {}
    /\ io = [t \in IoThread |-> NoRequest] /\ ios = 0
    /\ late = FALSE /\ stored = media /\ disk_end = "no"

-----------------------------------------------------------------------------
(***************************************************************************)
(* ide_init() for a channel.                                               *)
(***************************************************************************)

(* check_device_type(): a device that passed its diagnostics and is ready  *)
(* is a disk if its signature says so; the slave is not looked for if the  *)
(* master reports that it failed and is not ready itself                   *)
check_device_type ==
    /\ ~probed
    /\ probed' = TRUE
    /\ is_ata' = {d \in Dev : drive[d] \in {"ata", "huge"}
                              /\ (d = 1 => drive[0] # "failed")}
    /\ boot' = (IF 0 \in is_ata' THEN <<0>> ELSE <<>>)
               \o (IF 1 \in is_ata' THEN <<1>> ELSE <<>>)
    /\ UNCHANGED <<deviceVars, expecting_interrupt, completion_wait, io_lock, io_queue,
                   all_blocks, io, ios, late, stored, disk_end>>

(* identify_ata_device() starts on the next disk *)
identify_ata_device ==
    /\ probed /\ Booting /\ io[Boot].at = 0
    /\ io' = [io EXCEPT ![Boot] = [NoRequest EXCEPT !.op = "identify", !.at = 1,
                                                    !.dev = Head(boot)]]
    /\ UNCHANGED <<deviceVars, expecting_interrupt, completion_wait, io_lock, io_queue,
                   is_ata, probed, boot, all_blocks, ios, late, stored, disk_end>>

(* found_partition(): a partition that starts and ends on the disk *)
found_partition(start, size) ==
    LET end == (start + size) % SectorModulus IN
    /\ start < DiskSize
    /\ ~(end < start) /\ end <= DiskSize

(* the entries of a table, without the empty ones *)
Entries(table) == {table[i] : i \in {i \in DOMAIN table : table[i].size # 0}}

(* the partitions of a table that is taken to be in sector, those of       *)
(* extended partitions left out                                            *)
Primaries(d, table, sector) ==
    {b \in {[dev |-> d, type |-> e.type, size |-> e.size,
             start |-> (e.offset + sector) % SectorModulus] :
               e \in {e \in Entries(table) : e.type \notin {"empty", "extended"}}} :
        found_partition(b.start, b.size)}

(* the extended entries of a table *)
Extended(table) == {e \in Entries(table) : e.type = "extended"}

(* read_partition_table() for the whole disk.  Every table that it visits  *)
(* is read from sector 0, so an extended entry at offset e leads to the    *)
(* same table taken to be in sector e, and another one at f from there to  *)
(* the same table in sector e + f, which leads there again: for ever,      *)
(* unless one of the two is past the end of the disk; what it registers    *)
(* before the stack is used up is left out, as the kernel is lost then.    *)
read_partition_table(d, table) ==
    UNION {Primaries(d, table, sector) :
              sector \in {s \in {0} \cup {e.offset : e \in Extended(table)} : s < DiskSize}}

EndlessTable(table) ==
    \E e, f \in Extended(table) :
       e.offset < DiskSize /\ (e.offset + f.offset) % SectorModulus < DiskSize

(* identify_ata_device() with the device's answer: disks of 1 GB or more   *)
(* are ignored; block_register() for the disk, and partition_scan()        *)
Register(t) ==
    /\ At(t, "register")
    /\ LET d == io[t].dev IN
       IF drive[d] = "huge"
       THEN is_ata' = is_ata \ {d} /\ UNCHANGED <<all_blocks, disk_end>>
       ELSE \E table \in Tables[d] :
               /\ all_blocks' = all_blocks
                     \cup {[dev |-> d, type |-> "raw", size |-> DiskSize, start |-> 0]}
                     \cup read_partition_table(d, table)
               /\ disk_end' = IF EndlessTable(table) THEN "stack" ELSE "no"
               /\ UNCHANGED is_ata
    /\ io' = [io EXCEPT ![t] = NoRequest]
    /\ boot' = Tail(boot)
    /\ UNCHANGED <<deviceVars, expecting_interrupt, completion_wait, io_lock, io_queue,
                   probed, ios, late, stored>>

-----------------------------------------------------------------------------
(***************************************************************************)
(* block_read() and block_write().                                         *)
(***************************************************************************)

(* check_sector() of the block device and, for a partition, of its disk;   *)
(* nobody writes to a foreign partition                                    *)
check_sector(b, sec, op) ==
    /\ sec < b.size
    /\ (b.start + sec) % SectorModulus < DiskSize
    /\ op = "write" => b.type # "foreign"

block_request(t, b, sec, op) ==
    /\ ~Booting /\ io[t].at = 0 /\ ios < MaxIo
    /\ ios' = ios + 1
    /\ IF check_sector(b, sec, op)
       THEN /\ io' = [io EXCEPT ![t] =
                         [op |-> op, at |-> 1, dev |-> b.dev, val |-> ios + 1,
                          sec |-> (b.start + sec) % SectorModulus]]
            /\ UNCHANGED disk_end
       ELSE disk_end' = "panic" /\ UNCHANGED io
    /\ UNCHANGED <<deviceVars, expecting_interrupt, completion_wait, io_lock, io_queue,
                   is_ata, probed, boot, all_blocks, late, stored>>

-----------------------------------------------------------------------------
(***************************************************************************)
(* ide_read() and ide_write().                                             *)
(***************************************************************************)

(* lock_acquire(): a thread that waits in the queue cannot run *)
Acquire(t) ==
    /\ At(t, "acquire") /\ \A i \in DOMAIN io_queue : io_queue[i] # t
    /\ \/ /\ io_lock = NoThread
          /\ io_lock' = t /\ Advance(t) /\ UNCHANGED io_queue
       \/ /\ io_lock # NoThread
          /\ io_queue' = Append(io_queue, t) /\ UNCHANGED <<io_lock, io>>
    /\ UNCHANGED <<deviceVars, expecting_interrupt, completion_wait, is_ata, probed, boot,
                   all_blocks, ios, late, stored, disk_end>>

(* select_sector() or select_device_wait(): wait_until_idle() reads the    *)
(* status, which clears a pending interrupt, and gives up after a while    *)
select_sector(t) ==
    /\ At(t, "select")
    /\ late' = (late \/ stage # "idle")
    /\ irq' = FALSE
    /\ Advance(t)
    /\ UNCHANGED <<drive, media, command, stage, spurious, expecting_interrupt,
                   completion_wait, io_lock, io_queue, is_ata, probed, boot, all_blocks, ios,
                   stored, disk_end>>

(* issue_pio_command(); a command to a device at work is undefined *)
issue_pio_command(t) ==
    /\ At(t, "issue")
    /\ expecting_interrupt' = TRUE
    /\ IF stage = "idle"
       THEN command' = io[t] /\ stage' = "busy" /\ UNCHANGED disk_end
       ELSE disk_end' = "overlap" /\ UNCHANGED <<command, stage>>
    /\ Advance(t)
    /\ UNCHANGED <<drive, media, irq, spurious, completion_wait, io_lock, io_queue, is_ata,
                   probed, boot, all_blocks, ios, late, stored>>

(* semaphore_down (&c->completion_wait) *)
Down(t) ==
    /\ At(t, "down")
    /\ completion_wait > 0
    /\ completion_wait' = completion_wait - 1
    /\ Advance(t)
    /\ UNCHANGED <<deviceVars, expecting_interrupt, io_lock, io_queue, is_ata, probed, boot,
                   all_blocks, ios, late, stored, disk_end>>

(* variant: the device's state is not looked at *)
WaitForNothing(t) ==
    /\ At(t, "check")
    /\ Advance(t) /\ UNCHANGED <<is_ata, probed, boot, disk_end>>
    /\ UNCHANGED <<deviceVars, expecting_interrupt, completion_wait, io_lock, io_queue,
                   probed, all_blocks, ios, late, stored>>

(* wait_while_busy(): with no data request, or after 30 seconds, a request *)
(* panics and a disk that is being identified is given up                  *)
wait_while_busy(t) ==
    /\ At(t, "check")
    /\ \/ stage = "drq" /\ Advance(t) /\ UNCHANGED <<is_ata, probed, boot, disk_end>>
       \/ /\ stage # "drq" /\ io[t].op # "identify"
          /\ disk_end' = "panic" /\ UNCHANGED <<io, is_ata, boot>>
       \/ /\ stage # "drq" /\ io[t].op = "identify"
          /\ is_ata' = is_ata \ {io[t].dev}
          /\ boot' = Tail(boot)
          /\ io' = [io EXCEPT ![t] = NoRequest]
          /\ UNCHANGED disk_end
    /\ UNCHANGED <<deviceVars, expecting_interrupt, completion_wait, io_lock, io_queue,
                   probed, all_blocks, ios, late, stored>>

(* input_sector(): the words of the data register; without a data request  *)
(* they are nothing in particular                                          *)
input_sector(t) ==
    /\ At(t, "data") /\ io[t].op \in {"read", "identify"}
    /\ LET answer == stage = "drq" /\ command = [io[t] EXCEPT !.at = command.at] IN
       /\ io' = [io EXCEPT ![t].at = @ + 1,
                           ![t].val = IF answer THEN media[command.dev][command.sec] ELSE -1]
       /\ stage' = IF answer THEN "idle" ELSE stage
    /\ UNCHANGED <<drive, media, command, irq, spurious, expecting_interrupt,
                   completion_wait, io_lock, io_queue, is_ata, probed, boot, all_blocks, ios,
                   late, stored, disk_end>>

(* output_sector() *)
output_sector(t) ==
    /\ At(t, "data") /\ io[t].op = "write"
    /\ stored' = [stored EXCEPT ![io[t].dev][io[t].sec] = io[t].val]
    /\ stage' = IF stage = "drq" THEN "commit" ELSE stage
    /\ Advance(t)
    /\ UNCHANGED <<drive, media, command, irq, spurious, expecting_interrupt,
                   completion_wait, io_lock, io_queue, is_ata, probed, boot, all_blocks, ios,
                   late, disk_end>>

(* lock_release(): the first thread that waits tries again, and the        *)
(* request is over                                                         *)
Release(t) ==
    /\ At(t, "release")
    /\ io_lock' = NoThread
    /\ io_queue' = IF io_queue = <<>> THEN <<>> ELSE Tail(io_queue)
    /\ io' = [io EXCEPT ![t] = NoRequest]
    /\ UNCHANGED <<deviceVars, expecting_interrupt, completion_wait, is_ata, probed, boot,
                   all_blocks, ios, late, stored, disk_end>>

(* interrupt_handler(): nothing ever stops expecting an interrupt *)
interrupt_handler ==
    /\ irq
    /\ irq' = FALSE
    /\ completion_wait' = completion_wait + IF expecting_interrupt THEN 1 ELSE 0
    /\ UNCHANGED <<drive, media, command, stage, spurious, expecting_interrupt, io_lock,
                   io_queue, is_ata, probed, boot, all_blocks, io, ios, late, stored, disk_end>>

-----------------------------------------------------------------------------
(***************************************************************************)
(* The device (external).                                                  *)
(***************************************************************************)

(* the data is there (read, identify) or wanted (write), or the command    *)
(* failed; only a write that wants data raises no interrupt                *)
CommandReady(ok) ==
    /\ stage = "busy"
    /\ stage' = IF ok THEN "drq" ELSE "idle"
    /\ irq' = (irq \/ ~(ok /\ command.op = "write"))
    /\ UNCHANGED <<drive, media, command, spurious>>

(* the data of a write is on the disk *)
Commit ==
    /\ stage = "commit"
    /\ media' = [media EXCEPT ![command.dev][command.sec] = command.val]
    /\ stage' = "idle" /\ irq' = TRUE
    /\ UNCHANGED <<drive, command, spurious>>

(* an interrupt that no command caused *)
Spurious ==
    /\ ~irq /\ spurious < MaxSpurious
    /\ irq' = TRUE /\ spurious' = spurious + 1
    /\ UNCHANGED <<drive, media, command, stage>>

DeviceAnswers == Commit \/ \E ok \in BOOLEAN : CommandReady(ok)

DriverFrame ==
    UNCHANGED <<expecting_interrupt, completion_wait, io_lock, io_queue, is_ata, probed, boot,
                   all_blocks, io, ios, late, stored, disk_end>>

IoStep(t) ==
    \/ Register(t) \/ Acquire(t) \/ select_sector(t) \/ issue_pio_command(t) \/ Down(t)
    \/ wait_while_busy(t) \/ input_sector(t) \/ output_sector(t) \/ Release(t)

DiskNext ==
    /\ disk_end = "no"
    /\ \/ check_device_type \/ identify_ata_device
       \/ \E t \in IoThread : IoStep(t)
       \/ \E t \in IoThread, b \in all_blocks, s \in IoSectors, op \in {"read", "write"} :
             block_request(t, b, s, op)
       \/ interrupt_handler \/ ((DeviceAnswers \/ Spurious) /\ DriverFrame)

-----------------------------------------------------------------------------
(* no interrupt is lost, although select_sector() clears pending ones: who *)
(* waits for one finds the device at work or an interrupt on its way; and  *)
(* who waits for the lock has a holder or a woken thread before it         *)
NobodyHangs ==
    disk_end = "no" =>
       /\ \A t \in IoThread : At(t, "down") /\ completion_wait = 0 =>
             expecting_interrupt /\ (irq \/ stage \in {"busy", "commit"})
       /\ io_queue # <<>> /\ io_lock = NoThread =>
             \E t \in IoThread : At(t, "acquire") /\ \A i \in DOMAIN io_queue : io_queue[i] # t

(***************************************************************************)
(* Requests of several threads through ide_read() and ide_write() are      *)
(* atomic: a read gets what was last written to the sector, although an    *)
(* uncaused interrupt wakes it early.  A command is given only to an idle  *)
(* device, as long as the controller was idle whenever the driver waited   *)
(* for that.  Without uncaused interrupts a write is on the disk when it   *)
(* returns.                                                                *)
(*                                                                         *)
(* Whatever the partition table says, also where sector numbers wrap       *)
(* around, every block device that partition_scan() registers lies within  *)
(* its disk, so that a request that check_sector() lets through is one for *)
(* a sector of the partition.  No request is left waiting for an interrupt *)
(* or the channel's lock for ever.                                         *)
(***************************************************************************)
DiskExact ==
    /\ \A t \in IoThread : At(t, "release") =>
          LET r == io[t] IN
          /\ r.op = "read" => r.val = stored[r.dev][r.sec]
          /\ r.op = "write" /\ spurious = 0 => media[r.dev][r.sec] = r.val
    /\ disk_end = "overlap" => late
    /\ \A b \in all_blocks : b.start + b.size <= DiskSize
    /\ NobodyHangs
=============================================================================
