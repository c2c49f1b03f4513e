-------------------------------- MODULE Ide --------------------------------
(***************************************************************************)
(* The disk driver (src/src/kernel/drivers/ide/{ide,disk,cache}.c): one    *)
(* thread that serves read and write requests through a direct-mapped      *)
(* write-back cache of sectors, waits for the disk's interrupts in the     *)
(* middle of a request, and shares its mailbox between clients, the disk's *)
(* interrupt handler and the timer's.                                      *)
(*                                                                         *)
(* The mailbox is a queue that loses nothing (module Message without its   *)
(* races).  A client has one request at a time (dev_rw in hal.c sends and  *)
(* receives), so its message is its name and the contents are in req.      *)
(***************************************************************************)
EXTENDS Integers, Sequences, Lists

CONSTANTS Client, Nobody,
          NR_SEC_CACHE,  \* slots of the cache
          SECTOR_SIZE,   \* 512
          NR_SECTOR,     \* sectors of the disk
          Val, v0,       \* values of a byte
          MaxLen,        \* bound: bytes per request
          PERIOD,        \* WRITEBACK_TIME * HZ
          MaxPending     \* bound: IDE_WRITEBACK messages in the mailbox

ASSUME IdeAssumption ==
    /\ {NR_SEC_CACHE, SECTOR_SIZE, NR_SECTOR, MaxLen, PERIOD} \subseteq Nat \ {0}
    /\ v0 \in Val
    /\ Nobody \notin Client
    /\ Client \cap {"IDE_READY", "IDE_WRITEBACK"} = {}
    /\ MaxPending \in Nat

Sector == 0..(NR_SECTOR - 1)
Slot == 0..(NR_SEC_CACHE - 1)
Offset == 0..(NR_SECTOR * SECTOR_SIZE - 1)
Content == [0..(SECTOR_SIZE - 1) -> Val]
Entry == [used : BOOLEAN, dirty : BOOLEAN, sector : Sector, content : Content]
Hard == {"IDE_READY", "IDE_WRITEBACK"}

VARIABLES
    req, buf, serving, i, \* requests, client buffers, ide_driver_thread's m and i
    inbox,    \* the messages waiting for the driver
    pc,       \* where the driver is
    cache,    \* the sector cache
    j,        \* cache_writeback's loop variable
    disk,     \* what is on the disk
    cmd,      \* the command the disk works on, or the data it holds for the driver
    counter,  \* time_intr's static counter
    panic     \* "IDE interrupt is leaking"

\* The bytes the clients see: the cached copy of a sector, or the disk's.
SectorOf(o) == o \div SECTOR_SIZE
ByteOf(o) == o % SECTOR_SIZE
SlotOf(s) == s % NR_SEC_CACHE
Hit(s) == cache[SlotOf(s)].used /\ cache[SlotOf(s)].sector = s
Byte(o) == (IF Hit(SectorOf(o)) THEN cache[SlotOf(SectorOf(o))].content
                                ELSE disk[SectorOf(o)])[ByteOf(o)]

Store == INSTANCE ByteStore WITH mem <- [o \in Offset |-> Byte(o)]

clientVars == <<req, buf>>
loopVars == <<serving, i, j>>
diskVars == <<disk, cmd>>
vars == <<req, buf, serving, i, inbox, pc, cache, j, disk, cmd, counter, panic>>

At(l) == pc = l /\ ~panic

Blank == [b \in 0..(SECTOR_SIZE - 1) |-> v0]
NoCmd == [op |-> "none", sector |-> 0, data |-> Blank]
-----------------------------------------------------------------------------
(* Clients and interrupt handlers                                           *)

\* dev_rw: send the request, then wait in receive for the answer.
dev_rw(c) ==
    /\ ~panic
    /\ Store!Ask(c)
    /\ inbox' = Append(inbox, c)
    /\ UNCHANGED <<loopVars, pc, cache, diskVars, counter, panic>>

\* The disk finishes its command and interrupts.
ide_intr ==
    /\ ~panic
    /\ \/ /\ cmd.op = "write"
          /\ disk' = [disk EXCEPT ![cmd.sector] = cmd.data]
          /\ cmd' = NoCmd
       \/ /\ cmd.op = "read"
          /\ cmd' = [cmd EXCEPT !.op = "data", !.data = disk[cmd.sector]]
          /\ UNCHANGED disk
    /\ inbox' = Append(inbox, "IDE_READY")
    /\ UNCHANGED <<clientVars, loopVars, pc, cache, counter, panic>>

Pending == Len(SelectSeq(inbox, LAMBDA x : x = "IDE_WRITEBACK"))

time_intr ==
    /\ counter' = (counter + 1) % PERIOD
    /\ ~panic
    /\ Pending < MaxPending
    /\ inbox' = IF counter' = 0 THEN Append(inbox, "IDE_WRITEBACK") ELSE inbox
    /\ UNCHANGED <<clientVars, loopVars, pc, cache, diskVars, panic>>

-----------------------------------------------------------------------------
(* disk_do_read and disk_do_write                                           *)

issue_read(s, next) ==
    /\ cmd' = [op |-> "read", sector |-> s, data |-> Blank]
    /\ pc' = next

issue_write(entry, next) ==
    /\ cmd' = [op |-> "write", sector |-> entry.sector, data |-> entry.content]
    /\ pc' = next

\* receive(MSG_HARD_INTR, &m): the first message of an interrupt handler.
HardAt == {k \in DOMAIN inbox : inbox[k] \in Hard}

\* Mutant: receive(ANY, &m), whoever sent the message.
FirstMessage == 1

FirstHard == CHOOSE k \in HardAt : \A l \in HardAt : k <= l

\* Mutant: any message of an interrupt handler ends the wait.
GotAny ==
    /\ HardAt # {}
    /\ inbox' = RemoveAt(inbox, FirstHard)

\* The end of "do receive(..) while (m.type != IDE_READY)".
GotReady ==
    /\ HardAt # {}
    /\ inbox[FirstHard] = "IDE_READY"
    /\ inbox' = RemoveAt(inbox, FirstHard)

\* Another round of it: the message is dropped.
disk_wait ==
    /\ pc \in {"evict", "fetch", "wb_wait"} /\ ~panic
    /\ HardAt # {}
    /\ inbox[FirstHard] # "IDE_READY"
    /\ inbox' = RemoveAt(inbox, FirstHard)
    /\ UNCHANGED <<clientVars, loopVars, pc, cache, diskVars, counter, panic>>

-----------------------------------------------------------------------------
(* ide_driver_thread                                                        *)

\* receive(ANY, &m) and the dispatch on its source.
receive_request ==
    /\ At("receive")
    /\ inbox # <<>> /\ Head(inbox) \in Client
    /\ inbox' = Tail(inbox)
    /\ serving' = Head(inbox)
    /\ i' = 0
    /\ pc' = "byte"
    /\ UNCHANGED <<clientVars, j, cache, diskVars, counter, panic>>

\* A message of an interrupt handler is a request to write back, or panics.
receive_hard ==
    /\ At("receive")
    /\ inbox # <<>> /\ Head(inbox) \in Hard
    /\ inbox' = Tail(inbox)
    /\ panic' = (Head(inbox) # "IDE_WRITEBACK")
    /\ j' = 0
    /\ pc' = "wb"
    /\ UNCHANGED <<clientVars, serving, i, cache, diskVars, counter>>

\* The offset of the next byte of the request, its sector and its cache slot.
offset == req[serving].offset + i
sector == SectorOf(offset)
ptr == cache[SlotOf(sector)]
MoreBytes == At("byte") /\ i < req[serving].len

\* read_byte and write_byte when cache_fetch hits.
read_byte ==
    /\ MoreBytes /\ Hit(sector)
    /\ req[serving].type = "DEV_READ"
    /\ buf' = [buf EXCEPT ![serving] = [@ EXCEPT ![i] = ptr.content[ByteOf(offset)]]]
    /\ i' = i + 1
    /\ UNCHANGED <<req, serving, inbox, pc, cache, j, diskVars, counter, panic>>

\* Mutant: dirty is not set.
write_byte_clean ==
    /\ MoreBytes /\ Hit(sector)
    /\ req[serving].type = "DEV_WRITE"
    /\ cache' = [cache EXCEPT ![SlotOf(sector)] =
           [ptr EXCEPT !.content[ByteOf(offset)] = buf[serving][i]]]
    /\ i' = i + 1
    /\ UNCHANGED <<clientVars, serving, inbox, pc, j, diskVars, counter, panic>>

write_byte ==
    /\ MoreBytes /\ Hit(sector)
    /\ req[serving].type = "DEV_WRITE"
    /\ cache' = [cache EXCEPT ![SlotOf(sector)] =
           [ptr EXCEPT !.content[ByteOf(offset)] = buf[serving][i], !.dirty = TRUE]]
    /\ i' = i + 1
    /\ UNCHANGED <<clientVars, serving, inbox, pc, j, diskVars, counter, panic>>

\* cache_fetch, a miss: write the old sector back if it is dirty ...
fetch_evict ==
    /\ MoreBytes /\ ~Hit(sector)
    /\ ptr.used /\ ptr.dirty
    /\ issue_write(ptr, "evict")
    /\ UNCHANGED <<clientVars, loopVars, inbox, cache, disk, counter, panic>>

evicted ==
    /\ At("evict")
    /\ GotReady
    /\ issue_read(sector, "fetch")
    /\ UNCHANGED <<clientVars, loopVars, cache, disk, counter, panic>>

\* Mutant: whatever is in the slot is overwritten.
fetch_over ==
    /\ MoreBytes /\ ~Hit(sector)
    /\ issue_read(sector, "fetch")
    /\ UNCHANGED <<clientVars, loopVars, inbox, cache, disk, counter, panic>>

\* ... and read the new one.
fetch_clean ==
    /\ MoreBytes /\ ~Hit(sector)
    /\ ~(ptr.used /\ ptr.dirty)
    /\ issue_read(sector, "fetch")
    /\ UNCHANGED <<clientVars, loopVars, inbox, cache, disk, counter, panic>>

fetched ==
    /\ At("fetch")
    /\ GotReady
    /\ cache' = [cache EXCEPT ![SlotOf(sector)] =
           [used |-> TRUE, dirty |-> FALSE, sector |-> sector, content |-> cmd.data]]
    /\ cmd' = NoCmd
    /\ pc' = "byte"
    /\ UNCHANGED <<clientVars, loopVars, disk, counter, panic>>

\* m.ret = i; send(m.dest, &m).  The client uses its buffer.
answer ==
    /\ At("byte")
    /\ i = req[serving].len
    /\ req' = [req EXCEPT ![serving] = Store!NoRequest]
    /\ buf' = [buf EXCEPT ![serving] = Store!EmptyBuf]
    /\ serving' = Nobody
    /\ i' = 0
    /\ pc' = "receive"
    /\ UNCHANGED <<inbox, j, cache, diskVars, counter, panic>>

\* cache_writeback: the dirty slots one after the other.
writeback_slot ==
    /\ At("wb")
    /\ j < NR_SEC_CACHE
    /\ IF cache[j].dirty THEN issue_write(cache[j], "wb_wait") /\ UNCHANGED j
                         ELSE j' = j + 1 /\ UNCHANGED <<cmd, pc>>
    /\ UNCHANGED <<clientVars, serving, i, inbox, cache, disk, counter, panic>>

written ==
    /\ At("wb_wait")
    /\ GotReady
    /\ cache' = [cache EXCEPT ![j] = [@ EXCEPT !.dirty = FALSE]]
    /\ j' = j + 1
    /\ pc' = "wb"
    /\ UNCHANGED <<clientVars, serving, i, diskVars, counter, panic>>

writeback_end ==
    /\ At("wb")
    /\ j = NR_SEC_CACHE
    /\ pc' = "receive"
    /\ j' = 0
    /\ UNCHANGED <<clientVars, serving, i, inbox, cache, diskVars, counter, panic>>

-----------------------------------------------------------------------------
\* cache_init, and a disk with anything on it.
Init ==
    /\ req = [c \in Client |-> Store!NoRequest]
    /\ buf = [c \in Client |-> Store!EmptyBuf]
    /\ serving = Nobody
    /\ i = 0
    /\ inbox = <<>>
    /\ pc = "receive"
    /\ cache = [k \in Slot |-> [used |-> FALSE, dirty |-> FALSE, sector |-> 0,
                                content |-> Blank]]
    /\ j = 0
    /\ disk \in [Sector -> Content]
    /\ cmd = NoCmd
    /\ counter = 0
    /\ panic = FALSE

\* What the driver's thread does once there is a message for it.
ide_driver_thread ==
    \/ receive_request \/ receive_hard
    \/ read_byte \/ write_byte
    \/ fetch_evict \/ evicted \/ fetch_clean \/ fetched \/ disk_wait
    \/ writeback_slot \/ written \/ writeback_end
    \/ answer

Next == (\E c \in Client : dev_rw(c)) \/ ide_intr \/ time_intr \/ ide_driver_thread

Spec == Init /\ [][Next]_vars

\* The scheduler runs the driver (Kernel's NoStarvation), the disk finishes every
\* command, the timer keeps ticking.
FairSpec ==
    Spec /\ WF_vars(ide_driver_thread) /\ WF_vars(ide_intr) /\ WF_vars(time_intr)

-----------------------------------------------------------------------------
(* Correctness                                                              *)

\* Every variable keeps its type.
TypeOK ==
    /\ req \in [Client -> Store!Request \cup {Store!NoRequest}]
    /\ buf \in [Client -> Store!Buffer]
    /\ serving \in Client \cup {Nobody}
    /\ i \in 0..MaxLen
    /\ inbox \in Seq(Client \cup Hard)
    /\ pc \in {"receive", "byte", "evict", "fetch", "wb", "wb_wait"}
    /\ cache \in [Slot -> Entry]
    /\ j \in 0..NR_SEC_CACHE
    /\ disk \in [Sector -> Content]
    /\ cmd \in [op : {"none", "read", "write", "data"}, sector : Sector, data : Content]
    /\ counter \in 0..(PERIOD - 1)
    /\ panic \in BOOLEAN

\* panic("IDE interrupt is leaking") is never reached: the loops in disk_do_read
\* and disk_do_write take exactly the interrupt of their own command, whatever
\* write-back requests arrive in between.
NoInterruptLeaks == ~panic

\* A cached sector that is not dirty is the disk's, before, during and after a
\* transfer; so a slot may be given away without writing it.
CleanMatchesDisk ==
    \A k \in Slot : cache[k].used /\ ~cache[k].dirty => cache[k].content = disk[cache[k].sector]

\* A write-back cache nobody notices: through hits, misses, evictions and
\* write-backs the clients see one array of bytes, and their requests served
\* one at a time (read_byte, write_byte, cache_fetch, cache_writeback).
StoreSpec == Store!StoreSpec

\* Every request is answered, although the driver drops messages while it waits
\* for the disk.
RequestsAnswered == \A c \in Client : (req[c] # Store!NoRequest) ~> (req[c] = Store!NoRequest)

\* "writeback cache for every 1 second" (ide.c): what is dirty gets written.  It
\* does not if each IDE_WRITEBACK comes while the driver waits for the disk.
DirtyGetsWritten == \A k \in Slot : cache[k].dirty ~> ~cache[k].dirty

(* The strengthening that makes these invariants inductive.                 *)

InBox(x) == \E k \in DOMAIN inbox : inbox[k] = x
Once == \A k, l \in DOMAIN inbox : inbox[k] = inbox[l] /\ inbox[k] # "IDE_WRITEBACK" => k = l
Ready == InBox("IDE_READY")

\* A message of a client, or IDE_READY, is in the mailbox once; the clients in it
\* wait for an answer and are not being served.
Mailbox ==
    /\ Once
    /\ \A c \in Client : InBox(c) => c # serving /\ req[c] # Store!NoRequest

\* Requests stay on the device, and one is served exactly while the driver is in
\* the middle of it.
Serving ==
    /\ \A c \in Client : req[c].len > 0 => req[c].offset + req[c].len - 1 \in Offset
    /\ pc \in {"byte", "evict", "fetch"} =>
          serving \in Client /\ req[serving] # Store!NoRequest /\ i <= req[serving].len
    /\ pc \in {"evict", "fetch"} => i < req[serving].len
    /\ pc \in {"receive", "wb", "wb_wait"} => serving = Nobody
    /\ pc = "wb_wait" => j \in Slot

\* A sector is cached in its own slot, and only a sector is dirty.
Placed == \A k \in Slot : /\ cache[k].used => SlotOf(cache[k].sector) = k
                          /\ cache[k].dirty => cache[k].used

\* The disk works on a command, or its IDE_READY is in the mailbox, exactly while
\* the driver waits for it.
Handshake ==
    /\ pc \in {"receive", "byte", "wb"} => cmd.op = "none" /\ ~Ready
    /\ pc \in {"evict", "wb_wait"} => cmd.op = (IF Ready THEN "none" ELSE "write")
    /\ pc = "fetch" => cmd.op = (IF Ready THEN "data" ELSE "read")

\* Entry e is on its way to the disk, or there.
Saving(e) ==
    /\ e.used /\ e.dirty
    /\ IF Ready THEN disk[e.sector] = e.content
                ELSE cmd.sector = e.sector /\ cmd.data = e.content

\* What the driver waits for is what it needs.
Transfers ==
    /\ pc = "evict" => Saving(ptr) /\ ~Hit(sector)
    /\ pc = "wb_wait" => Saving(cache[j])
    /\ pc = "fetch" => /\ ~Hit(sector)
                       /\ cmd.sector = sector
                       /\ Ready => cmd.data = disk[sector]
                       /\ ptr.used => ptr.content = disk[ptr.sector]

IInv ==
    /\ TypeOK /\ NoInterruptLeaks /\ CleanMatchesDisk
    /\ Mailbox /\ Serving /\ Placed /\ Handshake /\ Transfers
=============================================================================
