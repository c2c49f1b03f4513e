----------------------------- MODULE IdeProofs -----------------------------
(* The disk driver is correct for any disk, cache and number of clients.    *)
EXTENDS Ide, ListProofs

USE IdeAssumption

\* Most steps are set reasoning: Zenon proves them, SMT is asked by name.
USE Zenon

\* Offsets, sectors and slots: every byte of the device is in one place of one
\* sector, and every sector has one slot.
LEMMA Geometry ==
    /\ \A o \in Offset : SectorOf(o) \in Sector /\ ByteOf(o) \in 0..(SECTOR_SIZE - 1)
    /\ \A o, p \in Offset : SectorOf(o) = SectorOf(p) /\ ByteOf(o) = ByteOf(p) => o = p
    /\ \A s \in Sector : SlotOf(s) \in Slot
<1>1. \A o \in Nat, n \in Nat \ {0} :
          o % n \in 0..(n - 1) /\ o \div n \in Nat /\ o = n * (o \div n) + (o % n)
  BY SMT
<1>2. \A q, m \in Nat, n \in Nat \ {0} : n * q < m * n => q < m
  BY SMT
<1>3. \A o \in Offset : o \in Nat /\ o < NR_SECTOR * SECTOR_SIZE
  BY SMT DEF Offset
<1>4. ASSUME NEW o \in Offset
      PROVE  /\ SectorOf(o) \in Sector
             /\ ByteOf(o) \in 0..(SECTOR_SIZE - 1)
             /\ o = SECTOR_SIZE * SectorOf(o) + ByteOf(o)
  <2> DEFINE q == o \div SECTOR_SIZE
             r == o % SECTOR_SIZE
  <2>1. q \in Nat /\ r \in 0..(SECTOR_SIZE - 1) /\ o = SECTOR_SIZE * q + r
    BY <1>1, <1>3
  <2> HIDE DEF q, r
  <2>2. SECTOR_SIZE * q < NR_SECTOR * SECTOR_SIZE
    BY SMT, <1>3, <2>1
  <2>3. q < NR_SECTOR
    BY <1>2, <2>1, <2>2
  <2> QED
    BY SMT, <2>1, <2>3 DEF q, r, SectorOf, ByteOf, Sector
<1>5. \A s \in Sector : SlotOf(s) \in Slot
  <2> SUFFICES ASSUME NEW s \in Sector PROVE SlotOf(s) \in Slot
    OBVIOUS
  <2>1. s \in Nat
    BY SMT DEF Sector
  <2>2. s % NR_SEC_CACHE \in 0..(NR_SEC_CACHE - 1)
    BY <1>1, <2>1
  <2> QED
    BY <2>2 DEF SlotOf, Slot
<1> QED
  BY <1>4, <1>5

\* receive(MSG_HARD_INTR) finds a message of an interrupt handler.
LEMMA FirstHardProperties ==
    ASSUME inbox \in Seq(Client \cup Hard), HardAt # {}
    PROVE  FirstHard \in 1..Len(inbox) /\ inbox[FirstHard] \in Hard
<1>1. HardAt \in SUBSET Nat /\ DOMAIN inbox = 1..Len(inbox)
  BY SMT, SeqLength DEF HardAt
<1>2. \E k \in HardAt : \A l \in HardAt : k <= l
  BY <1>1, Least
<1>3. FirstHard \in HardAt
  BY <1>2 DEF FirstHard
<1> QED
  BY <1>1, <1>3 DEF HardAt

\* What send does to the driver's mailbox.
LEMMA Sent ==
    ASSUME inbox \in Seq(Client \cup Hard), Once, NEW x \in Client \cup Hard,
           x = "IDE_WRITEBACK" \/ ~InBox(x),
           inbox' = Append(inbox, x)
    PROVE  /\ inbox' \in Seq(Client \cup Hard)
           /\ Once'
           /\ \A y : InBox(y)' <=> InBox(y) \/ y = x
<1>1. /\ inbox' \in Seq(Client \cup Hard)
      /\ Len(inbox') = Len(inbox) + 1
      /\ \A k \in 1..Len(inbox) : inbox'[k] = inbox[k]
      /\ inbox'[Len(inbox) + 1] = x
  BY SMT, SeqAppend
<1>2. Len(inbox) \in Nat /\ DOMAIN inbox = 1..Len(inbox) /\ DOMAIN inbox' = 1..(Len(inbox) + 1)
  BY <1>1, SeqLength
<1>3. \A k \in 1..(Len(inbox) + 1) : k \in 1..Len(inbox) \/ k = Len(inbox) + 1
  BY SMT, <1>2
<1>4. Once'
  BY SMT, <1>1, <1>2, <1>3 DEF Once, InBox
<1>5. \A y : InBox(y)' <=> InBox(y) \/ y = x
  BY SMT, <1>1, <1>2, <1>3 DEF InBox
<1> QED
  BY <1>1, <1>4, <1>5

\* What receive does to it: message n is gone, the others stay.
LEMMA Taken ==
    ASSUME inbox \in Seq(Client \cup Hard), Once, NEW n \in 1..Len(inbox),
           inbox' = RemoveAt(inbox, n)
    PROVE  /\ inbox' \in Seq(Client \cup Hard)
           /\ Once'
           /\ \A y : InBox(y)' => InBox(y)
           /\ \A y : InBox(y) /\ y # inbox[n] => InBox(y)'
           /\ \A y : y = inbox[n] /\ y # "IDE_WRITEBACK" => ~InBox(y)'
<1>1. /\ inbox' \in Seq(Client \cup Hard)
      /\ Len(inbox') = Len(inbox) - 1
      /\ \A k \in 1..(Len(inbox) - 1) : inbox'[k] = IF k < n THEN inbox[k] ELSE inbox[k + 1]
  BY RemoveAtProperties
<1>2. Len(inbox) \in Nat /\ DOMAIN inbox = 1..Len(inbox) /\ DOMAIN inbox' = 1..(Len(inbox) - 1)
  BY <1>1, SeqLength
<1> DEFINE old(k) == IF k < n THEN k ELSE k + 1
<1>3. /\ \A k \in DOMAIN inbox' : /\ old(k) \in DOMAIN inbox /\ old(k) # n
                                  /\ inbox'[k] = inbox[old(k)]
      /\ \A k, l \in DOMAIN inbox' : old(k) = old(l) => k = l
  <2>1. \A k \in DOMAIN inbox' : old(k) \in DOMAIN inbox /\ old(k) # n
    BY SMT, <1>2
  <2>2. \A k \in DOMAIN inbox' : inbox'[k] = inbox[old(k)]
    BY <1>1, <1>2
  <2>3. \A k, l \in DOMAIN inbox' : old(k) = old(l) => k = l
    BY SMT, <1>2
  <2> QED
    BY <2>1, <2>2, <2>3
<1>4. \A m \in DOMAIN inbox : m # n => \E k \in DOMAIN inbox' : old(k) = m
  <2> SUFFICES ASSUME NEW m \in DOMAIN inbox, m # n
               PROVE  \E k \in DOMAIN inbox' : old(k) = m
    OBVIOUS
  <2>1. CASE m < n
    BY SMT, <1>2, <2>1
  <2>2. CASE m > n
    <3>1. m - 1 \in DOMAIN inbox' /\ old(m - 1) = m
      BY SMT, <1>2, <2>2
    <3> QED
      BY <3>1
  <2> QED
    BY SMT, <1>2, <2>1, <2>2
<1> HIDE DEF old
<1>5. Once'
  BY SMT, <1>3 DEF Once
<1>6. \A y : InBox(y)' => InBox(y)
  BY <1>3 DEF InBox
<1>7. \A y : InBox(y) /\ y # inbox[n] => InBox(y)'
  BY SMT, <1>3, <1>4 DEF InBox
<1>8. \A y : y = inbox[n] /\ y # "IDE_WRITEBACK" => ~InBox(y)'
  BY <1>2, <1>3 DEF Once, InBox
<1> QED
  BY <1>1, <1>5, <1>6, <1>7, <1>8

\* The same for the first message.
LEMMA TakenHead ==
    ASSUME inbox \in Seq(Client \cup Hard), inbox # <<>>
    PROVE  /\ 1 \in 1..Len(inbox) /\ Head(inbox) = inbox[1]
           /\ Head(inbox) \in Client \cup Hard
           /\ InBox(Head(inbox))
           /\ Tail(inbox) = RemoveAt(inbox, 1)
<1>1. /\ Head(inbox) \in Client \cup Hard
      /\ Head(inbox) = inbox[1] /\ 1 \in 1..Len(inbox)
  BY HeadInRange
<1>2. /\ RemoveAt(inbox, 1) \in Seq(Client \cup Hard)
      /\ Len(RemoveAt(inbox, 1)) = Len(inbox) - 1
      /\ \A k \in 1..(Len(inbox) - 1) :
            RemoveAt(inbox, 1)[k] = IF k < 1 THEN inbox[k] ELSE inbox[k + 1]
  BY <1>1, RemoveAtProperties
<1>3. /\ Tail(inbox) \in Seq(Client \cup Hard)
      /\ Len(Tail(inbox)) = Len(inbox) - 1
      /\ \A k \in 1..(Len(inbox) - 1) : Tail(inbox)[k] = inbox[k + 1]
  BY SeqHeadTail
<1>4. Tail(inbox) = RemoveAt(inbox, 1)
  <2>1. \A k \in 1..Len(Tail(inbox)) : Tail(inbox)[k] = RemoveAt(inbox, 1)[k]
    BY SMTT(30), <1>2, <1>3
  <2> QED
    BY <1>2, <1>3, <2>1, SeqSame
<1> QED
  BY <1>1, <1>4, SeqLength DEF InBox

-----------------------------------------------------------------------------
(* The inductive invariant                                                  *)

\* The byte the driver works on is on the device, its sector has a slot.
LEMMA InRequest ==
    ASSUME IInv, pc \in {"byte", "evict", "fetch"}, i < req[serving].len
    PROVE  /\ serving \in Client
           /\ req[serving] \in Store!Request
           /\ offset \in Offset /\ sector \in Sector
           /\ SlotOf(sector) \in Slot /\ ptr \in Entry
<1>1. serving \in Client /\ req[serving] \in Store!Request
  BY DEF IInv, TypeOK, Serving
<1> DEFINE r == req[serving]
<1>2. r.offset \in Offset /\ r.len \in Nat /\ i \in Nat
  BY SMT, <1>1 DEF IInv, TypeOK, Store!Request
<1>3. r.offset + r.len - 1 \in Offset
  BY SMT, <1>1, <1>2 DEF IInv, Serving
<1> HIDE DEF r
<1>4. r.offset + i \in Offset
  <2>1. NR_SECTOR * SECTOR_SIZE \in Nat
    BY SMT
  <2> QED
    BY SMT, <1>2, <1>3, <2>1 DEF r, Offset
<1>5. offset \in Offset
  BY <1>4 DEF r, offset
<1>6. sector \in Sector /\ SlotOf(sector) \in Slot
  BY <1>5, Geometry DEF sector
<1> QED
  BY <1>1, <1>5, <1>6 DEF ptr, IInv, TypeOK

\* The client being served waits for its answer; nobody is served otherwise.
LEMMA Served ==
    ASSUME IInv
    PROVE  serving \in Client => /\ req[serving] # Store!NoRequest
                                 /\ pc \in {"byte", "evict", "fetch"}
BY DEF IInv, TypeOK, Serving

\* A step that touches neither the driver's progress, the disk nor the cache,
\* and no IDE_READY, leaves a wait as it is.
LEMMA WaitUndisturbed ==
    ASSUME IInv, UNCHANGED <<pc, cmd, cache, disk, j>>, Ready' <=> Ready,
           pc \in {"evict", "fetch"} => UNCHANGED sector
    PROVE  CleanMatchesDisk' /\ Placed' /\ Handshake' /\ Transfers'
<1> USE DEF IInv
<1>1. CleanMatchesDisk' /\ Placed'
  BY DEF CleanMatchesDisk, Placed
<1>2. Handshake'
  BY DEF Handshake
<1>3. Transfers'
  BY DEF Transfers, Saving, Hit, ptr
<1> QED
  BY <1>1, <1>2, <1>3

\* Outside the waits the disk is idle.
LEMMA NotWaiting ==
    ASSUME pc' \in {"receive", "byte", "wb"}, cmd'.op = "none", ~Ready'
    PROVE  Handshake' /\ Transfers'
BY DEF Handshake, Transfers

\* dev_rw: a client sends a request.
LEMMA dev_rwStep ==
    ASSUME IInv, NEW c \in Client, dev_rw(c)
    PROVE  IInv'
<1> USE DEF IInv
<1>1. PICK r \in Store!Request, b \in Store!Buffer :
          /\ r.len > 0 => r.offset + r.len - 1 \in Offset
          /\ req' = [req EXCEPT ![c] = r]
          /\ buf' = [buf EXCEPT ![c] = b]
  BY DEF dev_rw, Store!Ask
<1>2. /\ req[c] = Store!NoRequest /\ inbox' = Append(inbox, c)
      /\ UNCHANGED <<serving, i, j, pc, cache, disk, cmd, counter, panic>>
  BY DEF dev_rw, Store!Ask, loopVars, diskVars
<1>3. ~InBox(c) /\ c # serving
  BY <1>2, Served DEF Mailbox
<1>4. /\ inbox' \in Seq(Client \cup Hard)
      /\ Once'
      /\ \A y : InBox(y)' <=> InBox(y) \/ y = c
  <2>1. inbox \in Seq(Client \cup Hard) /\ Once /\ c \in Client \cup Hard
    BY DEF TypeOK, Mailbox
  <2> QED
    BY <1>2, <1>3, <2>1, Sent
<1>5. Ready' <=> Ready
  BY <1>4 DEF Ready, Hard
<1>6. r # Store!NoRequest
  BY SMT DEF Store!Request, Store!NoRequest
<1>7. /\ \A d \in Client : d # c => req'[d] = req[d]
      /\ req'[c] = r
  BY <1>1 DEF TypeOK
<1>8. TypeOK' /\ NoInterruptLeaks'
  <2>1. req' \in [Client -> Store!Request \cup {Store!NoRequest}] /\ buf' \in [Client -> Store!Buffer]
    BY <1>1 DEF TypeOK
  <2> QED
    BY <1>2, <1>4, <2>1 DEF TypeOK, NoInterruptLeaks
<1>9. Mailbox'
  BY <1>2, <1>3, <1>4, <1>6, <1>7 DEF Mailbox
<1>10. Serving'
  BY <1>1, <1>2, <1>3, <1>7 DEF Serving, TypeOK
<1>11. pc \in {"evict", "fetch"} => UNCHANGED sector
  BY <1>2, <1>3, <1>7 DEF sector, offset, Serving
<1> QED
  BY <1>2, <1>5, <1>8, <1>9, <1>10, <1>11, WaitUndisturbed

\* time_intr, and a round of the wait for IDE_READY that drops a message.
LEMMA time_intrStep ==
    ASSUME IInv, time_intr
    PROVE  IInv'
<1> USE DEF IInv
<1>1. UNCHANGED <<req, buf, serving, i, j, pc, cache, disk, cmd, panic>>
  BY DEF time_intr, clientVars, loopVars, diskVars
<1>2. inbox' = inbox \/ inbox' = Append(inbox, "IDE_WRITEBACK")
  BY DEF time_intr
<1>3. /\ inbox' \in Seq(Client \cup Hard)
      /\ Once'
      /\ \A y : y # "IDE_WRITEBACK" => (InBox(y)' <=> InBox(y))
  <2>1. inbox \in Seq(Client \cup Hard) /\ Once /\ "IDE_WRITEBACK" \in Client \cup Hard
    BY DEF TypeOK, Mailbox, Hard
  <2>2. CASE inbox' = inbox
    BY <2>1, <2>2 DEF Once, InBox
  <2>3. CASE inbox' = Append(inbox, "IDE_WRITEBACK")
    BY <2>1, <2>3, Sent
  <2> QED
    BY <1>2, <2>2, <2>3
<1>4. counter' \in 0..(PERIOD - 1)
  <2>1. counter + 1 \in Nat
    BY SMT DEF TypeOK
  <2>2. \A k \in Nat, n \in Nat \ {0} : k % n \in 0..(n - 1)
    BY SMT
  <2> QED
    BY <2>1, <2>2 DEF time_intr
<1>5. TypeOK' /\ NoInterruptLeaks'
  BY <1>1, <1>3, <1>4 DEF TypeOK, NoInterruptLeaks
<1>6. Mailbox' /\ (Ready' <=> Ready)
  <2>1. \A c \in Client : c # "IDE_WRITEBACK"
    OBVIOUS
  <2> QED
    BY <1>1, <1>3, <2>1 DEF Mailbox, Ready
<1>7. Serving' /\ UNCHANGED sector
  BY <1>1 DEF Serving, sector, offset
<1> QED
  BY <1>1, <1>5, <1>6, <1>7, WaitUndisturbed

\* The driver takes what it waits for, or drops another message.
LEMMA disk_waitStep ==
    ASSUME IInv, disk_wait
    PROVE  IInv'
<1> USE DEF IInv
<1>1. /\ UNCHANGED <<req, buf, serving, i, j, pc, cache, disk, cmd, counter, panic>>
      /\ HardAt # {} /\ inbox[FirstHard] # "IDE_READY"
      /\ inbox' = RemoveAt(inbox, FirstHard)
  BY DEF disk_wait, clientVars, loopVars, diskVars
<1>2. inbox \in Seq(Client \cup Hard) /\ Once
  BY DEF TypeOK, Mailbox
<1>3. FirstHard \in 1..Len(inbox) /\ inbox[FirstHard] \in Hard
  BY <1>1, <1>2, FirstHardProperties
<1>4. PICK n \in 1..Len(inbox) : inbox' = RemoveAt(inbox, n) /\ inbox[n] = "IDE_WRITEBACK"
  BY <1>1, <1>3 DEF Hard
<1>5. /\ inbox' \in Seq(Client \cup Hard)
      /\ Once'
      /\ \A y : y # "IDE_WRITEBACK" => (InBox(y)' <=> InBox(y))
  BY <1>2, <1>4, Taken
<1>6. TypeOK' /\ NoInterruptLeaks'
  BY <1>1, <1>5 DEF TypeOK, NoInterruptLeaks
<1>7. Mailbox' /\ (Ready' <=> Ready)
  <2>1. \A c \in Client : c # "IDE_WRITEBACK"
    OBVIOUS
  <2> QED
    BY <1>1, <1>5, <2>1 DEF Mailbox, Ready
<1>8. Serving' /\ UNCHANGED sector
  BY <1>1 DEF Serving, sector, offset
<1> QED
  BY <1>1, <1>6, <1>7, <1>8, WaitUndisturbed

\* The end of a wait: the disk's only IDE_READY leaves the mailbox.
LEMMA GotReadyEffect ==
    ASSUME IInv, GotReady
    PROVE  /\ inbox' \in Seq(Client \cup Hard) /\ Once'
           /\ Ready /\ ~Ready'
           /\ \A c \in Client : InBox(c)' => InBox(c)
<1>1. inbox \in Seq(Client \cup Hard) /\ Once
  BY DEF IInv, TypeOK, Mailbox
<1>2. HardAt # {} /\ inbox[FirstHard] = "IDE_READY" /\ inbox' = RemoveAt(inbox, FirstHard)
  BY DEF GotReady
<1>3. PICK n \in 1..Len(inbox) : inbox' = RemoveAt(inbox, n) /\ inbox[n] = "IDE_READY"
  BY <1>1, <1>2, FirstHardProperties
<1>4. /\ inbox' \in Seq(Client \cup Hard)
      /\ Once'
      /\ \A y : InBox(y)' => InBox(y)
      /\ \A y : y = inbox[n] /\ y # "IDE_WRITEBACK" => ~InBox(y)'
  BY <1>1, <1>3, Taken
<1>5. Ready
  BY <1>1, <1>3, SeqLength DEF Ready, InBox
<1> QED
  BY <1>3, <1>4, <1>5 DEF Ready

\* ide_intr: the disk has done what the driver waits for.
LEMMA ide_intrStep ==
    ASSUME IInv, ide_intr
    PROVE  IInv'
<1> USE DEF IInv
<1>1. /\ UNCHANGED <<req, buf, serving, i, j, pc, cache, counter, panic>>
      /\ inbox' = Append(inbox, "IDE_READY")
      /\ cmd.op \in {"read", "write"}
  BY DEF ide_intr, clientVars, loopVars
<1>2. /\ ~Ready
      /\ cmd.op = "write" => pc \in {"evict", "wb_wait"}
      /\ cmd.op = "read" => pc = "fetch"
  BY <1>1 DEF Handshake, TypeOK
<1>3. /\ inbox' \in Seq(Client \cup Hard)
      /\ Once'
      /\ \A y : InBox(y)' <=> InBox(y) \/ y = "IDE_READY"
  <2>1. inbox \in Seq(Client \cup Hard) /\ Once /\ "IDE_READY" \in Client \cup Hard
    BY DEF TypeOK, Mailbox, Hard
  <2> QED
    BY <1>1, <1>2, <2>1, Sent DEF Ready
<1>4. Mailbox' /\ Ready'
  <2>1. \A c \in Client : c # "IDE_READY"
    OBVIOUS
  <2> QED
    BY <1>1, <1>3, <2>1 DEF Mailbox, Ready
<1>5. Serving' /\ UNCHANGED sector /\ Placed'
  BY <1>1 DEF Serving, sector, offset, Placed
<1>6. CASE cmd.op = "write"
  <2>1. disk' = [disk EXCEPT ![cmd.sector] = cmd.data] /\ cmd' = NoCmd
    BY <1>6 DEF ide_intr
  <2>2. PICK k \in Slot : /\ cache[k].used /\ cache[k].dirty
                          /\ cache[k].sector = cmd.sector /\ cache[k].content = cmd.data
                          /\ pc = "evict" => ptr = cache[k]
                          /\ pc = "wb_wait" => j = k
    <3>1. CASE pc = "evict"
      <4>1. SlotOf(sector) \in Slot
        BY <3>1, InRequest DEF Serving
      <4> QED
        BY <1>2, <3>1, <4>1 DEF Transfers, Saving, ptr
    <3>2. CASE pc = "wb_wait"
      BY <1>2, <3>2 DEF Transfers, Saving, Serving
    <3> QED
      BY <1>2, <1>6, <3>1, <3>2
  <2>3. SlotOf(cmd.sector) = k /\ cmd.sector \in Sector
    BY <2>2 DEF Placed, TypeOK
  <2>4. TypeOK' /\ NoInterruptLeaks'
    <3>1. NoCmd \in [op : {"none", "read", "write", "data"}, sector : Sector, data : Content]
      BY SMT DEF NoCmd, Blank, Sector, Content
    <3>2. disk' \in [Sector -> Content]
      BY <2>1 DEF TypeOK
    <3> QED
      BY <1>1, <1>3, <2>1, <3>1, <3>2 DEF TypeOK, NoInterruptLeaks
  <2>5. CleanMatchesDisk'
    <3>1. \A l \in Slot : cache[l].used /\ ~cache[l].dirty => cache[l].sector # cmd.sector
      BY <2>2, <2>3 DEF Placed
    <3> QED
      BY SMT, <1>1, <2>1, <3>1 DEF CleanMatchesDisk, TypeOK
  <2>6. Handshake'
    BY <1>1, <1>2, <1>4, <1>6, <2>1 DEF Handshake, NoCmd
  <2>7. disk'[cache[k].sector] = cache[k].content
    BY <2>1, <2>2, <2>3 DEF TypeOK
  <2>8. Transfers'
    <3>1. pc = "evict" => Saving(ptr)' /\ ~Hit(sector)'
      BY <1>1, <1>4, <1>5, <2>2, <2>7 DEF Transfers, Saving, Hit, ptr
    <3>2. pc = "wb_wait" => Saving(cache[j])'
      BY <1>1, <1>4, <2>2, <2>7 DEF Saving
    <3> QED
      BY <1>1, <1>2, <1>6, <3>1, <3>2 DEF Transfers
  <2> QED
    BY <1>4, <1>5, <2>4, <2>5, <2>6, <2>8
<1>7. CASE cmd.op = "read"
  <2>1. cmd' = [cmd EXCEPT !.op = "data", !.data = disk[cmd.sector]] /\ UNCHANGED disk
    BY <1>7 DEF ide_intr
  <2>2. /\ cmd'.op = "data" /\ cmd'.sector = cmd.sector /\ cmd'.data = disk[cmd.sector]
        /\ cmd' \in [op : {"none", "read", "write", "data"}, sector : Sector, data : Content]
    BY <2>1 DEF TypeOK
  <2>3. TypeOK' /\ NoInterruptLeaks'
    BY <1>1, <1>3, <2>1, <2>2 DEF TypeOK, NoInterruptLeaks
  <2>4. CleanMatchesDisk' /\ Handshake'
    BY <1>1, <1>2, <1>4, <1>7, <2>1, <2>2 DEF CleanMatchesDisk, Handshake
  <2>5. Transfers'
    BY <1>1, <1>2, <1>4, <1>5, <1>7, <2>1, <2>2 DEF Transfers, Hit, ptr
  <2> QED
    BY <1>4, <1>5, <2>3, <2>4, <2>5
<1> QED
  BY <1>1, <1>6, <1>7

\* The main loop takes a message: a request is begun, or the cache written back;
\* IDE_READY is not there.
LEMMA receiveStep ==
    ASSUME IInv, receive_request \/ receive_hard
    PROVE  IInv'
<1> USE DEF IInv
<1>1. /\ pc = "receive" /\ inbox # <<>> /\ inbox' = Tail(inbox)
      /\ UNCHANGED <<req, buf, cache, disk, cmd, counter>>
      /\ pc' \in {"byte", "wb"}
  BY DEF receive_request, receive_hard, At, clientVars, diskVars
<1>2. inbox \in Seq(Client \cup Hard) /\ Once /\ ~Ready /\ cmd.op = "none" /\ serving = Nobody
  BY <1>1 DEF TypeOK, Mailbox, Handshake, Serving
<1> DEFINE h == Head(inbox)
<1>3. /\ h \in Client \cup Hard /\ InBox(h) /\ h # "IDE_READY"
      /\ 1 \in 1..Len(inbox) /\ inbox[1] = h /\ inbox' = RemoveAt(inbox, 1)
  BY <1>1, <1>2, TakenHead DEF Ready
<1>4. /\ inbox' \in Seq(Client \cup Hard)
      /\ Once'
      /\ \A y : InBox(y)' => InBox(y)
      /\ \A y : y = inbox[1] /\ y # "IDE_WRITEBACK" => ~InBox(y)'
  BY <1>2, <1>3, Taken
<1> HIDE DEF h
<1>5. ~Ready'
  BY <1>2, <1>4 DEF Ready
<1>6. Handshake' /\ Transfers'
  BY <1>1, <1>2, <1>5, NotWaiting
<1>7. CleanMatchesDisk' /\ Placed'
  BY <1>1 DEF CleanMatchesDisk, Placed
<1>8. CASE receive_request
  <2>1. h \in Client /\ serving' = h /\ i' = 0 /\ pc' = "byte" /\ UNCHANGED <<j, panic>>
    BY <1>8 DEF receive_request, h
  <2>2. h # "IDE_WRITEBACK" /\ req[h] # Store!NoRequest /\ req[h].len \in Nat
    BY SMT, <1>3, <2>1 DEF Mailbox, TypeOK, Store!Request, Store!NoRequest
  <2>3. TypeOK' /\ NoInterruptLeaks'
    BY SMT, <1>1, <1>4, <2>1 DEF TypeOK, NoInterruptLeaks
  <2>4. Mailbox'
    BY <1>1, <1>3, <1>4, <2>1, <2>2 DEF Mailbox
  <2>5. Serving'
    BY SMT, <1>1, <2>1, <2>2 DEF Serving
  <2> QED
    BY <1>6, <1>7, <2>3, <2>4, <2>5
<1>9. CASE receive_hard
  <2>1. h = "IDE_WRITEBACK" /\ panic' = FALSE /\ j' = 0 /\ pc' = "wb" /\ UNCHANGED <<serving, i>>
    BY <1>3, <1>9 DEF receive_hard, h, Hard
  <2>2. TypeOK' /\ NoInterruptLeaks'
    <3>1. ~panic' /\ panic' \in BOOLEAN
      BY <2>1
    <3>2. j' \in 0..NR_SEC_CACHE /\ pc' \in {"receive", "byte", "evict", "fetch", "wb", "wb_wait"}
      BY SMT, <2>1
    <3> QED
      BY <1>1, <1>4, <2>1, <3>1, <3>2 DEF TypeOK, NoInterruptLeaks
  <2>3. Mailbox' /\ Serving'
    BY <1>1, <1>2, <1>4, <2>1 DEF Mailbox, Serving
  <2> QED
    BY <1>6, <1>7, <2>2, <2>3
<1> QED
  BY <1>8, <1>9

\* A byte goes from the cache to the client, or the other way.
LEMMA byteStep ==
    ASSUME IInv, read_byte \/ write_byte
    PROVE  IInv'
<1> USE DEF IInv
<1>1. /\ pc = "byte" /\ i < req[serving].len /\ Hit(sector) /\ i' = i + 1
      /\ UNCHANGED <<req, serving, inbox, pc, j, disk, cmd, counter, panic>>
  BY DEF read_byte, write_byte, MoreBytes, At, clientVars, diskVars
<1>2. /\ serving \in Client /\ req[serving] \in Store!Request
      /\ offset \in Offset /\ sector \in Sector
      /\ SlotOf(sector) \in Slot /\ ptr \in Entry
  BY <1>1, InRequest
<1>3. i \in 0..(MaxLen - 1) /\ i' \in 0..MaxLen /\ i' <= req[serving].len
  BY SMT, <1>1, <1>2 DEF TypeOK, Store!Request
<1>4. ByteOf(offset) \in 0..(SECTOR_SIZE - 1)
  BY <1>2, Geometry
<1>5. Mailbox' /\ Serving' /\ NoInterruptLeaks'
  BY <1>1, <1>2, <1>3 DEF Mailbox, Once, InBox, Serving, NoInterruptLeaks
<1>6. Handshake' /\ Transfers'
  <2>1. cmd.op = "none" /\ ~Ready
    BY <1>1 DEF Handshake
  <2>2. ~Ready'
    BY <1>1, <2>1 DEF Ready, InBox
  <2> QED
    BY <1>1, <2>1, <2>2, NotWaiting
<1>7. CASE read_byte
  <2>1. /\ buf' = [buf EXCEPT ![serving] = [@ EXCEPT ![i] = ptr.content[ByteOf(offset)]]]
        /\ UNCHANGED cache
    BY <1>7 DEF read_byte
  <2>2. ptr.content[ByteOf(offset)] \in Val
    BY <1>2, <1>4 DEF Entry, Content
  <2>3. buf' \in [Client -> Store!Buffer]
    BY <1>2, <1>3, <2>1, <2>2 DEF TypeOK, Store!Buffer
  <2>4. TypeOK'
    BY <1>1, <1>3, <2>1, <2>3 DEF TypeOK
  <2>5. CleanMatchesDisk' /\ Placed'
    BY <1>1, <2>1 DEF CleanMatchesDisk, Placed
  <2> QED
    BY <1>5, <1>6, <2>4, <2>5
<1>8. CASE write_byte
  <2> DEFINE k == SlotOf(sector)
             v == [ptr EXCEPT !.content[ByteOf(offset)] = buf[serving][i], !.dirty = TRUE]
  <2>1. cache' = [cache EXCEPT ![k] = v] /\ UNCHANGED buf
    BY <1>8 DEF write_byte, clientVars
  <2>2. buf[serving][i] \in Val
    <3>1. buf[serving] \in Store!Buffer
      BY <1>2 DEF TypeOK
    <3> QED
      BY <1>3, <3>1 DEF Store!Buffer
  <2>3. v \in Entry /\ v.used = ptr.used /\ v.sector = ptr.sector /\ v.dirty
    BY <1>2, <1>4, <2>2 DEF Entry, Content
  <2>4. ptr = cache[k] /\ ptr.used
    BY <1>1 DEF Hit, ptr
  <2> HIDE DEF k, v
  <2>5. k \in Slot
    BY <1>2 DEF k
  <2>6. cache'[k] = v /\ \A l \in Slot : l # k => cache'[l] = cache[l]
    BY <2>1, <2>5 DEF TypeOK
  <2>7. TypeOK'
    <3>1. cache' \in [Slot -> Entry]
      BY <2>1, <2>3, <2>5 DEF TypeOK
    <3> QED
      BY <1>1, <1>3, <2>1, <3>1 DEF TypeOK
  <2>8. CleanMatchesDisk' /\ Placed'
    <3>1. CleanMatchesDisk'
      BY <1>1, <2>3, <2>6 DEF CleanMatchesDisk
    <3>2. Placed'
      BY <2>3, <2>4, <2>5, <2>6 DEF Placed
    <3> QED
      BY <3>1, <3>2
  <2> QED
    BY <1>5, <1>6, <2>7, <2>8
<1> QED
  BY <1>7, <1>8

\* A miss: the slot's dirty sector goes to the disk, or the new one is asked for.
LEMMA fetchStep ==
    ASSUME IInv, fetch_evict \/ fetch_clean
    PROVE  IInv'
<1> USE DEF IInv
<1>1. /\ pc = "byte" /\ i < req[serving].len /\ ~Hit(sector)
      /\ UNCHANGED <<req, buf, serving, i, inbox, cache, j, disk, counter, panic>>
  BY DEF fetch_evict, fetch_clean, MoreBytes, At, clientVars, loopVars
<1>2. /\ sector \in Sector /\ SlotOf(sector) \in Slot /\ ptr \in Entry
  BY <1>1, InRequest
<1>3. ~Ready /\ ~Ready'
  BY <1>1 DEF Handshake, Ready, InBox
<1>4. Mailbox' /\ NoInterruptLeaks' /\ CleanMatchesDisk' /\ Placed'
  BY <1>1 DEF Mailbox, Once, InBox, NoInterruptLeaks, CleanMatchesDisk, Placed
<1>5. UNCHANGED <<sector, ptr>> /\ ~Hit(sector)'
  BY <1>1 DEF sector, offset, ptr, Hit
<1>6. CASE fetch_evict
  <2>1. /\ ptr.used /\ ptr.dirty /\ pc' = "evict"
        /\ cmd' = [op |-> "write", sector |-> ptr.sector, data |-> ptr.content]
    BY <1>6 DEF fetch_evict, issue_write
  <2>2. TypeOK'
    BY <1>1, <1>2, <2>1 DEF TypeOK, Entry
  <2>3. Serving' /\ Handshake'
    BY <1>1, <1>3, <2>1 DEF Serving, Handshake
  <2>4. Transfers'
    BY <1>3, <1>5, <2>1 DEF Transfers, Saving
  <2> QED
    BY <1>4, <2>2, <2>3, <2>4
<1>7. CASE fetch_clean
  <2>1. /\ ~(ptr.used /\ ptr.dirty) /\ pc' = "fetch"
        /\ cmd' = [op |-> "read", sector |-> sector, data |-> Blank]
    BY <1>7 DEF fetch_clean, issue_read
  <2>2. TypeOK'
    <3>1. Blank \in Content
      BY DEF Blank, Content
    <3> QED
      BY <1>1, <1>2, <2>1, <3>1 DEF TypeOK
  <2>3. Serving' /\ Handshake'
    BY <1>1, <1>3, <2>1 DEF Serving, Handshake
  <2>4. ptr.used => ptr.content = disk[ptr.sector]
    BY <1>2, <2>1 DEF CleanMatchesDisk, ptr
  <2>5. Transfers'
    BY <1>1, <1>3, <1>5, <2>1, <2>4 DEF Transfers
  <2> QED
    BY <1>4, <2>2, <2>3, <2>5
<1> QED
  BY <1>6, <1>7

\* The old sector is on the disk, the new one is asked for.
LEMMA evictedStep ==
    ASSUME IInv, evicted
    PROVE  IInv'
<1> USE DEF IInv
<1>1. /\ pc = "evict" /\ i < req[serving].len /\ GotReady /\ pc' = "fetch"
      /\ cmd' = [op |-> "read", sector |-> sector, data |-> Blank]
      /\ UNCHANGED <<req, buf, serving, i, cache, j, disk, counter, panic>>
  BY DEF evicted, At, issue_read, clientVars, loopVars, Serving
<1>2. sector \in Sector
  BY <1>1, InRequest
<1>3. /\ inbox' \in Seq(Client \cup Hard) /\ Once'
      /\ Ready /\ ~Ready'
      /\ \A c \in Client : InBox(c)' => InBox(c)
  BY <1>1, GotReadyEffect
<1>4. TypeOK' /\ NoInterruptLeaks'
  <2>1. Blank \in Content
    BY DEF Blank, Content
  <2> QED
    BY <1>1, <1>2, <1>3, <2>1 DEF TypeOK, NoInterruptLeaks
<1>5. Mailbox' /\ CleanMatchesDisk' /\ Placed'
  BY <1>1, <1>3 DEF Mailbox, CleanMatchesDisk, Placed
<1>6. Serving' /\ Handshake'
  BY <1>1, <1>3 DEF Serving, Handshake
<1>7. UNCHANGED <<sector, ptr>> /\ ~Hit(sector)'
  BY <1>1 DEF sector, offset, ptr, Hit, Transfers
<1>8. Transfers'
  BY <1>1, <1>3, <1>7 DEF Transfers, Saving
<1> QED
  BY <1>4, <1>5, <1>6, <1>8

\* The sector asked for takes the place of the one that was in its slot.
LEMMA fetchedStep ==
    ASSUME IInv, fetched
    PROVE  IInv'
<1> USE DEF IInv
<1> DEFINE k == SlotOf(sector)
           v == [used |-> TRUE, dirty |-> FALSE, sector |-> sector, content |-> cmd.data]
<1>1. /\ pc = "fetch" /\ i < req[serving].len /\ GotReady /\ pc' = "byte" /\ cmd' = NoCmd
      /\ cache' = [cache EXCEPT ![k] = v]
      /\ UNCHANGED <<req, buf, serving, i, j, disk, counter, panic>>
  BY DEF fetched, At, clientVars, loopVars, Serving
<1>2. sector \in Sector /\ k \in Slot /\ SlotOf(sector) = k
  BY <1>1, InRequest
<1>3. /\ inbox' \in Seq(Client \cup Hard) /\ Once'
      /\ Ready /\ ~Ready'
      /\ \A c \in Client : InBox(c)' => InBox(c)
  BY <1>1, GotReadyEffect
<1>4. cmd.data = disk[sector] /\ cmd.data \in Content
  BY <1>1, <1>3 DEF Transfers, TypeOK
<1>5. v \in Entry /\ v.used /\ ~v.dirty /\ v.sector = sector /\ v.content = disk[sector]
  BY <1>2, <1>4 DEF Entry
<1> HIDE DEF k, v
<1>6. /\ cache' \in [Slot -> Entry]
      /\ cache'[k] = v /\ \A l \in Slot : l # k => cache'[l] = cache[l]
  BY <1>1, <1>2, <1>5 DEF TypeOK
<1>7. TypeOK' /\ NoInterruptLeaks'
  <2>1. NoCmd \in [op : {"none", "read", "write", "data"}, sector : Sector, data : Content]
    BY SMT DEF NoCmd, Blank, Sector, Content
  <2> QED
    BY <1>1, <1>3, <1>6, <2>1 DEF TypeOK, NoInterruptLeaks
<1>8. Mailbox' /\ Serving'
  BY <1>1, <1>3 DEF Mailbox, Serving
<1>9. CleanMatchesDisk'
  BY <1>1, <1>5, <1>6 DEF CleanMatchesDisk
<1>10. Placed'
  BY <1>2, <1>5, <1>6 DEF Placed
<1>11. Handshake' /\ Transfers'
  BY <1>1, <1>3, NotWaiting DEF NoCmd
<1> QED
  BY <1>7, <1>8, <1>9, <1>10, <1>11

\* The answer: the request is done.
LEMMA answerStep ==
    ASSUME IInv, answer
    PROVE  IInv'
<1> USE DEF IInv
<1>1. /\ pc = "byte" /\ pc' = "receive" /\ serving' = Nobody /\ i' = 0
      /\ req' = [req EXCEPT ![serving] = Store!NoRequest]
      /\ buf' = [buf EXCEPT ![serving] = Store!EmptyBuf]
      /\ UNCHANGED <<inbox, j, cache, disk, cmd, counter, panic>>
  BY DEF answer, At, diskVars
<1>2. serving \in Client /\ cmd.op = "none" /\ ~Ready
  BY <1>1 DEF Serving, Handshake
<1>3. ~Ready' /\ CleanMatchesDisk' /\ Placed' /\ NoInterruptLeaks'
  BY <1>1, <1>2 DEF Ready, InBox, CleanMatchesDisk, Placed, NoInterruptLeaks
<1>4. TypeOK'
  <2>1. Store!EmptyBuf \in Store!Buffer
    BY DEF Store!EmptyBuf, Store!Buffer
  <2>2. /\ req' \in [Client -> Store!Request \cup {Store!NoRequest}]
        /\ buf' \in [Client -> Store!Buffer]
    BY <1>1, <2>1 DEF TypeOK
  <2> QED
    BY SMT, <1>1, <2>2 DEF TypeOK
<1>5. Mailbox'
  <2>1. \A c \in Client : InBox(c)' => c # serving /\ req[c] # Store!NoRequest
    BY <1>1 DEF Mailbox, InBox
  <2>2. \A c \in Client : c # serving => req'[c] = req[c]
    BY <1>1 DEF TypeOK
  <2>3. Once'
    BY <1>1 DEF Mailbox, Once
  <2> QED
    BY <1>1, <2>1, <2>2, <2>3 DEF Mailbox
<1>6. Serving'
  <2>1. \A c \in Client : req'[c].len > 0 => req'[c].offset + req'[c].len - 1 \in Offset
    <3>1. \A c \in Client : req'[c] = IF c = serving THEN Store!NoRequest ELSE req[c]
      BY <1>1 DEF TypeOK
    <3>2. Store!NoRequest.len = 0
      BY DEF Store!NoRequest
    <3> QED
      BY SMT, <3>1, <3>2 DEF Serving
  <2> QED
    BY <1>1, <2>1 DEF Serving
<1>7. Handshake' /\ Transfers'
  BY <1>1, <1>2, <1>3, NotWaiting
<1> QED
  BY <1>3, <1>4, <1>5, <1>6, <1>7

\* cache_writeback comes to a slot, or to its end.
LEMMA writebackStep ==
    ASSUME IInv, writeback_slot \/ writeback_end
    PROVE  IInv'
<1> USE DEF IInv
<1>1. /\ pc = "wb"
      /\ UNCHANGED <<req, buf, serving, i, inbox, cache, disk, counter, panic>>
  BY DEF writeback_slot, writeback_end, At, clientVars, diskVars
<1>2. cmd.op = "none" /\ ~Ready /\ ~Ready' /\ serving = Nobody
  BY <1>1 DEF Handshake, Ready, InBox, Serving
<1>3. Mailbox' /\ NoInterruptLeaks' /\ CleanMatchesDisk' /\ Placed'
  BY <1>1 DEF Mailbox, Once, InBox, NoInterruptLeaks, CleanMatchesDisk, Placed
<1>4. CASE writeback_slot /\ cache[j].dirty
  <2>1. /\ j < NR_SEC_CACHE /\ pc' = "wb_wait" /\ UNCHANGED j
        /\ cmd' = [op |-> "write", sector |-> cache[j].sector, data |-> cache[j].content]
    BY <1>4 DEF writeback_slot, issue_write
  <2>2. j \in Slot
    BY SMT, <2>1 DEF TypeOK, Slot
  <2>3. TypeOK'
    <3>1. cache[j] \in Entry
      BY <2>2 DEF TypeOK
    <3> QED
      BY <1>1, <2>1, <3>1 DEF TypeOK, Entry
  <2>4. Serving' /\ Handshake'
    BY <1>1, <1>2, <2>1, <2>2 DEF Serving, Handshake
  <2>5. Transfers'
    BY <1>1, <1>2, <1>4, <2>1, <2>2 DEF Transfers, Saving, Placed
  <2> QED
    BY <1>3, <2>3, <2>4, <2>5
<1>5. CASE (writeback_slot /\ ~cache[j].dirty) \/ writeback_end
  <2>1. j' \in 0..NR_SEC_CACHE /\ pc' \in {"wb", "receive"} /\ UNCHANGED cmd
    <3>1. CASE writeback_slot /\ ~cache[j].dirty
      <4>1. j < NR_SEC_CACHE /\ j' = j + 1 /\ UNCHANGED <<cmd, pc>>
        BY <3>1 DEF writeback_slot
      <4>2. j \in 0..NR_SEC_CACHE
        BY DEF TypeOK
      <4> QED
        BY SMT, <1>1, <4>1, <4>2
    <3>2. CASE writeback_end
      BY SMT, <3>2 DEF writeback_end, diskVars
    <3> QED
      BY <1>5, <3>1, <3>2
  <2>2. TypeOK' /\ Serving'
    BY <1>1, <1>2, <2>1 DEF TypeOK, Serving
  <2>3. Handshake' /\ Transfers'
    BY <1>2, <2>1, NotWaiting
  <2> QED
    BY <1>3, <2>2, <2>3
<1> QED
  BY <1>4, <1>5

\* A dirty slot has been written.
LEMMA writtenStep ==
    ASSUME IInv, written
    PROVE  IInv'
<1> USE DEF IInv
<1> DEFINE v == [cache[j] EXCEPT !.dirty = FALSE]
<1>1. /\ pc = "wb_wait" /\ GotReady /\ pc' = "wb" /\ j' = j + 1
      /\ cache' = [cache EXCEPT ![j] = v]
      /\ UNCHANGED <<req, buf, serving, i, disk, cmd, counter, panic>>
  BY DEF written, At, clientVars, diskVars
<1>2. j \in Slot /\ cache[j] \in Entry
  BY <1>1 DEF Serving, TypeOK
<1>3. /\ inbox' \in Seq(Client \cup Hard) /\ Once'
      /\ Ready /\ ~Ready'
      /\ \A c \in Client : InBox(c)' => InBox(c)
  BY <1>1, GotReadyEffect
<1>4. /\ cache[j].used /\ disk[cache[j].sector] = cache[j].content /\ cmd.op = "none"
  BY <1>1, <1>3 DEF Transfers, Saving, Handshake
<1>5. /\ v \in Entry /\ v.used = cache[j].used /\ ~v.dirty
      /\ v.sector = cache[j].sector /\ v.content = cache[j].content
  BY <1>2 DEF Entry
<1> HIDE DEF v
<1>6. /\ cache' \in [Slot -> Entry]
      /\ cache'[j] = v /\ \A l \in Slot : l # j => cache'[l] = cache[l]
  BY <1>1, <1>2, <1>5 DEF TypeOK
<1>7. TypeOK' /\ NoInterruptLeaks'
  <2>1. j' \in 0..NR_SEC_CACHE
    BY SMT, <1>1, <1>2 DEF Slot
  <2> QED
    BY <1>1, <1>3, <1>6, <2>1 DEF TypeOK, NoInterruptLeaks
<1>8. Mailbox' /\ Serving'
  BY <1>1, <1>3 DEF Mailbox, Serving
<1>9. CleanMatchesDisk' /\ Placed'
  BY <1>1, <1>2, <1>4, <1>5, <1>6 DEF CleanMatchesDisk, Placed
<1>10. Handshake' /\ Transfers'
  BY <1>1, <1>3, <1>4, NotWaiting
<1> QED
  BY <1>7, <1>8, <1>9, <1>10

\* The state after cache_init.
LEMMA InitIInv == Init => IInv
<1> SUFFICES ASSUME Init PROVE IInv
  OBVIOUS
<1> USE DEF Init
<1>1. /\ Blank \in Content /\ 0 \in Sector
      /\ Store!EmptyBuf \in Store!Buffer
      /\ <<>> \in Seq(Client \cup Hard)
  BY SMT, SeqEmpty DEF Blank, Content, Sector, Store!EmptyBuf, Store!Buffer
<1>2. TypeOK
  <2>1. cmd \in [op : {"none", "read", "write", "data"}, sector : Sector, data : Content]
    BY <1>1 DEF NoCmd
  <2>2. cache \in [Slot -> Entry]
    BY <1>1 DEF Entry
  <2>3. /\ req \in [Client -> Store!Request \cup {Store!NoRequest}]
        /\ buf \in [Client -> Store!Buffer]
        /\ inbox \in Seq(Client \cup Hard)
    BY <1>1
  <2>4. i \in 0..MaxLen /\ j \in 0..NR_SEC_CACHE /\ counter \in 0..(PERIOD - 1)
    BY SMT
  <2>5. panic \in BOOLEAN
    OBVIOUS
  <2> QED
    BY <2>1, <2>2, <2>3, <2>4, <2>5 DEF TypeOK
<1>3. Once /\ \A y : ~InBox(y)
  BY SMT DEF Once, InBox
<1>4. NoInterruptLeaks /\ CleanMatchesDisk /\ Placed /\ Mailbox
  BY <1>3 DEF NoInterruptLeaks, CleanMatchesDisk, Placed, Mailbox
<1>5. Serving
  <2>1. \A c \in Client : req[c].len = 0
    BY DEF Store!NoRequest
  <2>2. pc = "receive" /\ serving = Nobody
    OBVIOUS
  <2> QED
    BY SMT, <2>1, <2>2 DEF Serving
<1>6. Handshake /\ Transfers
  BY <1>3 DEF Handshake, Transfers, Ready, NoCmd
<1> QED
  BY <1>2, <1>4, <1>5, <1>6 DEF IInv

\* Every step of the clients, the handlers and the driver keeps the invariant.
LEMMA NextIInv == IInv /\ [Next]_vars => IInv'
<1> SUFFICES ASSUME IInv, [Next]_vars PROVE IInv'
  OBVIOUS
<1>1. CASE UNCHANGED vars
  BY <1>1
  DEF vars, IInv, TypeOK, NoInterruptLeaks, CleanMatchesDisk, Mailbox, Once, InBox, Serving,
      Placed, Handshake, Ready, Transfers, Saving, Hit, sector, offset, ptr
<1>2. CASE ide_driver_thread
  BY <1>2, receiveStep, byteStep, fetchStep, evictedStep, fetchedStep, disk_waitStep,
     answerStep, writebackStep, writtenStep
  DEF ide_driver_thread
<1> QED
  BY <1>1, <1>2, dev_rwStep, ide_intrStep, time_intrStep DEF Next

\* The whole invariant, in every reachable state, for any number of clients, any
\* disk and cache size and any write-back period.
THEOREM IdeInvariant == Spec => []IInv
<1>1. Init => IInv
  BY InitIInv
<1>2. IInv /\ [Next]_vars => IInv'
  BY NextIInv
<1> QED
  BY <1>1, <1>2, PTL DEF Spec

\* The types of the driver's state.
THEOREM IdeTypes == Spec => []TypeOK
BY IdeInvariant, PTL DEF IInv

\* panic("IDE interrupt is leaking") is never reached.
THEOREM IdeNoInterruptLeaks == Spec => []NoInterruptLeaks
BY IdeInvariant, PTL DEF IInv

\* A clean cached sector is what is on the disk.
THEOREM IdeCleanMatchesDisk == Spec => []CleanMatchesDisk
BY IdeInvariant, PTL DEF IInv

-----------------------------------------------------------------------------
(* Ide implements ByteStore                                                 *)

mem == [o \in Offset |-> Byte(o)]

\* The clients see bytes.
LEMMA ByteType ==
    ASSUME IInv
    PROVE  mem \in [Offset -> Val]
<1> SUFFICES ASSUME NEW o \in Offset PROVE Byte(o) \in Val
  BY DEF mem
<1>1. SectorOf(o) \in Sector /\ ByteOf(o) \in 0..(SECTOR_SIZE - 1)
  BY Geometry
<1>2. SlotOf(SectorOf(o)) \in Slot
  BY <1>1, Geometry
<1>3. cache[SlotOf(SectorOf(o))].content \in Content /\ disk[SectorOf(o)] \in Content
  BY <1>1, <1>2 DEF IInv, TypeOK, Entry
<1> QED
  BY <1>1, <1>3 DEF Byte, Content

\* The disk's interrupt does not change what the clients see: a sector being
\* written is the cached one.
LEMMA ide_intrMem ==
    ASSUME IInv, ide_intr
    PROVE  mem' = mem
<1> USE DEF IInv
<1>1. UNCHANGED cache
  BY DEF ide_intr
<1>2. CASE cmd.op = "read"
  BY <1>1, <1>2 DEF ide_intr, mem, Byte, Hit
<1>3. CASE cmd.op = "write"
  <2>1. disk' = [disk EXCEPT ![cmd.sector] = cmd.data]
    BY <1>3 DEF ide_intr
  <2>2. pc \in {"evict", "wb_wait"} /\ ~Ready
    BY <1>3 DEF Handshake, TypeOK
  <2>3. PICK k \in Slot : cache[k].used /\ cmd.sector = cache[k].sector
    <3>1. CASE pc = "evict"
      <4>1. i < req[serving].len
        BY <3>1 DEF Serving
      <4>2. SlotOf(sector) \in Slot
        BY <3>1, <4>1, InRequest
      <4> QED
        BY <2>2, <3>1, <4>2 DEF Transfers, Saving, ptr
    <3>2. CASE pc = "wb_wait"
      BY <2>2, <3>2 DEF Transfers, Saving, Serving
    <3> QED
      BY <2>2, <3>1, <3>2
  <2>4. Hit(cmd.sector)
    BY <2>3 DEF Placed, Hit
  <2>5. ASSUME NEW o \in Offset PROVE Byte(o)' = Byte(o)
    <3>1. CASE Hit(SectorOf(o))
      BY <1>1, <3>1 DEF Byte, Hit
    <3>2. CASE ~Hit(SectorOf(o))
      <4>1. SectorOf(o) # cmd.sector
        BY <2>4, <3>2
      <4>2. disk'[SectorOf(o)] = disk[SectorOf(o)]
        BY <2>1, <4>1, Geometry DEF TypeOK
      <4> QED
        BY <1>1, <3>2, <4>2 DEF Byte, Hit
    <3> QED
      BY <3>1, <3>2
  <2> QED
    BY <2>5 DEF mem
<1> QED
  BY <1>2, <1>3 DEF ide_intr

\* Neither does giving a slot to another sector: what was in it is on the disk.
LEMMA fetchedMem ==
    ASSUME IInv, fetched
    PROVE  mem' = mem
<1> USE DEF IInv
<1> DEFINE k == SlotOf(sector)
           v == [used |-> TRUE, dirty |-> FALSE, sector |-> sector, content |-> cmd.data]
<1>1. /\ pc = "fetch" /\ i < req[serving].len /\ GotReady
      /\ cache' = [cache EXCEPT ![k] = v] /\ UNCHANGED disk
  BY DEF fetched, At, Serving
<1>2. sector \in Sector /\ k \in Slot /\ SlotOf(sector) = k /\ ptr = cache[k]
  BY <1>1, InRequest DEF ptr
<1>3. Ready
  BY <1>1, GotReadyEffect
<1>4. v.used /\ v.sector = sector /\ v.content = disk[sector]
  BY <1>1, <1>3 DEF Transfers
<1>5. /\ ~(cache[k].used /\ cache[k].sector = sector)
      /\ cache[k].used => cache[k].content = disk[cache[k].sector]
  BY <1>1, <1>2 DEF Transfers, Hit
<1> HIDE DEF k, v
<1>6. cache'[k] = v /\ \A l \in Slot : l # k => cache'[l] = cache[l]
  BY <1>1, <1>2 DEF TypeOK
<1>7. ASSUME NEW o \in Offset PROVE Byte(o)' = Byte(o)
  <2> DEFINE s == SectorOf(o)
  <2>1. SlotOf(s) \in Slot
    BY Geometry
  <2>2. CASE SlotOf(s) # k
    BY SMT, <1>1, <1>6, <2>1, <2>2 DEF Byte, Hit
  <2>3. CASE s = sector
    <3>1. SlotOf(s) = k
      BY <1>2, <2>3
    <3>2. Byte(o)' = disk[s][ByteOf(o)]
      BY <1>4, <1>6, <2>3, <3>1 DEF Byte, Hit
    <3>3. Byte(o) = disk[s][ByteOf(o)]
      BY <1>5, <2>3, <3>1 DEF Byte, Hit
    <3> QED
      BY <3>2, <3>3
  <2>4. CASE SlotOf(s) = k /\ s # sector
    <3>1. Byte(o)' = disk[s][ByteOf(o)]
      BY <1>1, <1>4, <1>6, <2>4 DEF Byte, Hit
    <3>2. Byte(o) = disk[s][ByteOf(o)]
      BY <1>5, <2>4 DEF Byte, Hit
    <3> QED
      BY <3>1, <3>2
  <2> QED
    BY <2>2, <2>3, <2>4
<1> QED
  BY <1>7 DEF mem

\* Nor does a write-back: the sector stays cached.
LEMMA writtenMem ==
    ASSUME IInv, written
    PROVE  mem' = mem
<1> USE DEF IInv
<1> DEFINE v == [cache[j] EXCEPT !.dirty = FALSE]
<1>1. /\ pc = "wb_wait" /\ cache' = [cache EXCEPT ![j] = v] /\ UNCHANGED disk
  BY DEF written, At, diskVars
<1>2. j \in Slot /\ cache[j] \in Entry
  BY <1>1 DEF Serving, TypeOK
<1>3. v.used = cache[j].used /\ v.sector = cache[j].sector /\ v.content = cache[j].content
  BY <1>2 DEF Entry
<1> HIDE DEF v
<1>4. \A l \in Slot : /\ cache'[l].used = cache[l].used
                      /\ cache'[l].sector = cache[l].sector
                      /\ cache'[l].content = cache[l].content
  BY <1>1, <1>2, <1>3 DEF TypeOK
<1>5. ASSUME NEW o \in Offset PROVE Byte(o)' = Byte(o)
  <2>1. SlotOf(SectorOf(o)) \in Slot
    BY Geometry
  <2> QED
    BY <1>1, <1>4, <2>1 DEF Byte, Hit
<1> QED
  BY <1>5 DEF mem

\* write_byte changes the byte at its offset and no other.
LEMMA write_byteMem ==
    ASSUME IInv, write_byte
    PROVE  mem' = [mem EXCEPT ![offset] = buf[serving][i]]
<1> USE DEF IInv
<1> DEFINE k == SlotOf(sector)
           b == buf[serving][i]
           v == [ptr EXCEPT !.content[ByteOf(offset)] = b, !.dirty = TRUE]
<1>1. /\ pc = "byte" /\ i < req[serving].len /\ Hit(sector)
      /\ cache' = [cache EXCEPT ![k] = v] /\ UNCHANGED disk
  BY DEF write_byte, MoreBytes, At, diskVars
<1>2. /\ offset \in Offset /\ sector \in Sector /\ sector = SectorOf(offset)
      /\ k \in Slot /\ ptr \in Entry /\ ptr = cache[k]
  BY <1>1, InRequest DEF ptr, sector
<1>3. /\ v.used = cache[k].used /\ v.sector = cache[k].sector
      /\ v.content = [cache[k].content EXCEPT ![ByteOf(offset)] = b]
  BY <1>2 DEF Entry
<1>4. cache[k].used /\ cache[k].sector = sector /\ SlotOf(sector) = k
  BY <1>1 DEF Hit
<1>5. cache[k].content \in Content /\ ByteOf(offset) \in 0..(SECTOR_SIZE - 1)
  BY <1>2, Geometry DEF Entry
<1> HIDE DEF k, v, b
<1>6. cache'[k] = v /\ \A l \in Slot : l # k => cache'[l] = cache[l]
  BY <1>1, <1>2 DEF TypeOK
<1>7. ASSUME NEW o \in Offset PROVE Byte(o)' = IF o = offset THEN b ELSE Byte(o)
  <2> DEFINE s == SectorOf(o)
  <2>1. SlotOf(s) \in Slot /\ ByteOf(o) \in 0..(SECTOR_SIZE - 1)
    BY Geometry
  <2>2. CASE s = sector
    <3>1. SlotOf(s) = k
      BY <1>4, <2>2
    <3>2. Byte(o)' = v.content[ByteOf(o)]
      BY <1>3, <1>4, <1>6, <2>2, <3>1 DEF Byte, Hit
    <3>3. Byte(o) = cache[k].content[ByteOf(o)]
      BY <1>4, <2>2, <3>1 DEF Byte, Hit
    <3>4. ByteOf(o) = ByteOf(offset) <=> o = offset
      BY <1>2, <2>2, Geometry
    <3> QED
      BY <1>3, <1>5, <2>1, <3>2, <3>3, <3>4 DEF Content
  <2>3. CASE s # sector
    <3>1. o # offset
      BY <1>2, <2>3
    <3>2. CASE SlotOf(s) # k
      <4>1. cache'[SlotOf(s)] = cache[SlotOf(s)] /\ UNCHANGED disk
        BY <1>1, <1>6, <2>1, <3>2
      <4>2. Byte(o)' = Byte(o)
        BY <4>1 DEF Byte, Hit
      <4> QED
        BY <3>1, <4>2
    <3>3. CASE SlotOf(s) = k
      BY SMT, <1>1, <1>3, <1>4, <1>6, <2>3, <3>1, <3>3 DEF Byte, Hit
    <3> QED
      BY <3>2, <3>3
  <2> QED
    BY <2>2, <2>3
<1>8. mem' = [o \in Offset |-> IF o = offset THEN b ELSE Byte(o)]
  BY <1>7 DEF mem
<1> QED
  BY <1>2, <1>8 DEF mem, b

\* Every step of the driver is a step of the store, or one it does not see.
LEMMA StoreStep ==
    ASSUME IInv, [Next]_vars
    PROVE  [Store!StoreNext]_(Store!storeVars)
<1> USE DEF IInv
<1> DEFINE same == UNCHANGED <<req, buf, serving, i>> /\ mem' = mem
<1>1. UNCHANGED <<cache, disk>> => mem' = mem
  BY DEF mem, Byte, Hit
<1>2. same => UNCHANGED Store!storeVars
  BY DEF Store!storeVars, mem
<1>3. CASE UNCHANGED vars
  BY <1>1, <1>2, <1>3 DEF vars
<1>4. CASE ide_intr
  BY <1>2, <1>4, ide_intrMem DEF ide_intr, clientVars, loopVars
<1>5. CASE fetched
  BY <1>2, <1>5, fetchedMem DEF fetched, clientVars, loopVars
<1>6. CASE written
  BY <1>2, <1>6, writtenMem DEF written, clientVars
<1>7. CASE time_intr \/ disk_wait \/ fetch_evict \/ evicted \/ fetch_clean
  BY <1>1, <1>2, <1>7
  DEF time_intr, disk_wait, fetch_evict, evicted, fetch_clean, clientVars, loopVars, diskVars
<1>8. CASE receive_hard \/ writeback_slot \/ writeback_end
  BY <1>1, <1>2, <1>8
  DEF receive_hard, writeback_slot, writeback_end, clientVars, diskVars
<1>9. ASSUME NEW c \in Client, dev_rw(c)
      PROVE  Store!StoreNext
  <2>1. Store!Ask(c) /\ UNCHANGED <<serving, i>> /\ mem' = mem
    BY <1>1, <1>9 DEF dev_rw, loopVars, diskVars
  <2> QED
    BY <2>1 DEF Store!StoreNext, mem
<1>10. CASE receive_request
  <2>1. /\ pc = "receive" /\ inbox # <<>> /\ Head(inbox) \in Client
        /\ serving' = Head(inbox) /\ i' = 0
        /\ UNCHANGED <<req, buf>> /\ mem' = mem
    BY <1>1, <1>10 DEF receive_request, At, clientVars, diskVars
  <2>2. serving = Nobody
    BY <2>1 DEF Serving
  <2>3. InBox(Head(inbox))
    <3>1. 1 \in DOMAIN inbox /\ inbox[1] = Head(inbox)
      BY SMT, <2>1 DEF TypeOK
    <3> QED
      BY <3>1 DEF InBox
  <2>4. PICK c \in Client : c = Head(inbox)
    BY <2>1
  <2>5. req[c] # Store!NoRequest
    BY <2>3, <2>4 DEF Mailbox
  <2>6. Store!Begin(c)
    BY <2>1, <2>2, <2>4, <2>5 DEF Store!Begin, mem
  <2> QED
    BY <2>6 DEF Store!StoreNext
<1>11. CASE read_byte \/ write_byte
  <2>1. /\ pc = "byte" /\ i < req[serving].len /\ Hit(sector) /\ i' = i + 1
        /\ UNCHANGED <<req, serving>>
    BY <1>11 DEF read_byte, write_byte, MoreBytes, At, clientVars
  <2>2. serving \in Client /\ offset \in Offset /\ offset = req[serving].offset + i
    BY <2>1, InRequest DEF offset
  <2>3. CASE read_byte
    <3>1. mem[offset] = ptr.content[ByteOf(offset)]
      BY <2>1, <2>2 DEF mem, Byte, sector, ptr
    <3>2. /\ req[serving].type = "DEV_READ" /\ mem' = mem
          /\ buf' = [buf EXCEPT ![serving] = [@ EXCEPT ![i] = mem[offset]]]
      BY <1>1, <2>3, <3>1 DEF read_byte, diskVars
    <3>3. Store!Transfer(serving)
      BY <2>1, <2>2, <3>2 DEF Store!Transfer, mem
    <3> QED
      BY <2>2, <3>3 DEF Store!StoreNext
  <2>4. CASE write_byte
    <3>1. req[serving].type = "DEV_WRITE" /\ UNCHANGED buf
      BY <2>4 DEF write_byte, clientVars
    <3>2. mem' = [mem EXCEPT ![offset] = buf[serving][i]]
      BY <2>4, write_byteMem
    <3>3. Store!Transfer(serving)
      BY <2>1, <2>2, <3>1, <3>2 DEF Store!Transfer, mem
    <3> QED
      BY <2>2, <3>3 DEF Store!StoreNext
  <2> QED
    BY <1>11, <2>3, <2>4
<1>12. CASE answer
  <2>1. /\ pc = "byte" /\ i = req[serving].len /\ serving' = Nobody /\ i' = 0
        /\ req' = [req EXCEPT ![serving] = Store!NoRequest]
        /\ buf' = [buf EXCEPT ![serving] = Store!EmptyBuf]
        /\ mem' = mem
    BY <1>1, <1>12 DEF answer, At, diskVars
  <2>2. serving \in Client
    BY <2>1 DEF Serving
  <2>3. Store!Answer(serving)
    BY <2>1 DEF Store!Answer, mem
  <2> QED
    BY <2>2, <2>3 DEF Store!StoreNext
<1> QED
  BY <1>3, <1>4, <1>5, <1>6, <1>7, <1>8, <1>9, <1>10, <1>11, <1>12
  DEF Next, ide_driver_thread

\* The driver, its cache, write-backs and interrupts implement the array of bytes
\* that read_byte and write_byte pretend to work on.
THEOREM IdeImplementsByteStore == Spec => StoreSpec
<1>1. Init => Store!StoreInit
  <2> SUFFICES ASSUME Init PROVE Store!StoreInit
    OBVIOUS
  <2>1. mem \in [Offset -> Val]
    BY InitIInv, ByteType
  <2> QED
    BY <2>1 DEF Init, Store!StoreInit, mem
<1>2. IInv /\ [Next]_vars => [Store!StoreNext]_(Store!storeVars)
  BY StoreStep
<1> QED
  BY <1>1, <1>2, IdeInvariant, PTL DEF Spec, StoreSpec, Store!StoreSpec
=============================================================================
