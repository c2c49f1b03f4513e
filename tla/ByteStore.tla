----------------------------- MODULE ByteStore -----------------------------
(***************************************************************************)
(* What the disk driver promises its clients (src/src/kernel/drivers/ide): *)
(* an array of bytes, read and written by requests that are served one at  *)
(* a time, byte by byte in order, and answered once.  The sector cache,    *)
(* the write-backs and the disk's interrupts do not show.                  *)
(***************************************************************************)
EXTENDS Integers

CONSTANTS Client, Nobody,
          Offset,   \* the byte offsets of the device
          Val, v0,  \* the values of a byte, and one of them
          MaxLen    \* bound: the bytes a request asks for

VARIABLES mem,     \* the bytes of the device
          req,     \* the request each client waits for
          buf,     \* the buffer of each client, v0 outside its requests
          serving, \* whose request is being served
          i        \* its bytes done

storeVars == <<mem, req, buf, serving, i>>

Request == [type : {"DEV_READ", "DEV_WRITE"}, offset : Offset, len : 0..MaxLen]
NoRequest == [type |-> "none", offset |-> 0, len |-> 0]
Buffer == [0..(MaxLen - 1) -> Val]
EmptyBuf == [k \in 0..(MaxLen - 1) |-> v0]

StoreInit ==
    /\ mem \in [Offset -> Val]
    /\ req = [c \in Client |-> NoRequest]
    /\ buf = [c \in Client |-> EmptyBuf]
    /\ serving = Nobody
    /\ i = 0

\* A client asks for bytes of the device, or gives it new ones.
Ask(c) ==
    /\ req[c] = NoRequest
    /\ \E r \in Request, b \in Buffer :
          /\ r.len > 0 => r.offset + r.len - 1 \in Offset
          /\ \A k \in DOMAIN b : r.type = "DEV_READ" \/ k >= r.len => b[k] = v0
          /\ req' = [req EXCEPT ![c] = r]
          /\ buf' = [buf EXCEPT ![c] = b]

Begin(c) ==
    /\ serving = Nobody
    /\ req[c] # NoRequest
    /\ serving' = c
    /\ i' = 0
    /\ UNCHANGED <<mem, req, buf>>

Transfer(c) ==
    /\ serving = c
    /\ i < req[c].len
    /\ i' = i + 1
    /\ IF req[c].type = "DEV_READ"
       THEN /\ buf' = [buf EXCEPT ![c] = [@ EXCEPT ![i] = mem[req[c].offset + i]]]
            /\ UNCHANGED mem
       ELSE /\ mem' = [mem EXCEPT ![req[c].offset + i] = buf[c][i]]
            /\ UNCHANGED buf
    /\ UNCHANGED <<req, serving>>

Answer(c) ==
    /\ serving = c
    /\ i = req[c].len
    /\ serving' = Nobody
    /\ i' = 0
    /\ req' = [req EXCEPT ![c] = NoRequest]
    /\ buf' = [buf EXCEPT ![c] = EmptyBuf]
    /\ UNCHANGED mem

StoreNext ==
    \E c \in Client : \/ Ask(c) /\ UNCHANGED <<mem, serving, i>>
                      \/ Begin(c)
                      \/ Transfer(c)
                      \/ Answer(c)

StoreSpec == StoreInit /\ [][StoreNext]_storeVars
=============================================================================
