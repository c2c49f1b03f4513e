-------------------------------- MODULE Tty --------------------------------
(***************************************************************************)
(* The terminals (src/src/kernel/drivers/tty): the keyboard's interrupt    *)
(* handler, the ttyd thread that edits lines, keeps entered ones in a ring *)
(* and readers on a stack, and one getty thread per console that reads a   *)
(* line and shows it in capitals.                                          *)
(*                                                                         *)
(* Only ttyd touches the consoles, so it handles a message in one step;    *)
(* the mailbox is a queue (module Message without its races).  Where       *)
(* characters are on the screen is in module Screen.                       *)
(***************************************************************************)
EXTENDS Integers, Sequences, FiniteSetsExt, Lists

CONSTANTS NR_TTY,
          Ch,         \* the characters that are typed, by their ASCII code
          LBUF_SZ, CBUF_SZ, RSTK_SZ,
          READ_SZ,    \* the length of getty's buffer, 256
          MaxKeys,    \* bound: keys
          MaxPending  \* bound: MSG_TTY_UPDATE messages in the mailbox

ASSUME TtyAssumption ==
    /\ {NR_TTY, LBUF_SZ, CBUF_SZ, RSTK_SZ, READ_SZ} \subseteq Nat \ {0}
    /\ Ch \subseteq Nat \ {0}
    /\ LBUF_SZ <= READ_SZ
    /\ {MaxKeys, MaxPending} \subseteq Nat

Console == 0..(NR_TTY - 1)
NUL == 0
Index == 0..(CBUF_SZ - 1)

VARIABLES
    keys,      \* how many keys there were
    kbd,       \* the keyboard controller holds a scan code
    inbox,     \* the messages waiting for ttyd
    focus,     \* current_consl
    lbuf, i,   \* per console: the line up to its NUL, and the cursor in it
    ring,      \* per console: cbuf, f and r
    rstk,      \* per console: the read requests on the stack, rtop is its length
    gpc, buf,  \* per getty: where it is, and its buf
    panic      \* the message of a panic, or "none"

consoleVars == <<focus, lbuf, i, ring, rstk>>
gettyVars == <<gpc, buf>>
vars == <<keys, kbd, inbox, consoleVars, gettyVars, panic>>

-----------------------------------------------------------------------------
(* Interrupt handlers                                                       *)

Msg(type, dev) == [type |-> type, dev |-> dev]

\* The controller takes the next scan code when the last one has been read, and
\* interrupts.
send_keymsg ==
    /\ panic = "none"
    /\ ~kbd
    /\ kbd' = TRUE
    /\ keys < MaxKeys
    /\ keys' = keys + 1
    /\ inbox' = Append(inbox, Msg("GETKEY", 0))
    /\ UNCHANGED <<consoleVars, gettyVars, panic>>

Pending == Len(SelectSeq(inbox, LAMBDA m : m.type = "UPDATE"))

send_updatemsg ==
    /\ panic = "none"
    /\ Pending < MaxPending
    /\ inbox' = Append(inbox, Msg("UPDATE", 0))
    /\ UNCHANGED <<keys, kbd, consoleVars, gettyVars, panic>>

-----------------------------------------------------------------------------
(* The ring of cooked characters                                            *)

\* What has been put and not taken.
Used(q) == (q.r - q.f) % CBUF_SZ
Cooked(q) == [k \in 1..Used(q) |-> q.buf[(q.f + k - 1) % CBUF_SZ]]

\* Mutant: a line may fill the ring to the last place.
FitsFull(q, s) == Used(q) + Len(s) <= CBUF_SZ

\* The loop of cook does not meet f.
Fits(q, s) == Used(q) + Len(s) < CBUF_SZ

Put(q, s) ==
    [q EXCEPT !.buf = [x \in Index |-> LET k == (x - q.r) % CBUF_SZ
                                       IN  IF k < Len(s) THEN s[k + 1] ELSE q.buf[x]],
              !.r = (q.r + Len(s)) % CBUF_SZ]

\* get_cooked: up to count characters, or to the first NUL, which goes too.
Stops(q, count) == {k \in 0..(count - 1) : q.buf[(q.f + k) % CBUF_SZ] = NUL}
nread(q, count) == IF Stops(q, count) = {} THEN count ELSE Min(Stops(q, count))

get_cooked(q, count) ==
    LET n == nread(q, count)
    IN  [text |-> [k \in 1..n |-> q.buf[(q.f + k - 1) % CBUF_SZ]],
         ring |-> [q EXCEPT !.f = (q.f + (IF n < count THEN n + 1 ELSE n)) % CBUF_SZ]]

-----------------------------------------------------------------------------
(* ttyd: keys                                                               *)

\* send(dest, m) to getty g, which was waiting for it in dev_rw.
answer(g, label, text) ==
    /\ gpc' = [gpc EXCEPT ![g] = label]
    /\ buf' = [buf EXCEPT ![g] = text]

got(g, q) ==
    LET a == get_cooked(q, READ_SZ)
    IN  /\ ring' = [ring EXCEPT ![g] = a.ring]
        /\ answer(g, "write", a.text)

\* A GETKEY message: the code is taken from the controller.  Which key it is
\* shows only now, so each key is an action below.
readkey ==
    /\ panic = "none"
    /\ inbox # <<>> /\ Head(inbox).type = "GETKEY"
    /\ inbox' = Tail(inbox)
    /\ kbd' = FALSE
    /\ UNCHANGED keys

\* panic, in the middle of what the console was doing.
stop(what) == panic' = what /\ UNCHANGED <<consoleVars, gettyVars>>

\* The console in front gets line l and cursor p.
edit(l, p) ==
    /\ lbuf' = [lbuf EXCEPT ![focus] = l]
    /\ i' = [i EXCEPT ![focus] = p]
    /\ UNCHANGED <<focus, ring, rstk, gettyVars, panic>>

cur == lbuf[focus]
pos == i[focus]

\* A character, put where the cursor is.
consl_accept ==
    /\ readkey
    /\ IF Len(cur) + 1 >= LBUF_SZ
       THEN stop("line buffer full")
       ELSE \E ch \in Ch : edit(InsertAt(cur, pos + 1, ch), pos + 1)

\* backsp with the cursor at p.
backsp(p) == IF p > 0 THEN edit(RemoveAt(cur, p), p - 1) ELSE edit(cur, p)
movr == IF pos < Len(cur) THEN pos + 1 ELSE pos

feed_BACK == readkey /\ backsp(pos)
feed_DEL == readkey /\ backsp(movr)
feed_LEFT == readkey /\ edit(cur, IF pos # 0 THEN pos - 1 ELSE pos)
feed_RIGHT == readkey /\ edit(cur, movr)
feed_HOME == readkey /\ edit(cur, 0)
feed_END == readkey /\ edit(cur, Len(cur))

feed_F ==
    /\ readkey
    /\ \E key \in 0..5 : focus' = IF key < NR_TTY THEN key ELSE focus
    /\ UNCHANGED <<lbuf, i, ring, rstk, gettyVars, panic>>

\* Mutant: the request that is served stays on the stack.
Popped_keep(stack) == stack

\* rtop --
Popped(stack) == Front(stack)

\* Mutant: the request on the stack is not looked at.
HasReader_none(c) == FALSE

HasReader(c) == rstk[c] # <<>>

\* Enter: the line goes into the ring, and the last waiting reader gets it.
cook ==
    /\ readkey
    /\ LET s == Append(cur, NUL)
           q == Put(ring[focus], s)
       IN  IF ~Fits(ring[focus], s) THEN stop("cooked buffer full")
           ELSE /\ lbuf' = [lbuf EXCEPT ![focus] = <<>>]
                /\ i' = [i EXCEPT ![focus] = 0]
                /\ IF HasReader(focus)
                   THEN /\ rstk' = [rstk EXCEPT ![focus] = Popped(@)]
                        /\ got(Last(rstk[focus]), q)
                   ELSE ring' = [ring EXCEPT ![focus] = q] /\ UNCHANGED <<rstk, gettyVars>>
                /\ UNCHANGED <<focus, panic>>

reboot == readkey /\ stop("Will now reboot.")

\* Mutant: a code that means nothing is left in the controller.
no_key_unread ==
    /\ panic = "none"
    /\ inbox # <<>> /\ Head(inbox).type = "GETKEY"
    /\ inbox' = Tail(inbox)
    /\ UNCHANGED <<keys, kbd, consoleVars, gettyVars, panic>>

\* Shift and the like, releases, and keys without a meaning.
no_key == readkey /\ UNCHANGED <<consoleVars, gettyVars, panic>>

-----------------------------------------------------------------------------
(* ttyd: other messages                                                       *)

ttyd(type) ==
    /\ panic = "none"
    /\ inbox # <<>> /\ Head(inbox).type = type
    /\ inbox' = Tail(inbox)
    /\ UNCHANGED <<keys, kbd>>

update_banner == ttyd("UPDATE") /\ UNCHANGED <<consoleVars, gettyVars, panic>>

read_request ==
    /\ ttyd("DEV_READ")
    /\ LET c == Head(inbox).dev
       IN  IF ring[c].f # ring[c].r
           THEN got(c, ring[c]) /\ UNCHANGED <<focus, lbuf, i, rstk, panic>>
           ELSE IF Len(rstk[c]) = RSTK_SZ THEN stop("too many read request")
           ELSE /\ rstk' = [rstk EXCEPT ![c] = Append(@, c)]
                /\ UNCHANGED <<focus, lbuf, i, ring, gettyVars, panic>>

\* DEV_WRITE: the characters go to the screen.
write_request ==
    /\ ttyd("DEV_WRITE")
    /\ LET g == Head(inbox).dev
       IN  IF gpc[g] = "writing" THEN answer(g, "newline", buf[g]) ELSE answer(g, "read", <<>>)
    /\ UNCHANGED <<consoleVars, panic>>

-----------------------------------------------------------------------------
(* getty                                                                    *)

\* Send a request and wait for the answer.
request(g, label, type, next) ==
    /\ panic = "none"
    /\ gpc[g] = label
    /\ gpc' = [gpc EXCEPT ![g] = next]
    /\ inbox' = Append(inbox, Msg(type, g))
    /\ UNCHANGED <<keys, kbd, consoleVars, panic>>

\* The letters a to z, by their ASCII codes.
Capital(ch) == IF ch >= 97 /\ ch <= 122 THEN ch + (65 - 97) ELSE ch

getty_read(g) == request(g, "read", "DEV_READ", "reading") /\ UNCHANGED buf
getty_write(g) ==
    /\ request(g, "write", "DEV_WRITE", "writing")
    /\ buf' = [buf EXCEPT ![g] = [k \in DOMAIN @ |-> Capital(@[k])]]
getty_newline(g) == request(g, "newline", "DEV_WRITE", "newlining") /\ UNCHANGED buf

getty(g) == getty_read(g) \/ getty_write(g) \/ getty_newline(g)

-----------------------------------------------------------------------------
Init ==
    /\ keys = 0
    /\ kbd = FALSE
    /\ inbox = <<>>
    /\ focus = 0
    /\ lbuf = [c \in Console |-> <<>>]
    /\ i = [c \in Console |-> 0]
    /\ ring = [c \in Console |-> [buf |-> [x \in Index |-> NUL], f |-> 0, r |-> 0]]
    /\ rstk = [c \in Console |-> <<>>]
    /\ gpc = [g \in Console |-> "read"]
    /\ buf = [g \in Console |-> <<>>]
    /\ panic = "none"

ttyd_thread ==
    \/ consl_accept \/ feed_BACK \/ feed_DEL \/ feed_LEFT \/ feed_RIGHT \/ feed_HOME
    \/ feed_END \/ feed_F \/ cook \/ reboot \/ no_key
    \/ update_banner \/ read_request \/ write_request

Next == send_keymsg \/ send_updatemsg \/ ttyd_thread \/ \E g \in Console : getty(g)

Spec == Init /\ [][Next]_vars

\* The scheduler runs ttyd and the gettys (Kernel's NoStarvation).
FairSpec == Spec /\ WF_vars(ttyd_thread) /\ \A g \in Console : WF_vars(getty(g))

-----------------------------------------------------------------------------
(* Correctness                                                              *)

\* Every variable keeps its type, and a line its NUL within LBUF_SZ.
TypeOK ==
    /\ keys \in 0..MaxKeys
    /\ kbd \in BOOLEAN
    /\ inbox \in Seq([type : {"GETKEY", "UPDATE", "DEV_READ", "DEV_WRITE"}, dev : Console])
    /\ focus \in Console
    /\ lbuf \in [Console -> Seq(Ch)]
    /\ i \in [Console -> Nat]
    /\ \A c \in Console : i[c] <= Len(lbuf[c]) /\ Len(lbuf[c]) < LBUF_SZ
    /\ ring \in [Console -> [buf : [Index -> Ch \cup {NUL}], f : Index, r : Index]]
    /\ rstk \in [Console -> Seq(Console)]
    /\ gpc \in [Console -> {"read", "reading", "write", "writing", "newline", "newlining"}]
    /\ buf \in [Console -> Seq(Nat \ {0})]

\* A scan code is in the controller exactly while one GETKEY message waits: no
\* key is read twice or never, and the keyboard does not fall silent.
OneMessagePerKey ==
    Cardinality({k \in DOMAIN inbox : inbox[k].type = "GETKEY"}) = (IF kbd THEN 1 ELSE 0)

\* A getty is on the stack only while its console has nothing to read, and there
\* is room for it: "too many read request" is not reached.
ReadersWaitForInput ==
    /\ \A c \in Console : rstk[c] # <<>> => rstk[c] = <<c>> /\ ring[c].f = ring[c].r
    /\ panic # "too many read request"

\* What the promise calls it.
Stage(g) == CASE gpc[g] \in {"read", "reading"} -> "read"
              [] gpc[g] = "write" -> "show"
              [] OTHER -> "shown"
Promise == INSTANCE Terminal WITH
    line <- lbuf, at <- i, text <- buf,
    queue <- [c \in Console |-> Cooked(ring[c])],
    stage <- [g \in Console |-> Stage(g)]
\* The lines of a console reach its getty whole, in order and once each, through
\* a ring that wraps and messages that wait (cook, get_cooked, read_request, getty).
TerminalSpec == Promise!TerminalSpec

\* An entered line is read, whatever is typed and shown meanwhile, unless the
\* machine stops.
LinesAreRead ==
    \A c \in Console : (ring[c].f # ring[c].r) ~> (gpc[c] = "write" \/ panic # "none")
=============================================================================
