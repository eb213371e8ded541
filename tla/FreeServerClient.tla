--------------------------- MODULE FreeServerClient ---------------------------
(***************************************************************************)
(* FreeServerClient (src/src/FreeServerClient.h) on one loop: connections  *)
(* that its ports accept and connections it asks for, with callbacks of    *)
(* their own for each port, and the TcpConnection methods they share.      *)
(*                                                                         *)
(* A read error is not the end of a connection here: it is reported, and   *)
(* the end follows with the next read.  An object is used after its end or *)
(* an assert fails: the process is taken to stop there.                    *)
(***************************************************************************)
EXTENDS Integers, FiniteSets

CONSTANTS
  Served,          (* the connections that peers make to a port            *)
  Asked            (* those of createClientConn                            *)

VARIABLES
  sock,            (* kernel: the socket of each connection                *)
  conn,            (* its TcpConnection and Event                          *)
  batch,           (* what poll() returned and is still to be handled      *)
  port             (* is the port open, and which callbacks was it given?  *)

vars == <<sock, conn, batch, port>>

Conn   == Served \union Asked
MaxOut == 2        (* bound of the model on the bytes in a write buffer    *)

(* stage, inbox, eof, down, error, space as in TcpClient.                  *)
NoSock == [stage |-> "none", inbox |-> 0, eof |-> FALSE, down |-> FALSE,
           error |-> FALSE, space |-> TRUE]

(* mem, interest, revents, output, isWillClose, failed as in TcpClient.    *)
(* History: told, calls of the destroy callback; active, its last          *)
(* closeConnection came from activeClose; closer, the callback it ended    *)
(* in, if that was one of "established" or of a timed "task"; dangling, it *)
(* was used after its end.                                                 *)
NoConn == [mem |-> "none", interest |-> {}, revents |-> {}, output |-> 0,
           isWillClose |-> FALSE, told |-> 0, active |-> FALSE, closer |-> "none",
           failed |-> FALSE, dangling |-> FALSE]

Init ==
  /\ sock = [c \in Conn |-> NoSock]
  /\ conn = [c \in Conn |-> NoConn]
  /\ batch = {}
  /\ port = [open |-> FALSE, given |-> {}]

Stopped == \E c \in Conn : conn[c].failed \/ conn[c].dangling

-----------------------------------------------------------------------------
(* What the methods of a connection r of c do to it.                       *)

SetReadable(r, on) ==
  [r EXCEPT !.interest = IF on THEN @ \union {"in"} ELSE @ \ {"in"}]

SetWritable(r, on) ==
  [r EXCEPT !.interest = IF on THEN @ \union {"out"} ELSE @ \ {"out"}]

Send(r, isLast) ==
  SetWritable([r EXCEPT !.isWillClose = isLast, !.failed = @ \/ r.output = 0], TRUE)

SendBytes(r) == Send([r EXCEPT !.output = @ + 1], FALSE)

(* A slip: it is postponed whether there is output or not.                 *)
CloseConnectionLater(r, told) == Send(SetReadable(r, FALSE), TRUE)

(* closeConnection with a destroy callback, which is told, or without one. *)
CloseConnection(r, told) ==
  IF r.output > 0 THEN Send(SetReadable(r, FALSE), TRUE)
  ELSE [r EXCEPT !.told = IF told THEN @ + 1 ELSE @, !.mem = "freed", !.interest = {}]

(* A slip: both kinds of connections have their destroy callback set.      *)
ActiveCloseTells(c, r) == CloseConnection([r EXCEPT !.active = TRUE], TRUE)

(* activeClose: only acceptCallback has set destoryCallback_.              *)
ActiveClose(c, r) == CloseConnection([r EXCEPT !.active = TRUE], c \in Served)

(* The callbacks of the program: what one does with its connection.        *)
Uses == {"none", "send", "close", "reply"}

UserCallback(c, r, use) ==
  CASE use = "none"  -> r
    [] use = "send"  -> SendBytes(r)
    [] use = "close" -> ActiveClose(c, r)
    [] use = "reply" -> ActiveClose(c, SendBytes(r))

MayUse(r, use) == use \in {"send", "reply"} => r.output < MaxOut

(* r was left by a callback of this kind.                                  *)
LeftBy(kind, r) == IF r.mem = "freed" THEN [r EXCEPT !.closer = kind] ELSE r

(* sendNonblock after write(2) took n bytes, or failed with -1.            *)
SendNonblock(c, r, n) ==
  LET rest  == [r EXCEPT !.output = @ - n]
      quiet == SetWritable(rest, FALSE)
  IN  IF n = -1 THEN [r EXCEPT !.failed = TRUE]
      ELSE IF rest.output > 0 THEN rest
      ELSE IF quiet.isWillClose THEN ActiveClose(c, quiet)
      ELSE quiet

-----------------------------------------------------------------------------
(* The peer of a connection, and the kernel.                               *)

Outside(c, s) ==
  /\ conn[c].mem # "freed"
  /\ sock' = [sock EXCEPT ![c] = s]
  /\ UNCHANGED <<conn, batch, port>>

Up(c) == sock[c].stage \in {"pending", "connected"} /\ ~ sock[c].down

PeerConnects(c) ==
  /\ port.open
  /\ sock[c].stage = "none"
  /\ c \in Served
  /\ Outside(c, [sock[c] EXCEPT !.stage = "pending"])

PeerSends(c) ==
  /\ Up(c) /\ ~ sock[c].eof /\ sock[c].inbox = 0
  /\ Outside(c, [sock[c] EXCEPT !.inbox = 1])

PeerCloses(c) ==
  /\ Up(c) /\ ~ sock[c].eof
  /\ Outside(c, [sock[c] EXCEPT !.eof = TRUE])

PeerReads(c) ==
  /\ Up(c) /\ ~ sock[c].space
  /\ Outside(c, [sock[c] EXCEPT !.space = TRUE])

(* A reset: what was not read yet may be lost.                             *)
PeerAborts(c) ==
  /\ Up(c)
  /\ \E left \in {0, sock[c].inbox} :
       Outside(c, [sock[c] EXCEPT !.down = TRUE, !.error = TRUE, !.inbox = left])

-----------------------------------------------------------------------------
(* The program and the loop.                                               *)

(* createServerPort: it listens, and its event is readable, from here on.  *)
(* Of the callbacks it is given, two are called without a look.            *)
CreateServerPort ==
  /\ ~ Stopped
  /\ ~ port.open
  /\ \E given \in SUBSET {"message", "error"} :
       port' = [open |-> TRUE, given |-> given]
  /\ UNCHANGED <<sock, conn, batch>>

(* createClientConn, from the main thread before start() or from the loop: *)
(* connect(2) blocks, and that it failed only goes to the log.  The        *)
(* established callback runs before the connection is made readable; after *)
(* one that has ended it, that is done to a deleted object.                *)
CreateClientConn(c, connected) ==
  /\ ~ Stopped
  /\ c \in Asked
  /\ conn[c].mem = "none"
  /\ sock' = [sock EXCEPT ![c].stage = IF connected THEN "connected" ELSE "failed",
                          ![c].down = ~ connected]
  /\ \E use \in Uses :
       LET r == LeftBy("established", UserCallback(c, [conn[c] EXCEPT !.mem = "live"], use))
       IN  conn' = [conn EXCEPT ![c] = IF r.mem = "freed" THEN [r EXCEPT !.dangling = TRUE]
                                       ELSE SetReadable(r, TRUE)]
  /\ UNCHANGED <<batch, port>>

(* acceptCallback: the first connection that waits, and only that one; the *)
(* event of the port is ready as long as one waits.  The established       *)
(* callback comes last.                                                    *)
HandleAccept(c) ==
  /\ ~ Stopped
  /\ sock[c].stage = "pending"
  /\ sock' = [sock EXCEPT ![c].stage = "connected"]
  /\ \E use \in Uses :
       LET r == SetReadable([conn[c] EXCEPT !.mem = "live"], TRUE)
       IN  conn' = [conn EXCEPT ![c] = UserCallback(c, r, use)]
  /\ UNCHANGED <<batch, port>>

Revents(c) ==
  (conn[c].interest \intersect
     ((IF sock[c].inbox > 0 \/ sock[c].eof \/ (sock[c].down /\ sock[c].stage = "connected")
       THEN {"in"} ELSE {})
        \union (IF sock[c].space \/ sock[c].down THEN {"out"} ELSE {})))

Ready == {c \in Conn : Revents(c) # {}}

Poll ==
  /\ ~ Stopped
  /\ batch = {}
  /\ Ready # {}
  /\ batch' = Ready
  /\ UNCHANGED <<sock, port>>
  /\ conn' = [c \in Conn |-> [conn[c] EXCEPT !.revents = Revents(c)]]

Drops(c) ==
  /\ ~ Stopped
  /\ c \in batch
  /\ batch' = batch \ {c}
  /\ UNCHANGED port

Takes(c) == Drops(c) /\ conn[c].mem = "live"

(* The event of a connection that was deleted after poll().                *)
HandleDeleted(c) ==
  /\ Drops(c)
  /\ conn[c].mem = "freed"
  /\ conn' = [conn EXCEPT ![c].dangling = TRUE]
  /\ UNCHANGED sock

(* A slip: a connection that is to be closed stays readable.               *)
HandleCloseLate(c) ==
  /\ Takes(c)
  /\ "in" \in conn[c].revents
  /\ sock[c].inbox = 0 /\ ~ sock[c].error
  /\ conn' = [conn EXCEPT ![c] =
                IF @.output > 0 THEN Send(@, TRUE) ELSE CloseConnection(@, TRUE)]
  /\ UNCHANGED sock

(* The read callback with n = 0, from an end of stream or after an error.  *)
HandleClose(c) ==
  /\ Takes(c)
  /\ "in" \in conn[c].revents
  /\ sock[c].inbox = 0 /\ ~ sock[c].error
  /\ conn' = [conn EXCEPT ![c] = CloseConnection([@ EXCEPT !.active = FALSE], TRUE)]
  /\ UNCHANGED sock

(* The codec waits for more, or the message callback is called: for a port *)
(* also one that was not given.                                            *)
MessageOutcomes(c, r) ==
  {r} \union IF c \in Served /\ "message" \notin port.given
             THEN {[r EXCEPT !.failed = TRUE]}
             ELSE {UserCallback(c, r, use) : use \in {use \in Uses : MayUse(r, use)}}

(* Bytes were read.                                                        *)
HandleMessage(c) ==
  /\ Takes(c)
  /\ "in" \in conn[c].revents
  /\ sock[c].inbox > 0
  /\ sock' = [sock EXCEPT ![c].inbox = 0]
  /\ \E r \in MessageOutcomes(c, conn[c]) : conn' = [conn EXCEPT ![c] = r]

(* n < 0 on a connection of createClientConn.                              *)
HandleErrorAsked(c) ==
  /\ Takes(c)
  /\ "in" \in conn[c].revents
  /\ c \in Asked
  /\ sock[c].inbox = 0 /\ sock[c].error
  /\ sock' = [sock EXCEPT ![c].error = FALSE]
  /\ \E use \in Uses :
       /\ MayUse(conn[c], use)
       /\ conn' = [conn EXCEPT ![c] = UserCallback(c, @, use)]

(* n < 0 on a connection of a port: an error callback that was not given   *)
(* is called all the same, and a message is looked for in a connection     *)
(* that the callback may have closed.                                      *)
HandleErrorServed(c) ==
  /\ Takes(c)
  /\ "in" \in conn[c].revents
  /\ c \in Served
  /\ sock[c].inbox = 0 /\ sock[c].error
  /\ sock' = [sock EXCEPT ![c].error = FALSE]
  /\ IF "error" \notin port.given
     THEN conn' = [conn EXCEPT ![c].failed = TRUE]
     ELSE \E use \in Uses :
            LET told == UserCallback(c, conn[c], use) IN
            /\ MayUse(conn[c], use)
            /\ IF told.mem = "freed"
               THEN conn' = [conn EXCEPT ![c] = [told EXCEPT !.dangling = TRUE]]
               ELSE \E r \in MessageOutcomes(c, told) : conn' = [conn EXCEPT ![c] = r]

(* The write callback that send() has set.                                 *)
HandleWrite(c) ==
  /\ Takes(c)
  /\ conn[c].revents = {"out"}
  /\ IF sock[c].down
     THEN /\ conn' = [conn EXCEPT ![c] = SendNonblock(c, @, -1)]
          /\ UNCHANGED sock
     ELSE \E n \in 1 .. conn[c].output, space \in BOOLEAN :
            /\ n < conn[c].output => ~ space
            /\ conn' = [conn EXCEPT ![c] = SendNonblock(c, @, n)]
            /\ sock' = [sock EXCEPT ![c].space = space]

(* A task of addTimedTask, the callback of a timerfd on the same loop,     *)
(* uses a connection whose end its user has neither asked for nor been     *)
(* told of.  Its turn may come between any two events of a batch.          *)
TimedTask(c) ==
  /\ ~ Stopped
  /\ conn[c].mem = "live" /\ ~ conn[c].active
  /\ \E use \in Uses \ {"none"} :
       /\ MayUse(conn[c], use)
       /\ conn' = [conn EXCEPT ![c] = LeftBy("task", UserCallback(c, @, use))]
  /\ UNCHANGED <<sock, batch, port>>

-----------------------------------------------------------------------------
LoopStep ==
  \/ Poll
  \/ \E c \in Conn :
       \/ HandleClose(c) \/ HandleMessage(c) \/ HandleWrite(c)
       \/ HandleErrorAsked(c) \/ HandleErrorServed(c) \/ HandleDeleted(c)

Next ==
  \/ LoopStep
  \/ CreateServerPort
  \/ \E c \in Conn :
       \/ HandleAccept(c) \/ TimedTask(c)
       \/ \E connected \in BOOLEAN : CreateClientConn(c, connected)
       \/ PeerConnects(c) \/ PeerSends(c) \/ PeerCloses(c)
       \/ PeerReads(c) \/ PeerAborts(c)

Spec == Init /\ [][Next]_vars

(***************************************************************************)
(* Fairness.  The loop has a thread of its own, and a peer goes on reading.*)
(***************************************************************************)
Fairness ==
  /\ WF_vars(LoopStep)
  /\ \A c \in Served : WF_vars(HandleAccept(c))
  /\ \A c \in Conn : WF_vars(PeerReads(c))

FairSpec == Spec /\ Fairness

-----------------------------------------------------------------------------
(* Properties.                                                             *)

(* A connection is deleted with an empty write buffer and no event of it   *)
(* left to handle, unless a timed task has ended it (EventLoop.h:30), and  *)
(* its destroy callback was called once - but for one of createClientConn  *)
(* that activeClose() ends, by the program or by the last write: it is     *)
(* never told (TcpConnection.cpp:49).                                      *)
ToldOfEnd ==
  \A c \in Conn :
    conn[c].mem = "freed" =>
      /\ conn[c].output = 0
      /\ c \in batch => conn[c].closer = "task"
      /\ conn[c].told = IF c \in Asked /\ conn[c].active THEN 0 ELSE 1

(* What the code does not survive of a program: a port without a message   *)
(* callback (FreeServerClient.h:180); the established callback of          *)
(* createClientConn that ends its connection (:64, :85); a timed task that *)
(* does so while the loop still has its event to handle (EventLoop.h:30).  *)
Careless(c) ==
  \/ c \in Served /\ port.open /\ "message" \notin port.given
  \/ c \in Asked /\ conn[c].closer = "established"
  \/ conn[c].closer = "task"

(* Otherwise failed asserts, calls of an empty callback and uses of a      *)
(* deleted object (FreeServerClient.h:57, 173, 181) need a peer that       *)
(* resets or a connect that failed; nothing else leads to them.            *)
FailsOnlyWhenDown ==
  \A c \in Conn :
    conn[c].failed \/ conn[c].dangling => sock[c].down \/ Careless(c)

CloseForgotten(c) ==
  conn[c].mem = "live" /\ "in" \notin conn[c].interest /\ ~ conn[c].isWillClose

(* A connection whose peer has closed or reset it is deleted, once what    *)
(* was to be said is sent, although a read error does not end it.  Only a  *)
(* task that sends once more while the close waits for output makes it     *)
(* forget that it was to be closed (TcpConnection.cpp:41).                 *)
EndIsClosed ==
  \A c \in Conn :
    sock[c].stage = "connected" /\ (sock[c].eof \/ sock[c].down)
      ~> conn[c].mem = "freed" \/ Stopped \/ CloseForgotten(c)
=============================================================================
