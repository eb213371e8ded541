------------------------------- MODULE TcpClient -------------------------------
(***************************************************************************)
(* TcpClient with its connections on one loop (src/src/TcpClient.h,        *)
(* TcpConnection.h and .cpp, Event.h): non-blocking connects, whose end is *)
(* reported through the write callback that send() uses as well.           *)
(*                                                                         *)
(* The pool of the client is left empty: connect() and the loop share one  *)
(* thread, so connect() is one step, and so is each callback.  Bytes are   *)
(* counted.                                                                *)
(***************************************************************************)
EXTENDS Integers, FiniteSets

CONSTANTS
  Conn,            (* the connections the program asks for, once each      *)
  Use,             (* what the message callback does with its connection   *)
  AskState,        (* does it send only when state() is ESTABLISHED?       *)
  TaskSends,       (* does a task of addTimedTask send as well?            *)
  PeerResets,      (* may a peer reset its connection?                     *)
  MaxOut           (* bound of the model on the bytes in a write buffer    *)

ASSUME TcpClientAssumption ==
  /\ Use \subseteq {"none", "send", "close", "reply"}
  /\ AskState \in BOOLEAN
  /\ TaskSends \in BOOLEAN
  /\ PeerResets \in BOOLEAN
  /\ MaxOut \in Nat \ {0}

VARIABLES
  sock,            (* kernel: the socket of each connection                *)
  conn,            (* its TcpConnection and Event                          *)
  batch            (* what poll() returned and is still to be handled      *)

vars == <<sock, conn, batch>>

(* stage: of connect(2), which has "failed" if it said so at once, and was *)
(* "refused" if that came later; inbox: unread bytes; eof: the peer's end  *)
(* of the stream; down: the connection was refused or reset; error: it has *)
(* not been told so yet (SO_ERROR); space: room in the send buffer.        *)
NoSock == [stage |-> "none", inbox |-> 0, eof |-> FALSE, down |-> FALSE,
           error |-> FALSE, space |-> TRUE]

(* mem, registered, interest, revents, output, isWillClose, closeCalls as  *)
(* in TcpServer; state: state_; writeCallback: what writeCallback_ does;   *)
(* estaCalls: history of connEstaCallback_; failed: the assert that failed.*)
NoConn == [mem |-> "none", registered |-> FALSE, state |-> "BLANK",
           interest |-> {}, revents |-> {}, writeCallback |-> "none", output |-> 0,
           isWillClose |-> FALSE, estaCalls |-> 0, closeCalls |-> 0, failed |-> FALSE]

Init ==
  /\ sock = [c \in Conn |-> NoSock]
  /\ conn = [c \in Conn |-> NoConn]
  /\ batch = {}

(* A failed assert ends the process.                                       *)
Aborted == \E c \in Conn : conn[c].failed

-----------------------------------------------------------------------------
(* What the methods of a connection r do to it.                            *)

(* setReadable and setWritable of its event.                               *)
SetReadable(r, on) ==
  [r EXCEPT !.interest = IF on THEN @ \union {"in"} ELSE @ \ {"in"}]

SetWritable(r, on) ==
  [r EXCEPT !.interest = IF on THEN @ \union {"out"} ELSE @ \ {"out"}]

(* A slip: the interest is not looked at, and not raised.                  *)
SendUnarmed(r, isLast) ==
  [r EXCEPT !.isWillClose = isLast, !.writeCallback = "send"]

(* send(isLast): an event that is writable already is left as it is, also  *)
(* when its write callback is the one that waits for the connection.       *)
Send(r, isLast) ==
  IF r.output = 0 THEN [r EXCEPT !.failed = TRUE]
  ELSE IF "out" \in r.interest
  THEN [r EXCEPT !.isWillClose = isLast]
  ELSE SetWritable([r EXCEPT !.isWillClose = isLast, !.writeCallback = "send"], TRUE)

(* send(str, len), of one byte.                                            *)
SendBytes(r) == Send([r EXCEPT !.output = @ + 1], FALSE)

(* The close callback, destroy() and the end of the object.                *)
Destroy(r) ==
  [r EXCEPT !.closeCalls = @ + 1, !.state = "CLOSED", !.registered = FALSE,
            !.mem = "freed"]

(* Slips: what is still to be written is dropped; the connection stays     *)
(* readable.                                                               *)
CloseDropsOutput(r) == Destroy(r)

CloseStaysReadable(r) == IF r.output > 0 THEN Send(r, TRUE) ELSE Destroy(r)

(* closeConnection: postponed until the write buffer is empty.             *)
CloseConnection(r) ==
  IF r.output > 0 THEN Send(SetReadable(r, FALSE), TRUE)
  ELSE Destroy(r)

(* The message callback of the program.                                    *)
UserCallback(r, use) ==
  CASE use = "none"  -> r
    [] use = "send"  -> SendBytes(r)
    [] use = "close" -> CloseConnection(r)
    [] use = "reply" -> CloseConnection(SendBytes(r))

(* A slip: the user is not told.                                           *)
ConnectedUntold(r) == SetWritable([r EXCEPT !.state = "ESTABLISHED"], FALSE)

(* The write callback of connect() when there is no error: the user hears  *)
(* of the connection, which stops being writable and changes its state.    *)
Connected(r) ==
  SetWritable([r EXCEPT !.estaCalls = @ + 1, !.state = "ESTABLISHED"], FALSE)

(* sendNonblock after write(2) took n bytes; -1, of a write that failed,   *)
(* does not pass the assert of Buffer::retrieve.                           *)
SendNonblock(r, n) ==
  LET rest  == [r EXCEPT !.output = @ - n]
      quiet == SetWritable(rest, FALSE)
  IN  IF n = -1 THEN [r EXCEPT !.failed = TRUE]
      ELSE IF rest.output > 0 THEN rest
      ELSE IF quiet.isWillClose THEN CloseConnection(quiet)
      ELSE quiet

-----------------------------------------------------------------------------
(* The peer of a connection, and the kernel.                               *)

Outside(c, s) ==
  /\ conn[c].mem = "live"
  /\ sock' = [sock EXCEPT ![c] = s]
  /\ UNCHANGED <<conn, batch>>

PeerAccepts(c) ==
  /\ sock[c].stage = "connecting"
  /\ Outside(c, [sock[c] EXCEPT !.stage = "connected"])

PeerRefuses(c) ==
  /\ sock[c].stage = "connecting"
  /\ Outside(c, [sock[c] EXCEPT !.stage = "refused", !.down = TRUE, !.error = TRUE])

PeerSends(c) ==
  /\ sock[c].stage = "connected"
  /\ ~ sock[c].eof /\ ~ sock[c].down /\ sock[c].inbox = 0
  /\ Outside(c, [sock[c] EXCEPT !.inbox = 1])

PeerCloses(c) ==
  /\ sock[c].stage = "connected"
  /\ ~ sock[c].eof /\ ~ sock[c].down
  /\ Outside(c, [sock[c] EXCEPT !.eof = TRUE])

PeerReads(c) ==
  /\ sock[c].stage = "connected"
  /\ ~ sock[c].space /\ ~ sock[c].down
  /\ Outside(c, [sock[c] EXCEPT !.space = TRUE])

PeerAborts(c) ==
  /\ PeerResets
  /\ sock[c].stage = "connected" /\ ~ sock[c].down
  /\ \E left \in {0, sock[c].inbox} :
       Outside(c, [sock[c] EXCEPT !.down = TRUE, !.error = TRUE, !.inbox = left])

-----------------------------------------------------------------------------
(* The program and the loop.                                               *)

(* connect(): both callbacks are set and both events asked for before the  *)
(* loop runs on.  connect(2) is under way, or has failed: Socket::connect  *)
(* has logged that and kept the error to itself.                           *)
Connect(c) ==
  /\ ~ Aborted
  /\ conn[c].mem = "none"
  /\ \E stage \in {"connecting", "failed"} :
       sock' = [sock EXCEPT ![c].stage = stage]
  /\ conn' = [conn EXCEPT ![c].mem = "live", ![c].registered = TRUE,
                          ![c].interest = {"in", "out"},
                          ![c].writeCallback = "connect"]
  /\ UNCHANGED batch

(* connect(2) on it has failed, or its peer has ended it: a write fails.   *)
Broken(c) == sock[c].down \/ sock[c].stage = "failed"

(* What epoll_wait reports: nothing before connect(2) has come to an end,  *)
(* and of a socket it has failed on that it can be written, and hung up.   *)
Revents(c) ==
  IF sock[c].stage = "connecting" THEN {}
  ELSE (conn[c].interest \intersect
          ((IF sock[c].inbox > 0 \/ sock[c].eof \/ sock[c].down THEN {"in"} ELSE {})
             \union (IF sock[c].space \/ sock[c].down THEN {"out"} ELSE {})))
       \union (IF Broken(c) THEN {"err"} ELSE {})

(* For errors and hang-ups no callback is set: to handle an event that has *)
(* nothing else changes nothing, and it is left out of the batch.          *)
Ready ==
  {c \in Conn : conn[c].registered /\ Revents(c) \intersect {"in", "out"} # {}}

Poll ==
  /\ ~ Aborted
  /\ batch = {}
  /\ Ready # {}
  /\ batch' = Ready
  /\ conn' = [c \in Conn |->
                IF c \in Ready THEN [conn[c] EXCEPT !.revents = Revents(c)] ELSE conn[c]]
  /\ UNCHANGED sock

(* The loop takes the event of c from its batch.                           *)
Takes(c) ==
  /\ ~ Aborted
  /\ c \in batch
  /\ batch' = batch \ {c}

(* preConnMsgCallback at the end of the stream, or with an error, which    *)
(* the read takes off the socket.                                          *)
HandleClose(c) ==
  /\ Takes(c)
  /\ "in" \in conn[c].revents
  /\ sock[c].inbox = 0
  /\ sock[c].eof \/ sock[c].down
  /\ sock' = [sock EXCEPT ![c].error = FALSE]
  /\ conn' = [conn EXCEPT ![c] = CloseConnection(@)]

(* preConnMsgCallback with bytes read; the codec may wait for more.        *)
HandleMessage(c) ==
  /\ Takes(c)
  /\ "in" \in conn[c].revents
  /\ sock[c].inbox > 0
  /\ sock' = [sock EXCEPT ![c].inbox = 0]
  /\ \E use \in Use \union {"none"} :
       /\ use \in {"send", "reply"} =>
            /\ conn[c].output < MaxOut
            /\ AskState => conn[c].state = "ESTABLISHED"
       /\ conn' = [conn EXCEPT ![c] = UserCallback(@, use)]

(* A slip: it comes before the read callback (Event.h:98), and does not    *)
(* ask for the error.  Either alone does no harm.                          *)
HandleConnectBlind(c) ==
  /\ Takes(c)
  /\ "out" \in conn[c].revents
  /\ conn[c].writeCallback = "connect"
  /\ conn' = [conn EXCEPT ![c] = Connected(@)]
  /\ UNCHANGED sock

(* The write callback that connect() has set; it takes the error as well.  *)
HandleConnect(c) ==
  /\ Takes(c)
  /\ "in" \notin conn[c].revents
  /\ "out" \in conn[c].revents
  /\ conn[c].writeCallback = "connect"
  /\ sock' = [sock EXCEPT ![c].error = FALSE]
  /\ conn' = [conn EXCEPT ![c] = IF sock[c].error THEN CloseConnection(@) ELSE Connected(@)]

(* The write callback that send() has set.                                 *)
HandleWrite(c) ==
  /\ Takes(c)
  /\ "in" \notin conn[c].revents
  /\ "out" \in conn[c].revents
  /\ conn[c].writeCallback = "send"
  /\ IF Broken(c)
     THEN /\ conn' = [conn EXCEPT ![c] = SendNonblock(@, -1)]
          /\ UNCHANGED sock
     ELSE \E n \in 1 .. conn[c].output, space \in BOOLEAN :
            /\ n < conn[c].output => ~ space
            /\ conn' = [conn EXCEPT ![c] = SendNonblock(@, n)]
            /\ sock' = [sock EXCEPT ![c].space = space]

(* A task of addTimedTask, the callback of a timerfd on the same loop,     *)
(* sends on an established connection that it has not seen closed.  Its    *)
(* turn may come between any two events of a batch.                        *)
TimedTask(c) ==
  /\ TaskSends
  /\ ~ Aborted
  /\ conn[c].mem = "live" /\ conn[c].state = "ESTABLISHED"
  /\ conn[c].output < MaxOut
  /\ conn' = [conn EXCEPT ![c] = SendBytes(@)]
  /\ UNCHANGED <<sock, batch>>

-----------------------------------------------------------------------------
LoopStep ==
  \/ Poll
  \/ \E c \in Conn :
       HandleClose(c) \/ HandleMessage(c) \/ HandleConnect(c) \/ HandleWrite(c)

Next ==
  \/ LoopStep
  \/ \E c \in Conn :
       \/ Connect(c) \/ TimedTask(c)
       \/ PeerAccepts(c) \/ PeerRefuses(c) \/ PeerSends(c) \/ PeerCloses(c)
       \/ PeerReads(c) \/ PeerAborts(c)

Spec == Init /\ [][Next]_vars

(***************************************************************************)
(* Fairness.  The loop has a thread of its own; connect(2) comes to an     *)
(* end, and a peer goes on reading.  It need not send, close or reset.     *)
(***************************************************************************)
Fairness ==
  /\ WF_vars(LoopStep)
  /\ \A c \in Conn : WF_vars(PeerAccepts(c) \/ PeerRefuses(c)) /\ WF_vars(PeerReads(c))

FairSpec == Spec /\ Fairness

-----------------------------------------------------------------------------
(* Properties.                                                             *)

SockType == [stage : {"none", "connecting", "connected", "refused", "failed"},
             inbox : 0 .. 1, eof : BOOLEAN, down : BOOLEAN, error : BOOLEAN,
             space : BOOLEAN]

ConnType == [mem : {"none", "live", "freed"}, registered : BOOLEAN,
             state : {"BLANK", "ESTABLISHED", "CLOSED"},
             interest : SUBSET {"in", "out"}, revents : SUBSET {"in", "out", "err"},
             writeCallback : {"none", "connect", "send"}, output : 0 .. MaxOut,
             isWillClose : BOOLEAN, estaCalls : 0 .. 1, closeCalls : 0 .. 1,
             failed : BOOLEAN]

(* Every field holds a value of its type; the user hears at most once that *)
(* a connection was made, and at most once that it was closed.             *)
TypeOK ==
  /\ sock \in [Conn -> SockType]
  /\ conn \in [Conn -> ConnType]
  /\ batch \subseteq Conn

(* TcpClient.h:83 says of the write callback that it looks whether the     *)
(* connection was made and tells the user if so.  (It tells of connects    *)
(* that failed at once as well.)                                           *)
EstablishedTruly ==
  \A c \in Conn : conn[c].estaCalls > 0 => sock[c].stage = "connected"

(* A connect that is refused later is never taken for a connection,        *)
(* although the reader may take the error that the connect callback asks   *)
(* for (TcpClient.h:84), and none counts as ESTABLISHED without its user   *)
(* knowing.                                                                *)
RefusalIsHeard ==
  \A c \in Conn :
    /\ conn[c].estaCalls > 0 => sock[c].stage \in {"connected", "failed"}
    /\ conn[c].state = "ESTABLISHED" => conn[c].estaCalls = 1

(* What waits in the write buffer of an established connection will be     *)
(* written: the write callback has changed hands from connect() to send()  *)
(* (TcpConnection.cpp:42).                                                 *)
OutputIsArmed ==
  \A c \in Conn :
    conn[c].state = "ESTABLISHED" /\ conn[c].output > 0
      => "out" \in conn[c].interest /\ conn[c].writeCallback = "send"

(* A connection is deleted with an empty write buffer (TcpClient.h:103),   *)
(* after the user was told so, and no loop still has its event to handle.  *)
DeletedAfterOutput ==
  \A c \in Conn :
    conn[c].mem = "freed" =>
      conn[c].output = 0 /\ conn[c].closeCalls = 1 /\ c \notin batch

(* Every connect() comes to an end the user hears of, unless the peer      *)
(* keeps the socket readable: Event::handle prefers the read callback.     *)
IsTold ==
  \A c \in Conn :
    \/ sock[c].stage \in {"connecting", "failed"}
         ~> conn[c].estaCalls > 0 \/ conn[c].closeCalls > 0 \/ Aborted
    \/ []<>(sock[c].inbox > 0)

(* The close was postponed and then forgotten: isWillClose_ is false again *)
(* on a connection that is no longer read.                                 *)
CloseForgotten(c) ==
  conn[c].mem = "live" /\ "in" \notin conn[c].interest /\ ~ conn[c].isWillClose

(* A connection that its peer has closed or refused is deleted, once what  *)
(* was to be said is sent - unless a task that knows nothing of it sends   *)
(* once more (TcpConnection.cpp:41); nothing else makes it forget.         *)
EofIsClosed ==
  \A c \in Conn :
    sock[c].eof \/ sock[c].down
      ~> conn[c].mem = "freed" \/ Aborted \/ (TaskSends /\ CloseForgotten(c))
=============================================================================
