------------------------------ MODULE TcpServer ------------------------------
(***************************************************************************)
(* TcpServer with its connections (src/src/TcpServer.h, TcpConnection.h    *)
(* and .cpp, Event.h, Epoller.cpp, EventLoopPool::getNextPool): the main   *)
(* loop accepts, each connection is served by the loop that owns it, and   *)
(* peers connect, send, close and reset whenever they like.                *)
(*                                                                         *)
(* A loop is abstracted to what EventLoop.tla shows of it: poll() returns  *)
(* a batch of events with the revents they had, and the thread handles     *)
(* them one by one.  A callback is one step, because the thread of the     *)
(* owning loop is the only one to touch a connection, except for the main  *)
(* thread while it accepts it: those steps are apart.  Bytes are counted.  *)
(***************************************************************************)
EXTENDS Integers, Sequences, FiniteSets

CONSTANTS
  Conn,            (* the connections peers make, each at most once        *)
  Worker,          (* the loops of the pool, in the order of loops_        *)
  HasEsta,         (* is an established callback set?  It looks at conn    *)
  MsgUses,         (* what the message callback does with its connection   *)
  TimerUses,       (* the same for a timed task of a server without pool   *)
  PeerResets,      (* may a peer reset its connection?                     *)
  ZeroFree,        (* may the program close descriptor 0, standard input?  *)
  MaxOut           (* bound of the model on the bytes in a write buffer    *)

Main == "main"
Loop == {Main} \union {Worker[i] : i \in DOMAIN Worker}
Null == "null"
Listen == "listen"   (* listenEvent_ *)
Use  == {"none", "send", "close", "reply"}

ASSUME TcpServerAssumption ==
  /\ Listen \notin Conn
  /\ Worker \in Seq(STRING)
  /\ \A i, j \in DOMAIN Worker : Worker[i] = Worker[j] => i = j
  /\ Main \notin {Worker[i] : i \in DOMAIN Worker}
  /\ Null \notin Loop
  /\ HasEsta \in BOOLEAN
  /\ MsgUses \subseteq Use
  /\ TimerUses \subseteq Use
  /\ PeerResets \in BOOLEAN
  /\ ZeroFree \in BOOLEAN
  /\ MaxOut \in Nat \ {0}

VARIABLES
  sock,            (* kernel: the connected socket, as the server sees it  *)
  backlog,         (* kernel: connections waiting for accept(2), in order  *)
  conn,            (* the TcpConnection and Event of each connection       *)
  owner,           (* the loop whose epoller has the Event                 *)
  nextIndex,       (* nextIndex_ of the pool                               *)
  batch,           (* per loop: what poll() returned and is to be handled  *)
  accepting,       (* where the main thread is in acceptCallback           *)
  newConn,         (* the connection acceptCallback has just accepted      *)
  misused          (* history: a freed Event or TcpConnection was touched  *)

vars == <<sock, backlog, conn, owner, nextIndex, batch, accepting, newConn, misused>>

(* stage: "none" before the peer connects, then "open", unless accept(2)   *)
(* finds it "dropped" by its peer or gives it the descriptor "zero";       *)
(* inbox: unread bytes; eof, reset: what the peer did; space: room in the  *)
(* send buffer.                                                            *)
NoSock == [stage |-> "none", inbox |-> 0, eof |-> FALSE, reset |-> FALSE, space |-> TRUE]

(* mem: of Event and TcpConnection, which live and die together; data_;    *)
(* registered: is the event in the epoller; interest: events_; revents:    *)
(* revents_; writeCallback: is it set; output: readableBytes() of          *)
(* writeBuffer_; isWillClose_; closeCalls: history of connCloseCallback_;  *)
(* failed: the assert that failed.                                         *)
NoConn == [mem |-> "none", registered |-> FALSE, data |-> Null, interest |-> {},
           revents |-> {}, writeCallback |-> FALSE, output |-> 0,
           isWillClose |-> FALSE, closeCalls |-> 0, failed |-> "none"]

Init ==
  /\ sock = [c \in Conn |-> NoSock]
  /\ backlog = <<>>
  /\ conn = [c \in Conn |-> NoConn]
  /\ owner = [c \in Conn |-> Null]
  /\ nextIndex = 0
  /\ batch = [l \in Loop |-> {}]
  /\ accepting = "no"
  /\ newConn = Null
  /\ misused = FALSE

(* A failed assert ends the process.                                       *)
Aborted == \E c \in Conn : conn[c].failed # "none"

-----------------------------------------------------------------------------
(* What the methods of a connection r do to it on the thread of loop l.    *)

(* A slip: the event is not made writable.                                 *)
SendUnarmed(r, isLast) ==
  IF r.output = 0 THEN [r EXCEPT !.failed = "send"]
  ELSE [r EXCEPT !.isWillClose = isLast, !.writeCallback = TRUE]

(* send(isLast): the write callback is armed, if it is not yet.            *)
Send(r, isLast) ==
  IF r.output = 0 THEN [r EXCEPT !.failed = "send"]
  ELSE [r EXCEPT !.isWillClose = isLast,
                 !.interest = @ \union {"out"},
                 !.writeCallback = TRUE]

(* send(str, len), of one byte.                                            *)
SendBytes(r) == Send([r EXCEPT !.output = @ + 1], FALSE)

(* A slip: the event is deleted without being taken out of the epoller.    *)
DestroyRegistered(r) == [r EXCEPT !.closeCalls = @ + 1, !.mem = "freed"]

(* The connection is given to its close callback, taken out of the epoller *)
(* and deleted with its event.                                             *)
Destroy(r) ==
  [r EXCEPT !.closeCalls = @ + 1, !.registered = FALSE, !.mem = "freed"]

(* Slips: the connection stays readable; it is closed under its output.    *)
CloseStaysReadable(r, l) ==
  IF r.data # l THEN [r EXCEPT !.failed = "thread"]
  ELSE IF r.output > 0 THEN Send(r, TRUE)
  ELSE Destroy(r)

CloseDropsOutput(r, l) ==
  IF r.data # l THEN [r EXCEPT !.failed = "thread"] ELSE Destroy(r)

(* closeConnection: postponed until the write buffer is empty.             *)
CloseConnection(r, l) ==
  IF r.data # l THEN [r EXCEPT !.failed = "thread"]
  ELSE IF r.output > 0 THEN Send([r EXCEPT !.interest = @ \ {"in"}], TRUE)
  ELSE Destroy(r)

(* A slip: the thread is not recorded.                                     *)
ServeUnmarked(r, l) == r

(* preConnMsgCallback records the thread that serves the connection.       *)
Serve(r, l) == [r EXCEPT !.data = l]

(* The callbacks of the user: they leave the connection alone, send on it, *)
(* close it, or send a last answer as tests/example_server.cpp does.       *)
UserCallback(r, l, use) ==
  CASE use = "none"  -> r
    [] use = "send"  -> SendBytes(r)
    [] use = "close" -> CloseConnection(r, l)
    [] use = "reply" -> CloseConnection(SendBytes(r), l)

(* sendNonblock after write(2) took n bytes; -1 is retrieved as a size_t,  *)
(* which the assert of Buffer::retrieve does not let pass.                 *)
SendNonblock(r, l, n) ==
  LET rest == [r EXCEPT !.output = @ - n] IN
  IF n = -1 THEN [r EXCEPT !.failed = "retrieve"]
  ELSE IF rest.output > 0 THEN rest
  ELSE LET quiet == [rest EXCEPT !.interest = @ \ {"out"}] IN
       IF quiet.isWillClose THEN CloseConnection(quiet, l) ELSE quiet

-----------------------------------------------------------------------------
(* Peers.                                                                  *)

PeerConnects(c) ==
  /\ sock[c].stage = "none"
  /\ sock' = [sock EXCEPT ![c].stage = "open"]
  /\ backlog' = Append(backlog, c)
  /\ UNCHANGED <<conn, owner, nextIndex, batch, accepting, newConn, misused>>

Peer(c, s) ==
  /\ sock[c].stage = "open"
  /\ conn[c].mem # "freed"
  /\ s # sock[c]
  /\ sock' = [sock EXCEPT ![c] = s]
  /\ UNCHANGED <<backlog, conn, owner, nextIndex, batch, accepting, newConn, misused>>

PeerSends(c) ==
  /\ ~ sock[c].eof /\ ~ sock[c].reset
  /\ Peer(c, [sock[c] EXCEPT !.inbox = 1])

PeerCloses(c) ==
  /\ ~ sock[c].reset
  /\ Peer(c, [sock[c] EXCEPT !.eof = TRUE])

PeerReads(c) ==
  /\ ~ sock[c].reset
  /\ Peer(c, [sock[c] EXCEPT !.space = TRUE])

(* A reset may find bytes that were not read yet, and may discard them.    *)
PeerAborts(c) ==
  /\ PeerResets
  /\ ~ sock[c].reset
  /\ \E left \in {0, sock[c].inbox} :
       Peer(c, [sock[c] EXCEPT !.reset = TRUE, !.inbox = left])

-----------------------------------------------------------------------------
(* The main thread in acceptCallback.                                      *)

(* getNextPool.                                                            *)
NextPool ==
  IF Worker = <<>> THEN Main ELSE Worker[(nextIndex % Len(Worker)) + 1]

(* accept, getNextPool, Event::make, which registers the event for errors  *)
(* only, makeHeapObject and setReadCallback.  Until the event is readable  *)
(* no thread but this one can reach the connection through it.             *)
Accept ==
  /\ ~ Aborted
  /\ accepting = "accept"
  /\ backlog # <<>>
  /\ newConn' = Head(backlog)
  /\ backlog' = Tail(backlog)
  /\ owner' = [owner EXCEPT ![newConn'] = NextPool]
  /\ nextIndex' = IF Worker = <<>> THEN nextIndex ELSE nextIndex + 1
  /\ conn' = [conn EXCEPT ![newConn'].mem = "live", ![newConn'].registered = TRUE]
  /\ accepting' = "arm"
  /\ UNCHANGED <<sock, batch, misused>>

(* accept(2) takes the first connection but does not give a descriptor     *)
(* above 0: acceptCallback returns, and nobody knows of the connection.    *)
AcceptLoses(stage) ==
  /\ ~ Aborted
  /\ accepting = "accept"
  /\ backlog # <<>>
  /\ sock' = [sock EXCEPT ![Head(backlog)].stage = stage]
  /\ backlog' = Tail(backlog)
  /\ accepting' = "no"
  /\ UNCHANGED <<conn, owner, nextIndex, batch, newConn, misused>>

(* accept(2) gives the lowest free descriptor.  That is 0 once at most     *)
(* after the program has closed it, and acceptCallback takes it for an     *)
(* error: nobody uses the connection or closes it again.                   *)
AcceptZero ==
  /\ ZeroFree
  /\ \A c \in Conn : sock[c].stage # "zero"
  /\ AcceptLoses("zero")

(* ECONNABORTED: the peer has reset the connection in the backlog.         *)
AcceptAborted ==
  /\ backlog # <<>> /\ sock[Head(backlog)].reset
  /\ AcceptLoses("dropped")

(* accept(2) fails, with an empty backlog (EAGAIN) or with connections     *)
(* waiting, for want of descriptors or memory: acceptCallback returns.     *)
AcceptFails ==
  /\ ~ Aborted
  /\ accepting = "accept"
  /\ accepting' = "no"
  /\ UNCHANGED <<sock, backlog, conn, owner, nextIndex, batch, newConn, misused>>

(* setReadable(true): from here on the owning loop serves the connection.  *)
SetReadable ==
  /\ ~ Aborted
  /\ accepting = "arm"
  /\ conn' = [conn EXCEPT ![newConn].interest = @ \union {"in"}]
  /\ accepting' = IF HasEsta THEN "established" ELSE "accept"
  /\ UNCHANGED <<sock, backlog, owner, nextIndex, batch, newConn, misused>>

(* connEstaCallback_(newConn), after that.                                 *)
Established ==
  /\ ~ Aborted
  /\ accepting = "established"
  /\ misused' = (misused \/ conn[newConn].mem = "freed")
  /\ accepting' = "accept"
  /\ UNCHANGED <<sock, backlog, conn, owner, nextIndex, batch, newConn>>

-----------------------------------------------------------------------------
(* The loops.                                                              *)

(* What epoll_wait reports of a registered connection.                     *)
Revents(c) ==
  (conn[c].interest \intersect
     ((IF sock[c].inbox > 0 \/ sock[c].eof \/ sock[c].reset THEN {"in"} ELSE {})
        \union (IF sock[c].space \/ sock[c].reset THEN {"out"} ELSE {})))
  \union (IF sock[c].reset THEN {"err"} ELSE {})

ReadyConns(l) == {c \in Conn : conn[c].registered /\ owner[c] = l /\ Revents(c) # {}}

Ready(l) ==
  ReadyConns(l) \union (IF l = Main /\ backlog # <<>> THEN {Listen} ELSE {})

(* poll() records in each event what it is ready for.                      *)
Poll(l) ==
  /\ ~ Aborted
  /\ batch[l] = {}
  /\ l = Main => accepting = "no"
  /\ Ready(l) # {}
  /\ batch' = [batch EXCEPT ![l] = Ready(l)]
  /\ conn' = [c \in Conn |->
                IF c \in ReadyConns(l) THEN [conn[c] EXCEPT !.revents = Revents(c)]
                ELSE conn[c]]
  /\ UNCHANGED <<sock, backlog, owner, nextIndex, accepting, newConn, misused>>

(* A slip: the listening event has no read callback.                       *)
HandleListenUnset ==
  /\ ~ Aborted
  /\ accepting = "no"
  /\ Listen \in batch[Main]
  /\ batch' = [batch EXCEPT ![Main] = @ \ {Listen}]
  /\ UNCHANGED <<sock, backlog, conn, owner, nextIndex, accepting, newConn, misused>>

(* The read callback of the listening event is acceptCallback.             *)
HandleListen ==
  /\ ~ Aborted
  /\ accepting = "no"
  /\ Listen \in batch[Main]
  /\ batch' = [batch EXCEPT ![Main] = @ \ {Listen}]
  /\ accepting' = "accept"
  /\ UNCHANGED <<sock, backlog, conn, owner, nextIndex, newConn, misused>>

(* Loop l takes the event of connection c from its batch.                  *)
Takes(l, c) ==
  /\ ~ Aborted
  /\ l = Main => accepting = "no"
  /\ c \in batch[l]
  /\ batch' = [batch EXCEPT ![l] = @ \ {c}]
  /\ misused' = (misused \/ conn[c].mem = "freed")
  /\ UNCHANGED <<backlog, owner, nextIndex, accepting, newConn>>

(* preConnMsgCallback at the end of the stream, or after an error.         *)
HandleClose(l, c) ==
  /\ Takes(l, c)
  /\ "in" \in conn[c].revents
  /\ sock[c].inbox = 0
  /\ sock[c].eof \/ sock[c].reset
  /\ conn' = [conn EXCEPT ![c] = CloseConnection(Serve(@, l), l)]
  /\ UNCHANGED sock

(* preConnMsgCallback with bytes read.  The codec may want to wait for     *)
(* more, otherwise the message callback runs.                              *)
HandleMessage(l, c) ==
  /\ Takes(l, c)
  /\ "in" \in conn[c].revents
  /\ sock[c].inbox > 0
  /\ sock' = [sock EXCEPT ![c].inbox = 0]
  /\ \E use \in MsgUses \union {"none"} :
       /\ use \in {"send", "reply"} => conn[c].output < MaxOut
       /\ conn' = [conn EXCEPT ![c] = UserCallback(Serve(@, l), l, use)]

(* Event::handle runs the write callback only when the read callback did   *)
(* not run.  write(2) takes some of the output, or fails after a reset.    *)
HandleWrite(l, c) ==
  /\ Takes(l, c)
  /\ "in" \notin conn[c].revents
  /\ "out" \in conn[c].revents
  /\ conn[c].writeCallback
  /\ IF sock[c].reset
     THEN /\ conn' = [conn EXCEPT ![c] = SendNonblock(@, l, -1)]
          /\ UNCHANGED sock
     ELSE \E n \in 1 .. conn[c].output, space \in BOOLEAN :
            /\ n < conn[c].output => ~ space
            /\ conn' = [conn EXCEPT ![c] = SendNonblock(@, l, n)]
            /\ sock' = [sock EXCEPT ![c].space = space]

(* No callback is set for what is left, errors and hang-ups.               *)
HandleNothing(l, c) ==
  /\ Takes(l, c)
  /\ conn[c].revents \intersect {"in", "out"} = {}
  /\ UNCHANGED <<sock, conn>>

(* A timed task of a server without pool uses a connection it knows from   *)
(* the message callback and has not seen closed.                           *)
TimedTask(c) ==
  /\ ~ Aborted
  /\ Worker = <<>>
  /\ accepting = "no"
  /\ conn[c].mem = "live"
  /\ conn[c].data # Null
  /\ conn[c].output < MaxOut
  /\ \E use \in TimerUses :
       conn' = [conn EXCEPT ![c] = UserCallback(@, Main, use)]
  /\ UNCHANGED <<sock, backlog, owner, nextIndex, batch, accepting, newConn, misused>>

-----------------------------------------------------------------------------
Handle(l, c) ==
  \/ HandleClose(l, c)
  \/ HandleMessage(l, c)
  \/ HandleWrite(l, c)
  \/ HandleNothing(l, c)

LoopStep(l) ==
  \/ Poll(l)
  \/ \E c \in Conn : Handle(l, c)

(* accept(2) takes a connection from the backlog.                          *)
Accepts == Accept \/ AcceptZero \/ AcceptAborted

MainStep ==
  \/ Accepts \/ AcceptFails
  \/ SetReadable \/ Established
  \/ HandleListen

Next ==
  \/ \E c \in Conn :
       \/ PeerConnects(c) \/ PeerSends(c) \/ PeerCloses(c)
       \/ PeerReads(c) \/ PeerAborts(c)
       \/ TimedTask(c)
  \/ \E l \in Loop : LoopStep(l)
  \/ MainStep

Spec == Init /\ [][Next]_vars

(***************************************************************************)
(* Fairness.  Each loop has a thread of its own, which runs while it is    *)
(* not blocked in epoll_wait; every event of a batch is handled before the *)
(* next poll.  A peer goes on reading what it is sent.  It need not send,  *)
(* close, reset or connect.  A shortage that makes accept(2) fail passes:  *)
(* tried again and again, it takes a connection at last.                   *)
(***************************************************************************)
Fairness ==
  /\ WF_vars(LoopStep(Main) \/ MainStep)
  /\ SF_vars(Accepts)
  /\ \A l \in Loop \ {Main} : WF_vars(LoopStep(l))
  /\ \A c \in Conn : WF_vars(PeerReads(c))

FairSpec == Spec /\ Fairness

-----------------------------------------------------------------------------
(* Properties.                                                             *)

SockType == [stage : {"none", "open", "dropped", "zero"}, inbox : 0 .. 1, eof : BOOLEAN,
             reset : BOOLEAN, space : BOOLEAN]

ConnType == [mem : {"none", "live", "freed"}, registered : BOOLEAN,
             data : Loop \union {Null},
             interest : SUBSET {"in", "out"}, revents : SUBSET {"in", "out", "err"},
             writeCallback : BOOLEAN, output : 0 .. MaxOut, isWillClose : BOOLEAN,
             closeCalls : 0 .. 1, failed : {"none", "send", "thread", "retrieve"}]

(* Every field holds a value of its type; no connection is reported closed *)
(* twice to the user.                                                      *)
TypeOK ==
  /\ sock \in [Conn -> SockType]
  /\ backlog \in Seq(Conn)
  /\ conn \in [Conn -> ConnType]
  /\ owner \in [Conn -> Loop \union {Null}]
  /\ nextIndex \in Nat
  /\ batch \in [Loop -> SUBSET (Conn \union {Listen})]
  /\ accepting \in {"no", "accept", "arm", "established"}
  /\ newConn \in Conn \union {Null}
  /\ misused \in BOOLEAN

(* No thread touches an Event or a TcpConnection after it was deleted, and *)
(* no loop keeps a deleted Event in the batch it is handling               *)
(* (Epoller.h:29 keeps raw pointers, EventLoop.h:28 walks over them).      *)
NoUseAfterFree ==
  /\ ~ misused
  /\ \A l \in Loop : \A c \in batch[l] \ {Listen} : conn[c].mem = "live"

(* What waits in a write buffer will be written: the event is armed for it *)
(* and has the write callback (TcpConnection.h:77 promises to send all of  *)
(* writeBuffer_).                                                          *)
OutputIsArmed ==
  \A c \in Conn :
    conn[c].mem = "live" /\ conn[c].output > 0
      => "out" \in conn[c].interest /\ conn[c].writeCallback

(* A connection is only deleted with an empty write buffer                 *)
(* (TcpServer.h:198), after the user was told so, once.                    *)
DeletedAfterOutput ==
  \A c \in Conn :
    conn[c].mem = "freed" => conn[c].output = 0 /\ conn[c].closeCalls = 1

(* A connection is closed by the thread that serves it, so the assert that *)
(* TcpServer.h:196 makes of the fixme at :144 never fails.                 *)
ClosedByItsThread == \A c \in Conn : conn[c].failed \notin {"thread", "send"}

(* Whatever errors accept(2) returns while connections wait                *)
(* (TcpServer.h:171), each is accepted at last; only one that its peer has *)
(* reset in the backlog, or the one that got descriptor 0, never is.       *)
IsAccepted ==
  \A c \in Conn : sock[c].stage = "open" ~>
    \/ conn[c].mem # "none"
    \/ sock[c].stage = "dropped" /\ sock[c].reset
    \/ sock[c].stage = "zero" /\ ZeroFree /\ \A d \in Conn \ {c} : sock[d].stage # "zero"
    \/ Aborted

(* A connection that its peer has closed is deleted once what the server   *)
(* had to say was sent, unless accept(2) never gave it a descriptor above  *)
(* 0 (which IsAccepted is about).                                          *)
EofIsClosed ==
  \A c \in Conn : sock[c].eof /\ ~ sock[c].reset ~>
    conn[c].mem = "freed" \/ sock[c].stage # "open" \/ Aborted
=============================================================================
