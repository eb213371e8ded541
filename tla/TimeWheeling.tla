----------------------------- MODULE TimeWheeling -----------------------------
(***************************************************************************)
(* TimerWheelingPolicy (src/src/TimeWheeling.h) with the close and accept  *)
(* of TcpServer or FreeServerClient, as a build with                       *)
(* IDLE_CONNECTIONS_MANAGER has them: the main thread sweeps one bucket of *)
(* the wheel each second and queues the end of a connection to the loop    *)
(* that serves it, which may close the same connection meanwhile.          *)
(*                                                                         *)
(* The wheel never sleeps while time passes, so the clock is kept as the   *)
(* silence of each connection, timeInProcess - lastReceiveTime.  A task of *)
(* a loop only runs when its batch is empty (EventLoop.tla), so that no    *)
(* event of a connection is left to be handled after its deletion.         *)
(***************************************************************************)
EXTENDS Integers, Sequences, FiniteSets

CONSTANTS
  Conn,            (* the connections peers make, each at most once        *)
  MaxIdle          (* MAX_IDLE_SECONDS, which is also the size of the wheel*)

NoOne  == "no one"
Bucket == 0 .. MaxIdle - 1

ASSUME TimeWheelingAssumption ==
  /\ MaxIdle \in Nat /\ MaxIdle >= 2
  /\ NoOne \notin Conn

VARIABLES
  source,          (* the TcpSource that has created the timer of the wheel*)
  wheel,           (* wheeling_: the connections in each bucket            *)
  cur,             (* curBucketIndex_                                      *)
  todo,            (* of the bucket being swept, what is not looked at yet *)
  sweeping,        (* is the main thread in eraseIdleConnections?          *)
  looking,         (* the connection it looks at                           *)
  seen,            (* ... and what it has seen of it                       *)
  conn,            (* the TcpConnection and Event of each connection       *)
  silence,         (* seconds since lastReceiveTime, up to MaxIdle + 1     *)
  queued,          (* the tasks on a connection in tasks_ of its loop      *)
  unheard          (* those whose loop may sleep over the queued task      *)

vars == <<source, wheel, cur, todo, sweeping, looking, seen, conn, silence, queued, unheard>>

(* mem, event: of the two objects; state: state_; closing: the close waits *)
(* for output.  History: told, calls of the close callback; overtaken, it  *)
(* was closed while a task on it was queued, or about to be: its state was *)
(* read for the second time; missed, it was closed between the two reads;  *)
(* twice, its event was deleted twice; dangling, a deleted TcpConnection   *)
(* was used.                                                               *)
NoConn == [mem |-> "none", event |-> "none", state |-> "BLANK", closing |-> FALSE,
           told |-> 0, overtaken |-> FALSE, missed |-> FALSE, twice |-> FALSE,
           dangling |-> FALSE]

Init ==
  /\ source \in {"TcpServer", "FreeServerClient"}
  /\ wheel = [b \in Bucket |-> {}]
  /\ cur = 0
  /\ todo = {}
  /\ sweeping = FALSE
  /\ looking = NoOne
  /\ seen = "nothing"
  /\ conn = [c \in Conn |-> NoConn]
  /\ silence = [c \in Conn |-> 0]
  /\ queued = [c \in Conn |-> <<>>]
  /\ unheard = {}

-----------------------------------------------------------------------------
(* What the methods of a connection r do to it.                            *)

(* A slip: state_ is left alone.                                           *)
DestroyUnmarked(r) ==
  [r EXCEPT !.event = "freed", !.twice = @ \/ r.event = "freed",
            !.dangling = @ \/ r.mem = "freed"]

(* destroy(): the event is taken out of the epoller and deleted.           *)
Destroy(r) ==
  [r EXCEPT !.state = "CLOSED", !.event = "freed",
            !.twice = @ \/ r.event = "freed",
            !.dangling = @ \/ r.mem = "freed"]

(* closeConnection once there is no output: the user is told, the event is *)
(* destroyed, and the object is left to the wheel.                         *)
Close(r, overtaking) ==
  Destroy([r EXCEPT !.told = @ + 1, !.overtaken = @ \/ overtaking])

(* delete: using a deleted object is what must not happen.                 *)
Delete(r) == [r EXCEPT !.mem = "freed", !.dangling = @ \/ r.mem = "freed"]

-----------------------------------------------------------------------------
(* The loop that serves connection c.  After its batch it runs its tasks:  *)
(* an event of c is one that wakes it for them.                            *)

Serves(c) ==
  /\ conn[c].event = "live"
  /\ unheard' = unheard \ {c}
  /\ UNCHANGED <<source, wheel, cur, todo, sweeping, looking, seen, queued>>

(* preConnMsgCallback with bytes read.                                     *)
Receive(c) ==
  /\ Serves(c)
  /\ ~ conn[c].closing
  /\ silence' = [silence EXCEPT ![c] = 0]
  /\ UNCHANGED conn

(* closeConnection at the end of the stream or called by the user, with    *)
(* output that postpones it: the connection is no longer readable.         *)
Postpone(c) ==
  /\ Serves(c)
  /\ ~ conn[c].closing
  /\ conn' = [conn EXCEPT ![c].closing = TRUE]
  /\ UNCHANGED silence

Decided(c) == queued[c] # <<>> \/ (looking = c /\ seen \in {"established", "idle"})

(* closeConnection without output, from preConnMsgCallback or, when it was *)
(* postponed, from sendNonblock.                                           *)
CloseConnection(c) ==
  /\ Serves(c)
  /\ conn' = [conn EXCEPT ![c] = [Close(@, Decided(c)) EXCEPT
                                    !.missed = (looking = c /\ seen = "open")]]
  /\ UNCHANGED silence

(* deleteConn and destoryThenDeleteConn, as tasks of the loop.             *)
RunTask(c) ==
  /\ queued[c] # <<>>
  /\ queued' = [queued EXCEPT ![c] = Tail(@)]
  /\ unheard' = unheard \ {c}
  /\ conn' = [conn EXCEPT ![c] =
                IF Head(queued[c]) = "delete" THEN Delete(@) ELSE Delete(Destroy(@))]
  /\ UNCHANGED <<source, wheel, cur, todo, sweeping, looking, seen, silence>>

-----------------------------------------------------------------------------
(* The main thread.                                                        *)

(* acceptCallback: the connection enters the current bucket.               *)
Accept(c) ==
  /\ ~ sweeping
  /\ conn[c].mem = "none"
  /\ conn' = [conn EXCEPT ![c].mem = "live", ![c].event = "live",
                          ![c].state = "ESTABLISHED"]
  /\ wheel' = [wheel EXCEPT ![cur] = @ \union {c}]
  /\ silence' = [silence EXCEPT ![c] = 0]
  /\ UNCHANGED <<source, cur, todo, sweeping, looking, seen, queued, unheard>>

(* A slip: the bucket of the second before is taken to be the next one.    *)
CheckIndexAhead == (cur + 1) % MaxIdle

(* checkIndex: the bucket that was current a second ago.                   *)
CheckIndex == (cur + MaxIdle - 1) % MaxIdle

Older(n) == IF n > MaxIdle THEN n ELSE n + 1

(* it_value of the timer: FreeServerClient, which also means it to fire    *)
(* each second, sets it to 0, and timerfd_settime(2) leaves it disarmed.   *)
FirstTick == IF source = "TcpServer" THEN 1 ELSE 0

(* The timer of createIdleConnTimer fires: ++timeInProcess, and            *)
(* eraseIdleConnections begins.                                            *)
Tick ==
  /\ FirstTick > 0
  /\ ~ sweeping
  /\ sweeping' = TRUE
  /\ silence' = [c \in Conn |-> Older(silence[c])]
  /\ todo' = wheel[CheckIndex]
  /\ UNCHANGED <<source, wheel, cur, looking, seen, conn, queued, unheard>>

(* runInLoop: the loop is woken, or it had lowered its flag too late, or   *)
(* the word that is written to it wakes nobody (EventLoop.tla).            *)
RunInLoop(c, task) ==
  /\ queued' = [queued EXCEPT ![c] = Append(@, task)]
  /\ unheard' \in {unheard, unheard \union {c}}

(* The main thread is done with c.                                         *)
LookAway(c) ==
  /\ looking' = NoOne
  /\ seen' = "nothing"
  /\ todo' = todo \ {c}

(* The first read of state_: a closed connection is handed to its loop.    *)
Look(c) ==
  /\ looking = NoOne
  /\ c \in todo
  /\ conn' = [conn EXCEPT ![c].dangling = @ \/ conn[c].mem = "freed"]
  /\ IF conn[c].state = "CLOSED"
     THEN RunInLoop(c, "delete") /\ LookAway(c)
     ELSE /\ looking' = c
          /\ seen' = "open"
          /\ UNCHANGED <<queued, unheard, todo>>
  /\ UNCHANGED <<source, wheel, cur, sweeping, silence>>

(* The second read: one that was closed since the first is left out.       *)
LookAgain(c) ==
  /\ looking = c /\ seen = "open"
  /\ IF conn[c].state = "ESTABLISHED"
     THEN seen' = "established" /\ UNCHANGED <<looking, todo>>
     ELSE LookAway(c)
  /\ UNCHANGED <<source, wheel, cur, sweeping, conn, silence, queued, unheard>>

(* Slips: an idle connection goes round again; one that is to be destroyed *)
(* stays in the wheel all the same.                                        *)
TestIdleForgiving(c) ==
  /\ looking = c /\ seen = "established"
  /\ LookAway(c)
  /\ wheel' = [wheel EXCEPT ![cur] = @ \union {c}]
  /\ UNCHANGED <<source, cur, sweeping, conn, silence, queued, unheard>>

TestIdleKeeping(c) ==
  /\ looking = c /\ seen = "established"
  /\ wheel' = [wheel EXCEPT ![cur] = @ \union {c}]
  /\ IF silence[c] > MaxIdle
     THEN seen' = "idle" /\ UNCHANGED <<looking, todo>> ELSE LookAway(c)
  /\ UNCHANGED <<source, cur, sweeping, conn, silence, queued, unheard>>

(* The read of lastReceiveTime: one that is not idle goes to the current   *)
(* bucket.                                                                 *)
TestIdle(c) ==
  /\ looking = c /\ seen = "established"
  /\ IF silence[c] > MaxIdle
     THEN seen' = "idle" /\ UNCHANGED <<looking, todo, wheel>>
     ELSE /\ LookAway(c)
          /\ wheel' = [wheel EXCEPT ![cur] = @ \union {c}]
  /\ UNCHANGED <<source, cur, sweeping, conn, silence, queued, unheard>>

(* An idle connection is handed to its loop.                               *)
QueueDestroy(c) ==
  /\ looking = c /\ seen = "idle"
  /\ LookAway(c)
  /\ RunInLoop(c, "destroy")
  /\ UNCHANGED <<source, wheel, cur, sweeping, conn, silence>>

(* clear(), and timeElasped().                                             *)
EndSweep ==
  /\ sweeping
  /\ todo = {}
  /\ sweeping' = FALSE
  /\ wheel' = [wheel EXCEPT ![CheckIndex] = {}]
  /\ cur' = (cur + 1) % MaxIdle
  /\ UNCHANGED <<source, todo, looking, seen, conn, silence, queued, unheard>>

-----------------------------------------------------------------------------
Sweep ==
  \/ Tick \/ EndSweep
  \/ \E c \in Conn : Look(c) \/ LookAgain(c) \/ TestIdle(c) \/ QueueDestroy(c)

Next ==
  \/ Sweep
  \/ \E c \in Conn :
       \/ Accept(c)
       \/ Receive(c) \/ Postpone(c) \/ CloseConnection(c) \/ RunTask(c)

Spec == Init /\ [][Next]_vars

(***************************************************************************)
(* Fairness.  Time passes and the main thread has a thread of its own; a   *)
(* loop runs the tasks for which it was woken.                             *)
(***************************************************************************)
Fairness ==
  /\ WF_vars(Sweep)
  /\ \A c \in Conn : WF_vars(RunTask(c) /\ c \notin unheard)

FairSpec == Spec /\ Fairness

-----------------------------------------------------------------------------
(* Properties.                                                             *)

ConnType ==
  [mem : {"none", "live", "freed"}, event : {"none", "live", "freed"},
   state : {"BLANK", "ESTABLISHED", "CLOSED"}, closing : BOOLEAN, told : 0 .. 1,
   overtaken : BOOLEAN, missed : BOOLEAN, twice : BOOLEAN, dangling : BOOLEAN]

(* Every variable holds a value of its type; the user is told at most once *)
(* of the end of a connection.                                             *)
TypeOK ==
  /\ source \in {"TcpServer", "FreeServerClient"}
  /\ wheel \in [Bucket -> SUBSET Conn]
  /\ cur \in Bucket
  /\ todo \subseteq Conn
  /\ sweeping \in BOOLEAN
  /\ looking \in Conn \union {NoOne}
  /\ seen \in {"nothing", "open", "established", "idle"}
  /\ conn \in [Conn -> ConnType]
  /\ silence \in [Conn -> 0 .. MaxIdle + 1]
  /\ queued \in [Conn -> Seq({"delete", "destroy"})]
  /\ unheard \subseteq Conn

(* The main thread reads the state of connections that other threads       *)
(* delete (TimeWheeling.h:28, 30), without a lock: none of those it looks  *)
(* at, and none that a loop deletes, was deleted before.                   *)
NeverDangling == \A c \in Conn : ~ conn[c].dangling

(* The comment of TimeWheeling.h:27: what a connection does is left to the *)
(* thread of its loop by runInLoop, to avoid races.  The decision is not:  *)
(* after a close in between, the task deletes the event once more.         *)
NeverTwice == \A c \in Conn : ~ conn[c].twice

(* Only a close after the second read of the state (TimeWheeling.h:30) and *)
(* before the end of the queued task (:61) makes the wheel delete an event *)
(* again: none before, and none while a sweep is at other connections.     *)
TwiceIfOvertaken == \A c \in Conn : conn[c].twice => conn[c].overtaken

(* No connection is overlooked: between two sweeps none in the wheel has   *)
(* been silent for more than MAX_IDLE_SECONDS, however the buckets turned  *)
(* (TimeWheeling.h:33).                                                    *)
FoundInTime ==
  ~ sweeping =>
    \A b \in Bucket : \A c \in wheel[b] : silence[c] <= MaxIdle

(* Where the timer runs, a connection that was closed or stays silent is   *)
(* deleted, even one whose close waits for a peer that does not read.  One *)
(* that was closed between the two reads of its state (TimeWheeling.h:28,  *)
(* 30) is in no bucket any more, and nobody deletes it; one whose task is  *)
(* not heard by its loop (EventLoop.h:55) waits for the next event of it.  *)
IdleIsDeleted ==
  \A c \in Conn :
    conn[c].mem = "live" /\ FirstTick > 0 ~>
      \/ conn[c].mem = "freed" \/ silence[c] = 0
      \/ conn[c].missed \/ c \in unheard
=============================================================================
