-------------------------------- MODULE Logger --------------------------------
(***************************************************************************)
(* The asynchronous Logger (src/src/Logger.h, src/src/Sources/Logger.cpp): *)
(* the threads that log, the back threads that start() creates, and the    *)
(* threads that call stop().                                               *)
(*                                                                         *)
(* What happens between taking and releasing mutex_ is one step, unless    *)
(* the thread keeps mutex_ while it writes the file.  isInCollectLog_ is   *)
(* up only within such a step, so log() never sees it up and always        *)
(* notifies cond_; the back thread's wait on cond_ also ends by itself     *)
(* after MIN_SYNC_TIME, so the notification needs no state.  The messages  *)
(* are those that pass the level.                                          *)
(***************************************************************************)
EXTENDS Integers, SequencesExt

CONSTANTS
  Msg,             (* the messages, each logged at most once               *)
  Size,            (* their sizes in bytes, with header                    *)
  Back,            (* the back threads start() may create                  *)
  FirstBack,       (* the one created by the constructor                   *)
  Stopper,         (* the threads that call stop(), once each              *)
  BufferSize,      (* BUFFER_SIZE                                          *)
  EmptysInit,      (* EMPTYS_INIT_SIZE                                     *)
  EmptysMax,       (* EMPTYS_MAX_SIZE                                      *)
  SizeMax          (* the largest size_t                                   *)

Nobody == "nobody"

ASSUME LoggerAssumption ==
  /\ Size \in [Msg -> Nat \ {0}]
  /\ FirstBack \in Back
  /\ Nobody \notin Back
  /\ BufferSize \in Nat \ {0}
  /\ EmptysInit \in 0 .. EmptysMax
  /\ EmptysMax \in Nat
  /\ SizeMax \in Nat
  /\ BufferSize < SizeMax

VARIABLES
  running,         (* running, the atomic_flag                             *)
  mutex,           (* who keeps mutex_ across steps                        *)
  currentBuffer,   (* currentBuffer_: <<its messages>>, <<>> if it is null *)
  buffers,         (* buffers_                                             *)
  emptys,          (* how many buffers emptys_ holds                       *)
  full,            (* the buffers a back thread has still to write         *)
  written,         (* the file                                             *)
  accepted,        (* history: the messages in the order of their log()    *)
  backPc,          (* where each back thread is in backThread()            *)
  stopping         (* where each stopper is in stop()                      *)

loggerVars == <<running, mutex, currentBuffer, buffers, emptys, full, written,
               accepted, backPc, stopping>>

LoggerInit ==
  /\ running = TRUE
  /\ mutex = Nobody
  /\ currentBuffer = << <<>> >>
  /\ buffers = <<>>
  /\ emptys = EmptysInit
  /\ full = [b \in Back |-> <<>>]
  /\ written = <<>>
  /\ accepted = <<>>
  /\ backPc = [b \in Back |-> IF b = FirstBack THEN "test" ELSE "none"]
  /\ stopping = [s \in Stopper |-> "no"]

-----------------------------------------------------------------------------
(* log().                                                                  *)

(* The size of a buffer.                                                   *)
Bytes(buffer) ==
  LET upTo[i \in 0 .. Len(buffer)] ==
        IF i = 0 THEN 0 ELSE upTo[i - 1] + Size[buffer[i]]
  IN  upTo[Len(buffer)]

(* A slip: the buffer is exchanged only when it is too full already.       *)
MustExchangeLate(m) == currentBuffer = <<>> \/ Bytes(currentBuffer[1]) > BufferSize

(* BUFFER_SIZE - currentBuffer_->size() is a size_t: it wraps once the     *)
(* buffer holds more than BUFFER_SIZE, and then looks like ample room.     *)
MustExchange(m) ==
  \/ currentBuffer = <<>>
  \/ (BufferSize - Bytes(currentBuffer[1])) % (SizeMax + 1) < Size[m]

(* A slip: the current buffer is put before the full ones.                 *)
CurrentFirst == currentBuffer \o buffers

(* buffers_ after currentBuffer_ was moved to it, if there is one.         *)
WithCurrent == buffers \o currentBuffer

Log(m) ==
  /\ mutex = Nobody
  /\ m \notin ToSet(accepted)
  /\ accepted' = Append(accepted, m)
  /\ IF MustExchange(m)
     THEN /\ buffers' = WithCurrent
          /\ currentBuffer' = << <<m>> >>
          /\ emptys' = IF emptys = 0 THEN 0 ELSE emptys - 1
     ELSE /\ currentBuffer' = << Append(currentBuffer[1], m) >>
          /\ UNCHANGED <<buffers, emptys>>
  /\ UNCHANGED <<running, mutex, full, written, backPc, stopping>>

-----------------------------------------------------------------------------
(* start() and backThread().                                               *)

GoTo(b, label) == backPc' = [backPc EXCEPT ![b] = label]

Start(b) ==
  /\ backPc[b] = "none"
  /\ running' = TRUE
  /\ GoTo(b, "test")
  /\ UNCHANGED <<mutex, currentBuffer, buffers, emptys, full, written, accepted, stopping>>

(* while (running.test_and_set()): the flag is up afterwards in any case.  *)
TestRunning(b) ==
  /\ backPc[b] = "test"
  /\ running' = TRUE
  /\ GoTo(b, IF running THEN "lock" ELSE "drain")
  /\ UNCHANGED <<mutex, currentBuffer, buffers, emptys, full, written, accepted, stopping>>

(* Nothing is to be collected: cond_.wait_for gives mutex_ back.           *)
WaitForBuffers(b) ==
  /\ backPc[b] = "lock"
  /\ mutex = Nobody
  /\ buffers = <<>>
  /\ GoTo(b, "wait")
  /\ UNCHANGED <<running, mutex, currentBuffer, buffers, emptys, full, written,
                 accepted, stopping>>

(* A slip: the current buffer is dropped unless a full one is collected.   *)
CollectedFullOnly == IF buffers = <<>> THEN <<>> ELSE WithCurrent

Collected == WithCurrent

Refilled == IF emptys + EmptysInit < EmptysMax THEN emptys + EmptysInit ELSE EmptysMax

(* A slip: buffers_ is copied, not swapped.                                *)
CollectKeepsBuffers(b) ==
  /\ backPc[b] = "wait" \/ (backPc[b] = "lock" /\ buffers # <<>>)
  /\ mutex = Nobody
  /\ full' = [full EXCEPT ![b] = Collected]
  /\ buffers' = WithCurrent
  /\ currentBuffer' = <<>>
  /\ emptys' = Refilled
  /\ GoTo(b, "write")
  /\ UNCHANGED <<running, mutex, written, accepted, stopping>>

(* The rest of the critical section, at once or after cond_.wait_for.      *)
Collect(b) ==
  /\ backPc[b] = "wait" \/ (backPc[b] = "lock" /\ buffers # <<>>)
  /\ mutex = Nobody
  /\ full' = [full EXCEPT ![b] = Collected]
  /\ buffers' = <<>>
  /\ currentBuffer' = <<>>
  /\ emptys' = Refilled
  /\ GoTo(b, "write")
  /\ UNCHANGED <<running, mutex, written, accepted, stopping>>

(* One write(2) per buffer.                                                *)
WriteBuffer(b) ==
  /\ backPc[b] \in {"write", "rescue"}
  /\ full[b] # <<>>
  /\ written' = written \o Head(full[b])
  /\ full' = [full EXCEPT ![b] = Tail(@)]
  /\ UNCHANGED <<running, mutex, currentBuffer, buffers, emptys, accepted, backPc, stopping>>

(* fsync, and back to the test of running.                                 *)
Written(b) ==
  /\ backPc[b] = "write"
  /\ full[b] = <<>>
  /\ GoTo(b, "test")
  /\ UNCHANGED <<running, mutex, currentBuffer, buffers, emptys, full, written,
                 accepted, stopping>>

(* A slip: what is still in currentBuffer_ is forgotten.                   *)
DrainForgetsCurrent(b) ==
  /\ backPc[b] = "drain"
  /\ mutex = Nobody
  /\ mutex' = b
  /\ full' = [full EXCEPT ![b] = buffers]
  /\ GoTo(b, "rescue")
  /\ UNCHANGED <<running, currentBuffer, buffers, emptys, written, accepted, stopping>>

(* After the loop mutex_ is taken and kept; buffers_ is written, but not   *)
(* emptied.                                                                *)
Drain(b) ==
  /\ backPc[b] = "drain"
  /\ mutex = Nobody
  /\ mutex' = b
  /\ buffers' = WithCurrent
  /\ currentBuffer' = <<>>
  /\ full' = [full EXCEPT ![b] = buffers']
  /\ GoTo(b, "rescue")
  /\ UNCHANGED <<running, emptys, written, accepted, stopping>>

(* The guard of the rescue is still alive when mutex_ is locked for the    *)
(* notification: the thread waits for the mutex it keeps, and notify_one   *)
(* behind that lock is never reached.                                      *)
LockAgain(b) ==
  /\ backPc[b] = "rescue"
  /\ full[b] = <<>>
  /\ GoTo(b, "blocked")
  /\ UNCHANGED <<running, mutex, currentBuffer, buffers, emptys, full, written,
                 accepted, stopping>>

-----------------------------------------------------------------------------
(* stop().                                                                 *)

ClearRunning(s) ==
  /\ stopping[s] = "no"
  /\ running' = FALSE
  /\ stopping' = [stopping EXCEPT ![s] = "lock"]
  /\ UNCHANGED <<mutex, currentBuffer, buffers, emptys, full, written, accepted, backPc>>

WaitClosed(s) ==
  /\ stopping[s] = "lock"
  /\ mutex = Nobody
  /\ stopping' = [stopping EXCEPT ![s] = "wait"]
  /\ UNCHANGED <<running, mutex, currentBuffer, buffers, emptys, full, written,
                 accepted, backPc>>

(* The wait has no predicate: a spurious wake-up ends stop().              *)
WakeSpuriously(s) ==
  /\ stopping[s] = "wait"
  /\ mutex = Nobody
  /\ stopping' = [stopping EXCEPT ![s] = "returned"]
  /\ UNCHANGED <<running, mutex, currentBuffer, buffers, emptys, full, written,
                 accepted, backPc>>

-----------------------------------------------------------------------------
BackStep(b) ==
  \/ TestRunning(b) \/ WaitForBuffers(b) \/ Collect(b)
  \/ WriteBuffer(b) \/ Written(b) \/ Drain(b) \/ LockAgain(b)

LoggerNext ==
  \/ \E m \in Msg : Log(m)
  \/ \E b \in Back : Start(b) \/ BackStep(b)
  \/ \E s \in Stopper : ClearRunning(s) \/ WaitClosed(s) \/ WakeSpuriously(s)

LoggerSpec == LoggerInit /\ [][LoggerNext]_loggerVars

(***************************************************************************)
(* Fairness.  A back thread keeps running, its wait on cond_ times out,    *)
(* and mutex_ is free again after each log(); a stop() that has begun goes *)
(* on.  Nobody has to log, start or stop, and no wake-up is spurious.      *)
(***************************************************************************)
LoggerFairness ==
  /\ \A b \in Back : WF_loggerVars(BackStep(b))
  /\ \A s \in Stopper : WF_loggerVars(WaitClosed(s))

LoggerFairSpec == LoggerSpec /\ LoggerFairness

-----------------------------------------------------------------------------
(* Properties.                                                             *)

(* Every field holds a value of its type; emptys_ stays within its limit.  *)
LoggerTypeOK ==
  /\ running \in BOOLEAN
  /\ mutex \in Back \union {Nobody}
  /\ currentBuffer \in Seq(Seq(Msg)) /\ Len(currentBuffer) <= 1
  /\ buffers \in Seq(Seq(Msg))
  /\ emptys \in 0 .. EmptysMax
  /\ full \in [Back -> Seq(Seq(Msg))]
  /\ written \in Seq(Msg)
  /\ accepted \in Seq(Msg)
  /\ backPc \in [Back -> {"none", "test", "lock", "wait", "write", "drain",
                      "rescue", "blocked"}]
  /\ stopping \in [Stopper -> {"no", "lock", "wait", "returned"}]

(* The messages in a sequence of buffers.                                  *)
Held(bs) == UNION {ToSet(bs[i]) : i \in DOMAIN bs}

(* What is accepted and not written: in the current buffer, in buffers_    *)
(* until a back thread has taken or is writing it, or in its hands.        *)
Pending ==
  Held(currentBuffer)
    \union (IF mutex = Nobody THEN Held(buffers) ELSE {})
    \union UNION {Held(full[b]) : b \in Back}

File == INSTANCE LogFile WITH pending <- Pending, written <- written

(* No message is lost or written twice between log() and the file, however *)
(* log(), the exchange of buffers, the back threads and stop() interleave. *)
ImplementsLogFile == File!Spec

(* As long as start() was only called by the constructor the file has the  *)
(* messages in the order in which they were logged.                        *)
WrittenInOrder ==
  (\A b \in Back \ {FirstBack} : backPc[b] = "none") => IsPrefix(written, accepted)

(* Logger.cpp:128 says the last part of backThread rescues what was logged *)
(* between the last collection and stop(): a back thread that has left it  *)
(* behind leaves nothing but what another one is writing.                  *)
NothingLeftBehind ==
  \A b \in Back :
    backPc[b] = "blocked" => Pending \subseteq UNION {Held(full[o]) : o \in Back \ {b}}

(* A buffer that is to be written has no more than BUFFER_SIZE bytes,      *)
(* unless one of its messages is longer than that.                         *)
BuffersFit ==
  \A i \in DOMAIN buffers :
    (\A m \in ToSet(buffers[i]) : Size[m] <= BufferSize) => Bytes(buffers[i]) <= BufferSize

(* What was logged is written, within the time of a wait on cond_.         *)
IsWritten ==
  \A m \in Msg : m \in ToSet(accepted) ~> m \in ToSet(written)

(* stop() returns, as the destructor and tests/logger_test.cpp:21 rely on. *)
StopReturns ==
  \A s \in Stopper : stopping[s] = "lock" ~> stopping[s] = "returned"
=============================================================================
