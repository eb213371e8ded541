------------------------------- MODULE MCParts -------------------------------
(***************************************************************************)
(* Components that share nothing, side by side for TLC: EventLoop, Logger, *)
(* EventLoopPool, SpinLock, Requests and FreeServerClient.  The initial    *)
(* state chooses the part that runs; the other ones stay in an initial     *)
(* state of theirs, and no fairness binds them.                            *)
(***************************************************************************)
EXTENDS EventLoop, MCLogger, EventLoopPool

VARIABLES part,
          lock, spinning,
          model, asked, unsent, buffer, handled, surplus, reading,
          sock, conn, batch, port

CONSTANTS
  Locker,            (* the Thread of SpinLock                             *)
  Known, MaxAsked,   (* of Requests                                        *)
  Served, Asked      (* of FreeServerClient                                *)

(* A connection is made by its peer or by the program.                     *)
ASSUME PartsAssumption == Served \intersect Asked = {}

SpinLock == INSTANCE SpinLock WITH pc <- spinning, Thread <- Locker

Requests == INSTANCE Requests

FreeServerClient == INSTANCE FreeServerClient

lockVars    == <<lock, spinning>>
connVars    == <<sock, conn, batch, port>>
requestVars == <<model, asked, unsent, buffer, handled, surplus, reading>>
otherVars   == <<lockVars, requestVars, connVars>>
partsVars   == <<part, loopVars, loggerVars, vars, otherVars>>

(* Every word a stack slot can hold: 0, a small count, one that does not   *)
(* fit twice, and 2^64 - 1, here EfdMax + 1.                               *)
AnyWord == 0 .. EfdMax + 1

PartsInit ==
  /\ part \in {"EventLoop", "Logger", "Pool", "SpinLock", "Requests", "FreeServerClient"}
  /\ LoopInit
  /\ LoggerInit
  /\ Init
  /\ SpinLock!Init
  /\ Requests!Init
  /\ FreeServerClient!Init
  /\ part # "Requests" => model = "FIXED" /\ asked = <<>>

(* The connections share nothing but the batch: one of them is used, of    *)
(* either kind.                                                            *)
OneUsed ==
  \A c, d \in Served \union Asked :
    sock[c].stage # "none" /\ sock[d].stage # "none" => c = d

(* Three of the messages of Logger are logged.  m1 and m2 are of the same  *)
(* size and may change names: m1 comes first.                              *)
LogsFew ==
  /\ Len(accepted) <= 3
  /\ m2 \in ToSet(accepted) => m1 \in ToSet(accepted)

PartsNext ==
  \/ /\ part = "EventLoop"
     /\ LoopNext
     /\ UNCHANGED <<part, loggerVars, vars, otherVars>>
  \/ /\ part = "Logger"
     /\ LoggerNext
     /\ LogsFew'
     /\ UNCHANGED <<part, loopVars, vars, otherVars>>
  \/ /\ part = "Pool"
     /\ Next
     /\ UNCHANGED <<part, loopVars, loggerVars, otherVars>>
  \/ /\ UNCHANGED <<part, loopVars, loggerVars, vars>>
     /\ \/ /\ part = "SpinLock"
           /\ SpinLock!Next
           /\ UNCHANGED <<requestVars, connVars>>
        \/ /\ part = "Requests"
           /\ Requests!Next
           /\ UNCHANGED <<lockVars, connVars>>
        \/ /\ part = "FreeServerClient"
           /\ FreeServerClient!Next
           /\ OneUsed'
           /\ UNCHANGED <<lockVars, requestVars>>

(* TickingSpec of EventLoop and the fairness of Logger, for the behaviors  *)
(* in which they run; the other parts have no fair step in the beginning.  *)
LoopTicks ==
  /\ WF_loopVars(part = "EventLoop" /\ LoopStep)
  /\ []<>(pc \notin {"callback", "task"})
  /\ \A t \in Thread : WF_loopVars(part = "EventLoop" /\ CallStep(t))
  /\ \A s \in Source : WF_loopVars(part = "EventLoop" /\ SourceReady(s))

LoggerRuns ==
  /\ \A b \in Back : WF_loggerVars(part = "Logger" /\ BackStep(b))
  /\ \A s \in Stopper : WF_loggerVars(WaitClosed(s))

PartsSpec ==
  /\ PartsInit
  /\ [][PartsNext]_partsVars
  /\ LoopTicks
  /\ LoggerRuns
  /\ Fairness
  /\ FreeServerClient!Fairness

-----------------------------------------------------------------------------
(* The properties of the parts.                                            *)

(* SpinLock.h:28, 34: two threads never hold the lock.                     *)
MutualExclusion == SpinLock!MutualExclusion

(* HttpServer.h:93-124: the callback is given what the peer has sent.      *)
HandledAsAsked == Requests!HandledAsAsked

(* HttpServer.h:113-118: it takes a whole message from the buffer, and     *)
(* nothing of the next one.                                                *)
FramingKept == Requests!FramingKept

(* Codec.h:62 and TcpServer.h:161: a complete message is not left waiting, *)
(* but for what arrived together with another one.                         *)
WaitsForSurplus == Requests!WaitsForSurplus

(* TcpConnection.cpp:49: of the end of a connection its user hears once,   *)
(* but for some that never hear.                                           *)
ToldOfEnd == FreeServerClient!ToldOfEnd

(* FreeServerClient.h:57, 64, 173, 180: calls that fail need a lost        *)
(* connection or a program that is careless with it.                       *)
FailsOnlyWhenDown == FreeServerClient!FailsOnlyWhenDown

(* FreeServerClient.h:71, 172: connections are deleted after their end.    *)
EndIsClosed == FreeServerClient!EndIsClosed
=============================================================================
