----------------------------- MODULE MCTcpServer -----------------------------
(***************************************************************************)
(* Two programs with a TcpServer for TLC, one in a run: the one of the     *)
(* constants, with the pool of loops Worker, and `Single', which calls     *)
(* start(0): it has no pool, an established callback and timed tasks.      *)
(***************************************************************************)
EXTENDS TcpServer

CONSTANTS c1, c2

VARIABLE program

NoPool  == <<>>
OneLoop == <<"w1">>
TwoLoops == <<"w1", "w2">>

Single == INSTANCE TcpServer
  WITH Worker <- <<>>, HasEsta <- TRUE, MsgUses <- {"close", "reply"},
       TimerUses <- {"send"}, PeerResets <- FALSE, ZeroFree <- FALSE, MaxOut <- 2

(* A step of the program that runs.                                        *)
Runs(given, single) ==
  \/ program = "given" /\ given
  \/ program = "single" /\ single

ProgramsInit == Init /\ program \in {"given", "single"}

ProgramsNext == Runs(Next, Single!Next) /\ UNCHANGED program

(* The fairness of the program that runs: Fairness or Single!Fairness.     *)
ProgramsFairness ==
  /\ WF_vars(Runs(LoopStep(Main) \/ MainStep, Single!LoopStep(Main) \/ Single!MainStep))
  /\ SF_vars(Runs(Accepts, Single!Accepts))
  /\ \A l \in Loop \ {Main} : WF_vars(program = "given" /\ LoopStep(l))
  /\ \A c \in Conn : WF_vars(PeerReads(c))

ProgramsSpec ==
  ProgramsInit /\ [][ProgramsNext]_<<vars, program>> /\ ProgramsFairness

(* TcpServer.h:155-163: the end of a stream that a worker has read ends in *)
(* a deleted connection.  The timed sends of `Single' may prevent that     *)
(* (see TcpServerLostClose.cfg).                                           *)
EofIsClosedByWorkers == program = "given" => EofIsClosed
=============================================================================
