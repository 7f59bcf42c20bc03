----------------------------- MODULE MCServers -----------------------------
(***************************************************************************)
(* The servers and the service, each with its clients. They are separate   *)
(* programs: a behaviour is of the one chosen at the start, and the others *)
(* stay as they are.                                                       *)
(***************************************************************************)
EXTENDS Naturals, Sequences

CONSTANTS MaxClients, Clients, NoSock, BufLen, MaxMessage, Batches, Pipes, Users, NoUser,
          MaxFailures

ASSUME ServersAssumption ==
  /\ MaxClients \in Nat \ {0} /\ NoSock \notin Clients
  /\ BufLen \in Nat \ {0} /\ MaxMessage \in Nat
  /\ Batches \subseteq Seq(Nat) /\ Batches # {}
  /\ NoUser \notin Users
  /\ MaxFailures \in Nat

VARIABLES
  program,
  shutFlag, listening, thState, sock, server, accept, mainAt, iThread, nRunningThreads,
  client, backlog, inbox, closed,
  toSend, sending, sent, wire, hungUp, staticBuff, message, nRemainRecv, delivered, connected,
  shutdownFlag, npServer, npConnect, npPipe, npUser, npRequest, npResponse, npTemp, npClient,
  registered, serviceMain, handler, hStat, call, overlapped, dwCurrentState, reported, shutDown,
  pauseFlag, failures

(* For the run: up to two messages. With a buffer of four bytes and room   *)
(* for six in a message these are messages of less than half of the        *)
(* buffer, of more, longer than the buffer, and too long to be sent whole. *)
SomeBatches == UNION {[1 .. n -> {0, 1, 2, 5, 7}] : n \in 1 .. 2}

SK == INSTANCE ServerSK
CS == INSTANCE CSMessage
NP == INSTANCE ServerNP
SV == INSTANCE SimpleService

skVars == <<shutFlag, listening, thState, sock, server, accept, mainAt, iThread,
            nRunningThreads, client, backlog, inbox, closed>>
msgVars == <<toSend, sending, sent, wire, hungUp, staticBuff, message, nRemainRecv,
             delivered, connected>>
npVars == <<shutdownFlag, npServer, npConnect, npPipe, npUser, npRequest, npResponse,
            npTemp, npClient>>
svVars == <<registered, serviceMain, handler, hStat, call, overlapped, dwCurrentState,
            reported, shutDown, pauseFlag, failures>>

vars == <<program, skVars, msgVars, npVars, svVars>>

Init ==
  /\ program \in {"serverSK", "CSMessage", "serverNP", "SimpleService"}
  /\ SK!Init /\ CS!Init /\ NP!Init /\ SV!Init
  /\ program # "CSMessage" => toSend = CHOOSE b \in Batches : TRUE
  /\ program # "SimpleService" => registered = "absent"

InSK == program = "serverSK" /\ UNCHANGED <<program, msgVars, npVars, svVars>>
InCS == program = "CSMessage" /\ UNCHANGED <<program, skVars, npVars, svVars>>
InNP == program = "serverNP" /\ UNCHANGED <<program, skVars, msgVars, svVars>>
InSV == program = "SimpleService" /\ UNCHANGED <<program, skVars, msgVars, npVars>>

Next ==
  \/ InSK /\ SK!Next
  \/ InCS /\ CS!Next
  \/ InNP /\ NP!Next
  \/ InSV /\ SV!Next

(* The fairness of each module, for the behaviours of its program; one     *)
(* condition covers actions that are taken finitely often.                 *)
FairnessSK ==
  /\ WF_skVars(program = "serverSK" /\ SK!Main)
  /\ WF_skVars(program = "serverSK" /\ SK!Serving)
  /\ SF_skVars(program = "serverSK" /\ SK!Entering)

FairnessNP ==
  /\ \A p \in Pipes : WF_npVars(program = "serverNP" /\ NP!Server(p))
  /\ \A u \in Users : WF_npVars(program = "serverNP" /\ NP!ReadResponse(u))

FairnessSV ==
  /\ WF_svVars(program = "SimpleService" /\ SV!ServiceMain)
  /\ WF_svVars(program = "SimpleService" /\ SV!Dispatcher)

Spec == Init /\ [][Next]_vars /\ FairnessSK /\ FairnessNP /\ FairnessSV

-----------------------------------------------------------------------------
(* Every variable of the servers stays within its type. *)
TypeOK == SK!TypeOK /\ CS!TypeOK /\ NP!TypeOK /\ SV!TypeOK

(* A slot of serverSK gets a client or a server thread only when no thread *)
(* serves it.                                                              *)
SlotServesOneClient == SK!SlotServesOneClient

(* When main of serverSK stops counting, only the server thread that the   *)
(* last accept thread started may still serve.                             *)
DrainLeavesLateAccept == SK!DrainLeavesLateAccept

(* SendReceiveSKHA: the stream of bytes is kept however it is cut, and     *)
(* short messages are returned whole.                                      *)
MessagesFramed == CS!StreamIntact /\ CS!ShortMessagesWhole

(* A pipe of serverNP holds only what its own client waits for. *)
PipeServesOneClient == NP!PipeServesOneClient

(* The service manager knows the state of SimpleService between calls of   *)
(* UpdateStatus that did not overlap.                                      *)
StatusKnown == SV!StatusKnown

(* A request to stop ends each server, a request for a response gets it,   *)
(* and the service manager learns the state of a running service, but for  *)
(* the exceptions that each module names.                                  *)
ServersSettle ==
  SK!ServerEnds /\ NP!Answered /\ SV!StatusCatchesUp /\ SV!StopEndsService
=============================================================================
