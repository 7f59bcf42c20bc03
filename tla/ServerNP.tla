------------------------------ MODULE ServerNP ------------------------------
(***************************************************************************)
(* The server threads of run11/serverNP.cpp, each with the thread that     *)
(* waits for its next connection, and the clients of run11/clientNP.cpp.   *)
(* Line 41 of main, where the server threads were to be started, is not    *)
(* valid C++; the model starts one thread on each pipe.                    *)
(*                                                                         *)
(* The loops test the variable shutdown of line 19, which nobody sets. A   *)
(* shutdown request and the console handler set shutdownFlag of line 25,   *)
(* after which a server thread takes requests and answers none.            *)
(***************************************************************************)
EXTENDS Naturals

CONSTANTS
  Pipes,    \* one per server thread
  Users,    \* processes of clientNP
  NoUser

VARIABLES
  shutdownFlag,
  npServer,    \* where the server thread of each pipe is
  npConnect,   \* its Connect thread
  npPipe,      \* state of each pipe
  npUser,      \* who is at the other end
  npRequest,   \* the request in the pipe
  npResponse,  \* the last line of a response is in the pipe
  npTemp,      \* the temporary file holds the output of a command
  npClient     \* where each client is

npVars == <<shutdownFlag, npServer, npConnect, npPipe, npUser, npRequest, npResponse,
            npTemp, npClient>>

TypeOK ==
  /\ shutdownFlag \in BOOLEAN
  /\ npServer \in [Pipes -> {"begin", "await", "read", "running", "respond"}]
  /\ npConnect \in [Pipes -> {"none", "begun", "waiting", "done"}]
  /\ npPipe \in [Pipes -> {"listening", "connected", "disconnected"}]
  /\ npUser \in [Pipes -> Users \cup {NoUser}]
  /\ npRequest \in [Pipes -> {"none", "command", "shutRequest"}]
  /\ npResponse \in [Pipes -> BOOLEAN]
  /\ npTemp \in [Pipes -> BOOLEAN]
  /\ npClient \in [Users -> {"connect", "prompt", "reading", "left"}]

(* Lines 35 to 43 and 73 to 78: a new pipe can be connected to at once. *)
Init ==
  /\ shutdownFlag = FALSE
  /\ npServer = [p \in Pipes |-> "begin"]
  /\ npConnect = [p \in Pipes |-> "none"]
  /\ npPipe = [p \in Pipes |-> "listening"]
  /\ npUser = [p \in Pipes |-> NoUser]
  /\ npRequest = [p \in Pipes |-> "none"]
  /\ npResponse = [p \in Pipes |-> FALSE]
  /\ npTemp = [p \in Pipes |-> FALSE]
  /\ npClient = [u \in Users |-> "connect"]

-----------------------------------------------------------------------------
(* Server and Connect *)

(* Line 81. *)
BeginConnect(p) ==
  /\ npServer[p] = "begin"
  /\ npConnect' = [npConnect EXCEPT ![p] = "begun"]
  /\ npServer' = [npServer EXCEPT ![p] = "await"]
  /\ UNCHANGED <<shutdownFlag, npPipe, npUser, npRequest, npResponse, npTemp, npClient>>

(* Lines 144 to 148: a disconnected pipe becomes available, and the call   *)
(* returns when a client has connected, before or after.                   *)
ConnectPipe(p) ==
  /\ \/ /\ npConnect[p] = "begun"
        /\ npConnect' = [npConnect EXCEPT ![p] = "waiting"]
        /\ npPipe' = [npPipe EXCEPT ![p] = IF @ = "disconnected" THEN "listening" ELSE @]
     \/ /\ npConnect[p] = "waiting" /\ npPipe[p] = "connected"
        /\ npConnect' = [npConnect EXCEPT ![p] = "done"]
        /\ UNCHANGED npPipe
  /\ UNCHANGED <<shutdownFlag, npServer, npUser, npRequest, npResponse, npTemp, npClient>>

(* Lines 82 to 91. *)
Connected(p) ==
  /\ npServer[p] = "await" /\ npConnect[p] = "done"
  /\ npConnect' = [npConnect EXCEPT ![p] = "none"]
  /\ npServer' = [npServer EXCEPT ![p] = "read"]
  /\ UNCHANGED <<shutdownFlag, npPipe, npUser, npRequest, npResponse, npTemp, npClient>>

(* Lines 93 to 104: the command writes to the temporary file. *)
ReadRequest(p) ==
  /\ npServer[p] = "read" /\ npRequest[p] # "none"
  /\ npRequest' = [npRequest EXCEPT ![p] = "none"]
  /\ shutdownFlag' = (shutdownFlag \/ npRequest[p] = "shutRequest")
  /\ IF shutdownFlag'
     THEN UNCHANGED <<npServer, npTemp>>
     ELSE /\ npServer' = [npServer EXCEPT ![p] = "running"]
          /\ npTemp' = [npTemp EXCEPT ![p] = TRUE]
  /\ UNCHANGED <<npConnect, npPipe, npUser, npResponse, npClient>>

(* Lines 105 and 106. The command may be any program, and may never end. *)
CommandEnds(p) ==
  /\ npServer[p] = "running"
  /\ npServer' = [npServer EXCEPT ![p] = "respond"]
  /\ UNCHANGED <<shutdownFlag, npConnect, npPipe, npUser, npRequest, npResponse, npTemp, npClient>>

(* A bug of that kind: the file is not emptied. *)
RespondOnly(p) ==
  /\ npServer[p] = "respond"
  /\ npResponse' = [npResponse EXCEPT ![p] = npUser[p] # NoUser]
  /\ npServer' = [npServer EXCEPT ![p] = "read"]
  /\ UNCHANGED <<shutdownFlag, npConnect, npPipe, npUser, npRequest, npTemp, npClient>>

(* Lines 108 to 120. The lines of the file are read and not sent (109 to   *)
(* 111); what is sent marks the end of the response. The file is emptied.  *)
Respond(p) ==
  /\ npServer[p] = "respond"
  /\ npResponse' = [npResponse EXCEPT ![p] = npUser[p] # NoUser]
  /\ npTemp' = [npTemp EXCEPT ![p] = FALSE]
  /\ npServer' = [npServer EXCEPT ![p] = "read"]
  /\ UNCHANGED <<shutdownFlag, npConnect, npPipe, npUser, npRequest, npClient>>

(* Line 93 when the client has closed its end, then lines 122 and 123. *)
Disconnect(p) ==
  /\ npServer[p] = "read" /\ npRequest[p] = "none" /\ npUser[p] = NoUser
  /\ npPipe' = [npPipe EXCEPT ![p] = "disconnected"]
  /\ npResponse' = [npResponse EXCEPT ![p] = FALSE]
  /\ npServer' = [npServer EXCEPT ![p] = "begin"]
  /\ UNCHANGED <<shutdownFlag, npConnect, npUser, npRequest, npTemp, npClient>>

Server(p) ==
  \/ BeginConnect(p) \/ ConnectPipe(p) \/ Connected(p)
  \/ ReadRequest(p) \/ Respond(p) \/ Disconnect(p)

(* Lines 150 to 155. *)
Handler ==
  /\ ~shutdownFlag
  /\ shutdownFlag' = TRUE
  /\ UNCHANGED <<npServer, npConnect, npPipe, npUser, npRequest, npResponse, npTemp, npClient>>

-----------------------------------------------------------------------------
(* clientNP *)

(* Lines 24 to 32. *)
Open(u) ==
  /\ npClient[u] = "connect"
  /\ \E p \in {q \in Pipes : npPipe[q] = "listening"} :
       /\ npPipe' = [npPipe EXCEPT ![p] = "connected"]
       /\ npUser' = [npUser EXCEPT ![p] = u]
  /\ npClient' = [npClient EXCEPT ![u] = "prompt"]
  /\ UNCHANGED <<shutdownFlag, npServer, npConnect, npRequest, npResponse, npTemp>>

(* Lines 34 and 35, and 42 to 44 after "$Quit". *)
Prompt(u) ==
  /\ npClient[u] = "prompt"
  /\ \E p \in {q \in Pipes : npUser[q] = u} :
       \/ /\ \E r \in {"command", "shutRequest"} : npRequest' = [npRequest EXCEPT ![p] = r]
          /\ npClient' = [npClient EXCEPT ![u] = "reading"]
          /\ UNCHANGED npUser
       \/ /\ npUser' = [npUser EXCEPT ![p] = NoUser]
          /\ npClient' = [npClient EXCEPT ![u] = "left"]
          /\ UNCHANGED npRequest
  /\ UNCHANGED <<shutdownFlag, npServer, npConnect, npPipe, npResponse, npTemp>>

(* Lines 36 to 40. *)
ReadResponse(u) ==
  /\ npClient[u] = "reading"
  /\ \E p \in {q \in Pipes : npUser[q] = u /\ npResponse[q]} :
       npResponse' = [npResponse EXCEPT ![p] = FALSE]
  /\ npClient' = [npClient EXCEPT ![u] = "prompt"]
  /\ UNCHANGED <<shutdownFlag, npServer, npConnect, npPipe, npUser, npRequest, npTemp>>

(* The client is terminated: its end of the pipe is closed, its request *)
(* stays in the pipe.                                                   *)
Killed(u) ==
  /\ npClient[u] = "reading"
  /\ \E p \in {q \in Pipes : npUser[q] = u} :
       /\ npUser' = [npUser EXCEPT ![p] = NoUser]
       /\ npResponse' = [npResponse EXCEPT ![p] = FALSE]
  /\ npClient' = [npClient EXCEPT ![u] = "left"]
  /\ UNCHANGED <<shutdownFlag, npServer, npConnect, npPipe, npRequest, npTemp>>

Client(u) == Open(u) \/ Prompt(u) \/ ReadResponse(u) \/ Killed(u)

Next ==
  \/ Handler
  \/ \E p \in Pipes : Server(p) \/ CommandEnds(p)
  \/ \E u \in Users : Client(u)

Fairness ==
  /\ \A p \in Pipes : WF_npVars(Server(p))
  /\ \A u \in Users : WF_npVars(ReadResponse(u))

Spec == Init /\ [][Next]_npVars /\ Fairness

-----------------------------------------------------------------------------
Working(p) == npServer[p] \in {"running", "respond"}

(* A pipe is between one client and its server thread, even if the client  *)
(* is killed while a command runs: a response is there only for the client *)
(* that waits for it, the next client finds neither a request nor a        *)
(* response of the one before, and a command never finds the output of an  *)
(* earlier one in the file. Until the server is told to shut down, the     *)
(* request of a client that waits is in one place: in the pipe, with the   *)
(* server thread, or answered.                                             *)
PipeServesOneClient ==
  \A p \in Pipes :
    /\ npResponse[p] => npUser[p] # NoUser /\ npClient[npUser[p]] = "reading"
    /\ npPipe[p] # "connected" => npRequest[p] = "none" /\ ~Working(p) /\ ~npResponse[p]
    /\ npTemp[p] <=> Working(p)
    /\ npUser[p] # NoUser /\ npClient[npUser[p]] = "reading" /\ ~shutdownFlag =>
         \/ npRequest[p] # "none" /\ ~Working(p) /\ ~npResponse[p]
         \/ npRequest[p] = "none" /\ Working(p) /\ ~npResponse[p]
         \/ npRequest[p] = "none" /\ ~Working(p) /\ npResponse[p]

(* A client that waits for a response gets it, as long as the server is    *)
(* not told to shut down; then no server thread answers any more. It takes *)
(* commands that end: the server waits for each without limit (line 105).  *)
Answered ==
  \A u \in Users :
    (\A p \in Pipes : []<>~(npServer[p] = "running" /\ npUser[p] = u)) =>
      (npClient[u] = "reading" ~> (npClient[u] # "reading" \/ shutdownFlag))
=============================================================================
