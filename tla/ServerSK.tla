------------------------------ MODULE ServerSK ------------------------------
(***************************************************************************)
(* The socket server run12/serverSK.cpp with the clients run12/clientSK.cpp.*)
(* main looks for a free slot, starts an accept thread for it and waits;   *)
(* the accept thread starts a server thread, which serves one client until *)
(* the client leaves or the server shuts down. Each slot has a critical    *)
(* section. Only main waits while it holds one, so a section is free for   *)
(* the other threads unless main is at a point of Holding in that slot; what *)
(* they do in a section is one step.                                       *)
(*                                                                         *)
(* Line 63 is a fragment of line 70 and is read as absent. The body of the *)
(* server loop sends no response (lines 205 to 209 are comments).          *)
(***************************************************************************)
EXTENDS Naturals, Sequences

CONSTANTS
  MaxClients,  \* MAX_CLIENTS, the number of slots
  Clients,     \* processes of clientSK
  NoSock       \* a slot's socket when it has none

Slots == 0 .. MaxClients - 1

VARIABLES
  shutFlag,     \* a console event was handled
  listening,    \* SrvSock is open
  thState,      \* the state of each slot
  sock,         \* the socket of each slot: its client or NoSock
  server,       \* where the server thread of each slot is, "none" without a handle
  accept,       \* where the accept thread is and the slot it fills
  mainAt,       \* where main is
  iThread,      \* the slot main looks at
  nRunningThreads,
  client,       \* where each client is
  backlog,      \* connections made and not yet accepted
  inbox,        \* what each client sent and the server has not received
  closed        \* clients whose connection the server has closed

slots == <<thState, sock, server>>
main == <<mainAt, iThread, nRunningThreads>>
clients == <<client, backlog, inbox, closed>>
skVars == <<shutFlag, listening, slots, accept, main, clients>>

Holding == {"joining", "first", "second"}
CsFree(s) == mainAt \notin Holding \/ iThread # s

NoAccept == [at |-> "none", slot |-> 0]

TypeOK ==
  /\ shutFlag \in BOOLEAN /\ listening \in BOOLEAN
  /\ thState \in [Slots -> {"FREE", "STOPPED", "RUNNING", "INVALID"}]
  /\ sock \in [Slots -> Clients \cup {NoSock}]
  /\ server \in [Slots -> {"none", "loop", "receive", "close", "stop", "return", "ended"}]
  /\ accept \in [at : {"none", "accept", "lock", "ended"}, slot : Slots]
  /\ mainAt \in Holding \cup {"search", "spawn", "wait", "drain", "shutdown", "last", "exited"}
  /\ iThread \in Slots
  /\ nRunningThreads \in 0 .. MaxClients
  /\ client \in [Clients -> {"start", "prompt", "await", "left"}]
  /\ backlog \in Seq(Clients)
  /\ inbox \in [Clients -> Seq({"command", "$Quit"})]
  /\ closed \subseteq Clients

Init ==
  /\ shutFlag = FALSE /\ listening = TRUE
  /\ thState = [s \in Slots |-> "FREE"]
  /\ sock = [s \in Slots |-> NoSock]
  /\ server = [s \in Slots |-> "none"]
  /\ accept = NoAccept
  /\ mainAt = "search" /\ iThread = 0 /\ nRunningThreads = 0
  /\ client = [c \in Clients |-> "start"]
  /\ backlog = <<>>
  /\ inbox = [c \in Clients |-> <<>>]
  /\ closed = {}

Running == mainAt # "exited"

-----------------------------------------------------------------------------
(* main: a free slot *)

ToDrain ==
  /\ mainAt' = "drain" /\ iThread' = 0 /\ nRunningThreads' = 0

(* Line 76 assigns to iThread twice without order. iThread is 0 or 1 and   *)
(* MAX_CLIENTS = 100 is even, so the conjunction is 0 and the increment is *)
(* lost or not, depending on the compiler.                                 *)
NextSlot == iThread' \in {0, 1} \cap Slots

(* A bug of that kind: a stopped slot is taken as a free one. *)
SearchUnjoined ==
  /\ mainAt = "search"
  /\ \/ shutFlag /\ ToDrain
     \/ /\ ~shutFlag
        /\ \/ thState[iThread] \in {"FREE", "STOPPED"} /\ mainAt' = "spawn" /\ UNCHANGED iThread
           \/ thState[iThread] = "RUNNING" /\ NextSlot /\ UNCHANGED mainAt
        /\ UNCHANGED nRunningThreads
  /\ UNCHANGED <<shutFlag, listening, slots, accept, clients>>

(* Lines 58 to 81 for one slot, up to the wait of line 65. *)
Search ==
  /\ mainAt = "search"
  /\ \/ shutFlag /\ ToDrain
     \/ /\ ~shutFlag
        /\ \/ thState[iThread] = "FREE" /\ mainAt' = "spawn" /\ UNCHANGED iThread
           \/ thState[iThread] = "STOPPED" /\ mainAt' = "joining" /\ UNCHANGED iThread
           \/ thState[iThread] = "RUNNING" /\ NextSlot /\ UNCHANGED mainAt
        /\ UNCHANGED nRunningThreads
  /\ UNCHANGED <<shutFlag, listening, slots, accept, clients>>

(* Lines 65 to 70, with the critical section held. *)
JoinStopped ==
  /\ mainAt = "joining"
  /\ server[iThread] = "ended"
  /\ server' = [server EXCEPT ![iThread] = "none"]
  /\ thState' = [thState EXCEPT ![iThread] = "FREE"]
  /\ mainAt' = "spawn"
  /\ UNCHANGED <<shutFlag, listening, sock, accept, iThread, nRunningThreads, clients>>

(* Lines 81 and 83. *)
Spawn ==
  /\ mainAt = "spawn"
  /\ \/ shutFlag /\ ToDrain /\ UNCHANGED accept
     \/ /\ ~shutFlag
        /\ accept' = [at |-> "accept", slot |-> iThread]
        /\ mainAt' = "wait"
        /\ UNCHANGED <<iThread, nRunningThreads>>
  /\ UNCHANGED <<shutFlag, listening, slots, clients>>

(* Lines 84 to 93, and 59. The handle is kept when shutFlag is set. *)
WaitAccept ==
  /\ mainAt = "wait"
  /\ \/ shutFlag /\ ToDrain /\ UNCHANGED accept
     \/ /\ ~shutFlag /\ accept.at = "ended"
        /\ accept' = NoAccept
        /\ mainAt' = "search" /\ iThread' = 0
        /\ UNCHANGED nRunningThreads
  /\ UNCHANGED <<shutFlag, listening, slots, clients>>

-----------------------------------------------------------------------------
(* main: shutdown *)

(* A bug of that kind: the count of the round before is kept. *)
VisitedAgain(running) ==
  IF iThread < MaxClients - 1
  THEN mainAt' = "drain" /\ iThread' = iThread + 1 /\ nRunningThreads' = running
  ELSE /\ mainAt' = IF running = 0 THEN "shutdown" ELSE "drain"
       /\ iThread' = 0 /\ nRunningThreads' = running

(* Line 100 for the next slot, or lines 122 and 99. *)
Visited(running) ==
  IF iThread < MaxClients - 1
  THEN mainAt' = "drain" /\ iThread' = iThread + 1 /\ nRunningThreads' = running
  ELSE IF running = 0
       THEN mainAt' = "shutdown" /\ nRunningThreads' = running /\ UNCHANGED iThread
       ELSE ToDrain

(* Lines 101 to 103. *)
DrainSlot ==
  /\ mainAt = "drain"
  /\ IF thState[iThread] \in {"RUNNING", "STOPPED"}
     THEN mainAt' = "first" /\ UNCHANGED <<iThread, nRunningThreads>>
     ELSE Visited(nRunningThreads)
  /\ UNCHANGED <<shutFlag, listening, slots, accept, clients>>

(* Lines 104 to 107. *)
DrainJoin ==
  /\ mainAt = "first"
  /\ server[iThread] = "ended"
  /\ server' = [server EXCEPT ![iThread] = "none"]
  /\ thState' = [thState EXCEPT ![iThread] = "INVALID"]
  /\ Visited(nRunningThreads)
  /\ UNCHANGED <<shutFlag, listening, sock, accept, clients>>

(* A bug of that kind: a thread that is still running is not counted. *)
DrainTimeoutUncounted ==
  /\ \/ /\ mainAt = "first" /\ server[iThread] # "ended"
        /\ mainAt' = "second" /\ UNCHANGED <<iThread, nRunningThreads>>
     \/ /\ mainAt = "second"
        /\ Visited(nRunningThreads)
  /\ UNCHANGED <<shutFlag, listening, slots, accept, clients>>

(* Ten seconds pass at line 104, and again at line 111; a thread that ends *)
(* during the second wait is neither joined nor counted.                   *)
DrainTimeout ==
  /\ \/ /\ mainAt = "first" /\ server[iThread] # "ended"
        /\ mainAt' = "second" /\ UNCHANGED <<iThread, nRunningThreads>>
     \/ /\ mainAt = "second"
        /\ Visited(nRunningThreads + (IF server[iThread] = "ended" THEN 0 ELSE 1))
  /\ UNCHANGED <<shutFlag, listening, slots, accept, clients>>

(* Lines 124 to 127. Connections not accepted are reset. *)
CloseListener ==
  /\ mainAt = "shutdown"
  /\ listening' = FALSE
  /\ backlog' = <<>>
  /\ closed' = closed \cup {c \in Clients : \E i \in DOMAIN backlog : backlog[i] = c}
  /\ mainAt' = "last"
  /\ UNCHANGED <<shutFlag, slots, accept, iThread, nRunningThreads, client, inbox>>

(* Lines 128 to 131; the process ends with its threads and connections. *)
Exit ==
  /\ mainAt = "last"
  /\ accept.at \in {"none", "ended"}
  /\ mainAt' = "exited"
  /\ closed' = Clients
  /\ UNCHANGED <<shutFlag, listening, slots, accept, iThread, nRunningThreads,
                 client, backlog, inbox>>

Handler ==
  /\ Running /\ ~shutFlag
  /\ shutFlag' = TRUE
  /\ UNCHANGED <<listening, slots, accept, main, clients>>

-----------------------------------------------------------------------------
(* AcceptThread *)

(* Line 139: the next connection, or a failure when the socket is closed. *)
Accept ==
  /\ Running /\ accept.at = "accept"
  /\ \/ /\ listening /\ backlog # <<>>
        /\ sock' = [sock EXCEPT ![accept.slot] = Head(backlog)]
        /\ backlog' = Tail(backlog)
     \/ /\ ~listening
        /\ sock' = [sock EXCEPT ![accept.slot] = NoSock]
        /\ UNCHANGED backlog
  /\ accept' = [accept EXCEPT !.at = "lock"]
  /\ UNCHANGED <<shutFlag, listening, thState, server, main, client, inbox, closed>>

(* Lines 141 to 149. *)
BeginServer ==
  /\ Running /\ accept.at = "lock"
  /\ CsFree(accept.slot)
  /\ server' = [server EXCEPT ![accept.slot] = "loop"]
  /\ thState' = [thState EXCEPT ![accept.slot] = "RUNNING"]
  /\ accept' = [accept EXCEPT !.at = "ended"]
  /\ UNCHANGED <<shutFlag, listening, sock, main, clients>>

-----------------------------------------------------------------------------
(* Server *)

(* Line 180. *)
LoopTest(s) ==
  /\ Running /\ server[s] = "loop"
  /\ server' = [server EXCEPT ![s] = IF shutFlag THEN "close" ELSE "receive"]
  /\ UNCHANGED <<shutFlag, listening, thState, sock, accept, main, clients>>

(* Lines 182 to 208: a message, which ends the loop when the server shuts  *)
(* down, or the end of the connection. The server compares with "$Quid",   *)
(* so a client's "$Quit" is a command like any other.                      *)
Receive(s) ==
  LET c == sock[s] IN
  /\ Running /\ server[s] = "receive"
  /\ \/ /\ c # NoSock /\ inbox[c] # <<>>
        /\ inbox' = [inbox EXCEPT ![c] = Tail(@)]
        /\ server' = [server EXCEPT ![s] = IF shutFlag THEN "close" ELSE "loop"]
     \/ /\ c = NoSock \/ (inbox[c] = <<>> /\ client[c] = "left")
        /\ server' = [server EXCEPT ![s] = "close"]
        /\ UNCHANGED inbox
  /\ UNCHANGED <<shutFlag, listening, thState, sock, accept, main, client, backlog, closed>>

(* Line 214. *)
CloseConnection(s) ==
  /\ Running /\ server[s] = "close"
  /\ closed' = closed \cup ({sock[s]} \ {NoSock})
  /\ server' = [server EXCEPT ![s] = "stop"]
  /\ UNCHANGED <<shutFlag, listening, thState, sock, accept, main, client, backlog, inbox>>

(* Lines 215 to 221. *)
Stop(s) ==
  /\ Running /\ server[s] = "stop"
  /\ CsFree(s)
  /\ thState' = [thState EXCEPT ![s] = "STOPPED"]
  /\ server' = [server EXCEPT ![s] = "return"]
  /\ UNCHANGED <<shutFlag, listening, sock, accept, main, clients>>

(* Line 222. *)
Return(s) ==
  /\ Running /\ server[s] = "return"
  /\ server' = [server EXCEPT ![s] = "ended"]
  /\ UNCHANGED <<shutFlag, listening, thState, sock, accept, main, clients>>

Server(s) ==
  \/ LoopTest(s) \/ Receive(s) \/ CloseConnection(s) \/ Stop(s) \/ Return(s)

-----------------------------------------------------------------------------
(* clientSK *)

(* Lines 61 to 69: the connection waits in the backlog, or is refused. *)
Connect(c) ==
  /\ client[c] = "start"
  /\ client' = [client EXCEPT ![c] = "prompt"]
  /\ \/ listening /\ backlog' = Append(backlog, c) /\ UNCHANGED closed
     \/ ~listening /\ closed' = closed \cup {c} /\ UNCHANGED backlog
  /\ UNCHANGED <<shutFlag, listening, slots, accept, main, inbox>>

(* Lines 71 to 80. What is sent on a closed connection is lost. *)
Command(c) ==
  /\ client[c] = "prompt"
  /\ \E record \in {"command", "$Quit"} :
       /\ client' = [client EXCEPT ![c] = IF record = "$Quit" THEN "left" ELSE "await"]
       /\ inbox' = IF c \in closed THEN inbox ELSE [inbox EXCEPT ![c] = Append(@, record)]
  /\ UNCHANGED <<shutFlag, listening, slots, accept, main, backlog, closed>>

(* Lines 20 to 45 and 76: no response comes, so the call ends with the     *)
(* connection.                                                             *)
ReceiveResponse(c) ==
  /\ client[c] = "await"
  /\ c \in closed
  /\ client' = [client EXCEPT ![c] = "prompt"]
  /\ UNCHANGED <<shutFlag, listening, slots, accept, main, backlog, inbox, closed>>

Client(c) == Connect(c) \/ Command(c) \/ ReceiveResponse(c)

-----------------------------------------------------------------------------
Main ==
  \/ Search \/ JoinStopped \/ Spawn \/ WaitAccept
  \/ DrainSlot \/ DrainJoin \/ DrainTimeout \/ CloseListener \/ Exit

AcceptThread == Accept \/ BeginServer

Next ==
  \/ Main \/ Handler \/ AcceptThread
  \/ \E s \in Slots : Server(s)
  \/ \E c \in Clients : Client(c)

(* The threads run; the section that main takes again and again is free    *)
(* again and again, while it visits the other slots. No user need type.    *)
Serving ==
  \/ Accept
  \/ \E s \in Slots : LoopTest(s) \/ Receive(s) \/ CloseConnection(s) \/ Return(s)

Entering == BeginServer \/ \E s \in Slots : Stop(s)

Fairness == WF_skVars(Main) /\ WF_skVars(Serving) /\ SF_skVars(Entering)

Spec == Init /\ [][Next]_skVars /\ Fairness

-----------------------------------------------------------------------------
(* A slot gets a socket or a server thread only when no thread serves it:  *)
(* thState may be STOPPED before the thread has ended, and FREE while a    *)
(* client is on its way.                                                   *)
SlotServesOneClient ==
  [][\A s \in Slots :
       sock'[s] # sock[s] \/ (server'[s] = "loop" /\ server[s] \notin {"loop", "receive"})
         => server[s] = "none"]_skVars

(* Once main stops counting, the only thread that may still serve is the   *)
(* one that the last accept thread started after main had seen its slot.   *)
DrainLeavesLateAccept ==
  mainAt \in {"shutdown", "last", "exited"} =>
    \A s \in Slots :
      server[s] \notin {"none", "ended"} => accept.at = "ended" /\ s = accept.slot

(* After a console event the server exits, unless one client stays         *)
(* connected for ever without a word (it may wait for the response that is *)
(* never sent) and so keeps its server thread in recv.                     *)
ServerEnds ==
  <>shutFlag =>
    \/ <>(mainAt = "exited")
    \/ \E c \in Clients : <>[](client[c] \in {"prompt", "await"} /\ c \notin closed)
=============================================================================
