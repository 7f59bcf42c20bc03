--------------------------- MODULE ServersProofs ---------------------------
(***************************************************************************)
(* The socket server, the named pipe server and the service, for any       *)
(* number of slots, clients, pipes and failures.                           *)
(***************************************************************************)
EXTENDS MCServers, SequenceLemmas

-----------------------------------------------------------------------------
(* serverSK *)

(* The slot that main is about to give away, and the one the accept thread *)
(* fills, have no server thread, because FREE and INVALID say so and one   *)
(* accept thread at most is at work.                                       *)
SlotsInv ==
  /\ \A s \in SK!Slots : thState[s] \in {"FREE", "INVALID"} => server[s] = "none"
  /\ mainAt \in {"search", "joining", "spawn"} => accept.at = "none"
  /\ mainAt = "spawn" => thState[iThread] = "FREE"
  /\ accept.at \in {"accept", "lock"} => server[accept.slot] = "none"

LateAccept(s) == accept.at = "ended" /\ s = accept.slot

(* In a round without a running thread so far, the slots behind main hold  *)
(* at most the thread of a late accept.                                    *)
DrainInv ==
  /\ mainAt \in {"drain", "first", "second"} =>
       /\ nRunningThreads <= iThread
       /\ nRunningThreads = 0 =>
            \A s \in 0 .. iThread - 1 : server[s] \notin {"none", "ended"} => LateAccept(s)
  /\ mainAt \notin {"drain", "first", "second"} => nRunningThreads = 0
  /\ SK!DrainLeavesLateAccept

SKInv == SK!TypeOK /\ SlotsInv /\ DrainInv

-----------------------------------------------------------------------------
(* SendReceiveSKHA *)

(* A message that was returned ends with its only end mark, or fills half  *)
(* of the buffer.                                                          *)
Whole(d) ==
  /\ d \in Seq(Nat)
  /\ \A j \in 1 .. Len(d) - 1 : d[j] # CS!End
  /\ (Len(d) >= 1 /\ d[Len(d)] = CS!End) \/ 2 * Len(d) >= BufLen

(* A call has nothing in the handle, no end mark in its message, and has   *)
(* paid twice for each byte of it.                                         *)
ReceiveInv ==
  /\ nRemainRecv > 0 =>
       /\ staticBuff = <<>> /\ ~CS!HasEnd(message)
       /\ nRemainRecv + 2 * Len(message) >= BufLen
  /\ nRemainRecv = 0 => message = <<>>
  /\ \A i \in 1 .. Len(delivered) : Whole(delivered[i])

CSInv == CS!TypeOK /\ ReceiveInv /\ CS!StreamIntact

-----------------------------------------------------------------------------
(* serverNP *)

(* A request is at one place, and its client waits unless it was killed.   *)
RequestInv ==
  \A p \in Pipes :
    /\ npUser[p] # NoUser /\ (npRequest[p] # "none" \/ NP!Working(p)) =>
         npClient[npUser[p]] = "reading"
    /\ npRequest[p] # "none" => ~NP!Working(p) /\ ~npResponse[p]
    /\ NP!Working(p) => ~npResponse[p]

(* A client has no pipe before it connects and after it has left, and one  *)
(* in between.                                                             *)
UserInv ==
  /\ \A p \in Pipes : npPipe[p] # "connected" => npUser[p] = NoUser
  /\ \A p \in Pipes : npUser[p] # NoUser => npClient[npUser[p]] \in {"prompt", "reading"}
  /\ \A p, q \in Pipes : npUser[p] # NoUser /\ npUser[p] = npUser[q] => p = q

NPInv == NP!TypeOK /\ RequestInv /\ UserInv /\ NP!PipeServesOneClient

-----------------------------------------------------------------------------
(* SimpleService *)

(* Nothing runs before the service is started; without a handle only the   *)
(* report that never succeeds; a report passes a state; and when           *)
(* ServiceMain has returned every call in progress leads to a stopped state. *)
CallInv ==
  /\ serviceMain \in {"off", "entry"} => SV!Quiet /\ handler = "idle" /\ ~hStat
  /\ ~hStat =>
       /\ handler = "idle" /\ SV!Returned("handler") /\ reported \in {"STOPPED", "STARTED"}
       /\ serviceMain \notin {"off", "entry"} => serviceMain = "returned" /\ ~SV!Returned("main")
  /\ call["handler"].at = "set" => call["handler"].status \in {"same", "STOP_PENDING", "STOPPED"}
  /\ \A t \in SV!Threads : call[t].at = "report" => call[t].status \in SV!States
  /\ serviceMain = "returned" =>
       IF call["main"].at = "set" THEN call["main"].status = "STOPPED"
       ELSE dwCurrentState \in {"STOPPED", "STOP_PENDING"}

(* A call that no other overlaps reports the state that is there.          *)
AloneInv ==
  ~overlapped =>
    /\ SV!Returned("main") \/ SV!Returned("handler")
    /\ \A t \in SV!Threads : call[t].at = "report" => call[t].status = dwCurrentState
    /\ SV!Quiet /\ serviceMain \notin {"off", "entry", "specific"} => reported = dwCurrentState

(* The call of thread t leaves the service in the state it is in.          *)
Keeps(t, state) ==
  /\ call[t].at = "set" => call[t].status = "same"
  /\ call[t].at = "report" => call[t].status = state

(* Until something fails or the service is told to stop, it starts and     *)
(* then runs: the handler is called after the SCM has been told so.        *)
SmoothInv ==
  hStat /\ ~shutDown /\ failures = 0 =>
    /\ handler = "idle" /\ serviceMain \in {"specific", "running", "loop"}
    /\ serviceMain = "specific" => SV!Returned("main")
    /\ IF reported = "RUNNING"
       THEN /\ serviceMain = "loop" /\ dwCurrentState = "RUNNING"
            /\ Keeps("main", "RUNNING") /\ Keeps("handler", "RUNNING")
       ELSE /\ reported = "START_PENDING" /\ SV!Returned("handler")
            /\ serviceMain # "loop" =>
                 dwCurrentState = "START_PENDING" /\ Keeps("main", "START_PENDING")
            /\ serviceMain = "loop" =>
                 \/ call["main"].at = "set" /\ call["main"].status = "RUNNING"
                 \/ call["main"].at = "pass" /\ dwCurrentState = "RUNNING"
                 \/ /\ call["main"].at = "report" /\ call["main"].status = "RUNNING"
                    /\ dwCurrentState = "RUNNING"

SVInv == SV!TypeOK /\ CallInv /\ AloneInv /\ SmoothInv

-----------------------------------------------------------------------------
(* The named pipe server                                                   *)

LEMMA NPInit ==
  ASSUME NP!Init
  PROVE  NPInv
  BY DEF NP!Init, NPInv, NP!TypeOK, RequestInv, UserInv, NP!PipeServesOneClient, NP!Working

LEMMA NPServer ==
  ASSUME NPInv, NEW p \in Pipes, NP!Server(p) \/ NP!CommandEnds(p)
  PROVE  NPInv'
  <1> USE ServersAssumption DEF NPInv
  <1>1. NP!TypeOK'
    <2>1. CASE NP!BeginConnect(p) \/ NP!ConnectPipe(p) \/ NP!Connected(p)
      BY <2>1 DEF NP!TypeOK, NP!BeginConnect, NP!ConnectPipe, NP!Connected
    <2>2. CASE NP!ReadRequest(p)
      <3>1. shutdownFlag' \in BOOLEAN
        BY <2>2 DEF NP!ReadRequest
      <3> QED
        BY <2>2, <3>1 DEF NP!TypeOK, NP!ReadRequest
    <2>3. CASE NP!Respond(p)
      <3>1. npResponse' \in [Pipes -> BOOLEAN]
        BY <2>3 DEF NP!TypeOK, NP!Respond
      <3> QED
        BY <2>3, <3>1 DEF NP!TypeOK, NP!Respond
    <2>4. CASE NP!Disconnect(p)
      BY <2>4 DEF NP!TypeOK, NP!Disconnect
    <2>5. CASE NP!CommandEnds(p)
      BY <2>5 DEF NP!TypeOK, NP!CommandEnds
    <2> QED
      BY <2>1, <2>2, <2>3, <2>4, <2>5 DEF NP!Server
  <1>2. RequestInv'
    <2>1. CASE NP!BeginConnect(p) \/ NP!ConnectPipe(p) \/ NP!Connected(p)
      BY <2>1 DEF NP!TypeOK, RequestInv, NP!PipeServesOneClient, NP!Working, NP!BeginConnect,
             NP!ConnectPipe, NP!Connected
    <2>2. CASE NP!ReadRequest(p)
      BY <2>2 DEF NP!TypeOK, RequestInv, NP!PipeServesOneClient, NP!Working, NP!ReadRequest
    <2>3. CASE NP!Respond(p)
      BY <2>3 DEF NP!TypeOK, RequestInv, NP!PipeServesOneClient, NP!Working, NP!Respond
    <2>4. CASE NP!Disconnect(p)
      BY <2>4 DEF NP!TypeOK, RequestInv, NP!PipeServesOneClient, NP!Working, NP!Disconnect
    <2>5. CASE NP!CommandEnds(p)
      BY <2>5 DEF NP!TypeOK, RequestInv, NP!CommandEnds, NP!Working
    <2> QED
      BY <2>1, <2>2, <2>3, <2>4, <2>5 DEF NP!Server
  <1>3. UserInv'
    BY DEF NP!CommandEnds, NP!TypeOK, UserInv, NP!Server, NP!BeginConnect, NP!ConnectPipe, NP!Connected,
           NP!ReadRequest, NP!Respond, NP!Disconnect
  <1>4. NP!PipeServesOneClient'
    <2>1. CASE NP!BeginConnect(p) \/ NP!ConnectPipe(p) \/ NP!Connected(p)
      BY <2>1 DEF NP!TypeOK, NP!PipeServesOneClient, NP!Working, NP!BeginConnect, NP!ConnectPipe,
             NP!Connected
    <2>2. CASE NP!ReadRequest(p)
      BY <2>2 DEF NP!TypeOK, RequestInv, UserInv, NP!PipeServesOneClient, NP!Working, NP!ReadRequest
    <2>3. CASE NP!Respond(p)
      BY <2>3 DEF NP!TypeOK, RequestInv, UserInv, NP!PipeServesOneClient, NP!Working, NP!Respond
    <2>4. CASE NP!Disconnect(p)
      BY <2>4 DEF NP!TypeOK, NP!PipeServesOneClient, NP!Working, NP!Disconnect
    <2>5. CASE NP!CommandEnds(p)
      BY <2>5 DEF NP!TypeOK, NP!PipeServesOneClient, NP!CommandEnds, NP!Working
    <2> QED
      BY <2>1, <2>2, <2>3, <2>4, <2>5 DEF NP!Server
  <1> QED
    BY <1>1, <1>2, <1>3, <1>4

LEMMA NPClient ==
  ASSUME NPInv, NEW u \in Users, NP!Client(u)
  PROVE  NPInv'
  <1> USE ServersAssumption DEF NPInv
  <1>1. CASE NP!Open(u)
    <2>1. PICK p \in Pipes : /\ npPipe[p] = "listening"
                             /\ npPipe' = [npPipe EXCEPT ![p] = "connected"]
                             /\ npUser' = [npUser EXCEPT ![p] = u]
      BY <1>1 DEF NP!Open
    <2>2. /\ npClient[u] = "connect" /\ npClient' = [npClient EXCEPT ![u] = "prompt"]
          /\ UNCHANGED <<shutdownFlag, npServer, npConnect, npRequest, npResponse, npTemp>>
      BY <1>1 DEF NP!Open
    <2>3. /\ npUser[p] = NoUser /\ npRequest[p] = "none" /\ ~NP!Working(p) /\ ~npResponse[p]
          /\ \A q \in Pipes : npUser[q] # u
      BY <2>1, <2>2 DEF NP!TypeOK, UserInv, NP!PipeServesOneClient
    <2>4. NP!TypeOK'
      BY <2>1, <2>2 DEF NP!TypeOK
    <2>5. RequestInv'
      BY <2>1, <2>2, <2>3 DEF NP!TypeOK, RequestInv, NP!Working
    <2>6. UserInv'
      BY <2>1, <2>2, <2>3 DEF NP!TypeOK, UserInv
    <2>7. NP!PipeServesOneClient'
      BY <2>1, <2>2, <2>3 DEF NP!TypeOK, UserInv, NP!PipeServesOneClient, NP!Working
    <2> QED
      BY <2>4, <2>5, <2>6, <2>7
  <1>2. CASE NP!Prompt(u)
    <2>1. PICK p \in Pipes :
            /\ npUser[p] = u
            /\ \/ /\ \E r \in {"command", "shutRequest"} : npRequest' = [npRequest EXCEPT ![p] = r]
                  /\ npClient' = [npClient EXCEPT ![u] = "reading"]
                  /\ UNCHANGED npUser
               \/ /\ npUser' = [npUser EXCEPT ![p] = NoUser]
                  /\ npClient' = [npClient EXCEPT ![u] = "left"]
                  /\ UNCHANGED npRequest
      BY <1>2 DEF NP!Prompt
    <2>2. /\ npClient[u] = "prompt" /\ u # NoUser
          /\ UNCHANGED <<shutdownFlag, npServer, npConnect, npPipe, npResponse, npTemp>>
      BY <1>2 DEF NP!Prompt
    <2>3. /\ npRequest[p] = "none" /\ ~NP!Working(p) /\ ~npResponse[p]
          /\ \A q \in Pipes : npUser[q] = u => q = p
      BY <2>1, <2>2 DEF NP!TypeOK, RequestInv, UserInv, NP!PipeServesOneClient
    <2>8. /\ npUser' \in [Pipes -> Users \cup {NoUser}]
          /\ npRequest' \in [Pipes -> {"none", "command", "shutRequest"}]
          /\ npClient' \in [Users -> {"connect", "prompt", "reading", "left"}]
      <3>1. npClient' \in [Users -> {"connect", "prompt", "reading", "left"}]
        BY <2>1 DEF NP!TypeOK
      <3>2. npUser' \in [Pipes -> Users \cup {NoUser}]
        <4>1. npUser \in [Pipes -> Users \cup {NoUser}]
          BY DEF NP!TypeOK
        <4>2. npUser' = npUser \/ npUser' = [npUser EXCEPT ![p] = NoUser]
          BY <2>1
        <4> QED
          BY <4>1, <4>2
      <3>3. npRequest' \in [Pipes -> {"none", "command", "shutRequest"}]
        BY <2>1 DEF NP!TypeOK
      <3> QED
        BY <3>1, <3>2, <3>3
    <2>4. NP!TypeOK'
      BY <2>2, <2>8 DEF NP!TypeOK
    <2>5. RequestInv'
      BY <2>1, <2>2, <2>3 DEF NP!TypeOK, RequestInv, NP!Working
    <2>6. UserInv'
      <3>1. CASE UNCHANGED npUser /\ npClient' = [npClient EXCEPT ![u] = "reading"]
        BY <2>2, <3>1 DEF NP!TypeOK, UserInv
      <3>2. CASE /\ npUser' = [npUser EXCEPT ![p] = NoUser]
                 /\ npClient' = [npClient EXCEPT ![u] = "left"]
        BY <2>1, <2>2, <2>3, <3>2 DEF NP!TypeOK, UserInv
      <3> QED
        BY <2>1, <3>1, <3>2
    <2>7. NP!PipeServesOneClient'
      BY <2>1, <2>2, <2>3 DEF NP!TypeOK, UserInv, NP!PipeServesOneClient, NP!Working
    <2> QED
      BY <2>4, <2>5, <2>6, <2>7
  <1>3. CASE NP!ReadResponse(u)
    <2>1. PICK p \in Pipes : /\ npUser[p] = u /\ npResponse[p]
                             /\ npResponse' = [npResponse EXCEPT ![p] = FALSE]
      BY <1>3 DEF NP!ReadResponse
    <2>2. /\ npClient[u] = "reading" /\ npClient' = [npClient EXCEPT ![u] = "prompt"] /\ u # NoUser
          /\ UNCHANGED <<shutdownFlag, npServer, npConnect, npPipe, npUser, npRequest, npTemp>>
      BY <1>3 DEF NP!ReadResponse
    <2>3. /\ npRequest[p] = "none" /\ ~NP!Working(p)
          /\ \A q \in Pipes : npUser[q] = u => q = p
      BY <2>1, <2>2 DEF NP!TypeOK, RequestInv, UserInv, NP!PipeServesOneClient
    <2>4. NP!TypeOK'
      BY <2>1, <2>2 DEF NP!TypeOK
    <2>5. RequestInv'
      BY <2>1, <2>2, <2>3 DEF NP!TypeOK, RequestInv, NP!Working
    <2>6. UserInv'
      BY <2>1, <2>2, <2>3 DEF NP!TypeOK, UserInv
    <2>7. NP!PipeServesOneClient'
      BY <2>1, <2>2, <2>3 DEF NP!TypeOK, UserInv, NP!PipeServesOneClient, NP!Working
    <2> QED
      BY <2>4, <2>5, <2>6, <2>7
  <1>4. CASE NP!Killed(u)
    <2>1. PICK p \in Pipes : /\ npUser[p] = u
                             /\ npUser' = [npUser EXCEPT ![p] = NoUser]
                             /\ npResponse' = [npResponse EXCEPT ![p] = FALSE]
      BY <1>4 DEF NP!Killed
    <2>2. /\ npClient[u] = "reading" /\ npClient' = [npClient EXCEPT ![u] = "left"] /\ u # NoUser
          /\ UNCHANGED <<shutdownFlag, npServer, npConnect, npPipe, npRequest, npTemp>>
      BY <1>4 DEF NP!Killed
    <2>3. \A q \in Pipes : npUser[q] = u => q = p
      BY <2>1, <2>2 DEF UserInv
    <2>4. NP!TypeOK'
      BY <2>1, <2>2 DEF NP!TypeOK
    <2>5. RequestInv'
      BY <2>1, <2>2, <2>3 DEF NP!TypeOK, RequestInv, NP!Working
    <2>6. UserInv'
      BY <2>1, <2>2, <2>3 DEF NP!TypeOK, UserInv
    <2>7. NP!PipeServesOneClient'
      BY <2>1, <2>2, <2>3 DEF NP!TypeOK, UserInv, NP!PipeServesOneClient, NP!Working
    <2> QED
      BY <2>4, <2>5, <2>6, <2>7
  <1> QED
    BY <1>1, <1>2, <1>3, <1>4 DEF NP!Client

LEMMA NPNext ==
  ASSUME NPInv, NP!Next \/ UNCHANGED npVars
  PROVE  NPInv'
  <1>1. ASSUME NP!Handler
        PROVE  NPInv'
    BY <1>1 DEF NP!Handler, NPInv, NP!TypeOK, RequestInv, UserInv, NP!PipeServesOneClient,
                NP!Working
  <1>2. ASSUME UNCHANGED npVars
        PROVE  NPInv'
    BY <1>2 DEF npVars, NPInv, NP!TypeOK, RequestInv, UserInv, NP!PipeServesOneClient,
                NP!Working
  <1> QED
    BY <1>1, <1>2, NPServer, NPClient DEF NP!Next

-----------------------------------------------------------------------------
(* The service                                                             *)

(* What a call of UpdateStatus may be.                                     *)
SVCalls == [SV!Threads -> [at : {"none", "set", "pass", "report"}, status : SV!States \cup {"same"}]]

LEMMA SVInit ==
  ASSUME SV!Init
  PROVE  SVInv
  <1> USE ServersAssumption DEF SV!Init
  <1>1. SV!TypeOK
    <2>1. failures \in 0 .. MaxFailures
      OBVIOUS
    <2>2. call \in SVCalls
      BY DEF SV!NoCall, SVCalls
    <2> QED
      BY <2>1, <2>2 DEF SV!TypeOK, SV!States, SVCalls
  <1>2. CallInv
    BY DEF CallInv, SV!Quiet, SV!Returned, SV!Threads, SV!NoCall
  <1>3. AloneInv
    BY DEF AloneInv, SV!Returned, SV!Threads, SV!NoCall
  <1>4. SmoothInv
    BY DEF SmoothInv
  <1> QED
    BY <1>1, <1>2, <1>3, <1>4 DEF SVInv

(* What a call is, and when a thread makes one.                            *)
LEMMA CallFacts ==
  ASSUME SV!TypeOK
  PROVE  /\ \A t \in SV!Threads :
              /\ call[t].at \in {"none", "set", "pass", "report"}
              /\ call[t].status \in SV!States \cup {"same"}
              /\ SV!Returned(t) => call[t].at = "none"
         /\ SV!Quiet <=> SV!Returned("main") /\ SV!Returned("handler")
         /\ "main" \in SV!Threads /\ "handler" \in SV!Threads
         /\ \A t \in SV!Threads : t = "main" \/ t = "handler"
  BY DEF SV!TypeOK, SV!Threads, SV!Quiet, SV!Returned, SV!NoCall

(* The call of one thread goes on: the other keeps its own.                *)
LEMMA CallGoesOn ==
  ASSUME SV!TypeOK, NEW t \in SV!Threads,
         NEW c \in [at : {"none", "set", "pass", "report"}, status : SV!States \cup {"same"}],
         call' = [call EXCEPT ![t] = c]
  PROVE  /\ call' \in SVCalls
         /\ call'[t] = c
         /\ \A u \in SV!Threads : u # t => call'[u] = call[u]
  BY DEF SV!TypeOK, SVCalls

(* The status is set and passed on.                                        *)
LEMMA SVSet ==
  ASSUME SVInv, NEW t \in SV!Threads, SV!SetState(t) \/ SV!Pass(t)
  PROVE  SVInv'
  <1> USE CallFacts DEF SVInv
  <1>1. CASE SV!SetState(t)
    <2> DEFINE c == [at |-> "pass", status |-> call[t].status]
    <2>1. /\ call[t].at = "set"
          /\ dwCurrentState' = IF call[t].status = "same" THEN dwCurrentState ELSE call[t].status
          /\ UNCHANGED <<registered, serviceMain, handler, hStat, overlapped, reported, shutDown,
                         pauseFlag, failures>>
      BY <1>1 DEF SV!SetState
    <2>2. call' = [call EXCEPT ![t] = c]
      <3>1. call' = [call EXCEPT ![t] = [call[t] EXCEPT !.at = "pass"]]
        BY <1>1 DEF SV!SetState
      <3>2. call[t] \in [at : {"none", "set", "pass", "report"}, status : SV!States \cup {"same"}]
        BY DEF SV!TypeOK
      <3>3. [call[t] EXCEPT !.at = "pass"] = c
        BY <3>2
      <3> QED
        BY <3>1, <3>3
    <2>3. /\ c \in [at : {"none", "set", "pass", "report"}, status : SV!States \cup {"same"}]
          /\ c.at = "pass" /\ c.status = call[t].status
      OBVIOUS
    <2> HIDE DEF c
    <2>4. /\ call' \in SVCalls /\ call'[t].at = "pass" /\ call'[t].status = call[t].status
          /\ \A u \in SV!Threads : u # t => call'[u] = call[u]
      <3>1. /\ call' \in SVCalls /\ call'[t] = c
            /\ \A u \in SV!Threads : u # t => call'[u] = call[u]
        BY <2>2, <2>3 DEF SV!TypeOK, SVCalls
      <3> QED
        BY <3>1, <2>2, <2>3
    <2>5. SV!TypeOK'
      BY <2>1, <2>4 DEF SV!TypeOK, SVCalls
    <2>6. ~SV!Returned(t) /\ ~SV!Returned(t)' /\ ~SV!Quiet /\ ~SV!Quiet'
      BY <2>1, <2>4 DEF SV!Returned, SV!NoCall, SV!Quiet
    <2>7. \A u \in SV!Threads : SV!Returned(u)' <=> SV!Returned(u)
      BY <2>4, <2>6 DEF SV!Returned
    <2>8. CallInv'
      BY <2>1, <2>4, <2>6, <2>7 DEF CallInv
    <2>9. AloneInv'
      BY <2>1, <2>4, <2>6, <2>7 DEF AloneInv
    <2>10. SmoothInv'
      BY <2>1, <2>4, <2>6, <2>7 DEF SmoothInv, Keeps
    <2> QED
      BY <2>5, <2>8, <2>9, <2>10
  <1>2. CASE SV!Pass(t)
    <2> DEFINE c == [at |-> "report", status |-> dwCurrentState]
    <2>1. /\ call[t].at = "pass" /\ call' = [call EXCEPT ![t] = c]
          /\ UNCHANGED <<registered, serviceMain, handler, hStat, overlapped, dwCurrentState,
                         reported, shutDown, pauseFlag, failures>>
      BY <1>2 DEF SV!Pass
    <2>3. /\ c \in [at : {"none", "set", "pass", "report"}, status : SV!States \cup {"same"}]
          /\ c.at = "report" /\ c.status = dwCurrentState
      BY DEF SV!TypeOK
    <2> HIDE DEF c
    <2>4. /\ call' \in SVCalls /\ call'[t].at = "report" /\ call'[t].status = dwCurrentState
          /\ \A u \in SV!Threads : u # t => call'[u] = call[u]
      <3>1. /\ call' \in SVCalls /\ call'[t] = c
            /\ \A u \in SV!Threads : u # t => call'[u] = call[u]
        BY <2>1, <2>3 DEF SV!TypeOK, SVCalls
      <3> QED
        BY <3>1, <2>1, <2>3
    <2>5. SV!TypeOK'
      BY <2>1, <2>4 DEF SV!TypeOK, SVCalls
    <2>6. ~SV!Returned(t) /\ ~SV!Returned(t)' /\ ~SV!Quiet /\ ~SV!Quiet'
      BY <2>1, <2>4 DEF SV!Returned, SV!NoCall, SV!Quiet
    <2>7. \A u \in SV!Threads : SV!Returned(u)' <=> SV!Returned(u)
      BY <2>4, <2>6 DEF SV!Returned
    <2>8. CallInv'
      <3>1. dwCurrentState \in SV!States
        BY DEF SV!TypeOK
      <3>2. \A u \in SV!Threads : call'[u].at = "report" => call'[u].status \in SV!States
        BY <2>4, <3>1 DEF CallInv
      <3> QED
        BY <2>1, <2>4, <2>6, <2>7, <3>2 DEF CallInv
    <2>9. AloneInv'
      BY <2>1, <2>4, <2>6, <2>7 DEF AloneInv
    <2>10. SmoothInv'
      BY <2>1, <2>4, <2>6, <2>7 DEF SmoothInv, Keeps
    <2> QED
      BY <2>5, <2>8, <2>9, <2>10
  <1> QED
    BY <1>1, <1>2

(* The process ends, and the next start finds everything as at first.      *)
LEMMA SVGone ==
  ASSUME SVInv, SV!Gone
  PROVE  SVInv'
  <1> USE DEF SV!Gone, SVInv
  <1>1. call' \in SVCalls
    BY DEF SV!NoCall, SVCalls
  <1>2. SV!TypeOK'
    BY <1>1 DEF SV!TypeOK, SV!States, SVCalls
  <1>3. CallInv'
    BY DEF CallInv, SV!Quiet, SV!Returned, SV!Threads, SV!NoCall
  <1>4. AloneInv'
    BY DEF AloneInv, SV!Returned, SV!Threads, SV!NoCall
  <1>5. SmoothInv'
    BY DEF SmoothInv
  <1> QED
    BY <1>2, <1>3, <1>4, <1>5

(* A report succeeds or fails.                                             *)
LEMMA SVReport ==
  ASSUME SVInv, NEW t \in SV!Threads, SV!Report(t)
  PROVE  SVInv'
  <1> USE CallFacts DEF SVInv
  <1>1. /\ call[t].at = "report"
        /\ UNCHANGED <<registered, serviceMain, handler, hStat, overlapped, shutDown, pauseFlag>>
    BY DEF SV!Report
  <1>2. serviceMain \notin {"off", "entry"} /\ ~SV!Returned(t) /\ ~SV!Quiet
    BY <1>1 DEF CallInv
  <1>3. CASE /\ hStat /\ reported' = call[t].status /\ call' = [call EXCEPT ![t] = SV!NoCall]
             /\ UNCHANGED <<dwCurrentState, failures>>
    <2>1. SV!NoCall \in [at : {"none", "set", "pass", "report"}, status : SV!States \cup {"same"}] /\ SV!NoCall.at = "none"
      BY DEF SV!NoCall
    <2>2. /\ call' \in SVCalls /\ call'[t] = SV!NoCall /\ call'[t].at = "none"
          /\ \A u \in SV!Threads : u # t => call'[u] = call[u]
      BY <1>3, <2>1, CallGoesOn
    <2>3. call[t].status \in SV!States
      BY <1>1 DEF CallInv
    <2>4. SV!TypeOK'
      BY <1>1, <1>3, <2>2, <2>3 DEF SV!TypeOK, SVCalls
    <2>5. SV!Returned(t)' /\ \A u \in SV!Threads : u # t => (SV!Returned(u)' <=> SV!Returned(u))
      BY <2>2 DEF SV!Returned
    <2>6. SV!Quiet' <=> SV!Returned("main")' /\ SV!Returned("handler")'
      BY DEF SV!Quiet, SV!Threads
    <2>7. CallInv'
      BY <1>1, <1>2, <1>3, <2>2, <2>5, <2>6 DEF CallInv
    <2>8. AloneInv'
      BY <1>1, <1>3, <2>2, <2>5, <2>6 DEF AloneInv
    <2>9. SmoothInv'
      BY <1>1, <1>2, <1>3, <2>2, <2>5 DEF SmoothInv, Keeps
    <2> QED
      BY <2>4, <2>7, <2>8, <2>9
  <1>4. CASE SV!ReportFails /\ call' = [call EXCEPT ![t] = [at |-> "set", status |-> "STOPPED"]]
    <2> DEFINE c == [at |-> "set", status |-> "STOPPED"]
    <2>1. /\ dwCurrentState' = "STOPPED" /\ UNCHANGED reported
          /\ failures' = (IF hStat THEN failures + 1 ELSE failures) /\ failures' \in 0 .. MaxFailures
      BY <1>4, ServersAssumption DEF SV!ReportFails, SV!TypeOK
    <2>2. /\ call' = [call EXCEPT ![t] = c]
          /\ c \in [at : {"none", "set", "pass", "report"}, status : SV!States \cup {"same"}]
          /\ c.at = "set" /\ c.status = "STOPPED"
      BY <1>4 DEF SV!States
    <2> HIDE DEF c
    <2>3. /\ call' \in SVCalls /\ call'[t].at = "set" /\ call'[t].status = "STOPPED"
          /\ \A u \in SV!Threads : u # t => call'[u] = call[u]
      <3>1. /\ call' \in SVCalls /\ call'[t] = c
            /\ \A u \in SV!Threads : u # t => call'[u] = call[u]
        BY <2>2 DEF SV!TypeOK, SVCalls
      <3> QED
        BY <3>1, <2>2
    <2>4. SV!TypeOK'
      BY <1>1, <2>1, <2>3 DEF SV!TypeOK, SVCalls, SV!States
    <2>5. ~SV!Returned(t)' /\ ~SV!Quiet'
      BY <2>3 DEF SV!Returned, SV!NoCall, SV!Quiet
    <2>6. \A u \in SV!Threads : SV!Returned(u)' <=> SV!Returned(u)
      BY <1>2, <2>3, <2>5 DEF SV!Returned
    <2>7. CallInv'
      BY <1>1, <1>2, <2>1, <2>3, <2>5, <2>6 DEF CallInv
    <2>8. AloneInv'
      BY <1>1, <1>2, <2>1, <2>3, <2>5, <2>6 DEF AloneInv
    <2>9. SmoothInv'
      BY <1>1, <2>1 DEF SmoothInv, SV!TypeOK
    <2> QED
      BY <2>4, <2>7, <2>8, <2>9
  <1> QED
    BY <1>3, <1>4 DEF SV!Report

(* A call of UpdateStatus by a thread that has none.                       *)
LEMMA SVCall ==
  ASSUME SV!TypeOK, NEW t \in SV!Threads, NEW status \in SV!States \cup {"same"},
         SV!Returned(t), SV!UpdateStatus(t, status)
  PROVE  /\ call' \in SVCalls /\ overlapped' \in BOOLEAN
         /\ ~SV!Returned(t)' /\ ~SV!Quiet'
         /\ call'[t].at = "set" /\ call'[t].status = status
         /\ \A u \in SV!Threads : u # t => call'[u] = call[u] /\ (SV!Returned(u)' <=> SV!Returned(u))
         /\ ~overlapped' => \A u \in SV!Threads : u # t => SV!Returned(u)
  <1> DEFINE c == [at |-> "set", status |-> status]
  <1>1. call' = [call EXCEPT ![t] = c]
    BY DEF SV!UpdateStatus
  <1>2. c \in [at : {"none", "set", "pass", "report"}, status : SV!States \cup {"same"}]
    OBVIOUS
  <1>3. /\ call' \in SVCalls /\ call'[t] = c
        /\ \A u \in SV!Threads : u # t => call'[u] = call[u]
    BY <1>1, <1>2, CallGoesOn
  <1>4. ~SV!Returned(t)' /\ ~SV!Quiet'
    BY <1>3 DEF SV!Returned, SV!NoCall, SV!Quiet
  <1>5. \A u \in SV!Threads : u # t => (SV!Returned(u)' <=> SV!Returned(u))
    BY <1>3 DEF SV!Returned
  <1> QED
    BY <1>3, <1>4, <1>5 DEF SV!UpdateStatus

LEMMA SVRegister ==
  ASSUME SVInv, SV!Register
  PROVE  SVInv'
  <1> USE CallFacts DEF SVInv
  <1>0. "STOPPED" \in SV!States /\ "START_PENDING" \in SV!States /\ "main" # "handler"
    BY DEF SV!States
  <1>1. /\ serviceMain = "entry" /\ SV!Quiet /\ handler = "idle" /\ ~hStat
        /\ reported \in {"STOPPED", "STARTED"}
        /\ UNCHANGED <<registered, handler, shutDown, pauseFlag>>
    BY DEF SV!Register, CallInv
  <1>2. CASE /\ hStat' = TRUE /\ dwCurrentState' = "START_PENDING"
             /\ \/ reported' = "START_PENDING" /\ UNCHANGED failures
                \/ failures < MaxFailures /\ failures' = failures + 1 /\ UNCHANGED reported
             /\ serviceMain' = "specific" /\ UNCHANGED <<call, overlapped>>
    <2>1. failures' \in 0 .. MaxFailures /\ failures \in Nat
      BY <1>2, ServersAssumption DEF SV!TypeOK
    <2>2. \A t \in SV!Threads : SV!Returned(t) /\ SV!Returned(t)' /\ call'[t] = call[t] /\ call[t].at = "none"
      BY <1>1, <1>2 DEF SV!Returned
    <2>3. reported' \in SV!States \cup {"STARTED"}
      BY <1>0, <1>2 DEF SV!TypeOK
    <2>4. SV!TypeOK'
      BY <1>0, <1>1, <1>2, <2>1, <2>3 DEF SV!TypeOK
    <2>5. CallInv'
      BY <1>2, <2>2 DEF CallInv
    <2>6. AloneInv'
      BY <1>2, <2>2 DEF AloneInv
    <2>7. SmoothInv'
      BY <1>1, <1>2, <2>1, <2>2 DEF SmoothInv, Keeps
    <2> QED
      BY <2>4, <2>5, <2>6, <2>7
  <1>3. CASE /\ dwCurrentState' = "STOPPED" /\ SV!UpdateStatus("main", "STOPPED")
             /\ serviceMain' = "returned" /\ UNCHANGED <<hStat, reported, failures>>
    <2>1. /\ call' \in SVCalls /\ overlapped' \in BOOLEAN
          /\ ~SV!Returned("main")' /\ ~SV!Quiet'
          /\ call'["main"].at = "set" /\ call'["main"].status = "STOPPED"
          /\ call'["handler"] = call["handler"] /\ SV!Returned("handler")' /\ SV!Returned("handler")
      BY <1>0, <1>1, <1>3, SVCall
    <2>2. SV!TypeOK'
      BY <1>0, <1>1, <1>3, <2>1 DEF SV!TypeOK, SVCalls
    <2>3. CallInv'
      BY <1>1, <1>3, <2>1 DEF CallInv
    <2>4. AloneInv'
      BY <1>3, <2>1 DEF AloneInv
    <2>5. SmoothInv'
      BY <1>1, <1>3 DEF SmoothInv
    <2> QED
      BY <2>2, <2>3, <2>4, <2>5
  <1> QED
    BY <1>1, <1>2, <1>3 DEF SV!Register

LEMMA SVMain ==
  ASSUME SVInv, SV!ServiceSpecific \/ SV!Loop
  PROVE  SVInv'
  <1> USE CallFacts DEF SVInv
  <1>0. "STOPPED" \in SV!States /\ "RUNNING" \in SV!States /\ "main" # "handler"
    BY DEF SV!States
  <1>1. PICK status \in {"same", "RUNNING", "STOPPED"} :
          /\ SV!UpdateStatus("main", status)
          /\ \/ serviceMain = "specific" /\ serviceMain' = "running" /\ status = "same"
             \/ serviceMain = "running" /\ serviceMain' = "loop" /\ status = "RUNNING"
             \/ serviceMain = "loop" /\ serviceMain' = "loop" /\ status = "same"
             \/ serviceMain = "loop" /\ serviceMain' = "returned" /\ status = "STOPPED" /\ shutDown
    BY DEF SV!ServiceSpecific, SV!Loop
  <1>2. /\ SV!Returned("main")
        /\ UNCHANGED <<registered, handler, hStat, dwCurrentState, reported, shutDown, pauseFlag,
                       failures>>
    BY DEF SV!ServiceSpecific, SV!Loop
  <1>3. /\ call' \in SVCalls /\ overlapped' \in BOOLEAN
        /\ ~SV!Returned("main")' /\ ~SV!Quiet'
        /\ call'["main"].at = "set" /\ call'["main"].status = status
        /\ call'["handler"] = call["handler"] /\ (SV!Returned("handler")' <=> SV!Returned("handler"))
        /\ ~overlapped' => SV!Returned("handler")
    BY <1>0, <1>1, <1>2, SVCall
  <1>4. SV!TypeOK'
    BY <1>1, <1>2, <1>3 DEF SV!TypeOK, SVCalls
  <1>5. CallInv'
    BY <1>1, <1>2, <1>3 DEF CallInv
  <1>6. AloneInv'
    <2>1. ~overlapped' => call'["handler"].at = "none"
      BY <1>3
    <2> QED
      BY <1>3, <2>1 DEF AloneInv
  <1>7. SmoothInv'
    BY <1>1, <1>2, <1>3 DEF SmoothInv, Keeps
  <1> QED
    BY <1>4, <1>5, <1>6, <1>7

LEMMA SVHandler ==
  ASSUME SVInv, SV!HandlerAgain \/ SV!Control \/ SV!SystemShutdown
  PROVE  SVInv'
  <1> USE CallFacts DEF SVInv
  <1>0. "STOP_PENDING" \in SV!States /\ "main" # "handler"
    BY DEF SV!States
  <1>1. PICK status \in {"same", "STOP_PENDING"} :
          /\ SV!UpdateStatus("handler", status)
          /\ \/ handler = "again"
             \/ reported \in {"START_PENDING", "RUNNING"} /\ shutDown'
             \/ reported = "RUNNING" /\ status = "same" /\ handler' = "idle"
    <2>1. CASE SV!HandlerAgain
      BY <2>1 DEF SV!HandlerAgain
    <2>2. CASE SV!Control \/ SV!SystemShutdown
      <3>1. PICK dwControl : SV!Deliver(dwControl)
        BY <2>2 DEF SV!Control, SV!SystemShutdown
      <3> QED
        BY <3>1 DEF SV!Deliver, SV!Handle
    <2> QED
      BY <2>1, <2>2
  <1>2. /\ SV!Returned("handler") /\ hStat /\ serviceMain \notin {"off", "entry"}
        /\ handler' \in {"idle", "again"} /\ shutDown' \in BOOLEAN /\ pauseFlag' \in BOOLEAN
        /\ shutDown => shutDown'
        /\ UNCHANGED <<registered, serviceMain, hStat, dwCurrentState, reported, failures>>
    <2>1. CASE SV!HandlerAgain
      BY <2>1 DEF SV!HandlerAgain, CallInv, SV!TypeOK
    <2>2. CASE SV!Control \/ SV!SystemShutdown
      <3>1. PICK dwControl : SV!Deliver(dwControl)
        BY <2>2 DEF SV!Control, SV!SystemShutdown
      <3> QED
        BY <3>1 DEF SV!Deliver, SV!Handle, CallInv, SV!TypeOK
    <2> QED
      BY <2>1, <2>2
  <1>3. /\ call' \in SVCalls /\ overlapped' \in BOOLEAN
        /\ ~SV!Returned("handler")' /\ ~SV!Quiet'
        /\ call'["handler"].at = "set" /\ call'["handler"].status = status
        /\ call'["main"] = call["main"] /\ (SV!Returned("main")' <=> SV!Returned("main"))
        /\ ~overlapped' => SV!Returned("main")
    BY <1>0, <1>1, <1>2, SVCall
  <1>4. SV!TypeOK'
    BY <1>2, <1>3 DEF SV!TypeOK, SVCalls
  <1>5. CallInv'
    BY <1>2, <1>3 DEF CallInv
  <1>6. AloneInv'
    <2>1. ~overlapped' => call'["main"].at = "none"
      BY <1>3
    <2> QED
      BY <1>3, <2>1 DEF AloneInv
  <1>7. SmoothInv'
    BY <1>1, <1>2, <1>3 DEF SmoothInv, Keeps
  <1> QED
    BY <1>4, <1>5, <1>6, <1>7

LEMMA SVShell ==
  ASSUME SVInv, SV!Create \/ SV!Delete \/ SV!Start
  PROVE  SVInv'
  <1> USE DEF SV!Create, SV!Delete, SV!Start, SVInv
  <1>1. SV!TypeOK'
    BY DEF SV!TypeOK
  <1>2. CallInv'
    BY DEF CallInv, SV!Quiet, SV!Returned
  <1>3. AloneInv'
    BY DEF AloneInv, SV!Quiet, SV!Returned
  <1>4. SmoothInv'
    BY DEF SmoothInv, CallInv, Keeps, SV!Returned
  <1> QED
    BY <1>1, <1>2, <1>3, <1>4

LEMMA SVNext ==
  ASSUME SVInv, SV!Next \/ UNCHANGED svVars
  PROVE  SVInv'
  <1>1. ASSUME UNCHANGED svVars
        PROVE  SVInv'
    BY <1>1 DEF svVars, SVInv, SV!TypeOK, CallInv, AloneInv, SmoothInv, Keeps, SV!Quiet, SV!Returned
  <1>2. "main" \in SV!Threads /\ "handler" \in SV!Threads
    BY DEF SV!Threads
  <1>3. ASSUME NEW t \in SV!Threads, SV!Thread(t)
        PROVE  SVInv'
    BY <1>3, SVSet, SVReport, SVGone DEF SV!Thread, SV!StackOverflow
  <1>4. ASSUME SV!ProcessEnds
        PROVE  SVInv'
    BY <1>4, SVGone DEF SV!ProcessEnds
  <1> QED
    BY <1>1, <1>2, <1>3, <1>4, SVRegister, SVMain, SVHandler, SVShell
    DEF SV!Next, SV!ServiceMain, SV!Dispatcher, SV!Shell

(* What the manager holds is stale only after calls that overlapped, and   *)
(* only when the service was told to stop or a report failed.              *)
LEMMA SVKnown ==
  ASSUME SVInv
  PROVE  SV!StatusKnown
  <1> USE CallFacts DEF SVInv
  <1> SUFFICES ASSUME SV!Quiet, serviceMain \notin {"off", "entry", "specific"}
               PROVE  /\ reported = dwCurrentState \/ (overlapped /\ (shutDown \/ failures > 0))
                      /\ serviceMain = "returned" => dwCurrentState \in {"STOPPED", "STOP_PENDING"}
    BY DEF SV!StatusKnown
  <1>1. hStat
    BY DEF CallInv
  <1>2. ~overlapped => reported = dwCurrentState
    BY DEF AloneInv
  <1>3. ~shutDown /\ failures = 0 => reported = dwCurrentState
    BY <1>1 DEF SmoothInv
  <1>4. failures = 0 \/ failures > 0
    BY DEF SV!TypeOK
  <1>5. serviceMain = "returned" => dwCurrentState \in {"STOPPED", "STOP_PENDING"}
    BY DEF CallInv
  <1> QED
    BY <1>2, <1>3, <1>4, <1>5

-----------------------------------------------------------------------------
(* The socket server                                                       *)

LEMMA SKInit ==
  ASSUME SK!Init
  PROVE  SKInv
  <1> USE ServersAssumption DEF SK!Init
  <1>1. SK!TypeOK
    <2>1. /\ backlog \in Seq(Clients)
          /\ inbox \in [Clients -> Seq({"command", "$Quit"})]
      BY EmptySeq
    <2>2. /\ iThread \in SK!Slots /\ nRunningThreads \in 0 .. MaxClients
          /\ accept \in [at : {"none", "accept", "lock", "ended"}, slot : SK!Slots]
      BY DEF SK!Slots, SK!NoAccept
    <2>3. /\ thState \in [SK!Slots -> {"FREE", "STOPPED", "RUNNING", "INVALID"}]
          /\ sock \in [SK!Slots -> Clients \cup {NoSock}]
          /\ server \in [SK!Slots -> {"none", "loop", "receive", "close", "stop", "return", "ended"}]
          /\ client \in [Clients -> {"start", "prompt", "await", "left"}]
      OBVIOUS
    <2> QED
      BY <2>1, <2>2, <2>3 DEF SK!TypeOK, SK!Holding
  <1>2. SlotsInv
    BY DEF SlotsInv, SK!NoAccept
  <1>3. DrainInv
    BY DEF DrainInv, SK!DrainLeavesLateAccept
  <1> QED
    BY <1>1, <1>2, <1>3 DEF SKInv

(* main looks for a slot, starts the accept thread and waits for it.       *)
LEMMA SKSearch ==
  ASSUME SKInv, SK!Search \/ SK!JoinStopped \/ SK!Spawn \/ SK!WaitAccept
  PROVE  SKInv'
  <1> USE ServersAssumption DEF SKInv, SK!ToDrain, SK!slots, SK!clients
  <1>1. CASE SK!Search
    <2>1. SK!TypeOK'
      BY <1>1 DEF SK!Search, SK!TypeOK, SK!Slots, SK!Holding, SK!NextSlot
    <2>2. SlotsInv'
      BY <1>1 DEF SK!Search, SK!TypeOK, SlotsInv
    <2>3. DrainInv'
      <3>1. /\ mainAt = "search" /\ nRunningThreads = 0
            /\ UNCHANGED <<nRunningThreads, thState, sock, server, accept>>
        BY <1>1 DEF SK!Search, DrainInv
      <3>2. CASE mainAt' = "drain" /\ iThread' = 0
        <4>1. \A s \in 0 .. iThread' - 1 : FALSE
          BY <3>2
        <4> QED
          BY <3>1, <3>2, <4>1 DEF DrainInv, SK!DrainLeavesLateAccept
      <3>3. CASE mainAt' \in {"search", "spawn", "joining"}
        BY <3>1, <3>3 DEF DrainInv, SK!DrainLeavesLateAccept
      <3> QED
        BY <1>1, <3>2, <3>3 DEF SK!Search
    <2> QED
      BY <2>1, <2>2, <2>3
  <1>2. CASE SK!JoinStopped
    <2>1. SK!TypeOK'
      BY <1>2 DEF SK!JoinStopped, SK!TypeOK
    <2>2. SlotsInv'
      BY <1>2 DEF SK!JoinStopped, SK!TypeOK, SlotsInv
    <2>3. DrainInv'
      BY <1>2 DEF SK!JoinStopped, SK!TypeOK, DrainInv, SK!DrainLeavesLateAccept
    <2> QED
      BY <2>1, <2>2, <2>3
  <1>3. CASE SK!Spawn
    <2>1. SK!TypeOK'
      BY <1>3 DEF SK!Spawn, SK!TypeOK, SK!Slots
    <2>2. SlotsInv'
      BY <1>3 DEF SK!Spawn, SK!TypeOK, SlotsInv
    <2>3. DrainInv'
      BY <1>3 DEF SK!Spawn, SK!TypeOK, DrainInv, SK!DrainLeavesLateAccept
    <2> QED
      BY <2>1, <2>2, <2>3
  <1>4. CASE SK!WaitAccept
    <2>1. SK!TypeOK'
      BY <1>4 DEF SK!WaitAccept, SK!TypeOK, SK!Slots, SK!NoAccept
    <2>2. SlotsInv'
      BY <1>4 DEF SK!WaitAccept, SK!TypeOK, SlotsInv, SK!NoAccept
    <2>3. DrainInv'
      BY <1>4 DEF SK!WaitAccept, SK!TypeOK, DrainInv, SK!DrainLeavesLateAccept
    <2> QED
      BY <2>1, <2>2, <2>3
  <1> QED
    BY <1>1, <1>2, <1>3, <1>4

(* A slot that main leaves behind in its rounds, with the threads it has   *)
(* counted in this one.                                                    *)
LEMMA SKVisited ==
  ASSUME SKInv, NEW running \in Nat, SK!Visited(running),
         running \in {nRunningThreads, nRunningThreads + 1},
         mainAt \in {"drain", "first", "second"}, accept' = accept,
         \A s \in SK!Slots : s # iThread => server'[s] = server[s],
         running = 0 => server'[iThread] \in {"none", "ended"}
  PROVE  /\ mainAt' \in {"drain", "shutdown"} /\ iThread' \in SK!Slots
         /\ nRunningThreads' \in 0 .. MaxClients
         /\ DrainInv'
  <1>1. /\ iThread \in SK!Slots /\ nRunningThreads \in Nat /\ nRunningThreads <= iThread
        /\ MaxClients \in Nat \ {0} /\ iThread \in 0 .. MaxClients - 1
    BY ServersAssumption DEF SKInv, SK!TypeOK, DrainInv, SK!Slots
  <1>2. running = 0 =>
          \A s \in 0 .. iThread : server'[s] \notin {"none", "ended"} => LateAccept(s)'
    <2>1. running = 0 => nRunningThreads = 0
      BY <1>1
    <2>2. nRunningThreads = 0 =>
            \A s \in 0 .. iThread - 1 : server[s] \notin {"none", "ended"} => LateAccept(s)
      BY DEF SKInv, DrainInv
    <2>3. \A s \in 0 .. iThread : s \in SK!Slots /\ (s # iThread => s \in 0 .. iThread - 1)
      BY <1>1 DEF SK!Slots
    <2> QED
      BY <2>1, <2>2, <2>3 DEF LateAccept
  <1>3. CASE iThread < MaxClients - 1
    <2>1. mainAt' = "drain" /\ iThread' = iThread + 1 /\ nRunningThreads' = running
      BY <1>3 DEF SK!Visited
    <2>2. iThread' \in SK!Slots /\ iThread' - 1 = iThread /\ running <= iThread' /\ running \in 0 .. MaxClients
      BY <1>1, <1>3, <2>1 DEF SK!Slots
    <2> QED
      BY <1>2, <2>1, <2>2 DEF DrainInv, SK!DrainLeavesLateAccept
  <1>4. CASE iThread = MaxClients - 1 /\ running = 0
    <2>1. mainAt' = "shutdown" /\ iThread' = iThread /\ nRunningThreads' = 0
      BY <1>1, <1>4 DEF SK!Visited
    <2>2. SK!Slots = 0 .. iThread
      BY <1>4 DEF SK!Slots
    <2> QED
      BY <1>1, <1>2, <1>4, <2>1, <2>2 DEF DrainInv, SK!DrainLeavesLateAccept, LateAccept
  <1>5. CASE iThread = MaxClients - 1 /\ running # 0
    <2>1. mainAt' = "drain" /\ iThread' = 0 /\ nRunningThreads' = 0
      BY <1>1, <1>5 DEF SK!Visited, SK!ToDrain
    <2> QED
      BY <1>1, <2>1 DEF DrainInv, SK!DrainLeavesLateAccept, SK!Slots
  <1> QED
    BY <1>1, <1>3, <1>4, <1>5

LEMMA SKDrain ==
  ASSUME SKInv, SK!DrainSlot \/ SK!DrainJoin \/ SK!DrainTimeout
  PROVE  SKInv'
  <1> USE ServersAssumption DEF SKInv, SK!slots, SK!clients
  <1>0. nRunningThreads \in Nat /\ iThread \in SK!Slots
    BY DEF SK!TypeOK
  <1>1. CASE SK!DrainSlot
    <2>1. mainAt = "drain" /\ UNCHANGED <<shutFlag, listening, SK!slots, accept, SK!clients>>
      BY <1>1 DEF SK!DrainSlot
    <2>2. CASE mainAt' = "first" /\ UNCHANGED <<iThread, nRunningThreads>>
      <3>1. SK!TypeOK'
        BY <2>1, <2>2 DEF SK!TypeOK, SK!Holding
      <3>2. SlotsInv'
        BY <2>1, <2>2 DEF SlotsInv
      <3>3. DrainInv'
        BY <2>1, <2>2 DEF DrainInv, SK!DrainLeavesLateAccept, LateAccept
      <3> QED
        BY <3>1, <3>2, <3>3
    <2>3. CASE thState[iThread] \notin {"RUNNING", "STOPPED"} /\ SK!Visited(nRunningThreads)
      <3>1. server[iThread] = "none"
        BY <1>0, <2>3 DEF SK!TypeOK, SlotsInv
      <3>2. /\ mainAt' \in {"drain", "shutdown"} /\ iThread' \in SK!Slots
            /\ nRunningThreads' \in 0 .. MaxClients /\ DrainInv'
        BY <1>0, <2>1, <2>3, <3>1, SKVisited
      <3>3. SK!TypeOK'
        BY <2>1, <3>2 DEF SK!TypeOK
      <3>4. SlotsInv'
        BY <2>1, <3>2 DEF SlotsInv
      <3> QED
        BY <3>2, <3>3, <3>4
    <2> QED
      BY <1>1, <2>2, <2>3 DEF SK!DrainSlot
  <1>2. CASE SK!DrainJoin
    <2>1. /\ mainAt = "first" /\ server' = [server EXCEPT ![iThread] = "none"]
          /\ thState' = [thState EXCEPT ![iThread] = "INVALID"]
          /\ SK!Visited(nRunningThreads)
          /\ UNCHANGED <<shutFlag, listening, sock, accept, SK!clients>>
      BY <1>2 DEF SK!DrainJoin
    <2>2. /\ server'[iThread] = "none"
          /\ \A s \in SK!Slots : s # iThread => server'[s] = server[s] /\ thState'[s] = thState[s]
      BY <1>0, <2>1 DEF SK!TypeOK
    <2>3. /\ mainAt' \in {"drain", "shutdown"} /\ iThread' \in SK!Slots
          /\ nRunningThreads' \in 0 .. MaxClients /\ DrainInv'
      BY <1>0, <2>1, <2>2, SKVisited
    <2>4. SK!TypeOK'
      BY <2>1, <2>3 DEF SK!TypeOK
    <2>5. SlotsInv'
      BY <1>0, <2>1, <2>2, <2>3 DEF SK!TypeOK, SlotsInv
    <2> QED
      BY <2>3, <2>4, <2>5
  <1>3. CASE SK!DrainTimeout
    <2>1. UNCHANGED <<shutFlag, listening, SK!slots, accept, SK!clients>>
      BY <1>3 DEF SK!DrainTimeout
    <2>2. CASE mainAt = "first" /\ mainAt' = "second" /\ UNCHANGED <<iThread, nRunningThreads>>
      <3>1. SK!TypeOK'
        BY <2>1, <2>2 DEF SK!TypeOK, SK!Holding
      <3>2. SlotsInv'
        BY <2>1, <2>2 DEF SlotsInv
      <3>3. DrainInv'
        BY <2>1, <2>2 DEF DrainInv, SK!DrainLeavesLateAccept, LateAccept
      <3> QED
        BY <3>1, <3>2, <3>3
    <2>3. CASE mainAt = "second" /\ SK!Visited(nRunningThreads + (IF server[iThread] = "ended" THEN 0 ELSE 1))
      <3> DEFINE running == nRunningThreads + (IF server[iThread] = "ended" THEN 0 ELSE 1)
      <3>1. /\ running \in Nat /\ running \in {nRunningThreads, nRunningThreads + 1}
            /\ running = 0 => server[iThread] = "ended"
        BY <1>0
      <3>2. /\ mainAt' \in {"drain", "shutdown"} /\ iThread' \in SK!Slots
            /\ nRunningThreads' \in 0 .. MaxClients /\ DrainInv'
        <4>1. SK!Visited(running)
          BY <2>3
        <4> HIDE DEF running
        <4> QED
          BY <2>1, <2>3, <3>1, <4>1, SKVisited
      <3>3. SK!TypeOK'
        BY <2>1, <3>2 DEF SK!TypeOK
      <3>4. SlotsInv'
        BY <2>1, <3>2 DEF SlotsInv
      <3> QED
        BY <3>2, <3>3, <3>4
    <2> QED
      BY <1>3, <2>2, <2>3 DEF SK!DrainTimeout
  <1> QED
    BY <1>1, <1>2, <1>3

(* main leaves, a console event comes, or a client acts.                   *)
LEMMA SKOutside ==
  ASSUME SKInv, \/ SK!CloseListener \/ SK!Exit \/ SK!Handler
                \/ \E c \in Clients : SK!Client(c)
                \/ UNCHANGED skVars
  PROVE  SKInv'
  <1>1. UNCHANGED <<thState, sock, server, accept, iThread, nRunningThreads>>
    BY DEF SK!CloseListener, SK!Exit, SK!Handler, SK!Client, SK!Connect, SK!Command,
           SK!ReceiveResponse, skVars, SK!slots, SK!main, SK!clients
  <1>2. \/ mainAt' = mainAt
        \/ mainAt = "shutdown" /\ mainAt' = "last"
        \/ mainAt = "last" /\ mainAt' = "exited"
    BY DEF SK!CloseListener, SK!Exit, SK!Handler, SK!Client, SK!Connect, SK!Command,
           SK!ReceiveResponse, skVars, SK!slots, SK!main, SK!clients
  <1>3. SK!TypeOK'
    <2>1. shutFlag' \in BOOLEAN /\ listening' \in BOOLEAN
      BY DEF SKInv, SK!TypeOK, SK!CloseListener, SK!Exit, SK!Handler, SK!Client, SK!Connect, SK!Command,
             SK!ReceiveResponse, skVars, SK!slots, SK!main, SK!clients
    <2>2. client' \in [Clients -> {"start", "prompt", "await", "left"}] /\ closed' \subseteq Clients
      BY DEF SKInv, SK!TypeOK, SK!CloseListener, SK!Exit, SK!Handler, SK!Client, SK!Connect, SK!Command,
             SK!ReceiveResponse, skVars, SK!slots, SK!main, SK!clients
    <2>3. backlog' \in Seq(Clients)
      <3>1. backlog \in Seq(Clients)
        BY DEF SKInv, SK!TypeOK
      <3>2. \/ backlog' = backlog \/ backlog' = <<>>
            \/ \E c \in Clients : backlog' = Append(backlog, c)
        BY DEF SK!CloseListener, SK!Exit, SK!Handler, SK!Client, SK!Connect, SK!Command,
               SK!ReceiveResponse, skVars, SK!slots, SK!main, SK!clients
      <3>3. <<>> \in Seq(Clients) /\ \A c \in Clients : Append(backlog, c) \in Seq(Clients)
        BY <3>1, EmptySeq, AppendProperties
      <3> QED
        BY ONLY <3>1, <3>2, <3>3
    <2>4. inbox' \in [Clients -> Seq({"command", "$Quit"})]
      <3>1. inbox \in [Clients -> Seq({"command", "$Quit"})]
        BY DEF SKInv, SK!TypeOK
      <3>2. \/ inbox' = inbox
            \/ \E c \in Clients, r \in {"command", "$Quit"} : inbox' = [inbox EXCEPT ![c] = Append(@, r)]
        BY DEF SK!CloseListener, SK!Exit, SK!Handler, SK!Client, SK!Connect, SK!Command,
               SK!ReceiveResponse, skVars, SK!slots, SK!main, SK!clients
      <3>3. \A c \in Clients, r \in {"command", "$Quit"} : Append(inbox[c], r) \in Seq({"command", "$Quit"})
        BY <3>1, AppendProperties
      <3> QED
        BY <3>1, <3>2, <3>3
    <2>5. mainAt' \in SK!Holding \cup {"search", "spawn", "wait", "drain", "shutdown", "last", "exited"}
      BY <1>2 DEF SKInv, SK!TypeOK
    <2> QED
      BY <1>1, <2>1, <2>2, <2>3, <2>4, <2>5 DEF SKInv, SK!TypeOK
  <1>4. SlotsInv'
    BY <1>1, <1>2 DEF SKInv, SlotsInv
  <1>5. DrainInv'
    BY <1>1, <1>2 DEF SKInv, DrainInv, SK!DrainLeavesLateAccept, LateAccept
  <1> QED
    BY <1>3, <1>4, <1>5 DEF SKInv

LEMMA SKAccept ==
  ASSUME SKInv, SK!AcceptThread
  PROVE  SKInv'
  <1> USE DEF SKInv, SK!main, SK!clients
  <1>1. CASE SK!Accept
    <2>1. /\ accept.at = "accept" /\ accept' = [accept EXCEPT !.at = "lock"]
          /\ UNCHANGED <<shutFlag, listening, thState, server, mainAt, iThread, nRunningThreads,
                         client, inbox, closed>>
      BY <1>1 DEF SK!Accept
    <2>2. accept' = [at |-> "lock", slot |-> accept.slot] /\ accept.slot \in SK!Slots
      BY <2>1 DEF SK!TypeOK
    <2>3. SK!TypeOK'
      <3>1. sock' \in [SK!Slots -> Clients \cup {NoSock}] /\ backlog' \in Seq(Clients)
        <4>1. sock \in [SK!Slots -> Clients \cup {NoSock}] /\ backlog \in Seq(Clients)
          BY DEF SK!TypeOK
        <4>2. CASE /\ backlog # <<>> /\ sock' = [sock EXCEPT ![accept.slot] = Head(backlog)]
                   /\ backlog' = Tail(backlog)
          <5>1. Head(backlog) \in Clients /\ Tail(backlog) \in Seq(Clients)
            BY <4>1, <4>2, HeadTailProperties
          <5> QED
            BY <4>1, <4>2, <5>1
        <4>3. CASE sock' = [sock EXCEPT ![accept.slot] = NoSock] /\ UNCHANGED backlog
          BY <4>1, <4>3
        <4> QED
          BY <1>1, <4>2, <4>3 DEF SK!Accept
      <3> QED
        BY <2>1, <2>2, <3>1 DEF SK!TypeOK
    <2>4. SlotsInv'
      BY <2>1, <2>2 DEF SlotsInv
    <2>5. DrainInv'
      BY <2>1, <2>2 DEF DrainInv, SK!DrainLeavesLateAccept, LateAccept
    <2> QED
      BY <2>3, <2>4, <2>5
  <1>2. CASE SK!BeginServer
    <2>1. /\ accept.at = "lock" /\ accept' = [accept EXCEPT !.at = "ended"]
          /\ server' = [server EXCEPT ![accept.slot] = "loop"]
          /\ thState' = [thState EXCEPT ![accept.slot] = "RUNNING"]
          /\ UNCHANGED <<shutFlag, listening, sock, mainAt, iThread, nRunningThreads,
                         client, backlog, inbox, closed>>
      BY <1>2 DEF SK!BeginServer
    <2>2. accept' = [at |-> "ended", slot |-> accept.slot] /\ accept.slot \in SK!Slots
      BY <2>1 DEF SK!TypeOK
    <2>3. /\ server'[accept.slot] = "loop" /\ thState'[accept.slot] = "RUNNING"
          /\ \A s \in SK!Slots : s # accept.slot => server'[s] = server[s] /\ thState'[s] = thState[s]
      BY <2>1, <2>2 DEF SK!TypeOK
    <2>4. SK!TypeOK'
      BY <2>1, <2>2 DEF SK!TypeOK
    <2>5. SlotsInv'
      BY <2>1, <2>2, <2>3 DEF SlotsInv
    <2>6. DrainInv'
      <3>1. \A s \in SK!Slots : server'[s] \notin {"none", "ended"} =>
              LateAccept(s)' \/ (server[s] \notin {"none", "ended"} /\ ~LateAccept(s))
        BY <2>1, <2>2, <2>3 DEF LateAccept
      <3>2. \A s \in 0 .. iThread - 1 : s \in SK!Slots
        BY ServersAssumption DEF SK!TypeOK, SK!Slots
      <3> QED
        BY <2>1, <3>1, <3>2 DEF DrainInv, SK!DrainLeavesLateAccept, LateAccept
    <2> QED
      BY <2>4, <2>5, <2>6
  <1> QED
    BY <1>1, <1>2 DEF SK!AcceptThread

(* A server thread never leaves its slot for main to take as a free one.   *)
LEMMA SKServer ==
  ASSUME SKInv, NEW s \in SK!Slots, SK!Server(s)
  PROVE  SKInv'
  <1> USE DEF SKInv, SK!main, SK!clients
  <1>1. /\ server[s] \notin {"none", "ended"}
        /\ \E at \in {"loop", "receive", "close", "stop", "return", "ended"} :
             server' = [server EXCEPT ![s] = at]
        /\ thState' = thState \/ thState' = [thState EXCEPT ![s] = "STOPPED"]
        /\ UNCHANGED <<shutFlag, listening, sock, accept, mainAt, iThread, nRunningThreads,
                       client, backlog>>
    <2>1. CASE SK!LoopTest(s)
      BY <2>1 DEF SK!LoopTest
    <2>2. CASE SK!Receive(s)
      BY <2>2 DEF SK!Receive
    <2>3. CASE SK!CloseConnection(s)
      BY <2>3 DEF SK!CloseConnection
    <2>4. CASE SK!Stop(s)
      BY <2>4 DEF SK!Stop
    <2>5. CASE SK!Return(s)
      BY <2>5 DEF SK!Return
    <2> QED
      BY <2>1, <2>2, <2>3, <2>4, <2>5 DEF SK!Server
  <1>2. /\ server'[s] # "none"
        /\ \A q \in SK!Slots : q # s => server'[q] = server[q] /\ thState'[q] = thState[q]
        /\ thState'[s] \in {thState[s], "STOPPED"}
    BY <1>1 DEF SK!TypeOK
  <1>3. inbox' \in [Clients -> Seq({"command", "$Quit"})] /\ closed' \subseteq Clients
    <2>1. /\ inbox \in [Clients -> Seq({"command", "$Quit"})] /\ closed \subseteq Clients
          /\ sock[s] \in Clients \cup {NoSock}
      BY DEF SK!TypeOK
    <2>2. \/ inbox' = inbox
          \/ sock[s] # NoSock /\ inbox[sock[s]] # <<>> /\ inbox' = [inbox EXCEPT ![sock[s]] = Tail(@)]
      BY DEF SK!Server, SK!LoopTest, SK!Receive, SK!CloseConnection, SK!Stop, SK!Return
    <2>3. closed' = closed \/ closed' = closed \cup ({sock[s]} \ {NoSock})
      BY DEF SK!Server, SK!LoopTest, SK!Receive, SK!CloseConnection, SK!Stop, SK!Return
    <2>4. \A c \in Clients : inbox[c] # <<>> => Tail(inbox[c]) \in Seq({"command", "$Quit"})
      BY <2>1, HeadTailProperties
    <2>5. closed' \subseteq Clients
      BY ONLY <2>1, <2>3
    <2>6. CASE inbox' = inbox
      BY ONLY <2>1, <2>5, <2>6
    <2>7. CASE sock[s] # NoSock /\ inbox[sock[s]] # <<>> /\ inbox' = [inbox EXCEPT ![sock[s]] = Tail(@)]
      <3>1. PICK c \in Clients : c = sock[s]
        BY <2>1, <2>7
      <3>2. PICK rest \in Seq({"command", "$Quit"}) : rest = Tail(inbox[c])
        BY ONLY <2>4, <2>7, <3>1
      <3>3. inbox' = [inbox EXCEPT ![c] = rest]
        BY ONLY <2>7, <3>1, <3>2
      <3>4. inbox' \in [Clients -> Seq({"command", "$Quit"})]
        BY ONLY <2>1, <3>3, rest \in Seq({"command", "$Quit"}), c \in Clients
      <3> QED
        BY <2>5, <3>4
    <2> QED
      BY <2>2, <2>6, <2>7
  <1>4. SK!TypeOK'
    BY <1>1, <1>3 DEF SK!TypeOK
  <1>5. SlotsInv'
    BY <1>1, <1>2 DEF SK!TypeOK, SlotsInv
  <1>6. DrainInv'
    <2>1. \A q \in SK!Slots : server'[q] \notin {"none", "ended"} => server[q] \notin {"none", "ended"}
      BY <1>1, <1>2
    <2>2. \A q \in 0 .. iThread - 1 : q \in SK!Slots
      BY ServersAssumption DEF SK!TypeOK, SK!Slots
    <2> QED
      BY <1>1, <2>1, <2>2 DEF DrainInv, SK!DrainLeavesLateAccept, LateAccept
  <1> QED
    BY <1>4, <1>5, <1>6

LEMMA SKNext ==
  ASSUME SKInv, SK!Next \/ UNCHANGED skVars
  PROVE  SKInv'
  BY SKSearch, SKDrain, SKOutside, SKAccept, SKServer DEF SK!Next, SK!Main

-----------------------------------------------------------------------------
(* The message functions                                                   *)

(* The first end mark. *)
LEMMA EndAtIs ==
  ASSUME NEW b \in Seq(Nat), CS!HasEnd(b)
  PROVE  /\ CS!EndAt(b) \in 1 .. Len(b) /\ b[CS!EndAt(b)] = CS!End
         /\ \A j \in 1 .. CS!EndAt(b) - 1 : b[j] # CS!End
  <1> DEFINE Ends == {i \in 1 .. Len(b) : b[i] = CS!End}
  <1>1. Len(b) \in Nat /\ DOMAIN b = 1 .. Len(b)
    BY LenProperties
  <1>2. Ends \subseteq Nat /\ Ends # {}
    BY <1>1 DEF CS!HasEnd
  <1>3. PICK i \in Ends : \A j \in Ends : i <= j
    <2> HIDE DEF Ends
    <2> QED
      BY <1>2, LeastElement
  <1>4. i \in DOMAIN b /\ b[i] = CS!End /\ \A j \in 1 .. i - 1 : b[j] # CS!End
    BY <1>1, <1>3
  <1>5. CS!EndAt(b) \in DOMAIN b /\ b[CS!EndAt(b)] = CS!End
        /\ \A j \in 1 .. CS!EndAt(b) - 1 : b[j] # CS!End
    BY <1>4 DEF CS!EndAt
  <1> QED
    BY <1>1, <1>5

LEMMA EndAtSplits ==
  ASSUME NEW b \in Seq(Nat), CS!HasEnd(b)
  PROVE  /\ CS!UpToEnd(b) \in Seq(Nat) /\ CS!AfterEnd(b) \in Seq(Nat)
         /\ CS!UpToEnd(b) \o CS!AfterEnd(b) = b
         /\ Len(CS!UpToEnd(b)) = CS!EndAt(b)
         /\ Len(CS!AfterEnd(b)) < Len(b)
         /\ \A i \in 1 .. CS!EndAt(b) : CS!UpToEnd(b)[i] = b[i]
  <1> DEFINE n == CS!EndAt(b)
  <1>1. n \in 0 .. Len(b) /\ n >= 1 /\ Len(b) \in Nat
    BY EndAtIs, LenProperties
  <1> HIDE DEF n
  <1>2. /\ SubSeq(b, 1, n) \in Seq(Nat) /\ Len(SubSeq(b, 1, n)) = n
        /\ SubSeq(b, n + 1, Len(b)) \in Seq(Nat) /\ Len(SubSeq(b, n + 1, Len(b))) = Len(b) - n
        /\ SubSeq(b, 1, n) \o SubSeq(b, n + 1, Len(b)) = b
        /\ \A i \in 1 .. n : SubSeq(b, 1, n)[i] = b[i]
    BY <1>1, Cut
  <1>3. Len(SubSeq(b, n + 1, Len(b))) < Len(b)
    BY <1>1, <1>2
  <1> QED
    BY <1>2, <1>3 DEF n, CS!UpToEnd, CS!AfterEnd

LEMMA NoEnd ==
  ASSUME NEW b \in Seq(Nat)
  PROVE  CS!HasEnd(b) <=> \E i \in 1 .. Len(b) : b[i] = CS!End
  BY LenProperties DEF CS!HasEnd

(* What a call returns that has read m and then finds an end mark in b.    *)
LEMMA EndMakesWhole ==
  ASSUME NEW m \in Seq(Nat), NEW b \in Seq(Nat), ~CS!HasEnd(m), CS!HasEnd(b)
  PROVE  Whole(m \o CS!UpToEnd(b))
  <1> DEFINE u == CS!UpToEnd(b)
             d == m \o u
             n == CS!EndAt(b)
  <1>1. /\ u \in Seq(Nat) /\ Len(u) = n /\ n \in Nat \ {0}
        /\ u[n] = CS!End /\ \A j \in 1 .. n - 1 : u[j] # CS!End
    <2>1. /\ n \in 1 .. Len(b) /\ Len(b) \in Nat /\ b[n] = CS!End
          /\ \A j \in 1 .. n - 1 : b[j] # CS!End
      BY EndAtIs, LenProperties
    <2>2. u \in Seq(Nat) /\ Len(u) = n /\ \A i \in 1 .. n : u[i] = b[i]
      BY EndAtSplits
    <2> HIDE DEF n, u
    <2>3. n \in Nat \ {0} /\ n \in 1 .. n /\ \A j \in 1 .. n - 1 : j \in 1 .. n
      BY <2>1
    <2> QED
      BY <2>1, <2>2, <2>3
  <1>2. Len(m) \in Nat /\ \A j \in 1 .. Len(m) : m[j] # CS!End
    BY NoEnd, LenProperties
  <1> HIDE DEF u, n
  <1>3. /\ d \in Seq(Nat) /\ Len(d) = Len(m) + n
        /\ \A j \in 1 .. Len(m) + n : d[j] = IF j <= Len(m) THEN m[j] ELSE u[j - Len(m)]
    BY <1>1, ConcatProperties
  <1> HIDE DEF d
  <1>4. \A j \in 1 .. Len(d) - 1 : d[j] # CS!End
    <2> TAKE j \in 1 .. Len(d) - 1
    <2>1. j \in 1 .. Len(m) + n /\ (j <= Len(m) => j \in 1 .. Len(m))
          /\ (~(j <= Len(m)) => j - Len(m) \in 1 .. n - 1)
      <3>1. Len(m) \in Nat /\ n \in Nat /\ j \in 1 .. Len(m) + n - 1
        BY <1>1, <1>2, <1>3
      <3> QED
        BY ONLY <3>1, SMT
    <2>2. d[j] = IF j <= Len(m) THEN m[j] ELSE u[j - Len(m)]
      BY <1>3, <2>1
    <2> QED
      BY <1>1, <1>2, <2>1, <2>2
  <1>5. Len(d) >= 1 /\ d[Len(d)] = CS!End
    <2>1. Len(d) \in 1 .. Len(m) + n /\ ~(Len(d) <= Len(m)) /\ Len(d) - Len(m) = n /\ Len(d) >= 1
      BY <1>1, <1>2, <1>3
    <2>2. d[Len(d)] = IF Len(d) <= Len(m) THEN m[Len(d)] ELSE u[Len(d) - Len(m)]
      BY <1>3, <2>1
    <2> QED
      BY <1>1, <2>1, <2>2
  <1>6. Whole(d)
    BY <1>3, <1>4, <1>5 DEF Whole
  <1> QED
    BY <1>6 DEF d, u

LEMMA NoEndConcat ==
  ASSUME NEW m \in Seq(Nat), NEW b \in Seq(Nat), ~CS!HasEnd(m), ~CS!HasEnd(b)
  PROVE  m \o b \in Seq(Nat) /\ ~CS!HasEnd(m \o b) /\ Len(m \o b) = Len(m) + Len(b)
  <1> DEFINE d == m \o b
  <1>1. /\ d \in Seq(Nat) /\ Len(d) = Len(m) + Len(b)
        /\ \A j \in 1 .. Len(m) + Len(b) : d[j] = IF j <= Len(m) THEN m[j] ELSE b[j - Len(m)]
    BY ConcatProperties
  <1>2. Len(m) \in Nat /\ Len(b) \in Nat
    BY LenProperties
  <1> HIDE DEF d
  <1>3. ASSUME NEW j \in 1 .. Len(d), d[j] = CS!End
        PROVE  FALSE
    <2>1. j \in 1 .. Len(m) + Len(b) /\ (j <= Len(m) => j \in 1 .. Len(m))
          /\ (~(j <= Len(m)) => j - Len(m) \in 1 .. Len(b))
      BY <1>1, <1>2
    <2> QED
      BY <1>1, <1>3, <2>1, NoEnd
  <1>4. ~CS!HasEnd(d)
    BY <1>1, <1>3, NoEnd
  <1> QED
    BY <1>1, <1>4 DEF d

LEMMA SameFlatten ==
  \A q : CS!FlattenSeq(q) = FlattenSeq(q)
  BY DEF CS!FlattenSeq, FlattenSeq

LEMMA EncodedType ==
  ASSUME NEW length \in Nat, sent \in Seq(Nat)
  PROVE  CS!Encoded(length) \in Seq(Nat)
  <1> DEFINE n == IF length + 1 < MaxMessage THEN length + 1 ELSE MaxMessage
  <1>1. n \in Nat
    BY ServersAssumption
  <1>2. Len(sent) \in Nat
    BY LenProperties
  <1>3. \A i \in 1 .. n : (IF i = length + 1 THEN CS!End ELSE Len(sent) + i) \in Nat
    BY <1>1, <1>2 DEF CS!End
  <1>4. CS!Encoded(length) = [i \in 1 .. n |-> IF i = length + 1 THEN CS!End ELSE Len(sent) + i]
    BY DEF CS!Encoded
  <1> HIDE DEF n
  <1>5. CS!Encoded(length) \in [1 .. n -> Nat]
    BY <1>3, <1>4
  <1> QED
    BY <1>1, <1>5, SeqDef

LEMMA CSInit ==
  ASSUME CS!Init
  PROVE  CSInv
  <1> USE ServersAssumption DEF CS!Init
  <1>1. toSend \in Seq(Nat)
    OBVIOUS
  <1>2. /\ <<>> \in Seq(Nat) /\ <<>> \in Seq(Seq(Nat)) /\ Len(<<>>) = 0
        /\ <<>> \o <<>> = <<>>
    BY EmptySeq, ConcatEmptySeq
  <1>3. CS!TypeOK
    <2>1. Len(staticBuff) < BufLen /\ nRemainRecv \in 0 .. BufLen
      BY <1>2
    <2>2. hungUp \in BOOLEAN /\ connected \in BOOLEAN
      OBVIOUS
    <2> QED
      BY <1>1, <1>2, <2>1, <2>2 DEF CS!TypeOK, CS!Bytes
  <1>4. ReceiveInv
    BY <1>2 DEF ReceiveInv
  <1>5. CS!StreamIntact
    BY <1>2, SameFlatten, FlattenEmpty DEF CS!StreamIntact
  <1> QED
    BY <1>3, <1>4, <1>5 DEF CSInv

LEMMA CSTypes ==
  ASSUME CSInv
  PROVE  /\ toSend \in Seq(Nat) /\ sending \in Seq(Nat) /\ sent \in Seq(Nat) /\ wire \in Seq(Nat)
         /\ staticBuff \in Seq(Nat) /\ message \in Seq(Nat) /\ delivered \in Seq(Seq(Nat))
         /\ FlattenSeq(delivered) \in Seq(Nat)
         /\ sent = FlattenSeq(delivered) \o message \o staticBuff \o wire \o sending
  BY SameFlatten, FlattenInSeq DEF CSInv, CS!TypeOK, CS!Bytes, CS!StreamIntact

(* The sender. *)
LEMMA CSSend ==
  ASSUME CSInv, CS!BeginSend \/ CS!Send \/ CS!HangUp
  PROVE  CSInv'
  <1>1. UNCHANGED <<staticBuff, message, nRemainRecv, delivered, connected>>
    BY DEF CS!BeginSend, CS!Send, CS!HangUp
  <1>2. ReceiveInv'
    BY <1>1 DEF CSInv, ReceiveInv
  <1> DEFINE x == FlattenSeq(delivered) \o message \o staticBuff
  <1>3. x \in Seq(Nat) /\ sent = (x \o wire) \o sending
    BY CSTypes, ConcatProperties
  <1>4. CS!StreamIntact' <=> sent' = (x \o wire') \o sending'
    BY <1>1, SameFlatten DEF CS!StreamIntact
  <1> HIDE DEF x
  <1>5. /\ toSend' \in Seq(Nat) /\ sending' \in Seq(Nat) /\ sent' \in Seq(Nat) /\ wire' \in Seq(Nat)
        /\ hungUp' \in BOOLEAN
        /\ sent' = (x \o wire') \o sending'
    <2>0. /\ toSend \in Seq(Nat) /\ sending \in Seq(Nat) /\ sent \in Seq(Nat) /\ wire \in Seq(Nat)
          /\ hungUp \in BOOLEAN
      BY CSTypes DEF CSInv, CS!TypeOK
    <2>1. CASE CS!BeginSend
      <3>1. /\ sending = <<>> /\ toSend # <<>> /\ toSend' = Tail(toSend)
            /\ sending' = CS!Encoded(Head(toSend)) /\ sent' = sent \o sending'
            /\ wire' = wire /\ hungUp' = hungUp
        BY <2>1 DEF CS!BeginSend
      <3>2. Head(toSend) \in Nat /\ Tail(toSend) \in Seq(Nat)
        BY <2>0, <3>1, HeadTailProperties
      <3>3. sending' \in Seq(Nat)
        BY <2>0, <3>1, <3>2, EncodedType
      <3>4. sent' \in Seq(Nat)
        BY <2>0, <3>1, <3>3, ConcatProperties
      <3>5. x \o wire \in Seq(Nat)
        BY <1>3, <2>0, ConcatProperties
      <3>6. (x \o wire) \o <<>> = x \o wire
        BY <3>5, ConcatEmptySeq
      <3>7. sent = x \o wire
        BY <1>3, <3>1, <3>6
      <3> QED
        BY <2>0, <3>1, <3>2, <3>3, <3>4, <3>7
    <2>2. CASE CS!Send
      <3>1. PICK n \in 1 .. Len(sending) : /\ wire' = wire \o SubSeq(sending, 1, n)
                                           /\ sending' = SubSeq(sending, n + 1, Len(sending))
        BY <2>2 DEF CS!Send
      <3>2. toSend' = toSend /\ sent' = sent /\ hungUp' = hungUp
        BY <2>2 DEF CS!Send
      <3> DEFINE p == SubSeq(sending, 1, n)
                 q == SubSeq(sending, n + 1, Len(sending))
      <3>3. p \in Seq(Nat) /\ q \in Seq(Nat) /\ p \o q = sending
        <4>1. n \in 0 .. Len(sending)
          BY <2>0, LenProperties
        <4> QED
          BY <2>0, <4>1, Cut
      <3>4. wire' = wire \o p /\ sending' = q
        BY <3>1
      <3> HIDE DEF p, q
      <3>5. (x \o wire) \o (p \o q) = (x \o (wire \o p)) \o q /\ wire \o p \in Seq(Nat)
        <4>1. x \in Seq(Nat) /\ wire \in Seq(Nat) /\ p \in Seq(Nat) /\ q \in Seq(Nat)
          BY <1>3, <2>0, <3>3
        <4>2. GroupedSent(x, wire, p, q) /\ wire \o p \in Seq(Nat)
          BY <4>1, RegroupSent, ConcatInSeq
        <4> QED
          BY <4>2 DEF GroupedSent
      <3> QED
        BY <1>3, <2>0, <3>2, <3>3, <3>4, <3>5
    <2>3. CASE CS!HangUp
      BY <1>3, <2>0, <2>3 DEF CS!HangUp
    <2> QED
      BY <2>1, <2>2, <2>3
  <1>6. CS!TypeOK'
    BY <1>1, <1>5 DEF CSInv, CS!TypeOK, CS!Bytes
  <1> QED
    BY <1>2, <1>4, <1>5, <1>6 DEF CSInv

LEMMA DeliveredWhole ==
  ASSUME CSInv, NEW d \in Seq(Nat), Whole(d)
  PROVE  /\ Append(delivered, d) \in Seq(Seq(Nat))
         /\ \A i \in 1 .. Len(Append(delivered, d)) : Whole(Append(delivered, d)[i])
         /\ FlattenSeq(Append(delivered, d)) = FlattenSeq(delivered) \o d
  <1>1. /\ delivered \in Seq(Seq(Nat)) /\ Len(delivered) \in Nat
        /\ \A i \in 1 .. Len(delivered) : Whole(delivered[i])
    BY CSTypes, LenProperties DEF CSInv, ReceiveInv
  <1> DEFINE r == Append(delivered, d)
  <1>2. /\ r \in Seq(Seq(Nat)) /\ Len(r) = Len(delivered) + 1 /\ r[Len(delivered) + 1] = d
        /\ \A i \in 1 .. Len(delivered) : r[i] = delivered[i]
        /\ FlattenSeq(r) = FlattenSeq(delivered) \o d
    BY <1>1, AppendProperties, FlattenAppend
  <1> HIDE DEF r
  <1>3. \A i \in 1 .. Len(r) : Whole(r[i])
    <2> TAKE i \in 1 .. Len(r)
    <2>1. i = Len(delivered) + 1 \/ i \in 1 .. Len(delivered)
      BY <1>1, <1>2
    <2> QED
      BY <1>1, <1>2, <2>1
  <1> QED
    BY <1>2, <1>3 DEF r

(* The stream stays intact when a call changes how the part of it before   *)
(* the wire is divided.                                                    *)
LEMMA StreamKept ==
  ASSUME CSInv, UNCHANGED <<sent, sending>>,
         FlattenSeq(delivered') \o message' \o staticBuff' \o wire'
           = FlattenSeq(delivered) \o message \o staticBuff \o wire
  PROVE  CS!StreamIntact'
  <1>1. sent = FlattenSeq(delivered) \o message \o staticBuff \o wire \o sending
    BY CSTypes
  <1> QED
    BY <1>1, SameFlatten DEF CS!StreamIntact

LEMMA CSBeginReceive ==
  ASSUME CSInv, CS!BeginReceive
  PROVE  CSInv'
  <1>0. /\ nRemainRecv = 0 /\ message = <<>> /\ staticBuff \in Seq(Nat)
        /\ UNCHANGED <<toSend, sending, sent, wire, hungUp, connected>>
        /\ Len(staticBuff) \in Nat /\ Len(staticBuff) < BufLen
    BY LenProperties DEF CSInv, CS!TypeOK, CS!Bytes, ReceiveInv, CS!BeginReceive
  <1> DEFINE a == FlattenSeq(delivered)
  <1>1. /\ a \in Seq(Nat) /\ a \o <<>> = a /\ wire \in Seq(Nat)
        /\ <<>> \in Seq(Nat) /\ Len(<<>>) = 0
    BY CSTypes, ConcatEmptySeq, EmptySeq
  <1>2. CASE CS!HasEnd(staticBuff)
    <2> DEFINE u == CS!UpToEnd(staticBuff)
               v == CS!AfterEnd(staticBuff)
    <2>1. /\ delivered' = Append(delivered, u) /\ staticBuff' = v
          /\ message' = <<>> /\ nRemainRecv' = 0
      BY <1>0, <1>2 DEF CS!BeginReceive
    <2>2. /\ u \in Seq(Nat) /\ v \in Seq(Nat) /\ u \o v = staticBuff
          /\ Len(v) < Len(staticBuff) /\ Len(v) \in Nat
      BY <1>0, <1>2, EndAtSplits, LenProperties
    <2>3. Whole(u)
      <3>1. ~CS!HasEnd(<<>>)
        BY DEF CS!HasEnd
      <3>2. Whole(<<>> \o u)
        BY <1>0, <1>1, <1>2, <3>1, EndMakesWhole
      <3> QED
        BY <2>2, <3>2, ConcatEmptySeq
    <2> HIDE DEF u, v
    <2>4. /\ delivered' \in Seq(Seq(Nat)) /\ FlattenSeq(delivered') = a \o u
          /\ \A i \in 1 .. Len(delivered') : Whole(delivered'[i])
      BY <2>1, <2>2, <2>3, DeliveredWhole
    <2> HIDE DEF a
    <2>5. (a \o u) \o <<>> \o v = a \o (u \o v)
      <3> DEFINE x == a \o u
      <3>1. x \in Seq(Nat) /\ x \o v = a \o (u \o v)
        <4>1. a \in Seq(Nat) /\ u \in Seq(Nat) /\ v \in Seq(Nat)
          BY <1>1, <2>2
        <4>2. a \o u \in Seq(Nat)
          BY ONLY <4>1, ConcatProperties
        <4>3. (a \o u) \o v = a \o (u \o v)
          <5>1. Grouped(a, u, v)
            BY ONLY <4>1, Regroup
          <5> QED
            BY ONLY <5>1 DEF Grouped
        <4> QED
          BY <4>2, <4>3
      <3> HIDE DEF x
      <3>2. x \o <<>> = x
        BY <3>1, ConcatEmptySeq
      <3>3. x \o <<>> \o v = a \o (u \o v)
        BY <3>1, <3>2
      <3> QED
        BY <3>3 DEF x
    <2>6. CS!StreamIntact'
      BY <1>0, <1>1, <2>1, <2>2, <2>4, <2>5, StreamKept DEF a
    <2>7. CS!TypeOK'
      BY <1>0, <1>1, <2>1, <2>2, <2>4, ServersAssumption DEF CSInv, CS!TypeOK, CS!Bytes
    <2>8. ReceiveInv'
      BY <2>1, <2>4 DEF ReceiveInv
    <2> QED
      BY <2>6, <2>7, <2>8 DEF CSInv
  <1>3. CASE ~CS!HasEnd(staticBuff)
    <2>1. /\ message' = staticBuff /\ nRemainRecv' = BufLen - Len(staticBuff)
          /\ staticBuff' = <<>> /\ delivered' = delivered
      BY <1>3 DEF CS!BeginReceive
    <2>2. nRemainRecv' \in 1 .. BufLen /\ nRemainRecv' + 2 * Len(message') >= BufLen
      BY <1>0, <2>1, ServersAssumption
    <2> HIDE DEF a
    <2>3. a \o staticBuff \o <<>> = a \o staticBuff
      <3>1. a \o staticBuff \in Seq(Nat)
        BY <1>0, <1>1, ConcatProperties
      <3> QED
        BY <3>1, ConcatEmptySeq
    <2>4. CS!StreamIntact'
      BY <1>0, <1>1, <2>1, <2>3, StreamKept DEF a
    <2>5. CS!TypeOK'
      BY <1>0, <1>1, <2>1, <2>2, ServersAssumption DEF CSInv, CS!TypeOK, CS!Bytes
    <2>6. ReceiveInv'
      BY <1>3, <2>1, <2>2 DEF CSInv, ReceiveInv
    <2> QED
      BY <2>4, <2>5, <2>6 DEF CSInv
  <1> QED
    BY <1>2, <1>3

(* The chunk c arrives and r is left on the wire. *)
LEMMA CSTake ==
  ASSUME CSInv, NEW c \in Seq(Nat), NEW r \in Seq(Nat), CS!Take(c),
         nRemainRecv > 0, wire = c \o r, wire' = r, Len(c) \in 1 .. nRemainRecv,
         UNCHANGED <<toSend, sending, sent, hungUp, connected>>
  PROVE  CSInv'
  <1>0. /\ nRemainRecv \in 1 .. BufLen /\ staticBuff = <<>> /\ ~CS!HasEnd(message)
        /\ nRemainRecv + 2 * Len(message) >= BufLen
        /\ message \in Seq(Nat) /\ Len(message) \in Nat
        /\ BufLen \in Nat \ {0}
    BY LenProperties, ServersAssumption DEF CSInv, CS!TypeOK, CS!Bytes, ReceiveInv
  <1> DEFINE a == FlattenSeq(delivered)
  <1>1. /\ a \in Seq(Nat) /\ <<>> \in Seq(Nat) /\ Len(<<>>) = 0
    BY CSTypes, EmptySeq
  <1>2. CASE CS!HasEnd(c)
    <2> DEFINE u == CS!UpToEnd(c)
               v == CS!AfterEnd(c)
    <2>1. /\ delivered' = Append(delivered, message \o u) /\ staticBuff' = v
          /\ message' = <<>> /\ nRemainRecv' = 0
      BY <1>2 DEF CS!Take
    <2>2. /\ u \in Seq(Nat) /\ v \in Seq(Nat) /\ c = u \o v
          /\ Len(v) < BufLen /\ message \o u \in Seq(Nat)
      <3>1. u \in Seq(Nat) /\ v \in Seq(Nat) /\ c = u \o v /\ Len(v) < Len(c)
        BY <1>2, EndAtSplits
      <3>2. Len(v) < BufLen
        BY <1>0, <3>1, LenProperties
      <3> QED
        BY <1>0, <3>1, <3>2, ConcatProperties
    <2>3. Whole(message \o u)
      BY <1>0, <1>2, EndMakesWhole
    <2> HIDE DEF u, v
    <2>4. /\ delivered' \in Seq(Seq(Nat)) /\ FlattenSeq(delivered') = a \o (message \o u)
          /\ \A i \in 1 .. Len(delivered') : Whole(delivered'[i])
      BY <2>1, <2>2, <2>3, DeliveredWhole
    <2> HIDE DEF a
    <2>5. (a \o (message \o u)) \o <<>> \o v \o r = a \o message \o <<>> \o (c \o r)
      <3>1. (a \o message) \o c = ((a \o (message \o u)) \o <<>>) \o v
        <4>1. a \in Seq(Nat) /\ message \in Seq(Nat) /\ u \in Seq(Nat) /\ v \in Seq(Nat)
          BY <1>0, <1>1, <2>2
        <4>2. GroupedReturned(a, message, u, v)
          BY <4>1, RegroupReturned
        <4> QED
          BY <2>2, <4>2 DEF GroupedReturned
      <3> DEFINE x == a \o message
      <3>2. x \in Seq(Nat)
        BY <1>0, <1>1, ConcatProperties
      <3>3. x \o c = ((a \o (message \o u)) \o <<>>) \o v
        BY <3>1
      <3> HIDE DEF x
      <3>4. x \o <<>> = x /\ x \o (c \o r) = (x \o c) \o r
        <4>1. x \in Seq(Nat) /\ c \in Seq(Nat) /\ r \in Seq(Nat)
          BY <3>2
        <4>2. x \o <<>> = x
          BY ONLY <4>1, ConcatEmptySeq
        <4>3. x \o (c \o r) = (x \o c) \o r
          <5>1. Grouped(x, c, r)
            BY ONLY <4>1, Regroup
          <5> QED
            BY ONLY <5>1 DEF Grouped
        <4> QED
          BY ONLY <4>2, <4>3
      <3>5. (a \o (message \o u)) \o <<>> \o v \o r = x \o <<>> \o (c \o r)
        BY <3>3, <3>4
      <3> QED
        BY <3>5 DEF x
    <2>6. CS!StreamIntact'
      BY <1>0, <2>1, <2>4, <2>5, StreamKept DEF a
    <2>7. CS!TypeOK'
      BY <1>0, <1>1, <2>1, <2>2, <2>4 DEF CSInv, CS!TypeOK, CS!Bytes
    <2>8. ReceiveInv'
      BY <2>1, <2>4 DEF ReceiveInv
    <2> QED
      BY <2>6, <2>7, <2>8 DEF CSInv
  <1>3. CASE ~CS!HasEnd(c)
    <2> DEFINE left == nRemainRecv - 2 * Len(c)
               d == message \o c
    <2>1. /\ nRemainRecv' = (IF left > 0 THEN left ELSE 0)
          /\ message' = (IF left > 0 THEN d ELSE <<>>)
          /\ delivered' = (IF left > 0 THEN delivered ELSE Append(delivered, d))
          /\ staticBuff' = <<>>
      BY <1>0, <1>3 DEF CS!Take
    <2>2. /\ d \in Seq(Nat) /\ ~CS!HasEnd(d) /\ Len(d) = Len(message) + Len(c)
      BY <1>0, <1>3, NoEndConcat
    <2>3. left \in Int /\ left <= BufLen /\ left + 2 * Len(d) >= BufLen /\ Len(d) \in Nat
      BY <1>0, <2>2
    <2>4. (a \o d) \o <<>> \o r = a \o message \o <<>> \o (c \o r)
      <3> HIDE DEF a
      <3>1. a \in Seq(Nat) /\ message \in Seq(Nat) /\ c \in Seq(Nat) /\ r \in Seq(Nat)
        BY <1>0, <1>1
      <3>2. GroupedTaken(a, message, c, r)
        BY <3>1, RegroupTaken
      <3> QED
        BY <3>2 DEF GroupedTaken
    <2> HIDE DEF left, d
    <2>5. CASE left > 0
      <3>1. nRemainRecv' = left /\ message' = d /\ delivered' = delivered
        BY <2>1, <2>5
      <3>2. CS!StreamIntact'
        BY <1>0, <2>1, <2>4, <3>1, StreamKept DEF a
      <3>3. CS!TypeOK'
        BY <1>0, <1>1, <2>1, <2>2, <2>3, <2>5, <3>1 DEF CSInv, CS!TypeOK, CS!Bytes
      <3>4. ReceiveInv'
        <4>1. \A i \in 1 .. Len(delivered') : Whole(delivered'[i])
          BY <3>1 DEF CSInv, ReceiveInv
        <4>2. nRemainRecv' > 0 /\ nRemainRecv' # 0 /\ nRemainRecv' + 2 * Len(message') >= BufLen
          BY <2>3, <2>5, <3>1
        <4>3. staticBuff' = <<>> /\ ~CS!HasEnd(message')
          BY <2>1, <2>2, <3>1
        <4> QED
          BY <4>1, <4>2, <4>3 DEF ReceiveInv
      <3> QED
        BY <3>2, <3>3, <3>4 DEF CSInv
    <2>6. CASE ~(left > 0)
      <3>1. nRemainRecv' = 0 /\ message' = <<>> /\ delivered' = Append(delivered, d)
        BY <2>1, <2>6
      <3>2. Whole(d)
        <4>1. 2 * Len(d) >= BufLen
          BY <1>0, <2>3, <2>6
        <4>2. \A j \in 1 .. Len(d) - 1 : d[j] # CS!End
          <5>1. \A j \in 1 .. Len(d) : d[j] # CS!End
            BY <2>2, NoEnd
          <5>2. \A j \in 1 .. Len(d) - 1 : j \in 1 .. Len(d)
            BY <2>3
          <5> QED
            BY <5>1, <5>2
        <4> QED
          BY <2>2, <4>1, <4>2 DEF Whole
      <3>3. /\ delivered' \in Seq(Seq(Nat)) /\ FlattenSeq(delivered') = a \o d
            /\ \A i \in 1 .. Len(delivered') : Whole(delivered'[i])
        BY <2>2, <3>1, <3>2, DeliveredWhole
      <3>4. (a \o d) \o <<>> = a \o d
        <4> HIDE DEF a
        <4>1. a \o d \in Seq(Nat)
          BY <1>1, <2>2, ConcatProperties
        <4> QED
          BY <4>1, ConcatEmptySeq
      <3>5. CS!StreamIntact'
        BY <1>0, <2>1, <2>4, <3>1, <3>3, <3>4, StreamKept DEF a
      <3>6. CS!TypeOK'
        BY <1>0, <1>1, <2>1, <3>1, <3>3 DEF CSInv, CS!TypeOK, CS!Bytes
      <3>7. ReceiveInv'
        <4>1. ~(nRemainRecv' > 0)
          BY <3>1
        <4> QED
          BY <3>1, <3>3, <4>1 DEF ReceiveInv
      <3> QED
        BY <3>5, <3>6, <3>7 DEF CSInv
    <2> QED
      BY <2>5, <2>6
  <1> QED
    BY <1>2, <1>3

LEMMA CSRecv ==
  ASSUME CSInv, CS!Recv
  PROVE  CSInv'
  <1>1. CASE connected' = FALSE /\ UNCHANGED <<wire, staticBuff, message, nRemainRecv, delivered>>
    <2>1. UNCHANGED <<toSend, sending, sent, hungUp>>
      BY DEF CS!Recv
    <2>2. CS!TypeOK' /\ ReceiveInv' /\ CS!StreamIntact'
      BY <1>1, <2>1 DEF CSInv, CS!TypeOK, ReceiveInv, CS!StreamIntact
    <2> QED
      BY <2>2 DEF CSInv
  <1>2. CASE \E n \in 1 .. (IF Len(wire) < nRemainRecv THEN Len(wire) ELSE nRemainRecv) :
               /\ CS!Take(SubSeq(wire, 1, n))
               /\ wire' = SubSeq(wire, n + 1, Len(wire))
               /\ UNCHANGED connected
    <2>1. PICK n \in 1 .. (IF Len(wire) < nRemainRecv THEN Len(wire) ELSE nRemainRecv) :
               /\ CS!Take(SubSeq(wire, 1, n))
               /\ wire' = SubSeq(wire, n + 1, Len(wire))
               /\ UNCHANGED connected
      BY <1>2
    <2>2. /\ wire \in Seq(Nat) /\ Len(wire) \in Nat /\ nRemainRecv \in Nat
          /\ UNCHANGED <<toSend, sending, sent, hungUp>> /\ nRemainRecv > 0
      BY CSTypes, LenProperties DEF CSInv, CS!TypeOK, CS!Recv
    <2>3. n \in 0 .. Len(wire) /\ n \in 1 .. nRemainRecv
      BY <2>2
    <2> DEFINE c == SubSeq(wire, 1, n)
               r == SubSeq(wire, n + 1, Len(wire))
    <2>4. c \in Seq(Nat) /\ Len(c) = n /\ r \in Seq(Nat) /\ wire = c \o r
      BY <2>2, <2>3, Cut
    <2>5. CS!Take(c) /\ wire' = r
      BY <2>1
    <2> HIDE DEF c, r
    <2> QED
      BY <2>1, <2>2, <2>3, <2>4, <2>5, CSTake
  <1> QED
    BY <1>1, <1>2 DEF CS!Recv

LEMMA CSNext ==
  ASSUME CSInv, CS!Next \/ UNCHANGED msgVars
  PROVE  CSInv'
  <1>1. CASE UNCHANGED msgVars
    BY <1>1 DEF msgVars, CSInv, CS!TypeOK, ReceiveInv, CS!StreamIntact
  <1> QED
    BY <1>1, CSSend, CSBeginReceive, CSRecv DEF CS!Next

(* A message that reaches back to its end mark is what was sent up to it,  *)
(* and one that fills half of the buffer is no part of a short one.        *)
LEMMA WholeIsUpToEnd ==
  ASSUME NEW d \in Seq(Nat), NEW t \in Seq(Nat), Whole(d),
         CS!HasEnd(d \o t), 2 * (CS!EndAt(d \o t) - 1) < BufLen
  PROVE  d = CS!UpToEnd(d \o t)
  <1> DEFINE b == d \o t
             n == CS!EndAt(b)
  <1>1. /\ b \in Seq(Nat) /\ Len(b) = Len(d) + Len(t) /\ Len(d) \in Nat /\ Len(t) \in Nat
        /\ \A i \in 1 .. Len(d) : b[i] = d[i]
    <2>1. /\ b \in Seq(Nat) /\ Len(b) = Len(d) + Len(t) /\ Len(d) \in Nat /\ Len(t) \in Nat
          /\ \A i \in 1 .. Len(d) + Len(t) : b[i] = IF i <= Len(d) THEN d[i] ELSE t[i - Len(d)]
      BY ConcatProperties, LenProperties
    <2> HIDE DEF b
    <2> QED
      BY <2>1
  <1>2. CS!HasEnd(b) /\ 2 * (n - 1) < BufLen
    OBVIOUS
  <1> HIDE DEF b
  <1>3. /\ n \in 1 .. Len(b) /\ b[n] = CS!End /\ \A j \in 1 .. n - 1 : b[j] # CS!End
        /\ CS!UpToEnd(b) \in Seq(Nat) /\ Len(CS!UpToEnd(b)) = n
        /\ \A i \in 1 .. n : CS!UpToEnd(b)[i] = b[i]
    BY <1>1, <1>2, EndAtIs, EndAtSplits
  <1> HIDE DEF n
  <1>4. n = Len(d)
    <2>1. ~(n < Len(d))
      <3> SUFFICES ASSUME n < Len(d) PROVE FALSE
        OBVIOUS
      <3>1. Len(d) \in Nat /\ Len(b) \in Nat
        BY <1>1, LenProperties
      <3>2. n \in Nat /\ 1 <= n
        BY ONLY <1>3, <3>1, SMT
      <3>3. n \in 1 .. Len(d) - 1 /\ n \in 1 .. Len(d)
        BY ONLY <3>1, <3>2, n < Len(d), SMT
      <3>4. b[n] = d[n] /\ b[n] = CS!End
        BY <1>1, <1>3, <3>3
      <3> QED
        BY <3>3, <3>4 DEF Whole
    <2>2. ~(n > Len(d))
      <3> SUFFICES ASSUME n > Len(d) PROVE FALSE
        OBVIOUS
      <3>1. CASE Len(d) >= 1 /\ d[Len(d)] = CS!End
        <4>1. Len(d) \in 1 .. n - 1 /\ Len(d) \in 1 .. Len(d)
          BY <1>1, <1>3, <3>1
        <4> QED
          BY <1>1, <1>3, <3>1, <4>1
      <3>2. CASE 2 * Len(d) >= BufLen
        BY <1>1, <1>2, <1>3, <3>2, ServersAssumption
      <3> QED
        BY <3>1, <3>2 DEF Whole
    <2> QED
      BY <1>1, <1>3, <2>1, <2>2
  <1>5. d = CS!UpToEnd(b)
    BY <1>1, <1>3, <1>4, SeqEqual
  <1> QED
    BY <1>5 DEF b

LEMMA CSShort ==
  ASSUME CSInv
  PROVE  CS!ShortMessagesWhole
  <1> SUFFICES ASSUME NEW i \in DOMAIN delivered
               PROVE  LET before == CS!FlattenSeq(SubSeq(delivered, 1, i - 1))
                          rest == SubSeq(sent, Len(before) + 1, Len(sent))
                      IN  CS!HasEnd(rest) /\ 2 * (CS!EndAt(rest) - 1) < BufLen =>
                            delivered[i] = CS!UpToEnd(rest)
    BY DEF CS!ShortMessagesWhole
  <1>1. /\ delivered \in Seq(Seq(Nat)) /\ Len(delivered) \in Nat /\ i \in 1 .. Len(delivered)
        /\ Whole(delivered[i]) /\ delivered[i] \in Seq(Nat)
    BY CSTypes, LenProperties DEF CSInv, ReceiveInv, Whole
  <1> DEFINE p == SubSeq(delivered, 1, i - 1)
             q == SubSeq(delivered, i, Len(delivered))
             before == FlattenSeq(p)
             d == delivered[i]
             later == FlattenSeq(Tail(q))
  <1>2. /\ p \in Seq(Seq(Nat)) /\ q \in Seq(Seq(Nat)) /\ p \o q = delivered
        /\ q # <<>> /\ Head(q) = d
    <2>1. i - 1 \in 0 .. Len(delivered) /\ i - 1 + 1 = i /\ Len(delivered) \in i .. Len(delivered)
      BY <1>1
    <2> DEFINE k == i - 1
    <2>2. k \in 0 .. Len(delivered) /\ k + 1 = i
      BY <2>1
    <2> HIDE DEF k
    <2>3. /\ SubSeq(delivered, 1, k) \in Seq(Seq(Nat))
          /\ SubSeq(delivered, k + 1, Len(delivered)) \in Seq(Seq(Nat))
          /\ Len(SubSeq(delivered, k + 1, Len(delivered))) = Len(delivered) - k
          /\ SubSeq(delivered, 1, k) \o SubSeq(delivered, k + 1, Len(delivered)) = delivered
      BY <1>1, <2>2, Cut
    <2>4. p \in Seq(Seq(Nat)) /\ q \in Seq(Seq(Nat)) /\ p \o q = delivered /\ Len(q) = Len(delivered) - (i - 1)
      BY <2>2, <2>3 DEF k
    <2>5. q # <<>>
      <3>1. Len(q) # 0
        BY <1>1, <2>4
      <3> HIDE DEF q
      <3> QED
        BY <3>1, EmptySeq
    <2>6. Head(q) = d
      BY <1>1, <2>1, HeadTailOfSubSeq
    <2> QED
      BY <2>4, <2>5, <2>6
  <1> HIDE DEF p, q, d
  <1>3. /\ before \in Seq(Nat) /\ later \in Seq(Nat) /\ d \in Seq(Nat) /\ Whole(d)
        /\ FlattenSeq(delivered) = before \o (d \o later)
    <2>1. d \in Seq(Nat) /\ Whole(d)
      BY <1>1 DEF d
    <2>2. Tail(q) \in Seq(Seq(Nat))
      BY <1>2, HeadTailProperties
    <2>3. before \in Seq(Nat) /\ later \in Seq(Nat)
      BY <1>2, <2>2, FlattenInSeq
    <2>4. FlattenSeq(p \o q) = before \o FlattenSeq(q)
      BY <1>2, FlattenConcat
    <2>5. FlattenSeq(q) = Head(q) \o later
      BY <1>2, FlattenHeadTail
    <2> HIDE DEF before, later
    <2> QED
      BY <1>2, <2>1, <2>3, <2>4, <2>5
  <1> HIDE DEF before, later
  <1>4. PICK t \in Seq(Nat) : sent = before \o (d \o t)
    <2> DEFINE a == before \o (d \o later)
               x == ((message \o staticBuff) \o wire) \o sending
    <2>1. /\ sent = a \o message \o staticBuff \o wire \o sending
          /\ message \in Seq(Nat) /\ staticBuff \in Seq(Nat) /\ wire \in Seq(Nat) /\ sending \in Seq(Nat)
      BY <1>3, CSTypes
    <2>2. d \o later \in Seq(Nat)
      BY <1>3, ConcatProperties
    <2>3. a \in Seq(Nat)
      BY <1>3, <2>2, ConcatProperties
    <2>4. a \o message \o staticBuff \o wire \o sending = a \o x /\ x \in Seq(Nat)
      <3> HIDE DEF a
      <3> QED
        <4>1. GroupedStream(a, message, staticBuff, wire, sending) /\ x \in Seq(Nat)
          BY <2>1, <2>3, RegroupStream
        <4> QED
          BY <4>1 DEF GroupedStream
    <2> HIDE DEF x
    <2>5. a \o x = before \o (d \o (later \o x)) /\ later \o x \in Seq(Nat)
      <3>1. GroupedHead(before, d, later, x) /\ later \o x \in Seq(Nat)
        BY <1>3, <2>4, RegroupHead
      <3> QED
        BY <3>1 DEF GroupedHead
    <2> QED
      BY <2>1, <2>4, <2>5
  <1>5. SubSeq(sent, Len(before) + 1, Len(sent)) = d \o t
    <2> DEFINE b == d \o t
    <2>1. b \in Seq(Nat) /\ sent = before \o b
      BY <1>3, <1>4, ConcatProperties
    <2> HIDE DEF b
    <2>2. SubSeq(sent, Len(before) + 1, Len(sent)) = b
      BY <1>3, <2>1, DropFirst
    <2> QED
      BY <2>2 DEF b
  <1>6. CS!HasEnd(d \o t) /\ 2 * (CS!EndAt(d \o t) - 1) < BufLen => d = CS!UpToEnd(d \o t)
    BY <1>3, WholeIsUpToEnd
  <1>7. CS!FlattenSeq(SubSeq(delivered, 1, i - 1)) = before
    BY SameFlatten DEF before, p
  <1> QED
    BY <1>5, <1>6, <1>7 DEF d

-----------------------------------------------------------------------------
(* All programs *)

SlotStep ==
  \A s \in SK!Slots :
    sock'[s] # sock[s] \/ (server'[s] = "loop" /\ server[s] \notin {"loop", "receive"})
      => server[s] = "none"

(* What each step does to the socket and to the thread of a slot. *)
LEMMA SlotStepHolds ==
  ASSUME SKInv, SK!Next
  PROVE  SlotStep
  <1> USE DEF SKInv, SK!slots
  <1>1. CASE SK!Accept
    <2>1. /\ accept.at = "accept" /\ accept.slot \in SK!Slots /\ server' = server
          /\ \A s \in SK!Slots : s # accept.slot => sock'[s] = sock[s]
      BY <1>1 DEF SK!Accept, SK!TypeOK
    <2> QED
      BY <2>1 DEF SlotStep, SlotsInv
  <1>2. CASE SK!BeginServer
    <2>1. /\ accept.at = "lock" /\ accept.slot \in SK!Slots /\ sock' = sock
          /\ \A s \in SK!Slots : s # accept.slot => server'[s] = server[s]
      BY <1>2 DEF SK!BeginServer, SK!TypeOK
    <2> QED
      BY <2>1 DEF SlotStep, SlotsInv
  <1>3. CASE SK!JoinStopped \/ SK!DrainJoin
    <2>1. /\ sock' = sock
          /\ \A s \in SK!Slots : server'[s] \in {"none", server[s]}
      BY <1>3 DEF SK!JoinStopped, SK!DrainJoin, SK!TypeOK
    <2> QED
      BY <2>1 DEF SlotStep
  <1>4. CASE \E s \in SK!Slots : SK!Server(s)
    <2>1. PICK s \in SK!Slots : SK!Server(s)
      BY <1>4
    <2>2. /\ sock' = sock
          /\ \A q \in SK!Slots : q # s => server'[q] = server[q]
          /\ server'[s] = "loop" => server[s] \in {"loop", "receive"}
      BY <2>1 DEF SK!Server, SK!LoopTest, SK!Receive, SK!CloseConnection, SK!Stop, SK!Return, SK!TypeOK
    <2> QED
      BY <2>2 DEF SlotStep
  <1>5. CASE UNCHANGED <<sock, server>>
    BY <1>5 DEF SlotStep
  <1>6. \/ SK!Accept \/ SK!BeginServer \/ SK!JoinStopped \/ SK!DrainJoin
        \/ (\E s \in SK!Slots : SK!Server(s))
        \/ UNCHANGED <<sock, server>>
    BY DEF SK!Next, SK!Main, SK!AcceptThread, SK!Search, SK!Spawn, SK!WaitAccept, SK!DrainSlot,
           SK!DrainTimeout, SK!CloseListener, SK!Exit, SK!Handler, SK!Client, SK!Connect,
           SK!Command, SK!ReceiveResponse
  <1> QED
    BY <1>1, <1>2, <1>3, <1>4, <1>5, <1>6

ServersInv == SKInv /\ CSInv /\ NPInv /\ SVInv

LEMMA ServersInit ==
  ASSUME Init
  PROVE  ServersInv
  BY SKInit, CSInit, NPInit, SVInit DEF Init, ServersInv

(* A step of one program leaves the variables of the others alone.         *)
LEMMA ProgramStep ==
  ASSUME [Next]_vars
  PROVE  /\ SK!Next \/ UNCHANGED skVars
         /\ CS!Next \/ UNCHANGED msgVars
         /\ NP!Next \/ UNCHANGED npVars
         /\ SV!Next \/ UNCHANGED svVars
  BY DEF Next, vars, InSK, InCS, InNP, InSV

LEMMA ServersNext ==
  ASSUME ServersInv, [Next]_vars
  PROVE  ServersInv'
  BY ProgramStep, SKNext, CSNext, NPNext, SVNext DEF ServersInv

LEMMA ServersInvariant == Spec => []ServersInv
  <1>1. Init => ServersInv
    BY ServersInit
  <1>2. ServersInv /\ [Next]_vars => ServersInv'
    BY ServersNext
  <1> QED
    BY <1>1, <1>2, PTL DEF Spec

(* Every variable of the three servers and of the message functions keeps  *)
(* its type: no slot index leaves the array of MAX_CLIENTS, the count of   *)
(* running threads stays below it, no call takes more from what it may     *)
(* receive than there is, and the handle never fills.                      *)
THEOREM ServersTyping == Spec => []TypeOK
  <1>1. ServersInv => TypeOK
    BY DEF ServersInv, SKInv, CSInv, NPInv, SVInv, TypeOK
  <1> QED
    BY <1>1, ServersInvariant, PTL

(* The accept thread of serverSK fills a slot that no server thread uses,  *)
(* though main reads thState without the slot's critical section.          *)
THEOREM SlotNotShared == Spec => SlotServesOneClient
  <1>1. ServersInv /\ [Next]_vars => [SlotStep]_(SK!skVars)
    <2> SUFFICES ASSUME ServersInv, [Next]_vars
                 PROVE  SlotStep \/ UNCHANGED SK!skVars
      OBVIOUS
    <2>1. CASE SK!Next
      BY <2>1, SlotStepHolds DEF ServersInv
    <2>2. CASE UNCHANGED skVars
      BY <2>2 DEF skVars, SK!skVars, SK!slots, SK!main, SK!clients
    <2> QED
      BY <2>1, <2>2, ProgramStep
  <1> QED
    BY <1>1, ServersInvariant, PTL DEF Spec, SlotServesOneClient, SK!SlotServesOneClient, SlotStep

(* When main of serverSK has counted no running thread, every server       *)
(* thread but that of the last accept thread has been joined or has ended. *)
THEOREM DrainCountsAll == Spec => []DrainLeavesLateAccept
  <1>1. ServersInv => DrainLeavesLateAccept
    BY DEF ServersInv, SKInv, DrainInv, DrainLeavesLateAccept
  <1> QED
    BY <1>1, ServersInvariant, PTL

(* Whatever the lengths of the messages and of the buffer and however send *)
(* and recv cut the stream, ReceiveCSMessage returns the bytes in order,   *)
(* and a message shorter than half of the buffer whole and alone.          *)
THEOREM FramingKeepsMessages == Spec => []MessagesFramed
  <1>1. ServersInv => MessagesFramed
    BY CSShort DEF ServersInv, CSInv, MessagesFramed
  <1> QED
    BY <1>1, ServersInvariant, PTL

(* A response waits on a pipe of serverNP only for the client that sent    *)
(* the request, the next client finds nothing of the one before even if    *)
(* that was killed, a command never finds the output of an earlier one in  *)
(* the temporary file, and no request is lost before the shutdown.         *)
THEOREM PipeNotShared == Spec => []PipeServesOneClient
  <1>1. ServersInv => PipeServesOneClient
    BY DEF ServersInv, NPInv, PipeServesOneClient
  <1> QED
    BY <1>1, ServersInvariant, PTL

(* Between two calls of UpdateStatus the service manager holds the state   *)
(* that SimpleService has, unless the last calls of the two threads        *)
(* overlapped and the service was told to stop or a report failed; and a   *)
(* ServiceMain that has returned left the service stopped, or the control  *)
(* handler left it about to stop.                                          *)
THEOREM ManagerKnowsStatus == Spec => []StatusKnown
  <1>1. ServersInv => StatusKnown
    BY SVKnown DEF ServersInv, StatusKnown
  <1> QED
    BY <1>1, ServersInvariant, PTL
=============================================================================
