--------------------------- MODULE SimpleService ---------------------------
(***************************************************************************)
(* The service run13/SimpleService.cpp, managed with run13/ServiceShell.cpp *)
(* through the service control manager (SCM). ServiceMain runs in a thread *)
(* of its own, the control handler in the thread of the dispatcher. Both   *)
(* call UpdateStatus, which changes the shared hServStatus and then reports *)
(* it; nothing orders the calls, nor the reports of the two threads on     *)
(* their way to the SCM.                                                   *)
(*                                                                         *)
(* dwCheckPoint, which tells the SCM that a pending state makes progress,  *)
(* is left out, and so is the run as a console application.                *)
(***************************************************************************)
EXTENDS Naturals

CONSTANT MaxFailures  \* bound on the calls of SetServiceStatus that fail

VARIABLES
  registered,      \* how the SCM knows the service
  serviceMain,     \* where ServiceMain is
  handler,         \* where ServiceCtrlHandler is
  hStat,           \* the handle is valid: the handler could be registered
  call,            \* the call of UpdateStatus in progress in each thread
  overlapped,      \* history: the last calls of the two threads overlapped
  dwCurrentState,  \* in hServStatus
  reported,        \* the state that the SCM holds
  shutDown,
  pauseFlag,
  failures

svVars == <<registered, serviceMain, handler, hStat, call, overlapped, dwCurrentState,
            reported, shutDown, pauseFlag, failures>>

Threads == {"main", "handler"}
States == {"START_PENDING", "RUNNING", "STOP_PENDING", "STOPPED"}
NoCall == [at |-> "none", status |-> "same"]

TypeOK ==
  /\ registered \in {"absent", "unusable", "installed", "deleted"}
  /\ serviceMain \in {"off", "entry", "specific", "running", "loop", "returned"}
  /\ handler \in {"idle", "again"}
  /\ hStat \in BOOLEAN /\ overlapped \in BOOLEAN
  /\ call \in [Threads -> [at : {"none", "set", "pass", "report"}, status : States \cup {"same"}]]
  /\ dwCurrentState \in States /\ reported \in States \cup {"STARTED"}
  /\ shutDown \in BOOLEAN /\ pauseFlag \in BOOLEAN
  /\ failures \in 0 .. MaxFailures

Init ==
  /\ registered \in {"absent", "installed"}
  /\ serviceMain = "off" /\ handler = "idle" /\ hStat = FALSE
  /\ call = [t \in Threads |-> NoCall] /\ overlapped = FALSE
  /\ dwCurrentState = "STOPPED" /\ reported = "STOPPED"
  /\ shutDown = FALSE /\ pauseFlag = FALSE
  /\ failures = 0

-----------------------------------------------------------------------------
(* UpdateStatus *)

Returned(t) == call[t] = NoCall

UpdateStatus(t, status) ==
  /\ call' = [call EXCEPT ![t] = [at |-> "set", status |-> status]]
  /\ overlapped' = (\E u \in Threads \ {t} : ~Returned(u))

(* Lines 128 to 131. *)
SetState(t) ==
  /\ call[t].at = "set"
  /\ dwCurrentState' = IF call[t].status = "same" THEN dwCurrentState ELSE call[t].status
  /\ call' = [call EXCEPT ![t].at = "pass"]
  /\ UNCHANGED <<registered, serviceMain, handler, hStat, overlapped, reported, shutDown,
                 pauseFlag, failures>>

(* Line 133: SetServiceStatus takes hServStatus as it is now. *)
Pass(t) ==
  /\ call[t].at = "pass"
  /\ call' = [call EXCEPT ![t] = [at |-> "report", status |-> dwCurrentState]]
  /\ UNCHANGED <<registered, serviceMain, handler, hStat, overlapped, dwCurrentState, reported,
                 shutDown, pauseFlag, failures>>

(* Without a handle every report fails. *)
ReportFails ==
  /\ hStat => failures < MaxFailures
  /\ failures' = IF hStat THEN failures + 1 ELSE failures
  /\ dwCurrentState' = "STOPPED"
  /\ UNCHANGED reported

(* A bug of that kind: the last failure is not reported again. *)
ReportOnce(t) ==
  /\ call[t].at = "report"
  /\ \/ hStat /\ reported' = call[t].status /\ UNCHANGED <<dwCurrentState, failures>>
     \/ ReportFails
  /\ call' = [call EXCEPT ![t] = NoCall]
  /\ UNCHANGED <<registered, serviceMain, handler, hStat, overlapped, shutDown, pauseFlag>>

(* Lines 133 to 146: what was passed reaches the SCM, after what the other *)
(* thread passed later perhaps. A failed report is followed by a call of   *)
(* UpdateStatus inside of this one.                                        *)
Report(t) ==
  /\ call[t].at = "report"
  /\ \/ /\ hStat /\ reported' = call[t].status
        /\ call' = [call EXCEPT ![t] = NoCall]
        /\ UNCHANGED <<dwCurrentState, failures>>
     \/ /\ ReportFails
        /\ call' = [call EXCEPT ![t] = [at |-> "set", status |-> "STOPPED"]]
  /\ UNCHANGED <<registered, serviceMain, handler, hStat, overlapped, shutDown, pauseFlag>>

(* The process is gone, and a service marked for deletion with it. *)
Gone ==
  /\ serviceMain' = "off" /\ handler' = "idle" /\ hStat' = FALSE
  /\ call' = [t \in Threads |-> NoCall] /\ overlapped' = FALSE
  /\ dwCurrentState' = "STOPPED" /\ reported' = "STOPPED"
  /\ shutDown' = FALSE /\ pauseFlag' = FALSE
  /\ registered' = IF registered = "deleted" THEN "absent" ELSE registered
  /\ UNCHANGED failures

(* Line 138: without a handle the calls inside of calls never end, and the *)
(* process is ended when they have used up the stack.                      *)
StackOverflow(t) ==
  /\ ~hStat /\ ~Returned(t)
  /\ Gone

-----------------------------------------------------------------------------
(* ServiceMain *)

(* Lines 55 to 75: the handler is registered, or the service has stopped.  *)
(* The result of the report in line 75 is not looked at.                   *)
Register ==
  /\ serviceMain = "entry"
  /\ \/ /\ hStat' = TRUE
        /\ dwCurrentState' = "START_PENDING"
        /\ \/ reported' = "START_PENDING" /\ UNCHANGED failures
           \/ failures < MaxFailures /\ failures' = failures + 1 /\ UNCHANGED reported
        /\ serviceMain' = "specific"
        /\ UNCHANGED <<call, overlapped>>
     \/ /\ dwCurrentState' = "STOPPED"
        /\ UpdateStatus("main", "STOPPED")
        /\ serviceMain' = "returned"
        /\ UNCHANGED <<hStat, reported, failures>>
  /\ UNCHANGED <<registered, handler, shutDown, pauseFlag>>

(* Lines 88 and 89. *)
ServiceSpecific ==
  /\ Returned("main")
  /\ \/ serviceMain = "specific" /\ UpdateStatus("main", "same") /\ serviceMain' = "running"
     \/ serviceMain = "running" /\ UpdateStatus("main", "RUNNING") /\ serviceMain' = "loop"
  /\ UNCHANGED <<registered, handler, hStat, dwCurrentState, reported, shutDown, pauseFlag,
                 failures>>

(* Lines 93 to 97, and 77 to 80 after the loop. *)
Loop ==
  /\ serviceMain = "loop" /\ Returned("main")
  /\ IF shutDown
     THEN UpdateStatus("main", "STOPPED") /\ serviceMain' = "returned"
     ELSE UpdateStatus("main", "same") /\ UNCHANGED serviceMain
  /\ UNCHANGED <<registered, handler, hStat, dwCurrentState, reported, shutDown, pauseFlag,
                 failures>>

(* The dispatcher returns when the service is known to have stopped and    *)
(* ends the process (lines 42 to 49), whatever ServiceMain does.           *)
ProcessEnds ==
  /\ serviceMain \notin {"off", "entry"}
  /\ reported = "STOPPED"
  /\ handler = "idle" /\ Returned("handler")
  /\ Gone

-----------------------------------------------------------------------------
(* ServiceCtrlHandler *)

(* A bug of that kind: a stop does not reach the main loop. *)
HandleForgetting(dwControl) ==
  /\ pauseFlag' = IF dwControl = "PAUSE" THEN TRUE
                  ELSE IF dwControl = "CONTINUE" THEN FALSE ELSE pauseFlag
  /\ IF dwControl \in {"STOP", "SHUTDOWN"}
     THEN UpdateStatus("handler", "STOP_PENDING") /\ handler' = "again"
     ELSE UpdateStatus("handler", "same") /\ handler' = "idle"
  /\ UNCHANGED shutDown

(* Lines 104 to 122. *)
Handle(dwControl) ==
  /\ pauseFlag' = IF dwControl = "PAUSE" THEN TRUE
                  ELSE IF dwControl = "CONTINUE" THEN FALSE ELSE pauseFlag
  /\ IF dwControl \in {"STOP", "SHUTDOWN"}
     THEN /\ shutDown' = TRUE
          /\ UpdateStatus("handler", "STOP_PENDING") /\ handler' = "again"
     ELSE /\ UpdateStatus("handler", "same") /\ handler' = "idle"
          /\ UNCHANGED shutDown

(* The SCM passes one control at a time to a service that it knows to run, *)
(* and a request to stop to one that is starting and has told that it      *)
(* takes controls (line 57).                                               *)
Deliver(dwControl) ==
  /\ reported \in IF dwControl \in {"STOP", "SHUTDOWN"} THEN {"START_PENDING", "RUNNING"}
                                                      ELSE {"RUNNING"}
  /\ handler = "idle" /\ Returned("handler")
  /\ Handle(dwControl)
  /\ UNCHANGED <<registered, serviceMain, hStat, dwCurrentState, reported, failures>>

(* Line 122 after line 108. *)
HandlerAgain ==
  /\ handler = "again" /\ Returned("handler")
  /\ UpdateStatus("handler", "same")
  /\ handler' = "idle"
  /\ UNCHANGED <<registered, serviceMain, hStat, dwCurrentState, reported, shutDown, pauseFlag,
                 failures>>

-----------------------------------------------------------------------------
(* ServiceShell *)

(* Lines 61 to 76: the path of the executable is left out of the string    *)
(* that is passed, so the service cannot be started.                       *)
Create ==
  /\ registered = "absent"
  /\ registered' = "unusable"
  /\ UNCHANGED <<serviceMain, handler, hStat, call, overlapped, dwCurrentState, reported,
                 shutDown, pauseFlag, failures>>

(* Lines 78 to 86: a running service goes when it stops. *)
Delete ==
  /\ registered \in {"unusable", "installed"}
  /\ registered' = IF serviceMain = "off" THEN "absent" ELSE "deleted"
  /\ UNCHANGED <<serviceMain, handler, hStat, call, overlapped, dwCurrentState, reported,
                 shutDown, pauseFlag, failures>>

(* Lines 89 to 99. The SCM holds the service for started, and passes no    *)
(* control before the service has reported for the first time.             *)
Start ==
  /\ registered = "installed" /\ serviceMain = "off"
  /\ serviceMain' = "entry"
  /\ reported' = "STARTED"
  /\ UNCHANGED <<registered, handler, hStat, call, overlapped, dwCurrentState, shutDown,
                 pauseFlag, failures>>

(* Lines 101 to 125: the words of the command line and their controls. *)
Control ==
  \E dwControl \in {"STOP", "PAUSE", "CONTINUE", "INTERROGATE", "user"} : Deliver(dwControl)

SystemShutdown == Deliver("SHUTDOWN")

-----------------------------------------------------------------------------
Shell == Create \/ Delete \/ Start \/ Control

Thread(t) == SetState(t) \/ Pass(t) \/ Report(t) \/ StackOverflow(t)
ServiceMain == Register \/ ServiceSpecific \/ Loop \/ Thread("main")
Dispatcher == HandlerAgain \/ Thread("handler") \/ ProcessEnds

Next == ServiceMain \/ Dispatcher \/ Shell \/ SystemShutdown

Fairness == WF_svVars(ServiceMain) /\ WF_svVars(Dispatcher)

Spec == Init /\ [][Next]_svVars /\ Fairness

-----------------------------------------------------------------------------
Quiet == \A t \in Threads : Returned(t)

(* Once UpdateStatus was called, the SCM holds the state that the service  *)
(* has whenever no call is in progress, unless the last calls of the two   *)
(* threads overlapped (lines 131 and 133); this takes a request to stop or *)
(* a report that failed to leave it with another state. A ServiceMain that *)
(* returned has left the service stopped, unless the handler wrote         *)
(* SERVICE_STOP_PENDING after it (line 108).                               *)
StatusKnown ==
  Quiet /\ serviceMain \notin {"off", "entry", "specific"} =>
    /\ reported = dwCurrentState \/ (overlapped /\ (shutDown \/ failures > 0))
    /\ serviceMain = "returned" => dwCurrentState \in {"STOPPED", "STOP_PENDING"}

(* While the service runs the loop of lines 93 to 97 makes up for a report *)
(* that came late.                                                         *)
StatusCatchesUp ==
  serviceMain = "loop" /\ reported # dwCurrentState ~>
    (serviceMain # "loop" \/ reported = dwCurrentState)

(* A service told to stop (lines 106 to 108) ends, or ServiceMain has      *)
(* returned and what reached the SCM last is not that it has stopped.      *)
StopEndsService ==
  handler = "again" ~>
    \/ serviceMain = "off"
    \/ serviceMain = "returned" /\ handler = "idle" /\ Quiet /\ reported # "STOPPED"
=============================================================================
