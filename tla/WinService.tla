----------------------------- MODULE WinService -----------------------------
(***************************************************************************)
(* win_service: a Server run by the service control manager.  Its          *)
(* dispatcher calls service_main in one thread and the control handler in  *)
(* another; both call the server and report what it does.  The manager is  *)
(* external: it sends a control only if the last reported status accepts   *)
(* it, one at a time, and none to a service that starts, stops or has      *)
(* stopped.  The service is server_main: its server has a group of the     *)
(* program's, which start() starts before the server and stop() stops      *)
(* gracefully after it.  The same as a console program is "program", whose *)
(* calls are those of Server; as a tool it installs, removes or commands a *)
(* service.                                                                *)
(***************************************************************************)
EXTENDS Server

CONSTANTS
  Pausable,   \* the server's start() may also accept pause and continue (set_controls)
  Programs    \* the ways in which the program is run

ASSUME WinServiceAssumption ==
  /\ Pausable \in BOOLEAN
  /\ Programs \subseteq {"program", "service", "tool"}

VARIABLES
  host,     \* how the program is run; "crashed" when an exception ends the service
  state,    \* dwCurrentState as reported by the last SetServiceStatus
  accepts,  \* dwControlsAccepted as reported
  entry,    \* where service_main is
  control,  \* the control the handler executes, if any
  calling,  \* the handler has called the server
  task,     \* install, remove or command
  handles,  \* the manager's handles the tool holds
  ret,      \* what the tool returned
  effect    \* the tool has created, deleted or commanded the service

serviceVars == <<state, accepts, entry, control, calling>>
toolVars == <<task, handles, ret, effect>>
allVars == <<vars, host, serviceVars, toolVars>>

Controls == {"stop", "pause", "continue"}
States == {"none", "START_PENDING", "RUNNING", "PAUSE_PENDING", "PAUSED",
           "CONTINUE_PENDING", "STOP_PENDING", "STOPPED"}

HostTypeOK ==
  /\ TypeOK
  /\ host \in {"program", "service", "tool", "crashed"}
  /\ state \in States /\ accepts \subseteq Controls
  /\ entry \in {"off", "registered", "initialised", "starting", "done"}
  /\ control \in Controls \cup {"none"} /\ calling \in BOOLEAN
  /\ task \in {"none", "install", "remove", "command"}
  /\ handles \subseteq {"manager", "service"}
  /\ ret \in {"none", "ok", "error"} /\ effect \in BOOLEAN

HostInit ==
  /\ Init
  /\ host \in Programs
  /\ state = "none" /\ accepts = {} /\ entry = "off"
  /\ control = "none" /\ calling = FALSE
  /\ task = "none" /\ handles = {} /\ ret = "none" /\ effect = FALSE
-----------------------------------------------------------------------------
(* service_main *)

\* register_service may fail; nothing is reported then.
Register ==
  /\ entry = "off"
  /\ \/ entry' = "registered" /\ state' = "START_PENDING"
     \/ entry' = "done" /\ UNCHANGED state
  /\ UNCHANGED <<accepts, control, calling, vars>>

\* server_main::init, called by start(): the parameters are wrong, or the server is
\* constructed.
InitFails ==
  /\ entry = "registered" /\ life = "none"
  /\ entry' = "done" /\ state' = "STOPPED"
  /\ UNCHANGED <<accepts, control, calling, vars>>
InitServer ==
  /\ entry = "registered"
  /\ Construct /\ group' = "down"
  /\ entry' = "initialised"
  /\ UNCHANGED <<state, accepts, control, calling>>

\* start(), called by service_main or for a continue, starts the group, and then calls
\* the server, whose start() tells nothing of a bind that failed.
StartGroup ==
  /\ entry = "initialised" \/ (control = "continue" /\ ~calling)
  /\ GroupStarts
  /\ UNCHANGED serviceVars
CallStart == Prepare(FALSE) \/ BindFails

StartServer ==
  /\ entry = "initialised" /\ group = "up"
  /\ CallStart
  /\ entry' = "starting"
  /\ UNCHANGED <<state, accepts, control, calling>>

\* set_controls and update_service_state, after start() has returned.
ReportRunning ==
  /\ entry = "starting" /\ main = "off"
  /\ entry' = "done" /\ state' = "RUNNING"
  /\ accepts' \in {{"stop"}} \cup (IF Pausable THEN {Controls} ELSE {})
  /\ UNCHANGED <<control, calling, vars>>

ServiceMain == Register \/ InitFails \/ InitServer \/ StartGroup \/ StartServer \/ ReportRunning
-----------------------------------------------------------------------------
(* win_service_handler *)

Pending(c) ==
  CASE c = "stop" -> "STOP_PENDING" [] c = "pause" -> "PAUSE_PENDING" [] OTHER -> "CONTINUE_PENDING"
Done(c) == CASE c = "stop" -> "STOPPED" [] c = "pause" -> "PAUSED" [] OTHER -> "RUNNING"

\* The manager sends a control; the pending state is reported first.  INTERROGATE
\* and a user's command report or change nothing.
Deliver ==
  /\ control = "none" /\ state \notin {"none", "START_PENDING", "STOP_PENDING", "STOPPED"}
  /\ \E c \in accepts : control' = c /\ state' = Pending(c)
  /\ calling' = FALSE
  /\ UNCHANGED <<accepts, entry, vars>>

\* server_main::stop: the server's, which does nothing unless it is started.
HandlerStops ==
  /\ control \in {"stop", "pause"} /\ ~calling
  /\ calling' = TRUE
  /\ IF started THEN StopCalled ELSE UNCHANGED vars
  /\ UNCHANGED <<host, state, accepts, entry, control>>

\* server_main::start.  The open() of an acceptor left open throws through the
\* handler and ends the process.
HandlerStarts ==
  /\ control = "continue" /\ ~calling /\ group = "up"
  /\ calling' = TRUE
  /\ IF started THEN UNCHANGED <<vars, host>>
     ELSE IF open THEN host' = "crashed" /\ UNCHANGED vars
     ELSE CallStart /\ UNCHANGED host
  /\ UNCHANGED <<state, accepts, entry, control>>

\* Mutants: the final state reported without waiting for stop() to return, and
\* never reported.
EarlyHandlerReports ==
  /\ calling
  /\ state' = Done(control) /\ control' = "none" /\ calling' = FALSE
  /\ UNCHANGED <<accepts, entry, vars>>
SilentHandler ==
  /\ calling /\ main = "off" /\ stopper = "off"
  /\ control' = "none" /\ calling' = FALSE
  /\ UNCHANGED <<state, accepts, entry, vars>>

\* start() has returned, or stop() has: the graceful stop of the group after the
\* server's waits until the sessions are over.  The final state is reported.
HandlerReports ==
  /\ calling /\ main = "off" /\ stopper = "off"
  /\ IF control = "continue" \/ group = "down" THEN UNCHANGED vars ELSE inUse = 0 /\ GroupStops
  /\ state' = Done(control) /\ control' = "none" /\ calling' = FALSE
  /\ UNCHANGED <<accepts, entry>>

\* The dispatcher returns from run(), and main() destroys the service and the server.
DispatcherReturns ==
  /\ entry = "done" /\ state = "STOPPED" /\ control = "none"
  /\ DestroyBegin
  /\ UNCHANGED serviceVars

\* The threads of a process that ends by an exception may go on for a moment.
Service ==
  /\ \/ /\ host = "service"
        /\ (ServiceMain \/ Deliver \/ HandlerReports \/ DispatcherReturns) /\ UNCHANGED host
     \/ host = "service" /\ (HandlerStops \/ HandlerStarts)
     \/ host \in {"service", "crashed"} /\ Threads /\ UNCHANGED <<host, serviceVars>>
  /\ UNCHANGED toolVars
-----------------------------------------------------------------------------
(* install, remove and command *)

\* The path of the program is too long, or the manager does not open.
OpenManager ==
  /\ task = "none"
  /\ task' \in {"install", "remove", "command"}
  /\ \/ handles' = {"manager"} /\ UNCHANGED ret
     \/ ret' = "error" /\ UNCHANGED handles
  /\ UNCHANGED effect

\* CreateService for install, OpenService for the others.
OpenService ==
  /\ handles = {"manager"}
  /\ \/ /\ handles' = {"manager", "service"}
        /\ effect' = (task = "install")
        /\ UNCHANGED ret
     \/ handles' = {} /\ ret' = "error" /\ UNCHANGED effect
  /\ UNCHANGED task

\* ChangeServiceConfig2, DeleteService or ControlService.
Act ==
  /\ handles = {"manager", "service"}
  /\ handles' = {}
  /\ \/ ret' = "ok" /\ effect' = TRUE
     \/ ret' = "error" /\ UNCHANGED effect
  /\ UNCHANGED task

Tool ==
  /\ host = "tool" /\ ret = "none"
  /\ OpenManager \/ OpenService \/ Act
  /\ UNCHANGED <<vars, host, serviceVars>>
-----------------------------------------------------------------------------
Program == host = "program" /\ Next /\ UNCHANGED <<host, serviceVars, toolVars>>

HostNext == Program \/ Service \/ Tool

\* A process that is not dead runs, the handler and service_main in it, and the
\* dispatcher returns.  Nobody has to send a control.
HostFairness ==
  /\ Fairness
  /\ WF_allVars(host = "service" /\ ServiceMain /\ UNCHANGED <<host, toolVars>>)
  /\ WF_allVars(host = "service" /\ (HandlerStops \/ HandlerStarts) /\ UNCHANGED toolVars)
  /\ WF_allVars(host = "service" /\ HandlerReports /\ UNCHANGED <<host, toolVars>>)
  /\ WF_allVars(host = "service" /\ DispatcherReturns /\ UNCHANGED <<host, toolVars>>)

HostSpec == HostInit /\ [][HostNext]_allVars /\ HostFairness
-----------------------------------------------------------------------------
(* Properties *)

\* What the service manager is told is true: a service that is reported stopped or
\* paused has no chain and no thread left, and no acceptor but one that a failed bind
\* left open; one that is reported running accepts, unless its bind failed, which
\* start() does not tell; and only the open() of an acceptor left open so ends the
\* process by an exception.  A tool that returns has closed its handles, and returns
\* ok only if it has done its task.
ReportedIsTrue ==
  /\ HostTypeOK
  /\ state \in {"STOPPED", "PAUSED"} =>
       main = "off" /\ ~started /\ ~thread /\ Chains = 0 /\ (open => unbound)
  /\ state = "RUNNING" => started \/ unbound
  /\ host = "crashed" => unbound
  /\ ret # "none" => handles = {} /\ (ret = "ok" => effect)

\* A service that is told to stop reports so, and its process gives back everything.
ServiceEnds == state = "STOP_PENDING" ~> state = "STOPPED" /\ life = "dead" /\ count = 0
=============================================================================
