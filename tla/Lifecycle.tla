----------------------------- MODULE Lifecycle -----------------------------
(***************************************************************************)
(* The life of the process: main and waitForSignal (cmd/razvhost/main.go)  *)
(* with NewServer, Serve, Shutdown and Debug (pkg/server/server.go), run   *)
(* under a supervisor that restarts it, as the example in the README does. *)
(*                                                                         *)
(* The goroutines are main, Serve with one goroutine per listener, and     *)
(* Debug.  They race: log.Fatal in any of them ends all.                   *)
(***************************************************************************)
EXTENDS Integers, Sequences

CONSTANTS
  MaxConns,    \* bound: open connections of the internal server
  MaxSignals,  \* bound: signals sent to the process
  MaxFaults    \* bound: ports taken by others and listeners that break

ASSUME LifecycleAssumption ==
  MaxConns \in Nat /\ MaxSignals \in Nat /\ MaxFaults \in Nat

\* The internal server (the one Shutdown knows), the server that answers the
\* challenges of the certificate authority, and the debug listener.
ServerName == {"internal", "acme", "debug"}

VARIABLES
  args,        \* the command line: NoCert, and DebugAddr given
  proc,        \* "down", or where main is: "new" (in NewServer), "started"
               \* (goroutines started), "wait" (for a signal), "shutdown"
  status,      \* how the last process ended: "none", "0", "1" or "signal"
  listener,    \* for each server: "none", "starting", "listening", "closed"
               \* (ListenAndServe is about to return) or "sent" (to errChan)
  errChan,     \* Serve's channel of capacity one
  inShutdown,  \* internalServer.Shutdown was called
  sigChan,     \* a signal waits in sigChan
  open,        \* open connections of the internal server
  active,      \* those of them with a request that is being handled
  taken,       \* ports that other programs listen on
  causes,      \* history: what has happened to this process from outside,
               \* of "signal" (sent to it) and "fault" (of its ports)
  signals, faults   \* counters for the bounds

mainVars == <<proc, status>>
chanVars == <<errChan, inShutdown, sigChan>>
connVars == <<open, active>>
procVars == <<listener, chanVars, connVars>>
envVars == <<args, taken, causes, signals, faults>>
vars == <<mainVars, procVars, envVars>>

\* Mutant of Wanted: challenges are answered also where there are no
\* certificates.
WantedAcmeAlways ==
  {"internal", "acme"} \cup (IF args.debug THEN {"debug"} ELSE {})

\* The servers this command line asks for.
Wanted ==
  {"internal"} \cup (IF args.noCert THEN {} ELSE {"acme"})
               \cup (IF args.debug THEN {"debug"} ELSE {})

\* The address of the debug listener is another one than the two of Serve.
Port(s) ==
  CASE s = "internal" -> IF args.noCert THEN "80" ELSE "443"
    [] s = "acme" -> "80"
    [] s = "debug" -> "debug"

NoListener == [s \in ServerName |-> "none"]

Init ==
  /\ args \in [noCert : BOOLEAN, debug : BOOLEAN]
  /\ proc = "new"
  /\ status = "none"
  /\ listener = NoListener
  /\ errChan = <<>>
  /\ inShutdown = FALSE
  /\ sigChan = FALSE
  /\ open = 0 /\ active = 0
  /\ taken = {} /\ causes = {}
  /\ signals = 0 /\ faults = 0

\* The process ends, and with it every goroutine, listener and connection.
Exit(code) ==
  /\ proc' = "down"
  /\ status' = code
  /\ listener' = NoListener
  /\ errChan' = <<>>
  /\ inShutdown' = FALSE
  /\ sigChan' = FALSE
  /\ open' = 0 /\ active' = 0

-----------------------------------------------------------------------------
(***************************************************************************)
(* The main goroutine.                                                     *)
(***************************************************************************)

\* NewServer returns (its errors are only logged); the goroutines start.
NewServer ==
  /\ proc = "new"
  /\ proc' = "started"
  /\ listener' = [s \in ServerName |->
                    IF s \in Wanted THEN "starting" ELSE "none"]
  /\ UNCHANGED <<status, chanVars, connVars, envVars>>

\* signal.Notify: from here on a signal does not kill the process.
Notify ==
  /\ proc = "started"
  /\ proc' = "wait"
  /\ UNCHANGED <<status, procVars, envVars>>

\* Mutant of Shutdown: the listener stays open.
ShutdownKeepsListener ==
  /\ proc = "wait"
  /\ sigChan
  /\ sigChan' = FALSE
  /\ proc' = "shutdown"
  /\ inShutdown' = TRUE
  /\ UNCHANGED <<status, listener, errChan, connVars, envVars>>

\* The signal is received; http.Server.Shutdown closes the listener and the
\* idle connections.
Shutdown ==
  /\ proc = "wait"
  /\ sigChan
  /\ sigChan' = FALSE
  /\ proc' = "shutdown"
  /\ inShutdown' = TRUE
  /\ listener' = IF listener["internal"] = "listening"
                 THEN [listener EXCEPT !["internal"] = "closed"]
                 ELSE listener
  /\ UNCHANGED <<status, errChan, connVars, envVars>>

\* No connection has a request: the idle ones are closed and main returns.
ShutdownDone ==
  /\ proc = "shutdown"
  /\ active = 0
  /\ Exit("0")
  /\ UNCHANGED envVars

-----------------------------------------------------------------------------
(***************************************************************************)
(* The goroutines of Serve and Debug.                                      *)
(***************************************************************************)

\* ListenAndServe will not listen: the port is taken, by another program or
\* by another server of this one, or Shutdown was first.
Refused(s) ==
  \/ Port(s) \in taken
  \/ \E t \in ServerName : listener[t] = "listening" /\ Port(t) = Port(s)
  \/ s = "internal" /\ inShutdown

Listen(s) ==
  /\ listener[s] = "starting"
  /\ listener' = [listener EXCEPT ![s] =
                    IF Refused(s) THEN "closed" ELSE "listening"]
  /\ causes' = causes \cup (IF Port(s) \in taken THEN {"fault"} ELSE {})
  /\ UNCHANGED <<mainVars, chanVars, connVars, args, taken, signals, faults>>

\* ListenAndServe returns, always with an error.  Debug, and Serve without
\* certificates, return it to log.Fatal.
Fatal(s) ==
  /\ listener[s] = "closed"
  /\ s = "debug" \/ args.noCert
  /\ Exit("1")
  /\ UNCHANGED envVars

\* Mutant of SendError: the channel has no limit.
SendErrorUnbounded(s) ==
  /\ listener[s] = "closed"
  /\ s # "debug" /\ ~args.noCert
  /\ errChan' = Append(errChan, s)
  /\ listener' = [listener EXCEPT ![s] = "sent"]
  /\ UNCHANGED <<mainVars, inShutdown, sigChan, connVars, envVars>>

\* With certificates the error goes to errChan.
SendError(s) ==
  /\ listener[s] = "closed"
  /\ s # "debug" /\ ~args.noCert
  /\ errChan = <<>>
  /\ errChan' = <<s>>
  /\ listener' = [listener EXCEPT ![s] = "sent"]
  /\ UNCHANGED <<mainVars, inShutdown, sigChan, connVars, envVars>>

\* Mutant of ServeReturns: Serve waits until both servers have ended.
ServeReturnsLast ==
  /\ errChan # <<>>
  /\ IF \A s \in {"internal", "acme"} : listener[s] = "sent"
     THEN Exit("1")
     ELSE /\ errChan' = <<>>
          /\ UNCHANGED <<mainVars, listener, inShutdown, sigChan, connVars>>
  /\ UNCHANGED envVars

\* Serve returns the first error to log.Fatal.
ServeReturns ==
  /\ errChan # <<>>
  /\ Exit("1")
  /\ UNCHANGED envVars

-----------------------------------------------------------------------------
(***************************************************************************)
(* Connections of the internal server.  A request may take for ever (a     *)
(* tailed log).  Shutdown does not know the connections of the other       *)
(* servers, which end with the process and are not modelled.               *)
(***************************************************************************)
Accept ==
  /\ listener["internal"] = "listening"
  /\ open < MaxConns
  /\ open' = open + 1
  /\ UNCHANGED <<mainVars, listener, chanVars, active, envVars>>

BeginRequest ==
  /\ active < open
  /\ active' = active + 1
  /\ UNCHANGED <<mainVars, listener, chanVars, open, envVars>>

\* The connection stays open for the next request unless Shutdown was called.
EndRequest ==
  /\ active > 0
  /\ active' = active - 1
  /\ open' = IF inShutdown THEN open - 1 ELSE open
  /\ UNCHANGED <<mainVars, listener, chanVars, envVars>>

CloseConnection ==
  /\ open > active
  /\ open' = open - 1
  /\ UNCHANGED <<mainVars, listener, chanVars, active, envVars>>

-----------------------------------------------------------------------------
(***************************************************************************)
(* The environment.                                                        *)
(***************************************************************************)

\* A signal kills the process before Notify; later it waits in sigChan, or is
\* dropped when one is there.
Signal ==
  /\ proc # "down"
  /\ signals < MaxSignals
  /\ signals' = signals + 1
  /\ causes' = causes \cup {"signal"}
  /\ IF proc \in {"new", "started"}
     THEN Exit("signal")
     ELSE /\ sigChan' = TRUE
          /\ UNCHANGED <<mainVars, listener, errChan, inShutdown, connVars>>
  /\ UNCHANGED <<args, taken, faults>>

Fault ==
  /\ faults < MaxFaults
  /\ faults' = faults + 1
  /\ UNCHANGED <<mainVars, chanVars, connVars, args, signals>>

\* Another program takes a port of razvhost that is free.
TakePort(s) ==
  /\ Fault
  /\ s \in Wanted
  /\ \A t \in Wanted : Port(t) = Port(s) => listener[t] # "listening"
  /\ taken' = taken \cup {Port(s)}
  /\ UNCHANGED <<listener, causes>>

FreePort ==
  /\ taken # {}
  /\ taken' = {}
  /\ UNCHANGED <<mainVars, procVars, args, causes, signals, faults>>

\* Accept returns an error that is not temporary.
AcceptFails(s) ==
  /\ Fault
  /\ listener[s] = "listening"
  /\ listener' = [listener EXCEPT ![s] = "closed"]
  /\ causes' = causes \cup {"fault"}
  /\ UNCHANGED taken

\* The supervisor starts the program again, with the same command line.
Restart ==
  /\ proc = "down"
  /\ proc' = "new"
  /\ causes' = {}
  /\ UNCHANGED <<status, procVars, args, taken, signals, faults>>

-----------------------------------------------------------------------------
Main == NewServer \/ Notify \/ Shutdown \/ ShutdownDone

Goroutine(s) == Listen(s) \/ Fatal(s) \/ SendError(s)

Connection == Accept \/ BeginRequest \/ EndRequest \/ CloseConnection

Environment ==
  \/ Signal \/ FreePort \/ Restart
  \/ \E s \in ServerName : TakePort(s) \/ AcceptFails(s)

Next ==
  \/ Main
  \/ ServeReturns
  \/ \E s \in ServerName : Goroutine(s)
  \/ Connection
  \/ Environment

\* The goroutines run and the supervisor does its work.  Nothing is assumed
\* of the connections, the signals or the ports.
Spec ==
  /\ Init /\ [][Next]_vars
  /\ WF_vars(Main)
  /\ WF_vars(ServeReturns)
  /\ \A s \in ServerName : WF_vars(Goroutine(s))
  /\ WF_vars(Restart)

-----------------------------------------------------------------------------
(***************************************************************************)
(* Properties.                                                             *)
(***************************************************************************)

\* Types of the state of main, Serve and the servers.
TypeOK ==
  /\ args \in [noCert : BOOLEAN, debug : BOOLEAN]
  /\ proc \in {"down", "new", "started", "wait", "shutdown"}
  /\ status \in {"none", "0", "1", "signal"}
  /\ listener \in [ServerName -> {"none", "starting", "listening", "closed",
                                 "sent"}]
  /\ errChan \in Seq({"internal", "acme"}) /\ Len(errChan) <= 1
  /\ inShutdown \in BOOLEAN /\ sigChan \in BOOLEAN
  /\ open \in 0..MaxConns /\ active \in 0..open
  /\ taken \subseteq {"80", "443", "debug"}
  /\ causes \subseteq {"signal", "fault"}
  /\ signals \in 0..MaxSignals /\ faults \in 0..MaxFaults

\* The process ends only because of something outside of it, although three
\* servers can end it through errChan and log.Fatal: it was sent a signal, or
\* one of its ports was taken or failed.  Its own servers never get in each
\* other's way, whatever the command line, and nothing of an earlier process
\* ends a later one.  A failure alone is not reported as success (status 0).
EndsForCause ==
  proc = "down" =>
    /\ causes # {}
    /\ status # "1" => "signal" \in causes

\* A signal that main has received ends the process, however long the
\* requests take: Shutdown waits for them, but makes Serve return to log.Fatal.
SignalEnds == proc = "shutdown" ~> proc = "down"

Up == \A s \in Wanted : listener[s] = "listening"

\* When signals and faults have come to an end and no port is taken, the
\* program ends up listening on everything its command line asks for: the loss
\* of one listener ends the process, so no half server is left running that
\* the supervisor would not restart.
Recovers == <>[](taken = {}) => <>[]Up
=============================================================================
