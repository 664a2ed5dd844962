-------------------------- MODULE LifecycleProofs --------------------------
(***************************************************************************)
(* Proofs about Lifecycle, for every bound on connections, signals and     *)
(* faults.                                                                 *)
(***************************************************************************)
EXTENDS Lifecycle, TLAPS

\* The servers Serve and Debug start have a name and a port.
LEMMA WantedPorts ==
  ASSUME TypeOK
  PROVE  /\ Wanted \subseteq ServerName
         /\ \A s \in ServerName : Port(s) \in {"80", "443", "debug"}
  BY DEF TypeOK, Wanted, ServerName, Port

\* Whichever goroutine ends the process, what is left has its type.
LEMMA ExitTyped ==
  ASSUME TypeOK, NEW code \in {"0", "1", "signal"}, Exit(code),
         args' = args, taken' = taken, causes' \subseteq {"signal", "fault"},
         signals' \in 0..MaxSignals, faults' \in 0..MaxFaults
  PROVE  TypeOK'
<1>1. /\ proc' \in {"down", "new", "started", "wait", "shutdown"}
      /\ status' \in {"none", "0", "1", "signal"}
      /\ listener' \in [ServerName -> {"none", "starting", "listening",
                                       "closed", "sent"}]
  BY DEF Exit, NoListener
<1>2. errChan' \in Seq({"internal", "acme"}) /\ Len(errChan') <= 1
  BY DEF Exit
<1>3. open' \in 0..MaxConns /\ active' \in 0..open'
  BY LifecycleAssumption DEF Exit
<1>4. inShutdown' \in BOOLEAN /\ sigChan' \in BOOLEAN
  BY DEF Exit
<1> QED
  BY <1>1, <1>2, <1>3, <1>4 DEF TypeOK

\* The steps of main keep the types.
LEMMA MainTyped ==
  ASSUME TypeOK, Main
  PROVE  TypeOK'
<1>1. CASE NewServer
  BY <1>1 DEF NewServer, TypeOK, chanVars, connVars, envVars
<1>2. CASE Notify
  BY <1>2 DEF Notify, TypeOK, procVars, chanVars, connVars, envVars
<1>3. CASE Shutdown
  BY <1>3 DEF Shutdown, TypeOK, connVars, envVars
<1>4. CASE ShutdownDone
  <2>1. Exit("0") /\ UNCHANGED envVars
    BY <1>4 DEF ShutdownDone
  <2> QED
    BY <2>1, ExitTyped DEF TypeOK, envVars
<1> QED
  BY <1>1, <1>2, <1>3, <1>4 DEF Main

\* The steps of Serve and Debug keep the types; Serve's channel holds the
\* error of at most one of its two servers.
LEMMA GoroutineTyped ==
  ASSUME TypeOK, NEW s \in ServerName, Goroutine(s) \/ ServeReturns
  PROVE  TypeOK'
<1>1. CASE Listen(s)
  BY <1>1 DEF Listen, TypeOK, mainVars, chanVars, connVars, envVars
<1>2. CASE Fatal(s)
  <2>1. Exit("1") /\ UNCHANGED envVars
    BY <1>2 DEF Fatal
  <2> QED
    BY <2>1, ExitTyped DEF TypeOK, envVars
<1>3. CASE SendError(s)
  <2>1. errChan' \in Seq({"internal", "acme"}) /\ Len(errChan') <= 1
    BY <1>3 DEF SendError, ServerName
  <2> QED
    BY <1>3, <2>1 DEF SendError, TypeOK, mainVars, connVars, envVars
<1>4. CASE ServeReturns
  <2>1. Exit("1") /\ UNCHANGED envVars
    BY <1>4 DEF ServeReturns
  <2> QED
    BY <2>1, ExitTyped DEF TypeOK, envVars
<1> QED
  BY <1>1, <1>2, <1>3, <1>4 DEF Goroutine

\* So do the steps of the connections.
LEMMA ConnectionTyped ==
  ASSUME TypeOK, Connection
  PROVE  TypeOK'
<1> USE LifecycleAssumption DEF TypeOK, mainVars, chanVars, envVars
<1>1. CASE Accept
  BY <1>1 DEF Accept
<1>2. CASE BeginRequest
  BY <1>2 DEF BeginRequest
<1>3. CASE EndRequest
  BY <1>3 DEF EndRequest
<1>4. CASE CloseConnection
  BY <1>4 DEF CloseConnection
<1> QED
  BY <1>1, <1>2, <1>3, <1>4 DEF Connection

\* So do signals, faults and the supervisor.
LEMMA EnvironmentTyped ==
  ASSUME TypeOK, Environment
  PROVE  TypeOK'
<1>1. CASE Signal
  <2>1. signals' \in 0..MaxSignals
    BY <1>1, LifecycleAssumption DEF Signal, TypeOK
  <2>2. CASE Exit("signal")
    BY <1>1, <2>1, <2>2, ExitTyped DEF Signal, TypeOK
  <2>3. CASE ~Exit("signal")
    BY <1>1, <2>1, <2>3 DEF Signal, TypeOK, mainVars, connVars
  <2> QED
    BY <2>2, <2>3
<1>2. CASE FreePort
  BY <1>2 DEF FreePort, TypeOK, mainVars, procVars, chanVars, connVars
<1>3. CASE Restart
  BY <1>3 DEF Restart, TypeOK, procVars, chanVars, connVars, envVars
<1>4. ASSUME NEW s \in ServerName, TakePort(s) \/ AcceptFails(s)
      PROVE  TypeOK'
  <2>1. faults' \in 0..MaxFaults
    BY <1>4, LifecycleAssumption DEF TakePort, AcceptFails, Fault, TypeOK
  <2>2. taken' \subseteq {"80", "443", "debug"}
    BY <1>4, WantedPorts DEF TakePort, AcceptFails, TypeOK
  <2>3. listener' \in [ServerName -> {"none", "starting", "listening",
                                      "closed", "sent"}]
    BY <1>4 DEF TakePort, AcceptFails, TypeOK
  <2> QED
    BY <1>4, <2>1, <2>2, <2>3
    DEF TakePort, AcceptFails, Fault, TypeOK, mainVars, chanVars, connVars
<1> QED
  BY <1>1, <1>2, <1>3, <1>4 DEF Environment

\* main, Serve and the servers keep their types: among them that the error
\* channel of Serve never holds more than its capacity, and that no more
\* requests are active than connections are open.
THEOREM TypeCorrect == Spec => []TypeOK
<1>1. Init => TypeOK
  <2> SUFFICES ASSUME Init PROVE TypeOK
    OBVIOUS
  <2>1. /\ args \in [noCert : BOOLEAN, debug : BOOLEAN]
        /\ inShutdown \in BOOLEAN /\ sigChan \in BOOLEAN
    BY DEF Init
  <2>2. errChan \in Seq({"internal", "acme"}) /\ Len(errChan) <= 1
    BY DEF Init
  <2>3. /\ open \in 0..MaxConns /\ active \in 0..open
        /\ signals \in 0..MaxSignals /\ faults \in 0..MaxFaults
    BY LifecycleAssumption DEF Init
  <2> QED
    BY <2>1, <2>2, <2>3 DEF Init, TypeOK, NoListener
<1>2. TypeOK /\ [Next]_vars => TypeOK'
  <2> SUFFICES ASSUME TypeOK, [Next]_vars PROVE TypeOK'
    OBVIOUS
  <2>1. CASE Next
    BY <2>1, MainTyped, GoroutineTyped, ConnectionTyped, EnvironmentTyped
    DEF Next, ServerName
  <2>2. CASE UNCHANGED vars
    BY <2>2
    DEF vars, TypeOK, mainVars, procVars, chanVars, connVars, envVars
  <2> QED
    BY <2>1, <2>2
<1> QED
  BY <1>1, <1>2, PTL DEF Spec

-----------------------------------------------------------------------------
(***************************************************************************)
(* A process ends for a cause.  The invariant says of every piece of state *)
(* that leads to an Exit which cause has put it there.                     *)
(***************************************************************************)
CauseInv ==
  /\ EndsForCause
  /\ \A s \in ServerName : s \notin Wanted => listener[s] = "none"
  /\ proc = "down" =>
       /\ \A s \in ServerName : listener[s] = "none"
       /\ errChan = <<>> /\ ~sigChan /\ ~inShutdown
  /\ "signal" \notin causes => ~sigChan /\ ~inShutdown /\ proc # "shutdown"
  /\ causes = {} =>
       /\ errChan = <<>>
       /\ \A s \in ServerName : listener[s] \notin {"closed", "sent"}

\* The servers of one command line have ports of their own.
LEMMA PortsApart ==
  ASSUME NEW s \in Wanted, NEW t \in Wanted, Port(s) = Port(t)
  PROVE  s = t
  BY DEF Wanted, Port

\* Whoever ends the process, with a cause and the status that goes with it.
LEMMA ExitForCause ==
  ASSUME NEW code, Exit(code), causes' # {},
         code = "1" \/ "signal" \in causes'
  PROVE  CauseInv'
<1>1. EndsForCause'
  BY DEF Exit, EndsForCause
<1>2. /\ \A s \in ServerName : listener'[s] = "none"
      /\ ~sigChan' /\ ~inShutdown' /\ proc' # "shutdown" /\ errChan' = <<>>
  BY DEF Exit, NoListener
<1> QED
  BY <1>1, <1>2 DEF CauseInv

\* The steps of main: it is in Shutdown because of a signal.
LEMMA MainForCause ==
  ASSUME TypeOK, CauseInv, Main
  PROVE  CauseInv'
<1>1. CASE NewServer
  BY <1>1 DEF NewServer, CauseInv, EndsForCause, Wanted, chanVars, envVars
<1>2. CASE Notify
  BY <1>2 DEF Notify, CauseInv, EndsForCause, Wanted, procVars, chanVars,
              envVars
<1>3. CASE Shutdown
  <2>1. "signal" \in causes' /\ proc' # "down" /\ errChan' = errChan
    BY <1>3 DEF Shutdown, CauseInv, envVars
  <2>2. \A s \in ServerName : s \notin Wanted' => listener'[s] = "none"
    BY <1>3 DEF Shutdown, CauseInv, TypeOK, Wanted, envVars
  <2> QED
    BY <2>1, <2>2 DEF CauseInv, EndsForCause
<1>4. CASE ShutdownDone
  <2>1. Exit("0") /\ "signal" \in causes'
    BY <1>4 DEF ShutdownDone, CauseInv, envVars
  <2> QED
    BY <2>1, ExitForCause
<1> QED
  BY <1>1, <1>2, <1>3, <1>4 DEF Main

\* A server of the process is refused its port by others only.
LEMMA ListenForCause ==
  ASSUME TypeOK, CauseInv, NEW s \in ServerName, Listen(s)
  PROVE  CauseInv'
<1>1. /\ listener[s] = "starting" /\ s \in Wanted /\ proc # "down"
      /\ listener' = [listener EXCEPT ![s] =
                        IF Refused(s) THEN "closed" ELSE "listening"]
      /\ causes' = causes \cup (IF Port(s) \in taken THEN {"fault"} ELSE {})
  BY DEF Listen, CauseInv
<1>2. UNCHANGED <<proc, status, errChan, inShutdown, sigChan, args>>
  BY DEF Listen, mainVars, chanVars
<1>3. EndsForCause'
  BY <1>1, <1>2 DEF CauseInv, EndsForCause
<1>4. \A t \in ServerName : t \notin Wanted' => listener'[t] = "none"
  BY <1>1, <1>2 DEF CauseInv, TypeOK, Wanted
<1>5. causes' = {} => ~Refused(s)
  <2> SUFFICES ASSUME causes' = {}, Refused(s)
               PROVE  FALSE
    OBVIOUS
  <2>1. Port(s) \notin taken /\ ~inShutdown
    BY <1>1 DEF CauseInv
  <2>2. PICK t \in ServerName : listener[t] = "listening" /\ Port(t) = Port(s)
    BY <2>1 DEF Refused
  <2>3. t \in Wanted
    BY <2>2 DEF CauseInv
  <2> QED
    BY <1>1, <2>2, <2>3, PortsApart
<1>6. causes' = {} => \A t \in ServerName : listener'[t] \notin {"closed", "sent"}
  BY <1>1, <1>5 DEF CauseInv, TypeOK
<1> QED
  BY <1>1, <1>2, <1>3, <1>4, <1>6 DEF CauseInv

\* The steps of Serve and Debug.
LEMMA GoroutineForCause ==
  ASSUME TypeOK, CauseInv, NEW s \in ServerName, Goroutine(s) \/ ServeReturns
  PROVE  CauseInv'
<1>1. CASE Listen(s)
  BY <1>1, ListenForCause
<1>2. CASE Fatal(s)
  <2>1. Exit("1") /\ causes' # {}
    BY <1>2 DEF Fatal, CauseInv, envVars
  <2> QED
    BY <2>1, ExitForCause
<1>3. CASE SendError(s)
  <2>1. causes # {} /\ s \in Wanted /\ proc # "down"
    BY <1>3 DEF SendError, CauseInv
  <2> QED
    BY <1>3, <2>1
    DEF SendError, CauseInv, EndsForCause, TypeOK, Wanted, mainVars, envVars
<1>4. CASE ServeReturns
  <2>1. Exit("1") /\ causes' # {}
    BY <1>4 DEF ServeReturns, CauseInv, envVars
  <2> QED
    BY <2>1, ExitForCause
<1> QED
  BY <1>1, <1>2, <1>3, <1>4 DEF Goroutine

\* Connections end nothing.
LEMMA ConnectionForCause ==
  ASSUME CauseInv, Connection
  PROVE  CauseInv'
<1>1. UNCHANGED <<mainVars, listener, chanVars, envVars>>
  BY DEF Connection, Accept, BeginRequest, EndRequest, CloseConnection
<1> QED
  BY <1>1 DEF CauseInv, EndsForCause, Wanted, mainVars, chanVars, envVars

\* Signals and faults are the causes; the supervisor starts without one.
LEMMA EnvironmentForCause ==
  ASSUME TypeOK, CauseInv, Environment
  PROVE  CauseInv'
<1>1. CASE Signal
  <2>1. "signal" \in causes'
    BY <1>1 DEF Signal
  <2>2. CASE Exit("signal")
    BY <2>1, <2>2, ExitForCause
  <2>3. CASE ~Exit("signal")
    BY <1>1, <2>1, <2>3
    DEF Signal, CauseInv, EndsForCause, Wanted, mainVars
  <2> QED
    BY <2>2, <2>3
<1>2. CASE FreePort
  BY <1>2 DEF FreePort, CauseInv, EndsForCause, Wanted, mainVars, procVars,
              chanVars
<1>3. CASE Restart
  BY <1>3 DEF Restart, CauseInv, EndsForCause, Wanted, procVars, chanVars
<1>4. ASSUME NEW s \in ServerName, TakePort(s)
      PROVE  CauseInv'
  BY <1>4 DEF TakePort, Fault, CauseInv, EndsForCause, Wanted, mainVars,
              chanVars
<1>5. ASSUME NEW s \in ServerName, AcceptFails(s)
      PROVE  CauseInv'
  <2>1. /\ causes' = causes \cup {"fault"} /\ proc # "down" /\ s \in Wanted
        /\ listener' = [listener EXCEPT ![s] = "closed"]
        /\ UNCHANGED <<mainVars, chanVars, args>>
    BY <1>5 DEF AcceptFails, Fault, CauseInv
  <2> QED
    BY <2>1 DEF CauseInv, EndsForCause, TypeOK, Wanted, mainVars, chanVars
<1> QED
  BY <1>1, <1>2, <1>3, <1>4, <1>5 DEF Environment

\* Whatever races with whatever, the process ends only when it was sent a
\* signal or a port of it was taken or failed.
THEOREM EndsForCauseHolds == Spec => []EndsForCause
<1>1. Init => CauseInv
  BY DEF Init, CauseInv, EndsForCause, NoListener
<1>2. TypeOK /\ CauseInv /\ [Next]_vars => CauseInv'
  <2> SUFFICES ASSUME TypeOK, CauseInv, [Next]_vars PROVE CauseInv'
    OBVIOUS
  <2>1. CASE Next
    BY <2>1, MainForCause, GoroutineForCause, ConnectionForCause,
       EnvironmentForCause
    DEF Next, ServerName
  <2>2. CASE UNCHANGED vars
    BY <2>2 DEF vars, CauseInv, EndsForCause, Wanted, mainVars, procVars,
                chanVars, envVars
  <2> QED
    BY <2>1, <2>2
<1>3. CauseInv => EndsForCause
  BY DEF CauseInv
<1> QED
  BY <1>1, <1>2, <1>3, TypeCorrect, PTL DEF Spec
=============================================================================
