---------------------------- MODULE DockerProofs ----------------------------
(***************************************************************************)
(* Proofs about DockerWatch: its types, and that no running container is   *)
(* forgotten.                                                              *)
(***************************************************************************)
EXTENDS DockerWatch, SeqLemmas

DaemonEvent == [action : {"start", "stop", "die", "other"},
                id : Container \cup {"none"}]

Conv == [pc : {"wait", "inspect", "send", "ended"},
         id : Container \cup {"none"}, up : BOOLEAN, events : Seq(Event)]

\* A sequence of one element.
LEMMA OneSeq ==
  ASSUME NEW S, NEW x \in S
  PROVE  /\ <<x>> \in Seq(S) /\ Len(<<x>>) = 1 /\ <<x>> # <<>>
         /\ Head(<<x>>) = x /\ Tail(<<x>>) = <<>>
OBVIOUS

\* A sequence is its first element and the rest.
LEMMA HeadCat ==
  ASSUME NEW S, NEW s \in Seq(S), s # <<>>
  PROVE  /\ Head(s) \in S /\ Tail(s) \in Seq(S)
         /\ s = Cat(<<Head(s)>>, Tail(s))
         /\ Len(s) <= 1 => Tail(s) = <<>> /\ s = <<Head(s)>>
<1>1. Head(s) \in S /\ Tail(s) \in Seq(S) /\ Len(Tail(s)) = Len(s) - 1
  BY HeadTailProperties
<1>2. s = Cat(<<Head(s)>>, Tail(s))
  BY <1>1 DEF Cat
<1>3. ASSUME Len(s) <= 1
      PROVE  Tail(s) = <<>> /\ s = <<Head(s)>>
  <2>1. Len(s) \in Nat /\ Len(s) # 0 /\ Len(Tail(s)) \in Nat
    BY <1>1, LenProperties, EmptySeq
  <2>2. Len(Tail(s)) = 0
    BY <1>1, <1>3, <2>1
  <2>3. Tail(s) = <<>>
    BY <1>1, <2>2, EmptySeq
  <2> DEFINE x == <<Head(s)>>
  <2>4. x \in Seq(S)
    BY <1>1, OneSeq
  <2> HIDE DEF x
  <2>5. Cat(x, <<>>) = x
    BY <2>4, CatLaws
  <2> QED
    BY <1>2, <2>3, <2>5 DEF x
<1> QED
  BY <1>1, <1>2, <1>3

\* The routes' RemoveFirst is the one of SequencesExt.
LEMMA MuxRemoveFirst ==
  ASSUME NEW s, NEW e
  PROVE  Mux!RemoveFirst(s, e) = RemoveFirst(s, e)
BY DEF Mux!RemoveFirst, Mux!RemoveAt, Mux!SelectInSeq, Mux!Min, RemoveFirst,
       RemoveAt, SelectInSeq, Min

\* getContainerEvents: one event for each host name of the container.
LEMMA ContainerEventsProperties ==
  ASSUME NEW c, NEW b \in BOOLEAN
  PROVE  /\ ContainerEvents(c, b) \in Seq(Event)
         /\ ~ShowsPorts(c) => ContainerEvents(c, b) = <<>>
         /\ ShowsPorts(c) =>
              /\ c \in Container /\ HostsOf[c] \in Seq(Hostname)
              /\ Len(ContainerEvents(c, b)) = Len(HostsOf[c])
              /\ \A i \in 1..Len(HostsOf[c]) :
                   ContainerEvents(c, b)[i]
                     = [host |-> HostsOf[c][i], target |-> TargetOf[c], up |-> b]
<1>1. CASE ~ShowsPorts(c)
  BY <1>1, EmptySeq DEF ContainerEvents, NoEvents
<1>2. CASE ShowsPorts(c)
  <2> DEFINE hs == HostsOf[c]
             es == ContainerEvents(c, b)
  <2>1. c \in Container /\ TargetOf[c] \in Target /\ hs \in Seq(Hostname)
    BY <1>2, DockerAssumption DEF ShowsPorts
  <2> HIDE DEF hs
  <2>2. /\ Len(hs) \in Nat /\ DOMAIN hs = 1..Len(hs)
        /\ \A i \in 1..Len(hs) : hs[i] \in Hostname
    BY <2>1, LenProperties, ElementOfSeq
  <2>3. es = [i \in 1..Len(hs) |->
                [host |-> hs[i], target |-> TargetOf[c], up |-> b]]
    BY <1>2, <2>2 DEF ContainerEvents, hs
  <2> HIDE DEF es
  <2>4. \A i \in 1..Len(hs) :
          [host |-> hs[i], target |-> TargetOf[c], up |-> b] \in Event
    BY <2>1, <2>2 DEF Event
  <2>5. es \in [1..Len(hs) -> Event]
    BY <2>3, <2>4
  <2>6. es \in Seq(Event) /\ Len(es) = Len(hs)
    BY <2>2, <2>5, IsASeq, LenProperties
  <2>7. \A i \in 1..Len(hs) :
          es[i] = [host |-> hs[i], target |-> TargetOf[c], up |-> b]
    BY <2>3
  <2> QED
    BY <1>2, <2>1, <2>6, <2>7 DEF es, hs
<1> QED
  BY <1>1, <1>2
-----------------------------------------------------------------------------
(***************************************************************************)
(* Types.                                                                  *)
(***************************************************************************)
DaemonInv ==
  /\ running \subseteq Container
  /\ changes \in 0..MaxChanges
  /\ stream \in Seq(DaemonEvent)

StartInv ==
  /\ phase \in {"list", "inspect", "process", "running", "closed", "failed"}
  /\ todo \subseteq Container
  /\ results \in Seq(Event)

\* The converter has events exactly while it sends.
ConvInv ==
  /\ lis \in Seq(DaemonEvent) /\ Len(lis) <= 1
  /\ conv \in Conv
  /\ conv.pc = "send" => conv.events # <<>>
  /\ conv.pc # "send" => conv.events = <<>>

ServerInv ==
  /\ out \in Seq(Seq(Event)) /\ Len(out) <= 1
  /\ batch \in Seq(Event)
  /\ routes \in [Hostname -> Seq(Target)]

TypeInv == DaemonInv /\ StartInv /\ ConvInv /\ ServerInv

\* A goroutine that waits for the next event.
LEMMA WaitingType ==
  Waiting \in Conv /\ Waiting.pc = "wait" /\ Waiting.events = <<>>
<1>1. NoEvents \in Seq(Event) /\ NoEvents = <<>>
  BY DEF NoEvents
<1> HIDE DEF NoEvents
<1> QED
  BY <1>1 DEF Waiting, Conv

\* Every step keeps the types of the daemon's state.
LEMMA DaemonStep ==
  ASSUME DaemonInv, [Next]_vars
  PROVE  DaemonInv'
<1>1. ASSUME NEW a \in {"start", "stop", "die", "other"},
             NEW c \in Container \cup {"none"}, Emit(a, c)
      PROVE  changes' \in 0..MaxChanges /\ stream' \in Seq(DaemonEvent)
  <2>1. changes' \in 0..MaxChanges
    <3>1. changes < MaxChanges /\ changes' = changes + 1
      BY <1>1 DEF Emit
    <3>2. MaxChanges \in Nat /\ changes \in 0..MaxChanges
      BY DockerAssumption DEF DaemonInv
    <3> QED
      BY <3>1, <3>2
  <2> DEFINE x == [action |-> a, id |-> c]
  <2>2. x \in DaemonEvent
    BY DEF DaemonEvent
  <2>3. stream' = Append(stream, x) \/ stream' = stream
    BY <1>1 DEF Emit
  <2> HIDE DEF x
  <2>4. stream' \in Seq(DaemonEvent)
    BY <2>2, <2>3, AppendProperties DEF DaemonInv
  <2> QED
    BY <2>1, <2>4
<1>2. ASSUME NEW c \in Container,
             StartContainer(c) \/ StopContainer(c) \/ ContainerExits(c)
      PROVE  DaemonInv'
  <2>1. running' \subseteq Container
    BY <1>2 DEF StartContainer, StopContainer, ContainerExits, DaemonInv
  <2>2. \E a \in {"start", "stop", "die", "other"} : Emit(a, c)
    BY <1>2 DEF StartContainer, StopContainer, ContainerExits
  <2> QED
    BY <1>1, <2>1, <2>2 DEF DaemonInv
<1>3. CASE OtherEvent
  <2>1. running' = running /\ Emit("other", "none")
    BY <1>3 DEF OtherEvent
  <2> QED
    BY <1>1, <2>1 DEF DaemonInv
<1>4. CASE Dispatch
  <2>1. stream # <<>> /\ stream' = Tail(stream) /\ UNCHANGED <<running, changes>>
    BY <1>4 DEF Dispatch
  <2>2. stream' \in Seq(DaemonEvent)
    BY <2>1, HeadTailProperties DEF DaemonInv
  <2> QED
    BY <2>1, <2>2 DEF DaemonInv
<1>5. ASSUME UNCHANGED dockerVars
      PROVE  DaemonInv'
  BY <1>5 DEF DaemonInv, dockerVars
<1>6. CASE StreamEnds \/ Start \/ Convert \/ Listen \/ ProcessEvent
  BY <1>5, <1>6 DEF StreamEnds, Start, StartList, StartFails, StartInspect,
       StartProcess, StartListen, Convert, ConvertTake, ConvertInspect,
       ConvertSend, ConvertEnd, Listen, ProcessEvent
<1>7. CASE UNCHANGED vars
  BY <1>5, <1>7 DEF vars
<1> QED
  BY <1>2, <1>3, <1>4, <1>6, <1>7 DEF Next, Daemon

\* Every step keeps the types of the startup.
LEMMA StartStep ==
  ASSUME DaemonInv, StartInv, [Next]_vars
  PROVE  StartInv'
<1>1. ASSUME UNCHANGED startVars
      PROVE  StartInv'
  BY <1>1 DEF StartInv, startVars
<1>2. CASE Daemon
  <2>1. CASE StreamEnds
    BY <2>1 DEF StreamEnds, StartInv
  <2> QED
    BY <1>1, <1>2, <2>1 DEF Daemon, StartContainer, StopContainer,
         ContainerExits, OtherEvent, Emit
<1>3. CASE StartList \/ StartFails \/ StartListen
  BY <1>3 DEF StartList, StartFails, StartListen, StartInv, DaemonInv
<1>4. ASSUME NEW c \in Container, StartInspect(c)
      PROVE  StartInv'
  <2> DEFINE es == ContainerEvents(c, TRUE)
  <2>1. es \in Seq(Event)
    BY ContainerEventsProperties
  <2>2. results' = Cat(results, es)
    BY <1>4 DEF StartInspect, Cat
  <2> HIDE DEF es
  <2>3. results' \in Seq(Event)
    BY <2>1, <2>2, CatLaws DEF StartInv
  <2> QED
    BY <1>4, <2>3 DEF StartInspect, StartInv
<1>5. CASE StartProcess
  BY <1>5, EmptySeq DEF StartProcess, StartInv
<1>6. CASE Dispatch \/ Convert \/ Listen \/ ProcessEvent
  BY <1>1, <1>6 DEF Dispatch, Convert, ConvertTake, ConvertInspect, ConvertSend,
       ConvertEnd, Listen, ProcessEvent
<1>7. CASE UNCHANGED vars
  BY <1>1, <1>7 DEF vars
<1> QED
  BY <1>2, <1>3, <1>4, <1>5, <1>6, <1>7 DEF Next, Start

\* Every step keeps the types of the converter.
LEMMA ConvStep ==
  ASSUME DaemonInv, ConvInv, [Next]_vars
  PROVE  ConvInv'
<1>1. ASSUME UNCHANGED <<lis, conv>>
      PROVE  ConvInv'
  BY <1>1 DEF ConvInv
<1>2. CASE Daemon
  BY <1>1, <1>2 DEF Daemon, StreamEnds, StartContainer, StopContainer,
       ContainerExits, OtherEvent, Emit
<1>3. CASE Start
  BY <1>1, <1>3 DEF Start, StartList, StartFails, StartInspect, StartProcess,
       StartListen
<1>4. CASE Listen \/ ProcessEvent
  BY <1>1, <1>4 DEF Listen, ProcessEvent
<1>5. CASE UNCHANGED vars
  BY <1>1, <1>5 DEF vars
<1>6. CASE Dispatch
  <2> DEFINE x == Head(stream)
             one == <<x>>
  <2>1. x \in DaemonEvent
    BY <1>6, HeadTailProperties DEF Dispatch, DaemonInv
  <2>2. conv' = conv /\ (lis' = one \/ lis' = lis)
    BY <1>6 DEF Dispatch
  <2> HIDE DEF x
  <2>3. one \in Seq(DaemonEvent) /\ Len(one) <= 1
    BY <2>1, OneSeq
  <2> HIDE DEF one
  <2> QED
    BY <2>2, <2>3 DEF ConvInv
<1>7. CASE ConvertTake
  <2>1. lis # <<>> /\ lis' = Tail(lis)
    BY <1>7 DEF ConvertTake
  <2>2. Head(lis) \in DaemonEvent /\ lis' = <<>>
    BY <2>1, HeadCat DEF ConvInv
  <2>3. lis' \in Seq(DaemonEvent) /\ Len(lis') <= 1
    BY <2>2
  <2> DEFINE isUp == Head(lis).action = "start"
             next == [pc |-> "inspect", id |-> Head(lis).id, up |-> isUp,
                      events |-> NoEvents]
  <2>4. conv' = Waiting \/ conv' = next
    BY <1>7 DEF ConvertTake
  <2>5. isUp \in BOOLEAN /\ Head(lis).id \in Container \cup {"none"}
    BY <2>2 DEF DaemonEvent
  <2>6. NoEvents \in Seq(Event) /\ NoEvents = <<>>
    BY DEF NoEvents
  <2> HIDE DEF isUp, NoEvents
  <2>7. next \in Conv /\ next.pc = "inspect" /\ next.events = <<>>
    BY <2>5, <2>6 DEF Conv
  <2> HIDE DEF next
  <2> QED
    BY <2>3, <2>4, <2>7, WaitingType DEF ConvInv
<1>8. CASE ConvertInspect
  <2> DEFINE es == ContainerEvents(conv.id, conv.up)
  <2>1. /\ lis' = lis
        /\ conv' = IF es = NoEvents THEN Waiting
                   ELSE [conv EXCEPT !.pc = "send", !.events = es]
    BY <1>8 DEF ConvertInspect
  <2>2. es \in Seq(Event)
    BY ContainerEventsProperties DEF ConvInv, Conv
  <2> HIDE DEF es
  <2>3. CASE es = <<>>
    BY <2>1, <2>3, WaitingType DEF ConvInv, NoEvents
  <2>4. CASE es # <<>>
    <3> DEFINE next == [conv EXCEPT !.pc = "send", !.events = es]
    <3>1. conv' = next
      BY <2>1, <2>4 DEF NoEvents
    <3>2. next \in Conv /\ next.pc = "send" /\ next.events = es
      BY <2>2 DEF ConvInv, Conv
    <3> HIDE DEF next
    <3> QED
      BY <2>1, <2>4, <3>1, <3>2 DEF ConvInv
  <2> QED
    BY <2>3, <2>4
<1>9. CASE ConvertSend
  <2> DEFINE es == conv.events
  <2>1. /\ lis' = lis /\ conv.pc = "send"
        /\ conv' = IF Len(es) = 1 THEN Waiting
                   ELSE [conv EXCEPT !.events = Tail(es)]
    BY <1>9 DEF ConvertSend
  <2>2. es \in Seq(Event) /\ es # <<>>
    BY <2>1 DEF ConvInv, Conv
  <2> HIDE DEF es
  <2>3. Tail(es) \in Seq(Event) /\ Len(Tail(es)) = Len(es) - 1 /\ Len(es) \in Nat
    BY <2>2, HeadTailProperties, LenProperties
  <2>4. CASE Len(es) = 1
    BY <2>1, <2>4, WaitingType DEF ConvInv
  <2>5. CASE Len(es) # 1
    <3> DEFINE r == Tail(es)
               next == [conv EXCEPT !.events = r]
    <3>1. conv' = next
      BY <2>1, <2>5
    <3>2. r \in Seq(Event) /\ r # <<>>
      <4>1. Len(r) # 0 /\ r \in Seq(Event)
        BY <2>3, <2>5
      <4> QED
        BY <4>1, EmptySeq
    <3> HIDE DEF r
    <3>3. next \in Conv /\ next.pc = "send" /\ next.events = r
      BY <2>1, <3>2 DEF ConvInv, Conv
    <3> HIDE DEF next
    <3> QED
      BY <2>1, <3>1, <3>2, <3>3 DEF ConvInv
  <2> QED
    BY <2>4, <2>5
<1>10. CASE ConvertEnd
  <2> DEFINE next == [Waiting EXCEPT !.pc = "ended"]
  <2>1. lis' = lis /\ conv' = next
    BY <1>10 DEF ConvertEnd
  <2>2. next \in Conv /\ next.pc = "ended" /\ next.events = <<>>
    BY WaitingType DEF Conv
  <2> HIDE DEF next
  <2> QED
    BY <2>1, <2>2 DEF ConvInv
<1> QED
  BY <1>2, <1>3, <1>4, <1>5, <1>6, <1>7, <1>8, <1>9, <1>10 DEF Next, Convert
\* Server.ProcessEvent: the event is of a known host name and target, and the
\* routes of that host name change.
LEMMA ProcessChanges ==
  ASSUME ServerInv, ProcessEvent
  PROVE  /\ batch # <<>> /\ Head(batch) \in Event /\ batch' = Tail(batch)
         /\ Head(batch).host \in Hostname /\ Head(batch).target \in Target
         /\ \/ /\ Head(batch).up
               /\ routes' = [routes EXCEPT ![Head(batch).host] =
                               Append(routes[Head(batch).host], Head(batch).target)]
            \/ /\ ~Head(batch).up
               /\ routes' = [routes EXCEPT ![Head(batch).host] =
                               RemoveFirst(routes[Head(batch).host],
                                           Head(batch).target)]
<1>1. batch # <<>> /\ batch' = Tail(batch)
  BY DEF ProcessEvent
<1>2. Head(batch) \in Event
  BY <1>1, HeadTailProperties DEF ServerInv
<1>3. Head(batch).host \in Hostname /\ Head(batch).target \in Target
  BY <1>2 DEF Event
<1>4. \/ /\ Head(batch).up
         /\ routes' = [routes EXCEPT ![Head(batch).host] =
                         Append(routes[Head(batch).host], Head(batch).target)]
      \/ /\ ~Head(batch).up
         /\ routes' = [routes EXCEPT ![Head(batch).host] =
                         RemoveFirst(routes[Head(batch).host], Head(batch).target)]
  BY MuxRemoveFirst DEF ProcessEvent, Mux!Register, Mux!Unregister
<1> QED
  BY <1>1, <1>2, <1>3, <1>4

\* Every step keeps the types of the server.
LEMMA ServerStep ==
  ASSUME StartInv, ConvInv, ServerInv, [Next]_vars
  PROVE  ServerInv'
<1>1. ASSUME UNCHANGED <<out, batch, routes>>
      PROVE  ServerInv'
  BY <1>1 DEF ServerInv
<1>2. CASE Daemon \/ Dispatch
  BY <1>1, <1>2 DEF Daemon, StreamEnds, StartContainer, StopContainer,
       ContainerExits, OtherEvent, Emit, Dispatch
<1>3. CASE Start
  <2>1. CASE StartProcess
    BY <2>1 DEF StartProcess, StartInv, ServerInv
  <2> QED
    BY <1>1, <1>3, <2>1 DEF Start, StartList, StartFails, StartInspect, StartListen
<1>4. CASE ConvertTake \/ ConvertInspect \/ ConvertEnd
  BY <1>1, <1>4 DEF ConvertTake, ConvertInspect, ConvertEnd
<1>5. CASE ConvertSend
  <2> DEFINE x == Head(conv.events)
             b == <<x>>
             o == <<b>>
  <2>1. x \in Event
    BY <1>5, HeadTailProperties DEF ConvertSend, ConvInv, Conv
  <2>2. out' = o /\ UNCHANGED <<batch, routes>>
    BY <1>5 DEF ConvertSend
  <2> HIDE DEF x
  <2>3. b \in Seq(Event)
    BY <2>1, OneSeq
  <2> HIDE DEF b
  <2>4. o \in Seq(Seq(Event)) /\ Len(o) <= 1
    BY <2>3, OneSeq
  <2> HIDE DEF o
  <2> QED
    BY <2>2, <2>4 DEF ServerInv
<1>6. CASE Listen
  <2>1. out # <<>> /\ batch' = Head(out) /\ out' = Tail(out) /\ routes' = routes
    BY <1>6 DEF Listen
  <2>2. Head(out) \in Seq(Event) /\ Tail(out) = <<>>
    BY <2>1, HeadCat DEF ServerInv
  <2>3. out' = <<>>
    BY <2>1, <2>2
  <2>4. out' \in Seq(Seq(Event)) /\ Len(out') <= 1
    BY <2>3
  <2> QED
    BY <2>1, <2>2, <2>4 DEF ServerInv
<1>7. CASE ProcessEvent
  <2> DEFINE h == Head(batch).host
             t == Head(batch).target
  <2>1. /\ h \in Hostname /\ t \in Target
        /\ \/ routes' = [routes EXCEPT ![h] = Append(routes[h], t)]
           \/ routes' = [routes EXCEPT ![h] = RemoveFirst(routes[h], t)]
    BY <1>7, ProcessChanges
  <2>2. batch' \in Seq(Event) /\ out' = out
    BY <1>7, HeadTailProperties DEF ProcessEvent, ServerInv
  <2> HIDE DEF h, t
  <2>3. /\ Append(routes[h], t) \in Seq(Target)
        /\ RemoveFirst(routes[h], t) \in Seq(Target)
    BY <2>1, AppendProperties, RemoveFirstProperties DEF ServerInv
  <2>4. routes' \in [Hostname -> Seq(Target)]
    BY <2>1, <2>3 DEF ServerInv
  <2> QED
    BY <2>2, <2>4 DEF ServerInv
<1>8. CASE UNCHANGED vars
  BY <1>1, <1>8 DEF vars
<1> QED
  BY <1>2, <1>3, <1>4, <1>5, <1>6, <1>7, <1>8 DEF Next, Convert

\* The types hold at first.
LEMMA InitTypeInv == Init => TypeInv
<1> SUFFICES ASSUME Init
             PROVE  TypeInv
  OBVIOUS
<1>1. DaemonInv
  BY DockerAssumption, EmptySeq DEF Init, DaemonInv
<1>2. StartInv
  BY EmptySeq DEF Init, StartInv
<1>3. ConvInv
  <2>1. lis = <<>> /\ conv = Waiting
    BY DEF Init
  <2>2. lis \in Seq(DaemonEvent) /\ Len(lis) <= 1
    BY <2>1
  <2> QED
    BY <2>1, <2>2, WaitingType DEF ConvInv
<1>4. ServerInv
  BY EmptySeq DEF Init, ServerInv
<1> QED
  BY <1>1, <1>2, <1>3, <1>4 DEF TypeInv

\* Every step keeps the types.
LEMMA TypeStep == TypeInv /\ [Next]_vars => TypeInv'
BY DaemonStep, StartStep, ConvStep, ServerStep DEF TypeInv

\* The channels of docker's watch never hold more than they have room for, and
\* every goroutine's state has its type, for any containers and any number of
\* events of the daemon, lost ones included.
THEOREM DockerTypeOK == Spec => []TypeOK
<1>1. TypeInv => TypeOK
  BY DEF TypeInv, DaemonInv, StartInv, ConvInv, ServerInv, TypeOK, DaemonEvent,
     Conv
<1> QED
  BY <1>1, InitTypeInv, TypeStep, PTL DEF Spec
-----------------------------------------------------------------------------
(***************************************************************************)
(* A running container is on its way to its routes, or has them: the last  *)
(* of its events the converter has not inspected is its start, or the last *)
(* event of each of its routes that the server has not processed brings    *)
(* the route, or there is none and the route is there.                     *)
(***************************************************************************)
UpEvent(h, t) == [host |-> h, target |-> t, up |-> TRUE]
DownEvent(h, t) == [host |-> h, target |-> t, up |-> FALSE]

\* When the events f have been processed, h has the handler t.
EndsUp(f, table, h, t) ==
  \/ Lasts(f, UpEvent(h, t), {DownEvent(h, t)})
  \/ t \in ToSet(table[h]) /\ Free(f, {DownEvent(h, t)})

\* The events on their way to Server.ProcessEvent.
Flight(b, o, es) == Cat(Cat(b, IF o = <<>> THEN <<>> ELSE Head(o)), es)

About(c) == {e \in DaemonEvent : e.id = c /\ e.action # "other"}
StartOf(c) == [action |-> "start", id |-> c]

Converting(c) == conv.pc = "inspect" /\ conv.id = c

Converted(c) ==
  \A h \in ToSet(HostsOf[c]) :
    EndsUp(Flight(batch, out, conv.events), routes, h, TargetOf[c])

Tracked(c) ==
  \/ Lasts(stream, StartOf(c), About(c))
  \/ /\ Free(stream, About(c))
     /\ \/ Lasts(lis, StartOf(c), About(c))
        \/ /\ Free(lis, About(c))
           /\ Converting(c) => conv.up
           /\ ~Converting(c) => Converted(c)

\* Until the listed containers are processed nothing else happens.
QuietInv ==
  phase \in {"list", "inspect"} =>
    stream = <<>> /\ lis = <<>> /\ conv = Waiting /\ out = <<>> /\ batch = <<>>

\* GetActiveContainers has brought the routes of what it has inspected.
Listed(c) ==
  \A h \in ToSet(HostsOf[c]) :
    Lasts(results, UpEvent(h, TargetOf[c]), {DownEvent(h, TargetOf[c])})

ListedInv ==
  phase = "inspect" => \A c \in running \cap Published : c \in todo \/ Listed(c)

TrackInv ==
  phase \in {"process", "running"} => \A c \in running \cap Published : Tracked(c)

\* No two containers publish their VIRTUAL_PORT at the same host port.
OwnTargets == \A c, d \in Published : TargetOf[c] = TargetOf[d] => c = d

\* What inspecting a container brings, and what it cannot take away.
LEMMA ContainerBrings ==
  ASSUME NEW c, NEW b \in BOOLEAN, NEW h, NEW t
  PROVE  /\ b => Free(ContainerEvents(c, b), {DownEvent(h, t)})
         /\ ShowsPorts(c) /\ t # TargetOf[c]
              => Free(ContainerEvents(c, b), {DownEvent(h, t)})
         /\ ShowsPorts(c) /\ b /\ h \in ToSet(HostsOf[c])
              => Lasts(ContainerEvents(c, b), UpEvent(h, TargetOf[c]),
                       {DownEvent(h, TargetOf[c])})
<1> DEFINE es == ContainerEvents(c, b)
<1>1. CASE ~ShowsPorts(c)
  <2>1. es = <<>>
    BY <1>1, ContainerEventsProperties
  <2>2. Free(<<>>, {DownEvent(h, t)})
    BY OneLasts
  <2> QED
    BY <1>1, <2>1, <2>2
<1>2. CASE ShowsPorts(c)
  <2>1. /\ es \in Seq(Event) /\ HostsOf[c] \in Seq(Hostname)
        /\ Len(es) = Len(HostsOf[c])
        /\ \A i \in 1..Len(HostsOf[c]) :
             es[i] = [host |-> HostsOf[c][i], target |-> TargetOf[c], up |-> b]
    BY <1>2, ContainerEventsProperties
  <2> HIDE DEF es
  <2>2. ASSUME NEW i \in 1..Len(es), NEW u, b \/ u # TargetOf[c]
        PROVE  es[i] # DownEvent(h, u)
    <3> DEFINE r == [host |-> HostsOf[c][i], target |-> TargetOf[c], up |-> b]
    <3>0. es[i] = r
      BY <2>1
    <3>1. es[i].target = TargetOf[c] /\ es[i].up = b
      <4>1. r.target = TargetOf[c] /\ r.up = b
        BY Zenon
      <4> QED
        BY <3>0, <4>1, Zenon
    <3>2. DownEvent(h, u).target = u /\ DownEvent(h, u).up = FALSE
      BY DEF DownEvent
    <3>3. CASE u # TargetOf[c]
      BY <3>1, <3>2, <3>3
    <3>4. CASE b
      BY <3>1, <3>2, <3>4, Zenon
    <3> QED
      BY <2>2, <3>3, <3>4
  <2>3. ASSUME NEW u, b \/ u # TargetOf[c]
        PROVE  Free(es, {DownEvent(h, u)})
    BY <2>2, <2>3 DEF Free
  <2>4. ASSUME b, h \in ToSet(HostsOf[c])
        PROVE  Lasts(es, UpEvent(h, TargetOf[c]), {DownEvent(h, TargetOf[c])})
    <3>1. PICK i \in 1..Len(HostsOf[c]) : HostsOf[c][i] = h
      BY <2>1, <2>4, ToSetIndex
    <3>2. b = TRUE
      BY <2>4
    <3>3. i \in 1..Len(es) /\ es[i] = UpEvent(h, TargetOf[c])
      BY <2>1, <3>1, <3>2 DEF UpEvent
    <3>4. \A j \in 1..Len(es) : es[j] # DownEvent(h, TargetOf[c])
      BY <2>2, <2>4
    <3> QED
      BY <3>3, <3>4 DEF Lasts
  <2> QED
    BY <1>2, <2>3, <2>4 DEF es
<1> QED
  BY <1>1, <1>2

\* Nothing happens before the listed containers are processed.
LEMMA QuietStep ==
  ASSUME ~EarlyChanges, TypeInv, QuietInv, [Next]_vars
  PROVE  QuietInv'
<1> SUFFICES ASSUME phase' \in {"list", "inspect"}
             PROVE  QuietInv'
  BY DEF QuietInv
<1>1. CASE StartList
  BY <1>1 DEF StartList, QuietInv, dockerVars
<1>2. ASSUME phase' = phase
      PROVE  /\ stream = <<>> /\ lis = <<>> /\ conv = Waiting /\ out = <<>>
             /\ batch = <<>> /\ phase \in {"list", "inspect"}
  BY <1>2 DEF QuietInv
<1>3. ASSUME NEW c \in Container, StartInspect(c)
      PROVE  QuietInv'
  BY <1>2, <1>3 DEF StartInspect, QuietInv, dockerVars
<1>4. CASE UNCHANGED vars
  BY <1>2, <1>4 DEF vars, dockerVars, startVars, QuietInv
<1>5. CASE Daemon
  BY <1>2, <1>5 DEF Daemon, StreamEnds, StartContainer, StopContainer,
       ContainerExits, OtherEvent, Emit, startVars
<1>6. CASE Dispatch \/ ConvertTake \/ Listen \/ ProcessEvent
  BY <1>2, <1>6 DEF Dispatch, ConvertTake, Listen, ProcessEvent, startVars
<1>7. CASE ConvertInspect \/ ConvertSend \/ ConvertEnd
  BY <1>2, <1>7, WaitingType DEF ConvertInspect, ConvertSend, ConvertEnd, startVars
<1>8. CASE StartFails \/ StartProcess \/ StartListen
  BY <1>8 DEF StartFails, StartProcess, StartListen
<1> QED
  BY <1>1, <1>3, <1>4, <1>5, <1>6, <1>7, <1>8 DEF Next, Start, Convert

\* Every listed container is inspected while it runs.
LEMMA ListedStep ==
  ASSUME ~EarlyChanges, TypeInv, ListedInv, [Next]_vars
  PROVE  ListedInv'
<1> SUFFICES ASSUME phase' = "inspect", NEW c \in running' \cap Published
             PROVE  c \in todo' \/ Listed(c)'
  BY DEF ListedInv
<1>1. ASSUME phase' = phase, UNCHANGED <<running, todo, results>>
      PROVE  c \in todo' \/ Listed(c)'
  BY <1>1 DEF ListedInv, Listed
<1>2. CASE StartList
  BY <1>2 DEF StartList, dockerVars
<1>3. ASSUME NEW d \in Container, StartInspect(d)
      PROVE  c \in todo' \/ Listed(c)'
  <2> DEFINE es == ContainerEvents(d, TRUE)
  <2>1. /\ phase = "inspect" /\ todo' = todo \ {d} /\ running' = running
        /\ results' = Cat(results, es)
    BY <1>3 DEF StartInspect, Cat, dockerVars
  <2>2. es \in Seq(Event) /\ results \in Seq(Event)
    BY ContainerEventsProperties DEF TypeInv, StartInv
  <2>3. CASE c = d
    <3>1. ShowsPorts(d)
      BY <2>1, <2>3 DEF ShowsPorts
    <3>2. \A h \in ToSet(HostsOf[c]) :
            Lasts(es, UpEvent(h, TargetOf[c]), {DownEvent(h, TargetOf[c])})
      BY <2>3, <3>1, ContainerBrings
    <3> HIDE DEF es
    <3> QED
      BY <2>1, <2>2, <3>2, CatLasts DEF Listed
  <2>4. CASE c # d
    <3>1. \A h \in ToSet(HostsOf[c]) : Free(es, {DownEvent(h, TargetOf[c])})
      BY ContainerBrings
    <3> HIDE DEF es
    <3>2. Listed(c) => Listed(c)'
      BY <2>1, <2>2, <3>1, CatLasts DEF Listed
    <3> QED
      BY <2>1, <2>4, <3>2 DEF ListedInv
  <2> QED
    BY <2>3, <2>4
<1>4. CASE StartFails \/ StartProcess \/ StartListen
  BY <1>4 DEF StartFails, StartProcess, StartListen
<1>5. CASE Daemon
  BY <1>5 DEF Daemon, StreamEnds, StartContainer, StopContainer,
       ContainerExits, OtherEvent, Emit, startVars
<1>6. CASE Dispatch \/ Convert \/ Listen \/ ProcessEvent
  BY <1>1, <1>6 DEF Dispatch, Convert, ConvertTake, ConvertInspect, ConvertSend,
       ConvertEnd, Listen, ProcessEvent, startVars, dockerVars
<1>7. CASE UNCHANGED vars
  BY <1>1, <1>7 DEF vars, startVars, dockerVars
<1> QED
  BY <1>2, <1>3, <1>4, <1>5, <1>6, <1>7 DEF Next, Start
\* A further event of the daemon that is not about c changes nothing for c.
LEMMA TrackedEmit ==
  ASSUME TypeInv, NEW x \in DaemonEvent, NEW c, x \notin About(c), Tracked(c),
         stream' = Append(stream, x), UNCHANGED <<lis, conv, out, batch, routes>>
  PROVE  Tracked(c)'
<1> DEFINE one == <<x>>
<1>1. one \in Seq(DaemonEvent) /\ stream \in Seq(DaemonEvent)
  BY OneSeq DEF TypeInv, DaemonInv
<1>2. stream' = Cat(stream, one)
  BY <1>1 DEF Cat
<1>3. Free(one, About(c))
  BY OneLasts
<1> HIDE DEF one
<1>4. /\ Lasts(stream, StartOf(c), About(c)) => Lasts(stream', StartOf(c), About(c))
      /\ Free(stream, About(c)) => Free(stream', About(c))
  BY <1>1, <1>2, <1>3, CatLasts
<1>5. (Converting(c)' <=> Converting(c)) /\ (Converted(c)' <=> Converted(c))
  BY DEF Converting, Converted, EndsUp
<1> QED
  BY <1>4, <1>5, Zenon DEF Tracked

\* The last event of a container that just started is its start.
LEMMA TrackedStart ==
  ASSUME TypeInv, NEW c \in Container, stream' = Append(stream, StartOf(c))
  PROVE  Tracked(c)'
<1> DEFINE x == StartOf(c)
           one == <<x>>
<1>1. x \in DaemonEvent
  BY DEF StartOf, DaemonEvent
<1> HIDE DEF x
<1>2. one \in Seq(DaemonEvent) /\ stream \in Seq(DaemonEvent)
  BY <1>1, OneSeq DEF TypeInv, DaemonInv
<1>3. stream' = Cat(stream, one)
  BY <1>2 DEF Cat, x
<1>4. Lasts(one, StartOf(c), About(c))
  BY OneLasts DEF x
<1> HIDE DEF one
<1>5. Lasts(stream', StartOf(c), About(c))
  BY <1>2, <1>3, <1>4, CatLasts
<1> QED
  BY <1>5 DEF Tracked

\* The library hands the event to the listener, which has room for it.
LEMMA TrackedDispatch ==
  ASSUME TypeInv, NEW c, Tracked(c), Dispatch, lis = <<>>
  PROVE  Tracked(c)'
<1> DEFINE one == <<Head(stream)>>
           B == About(c)
           x == StartOf(c)
<1>1. /\ stream # <<>> /\ stream' = Tail(stream) /\ lis' = one
      /\ UNCHANGED <<conv, out, batch, routes>>
  BY DEF Dispatch
<1>2. /\ Head(stream) \in DaemonEvent /\ Tail(stream) \in Seq(DaemonEvent)
      /\ stream = Cat(one, Tail(stream))
  BY <1>1, HeadCat DEF TypeInv, DaemonInv
<1>3. one \in Seq(DaemonEvent)
  BY <1>2, OneSeq
<1>4. Free(lis, B) /\ ~Lasts(lis, x, B)
  BY OneLasts
<1> HIDE DEF one, B, x
<1>5. /\ Free(stream, B) <=> Free(lis', B) /\ Free(stream', B)
      /\ Lasts(stream, x, B)
           <=> Lasts(stream', x, B) \/ (Lasts(lis', x, B) /\ Free(stream', B))
  <2> DEFINE r == Tail(stream)
  <2>1. r \in Seq(DaemonEvent) /\ stream' = r /\ stream = Cat(one, r)
    BY <1>1, <1>2
  <2> HIDE DEF r
  <2>2. /\ Free(Cat(one, r), B) <=> Free(one, B) /\ Free(r, B)
        /\ Lasts(Cat(one, r), x, B)
             <=> Lasts(r, x, B) \/ (Lasts(one, x, B) /\ Free(r, B))
    BY <1>3, <2>1, CatLasts
  <2> QED
    BY <1>1, <2>1, <2>2
<1>6. (Converting(c)' <=> Converting(c)) /\ (Converted(c)' <=> Converted(c))
  BY <1>1 DEF Converting, Converted, EndsUp
<1>7. \/ Lasts(stream, x, B)
      \/ /\ Free(stream, B) /\ Converting(c) => conv.up
         /\ ~Converting(c) => Converted(c)
  BY <1>4 DEF Tracked, B, x
<1> QED
  BY <1>1, <1>5, <1>6, <1>7, Zenon DEF Tracked, B, x

\* convertEvents takes the event.
LEMMA TrackedTake ==
  ASSUME TypeInv, NEW c \in Container, Tracked(c), ConvertTake
  PROVE  Tracked(c)'
<1> DEFINE e == Head(lis)
           B == About(c)
           x == StartOf(c)
<1>1. /\ conv.pc = "wait" /\ lis # <<>> /\ lis' = Tail(lis)
      /\ UNCHANGED <<stream, out, batch, routes>>
  BY DEF ConvertTake, dockerVars
<1>2. e \in DaemonEvent /\ lis' = <<>> /\ lis = <<e>>
  BY <1>1, HeadCat DEF TypeInv, ConvInv
<1>3. conv' = IF e.action \in {"start", "stop"}
              THEN [pc |-> "inspect", id |-> e.id, up |-> e.action = "start",
                    events |-> NoEvents]
              ELSE Waiting
  BY DEF ConvertTake
<1>4. conv'.events = <<>> /\ conv.events = <<>>
  BY <1>1, <1>3, WaitingType DEF TypeInv, ConvInv, NoEvents
<1>5. Converted(c)' <=> Converted(c)
  BY <1>1, <1>4 DEF Converted, EndsUp
<1> HIDE DEF e
<1>6. /\ Free(lis, B) <=> e \notin B
      /\ Lasts(lis, x, B) <=> e = x
      /\ Free(lis', B)
  BY <1>2, OneLasts
<1>7. Converting(c)' => e.id = c /\ e.action \in {"start", "stop"}
  BY <1>3, WaitingType DEF Converting
<1>8. ASSUME e \notin B
      PROVE  ~Converting(c)'
  BY <1>2, <1>7, <1>8 DEF About
<1>9. ~Converting(c)
  BY <1>1 DEF Converting
<1>10. ASSUME e = x
       PROVE  Converting(c)' /\ conv'.up
  <2>1. e.action = "start" /\ e.id = c
    BY <1>10 DEF StartOf
  <2>2. conv' = [pc |-> "inspect", id |-> c, up |-> TRUE, events |-> NoEvents]
    BY <1>3, <2>1
  <2>3. conv'.pc = "inspect" /\ conv'.id = c
    BY <2>2
  <2>4. conv'.up
    BY <2>2, Zenon
  <2> QED
    BY <2>3, <2>4 DEF Converting
<1> HIDE DEF B, x
<1>11. \/ Lasts(stream, x, B)
       \/ Free(stream, B) /\ (e = x \/ (e \notin B /\ Converted(c)))
  BY <1>6, <1>9 DEF Tracked, B, x
<1> QED
  BY <1>1, <1>5, <1>6, <1>8, <1>10, <1>11, Zenon DEF Tracked, B, x
\* The events on their way.
LEMMA FlightType ==
  ASSUME NEW b \in Seq(Event), NEW o \in Seq(Seq(Event)), NEW es \in Seq(Event)
  PROVE  /\ Flight(b, o, es) \in Seq(Event)
         /\ Flight(b, o, es) = Cat(Flight(b, o, <<>>), es)
         /\ Flight(b, o, <<>>) \in Seq(Event)
<1> DEFINE m == IF o = <<>> THEN <<>> ELSE Head(o)
           bm == Cat(b, m)
<1>1. m \in Seq(Event)
  <2>1. CASE o = <<>>
    BY <2>1
  <2>2. CASE o # <<>>
    BY <2>2, HeadTailProperties
  <2> QED
    BY <2>1, <2>2
<1>2. /\ Flight(b, o, es) = Cat(bm, es)
      /\ Flight(b, o, <<>>) = Cat(bm, <<>>)
  BY DEF Flight
<1> HIDE DEF m
<1>3. bm \in Seq(Event)
  BY <1>1, CatLaws
<1> HIDE DEF bm
<1>4. Cat(bm, es) \in Seq(Event) /\ Cat(bm, <<>>) = bm
  BY <1>3, CatLaws
<1> QED
  BY <1>2, <1>3, <1>4

\* The converter sends its first event.
LEMMA FlightSend ==
  ASSUME NEW b \in Seq(Event), NEW es \in Seq(Event), es # <<>>
  PROVE  Flight(b, << <<Head(es)>> >>, Tail(es)) = Flight(b, <<>>, es)
<1> DEFINE x == <<Head(es)>>
           r == Tail(es)
           o == <<x>>
<1>1. Head(es) \in Event /\ r \in Seq(Event) /\ es = Cat(x, r)
  BY HeadCat
<1>2. x \in Seq(Event)
  BY <1>1, OneSeq
<1> HIDE DEF x, r
<1>3. o # <<>> /\ Head(o) = x
  BY <1>2, OneSeq
<1>4. Flight(b, o, r) = Cat(Cat(b, x), r)
  BY <1>3 DEF Flight
<1>5. Flight(b, <<>>, es) = Cat(Cat(b, <<>>), es)
  BY DEF Flight
<1>6. Cat(b, <<>>) = b /\ Cat(Cat(b, x), r) = Cat(b, Cat(x, r))
  BY <1>1, <1>2, CatLaws
<1> QED
  BY <1>1, <1>4, <1>5, <1>6 DEF o, x, r

\* Server.Listen receives the batch.
LEMMA FlightListen ==
  ASSUME NEW o \in Seq(Seq(Event)), o # <<>>, NEW es
  PROVE  Flight(Head(o), <<>>, es) = Flight(<<>>, o, es)
<1>1. Head(o) \in Seq(Event)
  BY HeadTailProperties
<1>2. Cat(Head(o), <<>>) = Head(o) /\ Cat(<<>>, Head(o)) = Head(o)
  BY <1>1, CatLaws
<1> QED
  BY <1>2 DEF Flight

\* Server.ProcessEvent takes the first event.
LEMMA FlightProcess ==
  ASSUME NEW b \in Seq(Event), b # <<>>, NEW o \in Seq(Seq(Event)),
         NEW es \in Seq(Event)
  PROVE  /\ Flight(Tail(b), o, es) \in Seq(Event)
         /\ Flight(b, o, es) = Cat(<<Head(b)>>, Flight(Tail(b), o, es))
<1> DEFINE x == <<Head(b)>>
           r == Tail(b)
           m == IF o = <<>> THEN <<>> ELSE Head(o)
<1>1. Head(b) \in Event /\ r \in Seq(Event) /\ b = Cat(x, r)
  BY HeadCat
<1>2. x \in Seq(Event)
  BY <1>1, OneSeq
<1>3. m \in Seq(Event)
  <2>1. CASE o = <<>>
    BY <2>1
  <2>2. CASE o # <<>>
    BY <2>2, HeadTailProperties
  <2> QED
    BY <2>1, <2>2
<1>4. Flight(b, o, es) = Cat(Cat(b, m), es) /\ Flight(r, o, es) = Cat(Cat(r, m), es)
  BY DEF Flight
<1> HIDE DEF x, r, m
<1>5. /\ \A s, t \in Seq(Event) : Cat(s, t) \in Seq(Event)
      /\ \A s, t, u \in Seq(Event) : Cat(Cat(s, t), u) = Cat(s, Cat(t, u))
  BY CatLaws
<1>6. /\ Cat(Cat(r, m), es) \in Seq(Event)
      /\ Cat(Cat(b, m), es) = Cat(x, Cat(Cat(r, m), es))
  BY <1>1, <1>2, <1>3, <1>5
<1> QED
  BY <1>4, <1>6 DEF x, r

\* What Server.ProcessEvent does to the first event's route, and to others.
LEMMA EndsUpProcess ==
  ASSUME ServerInv, ProcessEvent, NEW r \in Seq(Event),
         NEW h \in Hostname, NEW t \in Target,
         EndsUp(Cat(<<Head(batch)>>, r), routes, h, t)
  PROVE  EndsUp(r, routes', h, t)
<1> DEFINE x == Head(batch)
           one == <<x>>
           B == {DownEvent(h, t)}
           u == UpEvent(h, t)
<1>1. /\ x \in Event /\ x.host \in Hostname /\ x.target \in Target
      /\ \/ /\ x.up
            /\ routes' = [routes EXCEPT ![x.host] = Append(routes[x.host], x.target)]
         \/ /\ ~x.up
            /\ routes' = [routes EXCEPT ![x.host] =
                            RemoveFirst(routes[x.host], x.target)]
  BY ProcessChanges
<1>2. EndsUp(Cat(one, r), routes, h, t)
  OBVIOUS
<1> HIDE DEF x
<1>3. one \in Seq(Event)
  BY <1>1, OneSeq
<1>4. (Free(one, B) <=> x \notin B) /\ (Lasts(one, u, B) <=> x = u)
  BY OneLasts
<1> HIDE DEF one, B, u
<1>5. \/ Lasts(r, u, B)
      \/ x = u /\ Free(r, B)
      \/ t \in ToSet(routes[h]) /\ x \notin B /\ Free(r, B)
  <2>1. /\ Free(Cat(one, r), B) <=> Free(one, B) /\ Free(r, B)
        /\ Lasts(Cat(one, r), u, B)
             <=> Lasts(r, u, B) \/ (Lasts(one, u, B) /\ Free(r, B))
    BY <1>3, CatLasts
  <2> QED
    BY <1>2, <1>4, <2>1, Zenon DEF EndsUp, B, u
<1>6. routes[x.host] \in Seq(Target) /\ routes[h] \in Seq(Target)
  BY <1>1 DEF ServerInv
<1>7. \A s \in Seq(Target) : \A v \in Target : ToSet(Append(s, v)) = ToSet(s) \cup {v}
  BY AppendToSet
<1>8. ASSUME x = u
      PROVE  t \in ToSet(routes'[h])
  <2>1. x.host = h /\ x.target = t
    BY <1>8 DEF u, UpEvent
  <2>2. x.up
    BY <1>8, Zenon DEF u, UpEvent
  <2>3. routes'[h] = Append(routes[h], t)
    BY <1>1, <2>1, <2>2 DEF ServerInv
  <2> QED
    BY <1>6, <1>7, <2>3
<1>9. ASSUME t \in ToSet(routes[h]), x \notin B
      PROVE  t \in ToSet(routes'[h])
  <2>1. CASE x.host # h
    <3>1. routes'[h] = routes[h]
      BY <1>1, <2>1 DEF ServerInv
    <3> QED
      BY <1>9, <3>1
  <2>2. CASE x.host = h /\ x.up
    <3>1. routes'[h] = Append(routes[h], x.target)
      BY <1>1, <2>2 DEF ServerInv
    <3> QED
      BY <1>1, <1>6, <1>7, <1>9, <3>1
  <2>3. CASE x.host = h /\ ~x.up
    <3>1. routes'[h] = RemoveFirst(routes[h], x.target)
      BY <1>1, <2>3 DEF ServerInv
    <3>2. x.target # t
      <4>1. SUFFICES ASSUME x.target = t
                     PROVE  x = DownEvent(h, t)
        BY <1>9 DEF B
      <4>2. x.up = FALSE
        BY <1>1, <2>3, Zenon DEF Event
      <4> QED
        BY <1>1, <2>3, <4>1, <4>2 DEF Event, DownEvent
    <3> QED
      BY <1>6, <1>9, <3>1, <3>2, RemoveFirstKeeps
  <2> QED
    BY <2>1, <2>2, <2>3
<1> QED
  BY <1>5, <1>8, <1>9 DEF EndsUp, B, u
\* convertEvents inspects the container of the event: the container c, which
\* runs, gets its routes; another container cannot take them.
LEMMA TrackedInspect ==
  ASSUME OwnTargets, TypeInv, NEW c \in running \cap Published, Tracked(c),
         ConvertInspect
  PROVE  Tracked(c)'
<1> DEFINE es == ContainerEvents(conv.id, conv.up)
           F == Flight(batch, out, <<>>)
<1>1. /\ conv.pc = "inspect" /\ conv.events = <<>> /\ conv.up \in BOOLEAN
      /\ batch \in Seq(Event) /\ out \in Seq(Seq(Event))
  BY DEF ConvertInspect, TypeInv, ConvInv, Conv, ServerInv
<1>2. /\ UNCHANGED <<stream, lis, out, batch, routes>>
      /\ conv' = IF es = NoEvents THEN Waiting
                 ELSE [conv EXCEPT !.pc = "send", !.events = es]
  BY DEF ConvertInspect, dockerVars
<1>3. es \in Seq(Event)
  BY <1>1, ContainerEventsProperties
<1>4. conv'.events = es /\ conv'.pc # "inspect"
  <2> HIDE DEF es
  <2>1. CASE es = <<>>
    BY <1>2, <2>1, WaitingType DEF NoEvents
  <2>2. CASE es # <<>>
    BY <1>2, <2>2 DEF NoEvents, TypeInv, ConvInv, Conv
  <2> QED
    BY <2>1, <2>2
<1>5. /\ F \in Seq(Event) /\ Flight(batch, out, conv.events) = F
      /\ Flight(batch, out, es) = Cat(F, es)
  BY <1>1, <1>3, FlightType
<1>6. ASSUME Converting(c) => conv.up, ~Converting(c) => Converted(c)
      PROVE  Converted(c)'
  <2> SUFFICES ASSUME NEW h \in ToSet(HostsOf[c])
               PROVE  EndsUp(Cat(F, es), routes, h, TargetOf[c])
    BY <1>2, <1>4, <1>5 DEF Converted, EndsUp
  <2> DEFINE B == {DownEvent(h, TargetOf[c])}
             u == UpEvent(h, TargetOf[c])
  <2>1. CASE conv.id = c
    <3>1. conv.up
      BY <1>1, <1>6, <2>1 DEF Converting
    <3>2. ShowsPorts(c)
      BY DEF ShowsPorts
    <3>3. Lasts(es, u, B)
      BY <1>1, <2>1, <3>1, <3>2, ContainerBrings
    <3> HIDE DEF es, F, B, u
    <3>4. Lasts(Cat(F, es), u, B)
      BY <1>3, <1>5, <3>3, CatLasts
    <3> QED
      BY <3>4 DEF EndsUp, B, u
  <2>2. CASE conv.id # c
    <3>1. EndsUp(F, routes, h, TargetOf[c])
      BY <1>5, <1>6, <2>2 DEF Converting, Converted
    <3>2. Free(es, B)
      <4>1. CASE ShowsPorts(conv.id)
        <5>1. TargetOf[c] # TargetOf[conv.id]
          BY <2>2, <4>1 DEF OwnTargets, ShowsPorts
        <5> QED
          BY <1>1, <4>1, <5>1, ContainerBrings
      <4>2. CASE ~ShowsPorts(conv.id)
        <5>1. es = <<>>
          BY <1>1, <4>2, ContainerEventsProperties
        <5>2. Free(<<>>, B)
          BY OneLasts
        <5> QED
          BY <5>1, <5>2
      <4> QED
        BY <4>1, <4>2
    <3> HIDE DEF es, F, B, u
    <3>3. /\ Free(Cat(F, es), B) <=> Free(F, B) /\ Free(es, B)
          /\ Lasts(Cat(F, es), u, B)
               <=> Lasts(es, u, B) \/ (Lasts(F, u, B) /\ Free(es, B))
      BY <1>3, <1>5, CatLasts
    <3> QED
      BY <3>1, <3>2, <3>3, Zenon DEF EndsUp, B, u
  <2> QED
    BY <2>1, <2>2
<1>7. ~Converting(c)'
  BY <1>4 DEF Converting
<1> HIDE DEF es, F
<1> QED
  BY <1>2, <1>6, <1>7, Zenon DEF Tracked

\* A step that moves the events on their way without changing them.
LEMMA TrackedMove ==
  ASSUME NEW c, Tracked(c), UNCHANGED <<stream, lis, routes>>,
         Flight(batch', out', conv'.events) = Flight(batch, out, conv.events),
         conv' = conv \/ (conv.pc # "inspect" /\ conv'.pc # "inspect")
  PROVE  Tracked(c)'
<1>1. Converted(c)' <=> Converted(c)
  BY DEF Converted, EndsUp
<1>2. /\ Converting(c)' <=> Converting(c)
      /\ Converting(c) => conv' = conv
  BY DEF Converting
<1> QED
  BY <1>1, <1>2, Zenon DEF Tracked

\* The converter sends an event to the channel.
LEMMA TrackedSend ==
  ASSUME TypeInv, NEW c, Tracked(c), ConvertSend
  PROVE  Tracked(c)'
<1> DEFINE es == conv.events
<1>1. /\ conv.pc = "send" /\ out = <<>> /\ out' = << <<Head(es)>> >>
      /\ UNCHANGED <<stream, lis, batch, routes>>
      /\ conv' = IF Len(es) = 1 THEN Waiting ELSE [conv EXCEPT !.events = Tail(es)]
  BY DEF ConvertSend, dockerVars
<1>2. es \in Seq(Event) /\ es # <<>> /\ batch \in Seq(Event)
  BY <1>1 DEF TypeInv, ConvInv, Conv, ServerInv
<1>3. conv'.events = Tail(es) /\ conv'.pc # "inspect"
  <2>1. CASE Len(es) = 1
    <3>1. Len(es) <= 1
      BY <2>1
    <3>2. Tail(es) = <<>>
      BY <1>2, <3>1, HeadCat
    <3> QED
      BY <1>1, <2>1, <3>2, WaitingType
  <2>2. CASE Len(es) # 1
    BY <1>1, <2>2 DEF TypeInv, ConvInv, Conv
  <2> QED
    BY <2>1, <2>2
<1>4. Flight(batch, << <<Head(es)>> >>, Tail(es)) = Flight(batch, <<>>, es)
  BY <1>2, FlightSend
<1>5. Flight(batch', out', conv'.events) = Flight(batch, out, conv.events)
  BY <1>1, <1>3, <1>4
<1> QED
  BY <1>1, <1>3, <1>5, TrackedMove

\* Server.Listen receives a batch.
LEMMA TrackedListen ==
  ASSUME TypeInv, NEW c, Tracked(c), Listen
  PROVE  Tracked(c)'
<1>1. /\ batch = <<>> /\ out # <<>> /\ batch' = Head(out) /\ out' = Tail(out)
      /\ UNCHANGED <<stream, lis, conv, routes>>
  BY DEF Listen, dockerVars
<1>2. out \in Seq(Seq(Event)) /\ Tail(out) = <<>>
  BY <1>1, HeadCat DEF TypeInv, ServerInv
<1>3. Flight(Head(out), <<>>, conv.events) = Flight(<<>>, out, conv.events)
  BY <1>1, <1>2, FlightListen
<1>4. Flight(batch', out', conv'.events) = Flight(batch, out, conv.events)
  BY <1>1, <1>2, <1>3
<1> QED
  BY <1>1, <1>4, TrackedMove

\* Server.ProcessEvent processes an event.
LEMMA TrackedProcess ==
  ASSUME TypeInv, NEW c \in Container, Tracked(c), ProcessEvent
  PROVE  Tracked(c)'
<1> DEFINE r == Flight(Tail(batch), out, conv.events)
<1>1. /\ batch # <<>> /\ batch' = Tail(batch)
      /\ UNCHANGED <<stream, lis, conv, out>>
  BY DEF ProcessEvent, dockerVars
<1>2. /\ r \in Seq(Event)
      /\ Flight(batch, out, conv.events) = Cat(<<Head(batch)>>, r)
  BY <1>1, FlightProcess DEF TypeInv, ServerInv, ConvInv, Conv
<1>3. Flight(batch', out', conv'.events) = r
  BY <1>1
<1> HIDE DEF r
<1>4. TargetOf[c] \in Target /\ ToSet(HostsOf[c]) \subseteq Hostname
  BY DockerAssumption, ToSetIndex
<1>5. ASSUME Converted(c)
      PROVE  Converted(c)'
  <2> SUFFICES ASSUME NEW h \in ToSet(HostsOf[c])
               PROVE  EndsUp(r, routes', h, TargetOf[c])
    BY <1>3 DEF Converted, EndsUp
  <2>1. EndsUp(Cat(<<Head(batch)>>, r), routes, h, TargetOf[c])
    BY <1>2, <1>5 DEF Converted
  <2> QED
    BY <1>2, <1>4, <2>1, EndsUpProcess DEF TypeInv
<1>6. Converting(c)' <=> Converting(c)
  BY <1>1 DEF Converting
<1> QED
  BY <1>1, <1>5, <1>6, Zenon DEF Tracked
\* What GetActiveContainers returns brings the routes of what runs.
LEMMA TrackedFirst ==
  ASSUME TypeInv, QuietInv, ListedInv, StartProcess, NEW c \in running \cap Published
  PROVE  Tracked(c)'
<1>1. /\ phase = "inspect" /\ todo = {} /\ batch' = results
      /\ UNCHANGED <<stream, lis, conv, out, routes>>
  BY DEF StartProcess, dockerVars
<1>2. stream = <<>> /\ lis = <<>> /\ conv = Waiting /\ out = <<>>
  BY <1>1 DEF QuietInv
<1>3. Listed(c) /\ results \in Seq(Event)
  BY <1>1 DEF ListedInv, TypeInv, StartInv
<1>4. Cat(results, <<>>) = results
  BY <1>3, CatLaws
<1>5. Flight(results, <<>>, <<>>) = results
  BY <1>4 DEF Flight
<1>6. Flight(batch', out', conv'.events) = results
  BY <1>1, <1>2, <1>5, WaitingType
<1>7. Converted(c)'
  BY <1>3, <1>6 DEF Converted, EndsUp, Listed
<1>8. ~Converting(c)'
  BY <1>1, <1>2, WaitingType DEF Converting
<1>9. Free(stream', About(c)) /\ Free(lis', About(c))
  BY <1>1, <1>2, OneLasts
<1> QED
  BY <1>7, <1>8, <1>9, Zenon DEF Tracked

\* Every step keeps the running containers on their way to their routes.
LEMMA TrackStep ==
  ASSUME Paced, ~EarlyChanges, OwnTargets, TypeInv, QuietInv, ListedInv, TrackInv,
         [Next]_vars
  PROVE  TrackInv'
<1> SUFFICES ASSUME phase' \in {"process", "running"},
                    NEW c \in running' \cap Published
             PROVE  Tracked(c)'
  BY DEF TrackInv
<1>a. c \in Container
  BY DockerAssumption
<1>b. ASSUME phase' = phase, running' = running
      PROVE  Tracked(c) /\ c \in running
  BY <1>b DEF TrackInv
<1>1. ASSUME NEW d \in Container, StartContainer(d)
      PROVE  Tracked(c)'
  <2>1. /\ phase' = phase /\ phase = "running" /\ running' = running \cup {d}
        /\ stream' = Append(stream, [action |-> "start", id |-> d])
        /\ UNCHANGED <<lis, conv, out, batch, routes>>
    BY <1>1 DEF StartContainer, Emit, startVars
  <2>2. CASE c = d
    BY <1>a, <2>1, <2>2, TrackedStart DEF StartOf
  <2>3. CASE c # d
    <3> DEFINE x == [action |-> "start", id |-> d]
    <3>1. x \in DaemonEvent /\ x \notin About(c)
      BY <2>3 DEF DaemonEvent, About
    <3>2. Tracked(c)
      BY <2>1, <2>3 DEF TrackInv
    <3>3. stream' = Append(stream, x)
      BY <2>1
    <3> HIDE DEF x
    <3> QED
      BY <2>1, <3>1, <3>2, <3>3, TrackedEmit
  <2> QED
    BY <2>2, <2>3
<1>2. ASSUME NEW d \in Container, StopContainer(d) \/ ContainerExits(d)
      PROVE  Tracked(c)'
  <2>1. PICK a \in {"stop", "die"} : Emit(a, d) /\ running' = running \ {d}
    BY <1>2 DEF StopContainer, ContainerExits
  <2> DEFINE x == [action |-> a, id |-> d]
  <2>2. /\ phase' = phase /\ phase = "running" /\ stream' = Append(stream, x)
        /\ UNCHANGED <<lis, conv, out, batch, routes>>
    BY <2>1 DEF Emit, startVars
  <2>3. c # d /\ Tracked(c)
    BY <2>1, <2>2 DEF TrackInv
  <2>4. x \in DaemonEvent /\ x \notin About(c)
    BY <2>3 DEF DaemonEvent, About
  <2> HIDE DEF x
  <2> QED
    BY <2>2, <2>3, <2>4, TrackedEmit
<1>3. CASE OtherEvent
  <2> DEFINE x == [action |-> "other", id |-> "none"]
  <2>1. /\ phase' = phase /\ phase = "running" /\ stream' = Append(stream, x)
        /\ UNCHANGED <<running, lis, conv, out, batch, routes>>
    BY <1>3 DEF OtherEvent, Emit, startVars
  <2>2. x \in DaemonEvent /\ x \notin About(c)
    BY DEF DaemonEvent, About
  <2> HIDE DEF x
  <2> QED
    BY <1>b, <2>1, <2>2, TrackedEmit
<1>4. CASE StreamEnds
  BY <1>4 DEF StreamEnds
<1>5. CASE Dispatch
  <2>1. lis = <<>> /\ phase' = phase /\ running' = running
    BY <1>5 DEF Dispatch, startVars
  <2> QED
    BY <1>5, <1>b, <2>1, TrackedDispatch
<1>6. CASE StartList \/ StartFails \/ \E d \in Container : StartInspect(d)
  <2>1. ASSUME NEW d \in Container, StartInspect(d)
        PROVE  phase' = "inspect"
    BY <2>1 DEF StartInspect
  <2>2. phase' \in {"inspect", "failed"}
    BY <1>6, <2>1 DEF StartList, StartFails
  <2> QED
    BY <2>2
<1>7. CASE StartProcess
  <2>1. running' = running
    BY <1>7 DEF StartProcess, dockerVars
  <2> QED
    BY <1>7, <2>1, TrackedFirst
<1>8. CASE StartListen
  <2>1. phase = "process" /\ UNCHANGED <<running, stream, lis, conv, out, batch, routes>>
    BY <1>8 DEF StartListen, dockerVars
  <2>2. Tracked(c)
    BY <2>1 DEF TrackInv
  <2> QED
    BY <2>1, <2>2, TrackedMove
<1>9. CASE ConvertTake
  <2>1. phase' = phase /\ running' = running
    BY <1>9 DEF ConvertTake, startVars, dockerVars
  <2> QED
    BY <1>9, <1>a, <1>b, <2>1, TrackedTake
<1>10. CASE ConvertInspect
  <2>1. phase' = phase /\ running' = running
    BY <1>10 DEF ConvertInspect, startVars, dockerVars
  <2> QED
    BY <1>10, <1>b, <2>1, TrackedInspect
<1>11. CASE ConvertSend
  <2>1. phase' = phase /\ running' = running
    BY <1>11 DEF ConvertSend, startVars, dockerVars
  <2> QED
    BY <1>11, <1>b, <2>1, TrackedSend
<1>12. CASE ConvertEnd
  BY <1>12 DEF ConvertEnd, startVars
<1>13. CASE Listen
  <2>1. phase' = phase /\ running' = running
    BY <1>13 DEF Listen, startVars, dockerVars
  <2> QED
    BY <1>13, <1>b, <2>1, TrackedListen
<1>14. CASE ProcessEvent
  <2>1. phase' = phase /\ running' = running
    BY <1>14 DEF ProcessEvent, startVars, dockerVars
  <2> QED
    BY <1>14, <1>a, <1>b, <2>1, TrackedProcess
<1>15. CASE UNCHANGED vars
  <2>1. /\ phase' = phase
        /\ UNCHANGED <<running, stream, lis, conv, out, batch, routes>>
    BY <1>15 DEF vars, startVars, dockerVars
  <2> QED
    BY <1>b, <2>1, TrackedMove
<1> QED
  BY <1>1, <1>2, <1>3, <1>4, <1>5, <1>6, <1>7, <1>8, <1>9, <1>10, <1>11, <1>12,
     <1>13, <1>14, <1>15 DEF Next, Daemon, Start, Convert

DockerInv == TypeInv /\ QuietInv /\ ListedInv /\ TrackInv

\* The tracking of the running containers is invariant.
LEMMA DockerInvariant ==
  ASSUME Paced, ~EarlyChanges, OwnTargets
  PROVE  Spec => []DockerInv
<1>1. Init => DockerInv
  <2> SUFFICES ASSUME Init
               PROVE  DockerInv
    OBVIOUS
  <2>1. /\ phase = "list" /\ stream = <<>> /\ lis = <<>> /\ conv = Waiting
        /\ out = <<>> /\ batch = <<>>
    BY DEF Init
  <2> QED
    BY <2>1, InitTypeInv DEF DockerInv, QuietInv, ListedInv, TrackInv
<1>2. DockerInv /\ [Next]_vars => DockerInv'
  BY TypeStep, QuietStep, ListedStep, TrackStep DEF DockerInv
<1> QED
  BY <1>1, <1>2, PTL DEF Spec

\* When nothing is on its way, a running container has its routes.
LEMMA SettledRouted ==
  ASSUME DockerInv, Settled, NEW h \in Hostname, NEW c \in Backends(h)
  PROVE  TargetOf[c] \in ToSet(routes[h])
<1>1. /\ phase = "running" /\ stream = <<>> /\ lis = <<>> /\ conv = Waiting
      /\ out = <<>> /\ batch = <<>>
  BY DEF Settled
<1>2. c \in running \cap Published /\ h \in ToSet(HostsOf[c])
  BY DEF Backends
<1>3. Tracked(c)
  BY <1>1, <1>2 DEF DockerInv, TrackInv
<1>4. ~Lasts(<<>>, StartOf(c), About(c))
  BY OneLasts
<1>5. ~Converting(c)
  BY <1>1, WaitingType DEF Converting
<1>6. Converted(c)
  BY <1>1, <1>3, <1>4, <1>5 DEF Tracked
<1>7. Flight(batch, out, conv.events) = <<>>
  <2>1. Cat(<<>>, <<>>) = <<>>
    <3>1. \A s \in Seq(Event) : Cat(s, <<>>) = s
      BY CatLaws
    <3>2. <<>> \in Seq(Event)
      BY EmptySeq
    <3> QED
      BY <3>1, <3>2, Zenon
  <2> QED
    BY <1>1, <2>1, WaitingType DEF Flight
<1>8. EndsUp(<<>>, routes, h, TargetOf[c])
  BY <1>2, <1>6, <1>7 DEF Converted
<1>9. ~Lasts(<<>>, UpEvent(h, TargetOf[c]), {DownEvent(h, TargetOf[c])})
  BY OneLasts
<1> QED
  BY <1>8, <1>9 DEF EndsUp

\* No running container is forgotten, for any containers, host names and
\* number of events, whether or not inspecting a stopped container shows its
\* ports and however containers end: when nothing is on its way, every host
\* name of a running container has its handler.  The daemon must be slower than
\* the listener, whose channel drops what it has no room for, containers must
\* not change while razvhost starts, and no two may have the same target, the
\* name by which a route is taken away.
THEOREM ContainersStayRouted ==
  ASSUME Paced, ~EarlyChanges, OwnTargets
  PROVE  Spec => []RunningRouted
<1>1. DockerInv => RunningRouted
  BY SettledRouted DEF RunningRouted
<1> QED
  BY <1>1, DockerInvariant, PTL
=============================================================================
