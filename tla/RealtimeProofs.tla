--------------------------- MODULE RealtimeProofs ----------------------------
(***************************************************************************)
(* Theorems about Realtime, for any number of groups, sockets, requests    *)
(* and errors: the gateway's books, what events say, and what a client     *)
(* knows.                                                                  *)
(*                                                                         *)
(* The inductive invariant adds to the three properties what a request     *)
(* has committed by the statement it is at, and what a GET that was read   *)
(* will answer.                                                            *)
(***************************************************************************)
EXTENDS Realtime, TLAPS

(* Which values the books of the server and of the clients range over.       *)
Shapes ==
  /\ connected \in [Sockets -> (SUBSET Groups) \cup {Nowhere}]
  /\ rooms \in [Sockets -> SUBSET Groups]
  /\ asked \in [Sockets -> SUBSET Groups]
  /\ covered \in [Sockets -> SUBSET Groups]
  /\ view \in [Sockets -> SUBSET Reqs]
  /\ wire \in [Sockets -> Seq(Reqs)]
  /\ \A a \in answer : \E s \in Sockets, g \in Groups, R \in SUBSET Reqs : a = <<s, g, R>>

(* The row of a request is there from its save on, and not before.           *)
Committed ==
  \A r \in Reqs : /\ pc[r] \in {"dispatch", "emit", "done"} => r \in stored
                  /\ pc[r] \in {"idle", "save"} => r \notin stored
                  /\ pc[r] # "idle" => group[r] \in Groups

IInv == TypeOK /\ Shapes /\ Committed /\ EventsAreTrue /\ NothingMissed

-----------------------------------------------------------------------------
(* Sequences of events *)

LEMMA OnWire == ASSUME NEW w \in Seq(Reqs), NEW i \in 1..Len(w) PROVE w[i] \in ToSet(w)
  <1>1. i \in DOMAIN w
    OBVIOUS
  <1>2. QED
    BY <1>1, Zenon DEF ToSet

LEMMA EmptyWire == ToSet(<<>>) = {}
  BY DEF ToSet

LEMMA AppendedWire ==
  ASSUME NEW w \in Seq(Reqs), NEW r \in Reqs
  PROVE  Append(w, r) \in Seq(Reqs) /\ ToSet(Append(w, r)) = ToSet(w) \cup {r}
  <1>1. Append(w, r) \in Seq(Reqs) /\ Len(Append(w, r)) = Len(w) + 1
    OBVIOUS
  <1>2. \A i \in 1..Len(w) : Append(w, r)[i] = w[i]
    OBVIOUS
  <1>3. Append(w, r)[Len(w) + 1] = r
    OBVIOUS
  <1>4. QED
    BY <1>1, <1>2, <1>3 DEF ToSet

LEMMA ReceivedWire ==
  ASSUME NEW w \in Seq(Reqs), w # <<>>
  PROVE  Tail(w) \in Seq(Reqs) /\ Head(w) \in ToSet(w) /\ ToSet(w) = {Head(w)} \cup ToSet(Tail(w))
  <1>1. Len(w) \in Nat \ {0} /\ Tail(w) \in Seq(Reqs) /\ Len(Tail(w)) = Len(w) - 1 /\ Head(w) = w[1]
    OBVIOUS
  <1>2. \A i \in 1..Len(w) - 1 : Tail(w)[i] = w[i + 1]
    OBVIOUS
  <1>3. \A x \in ToSet(w) : x = Head(w) \/ x \in ToSet(Tail(w))
    <2> SUFFICES ASSUME NEW i \in 1..Len(w), i # 1 PROVE w[i] \in ToSet(Tail(w))
      BY <1>1 DEF ToSet
    <2>1. i - 1 \in 1..Len(w) - 1 /\ Tail(w)[i - 1] = w[i]
      BY <1>1, <1>2
    <2>2. Tail(w)[i - 1] \in ToSet(Tail(w))
      BY <1>1, <2>1, OnWire
    <2>3. QED
      BY <2>1, <2>2
  <1>4. \A x \in ToSet(Tail(w)) : x \in ToSet(w)
    <2> SUFFICES ASSUME NEW i \in 1..Len(w) - 1 PROVE Tail(w)[i] \in ToSet(w)
      BY <1>1 DEF ToSet
    <2>1. i + 1 \in 1..Len(w)
      BY <1>1
    <2>2. QED
      BY <1>2, <2>1, OnWire
  <1>5. QED
    BY <1>1, <1>3, <1>4 DEF ToSet

LEMMA WireOfRequests == ASSUME NEW w \in Seq(Reqs) PROVE ToSet(w) \subseteq Reqs
  BY DEF ToSet

(* No set of groups is Nowhere: a socket that is known stays known.          *)
LEMMA KnownIsNotNowhere == ASSUME NEW G \in SUBSET Groups PROVE G # Nowhere
  BY RealtimeAssumption DEF Nowhere

-----------------------------------------------------------------------------
(* Every step keeps the books *)

Books == TypeOK /\ Shapes /\ Committed

LEMMA InitHolds == Init => IInv
  <1> SUFFICES ASSUME Init PROVE IInv
    OBVIOUS
  <1>1. TypeOK /\ Shapes /\ Committed
    BY RealtimeAssumption DEF Init, TypeOK, Shapes, Committed, Nowhere
  <1>2. EventsAreTrue
    BY EmptyWire DEF Init, EventsAreTrue
  <1>3. NothingMissed
    BY DEF Init, NothingMissed
  <1>4. QED
    BY <1>1, <1>2, <1>3 DEF IInv

LEMMA GatewayKeepsBooks == ASSUME Books, NEW s \in Sockets, Gateway(s) PROVE Books'
  <1> USE DEF Books, TypeOK, Shapes, Committed, work
  <1>1. CASE Connect(s)
    <2>1. {} \in SUBSET Groups /\ {} # Nowhere
      BY KnownIsNotNowhere
    <2>2. Shapes' /\ Committed'
      BY <1>1, <2>1 DEF Connect
    <2>3. TypeOK'
      BY <1>1, <2>1 DEF Connect
    <2>4. QED
      BY <2>2, <2>3
  <1>2. CASE Disconnect(s)
    <2>1. Shapes' /\ Committed'
      BY <1>2 DEF Disconnect
    <2>2. \A t \in Sockets : (connected[t] # Nowhere <=> link[t] = "open")'
      BY <1>2 DEF Disconnect
    <2>3. TypeOK'
      <3>1. \A t \in Sockets : rooms'[t] = IF link'[t] = "open" THEN connected'[t] ELSE {}
        BY <1>2 DEF Disconnect
      <3>2. \A t \in Sockets : /\ rooms'[t] \subseteq asked'[t] /\ asked'[t] \subseteq Groups
                               /\ covered'[t] \subseteq rooms'[t]
        BY <1>2 DEF Disconnect
      <3>3. \A t \in Sockets : view'[t] \subseteq Reqs /\ wire'[t] \in Seq(Reqs)
        BY <2>1
      <3>4. QED
        BY <1>2, <2>2, <3>1, <3>2, <3>3 DEF Disconnect
    <2>4. QED
      BY <2>1, <2>3
  <1>3. ASSUME NEW g \in Groups, Subscribe(s, g) PROVE Books'
    <2>1. connected[s] \in SUBSET Groups /\ connected[s] \cup {g} # Nowhere
      BY <1>3, KnownIsNotNowhere DEF Subscribe
    <2>2. Shapes' /\ Committed'
      BY <1>3, <2>1 DEF Subscribe, Joined
    <2>3. TypeOK'
      BY <1>3, <2>1 DEF Subscribe, Joined
    <2>4. QED
      BY <2>2, <2>3
  <1>4. ASSUME NEW g \in Groups, Unsubscribe(s, g) PROVE Books'
    <2>1. connected[s] \in SUBSET Groups /\ connected[s] \ {g} # Nowhere
      BY <1>4, KnownIsNotNowhere DEF Unsubscribe
    <2>2. Shapes' /\ Committed'
      BY <1>4, <2>1 DEF Unsubscribe
    <2>3. TypeOK'
      BY <1>4, <2>1 DEF Unsubscribe
    <2>4. QED
      BY <2>2, <2>3
  <1>5. QED
    BY <1>1, <1>2, <1>3, <1>4 DEF Gateway

LEMMA WriteKeepsBooks == ASSUME Books, NEW r \in Reqs, Write(r) PROVE Books'
  <1> USE DEF Books, TypeOK, Shapes, Committed, sock, Goto
  <1>1. ASSUME NEW g \in Groups, Start(r, g) PROVE Books'
    BY <1>1 DEF Start
  <1>2. CASE Save(r)
    BY <1>2 DEF Save
  <1>3. CASE Dispatched(r)
    BY <1>3 DEF Dispatched
  <1>4. CASE Emit(r)
    BY <1>4, AppendedWire DEF Emit
  <1>5. CASE Fail(r)
    BY <1>5, RealtimeAssumption DEF Fail
  <1>6. QED
    BY <1>1, <1>2, <1>3, <1>4, <1>5 DEF Write

LEMMA ClientKeepsBooks == ASSUME Books, NEW s \in Sockets, Client(s) PROVE Books'
  <1> USE DEF Books, TypeOK, Shapes, Committed, work, sock
  <1>1. CASE Receive(s)
    BY <1>1, ReceivedWire, WireOfRequests DEF Receive
  <1>2. ASSUME NEW g \in Groups, Read(s, g) PROVE Books'
    BY <1>2 DEF Read, RowsOf
  <1>3. CASE Answer(s)
    BY <1>3 DEF Answer
  <1>4. QED
    BY <1>1, <1>2, <1>3 DEF Client

LEMMA CrashKeepsBooks == ASSUME Books, Crash PROVE Books'
  BY RealtimeAssumption DEF Crash, Books, TypeOK, Shapes, Committed

-----------------------------------------------------------------------------
(* Every step keeps the news true and complete *)

News == EventsAreTrue /\ NothingMissed

(* A socket loses what is under way to it only with    *)
(* everything it has covered.                                                *)
OnlyForgets ==
  /\ UNCHANGED <<stored, group, pc, view, answer>>
  /\ \A t \in Sockets :
       /\ asked[t] \subseteq asked'[t]
       /\ \/ wire'[t] = wire[t] /\ covered'[t] \subseteq covered[t]
          \/ wire'[t] = <<>> /\ covered'[t] = {}

LEMMA GatewayKeepsNews == ASSUME IInv, NEW s \in Sockets, Gateway(s) PROVE News'
  <1>1. OnlyForgets
    <2> USE DEF IInv, TypeOK, Shapes, work, OnlyForgets
    <2>1. CASE Connect(s)
      BY <2>1 DEF Connect
    <2>2. CASE Disconnect(s)
      BY <2>2 DEF Disconnect
    <2>3. ASSUME NEW g \in Groups, Subscribe(s, g) PROVE OnlyForgets
      BY <2>3 DEF Subscribe
    <2>4. ASSUME NEW g \in Groups, Unsubscribe(s, g) PROVE OnlyForgets
      BY <2>4 DEF Unsubscribe
    <2>5. QED
      BY <2>1, <2>2, <2>3, <2>4 DEF Gateway
  <1>2. EventsAreTrue'
    BY <1>1, EmptyWire DEF OnlyForgets, IInv, EventsAreTrue
  <1>3. NothingMissed'
    BY <1>1, EmptyWire DEF OnlyForgets, IInv, NothingMissed, RowsOf
  <1>4. QED
    BY <1>2, <1>3 DEF News

LEMMA WriteKeepsNews == ASSUME IInv, NEW r \in Reqs, Write(r) PROVE News'
  <1> USE DEF IInv, TypeOK, Shapes, Committed, News, RowsOf, sock, Goto
  <1>0. \A t \in Sockets : ToSet(wire[t]) \subseteq stored
    BY DEF EventsAreTrue
  <1>1. ASSUME NEW g \in Groups, Start(r, g) PROVE News'
    <2>1. /\ r \notin stored /\ \A q \in stored : group'[q] = group[q] /\ pc'[q] = pc[q]
          /\ UNCHANGED <<stored, wire, asked, covered, view, answer>>
      BY <1>1 DEF Start
    <2>2. QED
      BY <1>0, <2>1 DEF EventsAreTrue, NothingMissed
  <1>2. CASE Save(r)
    <2>1. /\ stored' = stored \cup {r} /\ pc'[r] \in {"dispatch", "emit"}
          /\ \A q \in Reqs \ {r} : pc'[q] = pc[q]
          /\ UNCHANGED <<group, wire, asked, covered, view, answer>>
      BY <1>2 DEF Save
    <2>2. QED
      BY <2>1 DEF EventsAreTrue, NothingMissed
  <1>3. CASE Dispatched(r) \/ Fail(r)
    <2>1. /\ pc'[r] \in {"emit", "failed"} /\ \A q \in Reqs \ {r} : pc'[q] = pc[q]
          /\ UNCHANGED <<stored, group, wire, asked, covered, view, answer>>
      BY <1>3 DEF Dispatched, Fail
    <2>2. QED
      BY <2>1 DEF EventsAreTrue, NothingMissed
  <1>4. CASE Emit(r)
    <2>1. /\ pc[r] = "emit" /\ r \in stored /\ \A q \in Reqs \ {r} : pc'[q] = pc[q]
          /\ UNCHANGED <<stored, group, rooms, asked, covered, view, answer>>
      BY <1>4 DEF Emit
    <2>2. \A t \in Sockets : ToSet(wire'[t]) = ToSet(wire[t]) \cup {q \in {r} : group[q] \in rooms[t]}
      BY <1>4, AppendedWire DEF Emit, Hears
    <2>3. EventsAreTrue'
      BY <2>1, <2>2 DEF EventsAreTrue
    <2>4. NothingMissed'
      BY <2>1, <2>2 DEF NothingMissed
    <2>5. QED
      BY <2>3, <2>4
  <1>5. QED
    BY <1>1, <1>2, <1>3, <1>4 DEF Write

LEMMA ClientKeepsNews == ASSUME IInv, NEW s \in Sockets, Client(s) PROVE News'
  <1> USE DEF IInv, TypeOK, Shapes, News, RowsOf, work, sock
  <1>1. CASE Receive(s)
    <2>1. /\ UNCHANGED <<stored, group, pc, asked, covered, answer>>
          /\ \A t \in Sockets : ToSet(wire'[t]) \subseteq ToSet(wire[t])
          /\ \A t \in Sockets : view[t] \cup ToSet(wire[t]) \subseteq view'[t] \cup ToSet(wire'[t])
      BY <1>1, ReceivedWire DEF Receive
    <2>2. QED
      BY <2>1 DEF EventsAreTrue, NothingMissed
  <1>2. ASSUME NEW g \in Groups, Read(s, g) PROVE News'
    <2>1. /\ UNCHANGED <<stored, group, pc, asked, wire, view>>
          /\ answer' = answer \cup {<<s, g, RowsOf(g)>>}
          /\ \A t \in Sockets : \A h \in covered'[t] : h \in covered[t] \/ (t = s /\ h = g)
      BY <1>2 DEF Read
    <2>2. EventsAreTrue'
      BY <2>1 DEF EventsAreTrue
    <2>3. NothingMissed'
      <3> SUFFICES ASSUME NEW t \in Sockets, NEW h \in covered'[t], NEW q \in RowsOf(h)
                   PROVE  \/ q \in view[t]
                          \/ \E a \in answer' : a[1] = t /\ q \in a[3]
                          \/ q \in ToSet(wire[t])
                          \/ pc[q] \in {"dispatch", "emit", "failed"}
        BY <2>1 DEF NothingMissed
      <3>1. CASE h \in covered[t]
        BY <2>1, <3>1 DEF NothingMissed
      <3>2. ASSUME t = s, h = g PROVE \E a \in answer' : a[1] = t /\ q \in a[3]
        <4>1. <<s, g, RowsOf(g)>> \in answer'
          BY <2>1
        <4>2. QED
          BY <3>2, <4>1
      <3>3. QED
        BY <2>1, <3>1, <3>2
    <2>4. QED
      BY <2>2, <2>3
  <1>3. CASE Answer(s)
    <2>1. PICK a \in answer : /\ a[1] = s /\ answer' = answer \ {a}
                              /\ view' = [view EXCEPT ![s] = @ \cup a[3]]
      BY <1>3 DEF Answer
    <2>2. UNCHANGED <<stored, group, pc, asked, covered, wire>>
      BY <1>3 DEF Answer
    <2>3. \A t \in Sockets : view[t] \subseteq view'[t]
      BY <2>1
    <2>4. a[3] \subseteq view'[s]
      BY <2>1
    <2>5. EventsAreTrue'
      BY <2>2 DEF EventsAreTrue
    <2>6. NothingMissed'
      BY <2>1, <2>2, <2>3, <2>4 DEF NothingMissed
    <2>7. QED
      BY <2>5, <2>6
  <1>4. QED
    BY <1>1, <1>2, <1>3 DEF Client

LEMMA CrashKeepsNews == ASSUME IInv, Crash PROVE News'
  BY EmptyWire DEF Crash, News, EventsAreTrue, NothingMissed

-----------------------------------------------------------------------------

LEMMA StepHolds == IInv /\ [Next]_vars => IInv'
  <1> SUFFICES ASSUME IInv, [Next]_vars PROVE IInv'
    OBVIOUS
  <1> USE DEF IInv, Books, News
  <1>1. CASE Crash
    BY <1>1, CrashKeepsBooks, CrashKeepsNews
  <1>2. CASE Rest \/ UNCHANGED vars
    <2>1. UNCHANGED vars
      BY <1>2 DEF Rest
    <2>2. Books'
      BY <2>1 DEF vars, TypeOK, Shapes, Committed
    <2>3. News'
      BY <2>1 DEF vars, EventsAreTrue, NothingMissed, RowsOf
    <2>4. QED
      BY <2>2, <2>3
  <1>3. ASSUME NEW s \in Sockets, Gateway(s) PROVE IInv'
    BY <1>3, GatewayKeepsBooks, GatewayKeepsNews
  <1>4. ASSUME NEW s \in Sockets, Client(s) PROVE IInv'
    BY <1>4, ClientKeepsBooks, ClientKeepsNews
  <1>5. ASSUME NEW r \in Reqs, Write(r) PROVE IInv'
    BY <1>5, WriteKeepsBooks, WriteKeepsNews
  <1>6. QED
    BY <1>1, <1>2, <1>3, <1>4, <1>5 DEF Next

LEMMA Invariance == Spec => []IInv
  BY InitHolds, StepHolds, PTL DEF Spec

(* The gateway's connectedUsers agrees with the rooms of every open socket,   *)
(* and a socket that has closed is in neither, whatever the order of           *)
(* subscriptions, disconnections and crashes.                                *)
THEOREM TypeCorrect == Spec => []TypeOK
  <1>1. IInv => TypeOK
    BY DEF IInv
  <1>2. QED
    BY Invariance, <1>1, PTL

(* No event reaches a client before the row it tells of is committed, or       *)
(* without the client having asked for that group.                           *)
THEOREM ClientsHearTheTruth == Spec => []EventsAreTrue
  <1>1. IInv => EventsAreTrue
    BY DEF IInv
  <1>2. QED
    BY Invariance, <1>1, PTL

(* A client that subscribes first and reads then misses no row of the group,  *)
(* except one whose request ended with an error between its save and its     *)
(* event.                                                                    *)
THEOREM SubscribersMissNothing == Spec => []NothingMissed
  <1>1. IInv => NothingMissed
    BY DEF IInv
  <1>2. QED
    BY Invariance, <1>1, PTL
=============================================================================
