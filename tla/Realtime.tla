------------------------------ MODULE Realtime ------------------------------
(***************************************************************************)
(* Live updates: the gateway of src/src/modules/realtime and the group     *)
(* services that broadcast through it, from the row to the client.         *)
(*                                                                         *)
(* A handler of the gateway runs without an await: it is one action.  A    *)
(* request that writes is a process: its row is committed, the other       *)
(* members are notified (one await for each), and only then is the event   *)
(* emitted.  Rooms and the delivery of events are those of socket.io: a    *)
(* room is left when its socket closes, events reach a socket in the order *)
(* they were emitted, and those under way are lost when it closes.  The    *)
(* client is external: it loads a group with a GET and then adds what the  *)
(* events tell it.                                                         *)
(***************************************************************************)
EXTENDS Integers, Sequences, FiniteSets, SequencesExt

CONSTANTS
  Groups,
  NoGroup,        \* the group of a request that has not started
  Sockets,        \* connections: a socket id is never used again
  MaxRequests,    \* bound: number of requests that write
  MaxErrors       \* bound: requests that fail, and crashes of the server

ASSUME RealtimeAssumption ==
  NoGroup \notin Groups /\ IsFiniteSet(Groups) /\ IsFiniteSet(Sockets) /\ MaxRequests \in Nat /\ MaxErrors \in Nat

Reqs    == 1..MaxRequests
Nowhere == {NoGroup}                  \* not in connectedUsers: no set of groups

VARIABLES
  stored,     \* rows that are committed; named by the request that wrote them
  group, pc,  \* the group each request writes to, what it is about to do
  link,       \* state of each connection
  connected,  \* connectedUsers: the groupIds of each socket, or Nowhere
  rooms,      \* socket.io: the group rooms each socket is in
  wire,       \* events under way to each socket
  view,       \* rows the client of each socket knows
  answer,     \* the GETs that were read and not answered: <<socket, group, rows>>
  errors,
  (* History variables: no action reads them. *)
  asked,      \* groups each socket has subscribed to
  covered     \* groups whose GET was read while the socket was subscribed, and is still

vars == <<stored, group, pc, link, connected, rooms, wire, view, answer, errors, asked, covered>>
work == <<stored, group, pc>>
sock == <<link, connected, rooms, wire, asked, covered>>

RowsOf(g) == {r \in stored : group[r] = g}
Goto(r, s) == pc' = [pc EXCEPT ![r] = s]

-----------------------------------------------------------------------------
(* Connections.  An operator named Bug... is a seeded fault that stands       *)
(* beside the definition it would replace; nothing uses it.                  *)

(* handleConnection: without a token that verifies the socket is closed again. *)
Connect(s) ==
  /\ link[s] = "new"
  /\ \/ /\ link' = [link EXCEPT ![s] = "open"]
        /\ connected' = [connected EXCEPT ![s] = {}]
     \/ link' = [link EXCEPT ![s] = "closed"] /\ UNCHANGED connected
  /\ UNCHANGED <<work, rooms, wire, view, answer, errors, asked, covered>>

(* The socket closes and leaves its rooms; handleDisconnect forgets it. *)
Disconnect(s) ==
  /\ link[s] = "open"
  /\ link' = [link EXCEPT ![s] = "closed"]
  /\ connected' = [connected EXCEPT ![s] = Nowhere]
  /\ rooms' = [rooms EXCEPT ![s] = {}]
  /\ wire' = [wire EXCEPT ![s] = <<>>]
  /\ covered' = [covered EXCEPT ![s] = {}]
  /\ UNCHANGED <<work, view, answer, errors, asked>>

(* handleSubscribeGroup: nothing is looked up, and nothing tells the client. *)
BugSubscribeBooked(s, g) == UNCHANGED rooms
Joined(s, g) == rooms' = [rooms EXCEPT ![s] = @ \cup {g}]

Subscribe(s, g) ==
  /\ link[s] = "open" /\ connected[s] # Nowhere
  /\ Joined(s, g)
  /\ connected' = [connected EXCEPT ![s] = @ \cup {g}]
  /\ asked' = [asked EXCEPT ![s] = @ \cup {g}]
  /\ UNCHANGED <<work, link, wire, view, answer, errors, covered>>

Unsubscribe(s, g) ==
  /\ link[s] = "open" /\ connected[s] # Nowhere
  /\ rooms' = [rooms EXCEPT ![s] = @ \ {g}]
  /\ connected' = [connected EXCEPT ![s] = @ \ {g}]
  /\ covered' = [covered EXCEPT ![s] = @ \ {g}]
  /\ UNCHANGED <<work, link, wire, view, answer, errors, asked>>

-----------------------------------------------------------------------------
(* Requests that write: addExpense, addMember, joinByCode and settleUp *)

Start(r, g) ==
  /\ pc[r] = "idle"
  /\ \A q \in Reqs : q < r => pc[q] # "idle"
  /\ group' = [group EXCEPT ![r] = g]
  /\ Goto(r, "save")
  /\ UNCHANGED <<stored, sock, view, answer, errors>>

BugSilent(r) ==
  /\ pc[r] = "save"
  /\ stored' = stored \cup {r}
  /\ Goto(r, "dispatch") \/ Goto(r, "done")
  /\ UNCHANGED <<group, sock, view, answer, errors>>

(* settleUp notifies nobody. *)
Save(r) ==
  /\ pc[r] = "save"
  /\ stored' = stored \cup {r}
  /\ Goto(r, "dispatch") \/ Goto(r, "emit")
  /\ UNCHANGED <<group, sock, view, answer, errors>>

Dispatched(r) ==
  /\ pc[r] = "dispatch"
  /\ Goto(r, "emit")
  /\ UNCHANGED <<stored, group, sock, view, answer, errors>>

(* A statement fails: the row stays when it was stored, nothing is emitted. *)
Fail(r) ==
  /\ pc[r] \in {"save", "dispatch"} /\ errors < MaxErrors
  /\ errors' = errors + 1
  /\ Goto(r, "failed")
  /\ UNCHANGED <<stored, group, sock, view, answer>>

Hears(s, g) == g \in rooms[s]

BugEarly(r) ==
  /\ pc[r] \in {"save", "emit"}
  /\ wire' = [s \in Sockets |-> IF Hears(s, group[r]) THEN Append(wire[s], r) ELSE wire[s]]
  /\ Goto(r, IF pc[r] = "save" THEN "dispatch" ELSE "done")
  /\ UNCHANGED <<stored, group, link, connected, rooms, view, answer, errors, asked, covered>>

(* broadcast...: to the sockets that are in the room of the group by now. *)
Emit(r) ==
  /\ pc[r] = "emit"
  /\ wire' = [s \in Sockets |-> IF Hears(s, group[r]) THEN Append(wire[s], r) ELSE wire[s]]
  /\ Goto(r, "done")
  /\ UNCHANGED <<stored, group, link, connected, rooms, view, answer, errors, asked, covered>>

(* The server stops: what it was doing is not resumed and every socket closes. *)
Crash ==
  /\ errors < MaxErrors
  /\ errors' = errors + 1
  /\ pc' = [r \in Reqs |-> IF pc[r] \in {"save", "dispatch", "emit"} THEN "failed" ELSE pc[r]]
  /\ link' = [s \in Sockets |-> IF link[s] = "open" THEN "closed" ELSE link[s]]
  /\ connected' = [s \in Sockets |-> Nowhere]
  /\ rooms' = [s \in Sockets |-> {}] /\ covered' = [s \in Sockets |-> {}]
  /\ wire' = [s \in Sockets |-> <<>>]
  /\ answer' = {}
  /\ UNCHANGED <<stored, group, view, asked>>

-----------------------------------------------------------------------------
(* The client *)

Receive(s) ==
  /\ wire[s] # <<>>
  /\ view' = [view EXCEPT ![s] = @ \cup {Head(wire[s])}]
  /\ wire' = [wire EXCEPT ![s] = Tail(@)]
  /\ UNCHANGED <<work, link, connected, rooms, answer, errors, asked, covered>>

(* The rows of a group are read for a GET, and answered later. *)
Read(s, g) ==
  /\ link[s] = "open" /\ \A a \in answer : a[1] # s
  /\ answer' = answer \cup {<<s, g, RowsOf(g)>>}
  /\ covered' = [covered EXCEPT ![s] = @ \cup ({g} \cap rooms[s])]
  /\ UNCHANGED <<work, link, connected, rooms, wire, view, errors, asked>>

Answer(s) ==
  /\ \E a \in answer :
       /\ a[1] = s
       /\ view' = [view EXCEPT ![s] = @ \cup a[3]]
       /\ answer' = answer \ {a}
  /\ UNCHANGED <<work, sock, errors>>

Init ==
  /\ stored = {} /\ answer = {} /\ errors = 0
  /\ group = [r \in Reqs |-> NoGroup] /\ pc = [r \in Reqs |-> "idle"]
  /\ link = [s \in Sockets |-> "new"]
  /\ connected = [s \in Sockets |-> Nowhere]
  /\ rooms = [s \in Sockets |-> {}] /\ asked = rooms /\ covered = rooms /\ view = rooms
  /\ wire = [s \in Sockets |-> <<>>]

Gateway(s) == Connect(s) \/ Disconnect(s) \/ \E g \in Groups : Subscribe(s, g) \/ Unsubscribe(s, g)
Write(r)   == (\E g \in Groups : Start(r, g)) \/ Save(r) \/ Dispatched(r) \/ Emit(r) \/ Fail(r)
Client(s)  == Receive(s) \/ Answer(s) \/ \E g \in Groups : Read(s, g)

(* No request is being served: server and client wait. *)
Rest == (\A r \in Reqs : pc[r] \in {"idle", "done", "failed"}) /\ UNCHANGED vars

Next == Crash \/ Rest \/ (\E s \in Sockets : Gateway(s) \/ Client(s)) \/ \E r \in Reqs : Write(r)

Spec == Init /\ [][Next]_vars

-----------------------------------------------------------------------------
(* Properties *)

(* The gateway's own books agree with the rooms of every open socket, and a *)
(* closed one is in neither.                                                *)
TypeOK ==
  /\ stored \subseteq Reqs /\ errors \in 0..MaxErrors
  /\ group \in [Reqs -> Groups \cup {NoGroup}]
  /\ pc \in [Reqs -> {"idle", "save", "dispatch", "emit", "done", "failed"}]
  /\ link \in [Sockets -> {"new", "open", "closed"}]
  /\ \A s \in Sockets :
       /\ connected[s] # Nowhere <=> link[s] = "open"
       /\ rooms[s] = IF link[s] = "open" THEN connected[s] ELSE {}
       /\ rooms[s] \subseteq asked[s] /\ asked[s] \subseteq Groups
       /\ covered[s] \subseteq rooms[s] /\ view[s] \subseteq Reqs /\ wire[s] \in Seq(Reqs)

(* What a client is told of is true and was asked for: the row of an event is *)
(* committed before the event leaves, and it belongs to a group the socket    *)
(* has subscribed to.                                                        *)
EventsAreTrue ==
  \A s \in Sockets : \A r \in ToSet(wire[s]) : r \in stored /\ group[r] \in asked[s]

(* A client whose subscription was in force when its GET was read misses      *)
(* nothing while it stays: every row of the group is in what it knows, in the *)
(* answer it waits for, in an event under way to it, or written by a request  *)
(* that will still emit.  The exception is a request that stored its row and  *)
(* ended with an error before it could emit.                                  *)
NothingMissed ==
  \A s \in Sockets : \A g \in covered[s] : \A r \in RowsOf(g) :
    \/ r \in view[s]
    \/ \E a \in answer : a[1] = s /\ r \in a[3]
    \/ r \in ToSet(wire[s])
    \/ pc[r] \in {"dispatch", "emit", "failed"}
=============================================================================
