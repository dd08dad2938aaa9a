---------------------------- MODULE ServerProofs ----------------------------
(***************************************************************************)
(* The sockets of a server, for every number of clients and whatever the   *)
(* connections do.                                                         *)
(*                                                                         *)
(* A stream that is disconnected keeps its socket, which the pool gives to *)
(* another stream.  So what has to be shown is that a socket that is open  *)
(* is the one its own client's stream has, and that the pool and the new   *)
(* sockets are never open ones.                                            *)
(***************************************************************************)
EXTENDS Server, ListLemmas

ServerTypes ==
  /\ canConnect \in BOOLEAN /\ connections \in 0 .. MaxClients
  /\ client \in [Clients -> {"away", "pending", "served", "closed"}]
  /\ socketOf \in [Clients -> Sockets \union {None}]
  /\ connected \in [Sockets -> Clients \union {None}] /\ pool \in Seq(Sockets)
  /\ jobList \in Seq(Jobs) /\ readyJobs \in Seq(Jobs)

(* The clients come in the order of their numbers, and while the server    *)
(* accepts, the ones it has accepted are the first.                        *)
ClientsInOrder ==
  /\ \A i, k \in Clients : i < k /\ client[k] # "away" => client[i] # "away"
  /\ canConnect =>
       \A k \in Clients : client[k] \in {"served", "closed"} <=> k <= connections

(* The server's job is ready for one client that is there.                 *)
ReadyForOne ==
  ServerJob \in Mem(readyJobs) =>
    connections < MaxClients /\ (canConnect => client[connections + 1] = "pending")

(* Streams have taken new sockets in order, one at most per connection.    *)
SocketsTaken ==
  /\ \A k \in Clients : k > connections => socketOf[k] = None
  /\ \E m \in 0 .. connections : {socketOf[k] : k \in Clients} \ {None} = 1 .. m

(* A socket is connected to the client of the connection that has it, and  *)
(* the clients that are served have one.                                   *)
ConnectedOwn ==
  /\ \A s \in Sockets :
       connected[s] # None => socketOf[connected[s]] = s /\ client[connected[s]] = "served"
  /\ \A k \in Clients : client[k] = "served" =>
       k \in Mem(jobList) /\ \E s \in Sockets : connected[s] = k

PoolClosed ==
  /\ Once(pool)
  /\ \A s \in Mem(pool) : connected[s] = None /\ \E k \in Clients : socketOf[k] = s

JobsOnce ==
  /\ Once(jobList) /\ \A j \in Mem(jobList) : j <= connections
  /\ Once(readyJobs)

ServerInv ==
  /\ ServerTypes /\ ClientsInOrder /\ ReadyForOne /\ SocketsTaken /\ ConnectedOwn
  /\ PoolClosed /\ JobsOnce
-----------------------------------------------------------------------------
LEMMA ClientNat ==
  /\ MaxClients \in Nat \ {0} /\ Clients = 1 .. MaxClients /\ Sockets = 1 .. MaxClients
  /\ None = 0 /\ ServerJob = 0 /\ Jobs = 0 .. MaxClients
BY ServerAssumption DEF Clients, Sockets, None, ServerJob, Jobs

(* Kept and what it keeps.                                                 *)
LEMMA KeptJobs ==
  ASSUME NEW s \in Seq(Jobs), NEW S
  PROVE  /\ Kept(s, S) \in Seq(Jobs) /\ Mem(Kept(s, S)) = {j \in Mem(s) : j \in S}
         /\ Once(s) => Once(Kept(s, S))
<1>1. Kept(s, S) = KeptUpTo(s, S)[Len(s)]
  BY DEF Kept, KeptUpTo
<1>2. IsKept(Jobs, Kept(s, S), s, Len(s), S)
  BY <1>1, KeptIsKept
<1> QED
  BY <1>2, KeptFacts

LEMMA InitServer == Init => ServerInv
<1> SUFFICES ASSUME Init PROVE ServerInv
  OBVIOUS
<1>1. ServerTypes /\ ClientsInOrder
  BY ClientNat DEF Init, ServerTypes, ClientsInOrder
<1>2. ReadyForOne /\ ConnectedOwn /\ PoolClosed
  BY ClientNat DEF Init, ReadyForOne, ConnectedOwn, PoolClosed, Mem, Once
<1>3. SocketsTaken
  <2>1. {socketOf[k] : k \in Clients} \ {None} = 1 .. 0
    BY DEF Init
  <2> QED
    BY <2>1 DEF Init, SocketsTaken
<1>4. JobsOnce
  <2>1. Once(jobList) /\ Once(readyJobs)
    BY DEF Init, Once
  <2>2. Mem(jobList) = {ServerJob}
    BY DEF Init, Mem
  <2> QED
    BY <2>1, <2>2, ClientNat DEF Init, JobsOnce
<1> QED
  BY <1>1, <1>2, <1>3, <1>4 DEF ServerInv

(* A client comes.                                                         *)
LEMMA ComesInv ==
  ASSUME ServerInv, NEW k \in Clients, ClientConnects(k) PROVE ServerInv'
<1>1. /\ client[k] = "away" /\ \A i \in Clients : i < k => client[i] # "away"
      /\ client' = [client EXCEPT ![k] = "pending"]
      /\ UNCHANGED <<canConnect, connections, socketOf, connected, pool, jobList, readyJobs>>
  BY DEF ClientConnects, sockets
<1>2. ServerTypes'
  BY <1>1 DEF ServerInv, ServerTypes
<1>3. \A i \in Clients : client'[i] = IF i = k THEN "pending" ELSE client[i]
  BY <1>1 DEF ServerInv, ServerTypes
<1>4. ClientsInOrder'
  <2>1. \A i, l \in Clients : i < l /\ client'[l] # "away" => client'[i] # "away"
    BY <1>1, <1>3 DEF ServerInv, ClientsInOrder
  <2>2. canConnect => \A l \in Clients : client'[l] \in {"served", "closed"} <=> l <= connections
    BY <1>1, <1>3 DEF ServerInv, ClientsInOrder
  <2> QED
    BY <1>1, <2>1, <2>2 DEF ClientsInOrder
<1>5. ReadyForOne'
  BY <1>1, <1>3 DEF ServerInv, ReadyForOne, ServerTypes
<1>6. SocketsTaken' /\ PoolClosed' /\ JobsOnce'
  BY <1>1 DEF ServerInv, SocketsTaken, PoolClosed, JobsOnce
<1>7. ConnectedOwn'
  <2>1. ASSUME NEW s \in Sockets, connected[s] # None
        PROVE  socketOf[connected[s]] = s /\ client'[connected[s]] = "served"
    <3>1. connected[s] \in Clients /\ client[connected[s]] = "served" /\ socketOf[connected[s]] = s
      BY <2>1 DEF ServerInv, ServerTypes, ConnectedOwn
    <3> QED
      BY <1>1, <1>3, <3>1
  <2>2. \A l \in Clients : client'[l] = "served" => client[l] = "served"
    BY <1>3
  <2> QED
    BY <1>1, <2>1, <2>2 DEF ServerInv, ConnectedOwn
<1> QED
  BY <1>2, <1>4, <1>5, <1>6, <1>7 DEF ServerInv

(* A turn of the loop: only connections that are closed leave the list.    *)
LEMMA SelectInv == ASSUME ServerInv, Select PROVE ServerInv'
<1> DEFINE D == {j \in Jobs : ~done(j)}
           list == Kept(jobList, D)
           possible == {j \in ToSet(list) : j # ServerJob \/ (canConnect /\ Pending # {})}
<1>1. /\ jobList' = list
      /\ \/ readyJobs' = readyJobs
         \/ \E ready \in SUBSET possible : readyJobs' = Kept(list, ready)
      /\ UNCHANGED <<canConnect, connections, client, socketOf, connected, pool>>
  BY DEF Select, sockets
<1>2. /\ list \in Seq(Jobs) /\ Mem(list) = {j \in Mem(jobList) : j \in D} /\ Once(list)
  BY KeptJobs DEF ServerInv, ServerTypes, JobsOnce
<1> HIDE DEF list
<1>3. \A S : /\ Kept(list, S) \in Seq(Jobs) /\ Mem(Kept(list, S)) = {j \in Mem(list) : j \in S}
             /\ Once(Kept(list, S))
  BY <1>2, KeptJobs
<1>4. ServerTypes'
  BY <1>1, <1>2, <1>3 DEF ServerInv, ServerTypes
<1>5. JobsOnce'
  BY <1>1, <1>2, <1>3 DEF ServerInv, JobsOnce
<1>6. ClientsInOrder' /\ SocketsTaken' /\ PoolClosed'
  BY <1>1 DEF ServerInv, ClientsInOrder, SocketsTaken, PoolClosed
<1>7. ReadyForOne'
  <2>1. CASE readyJobs' = readyJobs
    BY <1>1, <2>1 DEF ServerInv, ReadyForOne
  <2>2. ASSUME NEW ready \in SUBSET possible, readyJobs' = Kept(list, ready),
               ServerJob \in Mem(readyJobs')
        PROVE  connections < MaxClients /\ (canConnect => client[connections + 1] = "pending")
    <3>1. ServerJob \in ready
      BY <1>3, <2>2
    <3>2. canConnect /\ Pending # {}
      BY <2>2, <3>1
    <3>3. PICK p \in Clients : client[p] = "pending"
      BY <3>2 DEF Pending
    <3>4. ~(p <= connections)
      BY <3>2, <3>3 DEF ServerInv, ClientsInOrder
    <3>5. /\ connections \in Nat /\ p \in Nat /\ connections + 1 \in Clients
          /\ connections < MaxClients /\ connections + 1 <= p /\ ~(connections + 1 <= connections)
      BY <3>4, ClientNat DEF ServerInv, ServerTypes
    <3>6. client[connections + 1] # "away"
      <4>1. CASE connections + 1 = p
        BY <3>3, <4>1
      <4>2. CASE connections + 1 # p
        <5>1. connections + 1 < p
          BY <3>5, <4>2
        <5> QED
          BY <3>3, <3>5, <5>1 DEF ServerInv, ClientsInOrder
      <4> QED
        BY <4>1, <4>2
    <3>7. client[connections + 1] \notin {"served", "closed"}
      BY <3>2, <3>5 DEF ServerInv, ClientsInOrder
    <3>8. client[connections + 1] = "pending"
      BY <3>5, <3>6, <3>7 DEF ServerInv, ServerTypes
    <3> QED
      BY <3>5, <3>8
  <2> QED
    BY <1>1, <2>1, <2>2 DEF ReadyForOne
<1>8. ConnectedOwn'
  <2>1. ASSUME NEW k \in Clients, client[k] = "served" PROVE k \in Mem(list)
    <3>1. PICK s \in Sockets : connected[s] = k
      BY <2>1 DEF ServerInv, ConnectedOwn
    <3>2. socketOf[k] = s /\ k # None /\ s # None /\ k # ServerJob
      BY <3>1, ClientNat DEF ServerInv, ConnectedOwn
    <3>3. ~done(k)
      BY <3>1, <3>2 DEF done, is_connected
    <3>4. k \in Mem(jobList) /\ k \in Jobs
      BY <2>1 DEF ServerInv, ConnectedOwn, Jobs
    <3> QED
      BY <1>2, <3>3, <3>4
  <2> QED
    BY <1>1, <2>1 DEF ServerInv, ConnectedOwn
<1> QED
  BY <1>4, <1>5, <1>6, <1>7, <1>8 DEF ServerInv
-----------------------------------------------------------------------------
(* The ready jobs that are left.                                           *)
Left == readyJobs' \in Seq(Jobs) /\ Mem(readyJobs') \subseteq Mem(readyJobs) /\ Once(readyJobs')

LEMMA ContinuedLeaves ==
  ASSUME ServerInv, NEW j, Continued(j)
  PROVE  Left /\ j \in Mem(readyJobs) /\ j \notin Mem(readyJobs')
<1>1. readyJobs \in Seq(Jobs) /\ Once(readyJobs)
  BY DEF ServerInv, ServerTypes, JobsOnce
<1> QED
  BY <1>1, FrontFacts DEF Continued, Left

(* Nothing but the ready jobs, the pool that is emptied, and can_connect.  *)
LEMMA QuietInv ==
  ASSUME ServerInv, Left, UNCHANGED <<connections, client, socketOf, connected, jobList>>,
         pool' = pool \/ pool' = <<>>, canConnect' = canConnect \/ canConnect' = FALSE
  PROVE  ServerInv'
<1>1. ServerTypes'
  <2>1. <<>> \in Seq(Sockets)
    OBVIOUS
  <2>2. pool' \in Seq(Sockets)
    BY <2>1 DEF ServerInv, ServerTypes
  <2>3. canConnect' \in BOOLEAN
    BY DEF ServerInv, ServerTypes
  <2> QED
    BY <2>2, <2>3 DEF Left, ServerInv, ServerTypes
<1>2. ClientsInOrder' /\ SocketsTaken' /\ ConnectedOwn'
  BY DEF ServerInv, ClientsInOrder, SocketsTaken, ConnectedOwn
<1>3. ReadyForOne'
  BY DEF Left, ServerInv, ReadyForOne
<1>4. JobsOnce'
  BY DEF Left, ServerInv, JobsOnce
<1>5. PoolClosed'
  <2>1. CASE pool' = pool
    BY <2>1 DEF ServerInv, PoolClosed
  <2>2. CASE pool' = <<>>
    BY <2>2 DEF PoolClosed, Mem, Once
  <2> QED
    BY <2>1, <2>2
<1> QED
  BY <1>1, <1>2, <1>3, <1>4, <1>5 DEF ServerInv

LEMMA SameReady == ASSUME ServerInv, readyJobs' = readyJobs PROVE Left
BY DEF Left, ServerInv, ServerTypes, JobsOnce

(* A connection is disconnected: its socket goes to the pool.              *)
LEMMA DisconnectsInv ==
  ASSUME ServerInv, NEW k \in Clients, ContinueDisconnects(k) PROVE ServerInv'
<1> DEFINE s == socketOf[k]
           c == connected[s]
<1>1. Left
  BY ContinuedLeaves DEF ContinueDisconnects
<1>2. /\ s \in Sockets /\ c \in Clients
      /\ client' = [client EXCEPT ![c] = "closed"]
      /\ connected' = [connected EXCEPT ![s] = None]
      /\ pool' = Append(pool, s)
      /\ UNCHANGED <<canConnect, connections, socketOf, jobList>>
      /\ s # None /\ c # None
  BY DEF ContinueDisconnects, is_connected, ServerInv, ServerTypes
<1>3. socketOf[c] = s /\ client[c] = "served"
  BY <1>2 DEF ServerInv, ConnectedOwn
<1>4. \A t \in Sockets : t # s /\ connected[t] # None => connected[t] # c
  BY <1>3 DEF ServerInv, ConnectedOwn
<1>5. \A t \in Sockets : connected'[t] = IF t = s THEN None ELSE connected[t]
  BY <1>2 DEF ServerInv, ServerTypes
<1>6. \A i \in Clients : client'[i] = IF i = c THEN "closed" ELSE client[i]
  BY <1>2 DEF ServerInv, ServerTypes
<1>7. /\ pool' \in Seq(Sockets) /\ Mem(pool') = Mem(pool) \cup {s}
      /\ s \notin Mem(pool) => Once(pool')
  <2>0. pool \in Seq(Sockets) /\ Once(pool)
    BY DEF ServerInv, ServerTypes, PoolClosed
  <2>1. /\ pool' \in Seq(Sockets) /\ Len(pool') = Len(pool) + 1 /\ Len(pool) \in Nat
        /\ \A i \in 1 .. Len(pool) : pool'[i] = pool[i]
        /\ pool'[Len(pool) + 1] = s
    BY <1>2, <2>0
  <2>2. \A i \in 1 .. Len(pool') : i \in 1 .. Len(pool) \/ i = Len(pool) + 1
    BY <2>1
  <2>3. \A i \in 1 .. Len(pool) : i \in 1 .. Len(pool')
    BY <2>1
  <2>4. Len(pool) + 1 \in 1 .. Len(pool')
    BY <2>1
  <2>5. Mem(pool') = Mem(pool) \cup {s}
    BY <2>1, <2>2, <2>3, <2>4 DEF Mem
  <2>6. s \notin Mem(pool) => Once(pool')
    BY <2>0, <2>1, <2>2 DEF Mem, Once
  <2> QED
    BY <2>1, <2>5, <2>6
<1> HIDE DEF s, c
<1>8. ServerTypes'
  BY <1>1, <1>2, <1>7 DEF ServerInv, ServerTypes, Left
<1>9. ClientsInOrder'
  <2>1. \A i, l \in Clients : i < l /\ client'[l] # "away" => client'[i] # "away"
    BY <1>3, <1>6 DEF ServerInv, ClientsInOrder
  <2>2. canConnect => \A l \in Clients : client'[l] \in {"served", "closed"} <=> l <= connections
    BY <1>3, <1>6 DEF ServerInv, ClientsInOrder
  <2> QED
    BY <1>2, <2>1, <2>2 DEF ClientsInOrder
<1>10. ReadyForOne'
  <2>1. ASSUME ServerJob \in Mem(readyJobs)
        PROVE  connections < MaxClients /\ (canConnect => client'[connections + 1] = "pending")
    <3>1. connections < MaxClients /\ connections + 1 \in Clients
      BY <2>1, ClientNat DEF ServerInv, ReadyForOne, ServerTypes
    <3>2. canConnect => client[connections + 1] = "pending"
      BY <2>1 DEF ServerInv, ReadyForOne
    <3> QED
      BY <1>3, <1>6, <3>1, <3>2
  <2> QED
    BY <1>1, <1>2, <2>1 DEF ReadyForOne, Left
<1>11. SocketsTaken'
  BY <1>2 DEF ServerInv, SocketsTaken
<1>12. ConnectedOwn'
  <2>1. ASSUME NEW t \in Sockets, connected'[t] # None
        PROVE  socketOf[connected'[t]] = t /\ client'[connected'[t]] = "served"
    <3>1. t # s /\ connected'[t] = connected[t]
      BY <1>5, <2>1
    <3>2. connected[t] \in Clients /\ socketOf[connected[t]] = t /\ client[connected[t]] = "served"
      BY <2>1, <3>1 DEF ServerInv, ServerTypes, ConnectedOwn
    <3>3. connected[t] # c
      BY <1>4, <2>1, <3>1
    <3> QED
      BY <1>6, <3>1, <3>2, <3>3
  <2>2. ASSUME NEW i \in Clients, client'[i] = "served"
        PROVE  i \in Mem(jobList) /\ \E t \in Sockets : connected'[t] = i
    <3>1. i # c /\ client[i] = "served"
      BY <1>6, <2>2
    <3>2. PICK t \in Sockets : connected[t] = i
      BY <3>1 DEF ServerInv, ConnectedOwn
    <3>3. t # s
      BY <3>1, <3>2 DEF c
    <3> QED
      BY <1>5, <3>1, <3>2, <3>3 DEF ServerInv, ConnectedOwn
  <2> QED
    BY <1>2, <2>1, <2>2 DEF ConnectedOwn
<1>13. PoolClosed'
  <2>1. s \notin Mem(pool)
    BY <1>2 DEF ServerInv, PoolClosed, c
  <2>2. ASSUME NEW t \in Mem(pool') PROVE connected'[t] = None /\ \E i \in Clients : socketOf[i] = t
    <3>1. CASE t = s
      BY <1>2, <1>5, <3>1 DEF s
    <3>2. CASE t # s
      <4>1. t \in Mem(pool) /\ connected[t] = None /\ \E i \in Clients : socketOf[i] = t
        BY <1>7, <3>2 DEF ServerInv, PoolClosed
      <4>2. t \in Sockets
        BY <4>1 DEF ServerInv, ServerTypes, Mem
      <4> QED
        BY <1>5, <3>2, <4>1, <4>2
    <3> QED
      BY <3>1, <3>2
  <2> QED
    BY <1>2, <1>7, <2>1, <2>2 DEF PoolClosed
<1>14. JobsOnce'
  BY <1>1, <1>2 DEF ServerInv, JobsOnce, Left
<1> QED
  BY <1>8, <1>9, <1>10, <1>11, <1>12, <1>13, <1>14 DEF ServerInv
-----------------------------------------------------------------------------
(* The socket of a new stream is closed, and no other stream gets it.      *)
Fresh(n, p) ==
  /\ n \in Sockets /\ connected[n] = None
  /\ p \in Seq(Sockets) /\ Once(p) /\ n \notin Mem(p) /\ Mem(p) \subseteq Mem(pool)
Taken == {socketOf[k] : k \in Clients} \ {None}

LEMMA NewSocketFresh ==
  ASSUME ServerInv, connections < MaxClients
  PROVE  /\ Fresh(NewSocket, Popped)
         /\ \E m \in 0 .. connections + 1 : Taken \cup {NewSocket} = 1 .. m
<1>1. PICK m \in 0 .. connections : Taken = 1 .. m
  BY DEF ServerInv, SocketsTaken, Taken
<1>2. pool \in Seq(Sockets) /\ Once(pool)
  BY DEF ServerInv, ServerTypes, PoolClosed
<1>3. connections \in Nat /\ connections + 1 <= MaxClients /\ MaxClients \in Nat
  BY ClientNat DEF ServerInv, ServerTypes
<1>4. CASE pool # <<>>
  <2>1. NewSocket = Last(pool) /\ Popped = Front(pool)
    BY <1>4 DEF NewSocket, Popped
  <2>2. /\ Popped \in Seq(Sockets) /\ Once(Popped) /\ NewSocket \notin Mem(Popped)
        /\ Mem(Popped) \subseteq Mem(pool) /\ NewSocket \in Mem(pool)
    BY <1>2, <1>4, <2>1, FrontFacts
  <2>3. NewSocket \in Sockets
    BY <1>2, <2>2 DEF Mem
  <2>4. connected[NewSocket] = None /\ NewSocket \in Taken
    <3>1. NewSocket # None
      BY <2>3, ClientNat
    <3> QED
      BY <2>2, <3>1 DEF ServerInv, PoolClosed, Taken
  <2>5. m \in 0 .. connections + 1 /\ Taken \cup {NewSocket} = 1 .. m
    BY <1>1, <1>3, <2>4
  <2> QED
    BY <2>2, <2>3, <2>4, <2>5 DEF Fresh
<1>5. CASE pool = <<>>
  <2>1. Sockets \ Range(socketOf) = {s \in Sockets : s > m}
    <3>1. Range(socketOf) = {socketOf[k] : k \in Clients}
      BY DEF Range, ServerInv, ServerTypes
    <3>2. \A s \in Sockets : s # None /\ s \in Nat /\ s >= 1
      BY ClientNat
    <3>3. \A s \in Sockets : s \in Range(socketOf) <=> s \in 1 .. m
      BY <1>1, <3>1, <3>2 DEF Taken
    <3> QED
      BY <1>1, <3>2, <3>3
  <2> DEFINE S == {s \in Sockets : s > m}
  <2>2. m + 1 \in S /\ S \in SUBSET Nat /\ \A s \in S : m + 1 <= s
    BY <1>1, <1>3, ClientNat
  <2> HIDE DEF S
  <2>3. Min(S) \in S /\ Min(S) <= m + 1
    <3>1. S # {} /\ m + 1 \in S
      BY <2>2
    <3> QED
      BY <2>2, <3>1, MinFacts
  <2>4. Min(S) = m + 1
    <3>1. Min(S) \in Nat /\ m + 1 <= Min(S) /\ m + 1 \in Nat
      BY <2>2, <2>3
    <3> QED
      BY <2>3, <3>1
  <2>5. NewSocket = m + 1 /\ Popped = <<>>
    BY <1>5, <2>1, <2>4 DEF NewSocket, Popped, S
  <2>6. NewSocket \in Sockets /\ NewSocket \notin Taken
    BY <1>1, <2>2, <2>5 DEF S
  <2>7. connected[NewSocket] = None
    <3>1. SUFFICES ASSUME connected[NewSocket] # None PROVE FALSE
      OBVIOUS
    <3>2. connected[NewSocket] \in Clients /\ socketOf[connected[NewSocket]] = NewSocket
      BY <2>6, <3>1 DEF ServerInv, ServerTypes, ConnectedOwn
    <3>3. NewSocket # None
      BY <2>6, ClientNat
    <3> QED
      BY <2>6, <3>2, <3>3 DEF Taken
  <2>8. Popped \in Seq(Sockets) /\ Once(Popped) /\ Mem(Popped) = {}
    BY <2>5 DEF Once, Mem
  <2>9. m + 1 \in 0 .. connections + 1 /\ Taken \cup {NewSocket} = 1 .. m + 1
    BY <1>1, <1>3, <2>5
  <2> QED
    BY <2>6, <2>7, <2>8, <2>9 DEF Fresh
<1> QED
  BY <1>4, <1>5

(* A stream is made; it is connected when the server still accepts.        *)
LEMMA AcceptsInv == ASSUME ServerInv, ContinueServer PROVE ServerInv'
<1> DEFINE k == connections + 1
           n == NewSocket
<1>1. Left /\ ServerJob \in Mem(readyJobs) /\ ServerJob \notin Mem(readyJobs')
  BY ContinuedLeaves DEF ContinueServer
<1>2. connections < MaxClients /\ (canConnect => client[k] = "pending")
  BY <1>1 DEF ServerInv, ReadyForOne
<1>3. k \in Clients /\ k \in Nat /\ connections \in Nat /\ k # None
  BY <1>2, ClientNat DEF ServerInv, ServerTypes
<1>4. /\ socketOf' = [socketOf EXCEPT ![k] = n] /\ pool' = Popped
      /\ \/ /\ canConnect
            /\ connected' = [connected EXCEPT ![n] = k]
            /\ client' = [client EXCEPT ![k] = "served"]
         \/ /\ ~canConnect /\ connected' = connected /\ client' = client
      /\ connections' = k /\ jobList' = Append(jobList, k)
      /\ canConnect' = canConnect
  BY DEF ContinueServer, Accepts
<1>5. Fresh(n, pool') /\ \E m \in 0 .. k : Taken \cup {n} = 1 .. m
  BY <1>2, <1>4, NewSocketFresh
<1>6. n # None /\ n \in Sockets /\ connected[n] = None /\ socketOf[k] = None
  BY <1>3, <1>5, ClientNat DEF Fresh, ServerInv, SocketsTaken
<1> HIDE DEF n
<1>7. \A i \in Clients : socketOf'[i] = IF i = k THEN n ELSE socketOf[i]
  BY <1>4 DEF ServerInv, ServerTypes
<1>8. \A s \in Sockets : connected'[s] = IF canConnect /\ s = n THEN k ELSE connected[s]
  BY <1>4 DEF ServerInv, ServerTypes
<1>9. \A i \in Clients : client'[i] = IF canConnect /\ i = k THEN "served" ELSE client[i]
  BY <1>4 DEF ServerInv, ServerTypes
<1>10. k \in Jobs /\ k \notin Mem(jobList)
  <2>1. k \in Jobs /\ ~(k <= connections)
    BY <1>3 DEF Jobs
  <2> QED
    BY <2>1 DEF ServerInv, JobsOnce
<1>11. /\ jobList' \in Seq(Jobs) /\ Mem(jobList') = Mem(jobList) \cup {k} /\ Once(jobList')
  BY <1>4, <1>10, AppendFacts DEF ServerInv, ServerTypes, JobsOnce
<1>12. ServerTypes'
  <2>1. connections' \in 0 .. MaxClients
    BY <1>2, <1>3, <1>4, ClientNat
  <2>2. client' \in [Clients -> {"away", "pending", "served", "closed"}]
    BY <1>4 DEF ServerInv, ServerTypes
  <2>3. socketOf' \in [Clients -> Sockets \union {None}]
    BY <1>4, <1>6 DEF ServerInv, ServerTypes
  <2>4. connected' \in [Sockets -> Clients \union {None}]
    BY <1>3, <1>4 DEF ServerInv, ServerTypes
  <2> QED
    BY <1>1, <1>4, <1>5, <1>11, <2>1, <2>2, <2>3, <2>4 DEF ServerInv, ServerTypes, Left, Fresh
<1> HIDE DEF k
<1>13. \A i \in Clients : i <= k <=> i <= connections \/ i = k
  BY <1>3, ClientNat DEF k
<1>14. ClientsInOrder'
  <2>1. \A i, l \in Clients : i < l /\ client'[l] # "away" => client'[i] # "away"
    BY <1>2, <1>9 DEF ServerInv, ClientsInOrder, k
  <2>2. canConnect => \A l \in Clients : client'[l] \in {"served", "closed"} <=> l <= k
    BY <1>9, <1>13 DEF ServerInv, ClientsInOrder
  <2> QED
    BY <1>4, <2>1, <2>2 DEF ClientsInOrder
<1>15. ReadyForOne'
  BY <1>1 DEF ReadyForOne
<1>16. SocketsTaken'
  <2>1. \A i \in Clients : i > k => i # k /\ i > connections
    BY <1>3, ClientNat DEF k
  <2>2. \A i \in Clients : i > k => socketOf'[i] = None
    BY <1>7, <2>1 DEF ServerInv, SocketsTaken
  <2>3. {socketOf'[i] : i \in Clients} \ {None} = Taken \cup {n}
    <3>1. \A i \in Clients : i # k => socketOf'[i] = socketOf[i]
      BY <1>7
    <3>2. socketOf'[k] = n
      BY <1>3, <1>7
    <3> QED
      BY <1>3, <1>6, <3>1, <3>2 DEF Taken
  <2> QED
    BY <1>4, <1>5, <2>2, <2>3 DEF SocketsTaken
<1>17. ConnectedOwn'
  <2>1. ASSUME NEW s \in Sockets, connected'[s] # None
        PROVE  socketOf'[connected'[s]] = s /\ client'[connected'[s]] = "served"
    <3>1. CASE canConnect /\ s = n
      BY <1>3, <1>7, <1>8, <1>9, <3>1
    <3>2. CASE ~(canConnect /\ s = n)
      <4>1. connected'[s] = connected[s]
        BY <1>8, <3>2
      <4>2. connected[s] \in Clients /\ socketOf[connected[s]] = s /\ client[connected[s]] = "served"
        BY <2>1, <4>1 DEF ServerInv, ServerTypes, ConnectedOwn
      <4>3. s # None
        BY ClientNat
      <4>4. connected[s] # k
        BY <1>6, <4>2, <4>3
      <4> QED
        BY <1>7, <1>9, <4>1, <4>2, <4>4
    <3> QED
      BY <3>1, <3>2
  <2>2. ASSUME NEW i \in Clients, client'[i] = "served"
        PROVE  i \in Mem(jobList') /\ \E s \in Sockets : connected'[s] = i
    <3>1. CASE canConnect /\ i = k
      BY <1>6, <1>8, <1>11, <3>1
    <3>2. CASE ~(canConnect /\ i = k)
      <4>1. client[i] = "served"
        BY <1>9, <2>2, <3>2
      <4>2. PICK s \in Sockets : connected[s] = i
        BY <4>1 DEF ServerInv, ConnectedOwn
      <4>3. s # n /\ i \in Mem(jobList)
        BY <1>6, <4>1, <4>2, ClientNat DEF ServerInv, ConnectedOwn
      <4> QED
        BY <1>8, <1>11, <4>2, <4>3
    <3> QED
      BY <3>1, <3>2
  <2> QED
    BY <2>1, <2>2 DEF ConnectedOwn
<1>18. PoolClosed'
  <2>1. ASSUME NEW s \in Mem(pool') PROVE connected'[s] = None /\ \E i \in Clients : socketOf'[i] = s
    <3>1. s \in Mem(pool) /\ s # n
      BY <1>5 DEF Fresh
    <3>2. s \in Sockets
      BY <3>1 DEF ServerInv, ServerTypes, Mem
    <3>3. connected[s] = None
      BY <3>1 DEF ServerInv, PoolClosed
    <3>4. PICK i \in Clients : socketOf[i] = s
      BY <3>1 DEF ServerInv, PoolClosed
    <3>5. i # k
      BY <1>6, <3>2, <3>4, ClientNat
    <3> QED
      BY <1>7, <1>8, <3>1, <3>2, <3>3, <3>4, <3>5
  <2> QED
    BY <1>5, <2>1 DEF PoolClosed, Fresh
<1>19. JobsOnce'
  <2>1. ASSUME NEW j \in Mem(jobList') PROVE j <= k
    <3>1. CASE j = k
      BY <1>3, <3>1
    <3>2. CASE j # k
      <4>1. j \in Mem(jobList) /\ j <= connections
        BY <1>11, <3>2 DEF ServerInv, JobsOnce
      <4>2. j \in Nat
        BY <4>1, ClientNat DEF ServerInv, ServerTypes, Mem
      <4> QED
        BY <1>3, <4>1, <4>2 DEF k
    <3> QED
      BY <3>1, <3>2
  <2> QED
    BY <1>1, <1>4, <1>11, <2>1 DEF JobsOnce, Left
<1> QED
  BY <1>12, <1>14, <1>15, <1>16, <1>17, <1>18, <1>19 DEF ServerInv

(* The sockets that a halt closes are open ones, each once.                *)
Open(s) == s \in Sockets /\ connected[s] # None /\ \E k \in Clients : socketOf[k] = s

LEMMA ConnectedSockets ==
  ASSUME ServerInv
  PROVE  /\ connected_sockets \in Seq(Sockets) /\ Once(connected_sockets)
         /\ \A s \in Mem(connected_sockets) : Open(s)
<1> DEFINE all == [k \in 1 .. connections |-> k]
           C == {k \in Clients : is_connected(k) /\ connected[socketOf[k]] = k}
           open == Kept(all, C)
           r == [i \in DOMAIN open |-> socketOf[open[i]]]
<1>1. connections \in Nat /\ \A k \in 1 .. connections : k \in Jobs
  BY ClientNat DEF ServerInv, ServerTypes
<1>2. all \in Seq(Jobs) /\ Len(all) = connections /\ \A i \in 1 .. connections : all[i] = i
  BY <1>1
<1>3. Once(all)
  BY <1>2 DEF Once
<1> HIDE DEF all
<1>4. open \in Seq(Jobs) /\ Mem(open) = {j \in Mem(all) : j \in C} /\ Once(open)
  BY <1>2, <1>3, KeptJobs
<1> HIDE DEF open
<1>5. DOMAIN open = 1 .. Len(open) /\ Len(open) \in Nat
  BY <1>4
<1>6. ASSUME NEW i \in 1 .. Len(open)
      PROVE  /\ open[i] \in Clients /\ socketOf[open[i]] \in Sockets
             /\ connected[socketOf[open[i]]] = open[i]
             /\ Open(socketOf[open[i]])
  <2>1. open[i] \in C
    BY <1>4 DEF Mem
  <2>2. /\ open[i] \in Clients /\ socketOf[open[i]] # None
        /\ connected[socketOf[open[i]]] = open[i] /\ connected[socketOf[open[i]]] # None
    BY <2>1 DEF is_connected
  <2>3. socketOf[open[i]] \in Sockets
    BY <2>2 DEF ServerInv, ServerTypes
  <2> QED
    BY <2>2, <2>3 DEF Open
<1>7. r \in Seq(Sockets) /\ Len(r) = Len(open) /\ \A i \in 1 .. Len(open) : r[i] = socketOf[open[i]]
  BY <1>5, <1>6
<1>8. connected_sockets = r
  BY DEF connected_sockets, open, all
<1> HIDE DEF r, C
<1>9. Once(r)
  <2> SUFFICES ASSUME NEW i \in 1 .. Len(r), NEW l \in 1 .. Len(r), r[i] = r[l] PROVE i = l
    BY DEF Once
  <2>1. open[i] = open[l]
    BY <1>6, <1>7
  <2> QED
    BY <1>4, <1>7, <2>1 DEF Once
<1>10. \A s \in Mem(r) : Open(s)
  BY <1>6, <1>7 DEF Mem
<1> QED
  BY <1>7, <1>8, <1>9, <1>10

(* The server is halted: every connection is closed.                       *)
LEMMA HaltsInv ==
  ASSUME ServerInv, NEW k \in Clients, ContinueHalts(k) PROVE ServerInv'
<1>1. Left
  BY ContinuedLeaves DEF ContinueHalts
<1>2. /\ client' = [c \in Clients |-> IF client[c] = "served" THEN "closed" ELSE client[c]]
      /\ connected' = [s \in Sockets |-> None]
      /\ pool' = pool \o connected_sockets
      /\ canConnect' = FALSE /\ UNCHANGED <<connections, socketOf, jobList>>
  BY DEF ContinueHalts, Shutdown
<1>3. \A c \in Clients : client'[c] = IF client[c] = "served" THEN "closed" ELSE client[c]
  BY <1>2
<1>4. pool \in Seq(Sockets) /\ Once(pool)
  BY DEF ServerInv, ServerTypes, PoolClosed
<1>5. /\ connected_sockets \in Seq(Sockets) /\ Once(connected_sockets)
      /\ \A s \in Mem(connected_sockets) : Open(s)
  BY ConnectedSockets
<1>6. Mem(pool) \cap Mem(connected_sockets) = {}
  BY <1>5 DEF ServerInv, PoolClosed, Open
<1>7. pool' \in Seq(Sockets) /\ Mem(pool') = Mem(pool) \cup Mem(connected_sockets) /\ Once(pool')
  BY <1>2, <1>4, <1>5, <1>6, JoinedFacts
<1>8. ServerTypes'
  <2>1. client' \in [Clients -> {"away", "pending", "served", "closed"}]
    BY <1>2 DEF ServerInv, ServerTypes
  <2>2. connected' \in [Sockets -> Clients \union {None}]
    BY <1>2
  <2> QED
    BY <1>1, <1>2, <1>7, <2>1, <2>2 DEF ServerInv, ServerTypes, Left
<1>9. ClientsInOrder'
  BY <1>2, <1>3 DEF ServerInv, ClientsInOrder
<1>10. ReadyForOne'
  BY <1>1, <1>2 DEF ServerInv, ReadyForOne, Left
<1>11. SocketsTaken'
  BY <1>2 DEF ServerInv, SocketsTaken
<1>12. ConnectedOwn'
  <2>1. \A s \in Sockets : connected'[s] = None
    BY <1>2
  <2>2. \A c \in Clients : client'[c] # "served"
    BY <1>3
  <2> QED
    BY <2>1, <2>2 DEF ConnectedOwn
<1>13. PoolClosed'
  <2>1. ASSUME NEW s \in Mem(pool') PROVE connected'[s] = None /\ \E i \in Clients : socketOf[i] = s
    <3>1. s \in Sockets
      BY <1>7 DEF Mem
    <3>2. \E i \in Clients : socketOf[i] = s
      BY <1>5, <1>7 DEF ServerInv, PoolClosed, Open
    <3> QED
      BY <1>2, <3>1, <3>2
  <2> QED
    BY <1>2, <1>7, <2>1 DEF PoolClosed
<1>14. JobsOnce'
  BY <1>1, <1>2 DEF ServerInv, JobsOnce, Left
<1> QED
  BY <1>8, <1>9, <1>10, <1>11, <1>12, <1>13, <1>14 DEF ServerInv
-----------------------------------------------------------------------------
LEMMA NextServer == ServerInv /\ [Next]_vars => ServerInv'
<1> SUFFICES ASSUME ServerInv, [Next]_vars PROVE ServerInv'
  OBVIOUS
<1>1. CASE Select
  BY <1>1, SelectInv
<1>2. CASE BatchOver
  BY <1>2, QuietInv, SameReady DEF BatchOver, sockets
<1>3. CASE LoopEnds
  BY <1>3, QuietInv, SameReady DEF LoopEnds, sockets
<1>4. CASE ContinueServer
  BY <1>4, AcceptsInv
<1>5. ASSUME NEW k \in Clients, ContinueReads(k) PROVE ServerInv'
  BY <1>5, QuietInv, ContinuedLeaves DEF ContinueReads, sockets
<1>6. ASSUME NEW k \in Clients, ContinueDisconnects(k) PROVE ServerInv'
  BY <1>6, DisconnectsInv
<1>7. ASSUME NEW k \in Clients, ContinueShutsDown(k) PROVE ServerInv'
  BY <1>7, QuietInv, ContinuedLeaves DEF ContinueShutsDown, Shutdown, sockets
<1>8. ASSUME NEW k \in Clients, ContinueHalts(k) PROVE ServerInv'
  BY <1>8, HaltsInv
<1>9. CASE OtherShutsDown
  BY <1>9, QuietInv, SameReady DEF OtherShutsDown, Shutdown, sockets
<1>10. CASE Collect
  BY <1>10, QuietInv, SameReady DEF Collect
<1>11. ASSUME NEW k \in Clients, ClientConnects(k) PROVE ServerInv'
  BY <1>11, ComesInv
<1>12. CASE UNCHANGED vars
  BY <1>12, QuietInv, SameReady DEF vars, sockets
<1> QED
  BY <1>1, <1>2, <1>3, <1>4, <1>5, <1>6, <1>7, <1>8, <1>9, <1>10, <1>11, <1>12 DEF Next, Loop
-----------------------------------------------------------------------------
(* ServerInv holds in every state, for all clients and all that the        *)
(* connections do.                                                         *)
THEOREM ServerInvariance == Spec => []ServerInv
<1>1. QED
  BY InitServer, NextServer, PTL DEF Spec

(* A client that is served has a job, and the pool of sockets holds closed *)
(* ones only, each once: no two streams get one socket at a time.          *)
THEOREM SocketsAreSound == Spec => []SocketsSound
<1>1. ASSUME ServerInv PROVE SocketsSound
  <2>1. \A k \in Clients : client[k] = "served" => k \in ToSet(jobList)
    BY <1>1 DEF ServerInv, ServerTypes, ConnectedOwn, Mem, ToSet
  <2>2. DOMAIN pool = 1 .. Len(pool)
    BY <1>1 DEF ServerInv, ServerTypes
  <2>3. \A i \in DOMAIN pool : connected[pool[i]] = None
    BY <1>1, <2>2 DEF ServerInv, PoolClosed, Mem
  <2>4. IsInjective(pool)
    BY <1>1, <2>2 DEF ServerInv, PoolClosed, Once, IsInjective
  <2> QED
    BY <2>1, <2>3, <2>4 DEF SocketsSound
<1>2. ServerInv => SocketsSound
  BY <1>1
<1> QED
  BY <1>2, ServerInvariance, PTL
=============================================================================
