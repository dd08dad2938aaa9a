------------------------------- MODULE Server -------------------------------
(***************************************************************************)
(* SERVER and its CONNECTIONs as jobs of one loop: SOCKET_SERVER_JOB       *)
(* accepts a client when LOOP_ITEM continues it, and a CONNECTION reads,   *)
(* disconnects, or shuts the server down.  Ready jobs are continued last   *)
(* to first, so the connections before the server.                         *)
(*                                                                         *)
(* The SOCKET of a stream that is disconnected goes to a pool, from which  *)
(* the next stream takes its own (IPV4_SOCKET_SERVER).  The k-th           *)
(* CONNECTION is made for the k-th client; 0 is the server's job.          *)
(***************************************************************************)
EXTENDS Integers, Sequences, FiniteSets, FiniteSetsExt, SequencesExt

CONSTANTS
  MaxClients,  \* bound: clients
  StandAlone,  \* `start', or `start_in_stack'
  Ops          \* what connections do: a subset of AllOps

AllOps == {"disconnect", "shutdown", "halt"}

ASSUME ServerAssumption ==
  MaxClients \in Nat \ {0} /\ StandAlone \in BOOLEAN /\ Ops \subseteq AllOps

VARIABLES
  canConnect, serverDone,  \* SOCKET_SERVER.can_connect, SOCKET_SERVER_JOB.done
  connections,   \* SERVER.connections, and the CONNECTIONs made
  client,        \* the clients, as the system sees them
  socketOf,      \* the SOCKET of each CONNECTION's stream, or None
  connected,     \* the client each SOCKET is connected to, or None
  pool,          \* sockets_pool
  jobList, readyJobs, pc,
  handled        \* history: calls of shutdown_handler

vars == <<canConnect, serverDone, connections, client, socketOf, connected, pool, jobList,
          readyJobs, pc, handled>>
sockets == <<socketOf, connected, pool>>

Clients == 1 .. MaxClients
Sockets == 1 .. MaxClients
ServerJob == 0
Jobs == Clients \union {ServerJob}
None == 0

Init ==
  /\ canConnect = TRUE /\ serverDone = FALSE /\ connections = 0
  /\ client = [k \in Clients |-> "away"]
  /\ socketOf = [k \in Clients |-> None] /\ connected = [s \in Sockets |-> None]
  /\ pool = <<>> /\ jobList = <<ServerJob>> /\ readyJobs = <<>> /\ pc = "loop"
  /\ handled = 0

is_connected(k) == socketOf[k] # None /\ connected[socketOf[k]] # None

(* Mutant: the server's job is never done.                                 *)
doneServerNever(j) == j # ServerJob /\ ~is_connected(j)
done(j) == IF j = ServerJob THEN serverDone ELSE ~is_connected(j)
-----------------------------------------------------------------------------
ClientConnects(k) ==
  /\ client[k] = "away" /\ \A i \in Clients : i < k => client[i] # "away"
  /\ client' = [client EXCEPT ![k] = "pending"]
  /\ UNCHANGED <<canConnect, serverDone, connections, sockets, jobList, readyJobs, pc,
                 handled>>

Pending == {k \in Clients : client[k] = "pending"}

(* The members of list that are in S, in their order.                      *)
Kept(list, S) ==
  LET k[n \in 0 .. Len(list)] ==
        IF n = 0 THEN <<>>
        ELSE IF list[n] \in S THEN Append(k[n - 1], list[n]) ELSE k[n - 1]
  IN  k[Len(list)]

(* A turn of LOOP_ITEM.run: the jobs that are done leave, the others wait  *)
(* for a client or for data.                                               *)
Select ==
  LET list == Kept(jobList, {j \in Jobs : ~done(j)})
      possible == {j \in ToSet(list) : j # ServerJob \/ (canConnect /\ Pending # {})}
  IN
  /\ pc = "loop" /\ jobList # <<>>
  /\ jobList' = list
  /\ \/ list = <<>> /\ UNCHANGED <<readyJobs, pc>>
     \/ \E ready \in SUBSET possible \ {{}} :
          readyJobs' = Kept(list, ready) /\ pc' = "batch"
  /\ UNCHANGED <<canConnect, serverDone, connections, client, sockets, handled>>

BatchOver ==
  /\ pc = "batch" /\ readyJobs = <<>> /\ pc' = "loop"
  /\ UNCHANGED <<canConnect, serverDone, connections, client, sockets, jobList, readyJobs,
                 handled>>

(* No job is left: LOOP_STACK.run returns.                                 *)
LoopEnds ==
  /\ pc = "loop" /\ jobList = <<>> /\ pc' = "returned"
  /\ UNCHANGED <<canConnect, serverDone, connections, client, sockets, jobList, readyJobs,
                 handled>>
-----------------------------------------------------------------------------
Continued(j) == pc = "batch" /\ readyJobs # <<>> /\ Last(readyJobs) = j
                /\ readyJobs' = Front(readyJobs)

(* bind_socket: the SOCKET of a new stream                                 *)
NewSocket == IF pool # <<>> THEN Last(pool) ELSE Min(Sockets \ Range(socketOf))

(* RECYCLING_POOL.item takes the socket out; mutant: it stays.             *)
PoppedNot == pool
Popped == IF pool # <<>> THEN Front(pool) ELSE pool

(* Whether accept succeeds: SOCKET_SERVER.shutdown closes the descriptor.  *)
Accepts == canConnect

(* SOCKET_SERVER_JOB.continue: new_stream, and handle_connect.  On a       *)
(* server that was shut down, accept fails.                                *)
ContinueServer ==
  LET k == connections + 1 IN
  /\ Continued(ServerJob)
  /\ socketOf' = [socketOf EXCEPT ![k] = NewSocket]
  /\ pool' = Popped
  /\ IF Accepts
     THEN /\ connected' = [connected EXCEPT ![NewSocket] = k]
          /\ client' = [client EXCEPT ![k] = "served"]
     ELSE UNCHANGED <<connected, client>>
  /\ connections' = connections + 1
  /\ jobList' = Append(jobList, k)
  /\ UNCHANGED <<canConnect, serverDone, pc, handled>>

(* The connection only reads.                                              *)
ContinueReads(k) ==
  /\ Continued(k)
  /\ UNCHANGED <<canConnect, serverDone, connections, client, sockets, jobList, pc, handled>>

(* ios.disconnect: server.unbind; the client's end is found the same way.  *)
ContinueDisconnects(k) ==
  LET s == socketOf[k] IN
  /\ "disconnect" \in Ops /\ Continued(k) /\ is_connected(k)
  /\ client' = [client EXCEPT ![connected[s]] = "closed"]
  /\ connected' = [connected EXCEPT ![s] = None]
  /\ pool' = Append(pool, s)
  /\ UNCHANGED <<canConnect, serverDone, connections, socketOf, jobList, pc, handled>>

(* handle_shutdown of the job, then of SERVER; standalone_shutdown breaks  *)
(* the loop, after the batch.                                              *)
HandleShutdown ==
  /\ serverDone' = TRUE
  /\ handled' = IF connections = 0 THEN handled + 1 ELSE handled
  /\ pc' = IF connections = 0 /\ StandAlone THEN "returned" ELSE pc

(* server.shutdown, called by a connection, or by another job of the loop  *)
(* before any client came.                                                 *)
Shutdown ==
  /\ canConnect' = FALSE /\ HandleShutdown
  /\ UNCHANGED <<connections, jobList>>

ContinueShutsDown(k) ==
  /\ "shutdown" \in Ops /\ Continued(k) /\ ~serverDone /\ Shutdown
  /\ UNCHANGED <<client, sockets>>

OtherShutsDown ==
  /\ "shutdown" \in Ops /\ pc = "loop" /\ ~serverDone /\ Shutdown
  /\ UNCHANGED <<client, sockets, readyJobs>>

(* connected_sockets: the sockets that are open, as they were accepted     *)
connected_sockets ==
  LET open == Kept([k \in 1 .. connections |-> k],
                   {k \in Clients : is_connected(k) /\ connected[socketOf[k]] = k})
  IN  [i \in DOMAIN open |-> socketOf[open[i]]]

(* server.halt: kill_connections, first to last, then shutdown             *)
ContinueHalts(k) ==
  /\ "halt" \in Ops /\ Continued(k) /\ ~serverDone /\ Shutdown
  /\ client' = [c \in Clients |-> IF client[c] = "served" THEN "closed" ELSE client[c]]
  /\ connected' = [s \in Sockets |-> None]
  /\ pool' = pool \o connected_sockets
  /\ UNCHANGED socketOf

(* mark_native_arrays: a garbage collection empties the pool.              *)
Collect ==
  /\ pool # <<>> /\ pool' = <<>>
  /\ UNCHANGED <<canConnect, serverDone, connections, client, socketOf, connected, jobList,
                 readyJobs, pc, handled>>
-----------------------------------------------------------------------------
Loop ==
  \/ Select \/ BatchOver \/ LoopEnds \/ ContinueServer
  \/ \E k \in Clients :
       ContinueReads(k) \/ ContinueDisconnects(k) \/ ContinueShutsDown(k) \/ ContinueHalts(k)

Next == Loop \/ OtherShutsDown \/ Collect \/ \E k \in Clients : ClientConnects(k)

(* The loop runs, and a connection that is continued again and again is    *)
(* disconnected some day.                                                  *)
Spec ==
  /\ Init /\ [][Next]_vars /\ WF_vars(Loop)
  /\ \A k \in Clients : SF_vars(ContinueDisconnects(k))
-----------------------------------------------------------------------------
TypeOK ==
  /\ canConnect \in BOOLEAN /\ serverDone \in BOOLEAN /\ connections \in 0 .. MaxClients
  /\ client \in [Clients -> {"away", "pending", "served", "closed"}]
  /\ socketOf \in [Clients -> Sockets \union {None}]
  /\ connected \in [Sockets -> Clients \union {None}] /\ pool \in Seq(Sockets)
  /\ Len(pool) <= MaxClients
  /\ jobList \in Seq(Jobs) /\ readyJobs \in Seq(Jobs)
  /\ pc \in {"loop", "batch", "returned"} /\ handled \in Nat

(* A client that was accepted is served: its connection is a job of the    *)
(* loop till its socket is closed.  The pool holds closed sockets only     *)
(* ("check not Result.is_connected", ipv4_socket_server.e), each once, so  *)
(* that no two streams get one socket at the same time.                    *)
SocketsSound ==
  /\ \A k \in Clients : client[k] = "served" => k \in ToSet(jobList)
  /\ \A i \in DOMAIN pool : connected[pool[i]] = None
  /\ IsInjective(pool)

(* `start' returns once the server was shut down and its connections have  *)
(* ended.                                                                  *)
StandAloneStops == ~canConnect ~> pc = "returned"

(* "be sure not to hold any reference to a recycled object"                *)
(* (recycling_pool.e): a connection whose stream is connected has its own  *)
(* client.                                                                 *)
OwnSocket == \A k \in Clients : is_connected(k) => connected[socketOf[k]] = k

(* "Shutdown gracefully when all connections are closed" (server.e): the   *)
(* shutdown handler is called.                                             *)
ShutdownHandled == ~canConnect ~> handled > 0
=============================================================================
