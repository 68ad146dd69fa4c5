------------------------------- MODULE Server -------------------------------
(***************************************************************************)
(* The server (onebase_server/server_main.cpp) and its clients             *)
(* (onebase_client/client_main.cpp) over the message protocol of           *)
(* server/protocol.h.  The main thread accepts connections and starts one  *)
(* worker thread per connection; a signal ends the accept loop, and the    *)
(* main thread then joins the workers and destroys the instance.           *)
(*                                                                         *)
(* A client makes one connection.  Messages arrive whole and in order, or  *)
(* not at all when the connection ends first: ReadExact and WriteExact     *)
(* fail then, whatever part was sent.  A query is its number.              *)
(***************************************************************************)
EXTENDS Integers, Sequences, FiniteSets

CONSTANTS Clients,
          MaxRequests  \* requests of one client

ASSUME ServerAssumption == IsFiniteSet(Clients) /\ MaxRequests \in Nat

VARIABLES running,    \* g_running
          listening,  \* the listen socket is open
          main,       \* where the main thread is
          backlog,    \* connections that are not accepted yet
          worker,     \* worker[c]: where the thread of c's connection is
          peer,       \* peer[c]: the server's end of c's connection is open
          client,     \* client[c]: where client c is
          sent,       \* sent[c]: requests c sent
          toServer,   \* toServer[c]: messages on the way to the server
          toClient    \* toClient[c]: replies on the way to c

mainVars == <<running, listening, main, backlog>>
connVars == <<worker, peer, toServer, toClient>>
clientVars == <<client, sent>>
vars == <<mainVars, connVars, clientVars>>

MainStates   == {"test", "accept", "join", "stopped"}
WorkerStates == {"none", "test", "recv", "exec", "done"}
ClientStates == {"out", "idle", "waiting", "lost", "closed"}

Query(n)  == [type |-> "QUERY", n |-> n]
Other(n)  == [type |-> "OTHER", n |-> n]  \* a type the server does not know
Terminate == [type |-> "TERMINATE", n |-> 0]
Requests  == {Query(n) : n \in 1 .. MaxRequests} \cup {Other(n) : n \in 1 .. MaxRequests} \cup {Terminate}
Replies   == [type : {"RESULT", "ERROR"}, n : 1 .. MaxRequests]

ServerInit ==
  /\ running = TRUE /\ listening = TRUE /\ main = "test" /\ backlog = <<>>
  /\ worker = [c \in Clients |-> "none"]
  /\ peer = [c \in Clients |-> FALSE]
  /\ client = [c \in Clients |-> "out"]
  /\ sent = [c \in Clients |-> 0]
  /\ toServer = [c \in Clients |-> <<>>]
  /\ toClient = [c \in Clients |-> <<>>]

\* The client has not closed its end.
Connected(c) == client[c] \in {"idle", "waiting"}

-----------------------------------------------------------------------------
(* The main thread and the signal handler. *)

\* Mistake: the listen socket stays open.
SignalKeepsListening ==
  /\ running
  /\ running' = FALSE
  /\ UNCHANGED <<listening, backlog, main, connVars, clientVars>>

\* The handler clears the flag and closes the listen socket; the kernel
\* resets the connections that were waiting to be accepted.
Signal ==
  /\ running
  /\ running' = FALSE /\ listening' = FALSE /\ backlog' = <<>>
  /\ peer' = [c \in Clients |-> peer[c] /\ ~\E i \in DOMAIN backlog : backlog[i] = c]
  /\ UNCHANGED <<main, worker, toServer, toClient, clientVars>>

MainTest ==
  /\ main = "test"
  /\ main' = IF running THEN "accept" ELSE "join"
  /\ UNCHANGED <<running, listening, backlog, connVars, clientVars>>

Accept ==
  /\ main = "accept" /\ listening /\ backlog # <<>>
  /\ worker' = [worker EXCEPT ![Head(backlog)] = "test"]
  /\ backlog' = Tail(backlog)
  /\ main' = "test"
  /\ UNCHANGED <<running, listening, peer, toServer, toClient, clientVars>>

\* accept on the closed socket returns an error, and the flag is clear.
AcceptFails ==
  /\ main = "accept" /\ ~listening
  /\ main' = "join"
  /\ UNCHANGED <<running, listening, backlog, connVars, clientVars>>

WorkersDone == \A c \in Clients : worker[c] \in {"none", "done"}

Join ==
  /\ main = "join" /\ WorkersDone
  /\ main' = "stopped"
  /\ UNCHANGED <<running, listening, backlog, connVars, clientVars>>

MainStep == MainTest \/ Accept \/ AcceptFails \/ Join

-----------------------------------------------------------------------------
(* HandleClient. *)

\* Mistake: the worker returns without closing its end.
LeaveConnectionOpen(c) ==
  /\ worker' = [worker EXCEPT ![c] = "done"]
  /\ UNCHANGED peer

\* The worker closes its end and returns.
CloseConnection(c) ==
  /\ worker' = [worker EXCEPT ![c] = "done"]
  /\ peer' = [peer EXCEPT ![c] = FALSE]

WorkerTest(c) ==
  /\ worker[c] = "test"
  /\ IF running THEN worker' = [worker EXCEPT ![c] = "recv"] /\ UNCHANGED peer ELSE CloseConnection(c)
  /\ UNCHANGED <<mainVars, toServer, toClient, clientVars>>

\* SendMessage, whose result nobody looks at: nothing arrives at a client
\* that closed its end.
SendReplies(c, replies) ==
  toClient' = [toClient EXCEPT ![c] = IF Connected(c) THEN @ \o replies ELSE @]

\* RecvMessage blocks until a message or the end of the connection.  A query
\* stays at the head until it is answered.
WorkerRecv(c) ==
  /\ worker[c] = "recv" /\ toServer[c] # <<>>
  /\ LET m == Head(toServer[c])
     IN  \/ /\ m.type = "QUERY"
            /\ worker' = [worker EXCEPT ![c] = "exec"]
            /\ UNCHANGED <<peer, toServer, toClient>>
         \/ /\ m.type = "TERMINATE"
            /\ CloseConnection(c)
            /\ toServer' = [toServer EXCEPT ![c] = Tail(@)]
            /\ UNCHANGED toClient
         \/ /\ m.type = "OTHER"
            /\ SendReplies(c, <<[type |-> "ERROR", n |-> m.n]>>)
            /\ toServer' = [toServer EXCEPT ![c] = Tail(@)]
            /\ worker' = [worker EXCEPT ![c] = "test"]
            /\ UNCHANGED peer
  /\ UNCHANGED <<mainVars, clientVars>>

WorkerRecvFails(c) ==
  /\ worker[c] = "recv" /\ toServer[c] = <<>> /\ ~Connected(c)
  /\ CloseConnection(c)
  /\ UNCHANGED <<mainVars, toServer, toClient, clientVars>>

\* Mistake: an exception after the result was sent adds an error.
TwoReplies(n) == {<<[type |-> "RESULT", n |-> n]>>, <<[type |-> "RESULT", n |-> n], [type |-> "ERROR", n |-> n]>>}

\* Mistake: an exception is not answered.
NoReplyToErrors(n) == {<<[type |-> "RESULT", n |-> n]>>, <<>>}

\* HandleQuery sends one RESULT, or one ERROR if an exception came first.
QueryReplies(n) == {<<[type |-> t, n |-> n]>> : t \in {"RESULT", "ERROR"}}

\* The query runs on the instance; the client may go away or the signal
\* may come meanwhile.
WorkerExec(c) ==
  /\ worker[c] = "exec"
  /\ \E replies \in QueryReplies(Head(toServer[c]).n) : SendReplies(c, replies)
  /\ toServer' = [toServer EXCEPT ![c] = Tail(@)]
  /\ worker' = [worker EXCEPT ![c] = "test"]
  /\ UNCHANGED <<mainVars, peer, clientVars>>

WorkerStep(c) == WorkerTest(c) \/ WorkerRecv(c) \/ WorkerRecvFails(c) \/ WorkerExec(c)

-----------------------------------------------------------------------------
(* The client. *)

\* The kernel completes the connection before the server accepts it.
Connect(c) ==
  /\ client[c] = "out"
  /\ IF listening
     THEN /\ backlog' = Append(backlog, c)
          /\ peer' = [peer EXCEPT ![c] = TRUE]
          /\ client' = [client EXCEPT ![c] = "idle"]
     ELSE /\ client' = [client EXCEPT ![c] = "closed"]
          /\ UNCHANGED <<backlog, peer>>
  /\ UNCHANGED <<running, listening, main, worker, toServer, toClient, sent>>

\* A write to a connection that the server closed may still succeed, and
\* the message is dropped; or it fails: "Connection lost."
SendRequest(c, kind) ==
  /\ client[c] = "idle" /\ sent[c] < MaxRequests
  /\ sent' = [sent EXCEPT ![c] = @ + 1]
  /\ \/ /\ client' = [client EXCEPT ![c] = "waiting"]
        /\ toServer' = [toServer EXCEPT ![c] =
             IF ~peer[c] THEN @
             ELSE Append(@, IF kind = "QUERY" THEN Query(sent'[c]) ELSE Other(sent'[c]))]
     \/ /\ ~peer[c]
        /\ client' = [client EXCEPT ![c] = "lost"]
        /\ UNCHANGED toServer
  /\ UNCHANGED <<mainVars, worker, peer, toClient>>

RecvReply(c) ==
  /\ client[c] = "waiting" /\ toClient[c] # <<>>
  /\ toClient' = [toClient EXCEPT ![c] = Tail(@)]
  /\ client' = [client EXCEPT ![c] = "idle"]
  /\ UNCHANGED <<mainVars, worker, peer, toServer, sent>>

RecvFails(c) ==
  /\ client[c] = "waiting" /\ toClient[c] = <<>> /\ ~peer[c]
  /\ client' = [client EXCEPT ![c] = "lost"]
  /\ UNCHANGED <<mainVars, connVars, sent>>

\* \q sends TERMINATE; the end of the input closes without it.
Quit(c) ==
  /\ client[c] = "idle"
  /\ client' = [client EXCEPT ![c] = "closed"]
  /\ \/ peer[c] /\ toServer' = [toServer EXCEPT ![c] = Append(@, Terminate)]
     \/ UNCHANGED toServer
  /\ UNCHANGED <<mainVars, worker, peer, toClient, sent>>

\* The client process is killed while it waits for a reply.
Die(c) ==
  /\ client[c] = "waiting"
  /\ client' = [client EXCEPT ![c] = "closed"]
  /\ UNCHANGED <<mainVars, connVars, sent>>

ClientReceives(c) == RecvReply(c) \/ RecvFails(c)

ClientStep(c) ==
  \/ Connect(c) \/ ClientReceives(c) \/ Quit(c) \/ Die(c)
  \/ \E kind \in {"QUERY", "OTHER"} : SendRequest(c, kind)

ServerNext ==
  \/ Signal \/ MainStep
  \/ \E c \in Clients : WorkerStep(c) \/ ClientStep(c)

ServerSpec == ServerInit /\ [][ServerNext]_vars

\* The threads of the server run, and a client that waits for a reply reads
\* it.  Nothing makes a client send, quit or connect, or the signal come.
ServerFairness ==
  /\ WF_vars(MainStep)
  /\ \A c \in Clients : WF_vars(WorkerStep(c)) /\ WF_vars(ClientReceives(c))

FairServerSpec == ServerSpec /\ ServerFairness

-----------------------------------------------------------------------------
(* Properties. *)

\* All variables have their types, and only accepted connections have a worker.
ServerTypeOK ==
  /\ running \in BOOLEAN /\ listening \in BOOLEAN /\ main \in MainStates
  /\ backlog \in Seq(Clients)
  /\ worker \in [Clients -> WorkerStates]
  /\ peer \in [Clients -> BOOLEAN]
  /\ client \in [Clients -> ClientStates]
  /\ sent \in [Clients -> 0 .. MaxRequests]
  /\ \A c \in Clients : toServer[c] \in Seq(Requests) /\ toClient[c] \in Seq(Replies)

\* A client that sends a query and then reads one message reads the answer to
\* that query: what is on its way is an answer to its last request, one at most, and
\* none is left over when it sends the next one (HandleQuery, HandleClient).
ReplyIsToLastRequest ==
  /\ ServerTypeOK
  /\ \A c \in Clients :
       /\ Len(toClient[c]) <= 1
       /\ toClient[c] # <<>> => toClient[c][1].n = sent[c]
       /\ client[c] = "idle" => toClient[c] = <<>>

\* The instance is destroyed after every worker returned, so no query runs on
\* an instance that is gone (main joins its workers before it returns).
NoQueryAfterStop == main = "stopped" => WorkersDone

\* An open server end belongs to a connection somebody takes care of: it is in the
\* backlog of an open listen socket, or has a worker.  So shutdown leaks no connection.
NoConnectionForgotten ==
  \A c \in Clients :
    peer[c] => \/ worker[c] \in {"test", "recv", "exec"}
               \/ listening /\ \E i \in DOMAIN backlog : backlog[i] = c

\* The server is shut down cleanly whenever the signal comes: no worker outlives
\* the instance, and no connection is left behind by a worker that ended or by
\* the close of the listen socket (main, HandleClient, the signal handler).
ShutdownClean == NoQueryAfterStop /\ NoConnectionForgotten

\* Every request is answered, or its client learns that the connection is
\* lost, also when the server is shut down meanwhile.
RequestsEnd == \A c \in Clients : client[c] = "waiting" ~> client[c] # "waiting"

\* After the signal the server stops, unless a client stays connected and
\* idle for ever: its worker blocks in RecvMessage and does not look at the flag.
StopsUnlessClientIdle ==
  <>(~running) /\ [](main # "stopped")
    => <>[](\E c \in Clients : client[c] = "idle" /\ worker[c] = "recv")
=============================================================================
