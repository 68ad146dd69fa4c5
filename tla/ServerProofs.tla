----------------------------- MODULE ServerProofs -----------------------------
(***************************************************************************)
(* Proofs about the server and its clients, for every number of clients    *)
(* and requests.  A client sends a request only after it read the reply to *)
(* the one before, so each direction of a connection holds one message at  *)
(* most; Dialogue says which, by the state of the client and the worker.   *)
(***************************************************************************)
EXTENDS Server, SequenceTheorems, TLAPS

-----------------------------------------------------------------------------
(* The inductive invariant. *)

\* One direction of a connection: empty, or one message on its way.
Line(S) == {<<>>} \cup {<<m>> : m \in S}

Types ==
  /\ running \in BOOLEAN /\ listening \in BOOLEAN /\ main \in MainStates
  /\ backlog \in Seq(Clients)
  /\ worker \in [Clients -> WorkerStates]
  /\ peer \in [Clients -> BOOLEAN]
  /\ client \in [Clients -> ClientStates]
  /\ sent \in [Clients -> 0 .. MaxRequests]
  /\ toServer \in [Clients -> Line(Requests)]
  /\ toClient \in [Clients -> Line(Replies)]

\* The request of a waiting client is on its way or with the worker, or its
\* reply is on the way, or it was dropped; nothing is left over after that.
Dialogue(c) ==
  /\ client[c] \in {"out", "idle"} => toServer[c] = <<>> /\ toClient[c] = <<>>
  /\ client[c] = "waiting" => toServer[c] = <<>> \/ toClient[c] = <<>>
  /\ client[c] = "waiting" /\ toServer[c] # <<>> =>
       toServer[c][1].type # "TERMINATE" /\ toServer[c][1].n = sent[c]
  /\ toClient[c] # <<>> => toClient[c][1].n = sent[c]
  /\ worker[c] = "exec" => toServer[c] # <<>> /\ toServer[c][1].type = "QUERY"

Waits(c) == \E i \in DOMAIN backlog : backlog[i] = c

\* NoConnectionForgotten for one connection.
Kept(c) == peer[c] = TRUE => worker[c] \in {"test", "recv", "exec"} \/ (listening = TRUE /\ Waits(c))

ServerInv ==
  /\ Types
  /\ \A c \in Clients : Dialogue(c)
  /\ \A c \in Clients : Kept(c)
  /\ NoQueryAfterStop

-----------------------------------------------------------------------------
(* Messages. *)

\* What the types of messages say about their fields.
LEMMA RequestFields ==
  ASSUME NEW m \in Requests
  PROVE  m.type # "TERMINATE" => m.n \in 1 .. MaxRequests
BY DEF Requests, Query, Other, Terminate

\* A line holds no message or one.
LEMMA LineFacts ==
  ASSUME NEW S, NEW l \in Line(S)
  PROVE  /\ l \in Seq(S) /\ Len(l) <= 1
         /\ l # <<>> => l[1] \in S /\ l = <<l[1]>> /\ Head(l) = l[1] /\ Tail(l) = <<>>
<1>1. CASE l = <<>>
  BY <1>1
<1>2. ASSUME NEW m \in S, l = <<m>> PROVE l \in Seq(S) /\ Len(l) = 1 /\ l[1] = m /\ Head(l) = m /\ Tail(l) = <<>>
  BY <1>2
<1> QED BY <1>1, <1>2 DEF Line

\* A message put on an empty line.
LEMMA LinePut ==
  ASSUME NEW S, NEW m \in S
  PROVE  /\ Append(<<>>, m) \in Line(S) /\ Append(<<>>, m) # <<>> /\ Append(<<>>, m)[1] = m
         /\ <<>> \o <<m>> \in Line(S) /\ <<>> \o <<m>> # <<>> /\ (<<>> \o <<m>>)[1] = m
<1>1. Append(<<>>, m) = <<m>>
  OBVIOUS
<1>2. <<>> \o <<m>> = <<m>>
  OBVIOUS
<1>3. <<m>> \in Line(S) /\ <<m>> # <<>> /\ <<m>>[1] = m
  BY DEF Line
<1> QED BY <1>1, <1>2, <1>3

\* HandleQuery answers a query once.
LEMMA QueryRepliesOnce ==
  ASSUME NEW n \in 1 .. MaxRequests, NEW replies \in QueryReplies(n)
  PROVE  \E r \in Replies : replies = <<r>> /\ r.n = n
<1>1. PICK t \in {"RESULT", "ERROR"} : replies = <<[type |-> t, n |-> n]>>
  BY DEF QueryReplies
<1>2. [type |-> t, n |-> n] \in Replies
  BY DEF Replies
<1> QED BY <1>1, <1>2

\* The dialogue of a client that a step does not concern.
LEMMA DialogueKept ==
  ASSUME NEW c \in Clients, Dialogue(c), client'[c] = client[c], sent'[c] = sent[c],
         toServer'[c] = toServer[c], toClient'[c] = toClient[c],
         worker'[c] = worker[c] \/ worker'[c] # "exec"
  PROVE  Dialogue(c)'
BY DEF Dialogue

\* A connection that a step does not concern.
LEMMA KeptKept ==
  ASSUME NEW c \in Clients, Kept(c), peer'[c] = peer[c], worker'[c] = worker[c],
         backlog' = backlog, listening' = listening
  PROVE  Kept(c)'
BY DEF Kept, Waits


-----------------------------------------------------------------------------
(* The main thread and the signal handler. *)

\* The signal handler closes the listen socket, and with it the connections
\* that nobody accepted.
LEMMA SignalInv ==
  ASSUME ServerInv, Signal
  PROVE  ServerInv'
<1>1. /\ running' = FALSE /\ listening' = FALSE /\ backlog' = <<>> /\ main' = main /\ worker' = worker
      /\ toServer' = toServer /\ toClient' = toClient /\ client' = client /\ sent' = sent
  BY DEF Signal, clientVars
<1>2. Types
  BY DEF ServerInv
<1>3. \A c \in Clients : peer'[c] = (peer[c] /\ ~Waits(c)) /\ peer'[c] \in BOOLEAN /\ peer[c] \in BOOLEAN
  <2>1. peer' = [c \in Clients |-> peer[c] /\ ~Waits(c)]
    BY Zenon DEF Signal, Waits
  <2> QED BY <1>2, <2>1, Zenon DEF Types
<1>4. Types'
  <2>1. peer' \in [Clients -> BOOLEAN]
    BY <1>3 DEF Signal
  <2>2. backlog' \in Seq(Clients)
    BY <1>1
  <2>3. running' \in BOOLEAN /\ listening' \in BOOLEAN
    BY <1>1
  <2> QED BY <1>1, <1>2, <2>1, <2>2, <2>3, Zenon DEF Types
<1>5. \A c \in Clients : Dialogue(c)'
  BY <1>1, DialogueKept DEF ServerInv
<1>6. ASSUME NEW c \in Clients PROVE Kept(c)'
  <2>1. CASE peer'[c] = TRUE
    <3>1. peer[c] = TRUE /\ ~Waits(c)
      BY <1>3, <2>1
    <3>2. worker[c] \in {"test", "recv", "exec"}
      BY <3>1 DEF ServerInv, Kept
    <3> QED BY <1>1, <3>2 DEF Kept
  <2>2. CASE peer'[c] # TRUE
    BY <2>2 DEF Kept
  <2> QED BY <2>1, <2>2
<1>7. NoQueryAfterStop'
  BY <1>1 DEF ServerInv, NoQueryAfterStop, WorkersDone
<1> QED BY <1>4, <1>5, <1>6, <1>7 DEF ServerInv

\* A connection leaves the backlog only for its worker.
LEMMA AcceptInv ==
  ASSUME ServerInv, Accept
  PROVE  ServerInv'
<1>1. /\ main = "accept" /\ backlog # <<>> /\ main' = "test" /\ backlog' = Tail(backlog)
      /\ running' = running /\ listening' = listening /\ peer' = peer
      /\ toServer' = toServer /\ toClient' = toClient /\ client' = client /\ sent' = sent
  BY DEF Accept, clientVars
<1>2. Types
  BY DEF ServerInv
<1>3. PICK a \in Clients : a = Head(backlog) /\ a = backlog[1]
  BY <1>1, <1>2 DEF Types
<1>4. worker' = [worker EXCEPT ![a] = "test"]
  BY <1>3 DEF Accept
<1>5. worker'[a] = "test" /\ \A c \in Clients \ {a} : worker'[c] = worker[c]
  BY <1>2, <1>4 DEF Types
<1>6. Types'
  <2>1. backlog' \in Seq(Clients)
    BY <1>1, <1>2 DEF Types
  <2>2. worker' \in [Clients -> WorkerStates]
    BY <1>2, <1>4 DEF Types, WorkerStates
  <2> QED BY <1>1, <1>2, <2>1, <2>2 DEF Types, MainStates
<1>7. \A c \in Clients : Dialogue(c)'
  BY <1>1, <1>5, DialogueKept DEF ServerInv
<1>8. ASSUME NEW c \in Clients \ {a}, Waits(c) PROVE Waits(c)'
  <2>1. backlog \in Seq(Clients)
    BY <1>2 DEF Types
  <2>2. PICK i \in 1 .. Len(backlog) : backlog[i] = c
    BY <1>8, <2>1 DEF Waits
  <2>3. i # 1
    BY <1>3, <2>2
  <2>4. i - 1 \in 1 .. Len(Tail(backlog)) /\ Tail(backlog)[i - 1] = backlog[i]
    BY <1>1, <2>1, <2>2, <2>3
  <2>5. Tail(backlog) \in Seq(Clients)
    BY <1>1, <2>1
  <2>6. i - 1 \in DOMAIN Tail(backlog)
    BY <2>4, <2>5
  <2> QED BY <1>1, <2>2, <2>4, <2>6 DEF Waits
<1>9. ASSUME NEW c \in Clients PROVE Kept(c)'
  <2>1. CASE c = a
    BY <1>5, <2>1 DEF Kept
  <2>2. CASE c # a
    BY <1>1, <1>5, <1>8, <2>2 DEF ServerInv, Kept
  <2> QED BY <2>1, <2>2
<1>10. NoQueryAfterStop'
  BY <1>1 DEF NoQueryAfterStop
<1> QED BY <1>6, <1>7, <1>9, <1>10 DEF ServerInv

\* The main thread stops only after every worker returned.
LEMMA MainStepInv ==
  ASSUME ServerInv, MainStep
  PROVE  ServerInv'
<1>1. ASSUME running' = running, listening' = listening, backlog' = backlog, UNCHANGED <<connVars, clientVars>>,
             main' \in MainStates, main' = "stopped" => WorkersDone
      PROVE  ServerInv'
  <2>1. /\ worker' = worker /\ peer' = peer /\ toServer' = toServer /\ toClient' = toClient
        /\ client' = client /\ sent' = sent
    BY <1>1 DEF connVars, clientVars
  <2>2. Types'
    BY <1>1, <2>1 DEF ServerInv, Types
  <2>3. \A c \in Clients : Dialogue(c)' /\ Kept(c)'
    BY <1>1, <2>1, DialogueKept, KeptKept DEF ServerInv
  <2>4. NoQueryAfterStop'
    BY <1>1, <2>1 DEF NoQueryAfterStop, WorkersDone
  <2> QED BY <2>2, <2>3, <2>4 DEF ServerInv
<1>2. CASE MainTest
  BY <1>1, <1>2 DEF MainTest, MainStates
<1>3. CASE AcceptFails
  BY <1>1, <1>3 DEF AcceptFails, MainStates
<1>4. CASE Join
  BY <1>1, <1>4 DEF Join, MainStates
<1> QED BY <1>2, <1>3, <1>4, AcceptInv DEF MainStep

-----------------------------------------------------------------------------
(* HandleClient. *)

\* A step of the worker of c, which changes only what belongs to c.
LEMMA WorkerFrame ==
  ASSUME ServerInv, NEW c \in Clients, worker[c] \in {"test", "recv", "exec"},
         UNCHANGED <<mainVars, clientVars>>,
         NEW s \in WorkerStates, worker' = [worker EXCEPT ![c] = s],
         \/ s \in {"test", "recv", "exec"} /\ peer' = peer
         \/ peer' = [peer EXCEPT ![c] = FALSE],
         toServer' \in [Clients -> Line(Requests)], toClient' \in [Clients -> Line(Replies)],
         \A d \in Clients \ {c} : toServer'[d] = toServer[d] /\ toClient'[d] = toClient[d],
         Dialogue(c)'
  PROVE  ServerInv'
<1>1. /\ running' = running /\ listening' = listening /\ main' = main /\ backlog' = backlog
      /\ client' = client /\ sent' = sent
  BY DEF mainVars, clientVars
<1>2. Types
  BY DEF ServerInv
<1>3. worker'[c] = s /\ \A d \in Clients \ {c} : worker'[d] = worker[d]
  BY <1>2 DEF Types
<1>4. /\ peer' \in [Clients -> BOOLEAN]
      /\ \A d \in Clients \ {c} : peer'[d] = peer[d]
      /\ peer'[c] = FALSE \/ s \in {"test", "recv", "exec"}
  <2>1. peer \in [Clients -> BOOLEAN]
    BY <1>2 DEF Types
  <2> QED BY <2>1
<1>5. Types'
  <2>1. worker' \in [Clients -> WorkerStates]
    BY <1>2 DEF Types
  <2> QED BY <1>1, <1>2, <1>4, <2>1 DEF Types
<1>6. ASSUME NEW d \in Clients PROVE Dialogue(d)'
  <2>1. CASE d = c
    BY <2>1
  <2>2. CASE d # c
    BY <1>1, <1>3, <2>2, DialogueKept DEF ServerInv
  <2> QED BY <2>1, <2>2
<1>7. ASSUME NEW d \in Clients PROVE Kept(d)'
  <2>1. CASE d = c
    BY <1>3, <1>4, <2>1 DEF Kept
  <2>2. CASE d # c
    BY <1>1, <1>3, <1>4, <2>2, KeptKept DEF ServerInv
  <2> QED BY <2>1, <2>2
<1>8. NoQueryAfterStop'
  <2>1. main # "stopped"
    BY DEF ServerInv, NoQueryAfterStop, WorkersDone
  <2> QED BY <1>1, <2>1 DEF NoQueryAfterStop
<1> QED BY <1>5, <1>6, <1>7, <1>8 DEF ServerInv

\* The head of HandleClient's loop looks at the flag, and leaves the loop when
\* it is cleared.
LEMMA WorkerTestInv ==
  ASSUME ServerInv, NEW c \in Clients, WorkerTest(c)
  PROVE  ServerInv'
<1>1. /\ worker[c] = "test" /\ UNCHANGED <<mainVars, clientVars>> /\ toServer' = toServer /\ toClient' = toClient
      /\ client' = client /\ sent' = sent
  BY DEF WorkerTest, clientVars
<1>2. PICK s \in WorkerStates : /\ worker' = [worker EXCEPT ![c] = s] /\ s # "exec"
                                /\ \/ s \in {"test", "recv", "exec"} /\ peer' = peer
                                   \/ peer' = [peer EXCEPT ![c] = FALSE]
  BY DEF WorkerTest, CloseConnection, WorkerStates
<1>3. toServer' \in [Clients -> Line(Requests)] /\ toClient' \in [Clients -> Line(Replies)]
  BY <1>1 DEF ServerInv, Types
<1>4. Dialogue(c)'
  <2>1. worker'[c] # "exec"
    BY <1>2 DEF ServerInv, Types
  <2> QED BY <1>1, <2>1, DialogueKept DEF ServerInv
<1> QED BY <1>1, <1>2, <1>3, <1>4, WorkerFrame

\* RecvMessage fails when the client is gone.
LEMMA WorkerRecvFailsInv ==
  ASSUME ServerInv, NEW c \in Clients, WorkerRecvFails(c)
  PROVE  ServerInv'
<1>1. /\ worker[c] = "recv" /\ UNCHANGED <<mainVars, clientVars>> /\ toServer' = toServer /\ toClient' = toClient
      /\ client' = client /\ sent' = sent
      /\ worker' = [worker EXCEPT ![c] = "done"] /\ peer' = [peer EXCEPT ![c] = FALSE]
  BY DEF WorkerRecvFails, CloseConnection, clientVars
<1>2. toServer' \in [Clients -> Line(Requests)] /\ toClient' \in [Clients -> Line(Replies)]
  BY <1>1 DEF ServerInv, Types
<1>3. Dialogue(c)'
  <2>1. worker'[c] # "exec"
    BY <1>1 DEF ServerInv, Types
  <2> QED BY <1>1, <2>1, DialogueKept DEF ServerInv
<1>4. "done" \in WorkerStates
  BY DEF WorkerStates
<1> QED BY <1>1, <1>2, <1>3, <1>4, WorkerFrame

\* A worker that takes a request off the line sends one reply to it, the reply
\* to the last request of its client.
LEMMA AnswerInv ==
  ASSUME ServerInv, NEW c \in Clients, worker[c] \in {"recv", "exec"}, toServer[c] # <<>>,
         NEW r \in Replies, r.n = toServer[c][1].n, SendReplies(c, <<r>>),
         toServer' = [toServer EXCEPT ![c] = Tail(@)],
         worker' = [worker EXCEPT ![c] = "test"], UNCHANGED <<mainVars, peer, clientVars>>
  PROVE  ServerInv'
<1>1. Types /\ Dialogue(c)
  BY DEF ServerInv
<1>2. PICK l \in Line(Requests) : l = toServer[c]
  BY <1>1 DEF Types
<1>3. Tail(l) = <<>>
  BY <1>2, LineFacts
<1>4. client' = client /\ sent' = sent
  BY DEF clientVars
<1>5. toServer'[c] = <<>> /\ \A d \in Clients \ {c} : toServer'[d] = toServer[d]
  BY <1>1, <1>2, <1>3 DEF Types
<1>6. <<>> \in Line(Requests)
  BY DEF Line
<1>7. toServer' \in [Clients -> Line(Requests)]
  BY <1>1, <1>2, <1>3, <1>6 DEF Types
<1>8. worker'[c] = "test"
  BY <1>1 DEF Types
<1>9. CASE Connected(c)
  <2>1. client[c] = "waiting"
    BY <1>1, <1>9 DEF Connected, Dialogue
  <2>2. toClient[c] = <<>> /\ r.n = sent[c]
    BY <1>1, <2>1 DEF Dialogue
  <2>3. PICK k \in Line(Replies) : k = <<>> \o <<r>> /\ k # <<>> /\ k[1] = r
    BY LinePut
  <2>4. toClient' = [toClient EXCEPT ![c] = k]
    BY <1>9, <2>2, <2>3 DEF SendReplies
  <2>5. toClient' \in [Clients -> Line(Replies)]
    BY <1>1, <2>4 DEF Types
  <2>6. toClient'[c] = k /\ \A d \in Clients \ {c} : toClient'[d] = toClient[d]
    BY <1>1, <2>4 DEF Types
  <2>7. Dialogue(c)'
    BY <1>4, <1>5, <1>8, <2>1, <2>2, <2>3, <2>6 DEF Dialogue
  <2> QED BY <1>5, <1>7, <2>5, <2>6, <2>7, WorkerFrame DEF WorkerStates
<1>10. CASE ~Connected(c)
  <2>1. toClient' = toClient
    BY <1>1, <1>10 DEF SendReplies, Types
  <2>2. toClient' \in [Clients -> Line(Replies)]
    BY <1>1, <2>1 DEF Types
  <2>3. Dialogue(c)'
    BY <1>1, <1>4, <1>5, <1>8, <1>10, <2>1 DEF Dialogue, Connected
  <2> QED BY <1>5, <1>7, <2>1, <2>2, <2>3, WorkerFrame DEF WorkerStates
<1> QED BY <1>9, <1>10

\* RecvMessage and the switch over the type of the message.
LEMMA WorkerRecvInv ==
  ASSUME ServerInv, NEW c \in Clients, WorkerRecv(c)
  PROVE  ServerInv'
<1>1. Types /\ Dialogue(c) /\ worker[c] = "recv" /\ toServer[c] # <<>> /\ UNCHANGED <<mainVars, clientVars>>
  BY DEF ServerInv, WorkerRecv
<1>2. PICK l \in Line(Requests) : l = toServer[c]
  BY <1>1 DEF Types
<1>3. PICK m \in Requests : m = Head(l) /\ m = l[1]
  BY <1>1, <1>2, LineFacts
<1>4. client' = client /\ sent' = sent
  BY <1>1 DEF clientVars
<1>5. CASE /\ m.type = "QUERY" /\ worker' = [worker EXCEPT ![c] = "exec"]
           /\ UNCHANGED <<peer, toServer, toClient>>
  <2>1. toServer' \in [Clients -> Line(Requests)] /\ toClient' \in [Clients -> Line(Replies)]
    BY <1>1, <1>5 DEF Types
  <2>2. toServer[c][1].type = "QUERY"
    BY <1>2, <1>3, <1>5
  <2>3. Dialogue(c)'
    BY <1>1, <1>4, <1>5, <2>2 DEF Dialogue
  <2> QED BY <1>1, <1>5, <2>1, <2>3, WorkerFrame DEF WorkerStates
<1>6. CASE /\ m.type = "TERMINATE" /\ CloseConnection(c)
           /\ toServer' = [toServer EXCEPT ![c] = Tail(@)] /\ UNCHANGED toClient
  <2>1. Tail(l) = <<>> /\ <<>> \in Line(Requests)
    BY <1>1, <1>2, LineFacts DEF Line
  <2>2. toServer'[c] = <<>> /\ \A d \in Clients \ {c} : toServer'[d] = toServer[d]
    BY <1>1, <1>2, <1>6, <2>1 DEF Types
  <2>3. toServer' \in [Clients -> Line(Requests)] /\ toClient' \in [Clients -> Line(Replies)]
    BY <1>1, <1>2, <1>6, <2>1 DEF Types
  <2>4. worker' = [worker EXCEPT ![c] = "done"] /\ peer' = [peer EXCEPT ![c] = FALSE] /\ worker'[c] = "done"
    BY <1>1, <1>6 DEF CloseConnection, Types
  <2>5. Dialogue(c)'
    BY <1>1, <1>4, <1>6, <2>2, <2>4 DEF Dialogue
  <2> QED BY <1>1, <1>6, <2>2, <2>3, <2>4, <2>5, WorkerFrame DEF WorkerStates
<1>7. CASE /\ m.type = "OTHER" /\ SendReplies(c, <<[type |-> "ERROR", n |-> m.n]>>)
           /\ toServer' = [toServer EXCEPT ![c] = Tail(@)]
           /\ worker' = [worker EXCEPT ![c] = "test"] /\ UNCHANGED peer
  <2>1. m.n \in 1 .. MaxRequests
    BY <1>7, RequestFields
  <2>2. PICK n \in 1 .. MaxRequests : n = m.n
    BY <2>1
  <2>3. PICK r \in Replies : r = [type |-> "ERROR", n |-> n] /\ r.n = n
    <3>1. [type |-> "ERROR", n |-> n] \in Replies
      BY DEF Replies
    <3> QED BY <3>1
  <2> QED BY <1>1, <1>2, <1>3, <1>7, <2>2, <2>3, AnswerInv
<1> QED BY <1>2, <1>3, <1>5, <1>6, <1>7 DEF WorkerRecv

\* HandleQuery.
LEMMA WorkerExecInv ==
  ASSUME ServerInv, NEW c \in Clients, WorkerExec(c)
  PROVE  ServerInv'
<1>1. Types /\ Dialogue(c) /\ worker[c] = "exec"
  BY DEF ServerInv, WorkerExec
<1>2. toServer[c] # <<>> /\ toServer[c][1].type = "QUERY"
  BY <1>1 DEF Dialogue
<1>3. PICK l \in Line(Requests) : l = toServer[c]
  BY <1>1 DEF Types
<1>4. PICK m \in Requests : m = Head(toServer[c]) /\ m = toServer[c][1]
  BY <1>2, <1>3, LineFacts
<1>5. m.n \in 1 .. MaxRequests
  BY <1>2, <1>4, RequestFields
<1>6. PICK replies \in QueryReplies(m.n) : SendReplies(c, replies)
  BY <1>4 DEF WorkerExec
<1>7. PICK r \in Replies : replies = <<r>> /\ r.n = m.n
  BY <1>5, <1>6, QueryRepliesOnce
<1> QED BY <1>1, <1>2, <1>4, <1>6, <1>7, AnswerInv DEF WorkerExec

-----------------------------------------------------------------------------
(* The client. *)

\* A step of client c, which changes only what belongs to c.
LEMMA ClientFrame ==
  ASSUME ServerInv, NEW c \in Clients,
         UNCHANGED <<mainVars, worker, peer>>,
         NEW s \in ClientStates, client' = [client EXCEPT ![c] = s],
         sent' \in [Clients -> 0 .. MaxRequests],
         toServer' \in [Clients -> Line(Requests)], toClient' \in [Clients -> Line(Replies)],
         \A d \in Clients \ {c} : /\ toServer'[d] = toServer[d] /\ toClient'[d] = toClient[d]
                                  /\ sent'[d] = sent[d],
         client'[c] = s => Dialogue(c)'
  PROVE  ServerInv'
<1>1. /\ running' = running /\ listening' = listening /\ main' = main /\ backlog' = backlog
      /\ worker' = worker /\ peer' = peer
  BY DEF mainVars
<1>2. Types
  BY DEF ServerInv
<1>3. client'[c] = s /\ (\A d \in Clients \ {c} : client'[d] = client[d]) /\ client' \in [Clients -> ClientStates]
  BY <1>2 DEF Types
<1>4. Types'
  BY <1>1, <1>2, <1>3 DEF Types
<1>5. ASSUME NEW d \in Clients PROVE Dialogue(d)'
  <2>1. CASE d = c
    BY <1>3, <2>1
  <2>2. CASE d # c
    BY <1>1, <1>3, <2>2, DialogueKept DEF ServerInv
  <2> QED BY <2>1, <2>2
<1>6. \A d \in Clients : Kept(d)'
  BY <1>1, KeptKept DEF ServerInv
<1>7. NoQueryAfterStop'
  BY <1>1 DEF ServerInv, NoQueryAfterStop, WorkersDone
<1> QED BY <1>4, <1>5, <1>6, <1>7 DEF ServerInv

\* A new connection waits in the backlog of the listen socket.
LEMMA ConnectInv ==
  ASSUME ServerInv, NEW c \in Clients, Connect(c)
  PROVE  ServerInv'
<1>1. Types /\ Dialogue(c) /\ client[c] = "out"
  BY DEF ServerInv, Connect
<1>2. CASE listening = TRUE
  <2>1. /\ backlog' = Append(backlog, c) /\ peer' = [peer EXCEPT ![c] = TRUE] /\ client' = [client EXCEPT ![c] = "idle"]
        /\ running' = running /\ listening' = listening /\ main' = main /\ worker' = worker
        /\ toServer' = toServer /\ toClient' = toClient /\ sent' = sent
    BY <1>2 DEF Connect
  <2>2. /\ client' \in [Clients -> ClientStates] /\ peer' \in [Clients -> BOOLEAN]
        /\ client'[c] = "idle" /\ \A d \in Clients \ {c} : client'[d] = client[d] /\ peer'[d] = peer[d]
    BY <1>1, <2>1 DEF Types, ClientStates
  <2>3. backlog \in Seq(Clients) /\ backlog' \in Seq(Clients)
    BY <1>1, <2>1 DEF Types
  <2>4. Types'
    BY <1>1, <2>1, <2>2, <2>3 DEF Types
  <2>5. ASSUME NEW d \in Clients PROVE Dialogue(d)'
    <3>1. CASE d = c
      BY <1>1, <2>1, <2>2, <3>1 DEF Dialogue
    <3>2. CASE d # c
      BY <2>1, <2>2, <3>2, DialogueKept DEF ServerInv
    <3> QED BY <3>1, <3>2
  <2>6. Waits(c)' /\ \A d \in Clients : Waits(d) => Waits(d)'
    <3>1. /\ DOMAIN backlog' = 1 .. Len(backlog) + 1 /\ DOMAIN backlog = 1 .. Len(backlog)
          /\ backlog'[Len(backlog) + 1] = c /\ \A i \in DOMAIN backlog : backlog'[i] = backlog[i]
          /\ Len(backlog) \in Nat
      BY <2>1, <2>3
    <3> QED BY <3>1 DEF Waits
  <2>7. ASSUME NEW d \in Clients PROVE Kept(d)'
    <3>1. CASE d = c
      BY <1>2, <2>1, <2>6, <3>1 DEF Kept
    <3>2. CASE d # c
      BY <1>2, <2>1, <2>2, <2>6, <3>2 DEF ServerInv, Kept
    <3> QED BY <3>1, <3>2
  <2>8. NoQueryAfterStop'
    BY <2>1 DEF ServerInv, NoQueryAfterStop, WorkersDone
  <2> QED BY <2>4, <2>5, <2>7, <2>8 DEF ServerInv
<1>3. CASE listening = FALSE
  <2>1. /\ client' = [client EXCEPT ![c] = "closed"] /\ UNCHANGED <<mainVars, worker, peer>>
        /\ toServer' = toServer /\ toClient' = toClient /\ sent' = sent
    BY <1>3 DEF Connect, mainVars
  <2>2. /\ sent' \in [Clients -> 0 .. MaxRequests] /\ toServer' \in [Clients -> Line(Requests)]
        /\ toClient' \in [Clients -> Line(Replies)]
    BY <1>1, <2>1 DEF Types
  <2>3. client'[c] = "closed" => Dialogue(c)'
    BY <1>1, <2>1 DEF Dialogue
  <2> QED BY <2>1, <2>2, <2>3, ClientFrame DEF ClientStates
<1>4. listening \in BOOLEAN
  BY <1>1 DEF Types
<1> QED BY <1>2, <1>3, <1>4

\* A client sends when nothing of an earlier request is on its way.
LEMMA SendRequestInv ==
  ASSUME ServerInv, NEW c \in Clients, NEW kind \in {"QUERY", "OTHER"}, SendRequest(c, kind)
  PROVE  ServerInv'
<1>1. Types /\ Dialogue(c) /\ client[c] = "idle" /\ sent[c] < MaxRequests
  BY DEF ServerInv, SendRequest
<1>2. PICK n \in 1 .. MaxRequests : n = sent[c] + 1
  BY <1>1, ServerAssumption DEF Types
<1>3. sent' = [sent EXCEPT ![c] = n]
  BY <1>2 DEF SendRequest
<1>4. /\ sent' \in [Clients -> 0 .. MaxRequests] /\ sent'[c] = n
      /\ \A d \in Clients \ {c} : sent'[d] = sent[d]
  BY <1>1, <1>3 DEF Types
<1>5. /\ toServer[c] = <<>> /\ toClient[c] = <<>> /\ toClient' = toClient /\ worker' = worker /\ worker[c] # "exec"
      /\ UNCHANGED <<mainVars, worker, peer>>
  BY <1>1 DEF Dialogue, SendRequest
<1>6. toClient' \in [Clients -> Line(Replies)]
  BY <1>1, <1>5 DEF Types
<1>7. CASE /\ client' = [client EXCEPT ![c] = "waiting"]
           /\ toServer' = [toServer EXCEPT ![c] =
                IF ~peer[c] THEN @
                ELSE Append(@, IF kind = "QUERY" THEN Query(sent'[c]) ELSE Other(sent'[c]))]
  <2>1. PICK m \in Requests : /\ m = (IF kind = "QUERY" THEN Query(n) ELSE Other(n))
                              /\ m.type # "TERMINATE" /\ m.n = n
    <3>1. Query(n) \in Requests /\ Query(n).type = "QUERY" /\ Query(n).n = n
      BY DEF Requests, Query
    <3>2. Other(n) \in Requests /\ Other(n).type = "OTHER" /\ Other(n).n = n
      BY DEF Requests, Other
    <3> QED BY <3>1, <3>2
  <2>2. PICK l \in Line(Requests) : l = Append(<<>>, m) /\ l # <<>> /\ l[1] = m
    BY LinePut
  <2>3. toServer' = toServer \/ toServer' = [toServer EXCEPT ![c] = l]
    <3>1. CASE peer[c] = TRUE
      BY <1>4, <1>5, <1>7, <2>1, <2>2, <3>1
    <3>2. CASE peer[c] = FALSE
      BY <1>1, <1>7, <3>2 DEF Types
    <3>3. peer[c] \in BOOLEAN
      BY <1>1 DEF Types
    <3> QED BY <3>1, <3>2, <3>3
  <2>4. /\ toServer' \in [Clients -> Line(Requests)] /\ toServer'[c] \in {<<>>, l}
        /\ \A d \in Clients \ {c} : toServer'[d] = toServer[d]
    BY <1>1, <1>5, <2>3 DEF Types
  <2>5. client'[c] = "waiting" => Dialogue(c)'
    BY <1>4, <1>5, <2>1, <2>2, <2>4 DEF Dialogue
  <2> QED BY <1>4, <1>5, <1>6, <1>7, <2>4, <2>5, ClientFrame DEF ClientStates
<1>8. CASE client' = [client EXCEPT ![c] = "lost"] /\ UNCHANGED toServer
  <2>1. toServer' \in [Clients -> Line(Requests)]
    BY <1>1, <1>8 DEF Types
  <2>2. client'[c] = "lost" => Dialogue(c)'
    BY <1>5, <1>8 DEF Dialogue
  <2> QED BY <1>4, <1>5, <1>6, <1>8, <2>1, <2>2, ClientFrame DEF ClientStates
<1> QED BY <1>7, <1>8 DEF SendRequest

\* The reply that a client reads is the only one.
LEMMA RecvReplyInv ==
  ASSUME ServerInv, NEW c \in Clients, RecvReply(c)
  PROVE  ServerInv'
<1>1. Types /\ Dialogue(c) /\ client[c] = "waiting" /\ toClient[c] # <<>>
  BY DEF ServerInv, RecvReply
<1>2. /\ toClient' = [toClient EXCEPT ![c] = Tail(@)] /\ client' = [client EXCEPT ![c] = "idle"]
      /\ UNCHANGED <<mainVars, worker, peer>> /\ toServer' = toServer /\ sent' = sent /\ worker' = worker
  BY DEF RecvReply
<1>3. PICK k \in Line(Replies) : k = toClient[c]
  BY <1>1 DEF Types
<1>4. Tail(k) = <<>> /\ <<>> \in Line(Replies)
  BY <1>1, <1>3, LineFacts DEF Line
<1>5. /\ toClient' \in [Clients -> Line(Replies)] /\ toClient'[c] = <<>>
      /\ \A d \in Clients \ {c} : toClient'[d] = toClient[d]
  BY <1>1, <1>2, <1>3, <1>4 DEF Types
<1>6. toServer[c] = <<>> /\ worker[c] # "exec"
  BY <1>1 DEF Dialogue
<1>7. client'[c] = "idle" => Dialogue(c)'
  BY <1>2, <1>5, <1>6 DEF Dialogue
<1>8. toServer' \in [Clients -> Line(Requests)] /\ sent' \in [Clients -> 0 .. MaxRequests]
  BY <1>1, <1>2 DEF Types
<1> QED BY <1>2, <1>5, <1>7, <1>8, ClientFrame DEF ClientStates

\* A client that waits loses the connection or dies: nothing is sent or read.
LEMMA LeaveInv ==
  ASSUME ServerInv, NEW c \in Clients, RecvFails(c) \/ Die(c)
  PROVE  ServerInv'
<1>1. Types /\ Dialogue(c)
  BY DEF ServerInv
<1>2. PICK s \in {"lost", "closed"} : client' = [client EXCEPT ![c] = s]
  BY DEF RecvFails, Die
<1>3. /\ UNCHANGED <<mainVars, worker, peer>> /\ toServer' = toServer /\ toClient' = toClient /\ sent' = sent
      /\ worker' = worker
  BY DEF RecvFails, Die, connVars
<1>4. /\ toServer' \in [Clients -> Line(Requests)] /\ toClient' \in [Clients -> Line(Replies)]
      /\ sent' \in [Clients -> 0 .. MaxRequests]
  BY <1>1, <1>3 DEF Types
<1>5. client'[c] = s => Dialogue(c)'
  BY <1>1, <1>3 DEF Dialogue
<1> QED BY <1>2, <1>3, <1>4, <1>5, ClientFrame DEF ClientStates

\* \q puts TERMINATE on a line that is empty.
LEMMA QuitInv ==
  ASSUME ServerInv, NEW c \in Clients, Quit(c)
  PROVE  ServerInv'
<1>1. Types /\ Dialogue(c) /\ client[c] = "idle"
  BY DEF ServerInv, Quit
<1>2. /\ client' = [client EXCEPT ![c] = "closed"] /\ UNCHANGED <<mainVars, worker, peer>>
      /\ toClient' = toClient /\ sent' = sent /\ worker' = worker
  BY DEF Quit
<1>3. toServer[c] = <<>> /\ toClient[c] = <<>> /\ worker[c] # "exec"
  BY <1>1 DEF Dialogue
<1>4. Terminate \in Requests
  BY DEF Requests
<1>5. PICK l \in Line(Requests) : l = Append(<<>>, Terminate)
  BY <1>4, LinePut
<1>6. toServer' = toServer \/ toServer' = [toServer EXCEPT ![c] = l]
  BY <1>3, <1>5 DEF Quit
<1>7. toServer' \in [Clients -> Line(Requests)] /\ \A d \in Clients \ {c} : toServer'[d] = toServer[d]
  BY <1>1, <1>6 DEF Types
<1>8. toClient' \in [Clients -> Line(Replies)] /\ sent' \in [Clients -> 0 .. MaxRequests]
  BY <1>1, <1>2 DEF Types
<1>9. client'[c] = "closed" => Dialogue(c)'
  BY <1>2, <1>3 DEF Dialogue
<1> QED BY <1>2, <1>7, <1>8, <1>9, ClientFrame DEF ClientStates

-----------------------------------------------------------------------------
(* What the server promises. *)

\* At first nobody is connected.
LEMMA ServerInitInv == ServerInit => ServerInv
<1> SUFFICES ASSUME ServerInit PROVE ServerInv
  OBVIOUS
<1>1. <<>> \in Line(Requests) /\ <<>> \in Line(Replies) /\ <<>> \in Seq(Clients)
  BY DEF Line
<1>2. Types
  BY <1>1, ServerAssumption DEF ServerInit, Types, MainStates, WorkerStates, ClientStates
<1>3. \A c \in Clients : Dialogue(c)
  BY DEF ServerInit, Dialogue
<1>4. \A c \in Clients : Kept(c)
  BY DEF ServerInit, Kept
<1>5. NoQueryAfterStop
  BY DEF ServerInit, NoQueryAfterStop
<1> QED BY <1>2, <1>3, <1>4, <1>5 DEF ServerInv

\* A step of the server or of a client keeps the invariant.
LEMMA ServerNextInv ==
  ASSUME ServerInv, [ServerNext]_vars
  PROVE  ServerInv'
<1>1. CASE Signal \/ MainStep
  BY <1>1, SignalInv, MainStepInv
<1>2. ASSUME NEW c \in Clients, WorkerStep(c) PROVE ServerInv'
  BY <1>2, WorkerTestInv, WorkerRecvInv, WorkerRecvFailsInv, WorkerExecInv DEF WorkerStep
<1>3. ASSUME NEW c \in Clients, ClientStep(c) PROVE ServerInv'
  BY <1>3, ConnectInv, RecvReplyInv, LeaveInv, QuitInv, SendRequestInv DEF ClientStep, ClientReceives
<1>4. CASE UNCHANGED vars
  <2>1. /\ running' = running /\ listening' = listening /\ main' = main /\ backlog' = backlog
        /\ worker' = worker /\ peer' = peer /\ toServer' = toServer /\ toClient' = toClient
        /\ client' = client /\ sent' = sent
    BY <1>4 DEF vars, mainVars, connVars, clientVars
  <2>2. Types' /\ NoQueryAfterStop'
    BY <2>1 DEF ServerInv, Types, NoQueryAfterStop, WorkersDone
  <2>3. \A c \in Clients : Dialogue(c)' /\ Kept(c)'
    BY <2>1, DialogueKept, KeptKept DEF ServerInv
  <2> QED BY <2>2, <2>3 DEF ServerInv
<1> QED BY <1>1, <1>2, <1>3, <1>4 DEF ServerNext

\* The invariant holds in every state.
LEMMA ServerInvariant == ServerSpec => []ServerInv
BY ServerInitInv, ServerNextInv, PTL DEF ServerSpec

\* A client that reads one message after a request reads the answer to that
\* request, whatever errors and unknown messages came before (HandleQuery,
\* HandleClient).
THEOREM RepliesMatchRequests == ServerSpec => []ReplyIsToLastRequest
<1>1. ServerInv => ReplyIsToLastRequest
  <2> SUFFICES ASSUME ServerInv PROVE ReplyIsToLastRequest
    OBVIOUS
  <2>1. ASSUME NEW c \in Clients
        PROVE  toServer[c] \in Seq(Requests) /\ toClient[c] \in Seq(Replies) /\ Len(toClient[c]) <= 1
    <3>1. toServer[c] \in Line(Requests) /\ toClient[c] \in Line(Replies)
      BY DEF ServerInv, Types
    <3> QED BY <3>1, LineFacts
  <2>2. ServerTypeOK
    BY <2>1 DEF ServerInv, Types, ServerTypeOK
  <2>3. ASSUME NEW c \in Clients
        PROVE  (toClient[c] # <<>> => toClient[c][1].n = sent[c]) /\ (client[c] = "idle" => toClient[c] = <<>>)
    BY DEF ServerInv, Dialogue
  <2> QED BY <2>1, <2>2, <2>3 DEF ReplyIsToLastRequest
<1> QED BY <1>1, ServerInvariant, PTL

\* No worker outlives the instance and no connection is left behind, whenever
\* the signal comes (main, HandleClient, the signal handler).
THEOREM ShutdownIsClean == ServerSpec => []ShutdownClean
<1>1. ServerInv => ShutdownClean
  <2> SUFFICES ASSUME ServerInv PROVE ShutdownClean
    OBVIOUS
  <2>1. ASSUME NEW c \in Clients, peer[c]
        PROVE  \/ worker[c] \in {"test", "recv", "exec"}
               \/ listening /\ \E i \in DOMAIN backlog : backlog[i] = c
    <3>1. peer[c] = TRUE
      BY <2>1 DEF ServerInv, Types
    <3> QED BY <3>1 DEF ServerInv, Kept, Waits
  <2> QED BY <2>1 DEF ServerInv, ShutdownClean, NoConnectionForgotten
<1> QED BY <1>1, ServerInvariant, PTL
=============================================================================
