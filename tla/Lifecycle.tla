----------------------------- MODULE Lifecycle ------------------------------
(***************************************************************************)
(* The life of the process: startServer and shutdown of src/index.js, the  *)
(* connection to the database and two more signal handlers in              *)
(* src/src/config/index.js, waitForDbReady of src/src/utils/dbReady.js.    *)
(*                                                                         *)
(* A signal runs two handlers side by side: one of config/index.js, that   *)
(* closes the pool and exits, and shutdown(), that first lets the HTTP     *)
(* server answer what it accepted.  An uncaught exception or rejection     *)
(* runs shutdown() alone.  Either may come while the server still starts.  *)
(***************************************************************************)
EXTENDS Naturals

CONSTANTS Requests,     \* handlers that may run at the same time
          Handlers,     \* runs of a handler of signals or exceptions
          MaxAttempts,  \* of Connection(): 20
          MaxReady      \* of waitForDbReady(): 10

ASSUME LifecycleAssumption == MaxAttempts \in Nat \ {0} /\ MaxReady \in Nat \ {0}

VARIABLES
    boot,     \* what startServer does next
    attempt,  \* of Connection(), and ...
    ready,    \* ... how often its waitForDbReady() has failed
    http,     \* the server
    pool,     \* does it still give out connections
    request,  \* each request: is its handler running, in a query or
              \* transaction, and what does its client do
    handler,  \* what each run of a handler does next
    exit,     \* the code the process ended with
    \* history
    signalled,  \* a signal came
    early       \* shutdown() ran while there was no server to close

bootVars == <<boot, attempt, ready>>
vars == <<bootVars, http, pool, request, handler, exit, signalled, early>>

Codes == {"success", "failure"}
None  == [at |-> "none", client |-> "gone"]

Init == /\ boot = "connect" /\ attempt = 1 /\ ready = 0
        /\ http = "none" /\ pool = "open"
        /\ request = [r \in Requests |-> None]
        /\ handler = [h \in Handlers |-> "none"]
        /\ exit = "running"
        /\ signalled = FALSE /\ early = FALSE

Running == exit = "running"

-----------------------------------------------------------------------------
(* startServer                                                             *)

\* Mutant: the loop does not count.
CountsNot(n) == n

Counts(n) == n + 1

\* Mutant: an attempt too many.
GivesUpLate(n) == n > MaxAttempts

GivesUp(n) == n >= MaxAttempts

\* waitForDbReady reached the database, which serves the rest of Connection().
Connected ==
    /\ boot = "connect" /\ pool = "open"
    /\ boot' = "sync"
    /\ UNCHANGED <<attempt, ready, exit>>

\* One try more, as long as there are tries left: the inner ones are repeated
\* by waitForDbReady; the statements after it count as an attempt at once.
ConnectFails ==
    /\ boot = "connect"
    /\ \/ /\ ready < MaxReady
          /\ ready' = ready + 1
          /\ UNCHANGED <<attempt, exit>>
       \/ /\ ready' = 0
          /\ IF GivesUp(attempt)
             THEN exit' = "failure" /\ UNCHANGED attempt
             ELSE attempt' = Counts(attempt) /\ UNCHANGED exit
    /\ UNCHANGED boot

\* db.sync; without the tables the process ends.
Sync ==
    /\ boot = "sync"
    /\ \/ pool = "open" /\ boot' = "redis" /\ UNCHANGED exit
       \/ exit' = "failure" /\ UNCHANGED boot
    /\ UNCHANGED <<attempt, ready>>

\* initRedis and seedAll: their errors are logged.
Prepare ==
    /\ boot \in {"redis", "seed"}
    /\ boot' = IF boot = "redis" THEN "seed" ELSE "queue"
    /\ UNCHANGED <<attempt, ready, exit>>

\* processEmailQueue did not get its channel.
QueueFails ==
    /\ boot = "queue"
    /\ exit' = "failure"
    /\ UNCHANGED bootVars

BootStep ==
    /\ Running
    /\ Connected \/ ConnectFails \/ Sync \/ Prepare \/ QueueFails
    /\ UNCHANGED <<http, pool, request, handler, signalled, early>>

\* The cron jobs run, the worker of the e-mail queue has started or was given up.
Listen ==
    /\ Running
    /\ boot = "queue"
    /\ boot' = "listening" /\ http' = "open"
    /\ UNCHANGED <<attempt, ready, pool, request, handler, exit, signalled, early>>

-----------------------------------------------------------------------------
(* Requests, as far as a shutdown waits for them                           *)

\* Mutant: the callback is not awaited.
AnsweredAtOnce == TRUE

\* The server closes once no client is connected.
Answered == \A r \in Requests : request[r].client = "gone"

\* A client begins to send.  While the server closes, a connection that was in
\* use may bring another request; how long it idles before that is not told
\* apart from sending.
Accept(r) ==
    /\ http = "open" \/ (http = "closing" /\ ~Answered)
    /\ request[r] = None
    /\ request' = [request EXCEPT ![r].client = "sends"]

\* The body is there; only now does timeout("30s") start its timer.
Receive(r) ==
    /\ request[r].client = "sends"
    /\ request' = [request EXCEPT ![r] = [at |-> "handler", client |-> "waits"]]

\* A query or a transaction; a closed pool refuses.
Acquire(r) ==
    /\ request[r].at = "handler" /\ pool = "open"
    /\ request' = [request EXCEPT ![r].at = "database"]

Release(r) ==
    /\ request[r].at = "database"
    /\ request' = [request EXCEPT ![r].at = "handler"]

\* The handler is through, or has failed.  The headers of its answer stop the
\* timer; a client may take its time with the rest, a file for example.
Answer(r) ==
    /\ request[r].at = "handler"
    /\ \/ request' = [request EXCEPT ![r] = None]
       \/ /\ request[r].client = "waits"
          /\ request' = [request EXCEPT ![r] = [at |-> "none", client |-> "reads"]]

\* Mutant: no time-out.
TimesOutNever(r) == FALSE

\* The timer is armed from the end of the body to the headers of the answer.
TimesOut(r) == request[r].client = "waits"

\* The client gets a 408; the handler goes on.
Timeout(r) ==
    /\ TimesOut(r)
    /\ request' = [request EXCEPT ![r].client = "gone"]

\* The client has read its answer, or hangs up before.
Disconnect(r) ==
    /\ request[r].client # "gone"
    /\ request' = [request EXCEPT ![r].client = "gone"]

RequestStep(r) ==
    /\ Running
    /\ \/ Accept(r) \/ Receive(r) \/ Acquire(r) \/ Release(r)
       \/ Answer(r) \/ Timeout(r) \/ Disconnect(r)
    /\ UNCHANGED <<bootVars, http, pool, handler, exit, signalled, early>>

-----------------------------------------------------------------------------
(* Signals and exceptions                                                  *)

\* server.close; a second call learns that the server is not running.
CloseServer ==
    CASE http = "open" -> [at |-> "server", http |-> "closing", early |-> early]
      [] http = "none" -> [at |-> "database", http |-> http, early |-> TRUE]
      [] OTHER         -> [at |-> "refused", http |-> http, early |-> early]

\* shutdown() as far as its first await.
Exception(h) ==
    /\ Running
    /\ handler[h] = "none"
    /\ handler' = [handler EXCEPT ![h] = CloseServer.at]
    /\ http' = CloseServer.http /\ early' = CloseServer.early
    /\ pool' = IF CloseServer.at = "database" THEN "closed" ELSE pool
    /\ UNCHANGED <<bootVars, request, exit, signalled>>

\* The handler of config/index.js was registered first.
Signal(h, g) ==
    /\ Running
    /\ h # g /\ handler[h] = "none" /\ handler[g] = "none"
    /\ handler' = [handler EXCEPT ![h] = "config", ![g] = CloseServer.at]
    /\ http' = CloseServer.http /\ early' = CloseServer.early
    /\ pool' = "closed" /\ signalled' = TRUE
    /\ UNCHANGED <<bootVars, request, exit>>

ServerCloses ==
    /\ Running
    /\ http = "closing" /\ Answered
    /\ http' = "closed"
    /\ UNCHANGED <<bootVars, pool, request, handler, exit, signalled, early>>

\* shutdown() goes on to db.close().
ServerClosed(h) ==
    /\ handler[h] = "server" /\ http = "closed"
    /\ handler' = [handler EXCEPT ![h] = "database"]
    /\ pool' = "closed"
    /\ UNCHANGED exit

Refused(h) ==
    /\ handler[h] = "refused" /\ http = "closed"
    /\ exit' = "failure"
    /\ UNCHANGED <<handler, pool>>

\* Mutant: close() is not awaited.
DrainedAtOnce == TRUE

\* Sequelize's close() waits for the connections that are in use.
Drained == \A r \in Requests : request[r].at # "database"

\* The end of the handlers of config/index.js; an error ends in exit(1).
ConfigExits(h) ==
    /\ handler[h] = "config"
    /\ \/ Drained /\ exit' = "success"
       \/ exit' = "failure"
    /\ UNCHANGED <<handler, pool>>

\* shutdown() goes on to Redis and RabbitMQ, whose errors are logged; one of
\* db.close() ends in exit(1).
DatabaseCloses(h) ==
    /\ handler[h] = "database"
    /\ \/ Drained /\ handler' = [handler EXCEPT ![h] = "redis"] /\ UNCHANGED exit
       \/ exit' = "failure" /\ UNCHANGED handler
    /\ UNCHANGED pool

BrokersClose(h) ==
    /\ \/ /\ handler[h] = "redis"
          /\ handler' = [handler EXCEPT ![h] = "rabbitmq"] /\ UNCHANGED exit
       \/ /\ handler[h] = "rabbitmq"
          /\ exit' = "success" /\ UNCHANGED handler
    /\ UNCHANGED pool

HandlerStep(h) ==
    /\ Running
    /\ ServerClosed(h) \/ Refused(h) \/ ConfigExits(h) \/ DatabaseCloses(h) \/ BrokersClose(h)
    /\ UNCHANGED <<bootVars, http, request, signalled, early>>

-----------------------------------------------------------------------------
Next == \/ BootStep \/ Listen \/ ServerCloses
        \/ \E r \in Requests : RequestStep(r)
        \/ \E h \in Handlers : Exception(h) \/ HandlerStep(h)
        \/ \E h, g \in Handlers : Signal(h, g)

Spec == Init /\ [][Next]_vars

\* The event loop goes on with the start and with the handlers, the database
\* answers, and armed timers go off.  Nothing makes a request handler end in
\* time, and nothing makes a client send its body or read its answer.
FairSpec == /\ Spec
            /\ WF_vars(BootStep \/ Listen)
            /\ WF_vars(ServerCloses)
            /\ \A h \in Handlers : WF_vars(HandlerStep(h))
            /\ \A r \in Requests :
                  /\ WF_vars(Running /\ Release(r) /\ RequestStep(r))
                  /\ WF_vars(Running /\ Timeout(r) /\ RequestStep(r))

-----------------------------------------------------------------------------
(* Properties                                                              *)

\* The values the variables take.
TypeOK ==
    /\ boot \in {"connect", "sync", "redis", "seed", "queue", "listening"}
    /\ attempt \in 1 .. MaxAttempts /\ ready \in 0 .. MaxReady
    /\ http \in {"none", "open", "closing", "closed"}
    /\ pool \in {"open", "closed"}
    /\ request \in [Requests -> [at     : {"none", "handler", "database"},
                              client : {"gone", "sends", "waits", "reads"}]]
    /\ handler \in [Handlers -> {"none", "config", "server", "refused", "database",
                                 "redis", "rabbitmq"}]
    /\ exit \in Codes \cup {"running"}
    /\ signalled \in BOOLEAN /\ early \in BOOLEAN

\* A process that reports success cut nobody off in a query or a transaction,
\* whichever of the handlers ended it.
TransactionsFinish ==
    exit = "success" => \A r \in Requests : request[r].at # "database"

\* ... and left no client without its whole answer, if it was not a signal that
\* stopped it (the handler of config/index.js does not wait for clients) and
\* the server was up when shutdown() looked for it.
ClientsAreAnswered ==
    exit = "success" /\ ~signalled /\ ~early => \A r \in Requests : request[r].client = "gone"

\* The start ends: the server listens or the process gives up, however often
\* the database refuses.
StartEnds == <>(boot = "listening" \/ ~Running)

\* Nobody sends or reads for ever: what clients do, and the code cannot enforce.
ClientsLetGo == <>[](\A r \in Requests : request[r].client \notin {"sends", "reads"})

\* A signal ends the process whatever the clients do and in whatever step of
\* the start it was.  Any other stop ends it too, however many handlers never
\* answer, unless clients hold on to the server by sending or reading.
StopsEventually ==
    /\ signalled ~> ~Running
    /\ ClientsLetGo => ((\E h \in Handlers : handler[h] # "none") ~> ~Running)
=============================================================================
