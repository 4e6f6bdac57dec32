----------------------------- MODULE EmailQueue -----------------------------
(***************************************************************************)
(* src/src/services/emailQueue.service.js: jobs that wait on a RabbitMQ    *)
(* queue, the worker that mails them, retries held in timers of the        *)
(* process, and the dead-letter queue.                                     *)
(*                                                                         *)
(* A message is one attempt at a job; the body carries the count of        *)
(* retries.  The broker's queues are durable and survive its restarts;     *)
(* what the process holds (jobs in hand, timers) does not survive the      *)
(* process.  The channel of the worker has two ends: when the connection   *)
(* breaks the broker takes its unacknowledged messages back at once, and   *)
(* until the process notices, what it writes is lost without an error.     *)
(***************************************************************************)
EXTENDS Naturals, FiniteSets

CONSTANTS Jobs,         \* the jobs that requests hand to addEmailJob
          MaxRetries,   \* job.maxRetries: 3
          Prefetch      \* RABBITMQ_PREFETCH_COUNT

ASSUME EmailAssumption == MaxRetries \in Nat /\ Prefetch \in Nat \ {0}

Messages == [job: Jobs, retries: 0 .. MaxRetries]

VARIABLES
    \* the broker
    broker,     \* is it reachable
    declared,   \* do email_queue and email_dlq exist
    queue,      \* messages ready on email_queue
    unacked,    \* messages delivered to the worker and not acknowledged
    dlq,        \* messages on email_dlq
    \* the process
    node,       \* is it running
    channel,    \* the worker's channel
    sending,    \* messages whose mail is being sent
    sent,       \* messages whose mail the SMTP server took; reply under way
    timers,     \* retries waiting in a setTimeout
    \* history
    submitted,  \* jobs handed to addEmailJob
    stored,     \* jobs that reached the queue and that no one purged
    mailed,     \* how often a job was mailed; 2 stands for more than once
    excused,    \* jobs redelivered by the broker, or mailed with the reply lost
    abandoned   \* jobs whose retry was lost with its timer or its channel

brokerVars  == <<broker, declared, queue, unacked, dlq>>
processVars == <<node, channel, sending, sent, timers>>
historyVars == <<submitted, stored, mailed, excused, abandoned>>
vars        == <<brokerVars, processVars, historyVars>>

JobsOf(ms) == {m.job : m \in ms}
Running    == node \in {"up", "closing"}
Once(n)    == IF n = 0 THEN 1 ELSE 2

Init == /\ broker \in BOOLEAN
        /\ declared = FALSE
        /\ queue = {} /\ unacked = {} /\ dlq = {}
        /\ node = "down" /\ channel = "none"
        /\ sending = {} /\ sent = {} /\ timers = {}
        /\ submitted = {} /\ stored = {} /\ excused = {} /\ abandoned = {}
        /\ mailed = [j \in Jobs |-> 0]

-----------------------------------------------------------------------------
(* processEmailQueue, called once by startServer                           *)

StartWorker ==
    /\ node = "down"
    /\ node' = "up"
    /\ \/ broker /\ channel' = "open" /\ declared' = TRUE
       \/ channel' = "none" /\ UNCHANGED declared   \* "worker not started"
    /\ UNCHANGED <<broker, queue, unacked, dlq, sending, sent, timers, historyVars>>

\* The second createChannel, outside the try block, throws: exit(1).
StartAborted ==
    /\ node = "down" /\ broker
    /\ declared' = TRUE
    /\ UNCHANGED <<broker, queue, unacked, dlq, processVars, historyVars>>

-----------------------------------------------------------------------------
(* addEmailJob, on a connection of its own                                 *)

\* sendToQueue: unroutable while nobody declared the queue, and lost with
\* the connection when that breaks first; the answer is true in every case.
Publish(j) ==
    /\ broker
    /\ \/ /\ declared
          /\ queue' = queue \cup {[job |-> j, retries |-> 0]}
          /\ stored' = stored \cup {j}
       \/ UNCHANGED <<queue, stored>>
    /\ UNCHANGED mailed

\* RabbitMQ cannot be reached: one attempt to mail, its failure swallowed.
SendEmailDirectly(j) ==
    /\ \/ mailed' = [mailed EXCEPT ![j] = Once(@)]
       \/ UNCHANGED mailed
    /\ UNCHANGED <<queue, stored>>

AddEmailJob(j) ==
    /\ Running
    /\ j \notin submitted
    /\ submitted' = submitted \cup {j}
    /\ Publish(j) \/ SendEmailDirectly(j)
    /\ UNCHANGED <<broker, declared, unacked, dlq, processVars, excused, abandoned>>

-----------------------------------------------------------------------------
(* processJob                                                              *)

Deliver(m) ==
    /\ channel = "open"
    /\ m \in queue
    /\ Cardinality(unacked) < Prefetch
    /\ queue' = queue \ {m}
    /\ unacked' = unacked \cup {m}
    /\ sending' = sending \cup {m}
    /\ UNCHANGED <<broker, declared, dlq, node, channel, sent, timers, historyVars>>

MailAccepted(m) ==
    /\ m \in sending
    /\ sending' = sending \ {m}
    /\ sent' = sent \cup {m}
    /\ mailed' = [mailed EXCEPT ![m.job] = Once(@)]
    /\ UNCHANGED <<brokerVars, node, channel, timers,
                   submitted, stored, excused, abandoned>>

\* The retry of a message that failed, and when there is one.
Retry(m)  == [m EXCEPT !.retries = @ + 1]

\* Mutant: maxRetries counts the attempts, not the retries.
CountsAttempts(m) == m.retries + 1 < MaxRetries

\* Mutant: the count of retries is never looked at.
RetriesAlways(m) == TRUE

Retries(m) == m.retries < MaxRetries

\* A call on a broken channel: lost without an error, or, once the process
\* knows the channel is closed, an exception that no one catches
\* (unhandledRejection, uncaughtException), which shuts the process down.
OffChannel == /\ channel # "open"
              /\ node' = IF channel = "closed" THEN "closing" ELSE node
              /\ UNCHANGED <<queue, unacked, dlq>>

\* Mutant: nack with requeue.
NackRequeues(m) ==
    \/ /\ channel = "open"
       /\ unacked' = unacked \ {m}
       /\ queue' = queue \cup {m}
       /\ UNCHANGED <<dlq, node>>
    \/ OffChannel

\* Mutant: the failed message is acknowledged, its retry stands for it.
NackAcknowledges(m) ==
    \/ /\ channel = "open"
       /\ unacked' = unacked \ {m}
       /\ UNCHANGED <<queue, dlq, node>>
    \/ OffChannel

\* Mutant: no nack for the last attempt.
NackIfRetried(m) ==
    \/ /\ channel = "open"
       /\ unacked' = IF Retries(m) THEN unacked \ {m} ELSE unacked
       /\ dlq' = IF Retries(m) THEN dlq \cup {m} ELSE dlq
       /\ UNCHANGED <<queue, node>>
    \/ OffChannel

\* ch.nack(msg, false, false)
Nack(m) ==
    \/ /\ channel = "open"
       /\ unacked' = unacked \ {m}
       /\ dlq' = dlq \cup {m}
       /\ UNCHANGED <<queue, node>>
    \/ OffChannel

\* The catch block: a timer when retries are left, and in any case a nack.
Reject(m) ==
    /\ timers' = IF Retries(m) THEN timers \cup {Retry(m)} ELSE timers
    /\ sending' = sending \ {m}
    /\ sent' = sent \ {m}
    /\ Nack(m)
    /\ UNCHANGED <<broker, declared, channel, submitted, stored, mailed, abandoned>>

\* The mail was refused, or it was taken and the reply never came.
SendFails(m) ==
    /\ m \in sending \cup sent
    /\ excused' = IF m \in sent THEN excused \cup {m.job} ELSE excused
    /\ Reject(m)

\* ch.ack(msg); on a closed channel it throws into the catch block.
Acknowledge(m) ==
    /\ m \in sent
    /\ \/ /\ channel \in {"open", "cut"}
          /\ sent' = sent \ {m}
          /\ unacked' = unacked \ {m}
          /\ UNCHANGED <<broker, declared, queue, dlq, node, channel, sending,
                         timers, historyVars>>
       \/ /\ channel = "closed"
          /\ Reject(m)
          /\ UNCHANGED excused

\* The timer of a retry.
RetryDue(m) ==
    /\ m \in timers
    /\ timers' = timers \ {m}
    /\ \/ /\ channel = "open"
          /\ queue' = queue \cup {m}
          /\ UNCHANGED <<unacked, dlq, node, abandoned>>
       \/ /\ OffChannel
          /\ abandoned' = abandoned \cup {m.job}
    /\ UNCHANGED <<broker, declared, channel, sending, sent,
                   submitted, stored, mailed, excused>>

-----------------------------------------------------------------------------
(* clearQueue                                                              *)

ClearQueue ==
    /\ Running /\ broker /\ declared
    /\ queue' = {}
    /\ stored' = stored \ JobsOf(queue)
    /\ UNCHANGED <<broker, declared, unacked, dlq, processVars,
                   submitted, mailed, excused, abandoned>>

-----------------------------------------------------------------------------
(* Connections and processes that end                                      *)

\* The broker takes back what the worker had not acknowledged.
TakeBack == /\ queue' = queue \cup unacked
            /\ unacked' = {}
            /\ excused' = excused \cup JobsOf(unacked)

ConnectionLost ==
    /\ channel = "open"
    /\ channel' = "cut"
    /\ TakeBack
    /\ broker' \in BOOLEAN
    /\ UNCHANGED <<declared, dlq, node, sending, sent, timers,
                   submitted, stored, mailed, abandoned>>

\* connection.on("close"): nothing opens another channel for the worker.
NoticeClose ==
    /\ channel = "cut"
    /\ channel' = "closed"
    /\ UNCHANGED <<brokerVars, node, sending, sent, timers, historyVars>>

BrokerChanges ==
    /\ channel # "open"
    /\ broker' = ~broker
    /\ UNCHANGED <<declared, queue, unacked, dlq, processVars, historyVars>>

\* SIGTERM or SIGINT; the HTTP server drains, the worker goes on.
Shutdown ==
    /\ node = "up"
    /\ node' = "closing"
    /\ UNCHANGED <<brokerVars, channel, sending, sent, timers, historyVars>>

\* closeRabbitMQ, when the worker's connection is the last one opened.
CloseRabbitMQ ==
    /\ node = "closing" /\ channel = "open"
    /\ channel' = "closed"
    /\ TakeBack
    /\ UNCHANGED <<broker, declared, dlq, node, sending, sent, timers,
                   submitted, stored, mailed, abandoned>>

\* process.exit at the end of a shutdown, or a crash.
Exit ==
    /\ Running
    /\ node' = "down" /\ channel' = "none"
    /\ sending' = {} /\ sent' = {} /\ timers' = {}
    /\ TakeBack
    /\ abandoned' = abandoned \cup JobsOf(timers)
    /\ UNCHANGED <<broker, declared, dlq, submitted, stored, mailed>>

-----------------------------------------------------------------------------
Process(m) == MailAccepted(m) \/ SendFails(m) \/ Acknowledge(m)

Next == \/ StartWorker \/ StartAborted \/ ClearQueue
        \/ ConnectionLost \/ NoticeClose \/ BrokerChanges
        \/ Shutdown \/ CloseRabbitMQ \/ Exit
        \/ \E j \in Jobs : AddEmailJob(j)
        \/ \E m \in Messages : Deliver(m) \/ Process(m) \/ RetryDue(m)

Spec == Init /\ [][Next]_vars

(***************************************************************************)
(* The broker pushes messages while the prefetch count allows, nodemailer  *)
(* answers (its socket timeouts bound a send), and timers fire.  Nothing   *)
(* is assumed about restarts or about the connection.                      *)
(***************************************************************************)
Fairness == \A m \in Messages : /\ WF_vars(Deliver(m))
                                /\ WF_vars(Process(m))
                                /\ WF_vars(RetryDue(m))

FairSpec == Spec /\ Fairness

-----------------------------------------------------------------------------
(* Properties                                                              *)

\* The values the variables take; in particular no retry beyond maxRetries,
\* and a worker that consumes has a broker with declared queues.
TypeOK ==
    /\ broker \in BOOLEAN /\ declared \in BOOLEAN
    /\ queue \subseteq Messages /\ unacked \subseteq Messages /\ dlq \subseteq Messages
    /\ node \in {"down", "up", "closing"}
    /\ channel \in {"none", "open", "cut", "closed"}
    /\ sending \subseteq Messages /\ sent \subseteq Messages /\ timers \subseteq Messages
    /\ submitted \subseteq Jobs /\ stored \subseteq Jobs
    /\ excused \subseteq Jobs /\ abandoned \subseteq Jobs
    /\ mailed \in [Jobs -> 0 .. 2]
    /\ channel = "open" => broker /\ declared /\ Running

\* The places from which an attempt at a job can still be made.
Pending(j) == j \in JobsOf(queue \cup unacked \cup timers)

\* A job has one attempt at most: the message on the queue, the message in
\* the worker's hands and the retry in a timer are never two at a time.
\* (processJob rejects the message before its retry can be published.)
OneAttempt ==
    /\ queue \cap unacked = {}
    /\ channel = "open" =>
         \A m, n \in queue \cup unacked \cup timers :
             m.job = n.job => m = n /\ ~(m \in timers /\ n \in queue \cup unacked)

\* A job that reached the queue is mailed or the broker still has a message
\* of it, whatever crashes: a failed message is dead-lettered at the moment
\* it leaves the queue and its retry exists in the process only.
NoSilentLoss ==
    \A j \in stored : mailed[j] > 0 \/ j \in JobsOf(queue \cup unacked \cup dlq)

\* A job is given up only after all its retries, unless its retry went down
\* with the process or with the connection.
RetriedUntilExhausted ==
    \A j \in stored \ abandoned :
        mailed[j] > 0 \/ Pending(j) \/ [job |-> j, retries |-> MaxRetries] \in dlq

\* Nobody gets the same mail twice, unless the broker redelivered its
\* message or the SMTP server's reply was lost.
MailedOnce == \A j \in Jobs : mailed[j] > 1 => j \in excused

\* While the worker keeps its connection every waiting job is mailed or runs
\* out of retries: no failure costs a prefetch slot.
JobsSettle ==
    \A j \in Jobs :
        (channel = "open" /\ Pending(j)) ~>
            \/ channel # "open" \/ mailed[j] > 0 \/ j \notin stored
            \/ [job |-> j, retries |-> MaxRetries] \in dlq
=============================================================================
