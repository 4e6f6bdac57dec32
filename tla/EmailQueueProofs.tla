-------------------------- MODULE EmailQueueProofs --------------------------
(***************************************************************************)
(* Theorems about EmailQueue, for every set of jobs, every number of       *)
(* retries and every prefetch count.                                       *)
(***************************************************************************)
EXTENDS EmailQueue, TLAPS

(***************************************************************************)
(* None of the properties is inductive: each depends on what the worker    *)
(* may hold while its channel is open, and on what it can no longer do     *)
(* once the broker has taken its messages back.                            *)
(***************************************************************************)

\* While the channel is open both ends agree on what is unacknowledged; once
\* it is not, the broker has everything back and has marked it redelivered.
\* A process that does not run, or has no worker, holds nothing.
BothEnds ==
    /\ sending \cap sent = {}
    /\ channel = "open" => unacked = sending \cup sent
    /\ channel # "open" => unacked = {} /\ \A m \in sending \cup sent : m.job \in excused
    /\ node = "down" => channel = "none"
    /\ channel = "none" => sending = {} /\ sent = {} /\ timers = {}

\* Nothing exists of a job before it is submitted.
Unheard(j) ==
    /\ j \notin stored
    /\ mailed[j] = 0
    /\ \A m \in queue \cup unacked \cup dlq \cup sending \cup sent \cup timers : m.job # j

NothingUnheard == \A j \in Jobs \ submitted : Unheard(j)

\* A job has at most one message on the broker, and while the channel is
\* open at most one retry in a timer, and then no message.
Single ==
    /\ queue \cap unacked = {}
    /\ \A m, n \in queue \cup unacked : m.job = n.job => m = n
    /\ channel = "open" =>
         /\ \A m, n \in timers : m.job = n.job => m = n
         /\ \A m \in timers, n \in queue \cup unacked : m.job # n.job

\* What the SMTP server took is counted, and a message that may still be
\* mailed is of a job not mailed yet, unless the job is excused.
Counted ==
    /\ \A m \in sent : mailed[m.job] > 0
    /\ \A m \in queue \cup sending \cup timers : mailed[m.job] > 0 => m.job \in excused

IInv == /\ TypeOK
        /\ BothEnds
        /\ NothingUnheard
        /\ Single
        /\ Counted
        /\ NoSilentLoss
        /\ RetriedUntilExhausted
        /\ MailedOnce

-----------------------------------------------------------------------------
\* The retry of a message is another message of the same job.
LEMMA RetryOfMessage ==
  ASSUME NEW m \in Messages, Retries(m)
  PROVE  Retry(m) \in Messages /\ Retry(m).job = m.job
  BY EmailAssumption DEF Messages, Retries, Retry

\* A message out of retries is the last one of its job.
LEMMA LastMessage ==
  ASSUME NEW m \in Messages, ~Retries(m)
  PROVE  m = [job |-> m.job, retries |-> MaxRetries]
  BY EmailAssumption DEF Messages, Retries

\* The first message of a job.
LEMMA FirstMessage ==
  ASSUME NEW j \in Jobs
  PROVE  /\ [job |-> j, retries |-> 0] \in Messages
         /\ [job |-> j, retries |-> 0].job = j
  BY EmailAssumption DEF Messages

LEMMA MessageJob ==
  ASSUME NEW m \in Messages
  PROVE  m.job \in Jobs
  BY DEF Messages

-----------------------------------------------------------------------------
LEMMA InitEstablishes == Init => IInv
<1> SUFFICES ASSUME Init PROVE IInv
  OBVIOUS
<1> USE DEF Init
<1>1. TypeOK
  <2>1. mailed \in [Jobs -> 0 .. 2]
    OBVIOUS
  <2> QED
    BY <2>1 DEF TypeOK
<1>2. BothEnds /\ Single
  BY DEF BothEnds, Single
<1>3. NothingUnheard /\ Counted
  BY DEF NothingUnheard, Unheard, Counted
<1>4. NoSilentLoss /\ RetriedUntilExhausted /\ MailedOnce
  BY DEF NoSilentLoss, RetriedUntilExhausted, MailedOnce
<1> QED
  BY <1>1, <1>2, <1>3, <1>4 DEF IInv

\* The worker starts, its process begins to stop, or the broker does: no
\* message moves.
LEMMA LifecyclePreserves ==
  ASSUME IInv, StartWorker \/ StartAborted \/ Shutdown \/ NoticeClose \/ BrokerChanges
  PROVE  IInv'
<1> USE DEF IInv, brokerVars, processVars, historyVars
<1> /\ UNCHANGED <<queue, unacked, dlq, sending, sent, timers, historyVars>>
    /\ channel' = "open" => channel = "open" \/ StartWorker
  BY DEF StartWorker, StartAborted, Shutdown, NoticeClose, BrokerChanges
<1>1. TypeOK'
  BY DEF TypeOK, Running, StartWorker, StartAborted, Shutdown, NoticeClose, BrokerChanges
<1>2. BothEnds'
  BY DEF TypeOK, BothEnds, StartWorker, StartAborted, Shutdown, NoticeClose, BrokerChanges
<1>3. Single'
  BY DEF BothEnds, Single, StartWorker
<1>4. NothingUnheard' /\ Counted'
  BY DEF NothingUnheard, Unheard, Counted
<1>5. NoSilentLoss' /\ RetriedUntilExhausted' /\ MailedOnce'
  BY DEF NoSilentLoss, RetriedUntilExhausted, MailedOnce, Pending, JobsOf
<1> QED
  BY <1>1, <1>2, <1>3, <1>4, <1>5

\* A job is new: whichever way it goes, nothing of it existed.
LEMMA AddEmailJobPreserves ==
  ASSUME IInv, NEW j \in Jobs, AddEmailJob(j)
  PROVE  IInv'
<1> DEFINE first == [job |-> j, retries |-> 0]
<1> USE DEF IInv, processVars
<1>1. /\ j \notin submitted
      /\ submitted' = submitted \cup {j}
      /\ UNCHANGED <<broker, declared, unacked, dlq, processVars, excused, abandoned>>
      /\ \/ queue' = queue \cup {first} /\ stored' = stored \cup {j} /\ mailed' = mailed
         \/ queue' = queue /\ stored' = stored /\ mailed' = mailed
         \/ queue' = queue /\ stored' = stored /\ mailed' = [mailed EXCEPT ![j] = 1]
  BY DEF AddEmailJob, Publish, SendEmailDirectly, Once, NothingUnheard, Unheard
<1>2. first \in Messages /\ first.job = j
  BY FirstMessage
<1>3. Unheard(j)
  BY <1>1 DEF NothingUnheard
<1> HIDE DEF first
<1>4. TypeOK'
  BY <1>1, <1>2 DEF TypeOK, Running
<1>5. BothEnds'
  BY <1>1 DEF BothEnds
<1>6. NothingUnheard'
  BY <1>1, <1>2 DEF NothingUnheard, Unheard, TypeOK
<1>7. Single'
  BY <1>1, <1>2, <1>3 DEF Single, Unheard
<1>8. Counted'
  BY <1>1, <1>2, <1>3, MessageJob DEF Counted, Unheard, TypeOK
<1>9. NoSilentLoss'
  BY <1>1, <1>2, <1>3 DEF NoSilentLoss, JobsOf, Unheard, TypeOK
<1>10. RetriedUntilExhausted'
  BY <1>1, <1>2, <1>3 DEF RetriedUntilExhausted, Pending, JobsOf, Unheard, TypeOK
<1>11. MailedOnce'
  BY <1>1 DEF MailedOnce, TypeOK
<1> QED
  BY <1>4, <1>5, <1>6, <1>7, <1>8, <1>9, <1>10, <1>11

LEMMA DeliverPreserves ==
  ASSUME IInv, NEW m \in Messages, Deliver(m)
  PROVE  IInv'
<1> USE DEF IInv, Deliver, historyVars
<1>1. TypeOK'
  BY DEF TypeOK, Running
<1>2. BothEnds' /\ Single'
  BY DEF BothEnds, Single
<1>3. NothingUnheard' /\ Counted'
  BY DEF NothingUnheard, Unheard, Counted
<1>4. NoSilentLoss' /\ RetriedUntilExhausted' /\ MailedOnce'
  BY DEF NoSilentLoss, RetriedUntilExhausted, MailedOnce, Pending, JobsOf
<1> QED
  BY <1>1, <1>2, <1>3, <1>4

\* The mail of a message in hand was never taken before, or its job has
\* been redelivered.
LEMMA MailAcceptedPreserves ==
  ASSUME IInv, NEW m \in Messages, MailAccepted(m)
  PROVE  IInv'
<1> USE DEF IInv, MailAccepted, brokerVars
<1>1. /\ mailed' \in [Jobs -> 0 .. 2]
      /\ mailed'[m.job] > 0
      /\ mailed[m.job] = 0 => mailed'[m.job] = 1
      /\ \A j \in Jobs : j # m.job => mailed'[j] = mailed[j]
      /\ \A j \in Jobs : mailed[j] > 0 => mailed'[j] > 0
  BY MessageJob DEF TypeOK, Once
<1>2. TypeOK'
  BY <1>1 DEF TypeOK, Running
<1>3. BothEnds' /\ Single'
  BY DEF BothEnds, Single
<1>4. NothingUnheard'
  BY <1>1 DEF NothingUnheard, Unheard
<1>5. Counted'
  <2>1. \A n \in sent' : mailed'[n.job] > 0
    BY <1>1, MessageJob DEF Counted, TypeOK
  <2>2. ASSUME NEW n \in queue \cup (sending \ {m}) \cup timers, mailed'[n.job] > 0
        PROVE  n.job \in excused
    <3>1. CASE n.job # m.job
      BY <1>1, <2>2, <3>1, MessageJob DEF Counted, TypeOK
    <3>2. CASE n.job = m.job /\ channel = "open"
      BY <2>2, <3>2 DEF BothEnds, Single
    <3>3. CASE n.job = m.job /\ channel # "open"
      BY <3>3 DEF BothEnds
    <3> QED
      BY <3>1, <3>2, <3>3
  <2> QED
    BY <2>1, <2>2 DEF Counted
<1>6. NoSilentLoss' /\ RetriedUntilExhausted'
  BY <1>1 DEF NoSilentLoss, RetriedUntilExhausted, Pending, JobsOf, TypeOK
<1>7. MailedOnce'
  BY <1>1, MessageJob DEF MailedOnce, Counted, TypeOK
<1> QED
  BY <1>2, <1>3, <1>4, <1>5, <1>6, <1>7

\* A failed attempt ends in the dead-letter queue, and its retry, if there is
\* one, takes its place; or the broker has the message back already.
LEMMA SendFailsPreserves ==
  ASSUME IInv, NEW m \in Messages, SendFails(m)
  PROVE  IInv'
<1> USE DEF IInv, SendFails, Reject
<1>1. /\ m.job \in Jobs
      /\ \A n \in timers' : n \in timers \/ (n = Retry(m) /\ Retries(m))
      /\ timers \subseteq timers'
      /\ Retries(m) => Retry(m) \in timers'
      /\ timers' \subseteq Messages
      /\ \A n \in timers' : n \in timers \/ n.job = m.job
  BY RetryOfMessage, MessageJob DEF TypeOK
<1>2. /\ excused \subseteq excused'
      /\ excused' \subseteq Jobs
      /\ m \in sent => m.job \in excused'
  BY MessageJob DEF TypeOK
<1>3. \/ /\ channel = "open"
         /\ unacked' = unacked \ {m} /\ dlq' = dlq \cup {m}
         /\ queue' = queue /\ node' = node
      \/ /\ channel # "open"
         /\ UNCHANGED <<queue, unacked, dlq>>
         /\ node' = node \/ (channel = "closed" /\ node' = "closing")
  BY DEF Nack, OffChannel
<1> HIDE DEF SendFails, Reject
<1>4. /\ sending' = sending \ {m} /\ sent' = sent \ {m}
      /\ m \in sending \cup sent
      /\ UNCHANGED <<broker, declared, channel, submitted, stored, mailed, abandoned>>
  BY DEF SendFails, Reject
<1>5. TypeOK'
  BY <1>1, <1>2, <1>3, <1>4 DEF TypeOK, Running
<1>6. BothEnds'
  BY <1>2, <1>3, <1>4 DEF BothEnds
<1>7. NothingUnheard'
  BY <1>1, <1>3, <1>4 DEF NothingUnheard, Unheard
<1>8. Single'
  <2>1. CASE channel # "open"
    BY <1>3, <1>4, <2>1 DEF Single
  <2>2. CASE channel = "open"
    <3>1. m \in unacked
      BY <1>4, <2>2 DEF BothEnds
    <3>2. /\ \A n \in timers : n.job # m.job
          /\ \A n \in queue \cup unacked' : n.job # m.job
      BY <1>3, <2>2, <3>1 DEF Single
    <3> QED
      BY <1>1, <1>3, <1>4, <2>2, <3>2 DEF Single
  <2> QED
    BY <2>1, <2>2
<1>9. Counted'
  <2>1. mailed[m.job] > 0 => m.job \in excused'
    BY <1>2, <1>4 DEF Counted
  <2> QED
    BY <1>1, <1>2, <1>3, <1>4, <2>1 DEF Counted
<1>10. NoSilentLoss'
  BY <1>3, <1>4 DEF NoSilentLoss, JobsOf
<1>11. RetriedUntilExhausted'
  <2> SUFFICES ASSUME NEW j \in stored \ abandoned, ~(mailed[j] > 0)
               PROVE  Pending(j)' \/ [job |-> j, retries |-> MaxRetries] \in dlq'
    BY <1>4 DEF RetriedUntilExhausted
  <2>1. CASE [job |-> j, retries |-> MaxRetries] \in dlq
    BY <1>3, <2>1
  <2>2. CASE \E n \in queue \cup unacked \cup timers : n.job = j /\ n # m
    BY <1>1, <1>3, <2>2 DEF Pending, JobsOf
  <2>3. CASE m.job = j /\ channel # "open" /\ m \in queue \cup unacked \cup timers
    BY <1>1, <1>3, <2>3 DEF Pending, JobsOf
  <2>4. CASE m.job = j /\ channel = "open" /\ Retries(m)
    BY <1>1, <2>4, RetryOfMessage DEF Pending, JobsOf
  <2>5. CASE m.job = j /\ channel = "open" /\ ~Retries(m)
    BY <1>3, <2>5, LastMessage
  <2> QED
    BY <2>1, <2>2, <2>3, <2>4, <2>5 DEF RetriedUntilExhausted, Pending, JobsOf
<1>12. MailedOnce'
  BY <1>2, <1>4 DEF MailedOnce
<1> QED
  BY <1>5, <1>6, <1>7, <1>8, <1>9, <1>10, <1>11, <1>12

\* An acknowledgement that throws is a failed send: its job is excused by now.
LEMMA AcknowledgePreserves ==
  ASSUME IInv, NEW m \in Messages, Acknowledge(m)
  PROVE  IInv'
<1>1. CASE channel = "closed"
  <2>1. m.job \in excused
    BY <1>1 DEF Acknowledge, IInv, BothEnds
  <2>2. SendFails(m)
    BY <1>1, <2>1 DEF Acknowledge, SendFails
  <2> QED
    BY <2>2, SendFailsPreserves
<1>2. CASE channel # "closed"
  <2> /\ m \in sent /\ sent' = sent \ {m} /\ unacked' = unacked \ {m}
      /\ UNCHANGED <<broker, declared, queue, dlq, node, channel, sending,
                     timers, historyVars>>
    BY <1>2 DEF Acknowledge
  <2> USE DEF IInv, historyVars
  <2>1. TypeOK'
    BY DEF TypeOK, Running
  <2>2. BothEnds' /\ Single'
    BY DEF BothEnds, Single
  <2>3. NothingUnheard' /\ Counted'
    BY DEF NothingUnheard, Unheard, Counted
  <2>4. NoSilentLoss' /\ RetriedUntilExhausted' /\ MailedOnce'
    BY DEF NoSilentLoss, RetriedUntilExhausted, MailedOnce, Pending, JobsOf, Counted
  <2> QED
    BY <2>1, <2>2, <2>3, <2>4
<1> QED
  BY <1>1, <1>2

LEMMA RetryDuePreserves ==
  ASSUME IInv, NEW m \in Messages, RetryDue(m)
  PROVE  IInv'
<1> USE DEF IInv, RetryDue, OffChannel
<1>1. TypeOK'
  BY MessageJob DEF TypeOK, Running
<1>2. BothEnds' /\ Single'
  BY DEF BothEnds, Single
<1>3. NothingUnheard' /\ Counted'
  BY DEF NothingUnheard, Unheard, Counted
<1>4. NoSilentLoss' /\ RetriedUntilExhausted' /\ MailedOnce'
  BY DEF NoSilentLoss, RetriedUntilExhausted, MailedOnce, Pending, JobsOf
<1> QED
  BY <1>1, <1>2, <1>3, <1>4

LEMMA ClearQueuePreserves ==
  ASSUME IInv, ClearQueue
  PROVE  IInv'
<1> USE DEF IInv, ClearQueue, processVars
<1>1. TypeOK'
  BY DEF TypeOK, Running
<1>2. BothEnds' /\ Single'
  BY DEF BothEnds, Single
<1>3. NothingUnheard' /\ Counted'
  BY DEF NothingUnheard, Unheard, Counted
<1>4. NoSilentLoss' /\ RetriedUntilExhausted' /\ MailedOnce'
  BY DEF NoSilentLoss, RetriedUntilExhausted, MailedOnce, Pending, JobsOf
<1> QED
  BY <1>1, <1>2, <1>3, <1>4

\* Whatever ends the channel, the broker takes back what was in hand.
LEMMA TakeBackPreserves ==
  ASSUME IInv, ConnectionLost \/ CloseRabbitMQ \/ Exit
  PROVE  IInv'
<1> USE DEF IInv
<1>1. /\ queue' = queue \cup unacked /\ unacked' = {}
      /\ excused' = excused \cup {n.job : n \in unacked}
      /\ channel' \in {"none", "cut", "closed"}
      /\ \/ UNCHANGED <<sending, sent, timers, abandoned, node>> /\ channel = "open"
         \/ /\ sending' = {} /\ sent' = {} /\ timers' = {}
            /\ abandoned' = abandoned \cup {n.job : n \in timers}
      /\ node' = "down" <=> channel' = "none"
      /\ channel' = "none" => sending' = {} /\ sent' = {} /\ timers' = {}
      /\ UNCHANGED <<declared, dlq, submitted, stored, mailed>>
  BY DEF ConnectionLost, CloseRabbitMQ, Exit, TakeBack, JobsOf, BothEnds
<1>2. TypeOK'
  BY <1>1, MessageJob DEF TypeOK, Running, ConnectionLost, CloseRabbitMQ, Exit
<1>3. BothEnds'
  BY <1>1 DEF BothEnds
<1>4. NothingUnheard' /\ Counted'
  BY <1>1 DEF NothingUnheard, Unheard, Counted
<1>5. Single'
  BY <1>1 DEF Single
<1>6. NoSilentLoss' /\ RetriedUntilExhausted' /\ MailedOnce'
  BY <1>1 DEF NoSilentLoss, RetriedUntilExhausted, MailedOnce, Pending, JobsOf
<1> QED
  BY <1>2, <1>3, <1>4, <1>5, <1>6

-----------------------------------------------------------------------------
LEMMA NextPreserves == IInv /\ [Next]_vars => IInv'
<1> SUFFICES ASSUME IInv, [Next]_vars PROVE IInv'
  OBVIOUS
<1>1. CASE UNCHANGED vars
  BY <1>1 DEF vars, brokerVars, processVars, historyVars, IInv, TypeOK, BothEnds,
              NothingUnheard, Unheard, Single, Counted, NoSilentLoss,
              RetriedUntilExhausted, MailedOnce, Running, Pending, JobsOf
<1>2. CASE StartWorker \/ StartAborted \/ Shutdown \/ NoticeClose \/ BrokerChanges
  BY <1>2, LifecyclePreserves
<1>3. CASE ConnectionLost \/ CloseRabbitMQ \/ Exit
  BY <1>3, TakeBackPreserves
<1>4. CASE ClearQueue
  BY <1>4, ClearQueuePreserves
<1>5. CASE \E j \in Jobs : AddEmailJob(j)
  BY <1>5, AddEmailJobPreserves
<1>6. ASSUME NEW m \in Messages, Deliver(m) \/ Process(m) \/ RetryDue(m)
      PROVE  IInv'
  BY <1>6, DeliverPreserves, MailAcceptedPreserves, SendFailsPreserves,
     AcknowledgePreserves, RetryDuePreserves DEF Process
<1> QED
  BY <1>1, <1>2, <1>3, <1>4, <1>5, <1>6 DEF Next

THEOREM Inductive == Spec => []IInv
<1>1. Init => IInv
  BY InitEstablishes
<1>2. IInv /\ [Next]_vars => IInv'
  BY NextPreserves
<1> QED
  BY <1>1, <1>2, PTL DEF Spec

\* The variables keep their types: no message beyond the last retry, and a
\* worker consumes only from queues that exist.
THEOREM TypeCorrect == Spec => []TypeOK
<1>1. IInv => TypeOK
  BY DEF IInv
<1> QED
  BY <1>1, Inductive, PTL

\* No job is tried twice at a time: processJob rejects a message before the
\* retry it scheduled can be published.
THEOREM OneAttemptHolds == Spec => []OneAttempt
<1>1. IInv => OneAttempt
  BY DEF IInv, Single, OneAttempt
<1> QED
  BY <1>1, Inductive, PTL

\* A job on the queue never disappears without a mail: the dead-letter queue
\* keeps what a crash takes from the timers.
THEOREM NoSilentLossHolds == Spec => []NoSilentLoss
<1>1. IInv => NoSilentLoss
  BY DEF IInv
<1> QED
  BY <1>1, Inductive, PTL

\* Only a lost process or a lost channel cuts the retries of a job short.
THEOREM RetriedUntilExhaustedHolds == Spec => []RetriedUntilExhausted
<1>1. IInv => RetriedUntilExhausted
  BY DEF IInv
<1> QED
  BY <1>1, Inductive, PTL

\* Without a redelivery or a lost SMTP reply a job is mailed at most once.
THEOREM MailedOnceHolds == Spec => []MailedOnce
<1>1. IInv => MailedOnce
  BY DEF IInv
<1> QED
  BY <1>1, Inductive, PTL
=============================================================================
