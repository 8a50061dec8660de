----------------------- MODULE ADriverPgNotifications -----------------------
(***************************************************************************)
(* The notifications of the PostgreSQL driver (src/src/adriverpg.cpp): the *)
(* table of subscriptions, the coroutines that send LISTEN and UNLISTEN    *)
(* through the queue of queries and come back to the table with the        *)
(* answer, the receivers whose end drops an entry, and the handler that    *)
(* calls the application for each notification.                            *)
(*                                                                         *)
(* Everything is found by the name of its channel.  The model knows which  *)
(* subscription it was for, and the subscriptions that the application has.*)
(*                                                                         *)
(* It is another view of the driver of ADriverPg: what every specification *)
(* has is called Listen... here, and the proofs extend both.               *)
(***************************************************************************)
EXTENDS Integers, SequencesExt

CONSTANTS Channels, Subscriptions, NoSubscription,
          Receivers, NoReceiver,
          MaxQueue,        \* bound on the statements under way
          MaxOnWay,        \* bound on the messages of the server on their way
          OldReceivers,    \* another receiver of a channel lives on when it is
                           \* subscribed to again
          ListensOverlap,  \* a channel is subscribed to again before its LISTEN
                           \* is answered
          EndsInCallback   \* the callback ends the subscription it is called for

ASSUME ListenAssumption ==
  /\ NoSubscription \notin Subscriptions /\ NoReceiver \notin Receivers
  /\ {"ok", "failed"} \cap Channels = {}
  /\ MaxQueue \in Nat \ {0} /\ MaxOnWay \in Nat \ {0}
  /\ {OldReceivers, ListensOverlap, EndsInCallback} \subseteq BOOLEAN

VARIABLES
  connected,   \* isConnected()
  table,       \* m_subscribedNotifications: channel -> subscription
  receiver,    \* the receiver of each subscription
  watched,     \* connections made to destroyed(): receiver and channel
  alive,       \* receivers that live
  listens,     \* the LISTENs and UNLISTENs of m_queuedQueries
  executed,    \* the server has executed the first of them
  listening,   \* channels the server listens to for the connection
  socket,      \* what the server has sent: an outcome or a channel
  notifies,    \* notifications that the handler has still to deliver
  calling,     \* the subscription whose callback runs
  subscribed   \* channel -> the subscription that the application has

link == <<connected, listening, executed, socket>>
delivery == <<notifies, calling>>
listenVars == <<link, delivery, table, receiver, watched, alive, listens, subscribed>>

None == [c \in Channels |-> NoSubscription]

ListenInit ==
  /\ connected = TRUE /\ listening = {} /\ executed = FALSE /\ socket = <<>>
  /\ table = None /\ subscribed = None
  /\ receiver = [s \in Subscriptions |-> NoReceiver]
  /\ watched = {} /\ alive = Receivers
  /\ listens = <<>> /\ notifies = <<>> /\ calling = NoSubscription

-----------------------------------------------------------------------------
\* The application runs from the event loop or in a callback.
ApplicationRuns == notifies = <<>> \/ calling # NoSubscription

\* Nothing refers to a subscription any more.
Unused(s) ==
  /\ \A c \in Channels : s # table[c] /\ s # subscribed[c]
  /\ \A i \in DOMAIN listens : listens[i].of # s
  /\ s # calling

Statement(kind, c, s) == [kind |-> kind, channel |-> c, of |-> s]

\* A statement gets no further than exec(): there is no connection, or it is tried at
\* once, with nothing queued before it, and cannot be sent.
MayNotSend == ~connected \/ listens = <<>>

\* subscribeToNotification() and listenCoro() up to its co_await, which does not wait
\* when the statement was not sent: the entry is taken back.  The receiver is watched
\* either way.
Subscribe(c, s, r) ==
  /\ ApplicationRuns /\ Unused(s) /\ r \in alive \cup {NoReceiver}
  /\ table[c] = NoSubscription
  /\ OldReceivers \/ \A w \in watched : w.channel = c => w.receiver = r
  /\ \/ ListensOverlap
     \/ \A i \in DOMAIN listens : listens[i].kind = "LISTEN" => listens[i].channel # c
  /\ receiver' = [receiver EXCEPT ![s] = r]
  /\ watched' = IF r = NoReceiver THEN watched
                ELSE watched \cup {[receiver |-> r, channel |-> c]}
  /\ \/ /\ connected /\ Len(listens) < MaxQueue
        /\ table' = [table EXCEPT ![c] = s] /\ subscribed' = [subscribed EXCEPT ![c] = s]
        /\ listens' = Append(listens, Statement("LISTEN", c, s))
     \/ MayNotSend /\ UNCHANGED <<table, subscribed, listens>>
  /\ UNCHANGED <<link, delivery, alive>>

MayEnd(c) == EndsInCallback \/ calling = NoSubscription \/ table[c] # calling

\* unsubscribeFromNotification() and unlistenCoro() up to its co_await: the entry goes
\* whether or not the server can be told.
Unsubscribe(c) ==
  /\ ApplicationRuns /\ table[c] # NoSubscription /\ MayEnd(c)
  /\ table' = [table EXCEPT ![c] = NoSubscription]
  /\ subscribed' = [subscribed EXCEPT ![c] = NoSubscription]
  /\ \/ /\ connected /\ Len(listens) < MaxQueue
        /\ listens' = Append(listens, Statement("UNLISTEN", c, table[c]))
     \/ MayNotSend /\ UNCHANGED listens
  /\ UNCHANGED <<link, delivery, receiver, watched, alive>>

\* The handler of destroyed(): the channel loses its entry, and the server is not told.
Forget(r) ==
  table' = [c \in Channels |->
    IF [receiver |-> r, channel |-> c] \in watched THEN NoSubscription ELSE table[c]]

DestroyReceiver(r) ==
  /\ ApplicationRuns /\ r \in alive /\ alive' = alive \ {r}
  /\ \A c \in Channels : [receiver |-> r, channel |-> c] \in watched => MayEnd(c)
  /\ Forget(r) /\ watched' = {w \in watched : w.receiver # r}
  /\ subscribed' = [c \in Channels |->
       IF subscribed[c] # NoSubscription /\ receiver[subscribed[c]] = r
         THEN NoSubscription ELSE subscribed[c]]
  /\ UNCHANGED <<link, delivery, receiver, listens>>

CreateReceiver(r) ==
  /\ ApplicationRuns /\ r \notin alive /\ alive' = alive \cup {r}
  /\ UNCHANGED <<link, delivery, table, receiver, watched, listens, subscribed>>

-----------------------------------------------------------------------------
\* The server executes one statement at a time, and notifies of the channels that the
\* connection listens to.
ServerExecutes ==
  /\ connected /\ listens # <<>> /\ ~executed /\ executed' = TRUE
  /\ \/ /\ socket' = Append(socket, "ok")
        /\ LET front == Head(listens) IN
           listening' = IF front.kind = "LISTEN" THEN listening \cup {front.channel}
                                                 ELSE listening \ {front.channel}
     \/ socket' = Append(socket, "failed") /\ UNCHANGED listening
  /\ UNCHANGED <<connected, delivery, table, receiver, watched, alive, listens, subscribed>>

ServerNotifies(c) ==
  /\ connected /\ c \in listening /\ Len(socket) < MaxOnWay
  /\ socket' = Append(socket, c)
  /\ UNCHANGED <<connected, listening, executed, delivery, table, receiver, watched, alive,
                 listens, subscribed>>

\* Mutated form: the answer to UNLISTEN removes the entry.
AnsweredBoth(statement, outcome) ==
  /\ table' = [table EXCEPT ![statement.channel] = NoSubscription]
  /\ UNCHANGED subscribed

\* Mutated form: a LISTEN that fails leaves its entry.
AnsweredKept(statement, outcome) == UNCHANGED <<table, subscribed>>

\* The rest of listenCoro() and unlistenCoro(): a LISTEN that failed removes the entry
\* of its channel.
Answered(statement, outcome) ==
  IF statement.kind = "LISTEN" /\ outcome = "failed"
    THEN /\ table' = [table EXCEPT ![statement.channel] = NoSubscription]
         /\ subscribed' = [subscribed EXCEPT
              ![statement.channel] = IF @ = statement.of THEN NoSubscription ELSE @]
    ELSE UNCHANGED <<table, subscribed>>

\* The handler reads what has come, answers the first query, and then goes through the
\* notifications, those that came before the answer included.
Outcomes(messages) == {i \in DOMAIN messages : messages[i] \notin Channels}

ReadNotifications(come) ==
  /\ Outcomes(come) = {}
  /\ notifies' = come
  /\ UNCHANGED <<table, subscribed, listens, executed>>

ReadAnswer(come, i) ==
  /\ notifies' = RemoveAt(come, i)
  /\ Answered(Head(listens), come[i])
  /\ listens' = Tail(listens) /\ executed' = FALSE

Read(n) ==
  /\ connected /\ notifies = <<>>
  /\ LET come == SubSeq(socket, 1, n) IN
     ReadNotifications(come) \/ \E i \in Outcomes(come) : ReadAnswer(come, i)
  /\ socket' = SubSeq(socket, n + 1, Len(socket))
  /\ UNCHANGED <<connected, listening, calling, receiver, watched, alive>>

\* The callback of the channel runs; a notification without an entry is dropped.
Notify ==
  /\ notifies # <<>> /\ calling = NoSubscription
  /\ IF table[Head(notifies)] = NoSubscription
       THEN notifies' = Tail(notifies) /\ UNCHANGED calling
       ELSE calling' = table[Head(notifies)] /\ UNCHANGED notifies
  /\ UNCHANGED <<link, table, receiver, watched, alive, listens, subscribed>>

Return ==
  /\ calling # NoSubscription /\ calling' = NoSubscription
  /\ notifies' = Tail(notifies)
  /\ UNCHANGED <<link, table, receiver, watched, alive, listens, subscribed>>

\* finishConnection(): the table is emptied and every statement fails.
ConnectionLost ==
  /\ connected /\ notifies = <<>> /\ connected' = FALSE
  /\ table' = None /\ subscribed' = None
  /\ listens' = <<>> /\ executed' = FALSE /\ listening' = {} /\ socket' = <<>>
  /\ UNCHANGED <<delivery, receiver, watched, alive>>

Reopen ==
  /\ ~connected /\ connected' = TRUE
  /\ UNCHANGED <<listening, executed, socket, delivery, table, receiver, watched, alive,
                 listens, subscribed>>

ListenNext ==
  \/ \E c \in Channels, s \in Subscriptions, r \in Receivers \cup {NoReceiver} :
       Subscribe(c, s, r)
  \/ \E c \in Channels : Unsubscribe(c) \/ ServerNotifies(c)
  \/ \E r \in Receivers : DestroyReceiver(r) \/ CreateReceiver(r)
  \/ ServerExecutes
  \/ \E n \in 1 .. Len(socket) : Read(n)
  \/ Notify \/ Return
  \/ ConnectionLost \/ Reopen

ListenSpec == ListenInit /\ [][ListenNext]_listenVars

-----------------------------------------------------------------------------
Statements == [kind : {"LISTEN", "UNLISTEN"}, channel : Channels, of : Subscriptions]

ListenTypeOK ==
  /\ table \in [Channels -> Subscriptions \cup {NoSubscription}]
  /\ subscribed \in [Channels -> Subscriptions \cup {NoSubscription}]
  /\ receiver \in [Subscriptions -> Receivers \cup {NoReceiver}]
  /\ watched \subseteq [receiver : Receivers, channel : Channels]
  /\ alive \subseteq Receivers /\ listening \subseteq Channels
  /\ listens \in Seq(Statements) /\ socket \in Seq(Channels \cup {"ok", "failed"})
  /\ {connected, executed} \subseteq BOOLEAN
  /\ notifies \in Seq(Channels) /\ calling \in Subscriptions \cup {NoSubscription}

\* However LISTENs and UNLISTENs of a channel follow each other and fail, and receivers
\* come and go meanwhile, the server listens to every channel in the table once nothing
\* of it is under way: no entry waits for notifications that never come.
SubscriptionListens ==
  \A c \in Channels :
    /\ connected /\ table[c] # NoSubscription
    /\ \A i \in DOMAIN listens : listens[i].channel # c
    => c \in listening

\* A subscription is in the table until its own application ends it, its own receiver
\* is destroyed, its own LISTEN fails or the connection is lost, and not longer; it
\* is there as long as its callback runs.
SubscriptionKept ==
  /\ ListenTypeOK
  /\ table = subscribed
  /\ calling # NoSubscription => \E c \in Channels : table[c] = calling
=============================================================================
