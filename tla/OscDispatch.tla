---------------------------- MODULE OscDispatch ----------------------------
(***************************************************************************)
(* How messages get to OBS: the receive thread posts each datagram to the  *)
(* UI thread as one task (plugin.cpp, osc-ui-task.cpp), client threads of  *)
(* the HTTP server post their lookups to the same queue and wait, and the  *)
(* UI thread runs the tasks in order, answering polls to the datagram's    *)
(* sender in one datagram (osc_reply_batch, osc-server.cpp). What a        *)
(* message does is in OscCommands, the way of a reply in OscServer.        *)
(***************************************************************************)
EXTENDS Integers, SequencesExt

CONSTANTS
    Clients,      \* endpoints
    Polls, Sets,  \* messages that are answered, messages that are not
    HttpThreads,
    Idle,         \* the UI thread runs none of our tasks
    MaxDatagrams, \* bound on the datagrams that arrive
    MaxMessages   \* bound on the messages of a datagram

ASSUME DispatchAssumption ==
    /\ Polls \cap Sets = {}
    /\ MaxDatagrams \in Nat /\ MaxMessages \in Nat \ {0}
    /\ Clients \cap HttpThreads = {}
    /\ Idle \notin [owner : Clients, datagram : Nat, messages : Seq(Polls \cup Sets)]

VARIABLES
    queue,        \* the UI thread's tasks
    task,         \* the closure that runs, with the messages it still has to run
    last_sender,  \* the endpoint of the latest datagram
    replies,      \* the datagrams of end_batch(): [to, datagram]
    arrived,      \* history: the datagrams, [from, messages]
    ran,          \* history: the messages that have run, [datagram, message]
    seen          \* history: after how many messages a lookup has looked at OBS

dispatch_vars == <<queue, task, last_sender, replies, arrived, ran, seen>>

DispatchInit ==
    /\ queue = <<>> /\ task = Idle /\ last_sender = Idle
    /\ replies = <<>> /\ arrived = <<>> /\ ran = <<>> /\ seen = {}

Post(from, n, messages) == <<[owner |-> from, datagram |-> n, messages |-> messages]>>

\* handle_datagram(): what does not parse or is an empty bundle leaves no message.
HandleDatagram(from, messages) ==
    /\ Len(arrived) < MaxDatagrams
    /\ arrived' = Append(arrived, [from |-> from, messages |-> messages])
    /\ last_sender' = from
    /\ queue' = queue \o Post(from, Len(arrived) + 1, messages)
    /\ UNCHANGED <<task, replies, ran, seen>>

\* osc_query_schema_lookup(): the thread waits until its task has run.
Lookup(thread) ==
    /\ \A k \in DOMAIN queue : queue[k].owner # thread
    /\ queue' = Append(queue, [owner |-> thread])
    /\ UNCHANGED <<task, last_sender, replies, arrived, ran, seen>>

\* On its own thread instead, whatever the UI thread does.
RunLookupAtOnce ==
    \E k \in DOMAIN queue :
        /\ queue[k].owner \in HttpThreads
        /\ queue' = RemoveAt(queue, k) /\ seen' = seen \cup {Len(ran)}
        /\ UNCHANGED <<task, last_sender, replies, arrived, ran>>

RunLookup ==
    /\ task = Idle /\ queue # <<>> /\ Head(queue).owner \in HttpThreads
    /\ queue' = Tail(queue) /\ seen' = seen \cup {Len(ran)}
    /\ UNCHANGED <<task, last_sender, replies, arrived, ran>>

TakeTask ==
    /\ task = Idle /\ queue # <<>> /\ Head(queue).owner \in Clients
    /\ queue' = Tail(queue) /\ task' = Head(queue)
    /\ UNCHANGED <<last_sender, replies, arrived, ran, seen>>

ReplyToLast(t) == last_sender

ReplyTo(t) == t.owner

\* osc_dispatch_command() of one message; a poll may match nothing.
RunMessage(answered) ==
    /\ task # Idle /\ task.messages # <<>>
    /\ answered => Head(task.messages) \in Polls
    /\ replies' = IF answered THEN Append(replies, [to |-> ReplyTo(task), datagram |-> task.datagram])
                             ELSE replies
    /\ ran' = Append(ran, [datagram |-> task.datagram, message |-> Head(task.messages)])
    /\ task' = [task EXCEPT !.messages = Tail(@)]
    /\ UNCHANGED <<queue, last_sender, arrived, seen>>

EndTask ==
    /\ task # Idle /\ task.messages = <<>>
    /\ task' = Idle
    /\ UNCHANGED <<queue, last_sender, replies, arrived, ran, seen>>

DispatchNext ==
    \/ \E from \in Clients, messages \in SeqOf(Polls \cup Sets, MaxMessages) :
          HandleDatagram(from, messages)
    \/ \E thread \in HttpThreads : Lookup(thread)
    \/ RunLookup \/ TakeTask \/ EndTask
    \/ \E answered \in BOOLEAN : RunMessage(answered)

DispatchSpec == DispatchInit /\ [][DispatchNext]_dispatch_vars

-----------------------------------------------------------------------------
\* The messages of the first n datagrams.
Arrived(n) ==
    FlattenSeq([k \in 1..n |->
        [j \in DOMAIN arrived[k].messages |-> [datagram |-> k, message |-> arrived[k].messages[j]]]])

(***************************************************************************)
(* Commands take effect in the order in which they arrived, each once, and *)
(* a datagram as a unit: "bundles stay ordered together" (plugin.cpp:21).  *)
(* No lookup of the HTTP server sees OBS between two messages of one.      *)
(***************************************************************************)
DatagramsInOrder ==
    /\ IsPrefix(ran, Arrived(Len(arrived)))
    /\ seen \subseteq {Len(Arrived(n)) : n \in 0..Len(arrived)}

(***************************************************************************)
(* An answer goes to the client that asked, whoever has sent something     *)
(* between the poll's arrival and its turn on the UI thread.               *)
(***************************************************************************)
AnswersToAsker == \A k \in DOMAIN replies : replies[k].to = arrived[replies[k].datagram].from

=============================================================================
