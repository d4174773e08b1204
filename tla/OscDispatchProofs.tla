------------------------- MODULE OscDispatchProofs -------------------------
(***************************************************************************)
(* What TLAPS proves of the way from a datagram to the objects it is for.  *)
(* To the UI thread, for any clients and threads and however many          *)
(* datagrams of whatever size arrive: answers go to whoever asked, and     *)
(* messages run in the order of their datagrams. To the objects that a     *)
(* pattern names: what osc_glob_match() accepts it accepts rightly, and    *)
(* what it rejects too unless a star can meet a star.                      *)
(* OscMessageProofs has the lemmas about numbers and sequences.            *)
(***************************************************************************)
EXTENDS OscDispatch, OscGlob, OscMessageProofs

Messages == Polls \cup Sets
Commands == [owner : Clients, datagram : Nat, messages : Seq(Messages)]
Lookups == [owner : HttpThreads]

\* A task, or a reply to it, names a datagram and the client it came from.
From(client, n) == n \in DOMAIN arrived /\ arrived[n].from = client

DispatchTypes ==
    /\ arrived \in Seq([from : Clients, messages : Seq(Messages)])
    /\ queue \in Seq(Commands \cup Lookups)
    /\ task # Idle => task \in Commands
    /\ replies \in Seq([to : Clients, datagram : Nat])
    /\ ran \in Seq([datagram : Nat, message : Messages])

\* Two endpoints of one thread's record cannot be confused with a command.
LEMMA CommandOrLookup ==
  ASSUME NEW t \in Commands \cup Lookups
  PROVE  t.owner \in Clients <=> t \in Commands
BY DispatchAssumption DEF Commands, Lookups

Origins ==
    /\ \A k \in DOMAIN queue :
          queue[k] \in Commands => From(queue[k].owner, queue[k].datagram)
    /\ task # Idle => From(task.owner, task.datagram)
    /\ \A k \in DOMAIN replies : From(replies[k].to, replies[k].datagram)

(***************************************************************************)
(* Messages run in the order in which their datagrams arrived, those of a  *)
(* datagram without any other's between them.                              *)
(***************************************************************************)
ArrivalOrder ==
    \A i, j \in DOMAIN ran : i < j => ran[i].datagram <= ran[j].datagram

\* What has run is not behind what runs, and that is before what waits.
Line ==
    /\ \A i, j \in DOMAIN queue :
          i < j /\ queue[i] \in Commands /\ queue[j] \in Commands
              => queue[i].datagram < queue[j].datagram
    /\ \A k \in DOMAIN queue : queue[k] \in Commands =>
          /\ queue[k].datagram <= Len(arrived)
          /\ task # Idle => task.datagram < queue[k].datagram
          /\ \A i \in DOMAIN ran : ran[i].datagram < queue[k].datagram
    /\ task # Idle => task.datagram <= Len(arrived)
    /\ \A i \in DOMAIN ran :
          /\ ran[i].datagram <= Len(arrived)
          /\ task # Idle => ran[i].datagram <= task.datagram
    /\ ArrivalOrder

LEMMA Numbers ==
  ASSUME DispatchTypes
  PROVE  /\ task # Idle => task.datagram \in Nat
         /\ \A i \in DOMAIN ran : ran[i].datagram \in Nat
         /\ \A k \in DOMAIN queue : queue[k] \in Commands => queue[k].datagram \in Nat
<1>1. \A t \in Commands : t.datagram \in Nat
  BY DEF Commands
<1>2. ASSUME NEW i \in DOMAIN ran
      PROVE  ran[i].datagram \in Nat
  <2> DEFINE Entries == [datagram : Nat, message : Messages]
  <2>1. ran \in Seq(Entries)
    BY DEF DispatchTypes
  <2>2. \A e \in Entries : e.datagram \in Nat
    OBVIOUS
  <2> HIDE DEF Entries
  <2>3. ran[i] \in Entries
    BY <2>1
  <2> QED
    BY <2>2, <2>3
<1> QED
  BY <1>1, <1>2 DEF DispatchTypes

LEMMA TypesInit == DispatchInit => DispatchTypes
BY DEF DispatchInit, DispatchTypes

LEMMA TypesStep ==
  ASSUME DispatchTypes, [DispatchNext]_dispatch_vars
  PROVE  DispatchTypes'
<1> USE DEF DispatchTypes
<1>1. ASSUME NEW from \in Clients, NEW messages \in SeqOf(Polls \cup Sets, MaxMessages),
             HandleDatagram(from, messages)
      PROVE  DispatchTypes'
  <2>1. messages \in Seq(Messages)
    <3>1. PICK m \in 0..MaxMessages : messages \in [1..m -> Messages]
      BY DEF SeqOf, Messages
    <3>2. m \in Nat
      BY DispatchAssumption
    <3> QED
      BY <3>1, <3>2
  <2>2. /\ [from |-> from, messages |-> messages] \in [from : Clients, messages : Seq(Messages)]
        /\ Len(arrived) + 1 \in Nat
    BY <2>1
  <2>3. [owner |-> from, datagram |-> Len(arrived) + 1, messages |-> messages]
            \in Commands \cup Lookups
    BY <2>1, <2>2 DEF Commands
  <2>4. Post(from, Len(arrived) + 1, messages) \in Seq(Commands \cup Lookups)
    BY <2>3 DEF Post
  <2> HIDE DEF DispatchTypes
  <2>5. arrived' \in Seq([from : Clients, messages : Seq(Messages)])
    BY <1>1, <2>2 DEF DispatchTypes, HandleDatagram
  <2>6. queue' \in Seq(Commands \cup Lookups)
    BY <1>1, <2>4 DEF DispatchTypes, HandleDatagram
  <2> QED
    BY <1>1, <2>5, <2>6 DEF DispatchTypes, HandleDatagram
<1>2. ASSUME NEW thread \in HttpThreads, Lookup(thread)
      PROVE  DispatchTypes'
  <2>1. [owner |-> thread] \in Commands \cup Lookups
    BY DEF Lookups
  <2> QED
    BY <1>2, <2>1 DEF Lookup
<1>3. ASSUME RunLookup
      PROVE  DispatchTypes'
  BY <1>3 DEF RunLookup
<1>4. ASSUME TakeTask
      PROVE  DispatchTypes'
  <2>1. Head(queue) \in Commands
    BY <1>4, CommandOrLookup DEF TakeTask
  <2> QED
    BY <1>4, <2>1 DEF TakeTask
<1>5. ASSUME EndTask
      PROVE  DispatchTypes'
  BY <1>5 DEF EndTask
<1>6. ASSUME NEW answered \in BOOLEAN, RunMessage(answered)
      PROVE  DispatchTypes'
  <2>1. /\ task \in Commands /\ task.messages # <<>>
        /\ task.owner \in Clients /\ task.datagram \in Nat /\ task.messages \in Seq(Messages)
    BY <1>6 DEF RunMessage, Commands
  <2>2. Head(task.messages) \in Messages /\ Tail(task.messages) \in Seq(Messages)
    BY <2>1
  <2>3. task' \in Commands
    BY <1>6, <2>1, <2>2 DEF RunMessage, Commands
  <2>4. [to |-> task.owner, datagram |-> task.datagram] \in [to : Clients, datagram : Nat]
    BY <2>1
  <2>5. replies' \in Seq([to : Clients, datagram : Nat])
    <3>1. CASE replies' = replies
      BY <3>1
    <3>2. CASE replies' = Append(replies, [to |-> task.owner, datagram |-> task.datagram])
      BY <3>2, <2>4
    <3> QED
      BY <1>6, <3>1, <3>2 DEF RunMessage, ReplyTo
  <2>6. ran' \in Seq([datagram : Nat, message : Messages])
    BY <1>6, <2>1, <2>2 DEF RunMessage
  <2> QED
    BY <1>6, <2>3, <2>5, <2>6 DEF RunMessage
<1>7. ASSUME UNCHANGED dispatch_vars
      PROVE  DispatchTypes'
  BY <1>7 DEF dispatch_vars
<1> QED
  BY <1>1, <1>2, <1>3, <1>4, <1>5, <1>6, <1>7 DEF DispatchNext

LEMMA OriginsStep ==
  ASSUME DispatchTypes, DispatchTypes', Origins, [DispatchNext]_dispatch_vars
  PROVE  Origins'
<1> USE DEF Origins, From
<1>1. ASSUME NEW from \in Clients, NEW messages \in SeqOf(Polls \cup Sets, MaxMessages),
             HandleDatagram(from, messages)
      PROVE  Origins'
  <2> DEFINE new == [owner |-> from, datagram |-> Len(arrived) + 1, messages |-> messages]
  <2>1. /\ queue' = queue \o <<new>>
        /\ arrived' = Append(arrived, [from |-> from, messages |-> messages])
        /\ UNCHANGED <<task, replies>>
    BY <1>1 DEF HandleDatagram, Post
  <2>2. /\ \A n \in DOMAIN arrived : n \in DOMAIN arrived' /\ arrived'[n] = arrived[n]
        /\ Len(arrived) + 1 \in DOMAIN arrived' /\ arrived'[Len(arrived) + 1].from = from
    BY <2>1 DEF DispatchTypes
  <2>3. ASSUME NEW k \in DOMAIN queue'
        PROVE  \/ k \in DOMAIN queue /\ queue'[k] = queue[k]
               \/ queue'[k] = new
    BY <2>1 DEF DispatchTypes
  <2>4. new.owner = from /\ new.datagram = Len(arrived) + 1
    OBVIOUS
  <2> HIDE DEF new
  <2>5. ASSUME NEW k \in DOMAIN queue', queue'[k] \in Commands
        PROVE  From(queue[k].owner, queue[k].datagram)'
    BY <2>2, <2>3, <2>4, <2>5
  <2> QED
    BY <2>1, <2>2, <2>5
<1>2. ASSUME NEW thread \in HttpThreads, Lookup(thread)
      PROVE  Origins'
  <2>1. [owner |-> thread] \notin Commands
    BY DispatchAssumption DEF Commands
  <2> QED
    BY <1>2, <2>1 DEF Lookup, DispatchTypes
<1>3. ASSUME RunLookup
      PROVE  Origins'
  BY <1>3 DEF RunLookup, DispatchTypes
<1>4. ASSUME TakeTask
      PROVE  Origins'
  <2>1. Head(queue) = queue[1] /\ 1 \in DOMAIN queue /\ queue[1] \in Commands
    BY <1>4, CommandOrLookup DEF TakeTask, DispatchTypes
  <2> QED
    BY <1>4, <2>1 DEF TakeTask, DispatchTypes
<1>5. ASSUME EndTask
      PROVE  Origins'
  BY <1>5 DEF EndTask
<1>6. ASSUME NEW answered \in BOOLEAN, RunMessage(answered)
      PROVE  Origins'
  <2>1. /\ task # Idle /\ UNCHANGED <<queue, arrived>>
        /\ task' = [task EXCEPT !.messages = Tail(@)]
    BY <1>6 DEF RunMessage
  <2>2. task'.owner = task.owner /\ task'.datagram = task.datagram
    BY <2>1 DEF DispatchTypes, Commands
  <2>3. \A k \in DOMAIN replies' : From(replies[k].to, replies[k].datagram)'
    <3>1. CASE replies' = replies
      BY <2>1, <3>1
    <3>2. CASE replies' = Append(replies, [to |-> task.owner, datagram |-> task.datagram])
      <4>1. \A k \in DOMAIN replies' :
              \/ k \in DOMAIN replies /\ replies'[k] = replies[k]
              \/ replies'[k].to = task.owner /\ replies'[k].datagram = task.datagram
        BY <3>2 DEF DispatchTypes
      <4> QED
        BY <2>1, <4>1
    <3> QED
      BY <1>6, <3>1, <3>2 DEF RunMessage, ReplyTo
  <2> QED
    BY <2>1, <2>2, <2>3
<1>7. ASSUME UNCHANGED dispatch_vars
      PROVE  Origins'
  BY <1>7 DEF dispatch_vars
<1> QED
  BY <1>1, <1>2, <1>3, <1>4, <1>5, <1>6, <1>7 DEF DispatchNext

LEMMA LineStep ==
  ASSUME DispatchTypes, DispatchTypes', Line, [DispatchNext]_dispatch_vars
  PROVE  Line'
<1> USE DEF Line, ArrivalOrder
<1>1. ASSUME NEW from \in Clients, NEW messages \in SeqOf(Polls \cup Sets, MaxMessages),
             HandleDatagram(from, messages)
      PROVE  Line'
  <2> DEFINE new == [owner |-> from, datagram |-> Len(arrived) + 1, messages |-> messages]
  <2>1. /\ queue' = queue \o <<new>>
        /\ arrived' = Append(arrived, [from |-> from, messages |-> messages])
        /\ UNCHANGED <<task, ran>>
    BY <1>1 DEF HandleDatagram, Post
  <2>2. Len(arrived') = Len(arrived) + 1 /\ Len(arrived) \in Nat
    BY <2>1 DEF DispatchTypes
  <2>3. /\ DOMAIN queue' = 1..Len(queue) + 1 /\ DOMAIN queue = 1..Len(queue)
        /\ Len(queue) \in Nat
        /\ \A k \in DOMAIN queue : queue'[k] = queue[k]
        /\ queue'[Len(queue) + 1] = new
    BY <2>1 DEF DispatchTypes
  <2>4. new.datagram = Len(arrived) + 1
    OBVIOUS
  <2> HIDE DEF new
  <2>5. /\ task # Idle => task.datagram \in Nat
        /\ \A i \in DOMAIN ran : ran[i].datagram \in Nat
        /\ \A k \in DOMAIN queue : queue[k] \in Commands => queue[k].datagram \in Nat
    BY Numbers
  <2>6. ASSUME NEW i \in DOMAIN queue', NEW j \in DOMAIN queue', i < j,
               queue'[i] \in Commands, queue'[j] \in Commands
        PROVE  queue'[i].datagram < queue'[j].datagram
    <3>1. i \in DOMAIN queue
      BY <2>3, <2>6
    <3>2. CASE j \in DOMAIN queue
      BY <2>3, <2>6, <3>1, <3>2
    <3>3. CASE j = Len(queue) + 1
      BY <2>2, <2>3, <2>4, <2>5, <2>6, <3>1, <3>3
    <3> QED
      BY <2>3, <3>2, <3>3
  <2>7. ASSUME NEW k \in DOMAIN queue', queue'[k] \in Commands
        PROVE  /\ queue'[k].datagram <= Len(arrived')
               /\ task' # Idle => task'.datagram < queue'[k].datagram
               /\ \A i \in DOMAIN ran' : ran'[i].datagram < queue'[k].datagram
    <3>1. CASE k \in DOMAIN queue
      BY <2>1, <2>2, <2>3, <2>5, <2>7, <3>1
    <3>2. CASE k = Len(queue) + 1
      BY <2>1, <2>2, <2>3, <2>4, <2>5, <3>2
    <3> QED
      BY <2>3, <3>1, <3>2
  <2> QED
    BY <2>1, <2>2, <2>5, <2>6, <2>7
<1>2. ASSUME NEW thread \in HttpThreads, Lookup(thread)
      PROVE  Line'
  <2>1. [owner |-> thread] \notin Commands
    BY DispatchAssumption DEF Commands
  <2>2. /\ DOMAIN queue' = 1..Len(queue) + 1 /\ DOMAIN queue = 1..Len(queue)
        /\ Len(queue) \in Nat
        /\ \A k \in DOMAIN queue : queue'[k] = queue[k]
        /\ queue'[Len(queue) + 1] = [owner |-> thread]
        /\ UNCHANGED <<task, arrived, ran>>
    BY <1>2 DEF Lookup, DispatchTypes
  <2>3. \A k \in DOMAIN queue' : queue'[k] \in Commands => k \in DOMAIN queue
    BY <2>1, <2>2
  <2> QED
    BY <2>2, <2>3
<1>3. ASSUME NEW rest, queue # <<>>, rest = Tail(queue)
      PROVE  /\ DOMAIN rest = 1..Len(queue) - 1 /\ DOMAIN queue = 1..Len(queue)
             /\ Len(queue) \in Nat
             /\ \A k \in DOMAIN rest : k + 1 \in DOMAIN queue /\ rest[k] = queue[k + 1]
             /\ Head(queue) = queue[1] /\ 1 \in DOMAIN queue
  BY <1>3 DEF DispatchTypes
<1>4. ASSUME RunLookup
      PROVE  Line'
  <2>1. /\ \A k \in DOMAIN queue' : k \in Nat /\ k + 1 \in DOMAIN queue /\ queue'[k] = queue[k + 1]
        /\ UNCHANGED <<task, arrived, ran>>
    BY <1>3, <1>4 DEF RunLookup
  <2> QED
    BY <2>1
<1>5. ASSUME TakeTask
      PROVE  Line'
  <2>1. /\ \A k \in DOMAIN queue' : k \in Nat /\ k + 1 \in DOMAIN queue
                                   /\ 1 < k + 1 /\ queue'[k] = queue[k + 1]
        /\ task' = queue[1] /\ 1 \in DOMAIN queue
        /\ UNCHANGED <<arrived, ran>>
    BY <1>3, <1>5 DEF TakeTask
  <2>2. queue[1] \in Commands /\ queue[1].datagram \in Nat
    BY <1>3, <1>5, CommandOrLookup DEF TakeTask, DispatchTypes, Commands
  <2>3. \A i \in DOMAIN ran : ran[i].datagram \in Nat
    BY Numbers
  <2> QED
    BY <2>1, <2>2, <2>3
<1>6. ASSUME EndTask
      PROVE  Line'
  BY <1>6 DEF EndTask
<1>7. ASSUME NEW answered \in BOOLEAN, RunMessage(answered)
      PROVE  Line'
  <2> DEFINE new == [datagram |-> task.datagram, message |-> Head(task.messages)]
  <2>1. /\ task # Idle /\ UNCHANGED <<queue, arrived>>
        /\ task' = [task EXCEPT !.messages = Tail(@)] /\ ran' = Append(ran, new)
    BY <1>7 DEF RunMessage
  <2>2. task'.datagram = task.datagram /\ task.datagram \in Nat
    BY <2>1 DEF DispatchTypes, Commands
  <2>3. new.datagram = task.datagram
    OBVIOUS
  <2> HIDE DEF new
  <2>4. /\ DOMAIN ran' = 1..Len(ran) + 1 /\ DOMAIN ran = 1..Len(ran) /\ Len(ran) \in Nat
        /\ \A i \in DOMAIN ran : ran'[i] = ran[i]
        /\ ran'[Len(ran) + 1] = new
    BY <2>1 DEF DispatchTypes
  <2>5. \A i \in DOMAIN ran' :
          \/ i \in DOMAIN ran /\ ran'[i] = ran[i]
          \/ i = Len(ran) + 1 /\ ran'[i] = new
    BY <2>4
  <2>6. \A i \in DOMAIN ran' : ran'[i].datagram <= task.datagram
    BY <2>1, <2>2, <2>3, <2>5
  <2>7. ArrivalOrder'
    BY <2>1, <2>2, <2>3, <2>4, <2>5
  <2>8. \A k \in DOMAIN queue : queue[k] \in Commands =>
          \A i \in DOMAIN ran' : ran'[i].datagram < queue[k].datagram
    BY <2>1, <2>3, <2>5
  <2>9. \A i \in DOMAIN ran' : ran'[i].datagram <= Len(arrived)
    BY <2>1, <2>3, <2>5
  <2> QED
    BY <2>1, <2>2, <2>6, <2>7, <2>8, <2>9
<1>8. ASSUME UNCHANGED dispatch_vars
      PROVE  Line'
  BY <1>8 DEF dispatch_vars
<1> QED
  BY <1>1, <1>2, <1>4, <1>5, <1>6, <1>7, <1>8 DEF DispatchNext

-----------------------------------------------------------------------------
(***************************************************************************)
(* handle_datagram() and osc_reply_batch: an answer goes to the endpoint   *)
(* that the poll came from.                                                *)
(***************************************************************************)
THEOREM AnswersToAskerAlways == DispatchSpec => []AnswersToAsker
<1>1. DispatchInit => DispatchTypes /\ Origins
  BY TypesInit DEF DispatchInit, Origins
<1>2. DispatchTypes /\ Origins /\ [DispatchNext]_dispatch_vars => (DispatchTypes /\ Origins)'
  BY TypesStep, OriginsStep
<1>3. DispatchTypes /\ Origins => AnswersToAsker
  BY DEF DispatchTypes, Origins, From, AnswersToAsker
<1> QED
  BY <1>1, <1>2, <1>3, PTL DEF DispatchSpec

(***************************************************************************)
(* osc_ui_post(): commands take effect datagram by datagram, in the order  *)
(* of arrival.                                                             *)
(***************************************************************************)
THEOREM ArrivalOrderAlways == DispatchSpec => []ArrivalOrder
<1>1. DispatchInit => DispatchTypes /\ Line
  BY TypesInit DEF DispatchInit, Line, ArrivalOrder
<1>2. DispatchTypes /\ Line /\ [DispatchNext]_dispatch_vars => (DispatchTypes /\ Line)'
  BY TypesStep, LineStep
<1>3. Line => ArrivalOrder
  BY DEF Line
<1> QED
  BY <1>1, <1>2, <1>3, PTL DEF DispatchSpec

-----------------------------------------------------------------------------
Entries == [datagram : Nat, message : Messages]

\* The messages of datagram k, as they run.
Tagged(k) ==
    [j \in DOMAIN arrived[k].messages |-> [datagram |-> k, message |-> arrived[k].messages[j]]]

\* What a task still has to run.
Rest(t) == [j \in DOMAIN t.messages |-> [datagram |-> t.datagram, message |-> t.messages[j]]]

\* The first d datagrams have run, but for the rest of the task that runs; the
\* others wait, each as it arrived.
Progress(d) ==
    /\ task = Idle => ran = Arrived(d)
    /\ task # Idle => task.datagram = d /\ ran \o Rest(task) = Arrived(d)
    /\ \A k \in DOMAIN queue : queue[k] \in Commands =>
          /\ queue[k].datagram \in d + 1..Len(arrived)
          /\ queue[k].messages = arrived[queue[k].datagram].messages
    /\ \A n \in d + 1..Len(arrived) :
          \E k \in DOMAIN queue : queue[k] \in Commands /\ queue[k].datagram = n

InProgress == \E d \in 0..Len(arrived) : Progress(d)

SeenBetween == seen \subseteq {Len(Arrived(n)) : n \in 0..Len(arrived)}

LEMMA RestType ==
  ASSUME NEW t \in Commands
  PROVE  Rest(t) \in Seq(Entries)
<1>1. t.messages \in Seq(Messages) /\ t.datagram \in Nat
  BY DEF Commands
<1>2. PICK n \in Nat : t.messages \in [1..n -> Messages]
  BY <1>1
<1>3. \A j \in 1..n : [datagram |-> t.datagram, message |-> t.messages[j]] \in Entries
  BY <1>1, <1>2 DEF Entries
<1>4. Rest(t) \in [1..n -> Entries]
  BY <1>2, <1>3 DEF Rest
<1> QED
  BY <1>4

LEMMA TaggedType ==
  ASSUME DispatchTypes, NEW k \in 1..Len(arrived)
  PROVE  Tagged(k) \in Seq(Entries)
<1>1. arrived[k].messages \in Seq(Messages) /\ k \in Nat
  <2> DEFINE Datagrams == [from : Clients, messages : Seq(Messages)]
  <2>1. arrived \in Seq(Datagrams) /\ \A x \in Datagrams : x.messages \in Seq(Messages)
    BY DEF DispatchTypes
  <2> HIDE DEF Datagrams
  <2> QED
    BY <2>1
<1>2. PICK n \in Nat : arrived[k].messages \in [1..n -> Messages]
  BY <1>1
<1>3. \A j \in 1..n : [datagram |-> k, message |-> arrived[k].messages[j]] \in Entries
  BY <1>1, <1>2 DEF Entries
<1>4. Tagged(k) \in [1..n -> Entries]
  BY <1>2, <1>3 DEF Tagged
<1> QED
  BY <1>4

\* One datagram after the other.
LEMMA ArrivedSteps ==
  ASSUME DispatchTypes
  PROVE  /\ Arrived(0) = <<>>
         /\ \A n \in 0..Len(arrived) : Arrived(n) \in Seq(Entries)
         /\ \A n \in 0..Len(arrived) - 1 : Arrived(n + 1) = Arrived(n) \o Tagged(n + 1)
<1> DEFINE ss(n) == [k \in 1..n |-> Tagged(k)]
<1>1. Len(arrived) \in Nat
  BY DEF DispatchTypes
<1>2. \A n : Arrived(n) = FlattenSeq(ss(n))
  BY DEF Arrived, Tagged
<1>3. ASSUME NEW n \in 0..Len(arrived)
      PROVE  ss(n) \in Seq(Seq(Entries)) /\ Len(ss(n)) = n
  <2>1. \A k \in 1..n : Tagged(k) \in Seq(Entries)
    BY <1>1, TaggedType
  <2>2. ss(n) \in [1..n -> Seq(Entries)] /\ n \in Nat
    BY <1>1, <2>1
  <2> QED
    BY <2>2
<1>4. ASSUME NEW n \in 0..Len(arrived) - 1
      PROVE  ss(n + 1) = Append(ss(n), Tagged(n + 1))
  <2>1. ss(n) \in Seq(Seq(Entries)) /\ Len(ss(n)) = n /\ n \in Nat
    BY <1>1, <1>3
  <2>2. \A k \in 1..n : ss(n)[k] = Tagged(k)
    OBVIOUS
  <2>3. Append(ss(n), Tagged(n + 1)) = [k \in 1..n + 1 |-> IF k = n + 1 THEN Tagged(n + 1) ELSE ss(n)[k]]
    BY <2>1
  <2> QED
    BY <2>1, <2>2, <2>3
<1>5. ss(0) = <<>>
  OBVIOUS
<1> HIDE DEF ss
<1>6. Arrived(0) = <<>>
  BY <1>2, <1>5, FlattenEmpty
<1>7. \A n \in 0..Len(arrived) : Arrived(n) \in Seq(Entries)
  BY <1>2, <1>3, FlattenType
<1>8. ASSUME NEW n \in 0..Len(arrived) - 1
      PROVE  Arrived(n + 1) = Arrived(n) \o Tagged(n + 1)
  <2>1. n \in 0..Len(arrived) /\ n + 1 \in 1..Len(arrived)
    BY <1>1
  <2>2. ss(n) \in Seq(Seq(Entries)) /\ Tagged(n + 1) \in Seq(Entries)
    BY <1>3, <2>1, TaggedType
  <2>3. FlattenSeq(Append(ss(n), Tagged(n + 1))) = FlattenSeq(ss(n)) \o Tagged(n + 1)
    BY <2>2, FlattenAppend
  <2> QED
    BY <1>2, <1>4, <2>3
<1> QED
  BY <1>6, <1>7, <1>8

\* The first datagrams come first.
LEMMA ArrivedPrefix ==
  ASSUME DispatchTypes, NEW n \in 0..Len(arrived)
  PROVE  \E rest \in Seq(Entries) : Arrived(Len(arrived)) = Arrived(n) \o rest
<1> DEFINE N == {m \in Nat : n + m <= Len(arrived) =>
                   \E rest \in Seq(Entries) : Arrived(n + m) = Arrived(n) \o rest}
<1>1. Len(arrived) \in Nat
  BY DEF DispatchTypes
<1>2. Arrived(n) \in Seq(Entries)
  BY ArrivedSteps
<1>3. 0 \in N
  <2>1. n + 0 = n /\ Arrived(n) = Arrived(n) \o <<>> /\ <<>> \in Seq(Entries)
    BY <1>1, <1>2
  <2> QED
    BY <2>1
<1>4. ASSUME NEW m \in Nat, m \in N
      PROVE  m + 1 \in N
  <2> SUFFICES ASSUME n + (m + 1) <= Len(arrived)
               PROVE  \E rest \in Seq(Entries) : Arrived(n + (m + 1)) = Arrived(n) \o rest
    OBVIOUS
  <2>1. n + m <= Len(arrived) /\ n + m \in 0..Len(arrived) - 1 /\ n + (m + 1) = (n + m) + 1
    BY <1>1, <1>4
  <2>2. PICK rest \in Seq(Entries) : Arrived(n + m) = Arrived(n) \o rest
    BY <1>4, <2>1
  <2>3. Tagged((n + m) + 1) \in Seq(Entries)
    BY <1>1, <2>1, TaggedType
  <2>4. Arrived((n + m) + 1) = (Arrived(n) \o rest) \o Tagged((n + m) + 1)
    BY <2>1, <2>2, ArrivedSteps
  <2>5. (Arrived(n) \o rest) \o Tagged((n + m) + 1) = Arrived(n) \o (rest \o Tagged((n + m) + 1))
    BY <1>2, <2>2, <2>3, ConcatAssociative, SMTT(30)
  <2>6. rest \o Tagged((n + m) + 1) \in Seq(Entries)
    BY <2>2, <2>3
  <2> QED
    BY <2>1, <2>4, <2>5, <2>6
<1>5. \A m \in Nat : m \in N => m + 1 \in N
  BY <1>4
<1> HIDE DEF N
<1>6. \A m \in Nat : m \in N
  BY <1>3, <1>5, NatSet
<1>7. Len(arrived) - n \in N /\ n + (Len(arrived) - n) = Len(arrived)
  BY <1>1, <1>6
<1> QED
  BY <1>1, <1>7 DEF N

LEMMA PrefixOfConcat ==
  ASSUME NEW S, NEW a \in Seq(S), NEW b \in Seq(S)
  PROVE  IsPrefix(a, a \o b)
<1>1. Len(a) <= Len(a \o b)
  OBVIOUS
<1>2. SubSeq(a, 1, Len(a)) = a /\ SubSeq(a \o b, 1, Len(a)) = a
  OBVIOUS
<1> QED
  BY <1>1, <1>2 DEF IsPrefix

LEMMA ProgressMeans ==
  ASSUME DispatchTypes, InProgress, SeenBetween
  PROVE  DatagramsInOrder
<1>1. PICK d \in 0..Len(arrived) : Progress(d)
  BY DEF InProgress
<1>2. PICK after \in Seq(Entries) : Arrived(Len(arrived)) = Arrived(d) \o after
  BY ArrivedPrefix
<1>3. ran \in Seq(Entries)
  BY DEF DispatchTypes, Entries
<1>4. \E rest \in Seq(Entries) : Arrived(Len(arrived)) = ran \o rest
  <2>1. CASE task = Idle
    BY <1>1, <1>2, <2>1 DEF Progress
  <2>2. CASE task # Idle
    <3>1. Rest(task) \in Seq(Entries)
      BY <2>2, RestType DEF DispatchTypes
    <3>2. Arrived(Len(arrived)) = (ran \o Rest(task)) \o after
      BY <1>1, <1>2, <2>2 DEF Progress
    <3>3. (ran \o Rest(task)) \o after = ran \o (Rest(task) \o after)
      BY <1>2, <1>3, <3>1, ConcatAssociative
    <3>4. Rest(task) \o after \in Seq(Entries)
      BY <1>2, <3>1
    <3> QED
      BY <3>2, <3>3, <3>4
  <2> QED
    BY <2>1, <2>2
<1> QED
  BY <1>3, <1>4, PrefixOfConcat DEF DatagramsInOrder, SeenBetween

\* Another datagram changes nothing of those before it.
LEMMA ArrivedSame ==
  ASSUME DispatchTypes, NEW x, arrived' = Append(arrived, x)
  PROVE  \A n \in 0..Len(arrived) : Arrived(n)' = Arrived(n)
<1>1. Len(arrived) \in Nat /\ \A k \in 1..Len(arrived) : arrived'[k] = arrived[k]
  BY DEF DispatchTypes
<1>2. \A k \in 1..Len(arrived) : Tagged(k)' = Tagged(k)
  BY <1>1 DEF Tagged
<1>3. ASSUME NEW n \in 0..Len(arrived)
      PROVE  Arrived(n)' = Arrived(n)
  <2>1. \A k \in 1..n : Tagged(k)' = Tagged(k)
    BY <1>1, <1>2
  <2>2. [k \in 1..n |-> Tagged(k)'] = [k \in 1..n |-> Tagged(k)]
    BY <2>1
  <2>3. Arrived(n) = FlattenSeq([k \in 1..n |-> Tagged(k)])
    BY DEF Arrived, Tagged
  <2>4. Arrived(n)' = FlattenSeq([k \in 1..n |-> Tagged(k)'])
    BY DEF Arrived, Tagged
  <2> QED
    BY <2>2, <2>3, <2>4
<1> QED
  BY <1>3

LEMMA RestAll ==
  ASSUME DispatchTypes, NEW t \in Commands, t.datagram \in 1..Len(arrived),
         t.messages = arrived[t.datagram].messages
  PROVE  Rest(t) = Tagged(t.datagram)
BY DEF Rest, Tagged

\* A message more.
LEMMA RestMoves ==
  ASSUME NEW t \in Commands, NEW u \in Commands, t.messages # <<>>,
         u.datagram = t.datagram, u.messages = Tail(t.messages),
         NEW r \in Seq(Entries)
  PROVE  Append(r, [datagram |-> t.datagram, message |-> Head(t.messages)]) \o Rest(u)
            = r \o Rest(t)
<1> DEFINE e == [datagram |-> t.datagram, message |-> Head(t.messages)]
<1>1. t.messages \in Seq(Messages)
  BY DEF Commands
<1>2. Rest(u) \in Seq(Entries) /\ Rest(t) \in Seq(Entries)
  BY RestType
<1>3. PICK n \in Nat : n = Len(t.messages)
  BY <1>1
<1>4. /\ n # 0 /\ DOMAIN t.messages = 1..n /\ DOMAIN u.messages = 1..n - 1
      /\ Head(t.messages) = t.messages[1]
      /\ \A j \in 1..n - 1 : u.messages[j] = t.messages[j + 1]
  BY <1>1, <1>3
<1>5. /\ Len(Rest(t)) = n /\ Len(Rest(u)) = n - 1
      /\ \A j \in 1..n - 1 : Rest(u)[j] = Rest(t)[j + 1]
      /\ Rest(t)[1] = e
  BY <1>2, <1>3, <1>4 DEF Rest
<1>6. e \in Entries
  <2>1. 1 \in 1..n
    BY <1>3, <1>4
  <2> QED
    BY <1>2, <1>5, <2>1, ElementOfSeq
<1> HIDE DEF e
<1>7. <<e>> \o Rest(u) = Rest(t)
  <2>1. <<e>> \o Rest(u) \in Seq(Entries) /\ Len(<<e>> \o Rest(u)) = n
    BY <1>2, <1>3, <1>4, <1>5, <1>6
  <2>2. \A j \in 1..n : (<<e>> \o Rest(u))[j] = Rest(t)[j]
    BY <1>2, <1>3, <1>4, <1>5, <1>6
  <2> QED
    BY <1>2, <1>5, <2>1, <2>2, SeqEqual
<1>8. Append(r, e) = r \o <<e>>
  BY <1>6, AppendIsConcat
<1>9. (r \o <<e>>) \o Rest(u) = r \o (<<e>> \o Rest(u))
  <2>1. <<e>> \in Seq(Entries)
    BY <1>6
  <2> QED
    BY <1>2, <2>1, ConcatAssociative
<1> QED
  BY <1>7, <1>8, <1>9 DEF e

LEMMA ProgressStep ==
  ASSUME DispatchTypes, DispatchTypes', Line, InProgress, [DispatchNext]_dispatch_vars
  PROVE  InProgress'
<1>1. PICK d \in 0..Len(arrived) : Progress(d)
  BY DEF InProgress
<1>2. Len(arrived) \in Nat /\ d \in Nat /\ DOMAIN arrived = 1..Len(arrived)
  BY DEF DispatchTypes
<1>3. ASSUME NEW from \in Clients, NEW messages \in SeqOf(Polls \cup Sets, MaxMessages),
             HandleDatagram(from, messages)
      PROVE  InProgress'
  <2> DEFINE new == [owner |-> from, datagram |-> Len(arrived) + 1, messages |-> messages]
  <2>1. /\ queue' = queue \o <<new>>
        /\ arrived' = Append(arrived, [from |-> from, messages |-> messages])
        /\ UNCHANGED <<task, ran>>
    BY <1>3 DEF HandleDatagram, Post
  <2>2. /\ Len(arrived') = Len(arrived) + 1
        /\ \A n \in 1..Len(arrived) : arrived'[n] = arrived[n]
        /\ arrived'[Len(arrived) + 1].messages = messages
    BY <2>1 DEF DispatchTypes
  <2>3. /\ DOMAIN queue' = 1..Len(queue) + 1 /\ DOMAIN queue = 1..Len(queue)
        /\ Len(queue) \in Nat
        /\ \A k \in DOMAIN queue : queue'[k] = queue[k]
        /\ queue'[Len(queue) + 1] = new
    BY <2>1 DEF DispatchTypes
  <2>4. new.datagram = Len(arrived) + 1 /\ new.messages = messages
    OBVIOUS
  <2>5. new \in Commands
    <3>1. new \in Commands \cup Lookups
      BY <2>3 DEF DispatchTypes
    <3> QED
      BY <3>1, CommandOrLookup
  <2> HIDE DEF new
  <2>6. Arrived(d)' = Arrived(d)
    BY <1>1, <2>1, ArrivedSame
  <2>7. /\ task' = Idle => ran' = Arrived(d)'
        /\ task' # Idle => task'.datagram = d /\ ran' \o Rest(task)' = Arrived(d)'
    BY <1>1, <2>1, <2>6 DEF Progress, Rest
  <2>8. ASSUME NEW k \in DOMAIN queue', queue'[k] \in Commands
        PROVE  /\ queue'[k].datagram \in d + 1..Len(arrived')
               /\ queue'[k].messages = arrived'[queue'[k].datagram].messages
    <3>1. CASE k \in DOMAIN queue
      <4>1. /\ queue[k].datagram \in d + 1..Len(arrived)
            /\ queue[k].messages = arrived[queue[k].datagram].messages
        BY <1>1, <2>3, <2>8, <3>1 DEF Progress
      <4>2. queue[k].datagram \in 1..Len(arrived) /\ queue[k].datagram \in d + 1..Len(arrived) + 1
        BY <1>2, <4>1
      <4> QED
        BY <2>2, <2>3, <3>1, <4>1, <4>2
    <3>2. CASE k = Len(queue) + 1
      BY <1>2, <2>2, <2>3, <2>4, <3>2
    <3> QED
      BY <2>3, <3>1, <3>2
  <2>9. ASSUME NEW n \in d + 1..Len(arrived')
        PROVE  \E k \in DOMAIN queue' : queue'[k] \in Commands /\ queue'[k].datagram = n
    <3>1. CASE n \in d + 1..Len(arrived)
      <4>1. PICK k \in DOMAIN queue : queue[k] \in Commands /\ queue[k].datagram = n
        BY <1>1, <3>1 DEF Progress
      <4> QED
        BY <2>3, <4>1
    <3>2. CASE n = Len(arrived) + 1
      BY <2>3, <2>4, <2>5, <3>2
    <3> QED
      BY <1>2, <2>2, <3>1, <3>2
  <2>10. d \in 0..Len(arrived')
    BY <1>2, <2>2
  <2> QED
    BY <2>7, <2>8, <2>9, <2>10 DEF InProgress, Progress
<1>4. ASSUME NEW thread \in HttpThreads, Lookup(thread)
      PROVE  InProgress'
  <2>1. [owner |-> thread] \notin Commands
    BY DispatchAssumption DEF Commands
  <2>2. /\ DOMAIN queue' = 1..Len(queue) + 1 /\ DOMAIN queue = 1..Len(queue)
        /\ Len(queue) \in Nat
        /\ \A k \in DOMAIN queue : queue'[k] = queue[k]
        /\ queue'[Len(queue) + 1] = [owner |-> thread]
        /\ UNCHANGED <<task, arrived, ran>>
    BY <1>4 DEF Lookup, DispatchTypes
  <2>3. \A k \in DOMAIN queue' : queue'[k] \in Commands => k \in DOMAIN queue
    BY <2>1, <2>2
  <2>4. \A k \in DOMAIN queue : k \in DOMAIN queue' /\ queue'[k] = queue[k]
    BY <2>2
  <2>5. Progress(d)'
    BY <1>1, <2>2, <2>3, <2>4 DEF Progress, Rest, Arrived
  <2> QED
    BY <1>1, <2>2, <2>5 DEF InProgress
<1>5. ASSUME RunLookup
      PROVE  InProgress'
  <2>1. /\ queue' = Tail(queue) /\ queue # <<>> /\ Head(queue) = queue[1]
        /\ DOMAIN queue = 1..Len(queue) /\ DOMAIN queue' = 1..Len(queue) - 1
        /\ Len(queue) \in Nat /\ \A k \in DOMAIN queue' : queue'[k] = queue[k + 1]
        /\ UNCHANGED <<task, arrived, ran>>
    BY <1>5 DEF RunLookup, DispatchTypes
  <2>2. queue[1] \notin Commands
    <3>1. queue[1].owner \in HttpThreads
      BY <1>5, <2>1 DEF RunLookup
    <3> QED
      BY <3>1, DispatchAssumption DEF Commands
  <2>3. \A k \in DOMAIN queue' : k + 1 \in DOMAIN queue /\ queue'[k] = queue[k + 1]
    BY <2>1
  <2>4. \A k \in DOMAIN queue : queue[k] \in Commands =>
           k - 1 \in DOMAIN queue' /\ queue'[k - 1] = queue[k]
    BY <2>1, <2>2
  <2>5. Progress(d)'
    <3>1. Arrived(d)' = Arrived(d) /\ Rest(task)' = Rest(task)
      BY <2>1 DEF Arrived, Rest
    <3>2. \A n \in d + 1..Len(arrived) :
             \E k \in DOMAIN queue' : queue'[k] \in Commands /\ queue'[k].datagram = n
      BY <1>1, <2>4 DEF Progress
    <3>3. \A k \in DOMAIN queue' : queue'[k] \in Commands =>
             /\ queue'[k].datagram \in d + 1..Len(arrived)
             /\ queue'[k].messages = arrived[queue'[k].datagram].messages
      BY <1>1, <2>3 DEF Progress
    <3> QED
      BY <1>1, <2>1, <3>1, <3>2, <3>3 DEF Progress
  <2> QED
    BY <1>1, <2>1, <2>5 DEF InProgress
<1>6. ASSUME TakeTask
      PROVE  InProgress'
  <2>1. /\ task = Idle /\ queue' = Tail(queue) /\ queue # <<>> /\ task' = queue[1]
        /\ queue[1] = Head(queue)
        /\ DOMAIN queue = 1..Len(queue) /\ DOMAIN queue' = 1..Len(queue) - 1
        /\ Len(queue) \in Nat \ {0} /\ \A k \in DOMAIN queue' : queue'[k] = queue[k + 1]
        /\ UNCHANGED <<arrived, ran>>
    BY <1>6 DEF TakeTask, DispatchTypes
  <2>2. queue[1] \in Commands
    <3>1. queue[1] \in Commands \cup Lookups /\ queue[1].owner \in Clients
      BY <1>6, <2>1 DEF TakeTask, DispatchTypes
    <3> QED
      BY <3>1, CommandOrLookup
  <2>3. 1 \in DOMAIN queue
    BY <2>1
  <2>4. /\ queue[1].datagram \in d + 1..Len(arrived)
        /\ queue[1].messages = arrived[queue[1].datagram].messages
    BY <1>1, <2>2, <2>3 DEF Progress
  <2>5. queue[1].datagram = d + 1
    <3>1. d + 1 \in d + 1..Len(arrived)
      BY <1>2, <2>4
    <3>2. PICK k \in DOMAIN queue : queue[k] \in Commands /\ queue[k].datagram = d + 1
      BY <1>1, <3>1 DEF Progress
    <3>3. CASE k = 1
      BY <3>2, <3>3
    <3>4. CASE k # 1
      <4>1. 1 < k
        BY <2>1, <3>4
      <4>2. queue[1].datagram < queue[k].datagram
        BY <2>2, <2>3, <3>2, <4>1 DEF Line
      <4> QED
        BY <1>2, <2>4, <3>2, <4>2
    <3> QED
      BY <3>3, <3>4
  <2>6. task' # Idle
    BY <2>1, <2>2, DispatchAssumption DEF Commands, Messages
  <2>7. d + 1 \in 0..Len(arrived) /\ d \in 0..Len(arrived) - 1
    BY <1>2, <2>4, <2>5
  <2>8. ran \o Rest(task') = Arrived(d + 1)
    <3>1. Rest(queue[1]) = Tagged(d + 1)
      <4>1. queue[1].datagram \in 1..Len(arrived)
        BY <1>2, <2>4
      <4> QED
        BY <2>2, <2>4, <2>5, <4>1, RestAll
    <3>2. ran = Arrived(d)
      BY <1>1, <2>1 DEF Progress
    <3> QED
      BY <2>1, <2>7, <3>1, <3>2, ArrivedSteps
  <2>9. ASSUME NEW k \in DOMAIN queue', queue'[k] \in Commands
        PROVE  /\ queue'[k].datagram \in (d + 1) + 1..Len(arrived)
               /\ queue'[k].messages = arrived[queue'[k].datagram].messages
    <3>1. k + 1 \in DOMAIN queue /\ 1 < k + 1 /\ queue'[k] = queue[k + 1]
      BY <2>1
    <3>2. /\ queue[k + 1].datagram \in d + 1..Len(arrived)
          /\ queue[k + 1].messages = arrived[queue[k + 1].datagram].messages
      BY <1>1, <2>9, <3>1 DEF Progress
    <3>3. queue[1].datagram < queue[k + 1].datagram
      BY <2>2, <2>3, <2>9, <3>1 DEF Line
    <3> QED
      BY <1>2, <2>5, <3>1, <3>2, <3>3
  <2>10. ASSUME NEW n \in (d + 1) + 1..Len(arrived)
         PROVE  \E k \in DOMAIN queue' : queue'[k] \in Commands /\ queue'[k].datagram = n
    <3>1. n \in d + 1..Len(arrived) /\ n # d + 1
      BY <1>2
    <3>2. PICK k \in DOMAIN queue : queue[k] \in Commands /\ queue[k].datagram = n
      BY <1>1, <3>1 DEF Progress
    <3>3. k # 1
      BY <2>5, <3>1, <3>2
    <3>4. k - 1 \in DOMAIN queue' /\ queue'[k - 1] = queue[k]
      BY <2>1, <3>3
    <3> QED
      BY <3>2, <3>4
  <2>11. Progress(d + 1)'
    <3>1. Arrived(d + 1)' = Arrived(d + 1) /\ Rest(task)' = Rest(task')
      BY <2>1 DEF Arrived, Rest
    <3> QED
      BY <2>1, <2>5, <2>6, <2>8, <2>9, <2>10, <3>1 DEF Progress
  <2> QED
    BY <2>1, <2>7, <2>11 DEF InProgress
<1>7. ASSUME EndTask
      PROVE  InProgress'
  <2>1. /\ task # Idle /\ task.messages = <<>> /\ task' = Idle
        /\ UNCHANGED <<queue, arrived, ran>>
    BY <1>7 DEF EndTask
  <2>2. Rest(task) = <<>>
    BY <2>1 DEF Rest
  <2>3. ran = Arrived(d)
    <3>1. ran \o <<>> = ran
      BY DEF DispatchTypes
    <3> QED
      BY <1>1, <2>1, <2>2, <3>1 DEF Progress
  <2>4. Progress(d)'
    BY <1>1, <2>1, <2>3 DEF Progress, Arrived
  <2> QED
    BY <1>1, <2>1, <2>4 DEF InProgress
<1>8. ASSUME NEW answered \in BOOLEAN, RunMessage(answered)
      PROVE  InProgress'
  <2>1. /\ task # Idle /\ task.messages # <<>> /\ UNCHANGED <<queue, arrived>>
        /\ task' = [task EXCEPT !.messages = Tail(@)]
        /\ ran' = Append(ran, [datagram |-> task.datagram, message |-> Head(task.messages)])
    BY <1>8 DEF RunMessage
  <2>2. task \in Commands /\ ran \in Seq(Entries)
    BY <2>1 DEF DispatchTypes, Entries
  <2>3. task'.datagram = task.datagram /\ task'.messages = Tail(task.messages) /\ task' \in Commands
    <3>1. task.messages \in Seq(Messages)
      BY <2>2 DEF Commands
    <3>2. Tail(task.messages) \in Seq(Messages)
      BY <2>1, <3>1
    <3> QED
      BY <2>1, <2>2, <3>2 DEF Commands
  <2>4. task' # Idle
    BY <2>3, DispatchAssumption DEF Commands, Messages
  <2>5. ran' \o Rest(task') = ran \o Rest(task)
    BY <2>1, <2>2, <2>3, RestMoves
  <2>6. Arrived(d)' = Arrived(d) /\ Rest(task)' = Rest(task')
    BY <2>1 DEF Arrived, Rest
  <2>7. Progress(d)'
    BY <1>1, <2>1, <2>3, <2>4, <2>5, <2>6 DEF Progress
  <2> QED
    BY <1>1, <2>1, <2>7 DEF InProgress
<1>9. ASSUME UNCHANGED dispatch_vars
      PROVE  InProgress'
  <2>1. Progress(d)'
    BY <1>1, <1>9 DEF dispatch_vars, Progress, Rest, Arrived
  <2> QED
    BY <1>1, <1>9, <2>1 DEF dispatch_vars, InProgress
<1> QED
  BY <1>3, <1>4, <1>5, <1>6, <1>7, <1>8, <1>9 DEF DispatchNext

LEMMA SeenStep ==
  ASSUME DispatchTypes, InProgress, SeenBetween, [DispatchNext]_dispatch_vars
  PROVE  SeenBetween'
<1>1. Len(arrived) \in Nat
  BY DEF DispatchTypes
<1>2. ASSUME NEW from \in Clients, NEW messages \in SeqOf(Polls \cup Sets, MaxMessages),
             HandleDatagram(from, messages)
      PROVE  SeenBetween'
  <2>1. /\ arrived' = Append(arrived, [from |-> from, messages |-> messages]) /\ seen' = seen
    BY <1>2 DEF HandleDatagram
  <2>2. \A n \in 0..Len(arrived) : Arrived(n)' = Arrived(n)
    BY <2>1, ArrivedSame
  <2>3. Len(arrived') = Len(arrived) + 1
    BY <2>1 DEF DispatchTypes
  <2>4. \A n \in 0..Len(arrived) : n \in 0..Len(arrived')
    BY <1>1, <2>3
  <2> QED
    BY <2>1, <2>2, <2>4 DEF SeenBetween
<1>3. CASE RunLookup
  <2>1. /\ task = Idle /\ UNCHANGED arrived /\ seen' = seen \cup {Len(ran)}
    BY <1>3 DEF RunLookup
  <2>2. PICK d \in 0..Len(arrived) : ran = Arrived(d)
    BY <2>1 DEF InProgress, Progress
  <2>3. \A n : Arrived(n)' = Arrived(n)
    BY <2>1 DEF Arrived
  <2> QED
    BY <2>1, <2>2, <2>3 DEF SeenBetween
<1>4. CASE UNCHANGED <<arrived, seen>>
  <2>1. \A n : Arrived(n)' = Arrived(n)
    BY <1>4 DEF Arrived
  <2> QED
    BY <1>4, <2>1 DEF SeenBetween
<1> QED
  BY <1>2, <1>3, <1>4 DEF DispatchNext, Lookup, TakeTask, EndTask, RunMessage, dispatch_vars

(***************************************************************************)
(* osc_ui_post(): every message of every datagram runs once, in the order  *)
(* of arrival, and no lookup of an HTTP thread sees OBS between two        *)
(* messages of one datagram.                                               *)
(***************************************************************************)
THEOREM DatagramsInOrderAlways == DispatchSpec => []DatagramsInOrder
<1> DEFINE All == DispatchTypes /\ Line /\ InProgress /\ SeenBetween
<1>1. DispatchInit => All
  <2> SUFFICES ASSUME DispatchInit PROVE InProgress /\ SeenBetween
    BY TypesInit DEF DispatchInit, Line, ArrivalOrder
  <2>1. DispatchTypes
    BY TypesInit
  <2>2. Len(arrived) = 0 /\ ran = Arrived(0)
    BY <2>1, ArrivedSteps DEF DispatchInit
  <2>3. Progress(0)
    BY <2>2 DEF DispatchInit, Progress
  <2> QED
    BY <2>2, <2>3 DEF DispatchInit, InProgress, SeenBetween
<1>2. All /\ [DispatchNext]_dispatch_vars => All'
  BY TypesStep, LineStep, ProgressStep, SeenStep
<1>3. All => DatagramsInOrder
  BY ProgressMeans
<1> QED
  BY <1>1, <1>2, <1>3, PTL DEF DispatchSpec

-----------------------------------------------------------------------------
(***************************************************************************)
(* The pattern matcher. A pattern of L characters and a string of M.       *)
(***************************************************************************)
L == Len(pattern)
M == Len(str)

GlobTypes ==
    /\ pattern \in Seq(Letters \cup {Star, Query}) /\ str \in Seq(Letters \cup {Star, Query})
    /\ p \in 1..L + 1 /\ s \in 1..M + 1
    /\ match \in {"none", "yes", "no"} /\ steps \in Nat
    /\ restart_p = 0 => p = s
    /\ restart_p # 0 =>
          /\ restart_p \in 2..p /\ restart_s \in 1..s
          /\ pattern[restart_p - 1] = Star
          /\ p - restart_p = s - restart_s
    /\ restart_p \in Nat /\ restart_s \in Nat

\* What has been consumed fits together, up to the pointers and up to the star.
Reached ==
    /\ \E ends \in [0..p - 1 -> 0..s - 1] : Aligns(ends, p - 1, s - 1)
    /\ restart_p # 0 =>
         \E ends \in [0..restart_p - 1 -> 0..restart_s - 1] :
            Aligns(ends, restart_p - 1, restart_s - 1)

\* However the whole fits together, the last star ends no earlier than where
\* it is tried, and what follows it is matched one to one: no star before it
\* could have helped. A star that was taken for a star of the name could.
Forced ==
    StarsApart => \A ends \in [0..L -> 0..M] : Aligns(ends, L, M) =>
        IF restart_p = 0 THEN ends[p - 1] = s - 1
        ELSE /\ ends[restart_p - 1] >= restart_s - 1
             /\ ends[p - 1] - ends[restart_p - 1] = p - restart_p

\* A restart gives up less than the pattern's length and gains a character.
Work ==
    /\ match = "none" =>
         steps <= (IF restart_p = 0 THEN 0 ELSE restart_s - 1) * (L + 1) + (p - 1)
    /\ steps <= (L + 1) * (M + 1)

Verdict ==
    /\ match = "yes" => Means
    /\ match = "no" /\ StarsApart => ~Means

GlobInv == GlobTypes /\ (match = "none" => Reached /\ Forced) /\ Work /\ Verdict

-----------------------------------------------------------------------------
\* The character at a pointer.
LEMMA CharacterAt ==
  ASSUME GlobTypes, NEW k \in 1..L + 1
  PROVE  /\ k <= L => PatternAt(k) = pattern[k] /\ pattern[k] \in Letters \cup {Star, Query}
         /\ k > L => PatternAt(k) = Nul /\ k = L + 1
BY DEF GlobTypes, PatternAt, L

\* One more character of the pattern.
LEMMA Extended ==
  ASSUME GlobTypes, NEW n \in 1..L, NEW m \in Nat, NEW j \in Nat, m <= j, j <= M,
         NEW ends \in [0..n - 1 -> 0..m], Aligns(ends, n - 1, m),
         pattern[n] = Star \/ (j = m + 1 /\ pattern[n] \in {Query, str[j]} /\ pattern[n] # Star)
  PROVE  \E e \in [0..n -> 0..j] : Aligns(e, n, j)
<1> DEFINE e == [k \in 0..n |-> IF k = n THEN j ELSE ends[k]]
<1>0. L \in Nat /\ n \in Nat \ {0}
  BY DEF GlobTypes, L
<1>1. \A k \in 0..n - 1 : ends[k] \in 0..m
  OBVIOUS
<1>2. e \in [0..n -> 0..j]
  BY <1>0, <1>1
<1>3. e[n] = j /\ \A k \in 0..n - 1 : e[k] = ends[k]
  BY <1>0
<1> HIDE DEF e
<1>4. e[0] = 0 /\ ends[n - 1] = m /\ e[n - 1] = m
  BY <1>0, <1>3 DEF Aligns
<1>5. ASSUME NEW k \in 1..n
      PROVE  IF pattern[k] = Star THEN e[k - 1] <= e[k]
             ELSE e[k] = e[k - 1] + 1 /\ pattern[k] \in {Query, str[e[k]]}
  <2>1. CASE k = n
    BY <1>3, <1>4, <2>1
  <2>2. CASE k \in 1..n - 1
    BY <1>0, <1>3, <2>2 DEF Aligns
  <2> QED
    BY <1>0, <1>5, <2>1, <2>2
<1> QED
  BY <1>2, <1>3, <1>4, <1>5 DEF Aligns

\* A star that takes more.
LEMMA Widened ==
  ASSUME GlobTypes, NEW n \in Nat \ {0}, NEW m \in Nat, NEW j \in Nat, n <= L, m <= j, j <= M,
         NEW ends \in [0..n -> 0..m], Aligns(ends, n, m), pattern[n] = Star
  PROVE  \E e \in [0..n -> 0..j] : Aligns(e, n, j)
<1> DEFINE e == [k \in 0..n |-> IF k = n THEN j ELSE ends[k]]
<1>1. \A k \in 0..n : ends[k] \in 0..m
  OBVIOUS
<1>2. e \in [0..n -> 0..j]
  BY <1>1
<1>3. e[n] = j /\ \A k \in 0..n - 1 : e[k] = ends[k]
  OBVIOUS
<1> HIDE DEF e
<1>4. e[0] = 0 /\ ends[n] = m
  BY <1>3 DEF Aligns
<1>5. ASSUME NEW k \in 1..n
      PROVE  IF pattern[k] = Star THEN e[k - 1] <= e[k]
             ELSE e[k] = e[k - 1] + 1 /\ pattern[k] \in {Query, str[e[k]]}
  <2>1. CASE k = n
    <3>1. n - 1 \in 0..n - 1 /\ n - 1 \in 0..n
      OBVIOUS
    <3>2. e[n - 1] <= m
      BY <1>1, <1>3, <3>1
    <3> QED
      BY <1>3, <2>1, <3>2, <1>1, <3>1
  <2>2. CASE k \in 1..n - 1
    <3>1. e[k] = ends[k] /\ e[k - 1] = ends[k - 1]
      BY <1>3, <2>2
    <3>2. IF pattern[k] = Star THEN ends[k - 1] <= ends[k]
          ELSE ends[k] = ends[k - 1] + 1 /\ pattern[k] \in {Query, str[ends[k]]}
      BY <1>5 DEF Aligns
    <3> QED
      BY <3>1, <3>2
  <2> QED
    BY <1>5, <2>1, <2>2
<1> QED
  BY <1>2, <1>3, <1>4, <1>5 DEF Aligns

\* Ends only grow.
LEMMA Monotone ==
  ASSUME GlobTypes, NEW ends \in [0..L -> 0..M], Aligns(ends, L, M),
         NEW i \in 0..L, NEW j \in i..L
  PROVE  ends[i] <= ends[j]
<1> DEFINE S == {d \in Nat : i + d \in 0..L => ends[i] <= ends[i + d]}
<1>1. L \in Nat /\ M \in Nat
  BY DEF GlobTypes, L, M
<1>2. \A k \in 0..L : ends[k] \in Nat
  BY <1>1
<1>3. 0 \in S
  BY <1>1, <1>2
<1>4. ASSUME NEW d \in Nat, d \in S
      PROVE  d + 1 \in S
  <2> SUFFICES ASSUME i + (d + 1) \in 0..L PROVE ends[i] <= ends[i + (d + 1)]
    OBVIOUS
  <2>1. i + d \in 0..L /\ i + (d + 1) \in 1..L /\ (i + (d + 1)) - 1 = i + d
    BY <1>1
  <2>2. ends[i + d] <= ends[i + (d + 1)]
    BY <1>2, <2>1 DEF Aligns
  <2>3. ends[i] <= ends[i + d]
    BY <1>4, <2>1
  <2> QED
    BY <1>2, <2>1, <2>2, <2>3
<1> HIDE DEF S
<1>5. \A d \in Nat : d \in S
  BY <1>3, <1>4, NatSet
<1>6. j - i \in Nat /\ i + (j - i) = j
  BY <1>1
<1>7. j - i \in S
  BY <1>5, <1>6
<1> QED
  BY <1>1, <1>6, <1>7 DEF S

-----------------------------------------------------------------------------
LEMMA GlobInitOK == GlobInit => GlobInv
<1> SUFFICES ASSUME GlobInit PROVE GlobInv
  OBVIOUS
<1>1. pattern \in Seq(Letters \cup {Star, Query}) /\ str \in Seq(Letters \cup {Star, Query})
  <2>1. ASSUME NEW A, NEW max \in Nat, NEW w \in Words(A, max)
        PROVE  w \in Seq(A)
    <3>1. PICK n \in 0..max : w \in [1..n -> A]
      BY DEF Words
    <3>2. n \in Nat
      OBVIOUS
    <3> QED
      BY <3>1, <3>2
  <2> QED
    BY <2>1, CharactersAssumption DEF GlobInit
<1>2. L \in Nat /\ M \in Nat
  BY <1>1 DEF L, M
<1>3. GlobTypes
  BY <1>1, <1>2 DEF GlobInit, GlobTypes
<1>4. Reached
  <2>1. [k \in 0..0 |-> 0] \in [0..p - 1 -> 0..s - 1]
    BY DEF GlobInit
  <2>2. Aligns([k \in 0..0 |-> 0], p - 1, s - 1)
    BY DEF GlobInit, Aligns
  <2> QED
    BY <2>1, <2>2 DEF Reached, GlobInit
<1>5. Forced
  BY <1>2 DEF Forced, Aligns, GlobInit
<1>6. Work
  <2>1. (L + 1) * (M + 1) >= 0 /\ 0 * (L + 1) = 0
    BY <1>2
  <2> QED
    BY <2>1 DEF Work, GlobInit
<1>7. Verdict
  BY DEF Verdict, GlobInit
<1> QED
  BY <1>3, <1>4, <1>5, <1>6, <1>7 DEF GlobInv

LEMMA GlobTypesStep == GlobInv /\ GlobNext => GlobTypes'
<1> SUFFICES ASSUME GlobInv, GlobNext PROVE GlobTypes'
  OBVIOUS
<1>1. L \in Nat /\ M \in Nat /\ L' = L /\ M' = M
  BY DEF GlobInv, GlobTypes, GlobNext, L, M
<1>2. PatternAt(p) = IF p <= L THEN pattern[p] ELSE Nul
  BY DEF PatternAt, L
<1>3. p <= L => pattern[p] \in Letters \cup {Star, Query}
  BY CharacterAt DEF GlobInv, GlobTypes
<1>4. s <= M => str[s] \in Letters \cup {Star, Query}
  BY DEF GlobInv, GlobTypes, M
<1>5. CASE Advance
  <2>1. s \in 1..M /\ p' = p + 1 /\ s' = s + 1 /\ PatternAt(p) \in {Query, str[s]}
    BY <1>1, <1>5 DEF Advance, Running, GlobInv, GlobTypes, M
  <2>2. p \in 1..L
    BY <1>1, <1>2, <1>4, <2>1, CharactersAssumption DEF GlobInv, GlobTypes
  <2>3. restart_p' = restart_p /\ restart_s' = restart_s /\ match' = match
    BY <1>5 DEF Advance
  <2>4. pattern' = pattern /\ str' = str /\ steps' = steps + 1
    BY DEF GlobNext
  <2>5. p' \in 1..L' + 1 /\ s' \in 1..M' + 1
    BY <1>1, <2>1, <2>2
  <2>6. /\ restart_p' \in Nat /\ restart_s' \in Nat
        /\ restart_p' = 0 => p' = s'
        /\ restart_p' # 0 => pattern'[restart_p' - 1] = Star
    BY <2>1, <2>3, <2>4 DEF GlobInv, GlobTypes
  <2>7. ASSUME restart_p # 0
        PROVE  /\ restart_p' \in 2..p' /\ restart_s' \in 1..s'
               /\ p' - restart_p' = s' - restart_s'
    <3>1. restart_p \in 2..p /\ restart_s \in 1..s /\ p - restart_p = s - restart_s
      BY <2>7 DEF GlobInv, GlobTypes
    <3> QED
      BY <1>1, <2>1, <2>2, <2>3, <3>1
  <2> QED
    BY <2>3, <2>4, <2>5, <2>6, <2>7 DEF GlobInv, GlobTypes
<1>6. CASE AtStar
  <2>1. /\ s \in 1..M /\ PatternAt(p) = Star /\ match' = match
        /\ p' = p + 1 /\ s' = s /\ restart_p' = p + 1 /\ restart_s' = s
    BY <1>1, <1>6 DEF AtStar, Running, GlobInv, GlobTypes, M
  <2>2. p \in 1..L /\ pattern[p] = Star
    BY <1>1, <1>2, <2>1, CharactersAssumption DEF GlobInv, GlobTypes
  <2>3. pattern' = pattern /\ str' = str /\ steps' = steps + 1
    BY DEF GlobNext
  <2>4. p' \in 1..L' + 1 /\ s' \in 1..M' + 1
    BY <1>1, <2>1, <2>2
  <2>5. /\ restart_p' \in 2..p' /\ restart_s' \in 1..s' /\ restart_p' # 0
        /\ restart_p' \in Nat /\ restart_s' \in Nat
        /\ p' - restart_p' = s' - restart_s' /\ restart_p' - 1 = p
    BY <1>1, <2>1, <2>2
  <2> QED
    BY <2>1, <2>2, <2>3, <2>4, <2>5 DEF GlobInv, GlobTypes
<1>7. CASE Restart
  <2>1. /\ s \in 1..M /\ restart_p # 0 /\ restart_p' = restart_p /\ match' = match
        /\ p' = restart_p /\ s' = restart_s + 1 /\ restart_s' = restart_s + 1
    BY <1>1, <1>7 DEF Restart, Running, GlobInv, GlobTypes, M
  <2>2. pattern' = pattern /\ str' = str /\ steps' = steps + 1
    BY DEF GlobNext
  <2>3. /\ restart_p \in 2..p /\ restart_s \in 1..s /\ p \in 1..L + 1
        /\ pattern[restart_p - 1] = Star
    BY <2>1 DEF GlobInv, GlobTypes
  <2>4. /\ p' \in 1..L' + 1 /\ s' \in 1..M' + 1
        /\ restart_p' \in 2..p' /\ restart_s' \in 1..s'
        /\ restart_p' \in Nat /\ restart_s' \in Nat
        /\ p' - restart_p' = s' - restart_s'
    BY <1>1, <2>1, <2>3
  <2> QED
    BY <2>1, <2>2, <2>3, <2>4 DEF GlobInv, GlobTypes
<1>8. CASE Mismatch
  BY <1>1, <1>8 DEF Mismatch, GlobInv, GlobTypes, GlobNext
<1>9. CASE End
  BY <1>1, <1>9 DEF End, GlobInv, GlobTypes, GlobNext
<1> QED
  BY <1>5, <1>6, <1>7, <1>8, <1>9 DEF GlobNext

\* The primed and the unprimed Aligns are the same.
LEMMA GlobReachedStep == GlobInv /\ GlobNext /\ match' = "none" => Reached'
<1> SUFFICES ASSUME GlobInv, GlobNext, match' = "none" PROVE Reached'
  OBVIOUS
<1>1. /\ L \in Nat /\ M \in Nat /\ p \in 1..L + 1 /\ s \in 1..M + 1
      /\ pattern' = pattern /\ str' = str /\ GlobTypes
  BY DEF GlobInv, GlobTypes, GlobNext, L, M
<1>2. \A e, n, m : Aligns(e, n, m)' <=> Aligns(e, n, m)
  BY <1>1 DEF Aligns
<1>3. match = "none" /\ Reached
  BY DEF GlobNext, Advance, AtStar, Restart, Mismatch, End, Running, GlobInv
<1>4. PICK ends \in [0..p - 1 -> 0..s - 1] : Aligns(ends, p - 1, s - 1)
  BY <1>3 DEF Reached
<1>5. p <= L => PatternAt(p) = pattern[p] /\ pattern[p] \in Letters \cup {Star, Query}
  BY <1>1, CharacterAt
<1>6. p > L => PatternAt(p) = Nul
  BY <1>1, CharacterAt
<1>7. s <= M => str[s] \in Letters \cup {Star, Query}
  BY <1>1 DEF GlobTypes, M
<1>8. CASE Advance
  <2>1. p <= L /\ s <= M /\ pattern[p] \in {Query, str[s]}
    BY <1>5, <1>6, <1>7, <1>8, <1>1, CharactersAssumption DEF Advance, Running, M
  <2>2. \E e \in [0..p -> 0..s] : Aligns(e, p, s)
    <3>1. p \in 1..L /\ s - 1 \in Nat /\ s \in Nat /\ s - 1 <= s /\ s = (s - 1) + 1
      BY <1>1, <2>1
    <3> HIDE DEF L, M
    <3> QED
      BY <1>1, <1>4, <2>1, <3>1, Extended
  <2>3. p = p' - 1 /\ s = s' - 1 /\ UNCHANGED <<restart_p, restart_s>>
    BY <1>1, <1>8 DEF Advance
  <2> QED
    BY <1>2, <1>3, <2>2, <2>3 DEF Reached
<1>9. CASE AtStar
  <2>1. p <= L /\ pattern[p] = Star /\ s <= M
    BY <1>1, <1>5, <1>6, <1>9, CharactersAssumption DEF AtStar, Running, M
  <2>2. \E e \in [0..p -> 0..s - 1] : Aligns(e, p, s - 1)
    <3>1. p \in 1..L /\ s - 1 \in Nat /\ s - 1 <= s - 1 /\ s - 1 <= M
      BY <1>1, <2>1
    <3> QED
      BY <1>1, <1>4, <2>1, <3>1, Extended
  <2>3. p = p' - 1 /\ s' = s /\ restart_p' = p' /\ restart_s' = s
    BY <1>1, <1>9 DEF AtStar
  <2> QED
    BY <1>2, <2>2, <2>3 DEF Reached
<1>10. CASE Restart
  <2>1. /\ restart_p \in 2..L + 1 /\ restart_s \in 1..s /\ s <= M /\ restart_s \in 1..M
        /\ pattern[restart_p - 1] = Star /\ restart_p # 0
        /\ p' = restart_p /\ restart_p' = restart_p
        /\ s' = restart_s + 1 /\ restart_s' = restart_s + 1
    <3>1. s <= M /\ restart_p # 0
      BY <1>10 DEF Restart, Running, M
    <3>2. restart_p \in 2..p /\ restart_s \in 1..s /\ pattern[restart_p - 1] = Star
      BY <1>1, <3>1 DEF GlobTypes
    <3>3. restart_p \in 2..L + 1 /\ restart_s \in 1..M
      BY <1>1, <3>1, <3>2
    <3> QED
      BY <3>1, <3>2, <3>3, <1>10 DEF Restart
  <2>2. PICK es \in [0..restart_p - 1 -> 0..restart_s - 1] :
           Aligns(es, restart_p - 1, restart_s - 1)
    BY <1>3, <2>1 DEF Reached
  <2>3. \E e \in [0..restart_p - 1 -> 0..restart_s] : Aligns(e, restart_p - 1, restart_s)
    <3>1. /\ restart_p - 1 \in Nat \ {0} /\ restart_s - 1 \in Nat /\ restart_s \in Nat
          /\ restart_p - 1 <= L /\ restart_s - 1 <= restart_s /\ restart_s <= M
      BY <1>1, <2>1
    <3> QED
      BY <1>1, <2>1, <2>2, <3>1, Widened
  <2>4. p' - 1 = restart_p - 1 /\ s' - 1 = restart_s /\ restart_s' - 1 = restart_s
    BY <2>1
  <2> QED
    BY <1>2, <2>1, <2>3, <2>4 DEF Reached
<1>11. CASE Mismatch \/ End
  BY <1>11 DEF Mismatch, End
<1> QED
  BY <1>8, <1>9, <1>10, <1>11 DEF GlobNext

LEMMA GlobForcedStep == GlobInv /\ GlobNext /\ match' = "none" => Forced'
<1> SUFFICES ASSUME GlobInv, GlobNext, match' = "none", StarsApart,
                    NEW ends \in [0..L -> 0..M], Aligns(ends, L, M)
             PROVE  IF restart_p' = 0 THEN ends[p' - 1] = s' - 1
                    ELSE /\ ends[restart_p' - 1] >= restart_s' - 1
                         /\ ends[p' - 1] - ends[restart_p' - 1] = p' - restart_p'
  BY DEF Forced, GlobNext, L, M, Aligns, StarsApart
<1>1. /\ L \in Nat /\ M \in Nat /\ p \in 1..L + 1 /\ s \in 1..M + 1 /\ GlobTypes
  BY DEF GlobInv, GlobTypes, L, M
<1>2. \A k \in 0..L : ends[k] \in 0..M
  BY <1>1
<1>3. match = "none" /\ Forced
  BY DEF GlobNext, Advance, AtStar, Restart, Mismatch, End, Running, GlobInv
<1>4. IF restart_p = 0 THEN ends[p - 1] = s - 1
      ELSE /\ ends[restart_p - 1] >= restart_s - 1
           /\ ends[p - 1] - ends[restart_p - 1] = p - restart_p
  BY <1>3 DEF Forced
<1>5. p <= L => PatternAt(p) = pattern[p] /\ pattern[p] \in Letters \cup {Star, Query}
  BY <1>1, CharacterAt
<1>6. p > L => PatternAt(p) = Nul /\ p = L + 1
  BY <1>1, CharacterAt
<1>7. s <= M => str[s] \in Letters \cup {Star, Query}
  BY <1>1 DEF GlobTypes, M
<1>8. p <= L => IF pattern[p] = Star THEN ends[p - 1] <= ends[p]
                ELSE ends[p] = ends[p - 1] + 1 /\ pattern[p] \in {Query, str[ends[p]]}
  BY <1>1 DEF Aligns
<1>9. /\ restart_p = 0 => p = s
      /\ restart_p # 0 => /\ restart_p \in 2..p /\ restart_s \in 1..s
                          /\ p - restart_p = s - restart_s
                          /\ restart_p - 1 \in 0..L
                          /\ ends[restart_p - 1] \in 0..M
  BY <1>1, <1>2 DEF GlobTypes
<1>10. p - 1 \in 0..L /\ ends[p - 1] \in 0..M /\ (p <= L => p \in 0..L /\ ends[p] \in 0..M)
  BY <1>1, <1>2
<1>11. CASE Advance
  <2>0. p <= L /\ s <= M /\ pattern[p] \in {Query, str[s]}
        /\ p' = p + 1 /\ s' = s + 1 /\ UNCHANGED <<restart_p, restart_s>>
    BY <1>1, <1>5, <1>6, <1>7, <1>11, CharactersAssumption DEF Advance, Running, M
  <2>1. pattern[p] # Star
    BY <1>1, <2>0, CharactersAssumption DEF StarsApart, L, M
  <2>2. ends[p] = ends[p - 1] + 1 /\ p' - 1 = p
    BY <1>1, <1>8, <2>0, <2>1
  <2> HIDE DEF L, M
  <2>3. CASE restart_p = 0
    <3>1. ends[p - 1] = s - 1
      BY <1>4, <2>3
    <3>2. ends[p] = s
      BY <1>1, <1>10, <2>2, <3>1
    <3> QED
      BY <1>1, <2>0, <2>2, <2>3, <3>2
  <2>4. CASE restart_p # 0
    <3> DEFINE a == ends[restart_p - 1]
               b == ends[p - 1]
    <3>1. a >= restart_s - 1 /\ b - a = p - restart_p /\ restart_p \in Nat /\ p \in Nat
      BY <1>1, <1>4, <1>9, <2>4
    <3>2. a \in Int /\ b \in Int
      BY <1>9, <1>10, <2>4, <1>1
    <3>3. (b + 1) - a = (p + 1) - restart_p
      <4> HIDE DEF a, b
      <4> QED
        BY <3>1, <3>2
    <3> QED
      BY <2>0, <2>2, <2>4, <3>1, <3>3
  <2> QED
    BY <2>3, <2>4
<1>12. CASE AtStar
  <2>1. /\ p <= L /\ pattern[p] = Star
        /\ p' = p + 1 /\ s' = s /\ restart_p' = p + 1 /\ restart_s' = s
    BY <1>1, <1>5, <1>6, <1>12, CharactersAssumption DEF AtStar
  <2>2. ends[p - 1] <= ends[p] /\ restart_p' - 1 = p /\ p' - 1 = p /\ restart_p' # 0
    BY <1>1, <1>8, <2>1
  <2>3. ends[p - 1] >= s - 1
    BY <1>1, <1>4, <1>9, <1>10, SMTT(30)
  <2> QED
    BY <1>1, <1>10, <2>1, <2>2, <2>3
<1>13. CASE Restart
  <2>1. /\ restart_p # 0 /\ s <= M /\ PatternAt(p) \notin {Query, Star, str[s]}
        /\ p' = restart_p /\ restart_p' = restart_p
        /\ s' = restart_s + 1 /\ restart_s' = restart_s + 1
    BY <1>13 DEF Restart, Running, M
  <2>2. ends[restart_p - 1] # restart_s - 1
    <3> SUFFICES ASSUME ends[restart_p - 1] = restart_s - 1 PROVE FALSE
      OBVIOUS
    <3>1. ends[p - 1] = s - 1
      <4>1. /\ ends[p - 1] - (restart_s - 1) = p - restart_p
            /\ p - restart_p = s - restart_s /\ ends[p - 1] \in Int
            /\ s \in Int /\ restart_s \in Int
        BY <1>1, <1>4, <1>9, <1>10, <2>1
      <4> DEFINE b == ends[p - 1]
      <4> HIDE DEF b
      <4>2. b \in Int /\ b - (restart_s - 1) = s - restart_s
        BY <4>1 DEF b
      <4>3. b = s - 1
        BY <4>1, <4>2
      <4> QED
        BY <4>3 DEF b
    <3>2. CASE p <= L
      <4>1. pattern[p] \notin {Query, Star, str[s]}
        BY <1>5, <2>1, <3>2
      <4>2. ends[p] = s
        BY <1>1, <1>8, <3>1, <3>2, <4>1
      <4> QED
        BY <1>8, <3>2, <4>1, <4>2
    <3>3. CASE p = L + 1
      <4>1. ends[L] = M
        BY DEF Aligns
      <4> QED
        BY <1>1, <2>1, <3>1, <3>3, <4>1
    <3> QED
      BY <1>1, <3>2, <3>3
  <2>3. /\ ends[restart_p - 1] >= restart_s - 1 /\ ends[restart_p - 1] \in Int
        /\ restart_s \in Int /\ restart_p \in Int
    BY <1>1, <1>4, <1>9, <2>1
  <2>4. ends[restart_p - 1] >= (restart_s + 1) - 1
    BY <2>2, <2>3
  <2>5. ends[restart_p - 1] - ends[restart_p - 1] = restart_p - restart_p
    BY <2>3
  <2> QED
    BY <2>1, <2>4, <2>5
<1>14. CASE Mismatch \/ End
  BY <1>14 DEF Mismatch, End
<1> QED
  BY <1>11, <1>12, <1>13, <1>14 DEF GlobNext

LEMMA Products ==
  ASSUME NEW a \in Nat, NEW b \in Nat, NEW k \in Nat, a <= b
  PROVE  a * k <= b * k /\ (a + 1) * k = a * k + k /\ a * k \in Nat
<1>1. PICK d \in Nat : b = a + d
  <2>1. b - a \in Nat /\ b = a + (b - a)
    OBVIOUS
  <2> QED
    BY <2>1
<1>2. (a + d) * k = a * k + d * k /\ d * k \in Nat /\ a * k \in Nat
  OBVIOUS
<1>3. (a + 1) * k = a * k + k
  OBVIOUS
<1> QED
  BY <1>1, <1>2, <1>3

LEMMA GlobWorkStep == GlobInv /\ GlobNext => Work'
<1> SUFFICES ASSUME GlobInv, GlobNext PROVE Work'
  OBVIOUS
<1> DEFINE c == IF restart_p = 0 THEN 0 ELSE restart_s - 1
<1>1. /\ L \in Nat /\ M \in Nat /\ p \in 1..L + 1 /\ s \in 1..M + 1 /\ steps \in Nat
      /\ L' = L /\ M' = M /\ steps' = steps + 1
  BY DEF GlobInv, GlobTypes, GlobNext, L, M
<1>2. match = "none"
  BY DEF GlobNext, Advance, AtStar, Restart, Mismatch, End, Running
<1>3. restart_p \in Nat /\ restart_s \in Nat /\ (restart_p # 0 => restart_p >= 2 /\ restart_s \in 1..s)
  BY <1>1 DEF GlobInv, GlobTypes
<1>4. c \in Nat /\ c <= s - 1
  BY <1>1, <1>3
<1>5. steps <= c * (L + 1) + (p - 1)
  BY <1>2 DEF GlobInv, Work
<1>6. c' = IF restart_p' = 0 THEN 0 ELSE restart_s' - 1
  OBVIOUS
<1> HIDE DEF c
<1>7. L + 1 \in Nat /\ c * (L + 1) \in Nat /\ (c + 1) * (L + 1) = c * (L + 1) + (L + 1)
  BY <1>1, <1>4, Products
<1>8. c * (L + 1) + (L + 1) <= (L + 1) * (M + 1)
  <2>1. c <= M /\ c + 1 \in Nat /\ M + 1 \in Nat /\ c + 1 <= M + 1
    BY <1>1, <1>4
  <2>2. (c + 1) * (L + 1) <= (M + 1) * (L + 1)
    BY <1>7, <2>1, Products
  <2>3. (M + 1) * (L + 1) = (L + 1) * (M + 1)
    BY <1>1
  <2> QED
    BY <1>1, <1>7, <2>2, <2>3
<1>9. steps' <= (L + 1) * (M + 1)
  <2> DEFINE x == c * (L + 1)
             y == (L + 1) * (M + 1)
  <2>1. x \in Nat /\ y \in Nat /\ steps <= x + (p - 1) /\ x + (L + 1) <= y
    BY <1>1, <1>5, <1>7, <1>8
  <2> HIDE DEF x, y
  <2>2. steps' <= y
    BY <1>1, <2>1
  <2> QED
    BY <2>2 DEF y
<1>10. ASSUME match' = "none"
       PROVE  steps' <= c' * (L + 1) + (p' - 1)
  <2> DEFINE x == c * (L + 1)
  <2>0. x \in Nat /\ steps <= x + (p - 1)
    BY <1>5, <1>7
  <2>1. CASE Advance
    <3>1. c' = c /\ p' = p + 1
      BY <1>6, <2>1 DEF Advance, c
    <3> HIDE DEF x
    <3>2. steps' <= x + (p' - 1)
      BY <1>1, <2>0, <3>1
    <3> QED
      BY <3>1, <3>2 DEF x
  <2>2. CASE AtStar
    <3>1. c' = s - 1 /\ p' = p + 1
      BY <1>1, <1>6, <2>2 DEF AtStar
    <3>2. c * (L + 1) <= c' * (L + 1) /\ c' * (L + 1) \in Nat
      <4>1. c' \in Nat /\ c <= c'
        BY <1>1, <1>4, <3>1
      <4> QED
        BY <1>4, <1>7, <4>1, Products
    <3> DEFINE y == c' * (L + 1)
    <3>3. y \in Nat /\ x <= y
      BY <3>2
    <3> HIDE DEF x, y
    <3>4. steps' <= y + (p' - 1)
      BY <1>1, <2>0, <3>1, <3>3
    <3> QED
      BY <3>4 DEF y
  <2>3. CASE Restart
    <3>1. c' = c + 1 /\ p' = restart_p /\ p' >= 2 /\ p' \in Nat
      BY <1>1, <1>3, <1>6, <2>3 DEF Restart, c
    <3>2. c' * (L + 1) = x + (L + 1)
      BY <1>7, <3>1
    <3> HIDE DEF x
    <3>3. steps' <= (x + (L + 1)) + (p' - 1)
      BY <1>1, <2>0, <3>1
    <3> QED
      BY <3>2, <3>3
  <2>4. CASE Mismatch \/ End
    BY <1>10, <2>4 DEF Mismatch, End
  <2> QED
    BY <2>1, <2>2, <2>3, <2>4 DEF GlobNext
<1> QED
  BY <1>1, <1>6, <1>9, <1>10 DEF Work

\* What is found, and what is ruled out, is what the pattern means.
LEMMA GlobVerdictStep == GlobInv /\ GlobNext => Verdict'
<1> SUFFICES ASSUME GlobInv, GlobNext PROVE Verdict'
  OBVIOUS
<1>1. /\ L \in Nat /\ M \in Nat /\ p \in 1..L + 1 /\ s \in 1..M + 1 /\ GlobTypes
      /\ pattern' = pattern /\ str' = str
  BY DEF GlobInv, GlobTypes, GlobNext, L, M
<1>2. (Means' <=> Means) /\ (StarsApart' <=> StarsApart)
  BY <1>1 DEF Means, Aligns, StarsApart
<1>3. match = "none" /\ Reached /\ Forced
  BY DEF GlobNext, Advance, AtStar, Restart, Mismatch, End, Running, GlobInv
<1>4. ASSUME match' = "yes"
      PROVE  Means
  <2>1. s = M + 1 /\ OnlyStarsLeft
    BY <1>3, <1>4 DEF GlobNext, Advance, AtStar, Restart, Mismatch, End, Running, M
  <2>2. PICK ends \in [0..p - 1 -> 0..M] : Aligns(ends, p - 1, M)
    <3>1. s - 1 = M
      BY <1>1, <2>1
    <3> QED
      BY <1>3, <3>1 DEF Reached
  <2> DEFINE e == [k \in 0..L |-> IF k <= p - 1 THEN ends[k] ELSE M]
  <2>3. \A k \in 0..p - 1 : ends[k] \in 0..M
    BY <2>2
  <2>4. e \in [0..L -> 0..M]
    BY <1>1, <2>3
  <2>5. \A k \in 0..p - 1 : e[k] = ends[k]
    BY <1>1
  <2>6. \A k \in p..L : e[k] = M
    BY <1>1
  <2> HIDE DEF e
  <2>7. e[0] = 0 /\ e[p - 1] = M
    BY <1>1, <2>2, <2>5 DEF Aligns
  <2>8. e[L] = M
    <3>1. CASE p = L + 1
      BY <1>1, <2>7, <3>1
    <3>2. CASE p <= L
      BY <1>1, <2>6, <3>2
    <3> QED
      BY <1>1, <3>1, <3>2
  <2>9. ASSUME NEW k \in 1..L
        PROVE  IF pattern[k] = Star THEN e[k - 1] <= e[k]
               ELSE e[k] = e[k - 1] + 1 /\ pattern[k] \in {Query, str[e[k]]}
    <3>1. CASE k \in 1..p - 1
      <4>1. k \in 0..p - 1 /\ k - 1 \in 0..p - 1
        BY <1>1, <3>1
      <4>2. e[k] = ends[k] /\ e[k - 1] = ends[k - 1]
        BY <2>5, <4>1
      <4> QED
        BY <2>2, <3>1, <4>2 DEF Aligns
    <3>2. CASE k \in p..L
      <4>1. pattern[k] = Star
        BY <2>1, <3>2 DEF OnlyStarsLeft, L
      <4>2. k - 1 \in 0..L
        BY <1>1
      <4>3. e[k - 1] <= M
        BY <1>1, <2>4, <4>2
      <4> QED
        BY <2>6, <3>2, <4>1, <4>3
    <3> QED
      BY <1>1, <2>9, <3>1, <3>2
  <2>10. Aligns(e, L, M)
    BY <2>7, <2>8, <2>9 DEF Aligns
  <2> QED
    BY <2>4, <2>10 DEF Means, L, M
<1>5. ASSUME match' = "no", StarsApart, NEW ends \in [0..L -> 0..M], Aligns(ends, L, M)
      PROVE  FALSE
  <2>1. \A k \in 0..L : ends[k] \in 0..M
    BY <1>1
  <2>2. p - 1 \in 0..L /\ ends[p - 1] \in 0..M /\ ends[L] = M
    BY <1>1, <1>5, <2>1 DEF Aligns
  <2>3. \A k \in 1..L : pattern[k] # Star =>
           ends[k] = ends[k - 1] + 1 /\ pattern[k] \in {Query, str[ends[k]]}
    BY <1>5 DEF Aligns
  <2>4. ends[p - 1] >= s - 1 /\ (restart_p = 0 => ends[p - 1] = s - 1)
    <3>1. CASE restart_p = 0
      BY <1>1, <1>3, <1>5, <3>1 DEF Forced
    <3>2. CASE restart_p # 0
      <4>1. /\ ends[restart_p - 1] >= restart_s - 1
            /\ ends[p - 1] - ends[restart_p - 1] = p - restart_p
        BY <1>3, <1>5, <3>2 DEF Forced
      <4>2. /\ p - restart_p = s - restart_s /\ restart_s \in Nat /\ restart_p \in 2..p
        BY <1>1, <3>2 DEF GlobTypes
      <4>3. restart_p - 1 \in 0..L
        BY <1>1, <4>2
      <4> DEFINE a == ends[restart_p - 1]
                 b == ends[p - 1]
      <4>4. a \in Int /\ b \in Int /\ a >= restart_s - 1 /\ b - a = s - restart_s
        BY <2>1, <2>2, <4>1, <4>2, <4>3
      <4> HIDE DEF a, b
      <4>5. b >= s - 1
        BY <1>1, <4>2, <4>4
      <4> QED
        BY <3>2, <4>5 DEF b
    <3> QED
      BY <3>1, <3>2
  <2>5. CASE Mismatch
    <3>1. s <= M /\ restart_p = 0 /\ PatternAt(p) \notin {Query, Star, str[s]}
      BY <2>5 DEF Mismatch, Running, M
    <3>2. CASE p <= L
      <4>1. PatternAt(p) = pattern[p] /\ p \in 1..L
        BY <1>1, <3>2, CharacterAt
      <4>2. ends[p] = s /\ pattern[p] \in {Query, str[ends[p]]}
        BY <1>1, <2>3, <2>4, <3>1, <4>1
      <4> QED
        BY <3>1, <4>1, <4>2
    <3>3. CASE p = L + 1
      BY <1>1, <2>2, <2>4, <3>1, <3>3
    <3> QED
      BY <1>1, <3>2, <3>3
  <2>6. CASE End
    <3>1. s = M + 1 /\ ~OnlyStarsLeft
      BY <1>5, <2>6 DEF End, M
    <3>2. PICK k \in p..L : pattern[k] # Star
      BY <3>1 DEF OnlyStarsLeft, L
    <3>3. k \in 1..L /\ k - 1 \in 0..L /\ k - 1 \in p - 1..L /\ k \in 0..L
      BY <1>1, <3>2
    <3>4. ends[p - 1] <= ends[k - 1]
      BY <1>1, <1>5, <2>2, <3>3, Monotone
    <3>5. ends[k] = ends[k - 1] + 1 /\ ends[k] \in 0..M /\ ends[k - 1] \in 0..M
      BY <2>1, <2>3, <3>2, <3>3
    <3> QED
      BY <1>1, <2>2, <2>4, <3>1, <3>4, <3>5
  <2>7. CASE Advance \/ AtStar \/ Restart
    BY <1>3, <1>5, <2>7 DEF Advance, AtStar, Restart
  <2> QED
    BY <2>5, <2>6, <2>7 DEF GlobNext
<1>6. match' = "no" /\ StarsApart => ~Means
  BY <1>5 DEF Means, L, M
<1> QED
  BY <1>2, <1>4, <1>6 DEF Verdict

(***************************************************************************)
(* Whatever the two are, osc_glob_match() says yes only when some split of *)
(* the string gives each star a part and each other character of the       *)
(* pattern its own, and takes at most (m + 1)(n + 1) iterations. It says   *)
(* no only when there is none, if stars are in the pattern or in the       *)
(* string and not in both: "*" refuses the name "*a".                      *)
(***************************************************************************)
THEOREM GlobIsRightAlways == GlobSpec => []GlobIsRight
<1>1. GlobInv /\ [GlobNext]_glob_vars => GlobInv'
  <2> SUFFICES ASSUME GlobInv, [GlobNext]_glob_vars PROVE GlobInv'
    OBVIOUS
  <2>1. CASE GlobNext
    BY <2>1, GlobTypesStep, GlobReachedStep, GlobForcedStep, GlobWorkStep, GlobVerdictStep DEF GlobInv
  <2>2. CASE UNCHANGED glob_vars
    <3>1. GlobTypes' <=> GlobTypes
      BY <2>2 DEF glob_vars, GlobTypes, L, M
    <3>2. Reached' <=> Reached
      BY <2>2 DEF glob_vars, Reached, Aligns
    <3>3. Forced' <=> Forced
      BY <2>2 DEF glob_vars, Forced, Aligns, L, M, StarsApart
    <3>4. Work' <=> Work
      BY <2>2 DEF glob_vars, Work, L, M
    <3>5. Verdict' <=> Verdict
      BY <2>2 DEF glob_vars, Verdict, Means, Aligns, StarsApart
    <3> QED
      BY <2>2, <3>1, <3>2, <3>3, <3>4, <3>5 DEF glob_vars, GlobInv
  <2> QED
    BY <2>1, <2>2
<1>2. GlobInv => GlobIsRight
  <2> SUFFICES ASSUME GlobInv PROVE GlobIsRight
    OBVIOUS
  <2>1. steps <= (Len(pattern) + 1) * (Len(str) + 1)
    BY DEF GlobInv, Work, L, M
  <2>2. (match = "yes" => Means) /\ (match = "no" /\ StarsApart => ~Means)
    BY DEF GlobInv, Verdict
  <2> QED
    BY <2>1, <2>2 DEF GlobIsRight
<1> QED
  BY <1>1, <1>2, GlobInitOK, PTL DEF GlobSpec

=============================================================================
