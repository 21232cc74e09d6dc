--------------------------- MODULE InMemoryTransport ---------------------------
(***************************************************************************)
(* execution/transport/in_memory.py, at the grain at which its threads     *)
(* interleave: publish() looks its channel up in a defaultdict, which may  *)
(* have to make the deque, and appends to the deque it got under the       *)
(* deque's lock; the iterator of a subscription copies the table and goes  *)
(* through the copy one channel at a time, popping under that lock.        *)
(*                                                                         *)
(* On a miss, defaultdict calls its factory, a Python function, and stores *)
(* the result afterwards whether or not another thread stored one in the   *)
(* meantime. A deque is named by the message whose publish() made it.      *)
(***************************************************************************)
EXTENDS Naturals, Sequences

CONSTANTS Messages,     \* messages to publish, and names for the deques
          Names,        \* channel names
          ChannelOf,    \* ChannelOf[m]: the channel m is published to
          Publishers,   \* threads that publish
          Program,      \* Program[p]: the messages p publishes, in order
          Subscribers,  \* threads that iterate over a subscription
          Pattern,      \* Pattern[s]: the channels that match the pattern of s
          Pollers,      \* subscribers that subscribe again when an iteration ends;
                        \* the others are callback threads, closed by their owner
          None          \* no message, no deque

ASSUME TransportAssumption ==
    /\ ChannelOf \in [Messages -> Names]
    /\ Program \in [Publishers -> Seq(Messages)]
    /\ Pattern \in [Subscribers -> SUBSET Names]
    /\ Pollers \subseteq Subscribers
    /\ None \notin Messages
    /\ \A p, q \in Publishers : \A i \in DOMAIN Program[p], k \in DOMAIN Program[q] :
          Program[p][i] = Program[q][k] => p = q /\ i = k

VARIABLES
    ppc,       \* ppc[p]: "lookup", "make" a deque, or "append" to ref[p]
    left,      \* left[p]: messages p has still to publish
    ref,       \* ref[p]: the deque the lookup returned
    table,     \* channels in the order in which they entered _queues
    dequeOf,   \* dequeOf[ch]: the deque _queues holds for ch
    content,   \* content[d]: messages in deque d
    taken,     \* taken[ch]: messages popped from ch, in order
    spc,       \* spc[s]: "top" of the while, "scan", "handle" a message, "ended"
    closed,    \* closed[s]: the _closed flag of the subscription of s
    snap,      \* snap[s]: the copy of the table s goes through
    pos,       \* pos[s]: index of the channel s looks at next
    seen       \* seen[s]: messages that were waiting when snap[s] was made (history)

publishers  == <<ppc, left, ref>>
queues      == <<table, dequeOf, content, taken>>
subscribers == <<spc, closed, snap, pos, seen>>
vars        == <<publishers, queues, subscribers>>

Occurs(m, seq) == \E i \in DOMAIN seq : seq[i] = m

Init ==
    /\ ppc = [p \in Publishers |-> "lookup"]
    /\ left = Program
    /\ ref = [p \in Publishers |-> None]
    /\ table = <<>>
    /\ dequeOf = [ch \in Names |-> None]
    /\ content = [d \in Messages |-> <<>>]
    /\ taken = [ch \in Names |-> <<>>]
    /\ spc = [s \in Subscribers |-> "top"]
    /\ closed = [s \in Subscribers |-> FALSE]
    /\ snap = [s \in Subscribers |-> <<>>]
    /\ pos = [s \in Subscribers |-> 1]
    /\ seen = [s \in Subscribers |-> {}]

-----------------------------------------------------------------------------
(* publish()                                                               *)

Message(p) == Head(left[p])

\* self._queues[channel]: a hit returns the deque, a miss calls the factory.
Lookup(p) ==
    /\ ppc[p] = "lookup"
    /\ left[p] # <<>>
    /\ LET d == dequeOf[ChannelOf[Message(p)]]
       IN  IF d = None
           THEN /\ ppc' = [ppc EXCEPT ![p] = "make"]
                /\ UNCHANGED ref
           ELSE /\ ppc' = [ppc EXCEPT ![p] = "append"]
                /\ ref' = [ref EXCEPT ![p] = d]
    /\ UNCHANGED <<left, queues, subscribers>>

StoreNowhere(p) ==                      \* mutant: _queues.get(channel, a new deque)
    /\ ppc[p] = "make"
    /\ ref' = [ref EXCEPT ![p] = Message(p)]
    /\ ppc' = [ppc EXCEPT ![p] = "append"]
    /\ UNCHANGED <<left, queues, subscribers>>

\* The new deque is stored; a channel keeps its place in the table.
Store(p) ==
    /\ ppc[p] = "make"
    /\ LET ch == ChannelOf[Message(p)]
       IN  /\ table' = IF Occurs(ch, table) THEN table ELSE Append(table, ch)
           /\ dequeOf' = [dequeOf EXCEPT ![ch] = Message(p)]
    /\ ref' = [ref EXCEPT ![p] = Message(p)]
    /\ ppc' = [ppc EXCEPT ![p] = "append"]
    /\ UNCHANGED <<left, content, taken, subscribers>>

AppendLeft(p) ==                        \* mutant: appendleft for append
    /\ ppc[p] = "append"
    /\ content' = [content EXCEPT ![ref[p]] = <<Message(p)>> \o @]
    /\ left' = [left EXCEPT ![p] = Tail(@)]
    /\ ref' = [ref EXCEPT ![p] = None]
    /\ ppc' = [ppc EXCEPT ![p] = "lookup"]
    /\ UNCHANGED <<table, dequeOf, taken, subscribers>>

AppendToDeque(p) ==
    /\ ppc[p] = "append"
    /\ content' = [content EXCEPT ![ref[p]] = Append(@, Message(p))]
    /\ left' = [left EXCEPT ![p] = Tail(@)]
    /\ ref' = [ref EXCEPT ![p] = None]
    /\ ppc' = [ppc EXCEPT ![p] = "lookup"]
    /\ UNCHANGED <<table, dequeOf, taken, subscribers>>

-----------------------------------------------------------------------------
(* The iterator of InMemorySubscription                                    *)

Queued(ch) == IF dequeOf[ch] = None THEN <<>> ELSE content[dequeOf[ch]]

SnapshotOfKeys(s) ==                    \* mutant: list(_queues) for list(_queues.items())
    /\ spc[s] = "top"
    /\ ~closed[s]
    /\ snap' = [snap EXCEPT ![s] =
                  [i \in DOMAIN table |-> [channel |-> table[i], deque |-> table[i]]]]
    /\ pos' = [pos EXCEPT ![s] = 1]
    /\ seen' = [seen EXCEPT ![s] = {m \in Messages : Occurs(m, Queued(ChannelOf[m]))}]
    /\ spc' = [spc EXCEPT ![s] = "scan"]
    /\ UNCHANGED <<publishers, queues, closed>>

SnapshotFromSecond(s) ==                \* mutant: the scan begins one channel late
    /\ spc[s] = "top"
    /\ ~closed[s]
    /\ snap' = [snap EXCEPT ![s] =
                  [i \in DOMAIN table |-> [channel |-> table[i], deque |-> dequeOf[table[i]]]]]
    /\ pos' = [pos EXCEPT ![s] = 2]
    /\ seen' = [seen EXCEPT ![s] = {m \in Messages : Occurs(m, Queued(ChannelOf[m]))}]
    /\ spc' = [spc EXCEPT ![s] = "scan"]
    /\ UNCHANGED <<publishers, queues, closed>>

\* while not self._closed: a fresh copy of the table.
Snapshot(s) ==
    /\ spc[s] = "top"
    /\ ~closed[s]
    /\ snap' = [snap EXCEPT ![s] =
                  [i \in DOMAIN table |-> [channel |-> table[i], deque |-> dequeOf[table[i]]]]]
    /\ pos' = [pos EXCEPT ![s] = 1]
    /\ seen' = [seen EXCEPT ![s] = {m \in Messages : Occurs(m, Queued(ChannelOf[m]))}]
    /\ spc' = [spc EXCEPT ![s] = "scan"]
    /\ UNCHANGED <<publishers, queues, closed>>

SeesClosed(s) ==
    /\ spc[s] = "top"
    /\ closed[s]
    /\ spc' = [spc EXCEPT ![s] = "ended"]
    /\ UNCHANGED <<publishers, queues, closed, snap, pos, seen>>

PassAny(s) ==                           \* mutant: a channel with messages may be skipped
    /\ spc[s] = "scan"
    /\ pos[s] <= Len(snap[s])
    /\ pos' = [pos EXCEPT ![s] = @ + 1]
    /\ UNCHANGED <<publishers, queues, spc, closed, snap, seen>>

\* One channel of the copy: skipped, or its oldest message popped and yielded.
Pass(s) ==
    /\ spc[s] = "scan"
    /\ pos[s] <= Len(snap[s])
    /\ LET e == snap[s][pos[s]]
       IN  e.channel \notin Pattern[s] \/ content[e.deque] = <<>>
    /\ pos' = [pos EXCEPT ![s] = @ + 1]
    /\ UNCHANGED <<publishers, queues, spc, closed, snap, seen>>

Peek(s) ==                              \* mutant: the message stays in the deque
    /\ spc[s] = "scan"
    /\ pos[s] <= Len(snap[s])
    /\ LET e == snap[s][pos[s]]
       IN  /\ e.channel \in Pattern[s]
           /\ content[e.deque] # <<>>
           /\ taken' = [taken EXCEPT ![e.channel] = Append(@, Head(content[e.deque]))]
    /\ spc' = [spc EXCEPT ![s] = "handle"]
    /\ UNCHANGED <<publishers, table, dequeOf, content, closed, snap, pos, seen>>

Pop(s) ==
    /\ spc[s] = "scan"
    /\ pos[s] <= Len(snap[s])
    /\ LET e == snap[s][pos[s]]
       IN  /\ e.channel \in Pattern[s]
           /\ content[e.deque] # <<>>
           /\ taken' = [taken EXCEPT ![e.channel] = Append(@, Head(content[e.deque]))]
           /\ content' = [content EXCEPT ![e.deque] = Tail(@)]
    /\ spc' = [spc EXCEPT ![s] = "handle"]
    /\ UNCHANGED <<publishers, table, dequeOf, closed, snap, pos, seen>>

\* The copy held no message for the pattern: the iterator ends.
Exhausted(s) ==
    /\ spc[s] = "scan"
    /\ pos[s] > Len(snap[s])
    /\ spc' = [spc EXCEPT ![s] = "ended"]
    /\ UNCHANGED <<publishers, queues, closed, snap, pos, seen>>

\* The consumer asks for the next message, or leaves its for loop.
Resume(s) ==
    /\ spc[s] = "handle"
    /\ spc' = [spc EXCEPT ![s] = "top"]
    /\ UNCHANGED <<publishers, queues, closed, snap, pos, seen>>

Leave(s) ==
    /\ spc[s] = "handle"
    /\ s \in Pollers
    /\ spc' = [spc EXCEPT ![s] = "ended"]
    /\ UNCHANGED <<publishers, queues, closed, snap, pos, seen>>

\* A callback subscription is closed by its owner, while its thread is anywhere.
Close(s) ==
    /\ s \notin Pollers
    /\ ~closed[s]
    /\ closed' = [closed EXCEPT ![s] = TRUE]
    /\ UNCHANGED <<publishers, queues, spc, snap, pos, seen>>

\* A poller subscribes anew.
Subscribe(s) ==
    /\ s \in Pollers
    /\ spc[s] = "ended"
    /\ spc' = [spc EXCEPT ![s] = "top"]
    /\ UNCHANGED <<publishers, queues, closed, snap, pos, seen>>

-----------------------------------------------------------------------------
Publisher(p) == Lookup(p) \/ Store(p) \/ AppendToDeque(p)

Subscriber(s) == \/ Snapshot(s) \/ SeesClosed(s) \/ Pass(s) \/ Pop(s)
                 \/ Exhausted(s) \/ Resume(s) \/ Leave(s) \/ Subscribe(s)

Next == \/ \E p \in Publishers : Publisher(p)
        \/ \E s \in Subscribers : Subscriber(s) \/ Close(s)

Fairness == /\ \A p \in Publishers : WF_vars(Publisher(p))
            /\ \A s \in Subscribers : WF_vars(Subscriber(s))

Spec == Init /\ [][Next]_vars /\ Fairness
-----------------------------------------------------------------------------
(* Properties *)

Published(m) == \A p \in Publishers :
                  Occurs(m, Program[p]) => ~Occurs(m, left[p])

Taken(m) == Occurs(m, taken[ChannelOf[m]])

\* Only one thread publishes to the channel, as with "jobs.<id>.cfg".
Sole(ch) == \A p, q \in Publishers :
              /\ \E i \in DOMAIN Program[p] : ChannelOf[Program[p][i]] = ch
              /\ \E i \in DOMAIN Program[q] : ChannelOf[Program[q][i]] = ch
              => p = q

Waiting(m) == Occurs(m, Queued(ChannelOf[m]))

TypeOK ==
    /\ ppc \in [Publishers -> {"lookup", "make", "append"}]
    /\ left \in [Publishers -> Seq(Messages)]
    /\ ref \in [Publishers -> Messages \union {None}]
    /\ table \in Seq(Names)
    /\ dequeOf \in [Names -> Messages \union {None}]
    /\ content \in [Messages -> Seq(Messages)]
    /\ taken \in [Names -> Seq(Messages)]
    /\ spc \in [Subscribers -> {"top", "scan", "handle", "ended"}]
    /\ closed \in [Subscribers -> BOOLEAN]
    /\ snap \in [Subscribers -> Seq([channel : Names, deque : Messages])]
    /\ pos \in [Subscribers -> Nat \ {0}]
    /\ seen \in [Subscribers -> SUBSET Messages]

(* However publishers and subscriptions interleave, no message is handed out *)
(* twice: the deque is popped under its lock.                                *)
NeverTwice ==
    \A ch \in Names : \A i, k \in DOMAIN taken[ch] :
        taken[ch][i] = taken[ch][k] => i = k

(* A subscription takes from a channel only when every message that waited,  *)
(* when it copied the table, in a channel created before it is gone: one who *)
(* drains the channels serves them in order of creation.                     *)
OldestChannelFirst ==
    \A s \in Subscribers : spc[s] = "handle" =>
        \A m \in seen[s], k \in 1 .. (pos[s] - 1) :
            /\ snap[s][k].channel = ChannelOf[m]
            /\ ChannelOf[m] \in Pattern[s] /\ Sole(ChannelOf[m])
            => Taken(m)

(* An iteration that ends although nobody closed it or left it has missed    *)
(* nothing that was waiting, for its pattern, when its last scan began.      *)
EndsDrained ==
    \A s \in Subscribers : spc[s] = "ended" /\ pos[s] > Len(snap[s]) /\ ~closed[s] =>
        \A m \in seen[s] : ChannelOf[m] \in Pattern[s] /\ Sole(ChannelOf[m]) => Taken(m)

(* A message published to a channel of one publisher reaches a subscription, *)
(* as long as one that matches keeps polling.                                *)
Delivered ==
    \A m \in Messages :
        (Sole(ChannelOf[m]) /\ \E s \in Pollers : ChannelOf[m] \in Pattern[s]) =>
            (Published(m) ~> Taken(m))

(* Channels with one publisher are channels in the sense of the abstract     *)
(* specification: publish() is one step and nothing is lost or reordered.    *)
SoleNames == {ch \in Names : Sole(ch)}

Abstract == INSTANCE Channels WITH
    Names <- SoleNames,
    queue <- [ch \in SoleNames |-> Queued(ch)],
    taken <- [ch \in SoleNames |-> taken[ch]]

ImplementsChannels == Abstract!Spec

(* "publish() appends to the appropriate queue" (InMemorySemantivaTransport):*)
(* a published message waits in its channel until it is taken.               *)
PublishedIsQueued == \A m \in Messages : Published(m) => Waiting(m) \/ Taken(m)
================================================================================
