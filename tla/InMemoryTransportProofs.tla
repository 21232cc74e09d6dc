------------------------ MODULE InMemoryTransportProofs ------------------------
(***************************************************************************)
(* What InMemoryTransport keeps, for any publishers, channels and          *)
(* subscriptions: every message is in one place, subscriptions serve the   *)
(* channels in order of creation and miss nothing of what waited, and the  *)
(* channels of one publisher are those of Channels.                        *)
(***************************************************************************)
EXTENDS InMemoryTransport, TLAPS

Distinct(seq) == \A i, k \in DOMAIN seq : seq[i] = seq[k] => i = k

Channel(p) == ChannelOf[Message(p)]

\* What a publisher has still to publish, and the deque it is about to append to.
PublishersOk ==
    \A p \in Publishers :
        /\ Distinct(left[p])
        /\ \A m \in Messages : Occurs(m, left[p]) => Occurs(m, Program[p])
        /\ ppc[p] # "lookup" => left[p] # <<>>
        /\ ppc[p] = "append" => ref[p] \in Messages /\ ChannelOf[ref[p]] = Channel(p)

\* A channel is in the table once it has a deque, and the deque is its own.
TableOk ==
    /\ \A ch \in Names : dequeOf[ch] # None => Occurs(ch, table) /\ ChannelOf[dequeOf[ch]] = ch
    /\ \A i \in DOMAIN table : dequeOf[table[i]] # None

\* A message is still to be published, in one deque of its channel, or taken.
OnePlace ==
    /\ \A d \in Messages : Distinct(content[d])
    /\ \A ch \in Names : Distinct(taken[ch])
    /\ \A d, m \in Messages : Occurs(m, content[d]) =>
         /\ ChannelOf[m] = ChannelOf[d]
         /\ ~Taken(m)
         /\ \A p \in Publishers : ~Occurs(m, left[p])
         /\ \A e \in Messages : Occurs(m, content[e]) => d = e
    /\ \A ch \in Names, m \in Messages : Occurs(m, taken[ch]) =>
         /\ ChannelOf[m] = ch
         /\ \A p \in Publishers : ~Occurs(m, left[p])

\* The publication that deque d is named after, if it has not ended, has made d.
Made(d) == \A p \in Publishers : Occurs(d, left[p]) =>
             ppc[p] = "append" /\ ref[p] = d /\ Message(p) = d

DequesMade ==
    /\ \A ch \in Names : dequeOf[ch] # None => Made(dequeOf[ch])
    /\ \A p \in Publishers : ppc[p] = "append" => Made(ref[p])
    /\ \A d \in Messages : content[d] # <<>> => Made(d)

\* The deques of a copy of the table, and how far its subscription has come.
SnapshotsOk ==
    \A s \in Subscribers :
        /\ pos[s] <= Len(snap[s]) + 1
        /\ \A k \in DOMAIN snap[s] : ChannelOf[snap[s][k].deque] = snap[s][k].channel

\* A channel of one publisher has one deque, which everyone who holds one holds.
SoleDeque ==
    /\ \A p \in Publishers :
         /\ ppc[p] = "make" /\ Sole(Channel(p)) => dequeOf[Channel(p)] = None
         /\ ppc[p] = "append" /\ Sole(Channel(p)) => ref[p] = dequeOf[Channel(p)]
    /\ \A d, m \in Messages : Occurs(m, content[d]) /\ Sole(ChannelOf[m]) =>
         dequeOf[ChannelOf[m]] = d
    /\ \A s \in Subscribers : \A k \in DOMAIN snap[s] : Sole(snap[s][k].channel) =>
         snap[s][k].deque = dequeOf[snap[s][k].channel]

\* The messages that waited when s made its copy, as s goes through it.
SeenOk ==
    \A s \in Subscribers : \A m \in seen[s] : Sole(ChannelOf[m]) =>
        /\ Waiting(m) \/ Taken(m)
        /\ \E k \in DOMAIN snap[s] : snap[s][k].channel = ChannelOf[m]
        /\ ChannelOf[m] \in Pattern[s] =>
             \A k \in 1 .. (pos[s] - 1) : snap[s][k].channel = ChannelOf[m] => Taken(m)

IInv == /\ TypeOK /\ PublishersOk /\ TableOk /\ OnePlace /\ DequesMade
        /\ SnapshotsOk /\ SoleDeque /\ SeenOk

-----------------------------------------------------------------------------
(* Sequences, by what occurs in them *)

\* Appending adds one element, and keeps a sequence free of repetitions.
LEMMA Appended ==
    ASSUME NEW S, NEW seq \in Seq(S), NEW m \in S
    PROVE  /\ Append(seq, m) \in Seq(S)
           /\ Append(seq, m) # <<>>
           /\ \A x \in S : Occurs(x, Append(seq, m)) <=> Occurs(x, seq) \/ x = m
           /\ Distinct(seq) /\ ~Occurs(m, seq) => Distinct(Append(seq, m))
<1> DEFINE app == Append(seq, m)
<1>1. /\ app \in Seq(S) /\ Len(seq) \in Nat
      /\ DOMAIN seq = 1 .. Len(seq) /\ DOMAIN app = 1 .. (Len(seq) + 1)
      /\ \A i \in DOMAIN seq : app[i] = seq[i]
      /\ app[Len(seq) + 1] = m
  OBVIOUS
<1> HIDE DEF app
<1>2. app # <<>>
  BY <1>1
<1>3. \A x \in S : Occurs(x, app) <=> Occurs(x, seq) \/ x = m
  BY <1>1 DEF Occurs
<1>4. Distinct(seq) /\ ~Occurs(m, seq) => Distinct(app)
  BY <1>1 DEF Occurs, Distinct
<1> QED
  BY <1>1, <1>2, <1>3, <1>4 DEF app

\* Taking the head of a sequence without repetitions leaves the other elements.
LEMMA Taking ==
    ASSUME NEW S, NEW seq \in Seq(S), seq # <<>>
    PROVE  /\ Tail(seq) \in Seq(S)
           /\ Head(seq) \in S /\ Occurs(Head(seq), seq)
           /\ \A x \in S : Occurs(x, seq) <=> x = Head(seq) \/ Occurs(x, Tail(seq))
           /\ Distinct(seq) => Distinct(Tail(seq)) /\ ~Occurs(Head(seq), Tail(seq))
<1> DEFINE h == Head(seq)
           t == Tail(seq)
<1>1. /\ t \in Seq(S) /\ h \in S /\ Len(seq) \in Nat \ {0}
      /\ DOMAIN seq = 1 .. Len(seq) /\ DOMAIN t = 1 .. (Len(seq) - 1)
      /\ \A i \in DOMAIN t : t[i] = seq[i + 1]
      /\ seq[1] = h
  OBVIOUS
<1> HIDE DEF h, t
<1>2. \A i \in DOMAIN seq : i = 1 \/ (i - 1 \in DOMAIN t /\ seq[i] = t[i - 1])
  BY <1>1
<1>3. \A x \in S : Occurs(x, seq) <=> x = h \/ Occurs(x, t)
  BY <1>1, <1>2 DEF Occurs
<1>4. \A i \in DOMAIN t : i \in Nat \ {0} /\ i + 1 \in DOMAIN seq
  BY <1>1
<1>5. Distinct(seq) => Distinct(t)
  BY <1>1, <1>4 DEF Distinct
<1>6. Distinct(seq) => ~Occurs(h, t)
  <2> SUFFICES ASSUME Distinct(seq), NEW i \in DOMAIN t, t[i] = h PROVE FALSE
    BY DEF Occurs
  <2>1. i + 1 = 1
    BY <1>1, <1>4 DEF Distinct
  <2> QED
    BY <1>4, <2>1
<1> QED
  <2>1. Occurs(h, seq)
    BY <1>1 DEF Occurs
  <2> QED
    BY <1>1, <1>3, <1>5, <1>6, <2>1 DEF h, t

\* No element occurs in the empty sequence, and some element in any other.
LEMMA Nothing ==
    ASSUME NEW S, NEW seq \in Seq(S)
    PROVE  seq = <<>> <=> \A x \in S : ~Occurs(x, seq)
<1>1. seq # <<>> => Occurs(seq[1], seq) /\ seq[1] \in S
  BY DEF Occurs
<1> QED
  BY <1>1 DEF Occurs

-----------------------------------------------------------------------------
(* The steps *)

\* A subscription moves on and takes nothing, or its owner closes it.
Moves(s) == SeesClosed(s) \/ Exhausted(s) \/ Resume(s) \/ Leave(s) \/ Subscribe(s) \/ Close(s)

LEMMA ByKind ==
    ASSUME [Next]_vars
    PROVE  \/ \E p \in Publishers : Lookup(p) \/ Store(p) \/ AppendToDeque(p)
           \/ \E s \in Subscribers : Snapshot(s) \/ Pass(s) \/ Pop(s) \/ Moves(s)
           \/ UNCHANGED vars
  BY DEF Next, Publisher, Subscriber, Moves

\* A message has one publisher.
LEMMA OneOwner ==
    ASSUME NEW p \in Publishers, NEW q \in Publishers, NEW m,
           Occurs(m, Program[p]), Occurs(m, Program[q])
    PROVE  p = q
  BY TransportAssumption DEF TransportAssumption, Occurs

\* A publisher's message is one it still has to publish.
LEMMA MessageFacts ==
    ASSUME TypeOK, PublishersOk, NEW p \in Publishers, ppc[p] # "lookup" \/ left[p] # <<>>
    PROVE  /\ Message(p) \in Messages
           /\ Occurs(Message(p), left[p])
           /\ Occurs(Message(p), Program[p])
           /\ Channel(p) \in Names
           /\ \A q \in Publishers : Occurs(Message(p), left[q]) => q = p
<1>1. left[p] # <<>> /\ left[p] \in Seq(Messages)
  BY DEF TypeOK, PublishersOk
<1>2. Message(p) \in Messages /\ Occurs(Message(p), left[p])
  BY <1>1, Taking DEF Message
<1>3. Occurs(Message(p), Program[p])
  BY <1>2 DEF PublishersOk
<1>4. Channel(p) \in Names
  BY <1>2, TransportAssumption DEF Channel, TransportAssumption
<1>5. \A q \in Publishers : Occurs(Message(p), left[q]) => q = p
  BY <1>2, <1>3, OneOwner DEF PublishersOk
<1> QED
  BY <1>2, <1>3, <1>4, <1>5

\* What publish() moves when it appends.
LEMMA AppendFacts ==
    ASSUME TypeOK, PublishersOk, NEW p \in Publishers, AppendToDeque(p)
    PROVE  /\ ref[p] \in Messages /\ ChannelOf[ref[p]] = Channel(p)
           /\ left' \in [Publishers -> Seq(Messages)]
           /\ content' \in [Messages -> Seq(Messages)]
           /\ \A q \in Publishers : q # p => left'[q] = left[q]
           /\ \A q \in Publishers : Distinct(left'[q])
           /\ \A q \in Publishers, x \in Messages :
                 Occurs(x, left'[q]) <=> Occurs(x, left[q]) /\ x # Message(p)
           /\ \A d \in Messages : d # ref[p] => content'[d] = content[d]
           /\ \A d, x \in Messages :
                 Occurs(x, content'[d]) <=>
                   Occurs(x, content[d]) \/ (d = ref[p] /\ x = Message(p))
           /\ Distinct(content[ref[p]]) /\ ~Occurs(Message(p), content[ref[p]]) =>
                 Distinct(content'[ref[p]])
           /\ content'[ref[p]] = Append(content[ref[p]], Message(p))
<1> DEFINE m == Message(p)
           d == ref[p]
<1>1. /\ d \in Messages /\ ChannelOf[d] = Channel(p) /\ m \in Messages
      /\ left[p] \in Seq(Messages) /\ left[p] # <<>> /\ content[d] \in Seq(Messages)
      /\ Distinct(left[p]) /\ m = Head(left[p])
  BY MessageFacts DEF TypeOK, PublishersOk, AppendToDeque, Message
<1>2. /\ left' = [left EXCEPT ![p] = Tail(left[p])]
      /\ content' = [content EXCEPT ![d] = Append(content[d], m)]
      /\ left \in [Publishers -> Seq(Messages)] /\ content \in [Messages -> Seq(Messages)]
  BY DEF TypeOK, AppendToDeque
<1>3. /\ Tail(left[p]) \in Seq(Messages) /\ Distinct(Tail(left[p]))
      /\ \A x \in Messages : Occurs(x, Tail(left[p])) <=> Occurs(x, left[p]) /\ x # m
  BY <1>1, Taking
<1>4. \A q \in Publishers : q # p => Distinct(left[q]) /\ ~Occurs(m, left[q])
  BY MessageFacts DEF PublishersOk, AppendToDeque
<1>5. /\ Append(content[d], m) \in Seq(Messages)
      /\ \A x \in Messages : Occurs(x, Append(content[d], m)) <=> Occurs(x, content[d]) \/ x = m
      /\ Distinct(content[d]) /\ ~Occurs(m, content[d]) => Distinct(Append(content[d], m))
  BY <1>1, Appended
<1> HIDE DEF m, d
<1>6. /\ left' \in [Publishers -> Seq(Messages)] /\ content' \in [Messages -> Seq(Messages)]
      /\ left'[p] = Tail(left[p]) /\ \A q \in Publishers : q # p => left'[q] = left[q]
      /\ content'[d] = Append(content[d], m)
      /\ \A e \in Messages : e # d => content'[e] = content[e]
  BY <1>1, <1>2, <1>3, <1>5
<1>7. /\ \A q \in Publishers : Distinct(left'[q])
      /\ \A q \in Publishers, x \in Messages :
            Occurs(x, left'[q]) <=> Occurs(x, left[q]) /\ x # m
  BY <1>3, <1>4, <1>6
<1>8. \A e, x \in Messages :
        Occurs(x, content'[e]) <=> Occurs(x, content[e]) \/ (e = d /\ x = m)
  BY <1>5, <1>6
<1> QED
  BY <1>1, <1>5, <1>6, <1>7, <1>8 DEF m, d

\* What a subscription moves when it pops, and from where.
LEMMA PopFacts ==
    ASSUME TypeOK, SnapshotsOk, NEW s \in Subscribers, Pop(s)
    PROVE  \E d, m \in Messages :
             /\ ChannelOf[d] \in Names
             /\ pos[s] \in DOMAIN snap[s] /\ snap[s][pos[s]].deque = d
             /\ content[d] # <<>> /\ m = Head(content[d]) /\ Occurs(m, content[d])
             /\ content' = [content EXCEPT ![d] = Tail(content[d])]
             /\ taken' = [taken EXCEPT ![ChannelOf[d]] = Append(taken[ChannelOf[d]], m)]
             /\ content' \in [Messages -> Seq(Messages)]
             /\ taken' \in [Names -> Seq(Messages)]
             /\ \A e, x \in Messages : Distinct(content[d]) =>
                   (Occurs(x, content'[e]) <=> Occurs(x, content[e]) /\ ~(e = d /\ x = m))
             /\ \A ch \in Names, x \in Messages :
                   Occurs(x, taken'[ch]) <=> Occurs(x, taken[ch]) \/ (ch = ChannelOf[d] /\ x = m)
             /\ \A e \in Messages : Distinct(content[e]) => Distinct(content'[e])
             /\ \A ch \in Names : Distinct(taken[ch]) /\ ~Occurs(m, taken[ch]) =>
                   Distinct(taken'[ch])
<1> DEFINE e == snap[s][pos[s]]
           Entries == [channel : Names, deque : Messages]
<1>0. snap[s] \in Seq(Entries) /\ pos[s] \in Nat \ {0} /\ pos[s] <= Len(snap[s])
  BY DEF TypeOK, Pop
<1>1. pos[s] \in DOMAIN snap[s] /\ e \in Entries
  <2> HIDE DEF Entries
  <2> QED
    BY <1>0
<1>2. /\ content[e.deque] # <<>> /\ e.channel = ChannelOf[e.deque]
      /\ taken' = [taken EXCEPT ![e.channel] = Append(taken[e.channel], Head(content[e.deque]))]
      /\ content' = [content EXCEPT ![e.deque] = Tail(content[e.deque])]
  BY <1>1 DEF SnapshotsOk, Pop
<1> HIDE DEF e
<1> DEFINE d == e.deque
           m == Head(content[d])
           ch == ChannelOf[d]
<1>3. d \in Messages /\ ch \in Names
  BY <1>1, <1>2
<1>4. /\ content[d] # <<>> /\ ch \in Names
      /\ content' = [content EXCEPT ![d] = Tail(content[d])]
      /\ taken' = [taken EXCEPT ![ch] = Append(taken[ch], m)]
      /\ content \in [Messages -> Seq(Messages)] /\ taken \in [Names -> Seq(Messages)]
  BY <1>2, <1>3 DEF TypeOK
<1>5. /\ m \in Messages /\ Occurs(m, content[d]) /\ Tail(content[d]) \in Seq(Messages)
      /\ \A x \in Messages : Distinct(content[d]) =>
            (Occurs(x, Tail(content[d])) <=> Occurs(x, content[d]) /\ x # m)
      /\ Distinct(content[d]) => Distinct(Tail(content[d]))
  BY <1>3, <1>4, Taking
<1>6. /\ Append(taken[ch], m) \in Seq(Messages)
      /\ \A x \in Messages : Occurs(x, Append(taken[ch], m)) <=> Occurs(x, taken[ch]) \/ x = m
      /\ Distinct(taken[ch]) /\ ~Occurs(m, taken[ch]) => Distinct(Append(taken[ch], m))
  BY <1>3, <1>4, <1>5, Appended
<1> HIDE DEF m, ch
<1>7. /\ content' \in [Messages -> Seq(Messages)] /\ taken' \in [Names -> Seq(Messages)]
      /\ content'[d] = Tail(content[d]) /\ taken'[ch] = Append(taken[ch], m)
      /\ \A f \in Messages : f # d => content'[f] = content[f]
      /\ \A c \in Names : c # ch => taken'[c] = taken[c]
  BY <1>3, <1>4, <1>5, <1>6
<1>8. \A f, x \in Messages : Distinct(content[d]) =>
        (Occurs(x, content'[f]) <=> Occurs(x, content[f]) /\ ~(f = d /\ x = m))
  BY <1>5, <1>7
<1>9. \A c \in Names, x \in Messages :
        Occurs(x, taken'[c]) <=> Occurs(x, taken[c]) \/ (c = ch /\ x = m)
  BY <1>6, <1>7
<1>10. /\ \A f \in Messages : Distinct(content[f]) => Distinct(content'[f])
       /\ \A c \in Names : Distinct(taken[c]) /\ ~Occurs(m, taken[c]) => Distinct(taken'[c])
  BY <1>5, <1>6, <1>7
<1> QED
  <2>1. snap[s][pos[s]].deque = d
    BY DEF e
  <2> QED
    BY <1>1, <1>3, <1>4, <1>5, <1>7, <1>8, <1>9, <1>10, <2>1 DEF ch, m

-----------------------------------------------------------------------------
(* One lemma per part of the invariant *)

LEMMA TypeStep ==
    ASSUME IInv, [Next]_vars
    PROVE  TypeOK'
<1> USE DEF publishers, queues, subscribers
<1> SUFFICES ASSUME TypeOK, PublishersOk, TableOk, SnapshotsOk PROVE TypeOK'
  BY DEF IInv
<1>1. ASSUME NEW p \in Publishers, Lookup(p) PROVE TypeOK'
  <2>1. dequeOf[Channel(p)] \in Messages \union {None}
    BY <1>1, MessageFacts DEF TypeOK, Lookup
  <2> QED
    BY <1>1, <2>1 DEF TypeOK, Lookup, Channel
<1>2. ASSUME NEW p \in Publishers, Store(p) PROVE TypeOK'
  <2>1. Message(p) \in Messages /\ Channel(p) \in Names
    BY <1>2, MessageFacts DEF Store
  <2>2. table' \in Seq(Names)
    <3>1. Append(table, Channel(p)) \in Seq(Names)
      BY <2>1, Appended DEF TypeOK
    <3> QED
      BY <1>2, <3>1 DEF TypeOK, Store, Channel
  <2> QED
    BY <1>2, <2>1, <2>2 DEF TypeOK, Store, Channel
<1>3. ASSUME NEW p \in Publishers, AppendToDeque(p) PROVE TypeOK'
  <2>1. left' \in [Publishers -> Seq(Messages)] /\ content' \in [Messages -> Seq(Messages)]
    BY <1>3, AppendFacts
  <2> QED
    BY <1>3, <2>1 DEF TypeOK, AppendToDeque
<1>4. ASSUME NEW s \in Subscribers, Snapshot(s) PROVE TypeOK'
  <2> DEFINE copy == [i \in DOMAIN table |-> [channel |-> table[i], deque |-> dequeOf[table[i]]]]
             Entries == [channel : Names, deque : Messages]
  <2>1. Len(table) \in Nat /\ DOMAIN table = 1 .. Len(table)
    BY DEF TypeOK
  <2>2. \A i \in DOMAIN table : table[i] \in Names /\ dequeOf[table[i]] \in Messages
    BY DEF TypeOK, TableOk
  <2>3. copy \in Seq(Entries)
    <3>1. \A i \in 1 .. Len(table) : [channel |-> table[i], deque |-> dequeOf[table[i]]] \in Entries
      BY <2>1, <2>2
    <3> HIDE DEF Entries
    <3> QED
      BY <2>1, <3>1
  <2>4. {m \in Messages : Occurs(m, Queued(ChannelOf[m]))} \subseteq Messages
    OBVIOUS
  <2>5. /\ snap' = [snap EXCEPT ![s] = copy] /\ pos' = [pos EXCEPT ![s] = 1]
        /\ seen' = [seen EXCEPT ![s] = {m \in Messages : Occurs(m, Queued(ChannelOf[m]))}]
        /\ spc' = [spc EXCEPT ![s] = "scan"]
    BY <1>4 DEF Snapshot
  <2> snap \in [Subscribers -> Seq(Entries)]
    BY DEF TypeOK
  <2> HIDE DEF copy, Entries
  <2>6. /\ snap' \in [Subscribers -> Seq(Entries)] /\ pos' \in [Subscribers -> Nat \ {0}]
        /\ seen' \in [Subscribers -> SUBSET Messages]
        /\ spc' \in [Subscribers -> {"top", "scan", "handle", "ended"}]
    BY <2>3, <2>4, <2>5 DEF TypeOK
  <2> QED
    BY <1>4, <2>6 DEF TypeOK, Snapshot, Entries
<1>5. ASSUME NEW s \in Subscribers, Pass(s) PROVE TypeOK'
  <2>1. pos' = [pos EXCEPT ![s] = pos[s] + 1] /\ UNCHANGED <<publishers, queues, spc, closed, snap, seen>>
    BY <1>5 DEF Pass
  <2>2. pos' \in [Subscribers -> Nat \ {0}]
    BY <2>1 DEF TypeOK
  <2> QED
    BY <2>1, <2>2 DEF TypeOK
<1>6. ASSUME NEW s \in Subscribers, Pop(s) PROVE TypeOK'
  <2>1. content' \in [Messages -> Seq(Messages)] /\ taken' \in [Names -> Seq(Messages)]
    BY <1>6, PopFacts
  <2> QED
    BY <1>6, <2>1 DEF TypeOK, Pop
<1>7. ASSUME NEW s \in Subscribers, Moves(s) PROVE TypeOK'
  BY <1>7 DEF TypeOK, Moves, SeesClosed, Exhausted, Resume, Leave, Subscribe, Close
<1>8. ASSUME UNCHANGED vars PROVE TypeOK'
  BY <1>8 DEF TypeOK, vars
<1> QED
  BY <1>1, <1>2, <1>3, <1>4, <1>5, <1>6, <1>7, <1>8, ByKind

\* A step of a subscription leaves the publishers alone, and a move all they look at.
LEMMA Untouched ==
    /\ \A s \in Subscribers : Snapshot(s) \/ Pass(s) \/ Pop(s) \/ Moves(s) =>
         UNCHANGED <<ppc, left, ref, table, dequeOf>>
    /\ \A s \in Subscribers : Snapshot(s) \/ Pass(s) \/ Moves(s) => UNCHANGED <<content, taken>>
    /\ \A s \in Subscribers : Pop(s) \/ Moves(s) => UNCHANGED <<snap, pos, seen>>
    /\ \A p \in Publishers : Lookup(p) \/ Store(p) \/ AppendToDeque(p) =>
         UNCHANGED <<snap, pos, seen, taken>>
    /\ UNCHANGED vars => UNCHANGED <<ppc, left, ref, table, dequeOf, content, taken, snap, pos, seen>>
  BY DEF Snapshot, Pass, Pop, Moves, SeesClosed, Exhausted, Resume, Leave, Subscribe, Close,
         Lookup, Store, AppendToDeque, publishers, queues, subscribers, vars

LEMMA PublishersStep ==
    ASSUME IInv, [Next]_vars
    PROVE  PublishersOk'
<1> SUFFICES ASSUME TypeOK, PublishersOk, TableOk PROVE PublishersOk'
  BY DEF IInv
<1>1. ASSUME NEW p \in Publishers, Lookup(p) PROVE PublishersOk'
  <2>1. Channel(p) \in Names /\ left[p] # <<>> /\ UNCHANGED left
    BY <1>1, MessageFacts DEF Lookup
  <2>2. \/ ppc' = [ppc EXCEPT ![p] = "make"] /\ UNCHANGED ref
        \/ /\ ppc' = [ppc EXCEPT ![p] = "append"]
           /\ ref' = [ref EXCEPT ![p] = dequeOf[Channel(p)]] /\ dequeOf[Channel(p)] # None
    BY <1>1 DEF Lookup, Channel
  <2>3. dequeOf[Channel(p)] # None =>
          dequeOf[Channel(p)] \in Messages /\ ChannelOf[dequeOf[Channel(p)]] = Channel(p)
    BY <2>1 DEF TypeOK, TableOk
  <2>4. \A q \in Publishers : Message(q)' = Message(q) /\ Channel(q)' = Channel(q)
    BY <2>1 DEF Message, Channel
  <2> QED
    BY <2>1, <2>2, <2>3, <2>4 DEF TypeOK, PublishersOk
<1>2. ASSUME NEW p \in Publishers, Store(p) PROVE PublishersOk'
  BY <1>2, MessageFacts DEF TypeOK, PublishersOk, Store, Channel, Message
<1>3. ASSUME NEW p \in Publishers, AppendToDeque(p) PROVE PublishersOk'
  <2>1. ppc' = [ppc EXCEPT ![p] = "lookup"] /\ ref' = [ref EXCEPT ![p] = None]
    BY <1>3 DEF AppendToDeque
  <2>2. \A q \in Publishers :
          /\ Distinct(left'[q])
          /\ q # p => left'[q] = left[q]
          /\ \A x \in Messages : Occurs(x, left'[q]) => Occurs(x, left[q])
    BY <1>3, AppendFacts
  <2>3. \A q \in Publishers : q # p => Message(q)' = Message(q) /\ Channel(q)' = Channel(q)
    BY <2>2 DEF Message, Channel
  <2> QED
    BY <1>3, <2>1, <2>2, <2>3 DEF TypeOK, PublishersOk
<1>4. UNCHANGED <<ppc, left, ref>> => PublishersOk'
  BY DEF PublishersOk, Channel, Message
<1> QED
  BY <1>1, <1>2, <1>3, <1>4, ByKind, Untouched

LEMMA TableStep ==
    ASSUME IInv, [Next]_vars
    PROVE  TableOk'
<1> SUFFICES ASSUME TypeOK, PublishersOk, TableOk PROVE TableOk'
  BY DEF IInv
<1>1. ASSUME NEW p \in Publishers, Store(p) PROVE TableOk'
  <2>1. Message(p) \in Messages /\ Channel(p) \in Names /\ Message(p) # None
    BY <1>1, MessageFacts, TransportAssumption DEF Store, TransportAssumption
  <2>2. /\ dequeOf' = [dequeOf EXCEPT ![Channel(p)] = Message(p)]
        /\ table' = IF Occurs(Channel(p), table) THEN table ELSE Append(table, Channel(p))
    BY <1>1 DEF Store, Channel
  <2>3. \A ch \in Names : Occurs(ch, table') <=> Occurs(ch, table) \/ ch = Channel(p)
    BY <2>1, <2>2, Appended DEF TypeOK
  <2>4. \A i \in DOMAIN table' : table'[i] \in Names /\ Occurs(table'[i], table')
    <3>1. table' \in Seq(Names)
      BY <2>1, <2>2, Appended DEF TypeOK
    <3> QED
      BY <3>1 DEF Occurs
  <2>5. \A ch \in Names : Occurs(ch, table) => dequeOf[ch] # None
    BY DEF TableOk, Occurs
  <2> QED
    BY <2>1, <2>2, <2>3, <2>4, <2>5 DEF TypeOK, TableOk, Channel
<1>2. UNCHANGED <<table, dequeOf>> => TableOk'
  BY DEF TableOk, Occurs
<1>3. \A p \in Publishers : Lookup(p) \/ AppendToDeque(p) => UNCHANGED <<table, dequeOf>>
  BY DEF Lookup, AppendToDeque, queues
<1> QED
  BY <1>1, <1>2, <1>3, ByKind, Untouched

LEMMA PlaceStep ==
    ASSUME IInv, [Next]_vars
    PROVE  OnePlace'
<1> SUFFICES ASSUME TypeOK, PublishersOk, OnePlace, SnapshotsOk PROVE OnePlace'
  BY DEF IInv
<1>1. ASSUME NEW p \in Publishers, AppendToDeque(p) PROVE OnePlace'
  <2>1. /\ Message(p) \in Messages /\ Occurs(Message(p), left[p])
        /\ \A q \in Publishers : Occurs(Message(p), left[q]) => q = p
    BY <1>1, MessageFacts DEF AppendToDeque
  <2>2. /\ \A d \in Messages : ~Occurs(Message(p), content[d])
        /\ \A ch \in Names : ~Occurs(Message(p), taken[ch])
    BY <2>1 DEF OnePlace
  <2>3. taken' = taken
    BY <1>1, Untouched
  <2>4. ChannelOf[Message(p)] \in Names
    BY <2>1, TransportAssumption DEF TransportAssumption
  <2>5. \A d \in Messages : Distinct(content'[d])
    <3>1. /\ ref[p] \in Messages /\ \A d \in Messages : d # ref[p] => content'[d] = content[d]
          /\ Distinct(content[ref[p]]) /\ ~Occurs(Message(p), content[ref[p]]) =>
                Distinct(content'[ref[p]])
      BY <1>1, AppendFacts
    <3> QED
      BY <2>2, <3>1 DEF OnePlace
  <2>6. /\ ChannelOf[ref[p]] = ChannelOf[Message(p)]
        /\ \A d, x \in Messages : Occurs(x, content'[d]) <=>
              Occurs(x, content[d]) \/ (d = ref[p] /\ x = Message(p))
        /\ \A q \in Publishers, x \in Messages :
              Occurs(x, left'[q]) <=> Occurs(x, left[q]) /\ x # Message(p)
    BY <1>1, AppendFacts DEF Channel
  <2> QED
    BY <2>1, <2>2, <2>3, <2>4, <2>5, <2>6 DEF OnePlace, Taken
<1>2. ASSUME NEW s \in Subscribers, Pop(s) PROVE OnePlace'
  <2>1. PICK d, m \in Messages :
          /\ ChannelOf[d] \in Names /\ Occurs(m, content[d])
          /\ \A e, x \in Messages : Distinct(content[d]) =>
                (Occurs(x, content'[e]) <=> Occurs(x, content[e]) /\ ~(e = d /\ x = m))
          /\ \A ch \in Names, x \in Messages :
                Occurs(x, taken'[ch]) <=> Occurs(x, taken[ch]) \/ (ch = ChannelOf[d] /\ x = m)
          /\ \A e \in Messages : Distinct(content[e]) => Distinct(content'[e])
          /\ \A ch \in Names : Distinct(taken[ch]) /\ ~Occurs(m, taken[ch]) => Distinct(taken'[ch])
    BY <1>2, PopFacts
  <2>2. ChannelOf[m] = ChannelOf[d] /\ \A ch \in Names : ~Occurs(m, taken[ch])
    BY <2>1 DEF OnePlace, Taken
  <2>3. left' = left
    BY <1>2, Untouched
  <2>4. \A x \in Messages : ChannelOf[x] \in Names
    BY TransportAssumption DEF TransportAssumption
  <2> QED
    BY <2>1, <2>2, <2>3, <2>4 DEF OnePlace, Taken
<1>3. UNCHANGED <<left, content, taken>> => OnePlace'
  BY DEF OnePlace, Taken
<1>4. \A p \in Publishers : Lookup(p) \/ Store(p) => UNCHANGED <<left, content, taken>>
  BY DEF Lookup, Store, queues
<1> QED
  BY <1>1, <1>2, <1>3, <1>4, ByKind, Untouched

\* A deque that is made stays made, and so is the one a publisher stores.
LEMMA MadeKept ==
    ASSUME TypeOK, PublishersOk, OnePlace, SnapshotsOk, [Next]_vars, NEW d \in Messages, Made(d)
    PROVE  Made(d)'
<1>1. ASSUME NEW p \in Publishers, Lookup(p) \/ Store(p) PROVE Made(d)'
  <2>1. /\ left' = left /\ ppc[p] # "append"
        /\ \A q \in Publishers : q # p => ppc'[q] = ppc[q] /\ ref'[q] = ref[q]
    BY <1>1 DEF TypeOK, Lookup, Store
  <2> QED
    BY <2>1 DEF Made, Message
<1>2. ASSUME NEW p \in Publishers, AppendToDeque(p) PROVE Made(d)'
  <2>1. /\ \A q \in Publishers : q # p => ppc'[q] = ppc[q] /\ ref'[q] = ref[q]
    BY <1>2 DEF TypeOK, AppendToDeque
  <2>2. /\ \A q \in Publishers : q # p => left'[q] = left[q]
        /\ Occurs(d, left'[p]) => Occurs(d, left[p]) /\ d # Message(p)
    BY <1>2, AppendFacts
  <2> QED
    BY <2>1, <2>2 DEF Made, Message
<1>3. UNCHANGED <<ppc, left, ref>> => Made(d)'
  BY DEF Made, Message
<1> QED
  BY <1>1, <1>2, <1>3, ByKind, Untouched

LEMMA MadeStep ==
    ASSUME IInv, [Next]_vars
    PROVE  DequesMade'
<1> SUFFICES ASSUME TypeOK, PublishersOk, TableOk, OnePlace, SnapshotsOk, DequesMade PROVE DequesMade'
  BY DEF IInv
<1>0. \A d \in Messages : Made(d) => Made(d)'
  BY MadeKept
<1>1. ASSUME NEW p \in Publishers, Lookup(p) PROVE DequesMade'
  <2>1. Channel(p) \in Names /\ UNCHANGED <<dequeOf, content>>
    BY <1>1, MessageFacts DEF Lookup, queues
  <2>2. \A q \in Publishers : ppc'[q] = "append" =>
          \/ ppc[q] = "append" /\ ref'[q] = ref[q]
          \/ ref'[q] = dequeOf[Channel(p)] /\ dequeOf[Channel(p)] # None
    BY <1>1 DEF TypeOK, Lookup, Channel
  <2>3. \A q \in Publishers : ppc[q] = "append" => ref[q] \in Messages
    BY DEF PublishersOk
  <2> QED
    BY <1>0, <2>1, <2>2, <2>3 DEF TypeOK, DequesMade
<1>2. ASSUME NEW p \in Publishers, Store(p) PROVE DequesMade'
  <2>1. PICK d \in Messages : /\ d = Message(p) /\ Channel(p) \in Names
                              /\ \A q \in Publishers : Occurs(d, left[q]) => q = p
    BY <1>2, MessageFacts DEF Store
  <2>2. /\ UNCHANGED <<content, left>> /\ dequeOf' = [dequeOf EXCEPT ![Channel(p)] = d]
        /\ ppc'[p] = "append" /\ ref'[p] = d
        /\ \A q \in Publishers : q # p => ppc'[q] = ppc[q] /\ ref'[q] = ref[q]
    BY <1>2, <2>1 DEF TypeOK, Store, Channel
  <2>3. Made(d)'
    BY <2>1, <2>2 DEF Made, Message
  <2>4. \A q \in Publishers : ppc[q] = "append" => ref[q] \in Messages
    BY DEF PublishersOk
  <2> QED
    BY <1>0, <2>1, <2>2, <2>3, <2>4 DEF TypeOK, DequesMade
<1>3. ASSUME NEW p \in Publishers, AppendToDeque(p) PROVE DequesMade'
  <2>1. /\ dequeOf' = dequeOf /\ Made(ref[p]) /\ ppc'[p] = "lookup"
        /\ \A q \in Publishers : q # p => ppc'[q] = ppc[q] /\ ref'[q] = ref[q]
    BY <1>3 DEF TypeOK, AppendToDeque, DequesMade
  <2>2. ref[p] \in Messages /\ \A d \in Messages : d # ref[p] => content'[d] = content[d]
    BY <1>3, AppendFacts
  <2>3. \A q \in Publishers : ppc[q] = "append" => ref[q] \in Messages
    BY DEF PublishersOk
  <2> QED
    BY <1>0, <2>1, <2>2, <2>3 DEF TypeOK, DequesMade
<1>4. ASSUME NEW s \in Subscribers, Pop(s) PROVE DequesMade'
  <2>1. PICK d \in Messages : content[d] # <<>> /\ content' = [content EXCEPT ![d] = Tail(content[d])]
    BY <1>4, PopFacts
  <2>2. \A e \in Messages : content'[e] # <<>> => content[e] # <<>>
    BY <2>1 DEF TypeOK
  <2>3. \A q \in Publishers : ppc[q] = "append" => ref[q] \in Messages
    BY DEF PublishersOk
  <2> QED
    BY <1>0, <1>4, <2>2, <2>3, Untouched DEF TypeOK, DequesMade
<1>5. UNCHANGED <<ppc, left, ref, dequeOf, content>> => DequesMade'
  BY DEF DequesMade, Made, Message
<1> QED
  BY <1>1, <1>2, <1>3, <1>4, <1>5, ByKind, Untouched

LEMMA SnapshotsStep ==
    ASSUME IInv, [Next]_vars
    PROVE  SnapshotsOk'
<1> SUFFICES ASSUME TypeOK, TableOk, SnapshotsOk PROVE SnapshotsOk'
  BY DEF IInv
<1>1. ASSUME NEW s \in Subscribers, Snapshot(s) PROVE SnapshotsOk'
  <2> DEFINE copy == [i \in DOMAIN table |-> [channel |-> table[i], deque |-> dequeOf[table[i]]]]
  <2>1. /\ snap' = [snap EXCEPT ![s] = copy] /\ pos' = [pos EXCEPT ![s] = 1]
    BY <1>1 DEF Snapshot
  <2>2. Len(copy) \in Nat /\ DOMAIN copy = DOMAIN table
    BY DEF TypeOK
  <2>3. \A k \in DOMAIN table : table[k] \in Names /\ dequeOf[table[k]] # None
    BY DEF TypeOK, TableOk
  <2>4. \A k \in DOMAIN copy : ChannelOf[copy[k].deque] = copy[k].channel
    BY <2>3 DEF TableOk
  <2> HIDE DEF copy
  <2> QED
    BY <2>1, <2>2, <2>4 DEF TypeOK, SnapshotsOk
<1>2. ASSUME NEW s \in Subscribers, Pass(s) PROVE SnapshotsOk'
  <2>1. pos' = [pos EXCEPT ![s] = pos[s] + 1] /\ snap' = snap /\ pos[s] <= Len(snap[s])
    BY <1>2 DEF Pass
  <2>2. \A t \in Subscribers : Len(snap[t]) \in Nat /\ pos[t] \in Nat
    BY DEF TypeOK
  <2> QED
    BY <2>1, <2>2 DEF TypeOK, SnapshotsOk
<1>3. UNCHANGED <<snap, pos>> => SnapshotsOk'
  BY DEF SnapshotsOk
<1> QED
  BY <1>1, <1>2, <1>3, ByKind, Untouched

\* The entries of a copy of the table.
LEMMA EntryType ==
    ASSUME TypeOK, NEW s \in Subscribers, NEW k \in DOMAIN snap[s]
    PROVE  snap[s][k].channel \in Names /\ snap[s][k].deque \in Messages
<1> DEFINE Entries == [channel : Names, deque : Messages]
<1>1. snap[s] \in Seq(Entries)
  BY DEF TypeOK
<1>2. snap[s][k] \in Entries
  <2> HIDE DEF Entries
  <2> QED
    BY <1>1
<1> QED
  BY <1>2

\* Two publishers that have a message for a channel of one publisher are the same.
LEMMA SoleOwner ==
    ASSUME NEW p \in Publishers, NEW q \in Publishers, NEW m, NEW x,
           Occurs(m, Program[p]), Occurs(x, Program[q]),
           ChannelOf[m] = ChannelOf[x], Sole(ChannelOf[m])
    PROVE  p = q
  BY DEF Sole, Occurs

LEMMA SoleStep ==
    ASSUME IInv, [Next]_vars
    PROVE  SoleDeque'
<1> SUFFICES ASSUME TypeOK, PublishersOk, TableOk, OnePlace, SnapshotsOk, SoleDeque PROVE SoleDeque'
  BY DEF IInv
<1>1. ASSUME NEW p \in Publishers, Lookup(p) PROVE SoleDeque'
  <2>1. UNCHANGED <<left, dequeOf, content, snap>>
    BY <1>1 DEF Lookup, queues, subscribers
  <2>2. \A q \in Publishers : Channel(q)' = Channel(q)
    BY <2>1 DEF Channel, Message
  <2>3. /\ \A q \in Publishers : q # p => ppc'[q] = ppc[q] /\ ref'[q] = ref[q]
        /\ ppc'[p] = "make" => dequeOf[Channel(p)] = None
        /\ ppc'[p] = "append" => ref'[p] = dequeOf[Channel(p)]
    BY <1>1 DEF TypeOK, Lookup, Channel
  <2> QED
    BY <2>1, <2>2, <2>3 DEF SoleDeque
<1>2. ASSUME NEW p \in Publishers, Store(p) PROVE SoleDeque'
  <2> DEFINE ch == Channel(p)
  <2>1. /\ Message(p) \in Messages /\ Channel(p) \in Names /\ Message(p) # None
        /\ Occurs(Message(p), Program[p])
    BY <1>2, MessageFacts, TransportAssumption DEF Store, TransportAssumption
  <2>2. /\ UNCHANGED <<left, content, snap>> /\ ppc[p] = "make"
        /\ dequeOf' = [dequeOf EXCEPT ![ch] = Message(p)]
        /\ ppc'[p] = "append" /\ ref'[p] = Message(p)
        /\ \A q \in Publishers : q # p => ppc'[q] = ppc[q] /\ ref'[q] = ref[q]
    BY <1>2 DEF TypeOK, Store, Channel, subscribers
  <2>3. \A q \in Publishers : Channel(q)' = Channel(q)
    BY <2>2 DEF Channel, Message
  <2>4. /\ dequeOf'[ch] = Message(p)
        /\ \A c \in Names : c # ch => dequeOf'[c] = dequeOf[c]
        /\ Sole(ch) => dequeOf[ch] = None
    BY <2>1, <2>2 DEF TypeOK, SoleDeque
  <2>5. \A q \in Publishers : q # p /\ ppc[q] # "lookup" /\ Sole(Channel(q)) =>
          Channel(q) # ch /\ Channel(q) \in Names
    <3> SUFFICES ASSUME NEW q \in Publishers, q # p, ppc[q] # "lookup", Sole(Channel(q))
                 PROVE  Channel(q) # ch /\ Channel(q) \in Names
      OBVIOUS
    <3>1. Occurs(Message(q), Program[q]) /\ Channel(q) \in Names
      BY MessageFacts
    <3> QED
      BY <2>1, <3>1, SoleOwner DEF Channel
  <2>6. \A d, m \in Messages : Occurs(m, content[d]) /\ Sole(ChannelOf[m]) =>
          ChannelOf[m] # ch /\ ChannelOf[m] \in Names
    BY <2>4, TransportAssumption DEF SoleDeque, TransportAssumption
  <2>7. \A s \in Subscribers : \A k \in DOMAIN snap[s] : Sole(snap[s][k].channel) =>
          snap[s][k].channel # ch /\ snap[s][k].channel \in Names
    <3> SUFFICES ASSUME NEW s \in Subscribers, NEW k \in DOMAIN snap[s], Sole(snap[s][k].channel)
                 PROVE  snap[s][k].channel # ch /\ snap[s][k].channel \in Names
      OBVIOUS
    <3>1. snap[s][k].channel \in Names /\ snap[s][k].deque \in Messages
      BY EntryType
    <3> QED
      BY <2>4, <3>1, TransportAssumption DEF SoleDeque, TransportAssumption
  <2> HIDE DEF ch
  <2>8. \A q \in Publishers :
          /\ ppc'[q] = "make" /\ Sole(Channel(q)) => dequeOf'[Channel(q)] = None
          /\ ppc'[q] = "append" /\ Sole(Channel(q)) => ref'[q] = dequeOf'[Channel(q)]
    BY <2>2, <2>4, <2>5 DEF SoleDeque, ch
  <2> QED
    BY <2>2, <2>3, <2>4, <2>6, <2>7, <2>8 DEF SoleDeque
<1>3. ASSUME NEW p \in Publishers, AppendToDeque(p) PROVE SoleDeque'
  <2>1. /\ UNCHANGED <<dequeOf, snap>> /\ ppc[p] = "append" /\ ppc'[p] = "lookup"
        /\ \A q \in Publishers : q # p => ppc'[q] = ppc[q] /\ ref'[q] = ref[q]
    BY <1>3 DEF TypeOK, AppendToDeque, subscribers
  <2>2. /\ \A q \in Publishers : q # p => left'[q] = left[q]
        /\ \A d, x \in Messages : Occurs(x, content'[d]) =>
              Occurs(x, content[d]) \/ (d = ref[p] /\ x = Message(p))
    BY <1>3, AppendFacts
  <2>3. \A q \in Publishers : q # p => Channel(q)' = Channel(q)
    BY <2>2 DEF Channel, Message
  <2> QED
    BY <2>1, <2>2, <2>3 DEF SoleDeque, Channel
<1>4. ASSUME NEW s \in Subscribers, Pop(s) PROVE SoleDeque'
  <2>1. \A e, x \in Messages : Occurs(x, content'[e]) => Occurs(x, content[e])
    BY <1>4, PopFacts DEF OnePlace
  <2>2. \A q \in Publishers : Channel(q)' = Channel(q)
    BY <1>4, Untouched DEF Channel, Message
  <2> QED
    BY <1>4, <2>1, <2>2, Untouched DEF SoleDeque
<1>5. ASSUME NEW s \in Subscribers, Snapshot(s) PROVE SoleDeque'
  <2> DEFINE copy == [i \in DOMAIN table |-> [channel |-> table[i], deque |-> dequeOf[table[i]]]]
  <2>1. /\ snap' = [snap EXCEPT ![s] = copy] /\ UNCHANGED <<ppc, left, ref, dequeOf, content>>
    BY <1>5 DEF Snapshot, publishers, queues
  <2>2. \A k \in DOMAIN copy : copy[k].deque = dequeOf[copy[k].channel]
    OBVIOUS
  <2>3. \A q \in Publishers : Channel(q)' = Channel(q)
    BY <2>1 DEF Channel, Message
  <2> HIDE DEF copy
  <2> QED
    BY <2>1, <2>2, <2>3 DEF TypeOK, SoleDeque
<1>6. UNCHANGED <<ppc, left, ref, dequeOf, content, snap>> => SoleDeque'
  BY DEF SoleDeque, Channel, Message
<1>7. \A t \in Subscribers : Pass(t) => snap' = snap
  BY DEF Pass
<1> QED
  BY <1>1, <1>2, <1>3, <1>4, <1>5, <1>6, <1>7, ByKind, Untouched

\* What a subscription takes out of a deque is taken from the deque's channel.
LEMMA PopMoves ==
    ASSUME TypeOK, SnapshotsOk, OnePlace, NEW s \in Subscribers, Pop(s)
    PROVE  /\ \A e, x \in Messages : Occurs(x, content[e]) => Occurs(x, content'[e]) \/ Taken(x)'
           /\ \A ch \in Names, x \in Messages : Occurs(x, taken[ch]) => Occurs(x, taken'[ch])
<1>1. PICK d, m \in Messages :
        /\ ChannelOf[d] \in Names /\ Occurs(m, content[d])
        /\ \A e, x \in Messages : Distinct(content[d]) =>
              (Occurs(x, content'[e]) <=> Occurs(x, content[e]) /\ ~(e = d /\ x = m))
        /\ \A ch \in Names, x \in Messages :
              Occurs(x, taken'[ch]) <=> Occurs(x, taken[ch]) \/ (ch = ChannelOf[d] /\ x = m)
  BY PopFacts
<1>2. ChannelOf[m] = ChannelOf[d] /\ Distinct(content[d])
  BY <1>1 DEF OnePlace
<1> QED
  BY <1>1, <1>2 DEF Taken

\* A message that waits in a channel of one publisher waits until it is taken.
LEMMA WaitsOrTaken ==
    ASSUME IInv, [Next]_vars, NEW m \in Messages, Sole(ChannelOf[m])
    PROVE  /\ Waiting(m) => (Waiting(m) \/ Taken(m))'
           /\ Taken(m) => Taken(m)'
<1> DEFINE ch == ChannelOf[m]
<1> TypeOK /\ SnapshotsOk /\ PublishersOk /\ OnePlace /\ SoleDeque
  BY DEF IInv
<1>1. ch \in Names /\ None \notin Messages
  BY TransportAssumption DEF TransportAssumption
<1>2. Waiting(m) <=> dequeOf[ch] # None /\ Occurs(m, content[dequeOf[ch]])
  BY DEF Waiting, Queued, Occurs
<1>3. Waiting(m)' <=> dequeOf'[ch] # None /\ Occurs(m, content'[dequeOf'[ch]])
  BY DEF Waiting, Queued, Occurs
<1>4. dequeOf[ch] # None => dequeOf[ch] \in Messages
  BY <1>1 DEF TypeOK
<1>5. ASSUME NEW p \in Publishers, Store(p) PROVE dequeOf[ch] = None \/ dequeOf'[ch] = dequeOf[ch]
  BY <1>1, <1>5 DEF TypeOK, SoleDeque, Store, Channel
<1>6. \A p \in Publishers : Store(p) => UNCHANGED <<content, taken>>
  BY DEF Store
<1>7. \A p \in Publishers : Lookup(p) => UNCHANGED <<dequeOf, content, taken>>
  BY DEF Lookup, queues
<1>8. ASSUME NEW p \in Publishers, AppendToDeque(p)
      PROVE  UNCHANGED <<dequeOf, taken>> /\
             \A d \in Messages : Occurs(m, content[d]) => Occurs(m, content'[d])
  BY <1>8, AppendFacts DEF AppendToDeque
<1>9. ASSUME NEW s \in Subscribers, Pop(s)
      PROVE  /\ dequeOf' = dequeOf /\ Taken(m) => Taken(m)'
             /\ \A d \in Messages : Occurs(m, content[d]) => Occurs(m, content'[d]) \/ Taken(m)'
  BY <1>1, <1>9, PopMoves, Untouched DEF Taken
<1>10. Taken(m) <=> Occurs(m, taken[ch])
  BY DEF Taken
<1>11. Taken(m)' <=> Occurs(m, taken'[ch])
  BY DEF Taken
<1> HIDE DEF ch
<1> QED
  BY <1>2, <1>3, <1>4, <1>5, <1>6, <1>7, <1>8, <1>9, <1>10, <1>11, ByKind, Untouched

LEMMA SeenStep ==
    ASSUME IInv, [Next]_vars
    PROVE  SeenOk'
<1> TypeOK /\ TableOk /\ SnapshotsOk /\ SoleDeque /\ SeenOk
  BY DEF IInv
<1>0. \A t \in Subscribers : seen[t] \subseteq Messages
  BY DEF TypeOK
<1>1. ASSUME NEW s \in Subscribers, Snapshot(s) PROVE SeenOk'
  <2> DEFINE copy == [i \in DOMAIN table |-> [channel |-> table[i], deque |-> dequeOf[table[i]]]]
             waiting == {m \in Messages : Waiting(m)}
  <2>1. /\ snap' = [snap EXCEPT ![s] = copy] /\ pos' = [pos EXCEPT ![s] = 1]
        /\ seen' = [seen EXCEPT ![s] = waiting]
        /\ UNCHANGED <<dequeOf, content, taken>>
    BY <1>1 DEF Snapshot, Waiting, queues
  <2>2. ASSUME NEW m \in waiting PROVE \E k \in DOMAIN copy : copy[k].channel = ChannelOf[m]
    <3>1. ChannelOf[m] \in Names
      BY TransportAssumption DEF TransportAssumption
    <3>2. dequeOf[ChannelOf[m]] # None
      BY DEF Waiting, Queued, Occurs
    <3>3. PICK k \in DOMAIN table : table[k] = ChannelOf[m]
      BY <3>1, <3>2 DEF TableOk, Occurs
    <3> QED
      BY <3>3
  <2>3. \A m \in waiting : Waiting(m)
    OBVIOUS
  <2>4. \A m : (Waiting(m)' <=> Waiting(m)) /\ (Taken(m)' <=> Taken(m))
    BY <2>1 DEF Waiting, Queued, Occurs, Taken
  <2> HIDE DEF copy, waiting
  <2>5. /\ snap'[s] = copy /\ pos'[s] = 1 /\ seen'[s] = waiting
        /\ \A t \in Subscribers : t # s => snap'[t] = snap[t] /\ pos'[t] = pos[t] /\ seen'[t] = seen[t]
    BY <2>1 DEF TypeOK
  <2>6. \A k \in 1 .. (pos'[s] - 1) : FALSE
    BY <2>5
  <2> QED
    BY <2>2, <2>3, <2>4, <2>5, <2>6 DEF SeenOk
<1>2. ASSUME NEW s \in Subscribers, Pass(s) PROVE SeenOk'
  <2>1. /\ pos' = [pos EXCEPT ![s] = pos[s] + 1] /\ snap' = snap /\ seen' = seen
        /\ pos[s] <= Len(snap[s])
        /\ UNCHANGED <<dequeOf, content, taken>>
        /\ \/ snap[s][pos[s]].channel \notin Pattern[s]
           \/ content[snap[s][pos[s]].deque] = <<>>
    BY <1>2 DEF Pass, queues
  <2>2. \A m : (Waiting(m)' <=> Waiting(m)) /\ (Taken(m)' <=> Taken(m))
    BY <2>1 DEF Waiting, Queued, Occurs, Taken
  <2>3. pos[s] \in DOMAIN snap[s] /\ pos[s] \in Nat
    BY <2>1 DEF TypeOK
  <2>4. ASSUME NEW m \in seen[s], Sole(ChannelOf[m]), ChannelOf[m] \in Pattern[s],
               snap[s][pos[s]].channel = ChannelOf[m]
        PROVE  Taken(m)
    <3>1. content[snap[s][pos[s]].deque] = <<>>
      BY <2>1, <2>4
    <3>2. snap[s][pos[s]].deque = dequeOf[ChannelOf[m]]
      BY <2>3, <2>4 DEF SoleDeque
    <3>3. ~Waiting(m)
      BY <3>1, <3>2 DEF Waiting, Queued, Occurs
    <3> QED
      BY <2>4, <3>3 DEF SeenOk
  <2>5. /\ pos'[s] = pos[s] + 1
        /\ \A t \in Subscribers : t # s => pos'[t] = pos[t]
    BY <2>1 DEF TypeOK
  <2>6. \A k \in 1 .. (pos'[s] - 1) : k = pos[s] \/ k \in 1 .. (pos[s] - 1)
    BY <2>3, <2>5
  <2> QED
    BY <2>1, <2>2, <2>4, <2>5, <2>6 DEF SeenOk
<1>3. ASSUME UNCHANGED <<snap, pos, seen>> PROVE SeenOk'
  <2>1. \A s \in Subscribers : \A m \in seen[s] : Sole(ChannelOf[m]) =>
          (Waiting(m) => (Waiting(m) \/ Taken(m))') /\ (Taken(m) => Taken(m)')
    BY <1>0, WaitsOrTaken
  <2> QED
    BY <1>3, <2>1 DEF SeenOk
<1> QED
  BY <1>1, <1>2, <1>3, ByKind, Untouched

-----------------------------------------------------------------------------
(* The invariant, and what follows from it *)

LEMMA InitInv == Init => IInv
<1> SUFFICES ASSUME Init PROVE IInv
  OBVIOUS
<1> USE TransportAssumption DEF Init
<1>1. TypeOK
  BY DEF TypeOK, TransportAssumption
<1>2. PublishersOk
  BY DEF PublishersOk, Distinct, TransportAssumption
<1>3. TableOk /\ DequesMade /\ SeenOk
  BY DEF TableOk, DequesMade, SeenOk
<1>4. OnePlace /\ SoleDeque
  BY DEF OnePlace, SoleDeque, Distinct, Occurs
<1>5. SnapshotsOk
  BY DEF SnapshotsOk
<1> QED
  BY <1>1, <1>2, <1>3, <1>4, <1>5 DEF IInv

LEMMA NextInv == IInv /\ [Next]_vars => IInv'
  BY TypeStep, PublishersStep, TableStep, PlaceStep, MadeStep, SnapshotsStep, SoleStep, SeenStep
     DEF IInv

(* The invariant holds however many publishers and subscriptions there are.  *)
THEOREM Invariant == Spec => []IInv
  BY InitInv, NextInv, PTL DEF Spec

(* Every variable keeps its type: no one pops or appends where there is no   *)
(* deque.                                                                    *)
THEOREM TypeCorrect == Spec => []TypeOK
<1>1. IInv => TypeOK
  BY DEF IInv
<1> QED
  BY <1>1, Invariant, PTL

(* No subscription is handed a message that was handed out before.           *)
THEOREM HandedOutOnce == Spec => []NeverTwice
<1>1. IInv => NeverTwice
  BY DEF IInv, OnePlace, NeverTwice, Distinct
<1> QED
  BY <1>1, Invariant, PTL

(* A message in hand: what waited in the channels before its own is gone.    *)
THEOREM ServedInOrder == Spec => []OldestChannelFirst
<1>1. IInv => OldestChannelFirst
  BY DEF IInv, SeenOk, OldestChannelFirst
<1> QED
  BY <1>1, Invariant, PTL

(* An iterator that ends by itself has handed out all that waited when it    *)
(* made its last copy of the table.                                          *)
THEOREM NothingMissed == Spec => []EndsDrained
<1>1. IInv => EndsDrained
  <2> SUFFICES ASSUME IInv, NEW s \in Subscribers, pos[s] > Len(snap[s]), NEW m \in seen[s],
                      ChannelOf[m] \in Pattern[s], Sole(ChannelOf[m])
               PROVE  Taken(m)
    BY DEF EndsDrained
  <2>1. PICK k \in DOMAIN snap[s] : snap[s][k].channel = ChannelOf[m]
    BY DEF IInv, SeenOk
  <2>2. DOMAIN snap[s] \subseteq 1 .. (pos[s] - 1)
    BY DEF IInv, TypeOK
  <2> QED
    BY <2>1, <2>2 DEF IInv, SeenOk
<1> QED
  BY <1>1, Invariant, PTL

-----------------------------------------------------------------------------
(* Channels of one publisher implement Channels *)

AbstractQueue == [ch \in SoleNames |-> Queued(ch)]
AbstractTaken == [ch \in SoleNames |-> taken[ch]]

\* A step that changes neither view leaves the abstract state alone.
LEMMA Stutter ==
    ASSUME \A ch \in SoleNames : Queued(ch)' = Queued(ch) /\ taken'[ch] = taken[ch]
    PROVE  UNCHANGED Abstract!vars
  BY DEF Abstract!vars

\* The queue of a channel, by the deque it has.
LEMMA QueuedFacts ==
    ASSUME TypeOK, TableOk
    PROVE  \A ch \in Names :
             /\ dequeOf[ch] = None => Queued(ch) = <<>>
             /\ dequeOf[ch] # None =>
                  /\ dequeOf[ch] \in Messages /\ ChannelOf[dequeOf[ch]] = ch
                  /\ Queued(ch) = content[dequeOf[ch]]
  BY DEF TypeOK, TableOk, Queued

LEMMA StoreStutters ==
    ASSUME IInv, NEW p \in Publishers, Store(p)
    PROVE  UNCHANGED Abstract!vars
<1> TypeOK /\ PublishersOk /\ TableOk /\ DequesMade /\ SoleDeque
  BY DEF IInv
<1>1. PICK d \in Messages : d = Message(p) /\ Occurs(d, left[p]) /\ Channel(p) \in Names
  BY MessageFacts DEF Store
<1>2. /\ UNCHANGED <<content, taken>> /\ ppc[p] = "make"
      /\ dequeOf' = [dequeOf EXCEPT ![Channel(p)] = d]
  BY <1>1 DEF Store, Channel
<1>3. content[d] = <<>>
  BY <1>1, <1>2 DEF DequesMade, Made
<1>4. None \notin Messages
  BY TransportAssumption DEF TransportAssumption
<1>5. ASSUME NEW ch \in SoleNames PROVE Queued(ch)' = Queued(ch)
  <2>1. ch \in Names /\ Sole(ch)
    BY DEF SoleNames
  <2>2. CASE ch = Channel(p)
    <3>1. dequeOf[ch] = None
      BY <1>2, <2>1, <2>2 DEF SoleDeque
    <3>2. dequeOf'[ch] = d
      BY <1>2, <2>1, <2>2 DEF TypeOK
    <3> QED
      BY <1>2, <1>3, <3>1, <3>2 DEF Queued
  <2>3. CASE ch # Channel(p)
    BY <1>2, <2>1, <2>3 DEF TypeOK, Queued
  <2> QED
    BY <2>2, <2>3
<1> QED
  BY <1>2, <1>5, Stutter

LEMMA AppendPublishes ==
    ASSUME IInv, NEW p \in Publishers, AppendToDeque(p)
    PROVE  [Abstract!Next]_(Abstract!vars)
<1> TypeOK /\ PublishersOk /\ TableOk /\ OnePlace /\ SoleDeque
  BY DEF IInv
<1>1. PICK m \in Messages : /\ m = Message(p) /\ Occurs(m, left[p])
                            /\ ChannelOf[m] = Channel(p) /\ Channel(p) \in Names
  BY MessageFacts DEF AppendToDeque, Channel
<1>2. /\ ppc[p] = "append" /\ UNCHANGED <<dequeOf, taken>>
      /\ ref[p] \in Messages /\ ChannelOf[ref[p]] = Channel(p)
      /\ \A d \in Messages : d # ref[p] => content'[d] = content[d]
      /\ content'[ref[p]] = Append(content[ref[p]], m)
  BY <1>1, AppendFacts DEF AppendToDeque
<1> DEFINE ch == ChannelOf[m]
<1>3. \A c \in SoleNames : c # ch => Queued(c)' = Queued(c)
  <2> SUFFICES ASSUME NEW c \in SoleNames, c # ch PROVE Queued(c)' = Queued(c)
    OBVIOUS
  <2>1. c \in Names
    BY DEF SoleNames
  <2> QED
    BY <1>1, <1>2, <2>1, QueuedFacts DEF Queued
<1>4. CASE ch \notin SoleNames
  BY <1>2, <1>3, <1>4, Stutter
<1>5. CASE ch \in SoleNames
  <2>1. ref[p] = dequeOf[ch] /\ Sole(ch)
    BY <1>1, <1>2, <1>5 DEF SoleDeque, SoleNames
  <2>2. None \notin Messages
    BY TransportAssumption DEF TransportAssumption
  <2>3. Queued(ch) = content[ref[p]] /\ Queued(ch)' = Append(content[ref[p]], m)
    BY <1>2, <2>1, <2>2 DEF Queued
  <2>4. ~Occurs(m, content[ref[p]]) /\ ~Occurs(m, taken[ch])
    BY <1>1, <1>2 DEF OnePlace
  <2> HIDE DEF ch
  <2>5. AbstractQueue' = [AbstractQueue EXCEPT ![ch] = Append(@, m)]
    BY <1>3, <1>5, <2>3 DEF AbstractQueue
  <2>6. AbstractTaken' = AbstractTaken
    BY <1>2 DEF AbstractTaken
  <2>7. AbstractQueue[ch] = content[ref[p]] /\ AbstractTaken[ch] = taken[ch]
    BY <1>5, <2>3 DEF AbstractQueue, AbstractTaken
  <2>8. ChannelOf[m] = ch
    BY DEF ch
  <2>9. Abstract!Publish(m)
    BY <1>5, <2>4, <2>5, <2>6, <2>7, <2>8
       DEF Abstract!Publish, Abstract!Occurs, Occurs, AbstractQueue, AbstractTaken
  <2> QED
    BY <2>9 DEF Abstract!Next
<1> QED
  BY <1>4, <1>5

LEMMA PopTakes ==
    ASSUME IInv, NEW s \in Subscribers, Pop(s)
    PROVE  [Abstract!Next]_(Abstract!vars)
<1> TypeOK /\ TableOk /\ OnePlace /\ SnapshotsOk /\ SoleDeque
  BY DEF IInv
<1>1. PICK d, m \in Messages :
        /\ ChannelOf[d] \in Names /\ content[d] # <<>> /\ m = Head(content[d])
        /\ Occurs(m, content[d])
        /\ content' = [content EXCEPT ![d] = Tail(content[d])]
        /\ taken' = [taken EXCEPT ![ChannelOf[d]] = Append(taken[ChannelOf[d]], m)]
  BY PopFacts
<1> DEFINE ch == ChannelOf[d]
<1>2. /\ content'[d] = Tail(content[d]) /\ \A e \in Messages : e # d => content'[e] = content[e]
      /\ taken'[ch] = Append(taken[ch], m) /\ \A c \in Names : c # ch => taken'[c] = taken[c]
      /\ dequeOf' = dequeOf
  BY <1>1, Untouched DEF TypeOK
<1>3. \A c \in SoleNames : c # ch => Queued(c)' = Queued(c) /\ taken'[c] = taken[c]
  <2> SUFFICES ASSUME NEW c \in SoleNames, c # ch
               PROVE  Queued(c)' = Queued(c) /\ taken'[c] = taken[c]
    OBVIOUS
  <2>1. c \in Names
    BY DEF SoleNames
  <2> QED
    BY <1>2, <2>1, QueuedFacts DEF Queued
<1>4. CASE ch \notin SoleNames
  BY <1>3, <1>4, Stutter
<1>5. CASE ch \in SoleNames
  <2>1. dequeOf[ch] = d
    <3>1. ChannelOf[m] = ch
      BY <1>1 DEF OnePlace
    <3> QED
      BY <1>1, <1>5, <3>1 DEF SoleDeque, SoleNames
  <2>2. None \notin Messages
    BY TransportAssumption DEF TransportAssumption
  <2>3. Queued(ch) = content[d] /\ Queued(ch)' = Tail(content[d])
    BY <1>2, <2>1, <2>2 DEF Queued
  <2> HIDE DEF ch
  <2>4. AbstractQueue' = [AbstractQueue EXCEPT ![ch] = Tail(@)]
    BY <1>3, <1>5, <2>3 DEF AbstractQueue
  <2>5. AbstractTaken' = [AbstractTaken EXCEPT ![ch] = Append(@, m)]
    BY <1>2, <1>3, <1>5 DEF AbstractTaken
  <2>6. AbstractQueue[ch] = content[d]
    BY <1>5, <2>3 DEF AbstractQueue
  <2>7. Abstract!Take(ch)
    BY <1>1, <2>4, <2>5, <2>6 DEF Abstract!Take, AbstractQueue, AbstractTaken
  <2> QED
    BY <1>5, <2>7 DEF Abstract!Next
<1> QED
  BY <1>4, <1>5

(* A transport whose messages go through deques, copies and locks is, for    *)
(* the channels of one publisher, a set of queues: publish() takes effect in *)
(* the step that appends, a pop in the step that pops, and no other step of  *)
(* any thread can be seen.                                                   *)
THEOREM Refinement == Spec => ImplementsChannels
<1>1. Init => Abstract!Init
  BY DEF Init, Abstract!Init, SoleNames, Queued
<1>2. IInv /\ [Next]_vars => [Abstract!Next]_(Abstract!vars)
  <2> SUFFICES ASSUME IInv, [Next]_vars PROVE [Abstract!Next]_(Abstract!vars)
    OBVIOUS
  <2>1. ASSUME UNCHANGED <<dequeOf, content, taken>> PROVE UNCHANGED Abstract!vars
    BY <2>1, Stutter DEF Queued
  <2>2. \A p \in Publishers : Lookup(p) => UNCHANGED <<dequeOf, content, taken>>
    BY DEF Lookup, queues
  <2> QED
    BY <2>1, <2>2, ByKind, Untouched, StoreStutters, AppendPublishes, PopTakes
<1> QED
  BY <1>1, <1>2, Invariant, PTL DEF Spec, ImplementsChannels, Abstract!Spec
================================================================================
