------------------------------- MODULE Channels -------------------------------
(***************************************************************************)
(* What the in-memory transport promises of a set of named channels,       *)
(* without threads, snapshots and locks: a channel is one queue; a message *)
(* enters the queue of its channel in one step and leaves it once, oldest  *)
(* first, to whichever subscription asks.                                  *)
(***************************************************************************)
EXTENDS Naturals, Sequences

CONSTANTS Names,      \* channel names
          Messages,   \* messages that may be published
          ChannelOf   \* ChannelOf[m]: the channel m is published to

VARIABLES queue,      \* queue[ch]: messages waiting in ch, oldest first
          taken       \* taken[ch]: messages taken from ch, in order

vars == <<queue, taken>>

Occurs(m, seq) == \E i \in DOMAIN seq : seq[i] = m

Init == /\ queue = [ch \in Names |-> <<>>]
        /\ taken = [ch \in Names |-> <<>>]

Publish(m) ==
    LET ch == ChannelOf[m]
    IN  /\ ch \in Names
        /\ ~Occurs(m, queue[ch]) /\ ~Occurs(m, taken[ch])
        /\ queue' = [queue EXCEPT ![ch] = Append(@, m)]
        /\ UNCHANGED taken

Take(ch) ==
    /\ queue[ch] # <<>>
    /\ taken' = [taken EXCEPT ![ch] = Append(@, Head(queue[ch]))]
    /\ queue' = [queue EXCEPT ![ch] = Tail(@)]

Next == \/ \E m \in Messages : Publish(m)
        \/ \E ch \in Names : Take(ch)

Spec == Init /\ [][Next]_vars
================================================================================
