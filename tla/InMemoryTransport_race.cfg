CONSTANTS
    m1 = m1
    m2 = m2
    m3 = m3
    m4 = m4
    both = both
    own = own
    p1 = p1
    p2 = p2
    poll = poll
    back = back
    None = None
    Messages <- MCMessages
    Names <- MCNames
    ChannelOf <- MCChannelOf
    Publishers = {p1, p2}
    Program <- MCProgram
    Subscribers = {poll, back}
    Pattern <- MCPattern
    Pollers = {poll}
SPECIFICATION Spec
INVARIANTS PublishedIsQueued
