------------------------------ MODULE MCChats ------------------------------
(* Three messages: two of the customer, the second one newer, and one reply. *)
EXTENDS Chats

MCTs == <<1, 2, 3>>
MCMine == <<FALSE, FALSE, TRUE>>
Message(m) == [kind |-> "message", msg |-> m, at |-> 0, mine |-> MCMine[m]]
Change(k, m, t, s) == [kind |-> k, msg |-> m, at |-> t, mine |-> s]
Limits(again, faults, crashes, reads, expiries) ==
  [again |-> again, faults |-> faults, crashes |-> crashes, reads |-> reads, expiries |-> expiries]

MCCases ==
  { \* the customer edits and deletes a message of theirs
    [events |-> {Message(1), Change("edit", 1, 5, FALSE), Change("revoke", 1, 6, FALSE)},
     limits |-> Limits(0, 1, 0, 0, 0)],
    \* two edits, delivered out of order
    [events |-> {Message(1), Change("edit", 1, 5, FALSE), Change("edit", 1, 6, FALSE)},
     limits |-> Limits(0, 1, 0, 0, 0)],
    \* one delete with every trouble, the last attempt of an envelope failing too
    [events |-> {Message(1), Change("revoke", 1, 6, FALSE)}, limits |-> Limits(0, 3, 1, 0, 1)],
    [events |-> {Message(1), Change("revoke", 1, 6, FALSE)}, limits |-> Limits(1, 1, 1, 0, 0)],
    \* messages out of order while the chat is being read
    [events |-> {Message(1), Message(2), Message(3)}, limits |-> Limits(1, 1, 0, 2, 0)],
    \* the business's reply, its delivery, and a delete that is not the business's
    [events |-> {Message(3), Change("revoke", 3, 5, FALSE), Change("status", 3, 3, TRUE), Change("status", 3, 5, TRUE)},
     limits |-> Limits(1, 0, 0, 0, 0)] }

\* A message and one edit of it, nothing else.
MCRaceCases == {[events |-> {Message(1), Change("edit", 1, 5, FALSE)}, limits |-> Limits(0, 0, 0, 0, 0)]}
=============================================================================
