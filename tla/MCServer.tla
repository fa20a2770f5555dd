------------------------------ MODULE MCServer ------------------------------
(* Requests and bounds for checking Server with TLC.                       *)
EXTENDS Server

Alone(m) == [whole |-> FALSE, members |-> <<m>>]
Together(ms) == [whole |-> TRUE, members |-> ms]

(* Batches of members only: nothing has to be undone.                      *)
PlainRequests ==
  { <<Alone(Post)>>,
    <<Alone(Refused), Alone(Post)>>,
    <<Alone(Broken), Alone(Post)>>,
    <<Alone(Deletion(1))>>,
    <<Alone(Numbered(2))>>,
    <<Alone(Deletion(1)), Alone(Deletion(2))>> }

(* Change sets that are done, refused late and early, and raise; a change  *)
(* set after a member that stays, and one before it; and one whose client  *)
(* numbers an order, as the range may do next, or has done.                *)
SetRequests ==
  { <<Together(<<Post, Deletion(1)>>)>>,
    <<Together(<<Deletion(1), Post, Refused>>)>>,
    <<Together(<<Numbered(2), Post>>)>>,
    <<Together(<<Post, Broken>>), Alone(Deletion(2))>>,
    <<Alone(Post), Together(<<Deletion(2), Deletion(1)>>)>> }

(* With batches of members on their own, but for two that only delete: the *)
(* deletions of the others are enough.                                     *)
AllRequests ==
  SetRequests \cup {r \in PlainRequests : \E i \in DOMAIN r : r[i].members[1].does # "delete"}
=============================================================================
