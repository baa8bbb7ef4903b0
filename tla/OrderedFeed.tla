----------------------------- MODULE OrderedFeed -----------------------------
(***************************************************************************)
(* What a page can count on: from the moment its WebSocket is accepted it  *)
(* is shown readings made since then, each at most once and in the order   *)
(* they were made.  It may miss any of them.  Readings are numbered.       *)
(***************************************************************************)
EXTENDS Naturals, Sequences

CONSTANT Clients

VARIABLES
  made,   \* the readings made
  since,  \* per page, those made before it was accepted
  seen    \* per page, what it has been shown

Init ==
  /\ made = 0
  /\ since = [c \in Clients |-> 0]
  /\ seen = [c \in Clients |-> <<>>]

Make == made' = made + 1 /\ UNCHANGED <<since, seen>>

Open(c) ==
  /\ since' = [since EXCEPT ![c] = made]
  /\ seen' = [seen EXCEPT ![c] = <<>>]
  /\ UNCHANGED made

Show(c, r) ==
  /\ r > since[c]
  /\ \A i \in DOMAIN seen[c] : seen[c][i] < r
  /\ seen' = [seen EXCEPT ![c] = Append(@, r)]
  /\ UNCHANGED <<made, since>>

Next == \/ Make
        \/ \E c \in Clients : Open(c) \/ \E r \in 1 .. made : Show(c, r)

Spec == Init /\ [][Next]_<<made, since, seen>>
=============================================================================
