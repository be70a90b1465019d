---------------------------- MODULE FifoChannel ----------------------------
(***************************************************************************)
(* What durable delivery promises the code on both sides of it: a link is  *)
(* a queue.  What was put into a link is taken out in the same order and   *)
(* without gaps; the message taken last may be taken once more (the        *)
(* receiver's process stopped before it was marked processed), and never   *)
(* an older one.  A receiver that listens hears what is taken; while it    *)
(* does not, what is taken is lost to it.                                  *)
(***************************************************************************)
EXTENDS Naturals, Sequences

CONSTANTS Links,     \* independent queues
          Messages   \* what can be put into them

VARIABLES put,       \* put[l]: everything put into link l, oldest first
          taken,     \* taken[l]: everything taken out of it, repeats included
          unheard,   \* unheard[l]: positions in taken[l] nobody listened to
          listening  \* the links whose receivers listen

Init ==
    /\ put       = [l \in Links |-> <<>>]
    /\ taken     = [l \in Links |-> <<>>]
    /\ unheard   = [l \in Links |-> {}]
    /\ listening = Links

(* What has been taken out of a link.                                      *)
Taken(l) == {taken[l][i] : i \in DOMAIN taken[l]}

(* One publication enters several links at once, or none of them.          *)
Put ==
    /\ UNCHANGED <<taken, unheard, listening>>
    /\ put' = [l \in Links |-> put'[l]]
    /\ \E m \in Messages : \A l \in Links :
          put'[l] = put[l] \/ put'[l] = Append(put[l], m)

(* Message m leaves the link, to be heard or not.                          *)
Take(l, m) ==
    /\ taken' = [taken EXCEPT ![l] = Append(@, m)]
    /\ unheard' = IF l \in listening THEN unheard
                  ELSE [unheard EXCEPT ![l] = @ \cup {Len(taken[l]) + 1}]
    /\ UNCHANGED <<put, listening>>

(* Everything before message k was taken, and nothing else.                *)
TakeNext(l) ==
    \E k \in DOMAIN put[l] :
       /\ Taken(l) = {put[l][j] : j \in 1 .. k - 1}
       /\ Take(l, put[l][k])

TakeLastAgain(l) ==
    /\ taken[l] # <<>>
    /\ Take(l, taken[l][Len(taken[l])])

(* A receiver stops or begins to listen to its links.                      *)
Turn ==
    /\ listening' \in SUBSET Links
    /\ UNCHANGED <<put, taken, unheard>>

Next == Put \/ Turn \/ \E l \in Links : TakeNext(l) \/ TakeLastAgain(l)

Spec == Init /\ [][Next]_<<put, taken, unheard, listening>>
=============================================================================
