------------------------------ MODULE Requests -------------------------------
(***************************************************************************)
(* What a protocol promises to those who make requests, whatever becomes   *)
(* of datagrams, timers and identifiers: a request is called back at most  *)
(* once, after it was made, and callbacks come one at a time.  When the    *)
(* protocol is closed it forgets some requests for good and answers none   *)
(* of the others any more: they can only fail, and so can those that are   *)
(* made after that.  Protocol.tla implements it.                           *)
(***************************************************************************)
EXTENDS Sequences

CONSTANT Call

VARIABLES made,       \* the requests that were made
          called,     \* whether each was called back, and with success
          forgotten,  \* the requests that nobody will be called back for
          open        \* the protocol is not closed

Init == /\ made = {}
        /\ called = [c \in Call |-> <<>>]
        /\ forgotten = {}
        /\ open = TRUE

Make(c) == /\ c \notin made
           /\ made' = made \cup {c}
           /\ UNCHANGED <<forgotten, open>>
           /\ called' \in {called, [called EXCEPT ![c] = <<FALSE>>]}

CallBack(c, ok) == /\ c \in made \ forgotten
                   /\ called[c] = <<>>
                   /\ ok => open
                   /\ called' = [called EXCEPT ![c] = <<ok>>]
                   /\ UNCHANGED <<made, forgotten, open>>

Close == /\ open
         /\ open' = FALSE
         /\ forgotten' \in SUBSET {c \in made : called[c] = <<>>}
         /\ UNCHANGED <<made, called>>

Next == \/ Close
        \/ \E c \in Call : Make(c) \/ \E ok \in BOOLEAN : CallBack(c, ok)

Spec == Init /\ [][Next]_<<made, called, forgotten, open>>
=============================================================================
