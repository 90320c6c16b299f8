------------------------------ MODULE Exchange ------------------------------
(***************************************************************************)
(* What a client relies on in a connection to a ServerImpl: its requests   *)
(* are dispatched in the order they were sent, each once; a request gets   *)
(* at most one reply, and none if it expects none; replies come back in    *)
(* order, each once; after a request that is refused none is dispatched.   *)
(***************************************************************************)
EXTENDS Naturals, Sequences

VARIABLES
  expects,  \* for each request sent, whether it expects a reply
  handled,  \* the requests dispatched, by number
  replied,  \* the requests replied to
  answered, \* the replies that reached the client
  refused   \* was a request refused?

exchVars == <<expects, handled, replied, answered, refused>>

Init == /\ expects = <<>> /\ handled = <<>> /\ replied = <<>>
        /\ answered = <<>> /\ refused = FALSE

Send == /\ \E e \in BOOLEAN : expects' = Append(expects, e)
        /\ UNCHANGED <<handled, replied, answered, refused>>

Handle == /\ ~refused
          /\ Len(handled) < Len(expects)
          /\ handled' = Append(handled, Len(handled) + 1)
          /\ UNCHANGED <<expects, replied, answered, refused>>

(* The request that was dispatched last is replied to.                     *)
Reply == /\ handled # <<>>
         /\ expects[Len(handled)]
         /\ \A i \in DOMAIN replied : replied[i] # Len(handled)
         /\ replied' = Append(replied, Len(handled))
         /\ UNCHANGED <<expects, handled, answered, refused>>

Deliver == /\ Len(answered) < Len(replied)
           /\ answered' = Append(answered, replied[Len(answered) + 1])
           /\ UNCHANGED <<expects, handled, replied, refused>>

Refuse == /\ Len(handled) < Len(expects)
          /\ refused' = TRUE
          /\ UNCHANGED <<expects, handled, replied, answered>>

Next == Send \/ Handle \/ Reply \/ Deliver \/ Refuse

Spec == Init /\ [][Next]_exchVars
=============================================================================
