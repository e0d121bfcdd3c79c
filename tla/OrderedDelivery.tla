-------------------------- MODULE OrderedDelivery --------------------------
(***************************************************************************)
(* What a link promises to the messages its two ends give it: each arrives *)
(* at the other end at most once and in the order they were given.  It     *)
(* does not promise that a message arrives.                                *)
(***************************************************************************)
EXTENDS Naturals, Sequences

CONSTANT Ends   \* the ends of the link

VARIABLES
  given,    \* given[e]: how many messages e has given to the link
  arrived   \* arrived[e]: the numbers of those that have arrived from e

Init ==
  /\ given = [e \in Ends |-> 0]
  /\ arrived = [e \in Ends |-> <<>>]

Give(e) ==
  /\ given' = [given EXCEPT ![e] = @ + 1]
  /\ UNCHANGED arrived

\* Message k arrives, and those before it that have not will not.
Arrive(e) ==
  \E k \in 1 .. given[e] :
    /\ arrived[e] = <<>> \/ arrived[e][Len(arrived[e])] < k
    /\ arrived' = [arrived EXCEPT ![e] = Append(@, k)]
    /\ UNCHANGED given

Next == \E e \in Ends : Give(e) \/ Arrive(e)

Spec == Init /\ [][Next]_<<given, arrived>>
=============================================================================
