--------------------------------- MODULE Lanes ---------------------------------
(***************************************************************************)
(* What a connection that carries several lanes of messages promises: what *)
(* is given on a lane is what was taken on it, message by message and in   *)
(* order, whatever happens on the others.  A chunk stream of RTMP is such  *)
(* a lane.                                                                 *)
(***************************************************************************)
EXTENDS Naturals, Sequences

CONSTANT Lane

VARIABLES
    taken, \* lane -> the messages accepted
    given  \* lane -> the messages handed over

vars == <<taken, given>>

Init == taken = [l \in Lane |-> <<>>] /\ given = [l \in Lane |-> <<>>]

\* One more message, of any content, is accepted.
Take(l) ==
    /\ Len(taken'[l]) = Len(taken[l]) + 1
    /\ taken' = [taken EXCEPT ![l] = Append(@, taken'[l][Len(@) + 1])]
    /\ UNCHANGED given

\* The first message of a lane not handed over yet is.
Give(l) ==
    /\ Len(given[l]) < Len(taken[l])
    /\ given' = [given EXCEPT ![l] = Append(@, taken[l][Len(@) + 1])]
    /\ UNCHANGED taken

Next == \E l \in Lane : Take(l) \/ Give(l)

Spec == Init /\ [][Next]_vars
================================================================================
