------------------------------- MODULE Channel -------------------------------
(***************************************************************************)
(* What every pipe of the program promises: a sender's messages come out   *)
(* whole, once, and in the order they went in.  Nothing says that they all *)
(* come out: a connection may be lost and a queue may be left unread.      *)
(***************************************************************************)
EXTENDS Naturals, Sequences

CONSTANT Messages

VARIABLES sent, got     \* the histories of both ends

Init == sent = <<>> /\ got = <<>>

Send ==
    /\ \E m \in Messages : sent' = Append(sent, m)
    /\ UNCHANGED got

Receive ==
    /\ Len(got) < Len(sent)
    /\ got' = Append(got, sent[Len(got) + 1])
    /\ UNCHANGED sent

Next == Send \/ Receive

Spec == Init /\ [][Next]_<<sent, got>>

=============================================================================
