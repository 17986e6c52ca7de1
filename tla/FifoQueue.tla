------------------------------ MODULE FifoQueue ------------------------------
(***************************************************************************)
(* What a FreeRTOS data queue promises: a sequence of at most Cap items to *)
(* which a send appends (or, to the front, prepends) and from which a      *)
(* receive takes the head.  A blocked partner is served in the same step:  *)
(* a send handed straight to a waiting receiver leaves the sequence        *)
(* unchanged, a receive that lets a waiting sender in takes and puts.      *)
(***************************************************************************)
EXTENDS Naturals, Sequences

CONSTANTS Cap, Items
VARIABLE content

Init == content = <<>>

Put ==
    \E i \in Items : /\ Len(content) < Cap
                     /\ content' \in {Append(content, i), <<i>> \o content}

Take == content # <<>> /\ content' = Tail(content)

TakePut ==
    \E i \in Items : /\ content # <<>>
                     /\ content' \in {Append(Tail(content), i),
                                      <<i>> \o Tail(content)}

\* xQueueOverwrite, only meaningful on a queue of one item.
Overwrite == \E i \in Items : Cap = 1 /\ content' = <<i>>

Clear == content' = <<>>

Next == Put \/ Take \/ TakePut \/ Overwrite \/ Clear

Spec == Init /\ [][Next]_content
=============================================================================
