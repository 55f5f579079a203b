--------------------------- MODULE MCConversation ---------------------------
(* A small instance of Conversation for TLC. *)
EXTENDS Conversation

CONSTANTS m1, m2

\* One message that is worked on, or two that are answered at once.
MCRequests ==
  {[m \in {m1, m2} |-> IF m = m1 THEN words ELSE {"unsent"}] :
     words \in {{"work", "levelUnclear"}, {"plan", "holdOff", "levelUnclear"}, {"work"}}}
    \union {[m \in {m1, m2} |-> IF m = m1 THEN words ELSE {"greeting"}] :
              words \in {{"model", "whichOne", "question"}, {"short"}}}
=============================================================================
