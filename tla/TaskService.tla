----------------------------- MODULE TaskService -----------------------------
(***************************************************************************)
(* What Earendil's queue promises about its tickets, one ticket per RPUSH: *)
(* a ticket that was accepted is started at most once, and possibly never. *)
(* There is no redelivery.  TaskQueue implements this specification.       *)
(***************************************************************************)
VARIABLES
  accepted,  \* tickets ever accepted
  owed,      \* accepted tickets that may still be started
  started    \* tickets whose command was started

Init ==
  /\ accepted = {}
  /\ owed = {}
  /\ started = {}

\* New tickets enter; a retried push may bring two at once.
Accept ==
  /\ accepted \subseteq accepted'
  /\ owed' = owed \cup (accepted' \ accepted)
  /\ UNCHANGED started

Start ==
  \E t \in owed :
    /\ owed' = owed \ {t}
    /\ started' = started \cup {t}
    /\ UNCHANGED accepted

\* The ticket is refused by the worker, carries no command, or is lost to a
\* crash or a failed call.
Drop ==
  \E t \in owed :
    /\ owed' = owed \ {t}
    /\ UNCHANGED <<accepted, started>>

Next == Accept \/ Start \/ Drop

Spec == Init /\ [][Next]_<<accepted, owed, started>>
=============================================================================
