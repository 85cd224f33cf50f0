------------------------------ MODULE MCTomChat ------------------------------
(***************************************************************************)
(* Instances of TomChat for TLC: the owner and a stranger on Discord, the  *)
(* stranger may be given a name, and Sauron dispatches.                    *)
(***************************************************************************)
EXTENDS TomChat

Owner == [tier |-> "solomon", name |-> "Solomon"]
Regular == [tier |-> "regular", name |-> "Brian"]
Stranger == [tier |-> "stranger", name |-> NoName]

MCNames == {"Solomon", "Brian"}
MCConfigured == [u \in Users |-> CASE u = "owner" -> Owner
                                   [] OTHER -> Stranger]
MCOverrides == {Regular}

Plain == [long |-> FALSE, pref |-> "none", drafts |-> 0, fact |-> FALSE]
MCMessages == {[Plain EXCEPT !.long = TRUE],
               [Plain EXCEPT !.pref = "1", !.drafts = 2]}
=============================================================================
