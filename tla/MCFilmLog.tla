------------------------------ MODULE MCFilmLog ------------------------------
(***************************************************************************)
(* Diaries for TLC.  A list the viewer publishes is in the same feed: it   *)
(* has no watched date, and as a string the words "Fri, 15 May" of its     *)
(* publication, here 8 or 9, are beyond every "2026-05-15".                *)
(***************************************************************************)
EXTENDS FilmLog

Seen(f, day) == [film |-> f, watched |-> day, published |-> 8, rated |-> TRUE]

Diary == {[Seen("f", 1) EXCEPT !.rated = FALSE], Seen("f", 2)}
DiaryWithList ==
  {Seen("f", 1), [film |-> "g", watched |-> 0, published |-> 9, rated |-> FALSE]}
=============================================================================
