----------------------------- MODULE MCBurnOps ------------------------------
(* Small instances of BurnOps: station timetables with a blackout.         *)
EXTENDS BurnOps

\* One satellite, out of contact from epoch 5 to 6.
ContactOne == <<1..4 \cup 7..14>>

\* The same, out of contact longer than the search for a recovery window lasts.
ContactLong == <<1..4 \cup 10..16>>
=============================================================================
