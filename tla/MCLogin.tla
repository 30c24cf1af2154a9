------------------------------ MODULE MCLogin ------------------------------
(* A small instance of Login: its tabs and its emails are interchangeable. *)
EXTENDS Login, TLC

Interchangeable == Permutations(Tabs) \cup Permutations(Emails)
=============================================================================
