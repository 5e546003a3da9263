------------------------------ MODULE MCPresence ------------------------------
(* Small instances of Presence for TLC. *)
EXTENDS Presence, TLC

\* nodes are interchangeable, and so are users and connections
NodeSymmetry == Permutations(Nodes) \union Permutations(Logins) \union Permutations(Users)
===============================================================================
