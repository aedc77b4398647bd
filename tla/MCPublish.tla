------------------------------ MODULE MCPublish ------------------------------
(* Publish on a few commands.                                              *)
EXTENDS Publish, TLC

\* Commands and staging names are interchangeable.
CommandSymmetry == Permutations(Commands) \cup Permutations(Names)

=============================================================================
