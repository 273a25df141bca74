--------------------------- MODULE MCDeleteDialog ---------------------------
EXTENDS DeleteDialog

\* A season of two episodes: one that is ticked, one that is not.
TwoEpisodes == {"s1e1", "s1e2"}
Seasons1 == [e \in TwoEpisodes |-> 1]
=============================================================================
