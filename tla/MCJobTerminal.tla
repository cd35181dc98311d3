--------------------------- MODULE MCJobTerminal ---------------------------
EXTENDS JobTerminal, TLC

\* The sizes of the window are interchangeable, and so are the sockets.
TerminalSymmetry == Permutations(Size) \cup Permutations(Socket)
=============================================================================
