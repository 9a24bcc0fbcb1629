---------------------------- MODULE MCProcesses ----------------------------
EXTENDS Processes

OnePriority == {0}

MCNull == <<"null", 0>>
MCWild == <<"wild", 0>>
MCAddress == Nodes \cup {MCNull, MCWild}

=============================================================================
