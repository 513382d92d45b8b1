------------------------------- MODULE MC_Proc -------------------------------
EXTENDS Proc

MCNSlots == 3
MCMaxPid == 5
=============================================================================
