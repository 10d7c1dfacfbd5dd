------------------------------- MODULE MCFcspFifo -------------------------------
\* Instance of FcspFifo for TLC: four words of memory and two entry values are
\* enough for both pointers to wrap in every phase against each other.
EXTENDS FcspFifo
================================================================================
