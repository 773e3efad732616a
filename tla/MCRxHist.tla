------------------------------ MODULE MCRxHist ------------------------------
EXTENDS RxHist
=============================================================================
