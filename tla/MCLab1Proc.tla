----------------------------- MODULE MCLab1Proc -----------------------------
EXTENDS Lab1Proc
=============================================================================
