----------------------------- MODULE MCLab2Proc -----------------------------
EXTENDS Lab2Proc
=============================================================================
