----------------------------- MODULE MCProject -----------------------------
EXTENDS Project
=============================================================================
