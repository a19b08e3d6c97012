----------------------------- MODULE MCVisitor -----------------------------
\* An instance of Visitor for TLC.
EXTENDS Visitor
=============================================================================
