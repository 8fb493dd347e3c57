---------------------------- MODULE MCQuickChat ----------------------------
EXTENDS QuickChat
=============================================================================
