------------------------------- MODULE MCInbox -------------------------------
EXTENDS Inbox, TLC

Perms == Permutations(Tasks) \cup Permutations(Ids)
=============================================================================
