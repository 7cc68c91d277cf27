\* ./raftkv --node-id=node-1, without --peers.
SPECIFICATION Undisturbed
CONSTANT Peers = {}
PROPERTY NodeLeads
