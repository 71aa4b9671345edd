------------------------------ MODULE MCPolicyDecision ------------------------------
EXTENDS PolicyDecision

MCCitations == {<<0, 0>>, <<1, 1>>, <<1, 2>>}
====================================================================================
