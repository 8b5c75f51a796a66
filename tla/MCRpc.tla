------------------------------- MODULE MCRpc -------------------------------
EXTENDS RpcClient
=============================================================================
