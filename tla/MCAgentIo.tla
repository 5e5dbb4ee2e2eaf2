------------------------------ MODULE MCAgentIo ------------------------------
(* A stream of two components: a reliable agent, and one that keeps its     *)
(* pairs alive with connectivity checks.                                    *)
EXTENDS AgentIo

MCModes == {m \in [reliable : BOOLEAN, google : BOOLEAN] : m.reliable # m.google}
=============================================================================
