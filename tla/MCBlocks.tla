-------------------------------- MODULE MCBlocks --------------------------------
EXTENDS Blocks
MCPolicies == {[interval |-> 3, idle |-> 2], [interval |-> 3, idle |-> 5],
               [interval |-> 4, idle |-> Off]}
================================================================================
