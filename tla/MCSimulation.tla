----------------------------- MODULE MCSimulation -----------------------------
EXTENDS SimulationDriver

\* Destinations and pipes of the ops; the serial ids wrap at 24.
MCDst == <<1, 2, 1, 0, 2>>
MCPipeOf == <<"int", "mem", "complex", "int", "fp">>

MCScripts == {[first |-> 21, taken |-> 1, miss |-> 3],
              [first |-> 21, taken |-> 0, miss |-> 1]}
=============================================================================
