------------------------------ MODULE MCShell ------------------------------
EXTENDS Shell

\* "[" and "A" are printing characters, and ESC [ A is the up arrow.
MCText == {"[", "A"}
MCKeys == MCText \cup {"EOL", "BS", "DEL", "CLEAR", "ESC", "PRIOR", "NEXT", "REINIT"}
=============================================================================
