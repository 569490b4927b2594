------------------------------ MODULE MCSdei ------------------------------
EXTENDS Sdei

\* A private dynamic event, a shared dynamic one, one that EL3 dispatches, or
\* such a one next to a shared one of the platform's.
MCPlatforms == {{"dyn"}, {"spi"}, {"explicit"}, {"explicit", "static"}}
MCStaticIntr == [m \in {"static"} |-> "i72"]
MCBindable == [ms \in MCPlatforms |-> IF "static" \in ms THEN {} ELSE IF "spi" \in ms THEN {"i72"} ELSE {"i24"}]
MCNsIntr == [ms \in MCPlatforms |-> IF ms = {"spi"} THEN {"i72"} ELSE {}]
MCMaxReg == [m \in AllMaps |-> IF m = "explicit" THEN 1 ELSE 2]
=============================================================================
