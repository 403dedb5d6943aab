----------------------------- MODULE MCPalSource -----------------------------
(* A small instance of PalSource: constant values for the configuration.     *)
EXTENDS PalSource

TwoRates == {44100, 48000}
BothUsecases == {"static", "dynamic"}
Refusals == {{}, {"open"}, {"buffer_size", "map"}, {"start"}, {"stop", "close"},
             {"set_device", "connect"}}
=============================================================================
