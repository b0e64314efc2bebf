---------------------------- MODULE MCPwmFirmware ----------------------------
(* Two channels; waves of different lengths, so that an earlier program may     *)
(* leave more samples in the shared RAM than the next one writes.               *)
EXTENDS PwmFirmware

Two(a, b) == <<a, b>>

\* Waves of three samples, of two, and of one.
Waves == {Two(<<10, 20, 30>>, << >>), Two(<<5, 99>>, << >>), Two(<<50>>, << >>)}

SampleJobs ==
  [pwm |-> {Two(<<25, 100>>, << >>), Two(<<1, 2>>, << >>)},
   analog |-> Waves,
   waveform |-> {Two(<<10, 20, 30>>, <<40, 50, 60>>), Two(<<100>>, <<80, 90>>)}]

AnalogJobs == [analog |-> Waves]

MultichannelJobs ==
  [multichannel |-> {Two(<<10, 90>>, <<40, 60>>), Two(<<30, 70>>, <<30, 70>>)}]
=============================================================================
