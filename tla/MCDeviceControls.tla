--------------------------- MODULE MCDeviceControls ---------------------------
(* DeviceControls with a time of two ticks for what a command shows.        *)
EXTENDS DeviceControls
=============================================================================
