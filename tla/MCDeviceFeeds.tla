---------------------------- MODULE MCDeviceFeeds ----------------------------
(***************************************************************************)
(* DeviceFeeds on a small instance: an interval of one tick, a grace of    *)
(* two and one alert, raised before or after the setup; alerts do not      *)
(* touch each other's story except through the badge.                      *)
(***************************************************************************)
EXTENDS DeviceFeeds

Badges == 0..Cardinality(Alerts)
=============================================================================
