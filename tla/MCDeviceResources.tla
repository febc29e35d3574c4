------------------------- MODULE MCDeviceResources -------------------------
(* DeviceResources on a bus with another device and three Airspies, one    *)
(* of them without a serial number.                                        *)
EXTENDS DeviceResources

MCBus == << [airspy |-> FALSE, serial |-> 0], [airspy |-> TRUE, serial |-> 0],
            [airspy |-> TRUE, serial |-> 1], [airspy |-> TRUE, serial |-> 2] >>
MCPool == 1 .. 11
=============================================================================
