--------------------------- MODULE MCDeviceTools ---------------------------
(* DeviceTools on small instances: bytes of three bits, two ports of four  *)
(* pins; three runs on a flash of six bytes, four of them erased, in       *)
(* chunks of two, with images of a byte, of two chunks, and too long ones. *)
EXTENDS DeviceTools

MCImages == {<<{1}, {2}, {}, {1, 2}, {1}, {2}, {1}>>,
             <<{2}, {}, {1, 2}, {1}, {2}, {2}, {}>>}
=============================================================================
