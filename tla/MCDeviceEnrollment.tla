------------------------- MODULE MCDeviceEnrollment -------------------------
EXTENDS DeviceEnrollment

CONSTANTS k1, m1, m2, r1, r2

\* Two machines cloned from one image, and the daemon of each.
MCKeyOf == [m \in {m1, m2} |-> k1]
MCMachineOf == [r \in {r1, r2} |-> IF r = r1 THEN m1 ELSE m2]

=============================================================================
