----------------------------- MODULE MCCasework -----------------------------
EXTENDS Casework

CONSTANTS s1, s2, c1, o1, k1, k2, t1, r1, d1

\* A call and its tickets; a call between two sessions; an observation with
\* its packets and the sharing state; everything one session lists.
MCPools ==
  {{s1, c1, t1, k1}, {s1, s2, c1}, {s1, o1, k1, Sharing(s1)}, {s1, c1, o1}, {s1, o1, k1, k2},
   {s1, c1, r1, d1}}

=============================================================================
