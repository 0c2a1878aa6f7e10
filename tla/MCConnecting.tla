---------------------------- MODULE MCConnecting ----------------------------
(***************************************************************************)
(* Instance of Connecting for TLC.                                         *)
(***************************************************************************)
EXTENDS Connecting

\* Growing by squares, growing by one, and a limit that is too low to grow.
MCBackoffs ==
  {[reconnect_delay |-> 1, reconnect_delay_max |-> 5, exponential |-> TRUE],
   [reconnect_delay |-> 1, reconnect_delay_max |-> 3, exponential |-> FALSE],
   [reconnect_delay |-> 2, reconnect_delay_max |-> 1, exponential |-> FALSE]}

MCBoundAs == {IPv4, DomainName, IPv6}
=============================================================================
