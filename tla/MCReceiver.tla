------------------------------ MODULE MCReceiver ------------------------------
(***************************************************************************)
(* Settings for TLC.                                                       *)
(***************************************************************************)
EXTENDS Receiver

Setting(clean, idsReused) == [clean |-> clean, idsReused |-> idsReused]

\* What the wrapper meets, and a session kept by a broker that uses no id again.
MCClean == {Setting(TRUE, TRUE)}

MCKept == {Setting(FALSE, FALSE)}

MCSettings == MCClean \cup MCKept
=============================================================================
