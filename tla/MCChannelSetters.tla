-------------------------- MODULE MCChannelSetters --------------------------
(* Values of the constants of ChannelSetters for TLC.                      *)
EXTENDS ChannelSetters

CONSTANTS direction, level, lna

\* The block's channels are the device's, in another order.
Crossed == <<2, 1>>
TwoKeys == <<direction, level>>
OneElement == <<lna>>
=============================================================================
