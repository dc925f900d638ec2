---------------------------- MODULE MCUartIngest ----------------------------
(* A small link: lines of up to 4 characters, a 1-character prefix and a   *)
(* ring that holds one long line and one short one.                        *)
EXTENDS UartIngest, TLC

CONSTANTS short, long, toolong, noise, bare

MCLines == {short, long, toolong, noise, bare}
MCPrefixed == {short, long, toolong, bare}
MCSize == (short :> 2) @@ (long :> 4) @@ (toolong :> 6) @@ (noise :> 2) @@ (bare :> 1)
=============================================================================
