----------------------------- MODULE MCRelayer -----------------------------
(***************************************************************************)
(* Two lines with one caller of the script, one line with two callers, or  *)
(* one of each where npx and the script die too; two daemons may be        *)
(* launched.                                                               *)
(***************************************************************************)
EXTENDS Relayer

CONSTANTS l1, l2, operator, faucet

TwoLines == [lines |-> {l1, l2}, callers |-> {operator},
             commands |-> {"start", "stop", "restart"}, mortal |-> {"daemon"}]
TwoCallers == [lines |-> {l1}, callers |-> {operator, faucet},
               commands |-> {"start", "restart"}, mortal |-> {"daemon"}]
OneOfEach == [lines |-> {l1}, callers |-> {operator},
              commands |-> {"start", "stop", "restart"},
              mortal |-> {"daemon", "npx", "script"}]
OnlyStart == [lines |-> {l1, l2}, callers |-> {operator}, commands |-> {"start"},
              mortal |-> {}]

MCLines == {l1, l2}
MCCallers == {operator, faucet}
MCPids == 1 .. 2
MCCasts == {TwoLines, TwoCallers, OneOfEach}
MCOnlyStart == {OnlyStart}
=============================================================================
