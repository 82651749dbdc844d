------------------------- MODULE MCEvidencePipeline -------------------------
(* Two runs of the core pipeline, two contents of the runtime files.       *)
EXTENDS EvidencePipeline

(* Two runs that differ in route and result: repeated they are good, the   *)
(* second only with too few commands for the headless audit.               *)
MCMeasures ==
    {[path |-> <<"start", "detour_a", "goal">>, error |-> 400, clouds |-> 9, points |-> 4, cmds |-> 60],
     [path |-> <<"detour_a", "detour_b", "goal">>, error |-> 1200, clouds |-> 9, points |-> 4, cmds |-> 12]}
=============================================================================
