---------------------------- MODULE MCProcessPipes ----------------------------
(***************************************************************************)
(* A command that writes more to both of its streams than a pipe holds.    *)
(***************************************************************************)
EXTENDS ProcessPipes, TLC

MCStreams == <<"out", "err">>
MCOutput  == ("out" :> 4) @@ ("err" :> 4)
=============================================================================
