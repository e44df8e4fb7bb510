---------------------------- MODULE MCUnifiedPool ----------------------------
(* Two expert replies per token: requests a* are at attention layer 0      *)
(* (arriving or continuing after sampling), b* are other workers' requests *)
(* at expert layer 0, and c* have left this worker's attention layer 0 and *)
(* come back from their experts.  The empty batch is a sampling step that  *)
(* finished every request.                                                 *)
EXTENDS UnifiedPool

MCReq == {"a1", "a2", "a3", "b1", "b2", "c1", "c2", "c3"}

Msg(tag, layer, reqs) == [tag |-> tag, layer |-> layer, reqs |-> reqs]

MCFeed == {Msg("tokenizer", 0, <<"a1">>),
           Msg("tokenizer", 0, <<"a2", "a3">>),
           Msg("tokenizer", 0, <<>>),
           Msg("attention", 0, <<"b1", "b2", "b1">>),
           Msg("attention", 0, <<"b2">>),
           Msg("expert", 1, <<"c1", "c2">>),
           Msg("expert", 1, <<"c1", "c3", "c3">>),
           Msg("expert", 1, <<"c2">>)}
=============================================================================
