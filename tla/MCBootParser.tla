---------------------------- MODULE MCBootParser ----------------------------
(* XeBootParser on every argument of at most four tokens.                  *)
EXTENDS XeBootParser

MaxTokens == 4

MCBootArgs == UNION {[1 .. n -> Tokens] : n \in 0 .. MaxTokens}

=============================================================================
