------------------------------ MODULE MCLexer ------------------------------
(* Files of up to five tokens, and of up to three where some are literals or raw strings. *)
EXTENDS Grammar, SequencesExt

Tokens == {<<Slash, Dash>>, <<Dash, Slash>>, <<Dash, Dash>>, <<Quote>>, <<Backslash>>,
           <<Newline>>, <<Other>>}

MoreTokens ==
  Tokens \cup {<<Tick, Quote, Other>>, <<Tick, Backslash, Quote, Other>>, <<RawMark, Quote>>,
               <<RawMark, Hash, Quote>>, <<Quote, Hash>>, <<Tick, Other>>}

Files(tokens, n) == {FlattenSeq(ts) : ts \in UNION {[1..m -> tokens] : m \in 0..n}}

MCSources == Files(Tokens, 5) \cup Files(MoreTokens, 3)
=============================================================================
