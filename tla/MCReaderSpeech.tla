--------------------------- MODULE MCReaderSpeech ---------------------------
(* Model-checking instances of ReaderSpeech; the sets are given here. *)
EXTENDS ReaderSpeech

FirstAndLast == {1, Blocks}
SecondBlock == {2}

=============================================================================
