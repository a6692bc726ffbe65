----------------------------- MODULE MCTranscoder -----------------------------
(* Instances of Transcoder for TLC.  A job is a model value and its kind is     *)
(* given by MCKind.                                                             *)
EXTENDS Transcoder

CONSTANTS single, remote, inPlace, merge, bad, w1, w2

MCMixed   == {single, remote, merge, bad}
MCAlone   == {single}
MCInPlace == {inPlace}

MCKind(jobs) ==
    [j \in jobs |-> CASE j = remote  -> "remote"
                      [] j = inPlace -> "inPlace"
                      [] j = merge   -> "merge"
                      [] j = bad     -> "bad"
                      [] OTHER       -> "single"]
MCKindMixed   == MCKind(MCMixed)
MCKindInPlace == MCKind(MCInPlace)
MCKindAlone   == MCKind(MCAlone)

MCOne == {w1}
MCTwo == {w1, w2}

\* The first worker transcodes, the second only renames.
MCConvert    == [w \in MCTwo |-> w = w1]
MCConvertOne == [w \in MCOne |-> TRUE]
=============================================================================
