--------------------------- MODULE MCMountProcess ----------------------------
(* Command lines: each subset of the options, before one to three words.    *)
EXTENDS MountProcess, FiniteSets, SequencesExt

Words == {<<>>, <<"archive">>, <<"archive", "absolute">>, <<"archive", "relative">>,
          <<"archive", "absolute", "relative">>}

Options == SUBSET {"-h", "-V", "-f", "--automount"}

AllCommandLines == {SetToSeq(o) \o w : o \in Options, w \in Words}
=============================================================================
