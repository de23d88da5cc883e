---------------------------- MODULE MCOpJournal ----------------------------
(* Small instances of OpJournal for TLC.                                    *)
EXTENDS OpJournal, TLC

\* Three fates of a one-step batch, and a batch that fails behind its first step.
SmallBatches == {<<"ok">>, <<"clean">>, <<"ok", "clean">>}

\* The same with a step that fails after writing some of its fields.
DirtyBatches == SmallBatches \cup {<<"dirty">>, <<"ok", "dirty">>}

ThreeIds == 1 .. 3
FourIds == 1 .. 4

OwnerSymmetry == Permutations(Owners)
=============================================================================
