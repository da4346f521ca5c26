------------------------------ MODULE MCStores ------------------------------
(* The two stores of files: the quotes of the last session, which several      *)
(* processes share, and the minute samples.  They share no state, so one run    *)
(* checks each of them on its own: in a behaviour one part runs while the other  *)
(* rests.                                                                        *)
EXTENDS RecoveryStore, SampleStore, TLC

CONSTANTS p1, p2, s1, s2

VARIABLE part

PartsInit == part \in {"recovery", "samples"} /\ Init /\ SampleInit

PartsNext ==
    /\ UNCHANGED part
    /\ IF part = "recovery" THEN Next ELSE UNCHANGED vars
    /\ IF part = "samples" THEN SampleNext ELSE UNCHANGED ssVars

PartsSpec == PartsInit /\ [][PartsNext]_<<part, vars, ssVars>>

Symmetry == Permutations(Processes) \cup Permutations(Symbols)

\* The version read or checked matters only by whether it is still the file's,
\* and the merged map only while it is; a process that is down has no state; of
\* the times heard, only those that have not expired matter.
SameFile(p) ==
    CASE pc[p] = "rename" -> checked[p] = file.version
      [] pc[p] \in {"quarantine", "check", "recheck"} -> observed[p] = file.version
      [] OTHER -> pc[p] = "finish"

HeardView(p) == [s \in Symbols |-> IF Valid(heard[p][s]) THEN heard[p][s] ELSE 0]

FlushView(p) ==
    IF pc[p] = "idle" THEN <<>>
    ELSE <<pc[p], attempt[p], touched[p], SameFile(p),
           IF SameFile(p) /\ pc[p] # "quarantine" THEN merged[p] ELSE <<>>>>

ProcessView(p) ==
    IF up[p] THEN <<entries[p], dirty[p], HeardView(p), FlushView(p)>> ELSE <<>>

RecoveryView ==
    <<now, file.valid, file.map, ~file.valid /\ corrupt = file.version, raced,
      [p \in Processes |-> ProcessView(p)]>>

View == <<part, IF part = "recovery" THEN RecoveryView ELSE ssVars>>

\* After a race the two properties about lost quotes say nothing any more.
NotRaced == ~raced

\* One flush at a time is in its second pass, while the other may be anywhere in
\* its first.
OneSecondPass == \E p \in Processes : pc[p] = "idle" \/ attempt[p] = 0

Explored == NotRaced /\ OneSecondPass
=============================================================================
