------------------------------ MODULE ResponseCache ------------------------------
(***************************************************************************)
(* What the store of responses promises (src/src/responses/state.ts): it   *)
(* may forget, and after a restart it may know less than before, but it    *)
(* never replays anything but the version that was remembered last, and    *)
(* after a restart the one that the last complete snapshot holds.          *)
(***************************************************************************)
EXTENDS Naturals

CONSTANT Ids

VARIABLES
    known,   \* the version a request would be continued from; 0: none
    taken,   \* the picture of it that is being written
    saved,   \* the picture on disk
    last     \* the version that was remembered last

\* One picture holds no more than another.
Fewer(f, g) == \A i \in Ids : f[i] \in {g[i], 0}

Nothing == [i \in Ids |-> 0]

Init == known = Nothing /\ taken = Nothing /\ saved = Nothing /\ last = Nothing

\* A version is remembered in place of an older one, or nothing is; other
\* responses may be given up for it.
Remember ==
    \E i \in Ids :
        /\ \A j \in Ids : last[j] < last'[i]
        /\ last' = [last EXCEPT ![i] = last'[i]]
        /\ Fewer(known', [known EXCEPT ![i] = last'[i]])
        /\ Fewer(taken', taken) /\ Fewer(saved', saved)

Forget ==
    /\ Fewer(known', known) /\ Fewer(taken', taken) /\ Fewer(saved', saved)
    /\ UNCHANGED last

\* A picture of what is known is taken, and put in place of the one on disk.
Take ==
    /\ Fewer(taken', known)
    /\ UNCHANGED <<known, saved, last>>

Save ==
    /\ saved' = taken
    /\ UNCHANGED <<known, taken, last>>

\* A restart begins with what is on disk.
Restart ==
    /\ Fewer(known', saved) /\ Fewer(taken', taken)
    /\ UNCHANGED <<saved, last>>

Next == Remember \/ Forget \/ Take \/ Save \/ Restart

Spec == Init /\ [][Next]_<<known, taken, saved, last>>

=============================================================================
