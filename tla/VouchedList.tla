----------------------------- MODULE VouchedList -----------------------------
(***************************************************************************)
(* What a trusted list promises whoever asks it, with no XML in sight: it   *)
(* vouches for entries one after another, never for one its operator did    *)
(* not publish, takes none back, and once it is complete it vouches for     *)
(* all of them.                                                             *)
(***************************************************************************)
CONSTANTS Entry

VARIABLES
    published,  \* the entries of the national list that count
    vouched,    \* those the parsed list vouches for
    complete    \* it may be asked

vars == <<published, vouched, complete>>

Init ==
    /\ published \subseteq Entry
    /\ vouched = {}
    /\ complete => published = {}

Vouch ==
    /\ ~complete
    /\ \E e \in published : vouched' = vouched \cup {e}
    /\ UNCHANGED <<published, complete>>

Complete ==
    /\ ~complete /\ vouched = published
    /\ complete' = TRUE
    /\ UNCHANGED <<published, vouched>>

Spec == Init /\ [][Vouch \/ Complete]_vars
=============================================================================
