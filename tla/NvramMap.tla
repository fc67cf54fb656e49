------------------------------ MODULE NvramMap ------------------------------
(* What the nvram command (package/utils/nvram) promises to callers that    *)
(* run one writing command at a time: a map from names to values, changed   *)
(* in a staged copy and made permanent by commit.                           *)
EXTENDS Integers, FiniteSets

CONSTANTS
    Sdram,     \* variables of which the header of the image holds a copy
    Default,   \* what the header holds when one of them is missing
    Command,   \* the writing commands: what each sets, and what it removes
    Weight(_), \* bytes a map takes in the image
    Room       \* bytes the image has for it

VARIABLES
    saved,     \* the map in flash; with an empty domain, no image at all
    staged,    \* the map in the staging file
    open,      \* whether there is a staging file
    saving     \* a commit is writing the flash

vars == <<saved, staged, open, saving>>

\* What is read back when only the tuples in kept were written: an SDRAM
\* variable without a tuple comes from the header.
ReadBack(f, kept) ==
    [n \in kept \union Sdram |->
        IF n \in kept \/ Sdram \subseteq DOMAIN f THEN f[n] ELSE Default]

Edited(f, c) ==
    [n \in (DOMAIN f \union DOMAIN c.set) \ c.unset |->
        IF n \in DOMAIN c.set THEN c.set[n] ELSE f[n]]

\* All of a change is staged, or what there is room for. A full image or one
\* that is not there refuses the change.
Change(c) ==
    /\ open /\ DOMAIN staged # {}
    /\ LET f == Edited(staged, c)
       IN  IF Weight(f) <= Room
             THEN staged' = ReadBack(f, DOMAIN f)
             ELSE \E kept \in SUBSET DOMAIN f : staged' = ReadBack(f, kept)
    /\ UNCHANGED <<saved, open, saving>>

\* The first command copies the flash.
Stage ==
    /\ ~open /\ open' = TRUE
    /\ staged' = saved
    /\ UNCHANGED <<saved, saving>>

BeginCommit ==
    /\ open /\ ~saving /\ saving' = TRUE
    /\ UNCHANGED <<saved, staged, open>>

EndCommit ==
    /\ saving /\ saving' = FALSE
    /\ saved' = staged
    /\ UNCHANGED <<staged, open>>

Unstage ==
    /\ open /\ ~saving /\ staged = saved
    /\ open' = FALSE
    /\ UNCHANGED <<saved, staged, saving>>

\* What a commit that was cut short may leave: nothing that is recognised, or
\* some of the new variables.
Torn(f) ==
    \/ DOMAIN f = {}
    \/ /\ Sdram \subseteq DOMAIN f
       /\ \A n \in DOMAIN f \ Sdram : n \in DOMAIN staged /\ f[n] = staged[n]

PowerLoss ==
    /\ saved' = saved \/ (saving /\ Torn(saved'))
    /\ open' = FALSE /\ saving' = FALSE
    /\ staged' = saved'

Init == staged = saved /\ ~open /\ ~saving

Next ==
    \/ Stage \/ BeginCommit \/ EndCommit \/ Unstage \/ PowerLoss
    \/ \E c \in Command : Change(c)
=============================================================================
