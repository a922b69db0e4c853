--------------------------- MODULE ConfigContract ---------------------------
(***************************************************************************)
(* What a client can rely on about the configuration of a bot, seen        *)
(* without row, file and start command: of each section, what was asked    *)
(* for, whether that is in force, and whether it was lost on the way.      *)
(***************************************************************************)
CONSTANT Sections

VARIABLES
    asked,  \* what clients were told is configured
    force,  \* the sections that are as asked wherever they are kept
    lost,   \* the sections that the service may have failed to bring there
    rest    \* the bot is running and nothing is going on

Brought == rest => Sections \subseteq lost \cup force

Init == force \subseteq Sections /\ lost \subseteq Sections /\ Brought

\* No step takes a section out of force but one that asks for another, or one
\* that loses it; what is lost is found again only by bringing it into force.
Stay(changed) ==
    /\ force \subseteq changed \cup force' \cup lost'
    /\ lost \subseteq lost' \cup force'

Ask ==
    /\ asked' # asked
    /\ Stay({s \in Sections : asked'[s] # asked[s]})

Work ==
    /\ UNCHANGED asked
    /\ Stay({})

Next == (Ask \/ Work) /\ Brought'

Spec == Init /\ [][Next]_<<asked, force, lost, rest>>
=============================================================================
