---------------------------- MODULE ConfigSyncInv ----------------------------
(***************************************************************************)
(* The inductive invariant behind InForce: at every point of every request *)
(* what the column and the file still lack, and which flow owes it.        *)
(***************************************************************************)
EXTENDS ConfigSync

\* The section syncs of earlier requests, beside which others may be handled.
IsSync(x) == x.pc \in {"sections", "patch"} /\ ~x.more

\* Of two flows one is a sync, and the other has decided nothing or carries
\* other sections.
Company ==
    \A f, g \in Flows : f # g /\ flow[f].pc # "idle" /\ flow[g].pc # "idle" =>
        \/ IsSync(flow[f]) /\ flow[g].pc = "read"
        \/ IsSync(flow[g]) /\ flow[f].pc = "read"
        \/ /\ IsSync(flow[f]) /\ IsSync(flow[g])
           /\ flow[f].sections \cap flow[g].sections = {}

(***************************************************************************)
(* What a flow knows at each step                                          *)
(***************************************************************************)
SyncSteps   == {"sections", "patch"}
PullSteps   == {"pull", "pullRow", "pullSave"}
MergeSteps  == {"await", "merge", "mergeWrite"}
FullSteps   == {"full", "fullWrite"}
ResetSteps  == {"reload", "resave", "redeploy"}
EditSteps   == {"channelWrite", "rawWrite"}

\* A copy of the row is still the row, a default model or provider map that is
\* carried to the pod is there, and a token that was issued is the last.
Knows(x) ==
    /\ x.pc = "idle" => x = Idle
    /\ x.pc \in {"read", "pullSave", "resave"} => x.bot = row
    /\ x.pc \in SyncSteps =>
          /\ x.sections # {} /\ x.sections \subseteq {"models", "agents"}
          /\ \A s \in x.sections : row.cfg[s] # Absent
    /\ x.pc = "patch" => \A s \in x.sections : x.cfg[s] = row.cfg[s]
    /\ x.pc = "fullWrite" => x.cfg = Column
    /\ x.pc \in MergeSteps => /\ x.bot.cfg = row.cfg /\ x.bot.token = row.token
                              /\ cmd.kind = "ifAbsent"
    /\ x.pc = "await" => "models" \in x.sections
    /\ x.pc \in PullSteps => x.sections \subseteq {"channels"}
    /\ x.pc = "channelWrite" => x.sections = {"channels"}
    /\ x.pc \in ResetSteps =>
          /\ x.sections = {"auth"} /\ asked.auth = issued
          /\ x.more => file # Absent
    /\ x.pc \in {"reload", "resave"} => x.cfg.auth = issued
    /\ x.pc = "redeploy" => x.more /\ x.bot.token = row.token
    /\ x.pc \in {"resave", "redeploy"} =>
          \A s \in Sections \ {"auth"} : x.cfg[s] = row.cfg[s]
    /\ x.pc \in SyncSteps \cup PullSteps \cup EditSteps => row.status = "running"
    /\ pod = "pending" => x.pc \in {"idle"} \cup MergeSteps \cup FullSteps

(***************************************************************************)
(* The pod and its start command                                           *)
(***************************************************************************)
\* The sections that are as asked in the file, and in the column.
InFile   == IF file = Absent THEN {} ELSE Matching(file, asked)
InColumn == Matching(Column, asked)

\* Sections that a start overwrites with what is not as asked, unnoticed.
Stale == IF cmd.kind = "always"
            THEN Sections \ (cmd.touched \cup Matching(cmd.cfg, asked)) ELSE {}

Tokens == row.token = issued /\ asked.auth \in {issued, Password}

\* Before the file is written there is no container, and the command that will
\* write it knows what was asked.
Unwritten ==
    file = Absent =>
        /\ ~old /\ pod \in {"none", "pending"}
        /\ asked.auth = Password => "auth" \in lost
        /\ cmd.kind # "always"
        /\ pod = "pending" => /\ cmd.touched = {}
                              /\ Sections \subseteq lost \cup Matching(cmd.cfg, asked)

\* What a start would undo has been undone before, in all places.
Undone ==
    /\ "auth" \notin Stale
    /\ Stale \subseteq lost
    /\ Stale \cap InColumn = {}
    /\ pod # "pending" => Stale \cap InFile = {}

\* A bot that is not stopped has a Deployment, and a Deployment has a pod.
HasDeployment == row.status # "stopped" \/ cmd.kind # "none" => pod # "none"

(***************************************************************************)
(* What is still to be done                                                *)
(***************************************************************************)
OwesColumn(x) == x.pc \in PullSteps \cup {"reload", "resave"}

\* A reset that will not redeploy brings nothing to the file.
OwesFile(x) == \/ x.pc \in SyncSteps \cup FullSteps \cup MergeSteps
               \/ x.pc \in ResetSteps /\ x.more

OwedToColumn ==
    {s \in Sections : \E f \in Flows : OwesColumn(flow[f]) /\ s \in flow[f].sections}

\* Besides what flows carry: a start of the bot carries the models, and a
\* container that overwrites the file carries everything.
OwedToFile ==
    {s \in Sections : \E f \in Flows : OwesFile(flow[f]) /\ s \in flow[f].sections}
        \cup (IF row.status = "running" THEN {} ELSE {"models"})
        \cup (IF cmd.kind = "always" /\ pod = "pending" THEN Sections ELSE {})

ColumnKept == Sections \subseteq lost \cup OwedToColumn \cup InColumn
FileKept   == file # Absent => Sections \subseteq lost \cup OwedToFile \cup InFile

\* The sections of a copy of the file that its holder means to change.
Changing(x) ==
    CASE x.pc = "channelWrite" -> {"channels"}
      [] x.pc = "rawWrite"     -> x.sections
      [] x.pc = "mergeWrite"   -> x.sections \ {"models"}
      [] OTHER                 -> {}

\* The channels as they will be asked for when a flow has written them.
WithAccount(x) ==
    IF x.account \in x.cfg.channels THEN asked.channels \cup {x.account}
                                    ELSE asked.channels \ {x.account}

\* The sections that a copy must have right: those that are not lost, and those
\* that a container which patches the file may find right again.
Kept == (Sections \ lost)
           \cup (IF cmd.kind = "ifAbsent" THEN InFile \cap InColumn ELSE {})

\* A copy of the file that will be written back, to the file or to the column,
\* has them right; and no copy brings back what a start would undo.
Holds(x) ==
    x.pc \in {"channelWrite", "rawWrite", "mergeWrite", "pullRow", "pullSave"} =>
        /\ file # Absent
        /\ Kept \subseteq Changing(x) \cup Matching(x.cfg, asked)
        /\ Stale \cap Matching(x.cfg, asked) \subseteq Changing(x)
        /\ x.pc = "channelWrite" /\ "channels" \in Kept =>
              x.cfg.channels = WithAccount(x)

\* What each step of each flow relies on, and what it leaves.
Inv ==
    /\ Company
    /\ \A f \in Flows : Knows(flow[f]) /\ Holds(flow[f])
    /\ Tokens /\ Unwritten /\ Undone /\ HasDeployment
    /\ ColumnKept /\ FileKept
-----------------------------------------------------------------------------
Contract == INSTANCE ConfigContract WITH force <- InFile \cap InColumn, rest <- AtRest

\* Beside InForce: a section that is as asked in the file and in the column stays
\* so, at every step of every sync, pull, merge and start, until a client asks for
\* another or the section is lost (config_sync.go, botconfig.go, deployment.go).
KeepsContract == Contract!Spec
=============================================================================
