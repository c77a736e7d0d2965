------------------------- MODULE MCOpportunityCenter -------------------------
(* TLC instances of OpportunityCenter. *)
EXTENDS OpportunityCenter, TLC

CONSTANTS o1, o2

To(stage) == [stage |-> stage, dealType |-> None, title |-> None]

\* A step that needs the assessment, one that needs the registration and renames the deal, and the
\* two outcomes.
SomeChanges ==
    {To("QUALIFIED"), [To("NEGOTIATION") EXCEPT !.title = "t2"], To("WON"), To("LOST")}

\* A deal not yet assessed, and one that waits for its proof of concept, perhaps archived.
SeedOf(archived, stage, t) ==
    [archived |-> archived, stage |-> stage, dealType |-> "NEW_BUILD", title |-> "t1", updatedAt |-> t]
Waiting ==
    {SeedOf(FALSE, stage, t) : stage \in {"LEAD", "POC"}, t \in Tokens}
    \cup {SeedOf(TRUE, "POC", t) : t \in Tokens}

CommandOf(op, k, o, t, change, title, p, revision, verdict) ==
    [op |-> op, key |-> k, opp |-> o, token |-> t, changes |-> change, title |-> title,
     poc |-> p, expectedRevision |-> revision, passed |-> verdict]

MaybeKey == Keys \cup {None}
OpenCommands ==
    {CommandOf(op, k, None, None, None, title, None, 0, FALSE) :
        op \in {"create", "merge"}, k \in MaybeKey, title \in Titles}
UpdateCommands ==
    {CommandOf("update", k, o, t, change, None, None, 0, FALSE) :
        k \in MaybeKey, o \in Opps, t \in Tokens, change \in Changes}
CloseCommands ==
    {CommandOf(op, k, o, t, None, None, None, 0, FALSE) :
        op \in {"archive", "convert"}, k \in MaybeKey, o \in Opps, t \in Tokens}
LinkCommands ==
    {CommandOf(op, k, o, t, None, None, p, 0, FALSE) :
        op \in {"addLink", "removeLink"}, k \in MaybeKey, o \in Opps, t \in Tokens, p \in Pocs}
QualifyCommands ==
    {CommandOf("qualify", k, o, None, None, None, None, n, verdict) :
        k \in MaybeKey, o \in Opps, n \in 0..MaxRecords, verdict \in BOOLEAN}
PocCommands ==
    {CommandOf("createPoc", None, o, None, None, None, p, 0, FALSE) : o \in Opps, p \in Pocs}
RestoreCommands ==
    {CommandOf(op, None, o, t, None, None, None, 0, FALSE) : op \in Restores, o \in Opps, t \in Tokens}
Commands ==
    OpenCommands \cup UpdateCommands \cup CloseCommands \cup LinkCommands \cup QualifyCommands
    \cup PocCommands \cup RestoreCommands

\* The second deal gathers no proof of concept and is neither archived nor restored; a key comes with
\* a command that a client may send twice, and with the first assessment of the first deal.
SomeCommands ==
    {c \in Commands :
        /\ c.opp = o2 => c.op \in {"update", "qualify", "convert"}
        /\ c.key # None => c.op \in {"create", "merge", "update", "qualify", "convert"}
        /\ c.op = "qualify" => c.expectedRevision <= 1
        /\ c.op = "qualify" /\ c.key # None => c.opp = o1 /\ c.expectedRevision = 0}

Interchangeable == Permutations(Sessions) \cup Permutations(Tokens)
=============================================================================
