---------------------------- MODULE QuoteVersions -----------------------------
(***************************************************************************)
(* The versions of a quote: createQuoteVersion                             *)
(* (packages/business/src/crm/quote-service.ts) behind its route, and the  *)
(* other writer of a quote's artifact, createArtifactVersion               *)
(* (packages/business/src/governance/artifact-service.ts) behind the route *)
(* for artifact versions, whose body the quote service runs as well.       *)
(*                                                                         *)
(* A call is one transaction at READ COMMITTED: every read sees what is    *)
(* committed when it is made, and its own rows become visible at COMMIT.   *)
(* Three things make calls wait for each other: the advisory lock of the   *)
(* opportunity's quotes, the unique index over (artifact, version), where  *)
(* a second insert waits for the end of the first, and the advisory lock   *)
(* of the audit chain.  All are held to the end of the transaction, so     *)
(* that who holds one can be read off the steps of the calls.              *)
(*                                                                         *)
(* A call makes at most one quote, one artifact and one artifact version;  *)
(* the name of the call stands for their ids and for the content hash of   *)
(* the quote, which covers ids made for it and is shared by no other.      *)
(*                                                                         *)
(* Of the lines of a quote one quantity is left: it is what a trigger on   *)
(* the line's row can refuse a line for that the service has let pass.     *)
(* Left out: prices and the commercial snapshot, the checks of catalog,    *)
(* scope and assignment (a refusal is a Rollback), and rows of a quote     *)
(* from before there were artifacts.                                       *)
(***************************************************************************)
EXTENDS Integers, Sequences

CONSTANTS
    Opps,       \* opportunities of one project, hence of one audit chain
    Calls,      \* requests
    Drafts,     \* contents an editor of an artifact may send
    Quantities, \* quantities of a line, in hundredths
    Any,        \* an expectation that is not stated (undefined)
    None        \* null: no quote, no version

ASSUME QuoteConstants ==
    /\ Quantities \subseteq Nat \ {0}
    /\ Any \notin Calls /\ None \notin Calls \cup Opps /\ Any # None
    /\ Calls \cap Drafts = {}

VARIABLES
    passing,    \* opportunities whose qualification is passed, of the current scoring version
    quotes,     \* rows of quotes for each opportunity, as their transactions committed
    versions,   \* rows of artifact_versions
    pointer,    \* current version and revision of each artifact
    trail,      \* rows of the audit chain
    step,       \* how far the transaction of each request has come
    ask,        \* what each request asks for
    seen,       \* the latest quote it has read and the number its own will have
    base        \* the artifact it writes to and the current version it expects there

rows == <<quotes, versions, pointer, trail>>
vars == <<passing, quotes, versions, pointer, trail, step, ask, seen, base>>

Steps == {"new", "asked", "locked", "passed", "current", "based", "checked", "inserted",
          "appended", "done", "failed"}
Ended == {"done", "failed"}

Quote == [id : Calls, version : Nat, supersedes : Calls \cup {None}]
Version == [artifact : Calls, number : Nat, content : Calls \cup Drafts]
NoVersion == [artifact |-> None, number |-> 0, content |-> None]
Pointer == [version : Calls \cup {None}, revision : Nat]
NoPointer == [version |-> None, revision |-> 0]
Row == [event : {"artifact.version.created", "quote.version_created"}, of : Calls]
Reading == [latest : Calls \cup {None}, version : Nat]
Basis == [artifact : Calls \cup {None}, version : Calls \cup {None}, revision : Nat]
Request == [kind : {"none", "quote", "edit"}, opp : Opps \cup {None}, expects : Calls \cup {Any},
            hash : Calls \cup {Any}, quantity : Quantities \cup {0},
            content : Calls \cup Drafts \cup {None}]
NoRequest == [kind |-> "none", opp |-> None, expects |-> Any, hash |-> Any, quantity |-> 0,
              content |-> None]

Init ==
    /\ passing = {}
    /\ quotes = [o \in Opps |-> <<>>]
    /\ versions = [c \in Calls |-> NoVersion]
    /\ pointer = [c \in Calls |-> NoPointer]
    /\ trail = <<>>
    /\ step = [c \in Calls |-> "new"]
    /\ ask = [c \in Calls |-> NoRequest]
    /\ seen = [c \in Calls |-> [latest |-> None, version |-> 0]]
    /\ base = [c \in Calls |-> [artifact |-> None, version |-> None, revision |-> 0]]

IsQuote(c) == ask[c].kind = "quote"

Goes(c, s) == step' = [step EXCEPT ![c] = s]

-----------------------------------------------------------------------------
(* The requests, as they leave their routes *)

\* A quote that its maker has been told of.
Known == {c \in Calls : IsQuote(c) /\ step[c] = "done"}

\* Slip: the route hands a null on.
ForServiceVerbatim(e) == e

\* body.expectedCurrentQuoteId ?? undefined
ForService(e) == IF e = None THEN Any ELSE e

AskQuote(c, o, e, h, q) ==
    /\ step[c] = "new"
    /\ ask' = [ask EXCEPT ![c] = [kind |-> "quote", opp |-> o, expects |-> ForService(e),
                                 hash |-> ForService(h), quantity |-> q, content |-> c]]
    /\ Goes(c, "asked")
    /\ UNCHANGED <<passing, seen, base>> /\ UNCHANGED rows

\* An editor names a version of the artifact together with its revision.
AskEdit(c, v, d) ==
    /\ step[c] = "new"
    /\ versions[v] # NoVersion
    /\ ask' = [ask EXCEPT ![c] = [kind |-> "edit", opp |-> None, expects |-> Any, hash |-> Any,
                                 quantity |-> 0, content |-> d]]
    /\ base' = [base EXCEPT ![c] = [artifact |-> versions[v].artifact, version |-> v,
                                   revision |-> versions[v].number]]
    /\ Goes(c, "based")
    /\ UNCHANGED <<passing, seen>> /\ UNCHANGED rows

-----------------------------------------------------------------------------
(* createQuoteVersion up to its artifact *)

\* Slip: the lock is that of the session and outlives the transaction.
InsideOrFailed(c) == IsQuote(c) /\ step[c] \notin {"new", "asked", "done"}

Inside(c) == IsQuote(c) /\ step[c] \notin {"new", "asked"} \cup Ended

\* Slip: the lock is shared.
LockIsShared(o) == TRUE

LockIsFree(o) == \A d \in Calls : ~(Inside(d) /\ ask[d].opp = o)

Lock(c) ==
    /\ step[c] = "asked"
    /\ LockIsFree(ask[c].opp)
    /\ Goes(c, "locked")
    /\ UNCHANGED <<passing, ask, seen, base>> /\ UNCHANGED rows

\* The opportunity's qualification has to be passed when it is read.
ReadDeal(c) ==
    /\ step[c] = "locked"
    /\ Goes(c, IF ask[c].opp \in passing THEN "passed" ELSE "failed")
    /\ UNCHANGED <<passing, ask, seen, base>> /\ UNCHANGED rows

\* findFirst, by version from the highest.
RowsOf(o) == {quotes[o][i] : i \in DOMAIN quotes[o]}
Latest(o) == CHOOSE r \in RowsOf(o) : \A s \in RowsOf(o) : s.version <= r.version
LatestId(o) == IF RowsOf(o) = {} THEN None ELSE Latest(o).id
LatestVersion(o) == IF RowsOf(o) = {} THEN 0 ELSE Latest(o).version

\* Slip: any quote of the opportunity will do.
MeetsExpectationOnce(c) ==
    LET o == ask[c].opp IN
    /\ ask[c].expects # Any => \E r \in RowsOf(o) : ask[c].expects = r.id
    /\ ask[c].hash # Any /\ RowsOf(o) # {} => ask[c].hash = LatestId(o)

\* The hash is compared only if there is a quote to compare it with.
MeetsExpectation(c) ==
    LET o == ask[c].opp IN
    /\ ask[c].expects # Any => ask[c].expects = LatestId(o)
    /\ ask[c].hash # Any /\ RowsOf(o) # {} => ask[c].hash = LatestId(o)

ReadLatest(c) ==
    /\ step[c] = "passed"
    /\ IF MeetsExpectation(c)
       THEN /\ seen' = [seen EXCEPT ![c] = [latest |-> LatestId(ask[c].opp),
                                           version |-> LatestVersion(ask[c].opp) + 1]]
            /\ Goes(c, "current")
       ELSE Goes(c, "failed") /\ UNCHANGED seen
    /\ UNCHANGED <<passing, ask, base>> /\ UNCHANGED rows

\* Slip: a new artifact whenever the caller did not say which quote it builds on.
ArtifactUnlessNamed(c) ==
    IF ask[c].expects = Any THEN c ELSE versions[seen[c].latest].artifact

\* The artifact of the latest quote; a new one for the first quote.
ArtifactFor(c) == IF seen[c].latest = None THEN c ELSE versions[seen[c].latest].artifact

\* Whatever is current in the artifact by now, the version of the latest quote or an edit of it.
ReadArtifact(c) ==
    LET a == ArtifactFor(c) IN
    /\ step[c] = "current"
    /\ base' = [base EXCEPT ![c] = [artifact |-> a, version |-> pointer[a].version,
                                   revision |-> pointer[a].revision]]
    /\ Goes(c, "based")
    /\ UNCHANGED <<passing, ask, seen>> /\ UNCHANGED rows

-----------------------------------------------------------------------------
(* createArtifactVersion, for a quote and for an editor *)

PointerIsExpected(c) ==
    LET p == pointer[base[c].artifact] IN
    p.version = base[c].version /\ p.revision = base[c].revision

\* The content is that of the current version already.
IsNothingNew(c) ==
    base[c].version # None /\ versions[base[c].version].content = ask[c].content

CheckPointer(c) ==
    /\ step[c] = "based"
    /\ Goes(c, IF ~PointerIsExpected(c) THEN "failed"
               ELSE IF IsNothingNew(c) THEN "done" ELSE "checked")
    /\ UNCHANGED <<passing, ask, seen, base>> /\ UNCHANGED rows

\* Uncommitted rows of artifact_versions.
Holds(d) == step[d] \in {"inserted", "appended"}

\* Unique indexes over (artifact, version) and (artifact, content hash).
Collides(c, a, n, x) ==
    a = base[c].artifact /\ (n = base[c].revision + 1 \/ x = ask[c].content)

\* The insert waits for an uncommitted row that it collides with and fails on a committed one; the
\* CAS of the pointer follows.
InsertVersion(c) ==
    /\ step[c] = "checked"
    /\ \A d \in Calls :
          ~(Holds(d) /\ Collides(c, base[d].artifact, base[d].revision + 1, ask[d].content))
    /\ Goes(c, IF \/ \E v \in Calls : Collides(c, versions[v].artifact, versions[v].number,
                                               versions[v].content)
                  \/ ~PointerIsExpected(c)
               THEN "failed" ELSE "inserted")
    /\ UNCHANGED <<passing, ask, seen, base>> /\ UNCHANGED rows

ChainIsFree == \A d \in Calls : step[d] # "appended"

Told(event, c) == [event |-> event, of |-> c]

\* Slip: the row is appended by a connection of its own.
AppendOutside(c) ==
    /\ step[c] = "inserted"
    /\ ChainIsFree
    /\ trail' = Append(trail, Told("artifact.version.created", c))
    /\ Goes(c, "appended")
    /\ UNCHANGED <<passing, quotes, versions, pointer, ask, seen, base>>

\* artifact.version.created, with the advisory lock of the audit chain.
AppendAudit(c) ==
    /\ step[c] = "inserted"
    /\ ChainIsFree
    /\ Goes(c, "appended")
    /\ UNCHANGED <<passing, ask, seen, base>> /\ UNCHANGED rows

Publish(c) ==
    /\ versions' = [versions EXCEPT ![c] = [artifact |-> base[c].artifact,
                                           number |-> base[c].revision + 1,
                                           content |-> ask[c].content]]
    /\ pointer' = [pointer EXCEPT ![base[c].artifact] = [version |-> c,
                                                        revision |-> base[c].revision + 1]]

CommitEdit(c) ==
    /\ step[c] = "appended" /\ ~IsQuote(c)
    /\ Publish(c)
    /\ trail' = Append(trail, Told("artifact.version.created", c))
    /\ Goes(c, "done")
    /\ UNCHANGED <<passing, quotes, ask, seen, base>>

-----------------------------------------------------------------------------
(* The rows of the quote *)

\* Trailing zeros of a numeral, taken off.
Stripped[n \in Nat \ {0}] == IF n % 10 = 0 THEN Stripped[n \div 10] ELSE n

\* quantityDecimal of the line's snapshot, .replace(/\.?0+$/, ""), read as hundredths: without a
\* point in the numeral the zeros it takes off are those of the whole number.
InSnapshot(q) == IF q % 100 = 0 THEN 100 * Stripped[q \div 100] ELSE q

\* The trigger trims the column's six decimals, where the point stops it.
InColumn(q) == q

\* quote_line_fulfillment_v1_validate_fn compares the snapshot with the typed columns.
LineIsKept(c) == InSnapshot(ask[c].quantity) = InColumn(ask[c].quantity)

\* The quote, its lines and snapshot, its audit row, and COMMIT; a refused line ends the transaction.
CommitQuote(c) ==
    LET o == ask[c].opp IN
    /\ step[c] = "appended" /\ IsQuote(c)
    /\ IF LineIsKept(c)
       THEN /\ Publish(c)
            /\ quotes' = [quotes EXCEPT ![o] = Append(@, [id |-> c, version |-> seen[c].version,
                                                         supersedes |-> seen[c].latest])]
            /\ trail' = trail \o <<Told("artifact.version.created", c),
                                   Told("quote.version_created", c)>>
            /\ Goes(c, "done")
       ELSE Goes(c, "failed") /\ UNCHANGED rows
    /\ UNCHANGED <<passing, ask, seen, base>>

\* A refusal that is not modelled, a failed statement, a timeout or a lost connection.
Rollback(c) ==
    /\ step[c] \notin {"new"} \cup Ended
    /\ Goes(c, "failed")
    /\ UNCHANGED <<passing, ask, seen, base>> /\ UNCHANGED rows

-----------------------------------------------------------------------------
Proceeds(c) ==
    \/ Lock(c) \/ ReadDeal(c) \/ ReadLatest(c) \/ ReadArtifact(c)
    \/ CheckPointer(c) \/ InsertVersion(c) \/ AppendAudit(c)
    \/ CommitEdit(c) \/ CommitQuote(c)

Asks(c) ==
    \/ \E o \in Opps, e \in Known \cup {Any, None}, h \in Known \cup {Any}, q \in Quantities :
          AskQuote(c, o, e, h, q)
    \/ \E v \in Calls, d \in Drafts : AskEdit(c, v, d)

\* The qualification is revised and passes or no longer does.
Requalify(o) ==
    /\ passing' = IF o \in passing THEN passing \ {o} ELSE passing \cup {o}
    /\ UNCHANGED <<step, ask, seen, base>> /\ UNCHANGED rows

Next ==
    \/ \E o \in Opps : Requalify(o)
    \/ \E c \in Calls : Asks(c) \/ Proceeds(c) \/ Rollback(c)

\* A statement that can run is run, and whoever waits for a lock gets its turn.
Fairness == \A c \in Calls : SF_vars(Proceeds(c))

Spec == Init /\ [][Next]_vars
FairSpec == Spec /\ Fairness
-----------------------------------------------------------------------------
(* Properties *)

\* Rows, requests and readings have their declared shape; no request expects a null.
TypeOK ==
    /\ passing \subseteq Opps
    /\ quotes \in [Opps -> Seq(Quote)]
    /\ versions \in [Calls -> Version \cup {NoVersion}]
    /\ pointer \in [Calls -> Pointer]
    /\ trail \in Seq(Row)
    /\ step \in [Calls -> Steps]
    /\ ask \in [Calls -> Request]
    /\ seen \in [Calls -> Reading]
    /\ base \in [Calls -> Basis]

\* However calls for an opportunity race, fail or are repeated, its quotes form one line: numbered
\* without a gap, each superseding the one before it, so that none has two successors.
OneLine ==
    \A o \in Opps : \A i \in DOMAIN quotes[o] :
        /\ quotes[o][i].version = i
        /\ quotes[o][i].supersedes = IF i = 1 THEN None ELSE quotes[o][i - 1].id

\* The quotes of an opportunity are versions of one artifact, in the order of the quotes.
InOneArtifact ==
    \A o \in Opps : \A i, j \in DOMAIN quotes[o] : i < j =>
        LET v == versions[quotes[o][i].id]
            w == versions[quotes[o][j].id]
        IN  v.artifact = w.artifact /\ v.number < w.number

\* The versions of an artifact, of whatever writer, are numbered from 1 to the revision of its
\* pointer, each number once; no two have one content, and the pointer names the last.
VersionsOf(a) == {v \in Calls : versions[v].artifact = a}
VersionsAreGapless ==
    \A a \in Calls :
        /\ {versions[v].number : v \in VersionsOf(a)} = 1..pointer[a].revision
        /\ \A v, w \in VersionsOf(a) :
              versions[v].number = versions[w].number \/ versions[v].content = versions[w].content
              => v = w
        /\ pointer[a].revision # 0 =>
              pointer[a].version \in VersionsOf(a)
              /\ versions[pointer[a].version].number = pointer[a].revision

\* However quotes and edits race, a quote's artifact is one unbroken line of versions, and the quotes
\* stand in it in their order: an approval that names an artifact version stays with its quote.
OneArtifact == InOneArtifact /\ VersionsAreGapless

\* A published version, which approvals are bound to, is never changed; the pointer of an artifact
\* moves only to a version published in that step, one number further than it was.
PublishedVersionsStand ==
    [][ \A a \in Calls :
            /\ versions[a] # NoVersion => versions'[a] = versions[a]
            /\ pointer'[a] # pointer[a] => \E c \in Calls :
                  /\ versions[c] = NoVersion
                  /\ versions'[c].artifact = a
                  /\ versions'[c].number = pointer[a].revision + 1
                  /\ pointer'[a] = [version |-> c, revision |-> pointer[a].revision + 1] ]_vars

\* A quote is made whole or not at all: a call is told of success exactly if its quote and its
\* version are there.
CallsAreWhole ==
    \A c \in Calls : IsQuote(c) =>
        /\ step[c] = "done" <=> \E i \in DOMAIN quotes[ask[c].opp] : quotes[ask[c].opp][i].id = c
        /\ step[c] = "done" <=> versions[c] # NoVersion

\* The audit chain has a row for every quote and every version and for nothing that was rolled back,
\* no row twice, and the quotes of an opportunity in the order of the line.
TrailTellsRows ==
    /\ \A c \in Calls :
          /\ (\E i \in DOMAIN trail : trail[i] = Told("artifact.version.created", c))
                <=> versions[c] # NoVersion
          /\ (\E i \in DOMAIN trail : trail[i] = Told("quote.version_created", c))
                <=> \E o \in Opps : \E r \in RowsOf(o) : r.id = c
    /\ \A i, j \in DOMAIN trail : i < j =>
          /\ trail[i] # trail[j]
          /\ \A o \in Opps : \A m, n \in DOMAIN quotes[o] :
                /\ trail[i] = Told("quote.version_created", quotes[o][m].id)
                /\ trail[j] = Told("quote.version_created", quotes[o][n].id)
                => m < n

\* Whatever fails between the first row of a quote and its commit, quote, version and audit rows are
\* there together or none is, and the caller is told which.
TrailTellsQuotes == CallsAreWhole /\ TrailTellsRows

\* Calls that wait for the quote lock, for an uncommitted version and for the audit chain never wait
\* for each other in a ring, and nobody keeps a lock: every call ends.
EveryCallEnds ==
    \A c \in Calls : (step[c] \notin {"new"} \cup Ended) ~> (step[c] \in Ended)

\* createQuoteVersion implements an append-only book in which a caller who names the quote it builds
\* on is put right behind that quote.
EntryOf(q) == [id |-> q.id, expects |-> ask[q.id].expects, hash |-> ask[q.id].hash]
BookOf(o) == [i \in DOMAIN quotes[o] |-> EntryOf(quotes[o][i])]
Book == [o \in Opps |-> BookOf(o)]
Abstract == INSTANCE QuoteBook WITH book <- Book
ImplementsQuoteBook == Abstract!Spec

\* quote-service.ts takes what it writes for "canonical quantityDecimal: trim trailing zeros and
\* decimals", the form the trigger compares with: no quantity that it lets pass is refused there.
QuantitiesAreKept == \A c \in Calls : step[c] = "appended" /\ IsQuote(c) => LineIsKept(c)
-----------------------------------------------------------------------------
(* The inductive invariant behind the theorems of QuoteVersionsProofs *)

LastId(o) == IF quotes[o] = <<>> THEN None ELSE quotes[o][Len(quotes[o])].id

\* Only a quote takes the steps before there is an artifact, and what it writes bears its name.
RequestIsSound(c) ==
    /\ step[c] = "new" <=> ask[c].kind = "none"
    /\ step[c] \in {"asked", "locked", "passed", "current"} => IsQuote(c)
    /\ step[c] # "new" => ask[c].content \in Calls \cup Drafts
    /\ IsQuote(c) => ask[c].opp \in Opps
RequestsAreSound == \A c \in Calls : RequestIsSound(c)

\* Quotes are rows of calls that have ended, each in the line of its opportunity and once.
QuotesAreOfCalls ==
    \A o \in Opps : \A i \in DOMAIN quotes[o] :
        LET c == quotes[o][i].id IN
        /\ IsQuote(c) /\ step[c] = "done" /\ ask[c].opp = o
        /\ versions[c] # NoVersion
        /\ \A j \in DOMAIN quotes[o] : quotes[o][j].id = c => i = j

\* The pointer of an artifact is at its highest version.
VersionIsSound(c) ==
    versions[c] # NoVersion =>
        /\ step[c] = "done"
        /\ versions[c].number <= pointer[versions[c].artifact].revision
VersionsAreSound == \A c \in Calls : VersionIsSound(c)

LockIsExclusive ==
    \A c, d \in Calls : Inside(c) /\ Inside(d) /\ ask[c].opp = ask[d].opp => c = d

\* What a call has read under the quote lock stays as it was read.
ReadsStand(c) ==
    Inside(c) /\ step[c] \notin {"locked", "passed"} =>
        LET o == ask[c].opp IN
        /\ seen[c].latest = LastId(o)
        /\ seen[c].version = Len(quotes[o]) + 1
        /\ ask[c].expects \in {Any, LastId(o)}
        /\ ask[c].hash \in {Any, LastId(o)} \/ quotes[o] = <<>>
        /\ step[c] # "current" => base[c].artifact = ArtifactFor(c)
AllReadsStand == \A c \in Calls : ReadsStand(c)

\* An uncommitted version is the only one of its artifact, and the pointer is where it expects it.
HoldersAreSound ==
    /\ \A c \in Calls : step[c] \in {"based", "checked", "inserted", "appended"} =>
          base[c].artifact \in Calls
    /\ \A c \in Calls : Holds(c) => PointerIsExpected(c)
    /\ \A c, d \in Calls : Holds(c) /\ Holds(d) /\ base[c].artifact = base[d].artifact => c = d

QuoteInv ==
    /\ TypeOK
    /\ RequestsAreSound
    /\ QuotesAreOfCalls
    /\ VersionsAreSound
    /\ LockIsExclusive
    /\ AllReadsStand
    /\ HoldersAreSound
    /\ OneLine
    /\ InOneArtifact
    /\ TrailTellsRows

\* A quote's version has the content made for it, an editor's one of the editor's.
ContentsAreOwn ==
    \A c \in Calls :
        /\ IsQuote(c) => ask[c].content = c
        /\ ask[c].kind = "edit" => ask[c].content \in Drafts
        /\ versions[c] # NoVersion => versions[c].content = ask[c].content

\* An uncommitted version collides with no committed one, and stays so to its commit.
HoldersAreNew ==
    \A c, v \in Calls : Holds(c) /\ versions[v].artifact = base[c].artifact =>
        versions[v].content # ask[c].content

BookInv ==
    /\ VersionsAreGapless
    /\ CallsAreWhole
    /\ ContentsAreOwn
    /\ HoldersAreNew
=============================================================================
